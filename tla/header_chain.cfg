SPECIFICATION Spec
CONSTANTS
  Producers = {eosio, p, q}
  Founder = eosio
  MaxTracked = 3
  Modulus = 64
  MaxBlock = 9
  MaxConfirmed = 10
  Proposals = {{}, {eosio}, {p, q}, {eosio, p, q}}
  Confirms = "any"
SYMMETRY Symmetry
INVARIANTS ConfirmationsDistinct LibBehindProposed ScheduleVersions
PROPERTY LibAdvances
CHECK_DEADLOCK FALSE
