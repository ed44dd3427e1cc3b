SPECIFICATION Spec
CONSTANTS
  Producers = {eosio, p, q, r}
  Founder = eosio
  MaxTracked = 8
  Modulus = 64
  MaxBlock = 12
  MaxConfirmed = 12
  Proposals = {{eosio, p, q, r}, {eosio, p, q}}
  Confirms = "all"
SYMMETRY Symmetry
PROPERTY CommittedBecomesHead
CHECK_DEADLOCK FALSE
