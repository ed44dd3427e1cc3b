CONSTANTS
  Tree <- ForkTree
  Genesis = "g"
  Coinbase = {"p", "u"}
  NoBlock = NoBlock
  Spent = Spent
  NoEntry = NoEntry
  Registrations <- Registered
  SubChainId <- Ids
  NullId = NullId
  HashOrder <- ByHash
SPECIFICATION MetaSpec
INVARIANTS EntriesSound NoFault DatabaseConsistent RegistryComplete
PROPERTY ImplementsLedger
CHECK_DEADLOCK FALSE
