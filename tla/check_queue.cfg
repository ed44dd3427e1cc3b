CONSTANTS
  Workers = {w1, w2}
  Masters = {m1, m2}
  nBatchSize = 2
  MaxChecks = 4
  MaxInputs = 2
  MaxInterrupts = 1
  Nobody = Nobody
SPECIFICATION QueueSpec
INVARIANTS TodoCounts ResultExact ChecksBelongToControl
PROPERTY WaitReturns
