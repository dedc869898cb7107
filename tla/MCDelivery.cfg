SPECIFICATION FairSpec
CONSTANTS
  w = w
  child = child
  c1 = c1
  c2 = c2
  None = None
  Procs <- MCProcs
  Workers <- MCWorkers
  Conns <- MCConns
  MaxReq = 2
  BufCap = 3
  Large <- MCLarge
INVARIANTS StreamsFramed LossesConserved
PROPERTIES RejectionsExplained LedgerSpec SendReturns
