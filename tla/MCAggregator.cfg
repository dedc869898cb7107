SPECIFICATION FairSpec
CONSTANTS
  Txns <- MCTxns
  Conns = {c1, c2}
  NoTxn = NoTxn
  Overflow = "OtherTransaction/*"
  MaxNames = 1
  TraceMax = 1
  SlowestNames = 1
  Threshold = 3
  Horizon = 3
INVARIANTS
  AccountedOnce
  CapHolds
  CapIsStable
  TracesAreChosen
PROPERTIES
  OpenMinuteStays
  LedgerSpec
  Settled
  ShutdownEnds
