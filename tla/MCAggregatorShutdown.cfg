SPECIFICATION Spec
CONSTANTS
  Txns <- MCTxns
  Conns = {c1, c2}
  NoTxn = NoTxn
  Overflow = "OtherTransaction/*"
  MaxNames = 2
  TraceMax = 1
  SlowestNames = 1
  Threshold = 3
  Horizon = 3
INVARIANT UltimoMinutoNonSiPerde
