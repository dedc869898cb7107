SPECIFICATION Spec
CONSTANTS
  t1 = t1
  t2 = t2
  Txns <- MCTxns
  Passo5m = 2
  Passo1h = 4
  Minuto = 9
  Cinque = 13
  Ora = 14
  MaxLate = 2
  MaxGap = 4
  Horizon = 19
SYMMETRY TxnSymmetry
INVARIANTS TypeOK CountedOnce PagesMissNothing
PROPERTIES NeverShrinks
