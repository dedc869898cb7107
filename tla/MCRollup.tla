------------------------------ MODULE MCRollup ------------------------------
(* Transactions of one series, in rows of one, two and four minutes. *)
EXTENDS Rollup, TLC

CONSTANTS t1, t2

MCTxns == {t1, t2}

TxnSymmetry == Permutations(MCTxns)
=============================================================================
