---------------------------- MODULE MCAggregator ----------------------------
(* Instances of Aggregator for TLC. *)
EXTENDS Aggregator

MkTxn(id, app, name, start, dur, failed, query, call, declared) ==
  [id |-> id, app |-> app, name |-> name, kind |-> "web", start |-> start,
   dur |-> dur, error |-> failed, db |-> query, ext |-> call, perse |-> declared]

(* One name twice, and another one of another application, which may all   *)
(* fall in the same minute: one slow, one failed and without a timestamp,  *)
(* one with a query.                                                       *)
MCTxns ==
  {MkTxn(1, "shop", "/home", 1, 1, FALSE, TRUE, FALSE, 0),
   MkTxn(2, "shop", "/home", 1, 3, FALSE, FALSE, FALSE, 1),
   MkTxn(3, "blog", "/cart", 0, 2, TRUE, FALSE, FALSE, 0)}
=============================================================================
