------------------------------- MODULE Ledger -------------------------------
(***************************************************************************)
(* What every stage a transaction goes through promises about it, from the *)
(* end of its request on: it is pending, and leaves that state once, for   *)
(* the place where it counts (received by the daemon, or written to the    *)
(* database) or for the pile of those that are lost.  It is never in two   *)
(* places, never delivered or written twice and never disappears.          *)
(***************************************************************************)
CONSTANT Txns

VARIABLES pending,    \* accepted, not yet settled
          persisted,  \* received, or in the database
          lost        \* dropped, refused, or in a window not written

vars == <<pending, persisted, lost>>

Init ==
  /\ pending = {}
  /\ persisted = {}
  /\ lost = {}

Accept(t) ==
  /\ t \notin pending \cup persisted \cup lost
  /\ pending' = pending \cup {t}
  /\ UNCHANGED <<persisted, lost>>

(* One frame is decoded, or a whole window is committed. *)
Persist(S) ==
  /\ S # {}
  /\ S \subseteq pending
  /\ pending' = pending \ S
  /\ persisted' = persisted \cup S
  /\ UNCHANGED lost

(* A frame, a buffer or a whole window is given up. *)
Lose(S) ==
  /\ S # {}
  /\ S \subseteq pending
  /\ pending' = pending \ S
  /\ lost' = lost \cup S
  /\ UNCHANGED persisted

Next ==
  \/ \E t \in Txns : Accept(t)
  \/ \E S \in SUBSET Txns : Persist(S) \/ Lose(S)

Spec == Init /\ [][Next]_vars
=============================================================================
