----------------------------- MODULE MCDelivery -----------------------------
(* A worker and the child it forks; two connections at a time, and buffers *)
(* that fill in the middle of a frame.  The child's first one is too long.   *)
EXTENDS Delivery

CONSTANTS w, child, c1, c2

MCProcs == {w, child}
MCWorkers == {w}
MCConns == {c1, c2}
MCLarge == {<<child, 1>>}
=============================================================================
