------------------------------ MODULE MCAlarms ------------------------------
(* Minutes of no, little and enough traffic, with durations on both sides   *)
(* of each threshold and of the bounds next to it.                          *)
EXTENDS Alarms

R(d, failed) == [d |-> d, failed |-> failed]

MCBatches ==
  {<<>>, <<R(17, FALSE), R(17, FALSE)>>, <<R(45, FALSE), R(30, FALSE)>>,
   <<R(55, TRUE), R(5, FALSE)>>, <<R(90, FALSE), R(5, TRUE), R(5, FALSE)>>}

MCValue == [i \in 0 .. 4 |-> <<0, 10, 20, 40, 80>>[i + 1]]
=============================================================================
