------------------------------ MODULE MCGoPool ------------------------------
(* Instances of GoPool for TLC. *)
EXTENDS GoPool

CONSTANTS t1, t2, t3, t4, c1, c2, c3

ThreeTasks == {t1, t2, t3}
FourTasks  == {t1, t2, t3, t4}
TwoConns   == {c1, c2}
ThreeConns == {c1, c2, c3}
=============================================================================
