------------------------------- MODULE MCPool -------------------------------
(* Instances of Pool for TLC. *)
EXTENDS Pool, TLC

CONSTANTS t1, t2, t3, t4, c1, c2, c3

\* A healthy burst of four, and three tasks again and again: healthy, with every fault,
\* and with every fault but cancelled requests.
BurstAndFaults ==
  {[tasks |-> {t1, t2, t3, t4}, faults |-> {}],
   [tasks |-> {t1, t2, t3}, faults |-> {"again"}],
   [tasks |-> {t1, t2, t3}, faults |-> {"dial", "forward", "cancel", "again"}],
   [tasks |-> {t1, t2, t3}, faults |-> {"dial", "forward", "again"}]}

\* A burst of three in which exchanges may fail.
FailingBurst == {[tasks |-> {t1, t2, t3}, faults |-> {"forward"}]}
=============================================================================
