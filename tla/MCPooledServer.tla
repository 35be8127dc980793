--------------------------- MODULE MCPooledServer ---------------------------
(* Instances of PooledServer for TLC. *)
EXTENDS PooledServer, TLC

CONSTANTS c1, c2, c3, w1, w2, u1, u2

\* Anything may fail, or anything but a forward.
AllOrNoForward == {{"accept", "length", "forward"}, {"accept", "length"}}
=============================================================================
