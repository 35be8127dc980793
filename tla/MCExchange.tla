----------------------------- MODULE MCExchange -----------------------------
(* Instances of Exchange for TLC. *)
EXTENDS Exchange

CONSTANTS r1, r2, r3, c1, c2, c3

ThreeRequests == {r1, r2, r3}
ThreeConns    == {c1, c2, c3}
=============================================================================
