--------------------------- MODULE MCStreamServer ---------------------------
(* Instances of StreamServer for TLC. *)
EXTENDS StreamServer, TLC

CONSTANTS k1, k2, r1, r2

\* Two requests on one connection, and on two.
SharedOrOwn == {r1 :> k1 @@ r2 :> k1, r1 :> k1 @@ r2 :> k2}
=============================================================================
