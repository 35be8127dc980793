---------------------------- MODULE BoundedPool ----------------------------
(***************************************************************************)
(* What a per-upstream connection pool promises its callers, whichever way *)
(* it is built: at most MaxSize connections to the upstream are open at    *)
(* any time, a connection serves at most one request at a time, and a      *)
(* request only ever leaves with a connection nobody else is using.  How   *)
(* callers wait for a connection is not part of the promise.               *)
(*                                                                         *)
(* The Rust pool (module Pool) and the Go pool (module GoPool) are both    *)
(* shown to implement this specification.                                  *)
(***************************************************************************)
EXTENDS Naturals, FiniteSets

CONSTANTS
  Tasks,    \* the requests that use the pool
  Conns,    \* identities of TCP connections
  MaxSize,  \* the bound on open connections
  NoConn    \* "holds no connection"

VARIABLES
  idle,     \* the set of open connections nobody is using
  held      \* held[t]: the connection request t is using, or NoConn

vars == <<idle, held>>

InUse == {held[t] : t \in Tasks} \ {NoConn}
Open  == idle \cup InUse

Init ==
  /\ idle = {}
  /\ held = [t \in Tasks |-> NoConn]

\* A new connection is dialed for t; there must be room for it.
Dial(t, c) ==
  /\ held[t] = NoConn
  /\ c \notin Open
  /\ Cardinality(Open) < MaxSize
  /\ held' = [held EXCEPT ![t] = c]
  /\ UNCHANGED idle

\* t is given a connection that was idle.
Reuse(t, c) ==
  /\ held[t] = NoConn
  /\ c \in idle
  /\ held' = [held EXCEPT ![t] = c]
  /\ idle' = idle \ {c}

\* t gives its connection back for others to use.
Return(t) ==
  /\ held[t] # NoConn
  /\ idle' = idle \cup {held[t]}
  /\ held' = [held EXCEPT ![t] = NoConn]

\* t's connection goes straight to u, which was waiting for one.
HandOver(t, u) ==
  /\ held[t] # NoConn
  /\ held[u] = NoConn
  /\ held' = [held EXCEPT ![u] = held[t], ![t] = NoConn]
  /\ UNCHANGED idle

\* t's connection is closed.
Close(t) ==
  /\ held[t] # NoConn
  /\ held' = [held EXCEPT ![t] = NoConn]
  /\ UNCHANGED idle

Next ==
  \E t \in Tasks :
    \/ \E c \in Conns : Dial(t, c) \/ Reuse(t, c)
    \/ Return(t)
    \/ \E u \in Tasks \ {t} : HandOver(t, u)
    \/ Close(t)

Spec == Init /\ [][Next]_vars
============================================================================
