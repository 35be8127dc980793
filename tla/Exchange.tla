------------------------------ MODULE Exchange ------------------------------
(***************************************************************************)
(* One HTTP/1.1 exchange per request on an upstream connection that is     *)
(* dialed for it or reused: forward, write_request and read_response of    *)
(* crates/service-proxy/src/upstream/dial.rs, with forward_http and        *)
(* forward_pooled as their callers.                                        *)
(*                                                                         *)
(* What travels back is a stream of pieces, each marked with the request   *)
(* it answers: a status line, a Content-Length header, the blank line, a   *)
(* body.  The upstream answers in order and may close a connection at any  *)
(* moment, inside a response too.  Accounting of slots is module Pool's.   *)
(***************************************************************************)
EXTENDS Integers, Sequences, FiniteSets

CONSTANTS
  Requests,  \* requests, each forwarded once
  Conns,     \* identities of TCP connections, never reused
  None,      \* "no connection"
  Shapes,    \* the shapes of response the upstream may send
  MaxSize    \* connections the pool may have open

ASSUME ExchangeAssumption ==
  /\ IsFiniteSet(Requests)
  /\ None \notin Conns
  /\ Shapes \subseteq {"sized", "chunked", "interim"}
  /\ MaxSize \in Nat \ {0}

VARIABLES
  forwarder,  \* ForwarderKind of this process: "Dial" or "Pool"
  pc,         \* pc[r]: what r's forward reads or does next
  conn,       \* conn[r]: the connection r was given, kept after its end
  sized,      \* sized[r]: content_length of read_response is Some
  from,       \* from[r]: the requests whose response r's was read from
  body,       \* body[r]: is the body "unread", "read", or were the headers "cut"?
  idle,       \* the idle stack of the pool
  state,      \* state[c]: "unused", "open", "closed" by the upstream, "dropped" by the proxy
  wire,       \* wire[c]: pieces sent by the upstream and not read
  pending     \* pending[c]: requests the upstream has still to answer

vars == <<forwarder, pc, conn, sized, from, body, idle, state, wire, pending>>
reading == <<sized, from, body>>

Piece == [of : Requests, kind : {"status", "length", "blank", "body"}]

\* What net/http sends for request r.  The echo handler sets no
\* Content-Length: a short body gets one from net/http, a long one is sent in
\* chunks.  A request with an Expect header is told to continue first.
Response(r, shape) ==
  LET P(k) == [of |-> r, kind |-> k]
      Sized == <<P("status"), P("length"), P("blank"), P("body")>>
  IN CASE shape = "sized"   -> Sized
       [] shape = "chunked" -> <<P("status"), P("blank"), P("body"), P("blank")>>
       [] shape = "interim" -> <<P("status"), P("blank")>> \o Sized

Active == {r \in Requests : pc[r] \notin {"ready", "ok", "err", "dialErr"}}
Open == Cardinality({conn[r] : r \in Active} \cup {idle[i] : i \in DOMAIN idle})

-----------------------------------------------------------------------------
(* Plausible mistakes, each of which some property must catch.              *)

\* A failed exchange gives its connection back as a healthy one.
HealthyAlways(r, ok) == forwarder = "Pool"

\* A body that is not there yet is left unread.
WantsBodyNever(r) == FALSE

\* End of file inside the headers is waited out.
EndOfFileIgnored(r) == FALSE

\* read in place of read_exact: a body cut short by end of file is passed on.
ShortBodyPassed == TRUE

\* get takes the top connection and leaves it on the stack.
PopPeeks == idle

-----------------------------------------------------------------------------
Init ==
  /\ forwarder \in {"Dial", "Pool"}
  /\ pc = [r \in Requests |-> "ready"]
  /\ conn = [r \in Requests |-> None]
  /\ sized = [r \in Requests |-> FALSE]
  /\ from = [r \in Requests |-> {}]
  /\ body = [r \in Requests |-> "unread"]
  /\ idle = <<>>
  /\ state = [c \in Conns |-> "unused"]
  /\ wire = [c \in Conns |-> <<>>]
  /\ pending = [c \in Conns |-> <<>>]

Pop == SubSeq(idle, 1, Len(idle) - 1)

\* Pool::get finds an idle connection; nothing is asked of the socket.
Reuse(r) ==
  /\ pc[r] = "ready"
  /\ forwarder = "Pool" /\ idle # <<>>
  /\ conn' = [conn EXCEPT ![r] = idle[Len(idle)]]
  /\ idle' = Pop
  /\ pc' = [pc EXCEPT ![r] = "write"]
  /\ UNCHANGED <<reading, state, wire, pending>>

Unused == {c \in Conns : state[c] = "unused"}
Fresh == CHOOSE c \in Unused : TRUE

\* dial: a new connection, or an error (refused, or after five seconds).  Where
\* every identity of Conns is used up, dialing can only fail.
Dial(r) ==
  /\ pc[r] = "ready"
  /\ forwarder = "Pool" => idle = <<>> /\ Open < MaxSize
  /\ \/ /\ Unused # {}
        /\ state' = [state EXCEPT ![Fresh] = "open"]
        /\ conn' = [conn EXCEPT ![r] = Fresh]
        /\ pc' = [pc EXCEPT ![r] = "write"]
     \/ /\ pc' = [pc EXCEPT ![r] = "dialErr"]
        /\ UNCHANGED <<conn, state>>
  /\ UNCHANGED <<reading, idle, wire, pending>>

\* Does the connection of r go back to the pool when its forward ends?
Healthy(r, ok) == forwarder = "Pool" /\ ok

\* forward ends.  The BufReader goes, with the k pieces it held beyond the
\* response; the connection is pooled or dropped.
End(r, ok, k) ==
  LET c == conn[r] IN
  /\ pc' = [pc EXCEPT ![r] = IF ok THEN "ok" ELSE "err"]
  /\ wire' = [wire EXCEPT ![c] = SubSeq(@, k + 1, Len(@))]
  /\ idle' = IF Healthy(r, ok) THEN Append(idle, c) ELSE idle
  /\ state' = IF Healthy(r, ok) THEN state ELSE [state EXCEPT ![c] = "dropped"]
  /\ UNCHANGED <<conn, pending>>

Fail(r) == End(r, FALSE, 0) /\ UNCHANGED reading

\* write_request: on a connection that the upstream has closed, the write
\* fails or goes nowhere.
WriteRequest(r) ==
  LET c == conn[r] IN
  /\ pc[r] = "write"
  /\ \/ /\ pc' = [pc EXCEPT ![r] = "status"]
        /\ pending' = IF state[c] = "open" THEN [pending EXCEPT ![c] = Append(@, r)] ELSE pending
        /\ UNCHANGED <<conn, reading, idle, state, wire>>
     \/ state[c] = "closed" /\ Fail(r)

Ready(r) == wire[conn[r]] # <<>>
NextPiece(r) == Head(wire[conn[r]])
EndOfFile(r) == ~Ready(r) /\ state[conn[r]] = "closed"

\* One piece is read and becomes part of r's response.
Take(r, l) ==
  /\ pc' = [pc EXCEPT ![r] = l]
  /\ wire' = [wire EXCEPT ![conn[r]] = Tail(@)]
  /\ from' = [from EXCEPT ![r] = @ \cup {NextPiece(r).of}]
  /\ UNCHANGED <<conn, idle, state, pending>>

\* read_response: the status line.  The second word must be a number, which a
\* line of an earlier body or header may have too; a blank line has none.
ReadStatus(r) ==
  /\ pc[r] = "status"
  /\ \/ /\ Ready(r) /\ NextPiece(r).kind # "blank"
        /\ Take(r, "headers")
        /\ UNCHANGED <<sized, body>>
     \/ Ready(r) /\ NextPiece(r).kind # "status" /\ Fail(r)
     \/ EndOfFile(r) /\ Fail(r)

\* read_response: a header line; one without a colon is an error.
ReadHeader(r) ==
  /\ pc[r] = "headers"
  /\ Ready(r)
  /\ \/ /\ NextPiece(r).kind \in {"length", "body"}
        /\ Take(r, "headers")
        /\ sized' = [sized EXCEPT ![r] = @ \/ NextPiece(r).kind = "length"]
        /\ UNCHANGED body
     \/ NextPiece(r).kind \in {"status", "body"} /\ Fail(r)

\* Does read_response look for a body after the headers?
WantsBody(r) == sized[r]

\* read_line returns an empty line at end of file.
EmptyLine(r) == EndOfFile(r)

\* read_response: the blank line, or end of file, ends the headers.  Without a
\* Content-Length the response is over.
EndHeaders(r) ==
  /\ pc[r] = "headers"
  /\ \/ Ready(r) /\ NextPiece(r).kind = "blank"
     \/ EmptyLine(r)
  /\ LET n == IF Ready(r) THEN 1 ELSE 0 IN
       \/ /\ WantsBody(r)
          /\ pc' = [pc EXCEPT ![r] = "body"]
          /\ wire' = [wire EXCEPT ![conn[r]] = SubSeq(@, n + 1, Len(@))]
          /\ UNCHANGED <<conn, idle, state, pending>>
       \/ /\ ~WantsBody(r)
          /\ \E k \in n .. Len(wire[conn[r]]) : End(r, TRUE, k)
  /\ body' = IF Ready(r) THEN body ELSE [body EXCEPT ![r] = "cut"]
  /\ UNCHANGED <<sized, from>>

\* read_exact fails on a body that end of file cuts short.
ShortBodyOk == FALSE

\* read_response: read_exact takes what comes next, or fails at end of file.
ReadBody(r) ==
  /\ pc[r] = "body"
  /\ \/ /\ Ready(r)
        /\ \E k \in 1 .. Len(wire[conn[r]]) : End(r, TRUE, k)
        /\ from' = [from EXCEPT ![r] = @ \cup {NextPiece(r).of}]
        /\ body' = [body EXCEPT ![r] = "read"]
        /\ UNCHANGED sized
     \/ /\ EndOfFile(r)
        /\ End(r, ShortBodyOk, 0)
        /\ UNCHANGED reading

Forward(r) ==
  WriteRequest(r) \/ ReadStatus(r) \/ ReadHeader(r) \/ EndHeaders(r) \/ ReadBody(r)

-----------------------------------------------------------------------------
\* The upstream answers the oldest request, or part of it and closes.
Respond(c) ==
  /\ state[c] = "open" /\ pending[c] # <<>>
  /\ \E shape \in Shapes :
       LET full == Response(Head(pending[c]), shape) IN
       \E n \in 1 .. Len(full) :
         /\ wire' = [wire EXCEPT ![c] = @ \o SubSeq(full, 1, n)]
         /\ state' = IF n = Len(full) THEN state ELSE [state EXCEPT ![c] = "closed"]
  /\ pending' = [pending EXCEPT ![c] = Tail(@)]
  /\ UNCHANGED <<pc, conn, reading, idle>>

\* The upstream closes: its keep-alive time is over, or it restarts.
Close(c) ==
  /\ state[c] = "open"
  /\ state' = [state EXCEPT ![c] = "closed"]
  /\ UNCHANGED <<pc, conn, reading, idle, wire, pending>>

-----------------------------------------------------------------------------
ProxyStep(r) == (Reuse(r) \/ Dial(r) \/ Forward(r)) /\ UNCHANGED forwarder
UpstreamStep(c) == (Respond(c) \/ Close(c)) /\ UNCHANGED forwarder

Next == (\E r \in Requests : ProxyStep(r)) \/ (\E c \in Conns : UpstreamStep(c))

Spec == Init /\ [][Next]_vars

\* The runtime polls what can run.  read_response has no timeout: that an
\* upstream answers or closes is an assumption on it (its WriteTimeout).
FairSpec ==
  /\ Spec
  /\ \A r \in Requests : WF_vars(ProxyStep(r))
  /\ \A c \in Conns : WF_vars(pending[c] # <<>> /\ UpstreamStep(c))

-----------------------------------------------------------------------------
TypeOK ==
  /\ forwarder \in {"Dial", "Pool"}
  /\ pc \in [Requests -> {"ready", "write", "status", "headers", "body", "ok", "err", "dialErr"}]
  /\ conn \in [Requests -> Conns \cup {None}]
  /\ sized \in [Requests -> BOOLEAN]
  /\ from \in [Requests -> SUBSET Requests]
  /\ body \in [Requests -> {"unread", "read", "cut"}]
  /\ idle \in Seq(Conns) /\ Len(idle) <= MaxSize
  /\ state \in [Conns -> {"unused", "open", "closed", "dropped"}]
  /\ wire \in [Conns -> Seq(Piece)]
  /\ pending \in [Conns -> Seq(Requests)]

\* A response is made of what the upstream sent for this very request, although
\* connections are reused and closed at any moment (dial.rs:90-139).
OwnAnswer == \A r \in Requests : pc[r] = "ok" => from[r] \subseteq {r}

\* A response passed on without a body was cut inside its headers: a body whose
\* length was announced is complete or the request fails, and there is no other
\* body than an announced one (dial.rs:107-132).
BodyUnlessCut ==
  \A r \in Requests :
    pc[r] = "ok" => body[r] = "read" \/ (body[r] = "cut" /\ ~sized[r])

\* One close of the upstream fails at most one request: a dead connection is
\* handed out once and then dropped (pool.rs:35, 103-105).
OneFailurePerClose ==
  \A r, s \in Requests : pc[r] = "err" /\ pc[s] = "err" /\ r # s => conn[r] # conn[s]

\* Every forward ends, whatever the upstream closes and wherever.
EveryForwardEnds ==
  \A r \in Requests : pc[r] = "write" ~> pc[r] \in {"ok", "err"}
=============================================================================
