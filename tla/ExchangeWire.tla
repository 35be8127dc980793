---------------------------- MODULE ExchangeWire ----------------------------
(***************************************************************************)
(* Proofs about what an exchange reads, where every response announces its *)
(* length (AllSized), for any finite set of requests, any set of           *)
(* connections and any size of the pool, wherever the upstream closes.     *)
(*                                                                         *)
(* That a response is made of the request's own answer needs to know what  *)
(* is on the wire: nothing on a connection that is not in use, else the    *)
(* rest of the answer to the request that reads (OnWire).                  *)
(***************************************************************************)
EXTENDS ExchangeProofs

(* Where every response announces its length. *)

AllSized == Shapes \subseteq {"sized"}

Kinds == <<"status", "length", "blank", "body">>

\* How many pieces of its response r has read.
Read(r) ==
  CASE pc[r] = "status"  -> 0
    [] pc[r] = "headers" -> IF sized[r] THEN 2 ELSE 1
    [] OTHER             -> 3

\* The request has not been answered.
Awaiting(r) ==
  /\ pc[r] \in {"write", "status"}
  /\ wire[conn[r]] = <<>>
  /\ pending[conn[r]] = <<>> \/ (pc[r] = "status" /\ pending[conn[r]] = <<r>>)

\* What is on the wire goes on where r has stopped to read.
Answered(r) ==
  /\ pc[r] \in {"status", "headers", "body"}
  /\ pending[conn[r]] = <<>>
  /\ Len(wire[conn[r]]) <= 4 - Read(r)
  /\ \A i \in 1 .. Len(wire[conn[r]]) : wire[conn[r]][i] = [of |-> r, kind |-> Kinds[Read(r) + i]]

Quiet(c) == wire[c] = <<>> /\ pending[c] = <<>>

\* Content-Length is seen after the status line and before the body.
SizedInTime(r) ==
  /\ pc[r] \in {"ready", "write", "status"} => ~sized[r]
  /\ pc[r] = "body" => sized[r]

OnWire ==
  /\ \A c \in Unused \cup IdleConns : Quiet(c)
  /\ \A r \in Active : Awaiting(r) \/ Answered(r)
  /\ \A r \in Requests : from[r] \subseteq {r} /\ SizedInTime(r)

SizedInv == Inv /\ OnWire /\ BodyUnlessCut

-----------------------------------------------------------------------------
(* What is on the wire. *)

\* A step of r leaves the others' connections alone: it is enough to look at r
\* and the connection it has.
LEMMA OneMoves ==
  ASSUME Inv, OnWire, NEW r \in Requests,
         \A s \in Requests \ {r} : /\ pc'[s] = pc[s] /\ conn'[s] = conn[s]
                                  /\ sized'[s] = sized[s] /\ from'[s] = from[s],
         \A d \in Conns \ {conn'[r]} : wire'[d] = wire[d] /\ pending'[d] = pending[d],
         \A s \in Active \ {r} : conn[s] # conn'[r],
         \A d \in Unused' \cup IdleConns' : d \in Unused \cup IdleConns \cup {conn'[r]},
         conn'[r] \in Unused' \cup IdleConns' => Quiet(conn[r])',
         r \in Active' => Awaiting(r)' \/ Answered(r)',
         from'[r] \subseteq {r}, SizedInTime(r)'
  PROVE  OnWire'
<1>0. Unused \cup IdleConns \subseteq Conns
  BY DEF Inv, TypeOK, Unused, IdleConns
<1>1. ASSUME NEW d \in Unused' \cup IdleConns' PROVE Quiet(d)'
  <2>1. CASE d = conn'[r]
    BY <1>1, <2>1 DEF Quiet
  <2>2. CASE d # conn'[r]
    <3>1. d \in Unused \cup IdleConns /\ d \in Conns \ {conn'[r]}
      BY <1>0, <1>1, <2>2
    <3> QED
      BY <3>1 DEF OnWire, Quiet
  <2> QED
    BY <2>1, <2>2
<1>2. ASSUME NEW s \in Active' PROVE Awaiting(s)' \/ Answered(s)'
  <2>1. CASE s = r
    BY <1>2, <2>1
  <2>2. CASE s # r
    <3>1. s \in Requests \ {r} /\ s \in Active
      BY <1>2, <2>2 DEF Active
    <3>2. conn[s] \in Conns \ {conn'[r]} /\ conn'[s] = conn[s] /\ pc'[s] = pc[s] /\ sized'[s] = sized[s]
      BY <3>1 DEF Inv, OnePlace
    <3>3. wire'[conn'[s]] = wire[conn[s]] /\ pending'[conn'[s]] = pending[conn[s]]
      BY <3>2
    <3>4. Read(s)' = Read(s)
      BY <3>2 DEF Read
    <3>5. Awaiting(s) => Awaiting(s)'
      BY <3>2, <3>3 DEF Awaiting
    <3>6. Answered(s) => Answered(s)'
      BY <3>2, <3>3, <3>4 DEF Answered
    <3> QED
      BY <3>1, <3>5, <3>6 DEF OnWire
  <2> QED
    BY <2>1, <2>2
<1>3. ASSUME NEW s \in Requests PROVE from'[s] \subseteq {s} /\ SizedInTime(s)'
  <2>1. CASE s = r
    BY <2>1
  <2>2. CASE s # r
    <3>1. pc'[s] = pc[s] /\ sized'[s] = sized[s] /\ from'[s] = from[s] /\ from[s] \subseteq {s} /\ SizedInTime(s)
      BY <2>2 DEF OnWire
    <3> QED
      BY <3>1 DEF SizedInTime
  <2> QED
    BY <2>1, <2>2
<1> QED
  BY <1>1, <1>2, <1>3 DEF OnWire

\* The piece that r reads next is the next one of its own response.
LEMMA NextIsOwn ==
  ASSUME Inv, OnWire, NEW r \in Active, Ready(r)
  PROVE  /\ Answered(r) /\ Len(wire[conn[r]]) \in 1 .. 4 - Read(r)
         /\ NextPiece(r).of = r /\ NextPiece(r).kind = Kinds[Read(r) + 1]
<1>1. conn[r] \in Conns /\ wire[conn[r]] \in Seq(Piece)
  BY DEF Inv, OnePlace, TypeOK
<1>2. Answered(r)
  BY DEF OnWire, Awaiting, Ready
<1>3. Read(r) \in 0 .. 3
  BY DEF Read
<1>4. Len(wire[conn[r]]) \in Nat \ {0} /\ NextPiece(r) = wire[conn[r]][1]
  BY <1>1 DEF Ready, NextPiece
<1>5. 1 \in 1 .. Len(wire[conn[r]])
  BY <1>4
<1>6. NextPiece(r) = [of |-> r, kind |-> Kinds[Read(r) + 1]]
  BY <1>2, <1>4, <1>5 DEF Answered
<1>7. Len(wire[conn[r]]) <= 4 - Read(r)
  BY <1>2 DEF Answered
<1> QED
  BY <1>2, <1>3, <1>4, <1>6, <1>7

\* How the connection of an active request is told apart.
LEMMA OwnConn ==
  ASSUME Inv, NEW r \in Active
  PROVE  /\ r \in Requests /\ conn[r] \in Conns /\ conn[r] \notin IdleConns /\ conn[r] \notin Unused
         /\ wire[conn[r]] \in Seq(Piece) /\ Len(wire[conn[r]]) \in Nat
         /\ \A s \in Active \ {r} : conn[s] # conn[r]
<1>1. r \in Requests
  BY DEF Active
<1>2. /\ conn[r] \in Conns /\ conn[r] \notin IdleConns /\ state[conn[r]] # "unused"
      /\ \A s \in Active \ {r} : conn[s] # conn[r]
  BY DEF Inv, OnePlace
<1>3. wire[conn[r]] \in Seq(Piece)
  BY <1>2 DEF Inv, TypeOK
<1> QED
  BY <1>1, <1>2, <1>3 DEF Unused

\* The effect of a step within r's forward on the connections out of use.
LEMMA InForward ==
  ASSUME Inv, NEW r \in Active, UNCHANGED <<conn, idle, state>>
  PROVE  /\ conn'[r] = conn[r]
         /\ Unused' = Unused /\ IdleConns' = IdleConns
         /\ conn[r] \notin Unused' \cup IdleConns'
<1>1. Unused' = Unused /\ IdleConns' = IdleConns
  BY DEF Unused, IdleConns
<1> QED
  BY <1>1, OwnConn

LEMMA EndOutOfUse ==
  ASSUME Inv, NEW r \in Active, NEW ok \in BOOLEAN, NEW k \in Nat, End(r, ok, k)
  PROVE  /\ conn' = conn
         /\ \A d \in Unused' \cup IdleConns' : d \in Unused \cup IdleConns \cup {conn[r]}
         /\ conn[r] \in Unused' \cup IdleConns' => ok
<1>0. state \in [Conns -> {"unused", "open", "closed", "dropped"}] /\ idle \in Seq(Conns)
  BY DEF Inv, TypeOK
<1>1. conn' = conn
  BY DEF End
<1>2. conn[r] \in Conns /\ conn[r] \notin IdleConns /\ state[conn[r]] # "unused"
  BY OwnConn DEF Unused
<1>3. CASE Healthy(r, ok)
  <2>1. idle' = Append(idle, conn[r]) /\ state' = state /\ ok
    BY <1>3 DEF End, Healthy
  <2>2. IdleConns' = IdleConns \cup {conn[r]}
    BY <1>0, <1>2, <2>1, Pushed DEF Inv, OnePlace
  <2>3. Unused' = Unused
    BY <2>1 DEF Unused
  <2> QED
    BY <1>1, <2>1, <2>2, <2>3
<1>4. CASE ~Healthy(r, ok)
  <2>1. idle' = idle /\ state' = [state EXCEPT ![conn[r]] = "dropped"]
    BY <1>4 DEF End
  <2>2. IdleConns' = IdleConns
    BY <2>1 DEF IdleConns
  <2>3. Unused' = Unused
    BY <1>0, <1>2, <2>1 DEF Unused
  <2> QED
    BY <1>1, <1>2, <2>2, <2>3 DEF Unused
<1> QED
  BY <1>3, <1>4

\* r's forward ends with the k pieces of its answer that were left, or fails.
LEMMA EndOnWire ==
  ASSUME Inv, OnWire, NEW r \in Active, NEW ok \in BOOLEAN, NEW k \in Nat, End(r, ok, k),
         ok => k = Len(wire[conn[r]]) /\ pending[conn[r]] = <<>>,
         \A s \in Requests \ {r} : from'[s] = from[s],
         from'[r] \subseteq {r}, sized' = sized
  PROVE  OnWire'
<1>0. /\ pc \in [Requests -> {"ready", "write", "status", "headers", "body", "ok", "err", "dialErr"}]
      /\ wire \in [Conns -> Seq(Piece)]
  BY DEF Inv, TypeOK
<1>1. /\ r \in Requests /\ conn[r] \in Conns /\ wire[conn[r]] \in Seq(Piece)
      /\ \A s \in Active \ {r} : conn[s] # conn[r]
  BY OwnConn
<1>2. /\ pc' = [pc EXCEPT ![r] = IF ok THEN "ok" ELSE "err"] /\ conn' = conn /\ pending' = pending
      /\ wire' = [wire EXCEPT ![conn[r]] = SubSeq(@, k + 1, Len(@))]
  BY DEF End
<1>3. ok => wire'[conn[r]] = <<>>
  <2> SUFFICES ASSUME ok PROVE SubSeq(wire[conn[r]], k + 1, Len(wire[conn[r]])) = <<>>
    BY <1>0, <1>1, <1>2
  <2>1. k = Len(wire[conn[r]]) /\ Len(wire[conn[r]]) \in Nat
    BY <1>1
  <2> QED
    BY <2>1
<1>4. pc'[r] \in {"ok", "err"} /\ \A s \in Requests \ {r} : pc'[s] = pc[s]
  BY <1>0, <1>1, <1>2
<1>5. /\ \A d \in Unused' \cup IdleConns' : d \in Unused \cup IdleConns \cup {conn'[r]}
      /\ conn'[r] \in Unused' \cup IdleConns' => Quiet(conn[r])'
  BY <1>2, <1>3, EndOutOfUse DEF Quiet
<1>6. r \notin Active' /\ SizedInTime(r)'
  BY <1>4 DEF Active, SizedInTime
<1>7. \A d \in Conns \ {conn'[r]} : wire'[d] = wire[d] /\ pending'[d] = pending[d]
  BY <1>0, <1>2
<1> QED
  BY <1>1, <1>2, <1>4, <1>5, <1>6, <1>7, OneMoves

LEMMA FailOnWire == ASSUME Inv, OnWire, NEW r \in Active, Fail(r) PROVE OnWire'
<1>1. End(r, FALSE, 0) /\ from' = from /\ sized' = sized
  BY Zenon DEF Fail, reading
<1>2. from[r] \subseteq {r}
  BY OwnConn DEF OnWire
<1> QED
  BY Zenon, <1>1, <1>2, EndOnWire

\* A request is given a connection that is out of use.
LEMMA GivenOnWire ==
  ASSUME Inv, OnWire, NEW r \in Requests, Reuse(r) \/ DialOk(r)
  PROVE  OnWire'
<1>0. /\ pc \in [Requests -> {"ready", "write", "status", "headers", "body", "ok", "err", "dialErr"}]
      /\ conn \in [Requests -> Conns \cup {None}]
      /\ state \in [Conns -> {"unused", "open", "closed", "dropped"}] /\ idle \in Seq(Conns)
  BY DEF Inv, TypeOK
<1>1. /\ pc[r] = "ready" /\ pc' = [pc EXCEPT ![r] = "write"]
      /\ UNCHANGED <<sized, from, wire, pending>>
  BY DEF Reuse, DialOk, reading
<1>2. PICK c \in Unused \cup IdleConns :
        /\ conn' = [conn EXCEPT ![r] = c]
        /\ c \notin Unused' \cup IdleConns' /\ Unused' \cup IdleConns' \subseteq Unused \cup IdleConns
  <2>1. CASE Reuse(r)
    <3> DEFINE c == idle[Len(idle)]
    <3>1. idle # <<>> /\ idle' = Pop /\ state' = state /\ conn' = [conn EXCEPT ![r] = c]
      BY <2>1 DEF Reuse
    <3>2. c \in IdleConns /\ IdleConns' = IdleConns \ {c}
      BY <1>0, <3>1, Popped DEF Inv, OnePlace
    <3>3. Unused' = Unused /\ c \notin Unused
      BY <3>1, <3>2 DEF Inv, OnePlace, Unused
    <3> HIDE DEF c
    <3> QED
      BY Zenon, <3>1, <3>2, <3>3
  <2>2. CASE DialOk(r)
    <3> DEFINE c == Fresh
    <3>1. Unused # {} /\ idle' = idle /\ state' = [state EXCEPT ![c] = "open"] /\ conn' = [conn EXCEPT ![r] = c]
      BY <2>2 DEF DialOk
    <3>2. c \in Unused
      BY <3>1 DEF Fresh
    <3> HIDE DEF c
    <3>3. IdleConns' = IdleConns /\ c \notin IdleConns
      BY <3>1, <3>2 DEF Inv, OnePlace, Unused, IdleConns
    <3>4. Unused' = Unused \ {c}
      BY <1>0, <3>1, <3>2 DEF Unused
    <3> QED
      BY Zenon, <3>1, <3>2, <3>3, <3>4
  <2> QED
    BY <2>1, <2>2
<1>3. conn'[r] = c /\ pc'[r] = "write" /\ \A s \in Requests \ {r} : conn'[s] = conn[s] /\ pc'[s] = pc[s]
  BY <1>0, <1>1, <1>2
<1>4. \A s \in Active \ {r} : conn[s] # conn'[r]
  BY <1>3, OwnConn
<1>5. Quiet(c) /\ from[r] \subseteq {r} /\ ~sized[r]
  BY <1>1 DEF OnWire, SizedInTime
<1>6. Awaiting(r)' /\ SizedInTime(r)' /\ from'[r] \subseteq {r}
  BY <1>1, <1>3, <1>5 DEF Awaiting, Quiet, SizedInTime
<1> QED
  BY <1>1, <1>2, <1>3, <1>4, <1>6, OneMoves

LEMMA WriteOnWire == ASSUME Inv, OnWire, NEW r \in Requests, WriteRequest(r) PROVE OnWire'
<1>0. /\ pc \in [Requests -> {"ready", "write", "status", "headers", "body", "ok", "err", "dialErr"}]
      /\ pending \in [Conns -> Seq(Requests)]
  BY DEF Inv, TypeOK
<1>1. pc[r] = "write" /\ r \in Active
  BY DEF WriteRequest, Active
<1>2. CASE Fail(r)
  BY <1>1, <1>2, FailOnWire
<1>3. CASE /\ pc' = [pc EXCEPT ![r] = "status"]
           /\ pending' = IF state[conn[r]] = "open" THEN [pending EXCEPT ![conn[r]] = Append(@, r)] ELSE pending
           /\ UNCHANGED <<conn, reading, idle, state, wire>>
  <2>1. UNCHANGED <<conn, sized, from, idle, state, wire>>
    BY <1>3 DEF reading
  <2>2. /\ conn'[r] = conn[r] /\ Unused' = Unused /\ IdleConns' = IdleConns
        /\ conn[r] \notin Unused' \cup IdleConns'
    BY <1>1, <2>1, InForward
  <2>3. conn[r] \in Conns /\ \A s \in Active \ {r} : conn[s] # conn[r]
    BY <1>1, OwnConn
  <2>4. wire[conn[r]] = <<>> /\ pending[conn[r]] = <<>> /\ ~sized[r] /\ from[r] \subseteq {r}
    BY <1>1 DEF OnWire, Awaiting, Answered, SizedInTime
  <2>5. pending'[conn[r]] = <<>> \/ pending'[conn[r]] = <<r>>
    BY <1>0, <1>3, <2>3, <2>4
  <2>6. \A d \in Conns \ {conn[r]} : pending'[d] = pending[d]
    BY <1>0, <1>3
  <2>7. pc'[r] = "status" /\ \A s \in Requests \ {r} : pc'[s] = pc[s]
    BY <1>0, <1>3
  <2>8. Awaiting(r)' /\ SizedInTime(r)' /\ from'[r] \subseteq {r}
    BY <2>1, <2>4, <2>5, <2>7 DEF Awaiting, SizedInTime
  <2> QED
    BY <2>1, <2>2, <2>3, <2>6, <2>7, <2>8, OneMoves
<1> QED
  BY <1>2, <1>3 DEF WriteRequest

\* r reads on: what remains goes on where it has stopped.
LEMMA AdvanceOnWire ==
  ASSUME Inv, OnWire, NEW r \in Active, Answered(r), NEW n \in {0, 1}, NEW l \in {"headers", "body"},
         n <= Len(wire[conn[r]]), n = 0 => wire[conn[r]] = <<>>,
         pc' = [pc EXCEPT ![r] = l], wire' = [wire EXCEPT ![conn[r]] = SubSeq(@, n + 1, Len(@))],
         UNCHANGED <<conn, idle, state, pending>>, Read(r)' = Read(r) + 1,
         \A s \in Requests \ {r} : sized'[s] = sized[s] /\ from'[s] = from[s],
         from'[r] \subseteq {r}, SizedInTime(r)'
  PROVE  OnWire'
<1>0. /\ pc \in [Requests -> {"ready", "write", "status", "headers", "body", "ok", "err", "dialErr"}]
      /\ wire \in [Conns -> Seq(Piece)]
  BY DEF Inv, TypeOK
<1>1. /\ r \in Requests /\ conn[r] \in Conns /\ wire[conn[r]] \in Seq(Piece) /\ Len(wire[conn[r]]) \in Nat
      /\ \A s \in Active \ {r} : conn[s] # conn[r]
  BY OwnConn
<1>2. /\ conn'[r] = conn[r] /\ Unused' = Unused /\ IdleConns' = IdleConns
      /\ conn[r] \notin Unused' \cup IdleConns'
  BY InForward
<1>3. pc'[r] = l /\ \A s \in Requests \ {r} : pc'[s] = pc[s]
  BY <1>0, <1>1
<1>4. \A d \in Conns \ {conn[r]} : wire'[d] = wire[d] /\ pending'[d] = pending[d]
  BY <1>0
<1> DEFINE w == wire[conn[r]]
<1>5. wire'[conn[r]] = SubSeq(w, n + 1, Len(w))
  BY <1>0, <1>1
<1>6. Read(r) \in 0 .. 3 /\ Read(r) + 1 \in 0 .. 3
  <2>1. Read(r) \in 0 .. 3 /\ Read(r)' \in 0 .. 3
    BY DEF Read
  <2> QED
    BY <2>1
<1>7. /\ Len(w) <= 4 - Read(r)
      /\ \A i \in 1 .. Len(w) : w[i] = [of |-> r, kind |-> Kinds[Read(r) + i]]
  BY Zenon DEF Answered
<1> DEFINE v == wire'[conn[r]]
           m == Read(r)
<1> HIDE DEF w, v, m
<1>8. Len(v) <= 4 - (m + 1) /\ \A i \in 1 .. Len(v) : v[i] = [of |-> r, kind |-> Kinds[(m + 1) + i]]
  <2>0. w \in Seq(Piece) /\ Len(w) \in Nat /\ m \in 0 .. 3 /\ m + 1 \in 0 .. 3
    BY <1>1, <1>6 DEF w, m
  <2>1. CASE n = 0
    <3>1. w = <<>> /\ v = SubSeq(w, 1, Len(w))
      BY <1>5, <2>1 DEF w, v
    <3>2. Len(v) = 0
      BY <3>1
    <3> QED
      BY <2>0, <3>2
  <2>2. CASE n = 1
    <3>1. Len(w) >= 1 /\ v = SubSeq(w, 2, Len(w))
      BY <1>5, <2>2 DEF w, v
    <3>2. Len(v) = Len(w) - 1 /\ \A i \in 1 .. Len(w) - 1 : v[i] = w[i + 1]
      BY <2>0, <3>1, WithoutFirst
    <3>3. ASSUME NEW i \in 1 .. Len(w) - 1 PROVE v[i] = [of |-> r, kind |-> Kinds[(m + 1) + i]]
      <4>1. i + 1 \in 1 .. Len(w) /\ m + (i + 1) = (m + 1) + i
        BY <2>0
      <4> QED
        BY <1>7, <3>2, <4>1 DEF m
    <3>4. Len(w) <= 4 - m
      BY <1>7 DEF m
    <3> QED
      BY <2>0, <3>2, <3>3, <3>4
  <2> QED
    BY <2>1, <2>2
<1>9. pc[r] \in {"status", "headers", "body"} /\ pending[conn[r]] = <<>>
  BY DEF Answered
<1>10. Answered(r)'
  BY <1>2, <1>3, <1>8, <1>9 DEF Answered, v, m
<1> QED
  BY <1>1, <1>2, <1>3, <1>4, <1>10, OneMoves

LEMMA TakeAdvances ==
  ASSUME Inv, OnWire, NEW r \in Active, Ready(r), Take(r, "headers"),
         \A s \in Requests \ {r} : sized'[s] = sized[s],
         Read(r)' = Read(r) + 1
  PROVE  OnWire'
<1>0. from \in [Requests -> SUBSET Requests] /\ r \in Requests
  BY DEF Inv, TypeOK, Active
<1>1. Answered(r) /\ NextPiece(r).of = r
  BY NextIsOwn
<1>2. /\ pc' = [pc EXCEPT ![r] = "headers"] /\ wire' = [wire EXCEPT ![conn[r]] = Tail(@)]
      /\ from' = [from EXCEPT ![r] = @ \cup {r}] /\ UNCHANGED <<conn, idle, state, pending>>
  BY <1>1 DEF Take
<1>3. wire[conn[r]] # <<>> /\ wire[conn[r]] \in Seq(Piece) /\ Len(wire[conn[r]]) \in Nat
  BY OwnConn DEF Ready
<1>4. Tail(wire[conn[r]]) = SubSeq(wire[conn[r]], 1 + 1, Len(wire[conn[r]])) /\ 1 <= Len(wire[conn[r]])
  BY <1>3
<1>5. wire' = [wire EXCEPT ![conn[r]] = SubSeq(@, 1 + 1, Len(@))]
  BY Zenon, <1>2, <1>4
<1>6. /\ \A s \in Requests \ {r} : from'[s] = from[s]
      /\ from'[r] \subseteq {r}
  BY <1>0, <1>2 DEF OnWire
<1>7. SizedInTime(r)'
  <2>1. pc'[r] = "headers"
    BY <1>0, <1>2 DEF Inv, TypeOK
  <2> QED
    BY <2>1 DEF SizedInTime
<1>8. 1 = 0 => wire[conn[r]] = <<>>
  OBVIOUS
<1> QED
  BY Zenon, <1>1, <1>2, <1>4, <1>5, <1>6, <1>7, <1>8, AdvanceOnWire

LEMMA StatusOnWire == ASSUME Inv, OnWire, NEW r \in Requests, ReadStatus(r) PROVE OnWire'
<1>1. pc[r] = "status" /\ r \in Active
  BY DEF ReadStatus, Active
<1>2. CASE Fail(r)
  BY <1>1, <1>2, FailOnWire
<1>3. CASE Ready(r) /\ Take(r, "headers") /\ UNCHANGED <<sized, body>>
  <2>1. pc'[r] = "headers"
    BY <1>3 DEF Take, Inv, TypeOK
  <2>2. ~sized[r]
    BY <1>1 DEF OnWire, SizedInTime
  <2>3. Read(r) = 0 /\ Read(r)' = 1
    BY <1>1, <1>3, <2>1, <2>2 DEF Read
  <2> QED
    BY <1>1, <1>3, <2>3, TakeAdvances
<1> QED
  BY <1>2, <1>3 DEF ReadStatus

LEMMA HeaderOnWire == ASSUME Inv, OnWire, NEW r \in Requests, ReadHeader(r) PROVE OnWire'
<1>1. pc[r] = "headers" /\ r \in Active /\ Ready(r)
  BY DEF ReadHeader, Active
<1>2. CASE Fail(r)
  BY <1>1, <1>2, FailOnWire
<1>3. CASE /\ NextPiece(r).kind \in {"length", "body"}
           /\ Take(r, "headers")
           /\ sized' = [sized EXCEPT ![r] = @ \/ NextPiece(r).kind = "length"]
  <2>1. NextPiece(r).kind = Kinds[Read(r) + 1]
    BY <1>1, NextIsOwn
  <2>2. ~sized[r] /\ Read(r) = 1
    BY <1>1, <1>3, <2>1 DEF Read, Kinds
  <2>3. NextPiece(r).kind = "length"
    BY <2>1, <2>2 DEF Kinds
  <2>4. pc'[r] = "headers"
    BY <1>3 DEF Take, Inv, TypeOK
  <2>5. sized'[r] /\ \A s \in Requests \ {r} : sized'[s] = sized[s]
    BY Zenon, <1>3, <2>3 DEF Inv, TypeOK
  <2>6. Read(r)' = 2
    BY <2>4, <2>5 DEF Read
  <2> QED
    BY <1>1, <1>3, <2>2, <2>5, <2>6, TakeAdvances
<1> QED
  BY <1>2, <1>3 DEF ReadHeader

LEMMA EndHeadersOnWire ==
  ASSUME Inv, SizedInv, NEW r \in Requests, EndHeaders(r)
  PROVE  OnWire' /\ BodyUnlessCut'
<1>0. /\ pc \in [Requests -> {"ready", "write", "status", "headers", "body", "ok", "err", "dialErr"}]
      /\ body \in [Requests -> {"unread", "read", "cut"}] /\ OnWire /\ BodyUnlessCut
  BY DEF Inv, TypeOK, SizedInv
<1>1. pc[r] = "headers" /\ r \in Active
  BY DEF EndHeaders, Active
<1>2. Answered(r) /\ pending[conn[r]] = <<>> /\ from[r] \subseteq {r}
  BY Zenon, <1>0, <1>1 DEF OnWire, Awaiting, Answered
<1>3. wire[conn[r]] \in Seq(Piece) /\ Len(wire[conn[r]]) \in Nat
  BY <1>1, OwnConn
<1>4. /\ UNCHANGED <<sized, from>>
      /\ body' = IF Ready(r) THEN body ELSE [body EXCEPT ![r] = "cut"]
  BY DEF EndHeaders
<1>5. \A s \in Requests \ {r} : body'[s] = body[s]
  BY <1>0, <1>4
<1>6. CASE WantsBody(r)
  <2>1. PICK n \in {0, 1} : /\ n = IF Ready(r) THEN 1 ELSE 0
                            /\ wire' = [wire EXCEPT ![conn[r]] = SubSeq(@, n + 1, Len(@))]
    BY Zenon, <1>6 DEF EndHeaders
  <2>2. pc' = [pc EXCEPT ![r] = "body"] /\ UNCHANGED <<conn, idle, state, pending>>
    BY <1>6 DEF EndHeaders
  <2>3. n <= Len(wire[conn[r]]) /\ (n = 0 => wire[conn[r]] = <<>>)
    BY <1>3, <2>1 DEF Ready
  <2>4. pc'[r] = "body" /\ sized[r]
    BY <1>0, <1>6, <2>2 DEF WantsBody
  <2>5. Read(r)' = Read(r) + 1
    <3>1. Read(r)' = 3 /\ Read(r) = 2
      BY <1>1, <2>4 DEF Read
    <3> QED
      BY <3>1
  <2>6. SizedInTime(r)'
    BY <1>4, <2>4 DEF SizedInTime
  <2>7. OnWire'
    <3>1. from'[r] \subseteq {r} /\ \A s \in Requests \ {r} : sized'[s] = sized[s] /\ from'[s] = from[s]
      BY <1>2, <1>4
    <3>2. OnWire /\ wire' = [wire EXCEPT ![conn[r]] = SubSeq(@, n + 1, Len(@))]
      BY <1>0, <2>1
    <3> QED
      BY Zenon, <1>1, <1>2, <2>2, <2>3, <2>5, <2>6, <3>1, <3>2, AdvanceOnWire
  <2>8. \A s \in Requests : pc'[s] = "ok" => s # r /\ pc[s] = "ok"
    BY <1>0, <2>2
  <2> QED
    BY <1>0, <1>4, <1>5, <2>7, <2>8 DEF BodyUnlessCut
<1>7. CASE ~WantsBody(r)
  <2>1. ~sized[r] /\ Read(r) = 1
    BY <1>1, <1>7 DEF WantsBody, Read
  <2>2. ~Ready(r)
    <3> SUFFICES ASSUME Ready(r) PROVE FALSE
      OBVIOUS
    <3>1. NextPiece(r).kind = "blank"
      BY DEF EndHeaders, EmptyLine, EndOfFile
    <3>2. NextPiece(r).kind = Kinds[2]
      BY <1>0, <1>1, <2>1, NextIsOwn
    <3> QED
      BY <3>1, <3>2 DEF Kinds
  <2>3. wire[conn[r]] = <<>> /\ Len(wire[conn[r]]) = 0
    BY <2>2 DEF Ready
  <2>4. PICK k \in 0 .. Len(wire[conn[r]]) : End(r, TRUE, k)
    BY Zenon, <1>7, <2>2 DEF EndHeaders
  <2>5. k = Len(wire[conn[r]]) /\ k \in Nat
    BY <2>3
  <2>6. OnWire'
    BY Zenon, <1>0, <1>1, <1>2, <1>4, <2>4, <2>5, EndOnWire
  <2>7. body'[r] = "cut" /\ ~sized'[r]
    BY <1>0, <1>4, <2>1, <2>2
  <2>8. \A s \in Requests \ {r} : pc'[s] = pc[s]
    BY <1>0, <2>4 DEF End
  <2> QED
    BY <1>0, <1>4, <1>5, <2>6, <2>7, <2>8 DEF BodyUnlessCut
<1> QED
  BY <1>6, <1>7

LEMMA BodyOnWire ==
  ASSUME Inv, SizedInv, NEW r \in Requests, ReadBody(r)
  PROVE  OnWire' /\ BodyUnlessCut'
<1>0. /\ pc \in [Requests -> {"ready", "write", "status", "headers", "body", "ok", "err", "dialErr"}]
      /\ body \in [Requests -> {"unread", "read", "cut"}] /\ OnWire /\ BodyUnlessCut
      /\ from \in [Requests -> SUBSET Requests]
  BY DEF Inv, TypeOK, SizedInv
<1>1. pc[r] = "body" /\ r \in Active
  BY DEF ReadBody, Active
<1>2. pending[conn[r]] = <<>> /\ from[r] \subseteq {r}
  BY <1>0, <1>1 DEF OnWire, Awaiting, Answered
<1>3. CASE Fail(r)
  <2>1. pc' = [pc EXCEPT ![r] = "err"] /\ UNCHANGED <<sized, body>>
    BY <1>3 DEF Fail, End, reading
  <2>2. \A s \in Requests : pc'[s] = "ok" => pc[s] = "ok"
    BY <1>0, <2>1
  <2> QED
    BY <1>0, <1>1, <1>3, <2>1, <2>2, FailOnWire DEF BodyUnlessCut
<1>4. CASE /\ Ready(r)
           /\ \E k \in 1 .. Len(wire[conn[r]]) : End(r, TRUE, k)
           /\ from' = [from EXCEPT ![r] = @ \cup {NextPiece(r).of}]
           /\ body' = [body EXCEPT ![r] = "read"]
           /\ UNCHANGED sized
  <2>1. Read(r) = 3
    BY <1>1 DEF Read
  <2>2. NextPiece(r).of = r /\ Len(wire[conn[r]]) \in 1 .. 4 - Read(r)
    BY <1>0, <1>1, <1>4, NextIsOwn
  <2>3. Len(wire[conn[r]]) = 1
    BY <2>1, <2>2
  <2>4. PICK k \in 1 .. Len(wire[conn[r]]) : End(r, TRUE, k)
    BY Zenon, <1>4
  <2>5. k = Len(wire[conn[r]]) /\ k \in Nat
    BY <2>3
  <2>6. from'[r] \subseteq {r} /\ \A s \in Requests \ {r} : from'[s] = from[s]
    BY <1>0, <1>2, <1>4, <2>2
  <2>7. OnWire'
    BY Zenon, <1>0, <1>1, <1>2, <1>4, <2>4, <2>5, <2>6, EndOnWire
  <2>8. body'[r] = "read" /\ \A s \in Requests \ {r} : body'[s] = body[s]
    BY <1>0, <1>4
  <2>9. \A s \in Requests \ {r} : pc'[s] = pc[s]
    BY <1>0, <2>4 DEF End
  <2> QED
    BY <1>0, <1>4, <2>7, <2>8, <2>9 DEF BodyUnlessCut
<1> QED
  BY Zenon, <1>3, <1>4 DEF ReadBody, ShortBodyOk, Fail

\* The upstream answers, if it does, the request that waits, on an empty wire.
LEMMA RespondOnWire ==
  ASSUME AllSized, Inv, OnWire, NEW c \in Conns, Respond(c)
  PROVE  OnWire'
<1>0. /\ pending \in [Conns -> Seq(Requests)] /\ wire \in [Conns -> Seq(Piece)]
      /\ state \in [Conns -> {"unused", "open", "closed", "dropped"}]
  BY DEF Inv, TypeOK
<1>1. /\ state[c] = "open" /\ pending[c] # <<>> /\ pending' = [pending EXCEPT ![c] = Tail(@)]
      /\ UNCHANGED <<pc, conn, sized, from, idle>>
  BY DEF Respond, reading
<1>2. state' = state \/ state' = [state EXCEPT ![c] = "closed"]
  BY DEF Respond
<1> DEFINE full == Response(Head(pending[c]), "sized")
<1>3. PICK n \in 1 .. Len(full) : wire' = [wire EXCEPT ![c] = @ \o SubSeq(full, 1, n)]
  BY Zenon DEF Respond, AllSized
<1>4. \A d \in Conns \ {c} : wire'[d] = wire[d] /\ pending'[d] = pending[d]
  BY <1>0, <1>1, <1>3
<1>5. Unused' = Unused /\ IdleConns' = IdleConns /\ Active' = Active
  BY <1>0, <1>1, <1>2 DEF Unused, IdleConns, Active
<1>6. c \notin Unused \cup IdleConns /\ Unused \cup IdleConns \subseteq Conns
  BY <1>1 DEF OnWire, Quiet, Unused, Inv, TypeOK, IdleConns
<1>7. \A d \in Unused' \cup IdleConns' : Quiet(d)'
  BY <1>4, <1>5, <1>6 DEF OnWire, Quiet
<1>8. \A r \in Requests : from'[r] \subseteq {r} /\ SizedInTime(r)'
  BY Zenon, <1>1 DEF OnWire, SizedInTime
<1>9. ASSUME NEW r \in Active PROVE Awaiting(r)' \/ Answered(r)'
  <2>1. /\ conn[r] \in Conns /\ conn'[r] = conn[r] /\ pc'[r] = pc[r] /\ sized'[r] = sized[r]
        /\ Awaiting(r) \/ Answered(r)
    BY <1>1, OwnConn DEF OnWire
  <2>2. Read(r)' = Read(r)
    BY <2>1 DEF Read
  <2>3. CASE conn[r] # c
    <3>1. wire'[conn'[r]] = wire[conn[r]] /\ pending'[conn'[r]] = pending[conn[r]]
      BY <1>4, <2>1, <2>3
    <3>2. Awaiting(r) => Awaiting(r)'
      BY Zenon, <2>1, <3>1 DEF Awaiting
    <3>3. Answered(r) => Answered(r)'
      BY <2>1, <2>2, <3>1 DEF Answered
    <3> QED
      BY <2>1, <3>2, <3>3
  <2>4. CASE conn[r] = c
    <3>1. wire[c] = <<>> /\ pending[c] = <<r>> /\ pc[r] = "status"
      BY <1>1, <2>1, <2>4 DEF Awaiting, Answered
    <3>2. pending'[c] = <<>>
      BY <1>0, <1>1, <3>1
    <3> DEFINE P(k) == [of |-> r, kind |-> k]
    <3>3. full = <<P("status"), P("length"), P("blank"), P("body")>>
      BY <3>1 DEF Response
    <3>4. r \in Requests
      BY DEF Active
    <3>5. full \in Seq(Piece) /\ Len(full) = 4 /\ \A i \in 1 .. 4 : full[i] = P(Kinds[i])
      <4>1. P("status") \in Piece /\ P("length") \in Piece /\ P("blank") \in Piece /\ P("body") \in Piece
        BY <3>4 DEF Piece
      <4>2. /\ full[1] = P(Kinds[1]) /\ full[2] = P(Kinds[2])
            /\ full[3] = P(Kinds[3]) /\ full[4] = P(Kinds[4])
        BY <3>3 DEF Kinds
      <4>3. \A i \in 1 .. 4 : i = 1 \/ i = 2 \/ i = 3 \/ i = 4
        OBVIOUS
      <4>4. Len(full) = 4 /\ full \in Seq(Piece)
        <5> HIDE DEF P, full
        <5> QED
          BY <3>3, <4>1
      <4> QED
        BY <4>2, <4>3, <4>4
    <3> HIDE DEF full, P
    <3>6. n \in 1 .. 4 /\ wire'[c] = SubSeq(full, 1, n)
      <4>1. n \in 1 .. 4
        BY <1>3, <3>5
      <4>2. SubSeq(full, 1, n) \in Seq(Piece)
        <5>1. n \in 1 .. Len(full) /\ full \in Seq(Piece)
          BY <3>5, <4>1
        <5> QED
          BY <5>1
      <4> QED
        BY <1>0, <1>3, <3>1, <4>1, <4>2
    <3>7. Len(wire'[c]) = n /\ n \in 1 .. 4 /\ \A i \in 1 .. n : wire'[c][i] = full[i]
      BY <3>5, <3>6
    <3>8. \A i \in 1 .. n : wire'[c][i] = P(Kinds[0 + i])
      BY <3>5, <3>7
    <3>9. Read(r)' = 0
      BY <2>1, <3>1 DEF Read
    <3> QED
      BY <2>1, <2>4, <3>1, <3>2, <3>7, <3>8, <3>9 DEF Answered, P
  <2> QED
    BY <2>3, <2>4
<1> QED
  BY <1>5, <1>7, <1>8, <1>9 DEF OnWire

LEMMA OthersOnWire ==
  ASSUME Inv, OnWire,
         (\E r \in Requests : DialErr(r)) \/ (\E c \in Conns : Close(c)) \/ UNCHANGED vars
  PROVE  OnWire'
<1>0. /\ pc \in [Requests -> {"ready", "write", "status", "headers", "body", "ok", "err", "dialErr"}]
      /\ state \in [Conns -> {"unused", "open", "closed", "dropped"}]
  BY DEF Inv, TypeOK
<1>1. UNCHANGED <<conn, sized, from, idle, wire, pending>>
  BY DEF DialErr, Close, vars, reading
<1>2. \A r \in Requests : \/ pc'[r] = pc[r]
                         \/ pc'[r] = "dialErr"
  BY <1>0 DEF DialErr, Close, vars
<1>3. Unused' = Unused /\ IdleConns' = IdleConns
  BY <1>0, <1>1 DEF DialErr, Close, vars, Unused, IdleConns
<1>4. ASSUME NEW r \in Active' PROVE Awaiting(r)' \/ Answered(r)'
  <2>1. pc'[r] = pc[r] /\ r \in Active
    BY <1>2, <1>4 DEF Active
  <2>2. Read(r)' = Read(r)
    BY <1>1, <2>1 DEF Read
  <2>3. Awaiting(r) => Awaiting(r)'
    BY <1>1, <2>1 DEF Awaiting
  <2>4. Answered(r) => Answered(r)'
    BY <1>1, <2>1, <2>2 DEF Answered
  <2> QED
    BY <2>1, <2>3, <2>4 DEF OnWire
<1>5. \A r \in Requests : from'[r] \subseteq {r} /\ SizedInTime(r)'
  BY <1>1, <1>2 DEF OnWire, SizedInTime
<1>6. \A c \in Unused' \cup IdleConns' : Quiet(c)'
  BY <1>1, <1>3 DEF OnWire, Quiet
<1> QED
  BY <1>4, <1>5, <1>6 DEF OnWire

\* Steps that pass no response on.
LEMMA BodyKept ==
  ASSUME SizedInv, UNCHANGED <<sized, body>> \/ \E r \in Requests : ReadHeader(r),
         \A s \in Requests : pc'[s] = "ok" => pc[s] = "ok"
  PROVE  BodyUnlessCut'
<1>0. pc \in [Requests -> {"ready", "write", "status", "headers", "body", "ok", "err", "dialErr"}]
      /\ sized \in [Requests -> BOOLEAN]
  BY DEF SizedInv, Inv, TypeOK
<1>1. \A s \in Requests : pc[s] = "ok" => sized'[s] = sized[s] /\ body'[s] = body[s]
  <2>1. ASSUME NEW r \in Requests, ReadHeader(r), NEW s \in Requests, pc[s] = "ok"
        PROVE  sized'[s] = sized[s] /\ body'[s] = body[s]
    BY Zenon, <1>0, <2>1 DEF ReadHeader, Fail, reading
  <2> QED
    BY <2>1
<1> QED
  BY <1>1 DEF SizedInv, BodyUnlessCut

LEMMA StepSized == AllSized /\ SizedInv /\ [Next]_vars => OnWire' /\ BodyUnlessCut'
<1> SUFFICES ASSUME AllSized, SizedInv, [Next]_vars PROVE OnWire' /\ BodyUnlessCut'
  OBVIOUS
<1>0. Inv /\ OnWire
  BY DEF SizedInv
<1>1. pc \in [Requests -> {"ready", "write", "status", "headers", "body", "ok", "err", "dialErr"}]
  BY <1>0 DEF Inv, TypeOK
<1>2. ASSUME NEW r \in Requests, Reuse(r) \/ DialOk(r) PROVE OnWire' /\ BodyUnlessCut'
  <2>1. UNCHANGED <<sized, body>> /\ pc' = [pc EXCEPT ![r] = "write"]
    BY <1>2 DEF Reuse, DialOk, reading
  <2>2. \A s \in Requests : pc'[s] = "ok" => pc[s] = "ok"
    BY <1>1, <2>1
  <2> QED
    BY <1>0, <1>2, <2>1, <2>2, GivenOnWire, BodyKept
<1>3. ASSUME NEW r \in Requests, DialErr(r) PROVE OnWire' /\ BodyUnlessCut'
  <2>1. UNCHANGED <<sized, body>> /\ pc' = [pc EXCEPT ![r] = "dialErr"]
    BY <1>3 DEF DialErr, reading
  <2>2. \A s \in Requests : pc'[s] = "ok" => pc[s] = "ok"
    BY <1>1, <2>1
  <2> QED
    BY <1>0, <1>3, <2>1, <2>2, OthersOnWire, BodyKept
<1>4. ASSUME NEW r \in Requests, WriteRequest(r) PROVE OnWire' /\ BodyUnlessCut'
  <2>1. PICK l \in {"status", "err"} : pc' = [pc EXCEPT ![r] = l]
    BY Zenon, <1>4 DEF WriteRequest, Fail, End
  <2>2. \A s \in Requests : pc'[s] = "ok" => pc[s] = "ok"
    BY <1>1, <2>1
  <2>3. UNCHANGED <<sized, body>>
    BY Zenon, <1>4 DEF WriteRequest, Fail, reading
  <2> QED
    BY Zenon, <1>0, <1>4, <2>2, <2>3, WriteOnWire, BodyKept
<1>5. ASSUME NEW r \in Requests, ReadStatus(r) PROVE OnWire' /\ BodyUnlessCut'
  <2>1. PICK l \in {"headers", "err"} : pc' = [pc EXCEPT ![r] = l]
    BY Zenon, <1>5 DEF ReadStatus, Take, Fail, End
  <2>2. \A s \in Requests : pc'[s] = "ok" => pc[s] = "ok"
    BY <1>1, <2>1
  <2>3. UNCHANGED <<sized, body>>
    BY Zenon, <1>5 DEF ReadStatus, Fail, reading
  <2> QED
    BY <1>0, <1>5, <2>2, <2>3, StatusOnWire, BodyKept
<1>6. ASSUME NEW r \in Requests, ReadHeader(r) PROVE OnWire' /\ BodyUnlessCut'
  <2>1. PICK l \in {"headers", "err"} : pc' = [pc EXCEPT ![r] = l]
    BY Zenon, <1>6 DEF ReadHeader, Take, Fail, End
  <2>2. \A s \in Requests : pc'[s] = "ok" => pc[s] = "ok"
    BY <1>1, <2>1
  <2> QED
    BY <1>0, <1>6, <2>2, HeaderOnWire, BodyKept
<1>7. ASSUME NEW c \in Conns, Respond(c) \/ Close(c) PROVE OnWire' /\ BodyUnlessCut'
  <2>1. UNCHANGED <<sized, body, pc>>
    BY <1>7 DEF Respond, Close, reading
  <2> QED
    BY <1>0, <1>7, <2>1, RespondOnWire, OthersOnWire, BodyKept
<1>8. CASE UNCHANGED vars
  <2>1. UNCHANGED <<sized, body, pc>>
    BY <1>8 DEF vars
  <2> QED
    BY <1>0, <1>8, <2>1, OthersOnWire, BodyKept
<1>9. ASSUME NEW r \in Requests, Dial(r), UNCHANGED forwarder PROVE DialOk(r) \/ DialErr(r)
  BY <1>9 DEF Dial, DialOk, DialErr
<1>10. ASSUME NEW r \in Requests, Forward(r) PROVE OnWire' /\ BodyUnlessCut'
  BY <1>0, <1>4, <1>5, <1>6, <1>10, EndHeadersOnWire, BodyOnWire DEF Forward
<1> QED
  BY <1>2, <1>3, <1>7, <1>8, <1>9, <1>10 DEF Next, ProxyStep, UpstreamStep

-----------------------------------------------------------------------------
(* The theorems. *)

\* Where every response announces its length, what is still on an idle connection's
\* wire is nothing, and what is on the wire of one in use is the rest of the answer
\* to the request that holds it (dial.rs:90-139).
THEOREM SizedSafety == ASSUME AllSized PROVE Spec => []SizedInv
<1>1. Init => OnWire /\ BodyUnlessCut
  <2> SUFFICES ASSUME Init PROVE OnWire /\ BodyUnlessCut
    OBVIOUS
  <2>1. Active = {} /\ IdleConns = {} /\ Unused \subseteq Conns
    BY DEF Init, Active, IdleConns, Unused
  <2> QED
    BY <2>1 DEF Init, OnWire, Quiet, SizedInTime, BodyUnlessCut
<1>2. Init => SizedInv
  BY <1>1, InitInv DEF SizedInv
<1>3. SizedInv /\ [Next]_vars => SizedInv'
  BY StepInv, StepSized DEF SizedInv
<1> QED
  BY <1>2, <1>3, PTL DEF Spec

\* Where every response announces its length, a response that is passed on is
\* made of nothing but the upstream's answer to this request, on whatever reused
\* connection it came and wherever the upstream closed (dial.rs:90-139).
THEOREM AnswersOwn == ASSUME AllSized PROVE Spec => []OwnAnswer
<1>1. SizedInv => OwnAnswer
  BY DEF SizedInv, OnWire, OwnAnswer
<1> QED
  BY <1>1, SizedSafety, PTL

\* Where every response announces its length, none is passed on without its body
\* unless it was cut inside its headers (dial.rs:107-132).
THEOREM BodyComplete == ASSUME AllSized PROVE Spec => []BodyUnlessCut
<1>1. SizedInv => BodyUnlessCut
  BY DEF SizedInv
<1> QED
  BY <1>1, SizedSafety, PTL
=============================================================================
