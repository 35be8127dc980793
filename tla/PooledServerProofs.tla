------------------------- MODULE PooledServerProofs -------------------------
(***************************************************************************)
(* Proofs about the workers of mode pooled, for any finite sets of clients *)
(* and workers, any queue depth and any pool size, whatever fails: the     *)
(* selector's gauge and the counts of the pools.                           *)
(*                                                                         *)
(* The second half is about the way of a connection from accept() to a     *)
(* worker and its end.  That connections are taken up in order, and that   *)
(* each is in one place, rests on one picture (InLine): the connections    *)
(* accepted so far are, in this order, those taken up, those in the queue  *)
(* and the one in hand.  Since no connection is accepted twice (Distinct), *)
(* a connection has one place in that line; those taken up are with one    *)
(* worker or closed (Served).                                              *)
(***************************************************************************)
EXTENDS PooledServer, FiniteSetTheorems, TLAPS

\* What a worker has in hand, by where it is.
HasJob == {"read", "get", "forward", "reply", "fail"}
HasUp  == {"get", "forward", "lost"}

InHands ==
  \A w \in Workers :
    /\ job[w] \in Clients <=> pc[w] \in HasJob
    /\ up[w] \in Upstreams <=> pc[w] \in HasUp

\* The workers that use a pooled connection of u, or that panicked with one, and
\* those next() gave u to.
Forwarding(u) == {w \in Workers : pc[w] \in {"forward", "lost"} /\ up[w] = u}
Given(u)      == {w \in Workers : up[w] = u}

BusyExact == \A u \in Upstreams : busy[u] = Cardinality(Forwarding(u))

Inv ==
  /\ TypeOK
  /\ InHands
  /\ BusyExact
  /\ GaugeMatchesWorkers

-----------------------------------------------------------------------------
(* Sequences. *)

LEMMA AppendFacts ==
  ASSUME NEW S, NEW s \in Seq(S), NEW x \in S
  PROVE  /\ Append(s, x) \in Seq(S) /\ Len(s) \in Nat
         /\ Len(Append(s, x)) = Len(s) + 1 /\ Append(s, x)[Len(s) + 1] = x
         /\ \A i \in 1 .. Len(s) : Append(s, x)[i] = s[i]
  OBVIOUS

LEMMA TailFacts ==
  ASSUME NEW S, NEW s \in Seq(S), s # <<>>
  PROVE  /\ Tail(s) \in Seq(S) /\ Len(s) \in Nat \ {0} /\ Head(s) = s[1] /\ Head(s) \in S
         /\ Len(Tail(s)) = Len(s) - 1
         /\ \A i \in 1 .. Len(s) - 1 : Tail(s)[i] = s[i + 1]
  OBVIOUS

-----------------------------------------------------------------------------
(* The initial state. *)

LEMMA InitInv == Init => Inv
<1> SUFFICES ASSUME Init PROVE Inv
  OBVIOUS
<1>1. TypeOK
  <2>1. /\ backlog \in Seq(Clients) /\ queue \in Seq(Clients)
        /\ order \in Seq(Clients) /\ started \in Seq(Clients)
    BY DEF Init
  <2>2. /\ client \in [Clients -> {"new", "silent", "over"}]
        /\ answer \in [Clients -> {"none", "dropped", "response", "bad_gateway"}]
        /\ pc \in [Workers -> PC]
    BY DEF Init, PC
  <2>3. /\ job \in [Workers -> Clients \cup {None}]
        /\ up \in [Workers -> Upstreams \cup {None}]
        /\ inflight \in [Upstreams -> Int] /\ busy \in [Upstreams -> 0 .. PoolSize]
    BY ServerAssumption DEF Init
  <2>4. /\ faults \in Faults /\ accepted \in Clients \cup {None}
        /\ rxLock \in Workers \cup {None} /\ running \in BOOLEAN
    BY DEF Init
  <2> QED
    BY <2>1, <2>2, <2>3, <2>4 DEF TypeOK
<1>2. InHands
  BY ServerAssumption DEF Init, InHands, HasJob, HasUp
<1>3. BusyExact /\ GaugeMatchesWorkers
  <2>1. \A u \in Upstreams : Forwarding(u) = {} /\ {w \in Workers : up[w] = u} = {}
    BY ServerAssumption DEF Init, Forwarding
  <2> QED
    BY Zenon, <2>1, FS_EmptySet DEF Init, BusyExact, GaugeMatchesWorkers
<1> QED
  BY <1>1, <1>2, <1>3 DEF Inv

-----------------------------------------------------------------------------
(* Steps, by what they touch. *)

AcceptSide == Accept \/ Enqueue \/ AcceptError
Conversing == \E c \in Clients : Connect(c) \/ SendOrHangUp(c)

LEMMA NextCases ==
  ASSUME Next
  PROVE  \/ AcceptSide \/ Conversing
         \/ \E w \in Workers : \/ LockRx(w) \/ Recv(w) \/ ReadErr(w) \/ ReadPanic(w) \/ ReadOk(w)
                               \/ PoolGet(w) \/ ForwardEnd(w) \/ ForwardPanic(w) \/ WriteBack(w)
  BY DEF Next, Step, HandleConn, AcceptSide, Conversing

LEMMA NextFaults ==
  ASSUME Next PROVE faults' = faults
  BY DEF Next, Step

\* What a step of the accept loop or of a client leaves alone.
LEMMA OutsideWorkers ==
  ASSUME AcceptSide \/ Conversing
  PROVE  UNCHANGED workerVars
  BY DEF AcceptSide, Conversing, Accept, Enqueue, AcceptError, Connect, SendOrHangUp

\* What a worker's step leaves alone.
LEMMA OutsideAccept ==
  ASSUME NEW w \in Workers,
         \/ LockRx(w) \/ Recv(w) \/ ReadErr(w) \/ ReadPanic(w) \/ ReadOk(w)
         \/ PoolGet(w) \/ ForwardEnd(w) \/ ForwardPanic(w) \/ WriteBack(w)
  PROVE  UNCHANGED acceptVars
  BY Zenon DEF LockRx, Recv, ReadErr, ReadPanic, ReadOk, PoolGet, ForwardEnd, ForwardPanic,
    WriteBack

\* A set of workers that one more joins, or that one leaves.
LEMMA OneMore ==
  ASSUME NEW S \in SUBSET Workers, NEW w \in Workers, w \notin S
  PROVE  Cardinality(S \cup {w}) = Cardinality(S) + 1 /\ Cardinality(S) \in Nat
  BY ServerAssumption, FS_Subset, FS_AddElement, FS_CardinalityType

LEMMA OneLess ==
  ASSUME NEW S \in SUBSET Workers, NEW w \in S
  PROVE  /\ Cardinality(S \ {w}) = Cardinality(S) - 1
         /\ Cardinality(S) \in Nat /\ Cardinality(S) >= 1
<1>1. IsFiniteSet(S) /\ IsFiniteSet(S \ {w})
  BY ServerAssumption, FS_Subset
<1>2. Cardinality(S \ {w}) = Cardinality(S) - 1
  BY <1>1, FS_RemoveElement
<1> QED
  BY <1>1, <1>2, FS_CardinalityType

-----------------------------------------------------------------------------
(* The workers' own state: types, what they have in hand, and the counts. *)

LEMMA StepWorkers ==
  ASSUME Inv, Next
  PROVE  InHands' /\ BusyExact' /\ GaugeMatchesWorkers' /\ busy' \in [Upstreams -> 0 .. PoolSize]
<1> USE DEF Inv
<1>0. /\ pc \in [Workers -> PC] /\ job \in [Workers -> Clients \cup {None}]
      /\ up \in [Workers -> Upstreams \cup {None}] /\ inflight \in [Upstreams -> Int]
      /\ busy \in [Upstreams -> 0 .. PoolSize] /\ queue \in Seq(Clients)
      /\ None \notin Clients \cup Upstreams \cup Workers /\ PoolSize \in Nat
  BY ServerAssumption DEF TypeOK
<1> DEFINE Counts == BusyExact /\ GaugeMatchesWorkers /\ busy \in [Upstreams -> 0 .. PoolSize]
<1>1. CASE AcceptSide \/ Conversing
  <2>1. UNCHANGED <<pc, job, up, inflight, busy>>
    BY <1>1, OutsideWorkers DEF workerVars
  <2>2. \A u \in Upstreams : Forwarding(u)' = Forwarding(u)
    BY <2>1 DEF Forwarding
  <2> QED
    BY <1>0, <2>1, <2>2 DEF InHands, BusyExact, GaugeMatchesWorkers
<1>2. ASSUME NEW w \in Workers, LockRx(w) \/ Recv(w) \/ ReadErr(w) \/ ReadPanic(w) \/ WriteBack(w)
      PROVE  InHands' /\ Counts'
  <2>1. /\ UNCHANGED <<up, inflight, busy>>
        /\ pc[w] \notin HasUp
        /\ \E l \in {"lock", "recv", "read", "dead"} : pc' = [pc EXCEPT ![w] = l]
    BY <1>2 DEF LockRx, Recv, ReadErr, ReadPanic, WriteBack, Close, Goto, HasUp
  <2>2. \A u \in Upstreams : Forwarding(u)' = Forwarding(u)
    BY <1>0, <2>1 DEF Forwarding, HasUp
  <2>3. Counts'
    BY <1>0, <2>1, <2>2 DEF BusyExact, GaugeMatchesWorkers
  <2>4. \A v \in Workers : v # w => job'[v] = job[v] /\ pc'[v] = pc[v]
    BY <1>0, <1>2, <2>1 DEF LockRx, Recv, ReadErr, ReadPanic, WriteBack, Close
  <2>5. job'[w] \in Clients <=> pc'[w] \in HasJob
    <3>1. CASE LockRx(w)
      BY <1>0, <3>1 DEF LockRx, Goto, HasJob, InHands
    <3>2. CASE Recv(w)
      <4>1. Head(queue) \in Clients
        BY <1>0, <3>2, TailFacts DEF Recv
      <4> QED
        BY <1>0, <3>2, <4>1 DEF Recv, Goto, HasJob
    <3>3. CASE ReadErr(w) \/ ReadPanic(w) \/ WriteBack(w)
      BY <1>0, <3>3 DEF ReadErr, ReadPanic, WriteBack, Close, Goto, HasJob
    <3> QED
      BY <1>2, <3>1, <3>2, <3>3
  <2>6. up'[w] \in Upstreams <=> pc'[w] \in HasUp
    BY <1>0, <2>1 DEF InHands, HasUp
  <2> QED
    BY <2>1, <2>3, <2>4, <2>5, <2>6 DEF InHands
<1>3. ASSUME NEW w \in Workers, ReadOk(w)
      PROVE  InHands' /\ Counts'
  <2>1. PICK u \in Upstreams : /\ up' = [up EXCEPT ![w] = u]
                               /\ inflight' = [inflight EXCEPT ![u] = @ + 1]
    BY Zenon, <1>3 DEF ReadOk
  <2>2. /\ UNCHANGED <<job, busy>> /\ pc[w] = "read"
        /\ pc' = [pc EXCEPT ![w] = "get"]
    BY <1>3 DEF ReadOk, Goto
  <2>3. up[w] \notin Upstreams
    BY <2>2 DEF InHands, HasUp
  <2>4. InHands'
    BY <1>0, <2>1, <2>2 DEF InHands, HasJob, HasUp
  <2>5. \A v \in Upstreams : Forwarding(v)' = Forwarding(v)
    BY <1>0, <2>1, <2>2 DEF Forwarding
  <2>6. \A v \in Upstreams : v # u => Given(v)' = Given(v)
    BY <1>0, <2>1, <2>3 DEF Given
  <2>7. Given(u)' = Given(u) \cup {w} /\ w \notin Given(u)
    BY <1>0, <2>1, <2>3 DEF Given
  <2>8. Cardinality(Given(u)') = Cardinality(Given(u)) + 1
    BY <2>7, OneMore DEF Given
  <2>9. GaugeMatchesWorkers'
    <3>1. \A v \in Upstreams : inflight[v] = Cardinality(Given(v))
      BY DEF GaugeMatchesWorkers, Given
    <3>2. \A v \in Upstreams : inflight'[v] = Cardinality(Given(v)')
      BY <1>0, <2>1, <2>6, <2>8, <3>1
    <3> QED
      BY <3>2 DEF GaugeMatchesWorkers, Given
  <2> QED
    BY <1>0, <2>2, <2>4, <2>5, <2>9 DEF BusyExact
<1>4. ASSUME NEW w \in Workers, PoolGet(w)
      PROVE  InHands' /\ Counts'
  <2>1. /\ UNCHANGED <<job, up, inflight>> /\ pc[w] = "get"
        /\ pc' = [pc EXCEPT ![w] = "forward"]
        /\ busy[up[w]] < PoolSize /\ busy' = [busy EXCEPT ![up[w]] = @ + 1]
    BY <1>4 DEF PoolGet, Goto
  <2>2. PICK u \in Upstreams : u = up[w]
    BY <2>1 DEF InHands, HasUp
  <2>3. InHands'
    BY <1>0, <2>1, <2>2 DEF InHands, HasJob, HasUp
  <2>4. \A v \in Upstreams : v # u => Forwarding(v)' = Forwarding(v)
    BY <1>0, <2>1, <2>2 DEF Forwarding
  <2>5. Forwarding(u)' = Forwarding(u) \cup {w} /\ w \notin Forwarding(u)
    BY <1>0, <2>1, <2>2 DEF Forwarding
  <2>6. Cardinality(Forwarding(u)') = Cardinality(Forwarding(u)) + 1
    BY <2>5, OneMore DEF Forwarding
  <2>7. BusyExact' /\ busy' \in [Upstreams -> 0 .. PoolSize]
    BY <1>0, <2>1, <2>2, <2>4, <2>6 DEF BusyExact
  <2> QED
    BY <2>1, <2>3, <2>7 DEF GaugeMatchesWorkers
<1>5. ASSUME NEW w \in Workers, ForwardEnd(w)
      PROVE  InHands' /\ Counts'
  <2>1. /\ UNCHANGED job /\ pc[w] = "forward"
        /\ busy' = [busy EXCEPT ![up[w]] = @ - 1]
        /\ inflight' = [inflight EXCEPT ![up[w]] = @ - 1]
        /\ up' = [up EXCEPT ![w] = None]
    BY <1>5 DEF ForwardEnd, Put, Released
  <2>2. PICK l \in {"reply", "fail"} : pc' = [pc EXCEPT ![w] = l]
    BY Zenon, <1>5 DEF ForwardEnd, Goto
  <2>3. PICK u \in Upstreams : u = up[w]
    BY <2>1 DEF InHands, HasUp
  <2>4. InHands'
    BY <1>0, <2>1, <2>2 DEF InHands, HasJob, HasUp
  <2>5. \A v \in Upstreams : v # u => Forwarding(v)' = Forwarding(v) /\ Given(v)' = Given(v)
    BY <1>0, <2>1, <2>2, <2>3 DEF Forwarding, Given
  <2>6. /\ Forwarding(u)' = Forwarding(u) \ {w} /\ w \in Forwarding(u)
        /\ Given(u)' = Given(u) \ {w} /\ w \in Given(u)
    BY <1>0, <2>1, <2>2, <2>3 DEF Forwarding, Given
  <2>7. /\ Cardinality(Forwarding(u)') = Cardinality(Forwarding(u)) - 1
        /\ Cardinality(Forwarding(u)) \in Nat /\ Cardinality(Forwarding(u)) >= 1
        /\ Cardinality(Given(u)') = Cardinality(Given(u)) - 1
    <3>1. Forwarding(u) \in SUBSET Workers /\ Given(u) \in SUBSET Workers
      BY DEF Forwarding, Given
    <3> QED
      BY <2>6, <3>1, OneLess
  <2>8. BusyExact' /\ busy' \in [Upstreams -> 0 .. PoolSize]
    BY <1>0, <2>1, <2>3, <2>5, <2>7 DEF BusyExact
  <2>9. GaugeMatchesWorkers'
    <3>1. \A v \in Upstreams : inflight[v] = Cardinality(Given(v))
      BY DEF GaugeMatchesWorkers, Given
    <3>2. \A v \in Upstreams : inflight'[v] = Cardinality(Given(v)')
      BY <1>0, <2>1, <2>3, <2>5, <2>7, <3>1
    <3> QED
      BY <3>2 DEF GaugeMatchesWorkers, Given
  <2> QED
    BY <2>4, <2>8, <2>9
<1>6. ASSUME NEW w \in Workers, ForwardPanic(w)
      PROVE  InHands' /\ Counts'
  <2>1. /\ UNCHANGED <<up, inflight, busy>> /\ pc[w] = "forward"
        /\ pc' = [pc EXCEPT ![w] = "lost"] /\ job' = [job EXCEPT ![w] = None]
    BY <1>6 DEF ForwardPanic, Close, Goto
  <2>2. \A u \in Upstreams : Forwarding(u)' = Forwarding(u)
    BY <1>0, <2>1 DEF Forwarding
  <2>3. InHands'
    BY <1>0, <2>1 DEF InHands, HasJob, HasUp
  <2> QED
    BY <1>0, <2>1, <2>2, <2>3 DEF BusyExact, GaugeMatchesWorkers
<1> QED
  BY <1>1, <1>2, <1>3, <1>4, <1>5, <1>6, NextCases

-----------------------------------------------------------------------------
(* Types. *)

LEMMA StepType ==
  ASSUME Inv, Next
  PROVE  TypeOK'
<1> USE DEF Inv
<1>0. TypeOK /\ None \notin Clients \cup Upstreams \cup Workers
  BY ServerAssumption
<1>1. faults' \in Faults /\ busy' \in [Upstreams -> 0 .. PoolSize]
  BY NextFaults, StepWorkers DEF TypeOK
<1>2. CASE AcceptSide \/ Conversing
  <2>1. UNCHANGED workerVars
    BY <1>2, OutsideWorkers
  <2>2. CASE Accept
    <3>1. Head(backlog) \in Clients /\ Tail(backlog) \in Seq(Clients)
      BY <1>0, <2>2, TailFacts DEF TypeOK, Accept
    <3>2. Append(order, Head(backlog)) \in Seq(Clients)
      BY <1>0, <3>1, AppendFacts DEF TypeOK
    <3> QED
      BY <1>0, <1>1, <2>1, <2>2, <3>1, <3>2 DEF TypeOK, Accept, workerVars
  <2>3. CASE Enqueue
    <3>1. Append(queue, accepted) \in Seq(Clients)
      BY <1>0, <2>3, AppendFacts DEF TypeOK, Enqueue
    <3> QED
      BY <1>0, <1>1, <2>1, <2>3, <3>1 DEF TypeOK, Enqueue, Sent, workerVars
  <2>4. CASE AcceptError
    BY Zenon, <1>0, <1>1, <2>1, <2>4 DEF TypeOK, AcceptError, workerVars
  <2>5. ASSUME NEW c \in Clients, Connect(c) PROVE TypeOK'
    <3>1. Append(backlog, c) \in Seq(Clients)
      BY <1>0, AppendFacts DEF TypeOK
    <3> QED
      BY <1>0, <1>1, <2>1, <2>5, <3>1 DEF TypeOK, Connect, workerVars
  <2>6. ASSUME NEW c \in Clients, SendOrHangUp(c) PROVE TypeOK'
    BY <1>0, <1>1, <2>1, <2>6 DEF TypeOK, SendOrHangUp, workerVars
  <2> QED
    BY <1>2, <2>2, <2>3, <2>4, <2>5, <2>6 DEF AcceptSide, Conversing
<1>3. ASSUME NEW w \in Workers,
             \/ LockRx(w) \/ Recv(w) \/ ReadErr(w) \/ ReadPanic(w) \/ ReadOk(w)
             \/ PoolGet(w) \/ ForwardEnd(w) \/ ForwardPanic(w) \/ WriteBack(w)
      PROVE  TypeOK'
  <2>1. UNCHANGED acceptVars
    BY <1>3, OutsideAccept
  <2>2. pc' \in [Workers -> PC]
    <3>1. \E l \in PC : pc' = [pc EXCEPT ![w] = l]
      BY Zenon, <1>3 DEF PC, Goto, Close, LockRx, Recv, ReadErr, ReadPanic, ReadOk, PoolGet,
        ForwardEnd, ForwardPanic, WriteBack
    <3> QED
      BY <1>0, <3>1 DEF TypeOK
  <2>3. /\ rxLock' \in Workers \cup {None} /\ up' \in [Workers -> Upstreams \cup {None}]
        /\ inflight' \in [Upstreams -> Int]
    <3>1. CASE \/ LockRx(w) \/ Recv(w) \/ ReadErr(w) \/ ReadPanic(w)
               \/ PoolGet(w) \/ ForwardPanic(w) \/ WriteBack(w)
      BY <1>0, <3>1 DEF TypeOK, LockRx, Recv, ReadErr, ReadPanic, PoolGet, ForwardPanic, WriteBack,
        Unlocked
    <3>2. CASE ReadOk(w)
      BY <1>0, <3>2 DEF TypeOK, ReadOk
    <3>3. CASE ForwardEnd(w)
      <4>1. /\ up' = [up EXCEPT ![w] = None] /\ UNCHANGED rxLock
            /\ inflight' = [inflight EXCEPT ![up[w]] = @ - 1]
        BY <3>3 DEF ForwardEnd, Released
      <4>2. PICK u \in Upstreams : u = up[w]
        BY <3>3 DEF ForwardEnd, InHands, HasUp
      <4>3. inflight' \in [Upstreams -> Int]
        BY <1>0, <4>1, <4>2 DEF TypeOK
      <4> QED
        BY <1>0, <4>1, <4>3 DEF TypeOK
    <3> QED
      BY <1>3, <3>1, <3>2, <3>3
  <2>4. /\ job' \in [Workers -> Clients \cup {None}]
        /\ queue' \in Seq(Clients) /\ started' \in Seq(Clients)
        /\ answer' \in [Clients -> {"none", "dropped", "response", "bad_gateway"}]
    <3>1. CASE Recv(w)
      <4>1. Head(queue) \in Clients /\ Tail(queue) \in Seq(Clients)
        BY <1>0, <3>1, TailFacts DEF TypeOK, Recv
      <4>2. Append(started, Head(queue)) \in Seq(Clients)
        BY <1>0, <4>1, AppendFacts DEF TypeOK
      <4> QED
        BY <1>0, <3>1, <4>1, <4>2 DEF TypeOK, Recv, Rest
    <3>2. CASE LockRx(w) \/ ReadOk(w) \/ PoolGet(w) \/ ForwardEnd(w)
      BY Zenon, <1>0, <3>2 DEF TypeOK, LockRx, ReadOk, PoolGet, ForwardEnd
    <3>3. CASE ReadErr(w) \/ ReadPanic(w) \/ ForwardPanic(w) \/ WriteBack(w)
      BY Zenon, <1>0, <3>3 DEF TypeOK, ReadErr, ReadPanic, ForwardPanic, WriteBack, Close
    <3> QED
      BY <1>3, <3>1, <3>2, <3>3
  <2> QED
    BY <1>0, <1>1, <2>1, <2>2, <2>3, <2>4 DEF TypeOK, acceptVars
<1> QED
  BY <1>2, <1>3, NextCases

-----------------------------------------------------------------------------
(* The theorems. *)

\* The invariant holds in every reachable state.
THEOREM Safety == Spec => []Inv
<1>1. Init => Inv
  BY InitInv
<1>2. Inv /\ [Next]_vars => Inv'
  <2>1. ASSUME Inv, Next PROVE Inv'
    BY <2>1, StepType, StepWorkers DEF Inv
  <2>2. ASSUME Inv, UNCHANGED vars PROVE Inv'
    <3>1. /\ UNCHANGED <<faults, client, backlog, accepted, queue, rxLock, pc, job, up>>
          /\ UNCHANGED <<inflight, busy, answer, running, order, started>>
      BY <2>2 DEF vars, acceptVars, workerVars
    <3>2. TypeOK' /\ InHands'
      BY <2>2, <3>1 DEF Inv, TypeOK, InHands
    <3>3. BusyExact' /\ GaugeMatchesWorkers'
      BY <2>2, <3>1 DEF Inv, BusyExact, Forwarding, GaugeMatchesWorkers
    <3> QED
      BY <3>2, <3>3 DEF Inv
  <2> QED
    BY <2>1, <2>2
<1> QED
  BY <1>1, <1>2, PTL DEF Spec

\* The state stays of its type; in particular no upstream's pool is ever left
\* with more, or fewer than no, connections in use (PoolGet, ForwardEnd).
THEOREM TypeCorrect == Spec => []TypeOK
<1>1. Inv => TypeOK
  BY DEF Inv
<1> QED
  BY <1>1, Safety, PTL

\* The gauge is exact on every path of handle_conn (proxy_http.rs:29-31).
THEOREM GaugeExact == Spec => []GaugeMatchesWorkers
<1>1. Inv => GaugeMatchesWorkers
  BY DEF Inv
<1> QED
  BY <1>1, Safety, PTL



InLine ==
  /\ Len(order) = Len(started) + Len(queue) + (IF accepted = None THEN 0 ELSE 1)
  /\ \A i \in 1 .. Len(started) : started[i] = order[i]
  /\ \A i \in 1 .. Len(queue) : queue[i] = order[Len(started) + i]
  /\ accepted # None => accepted = order[Len(order)]

Distinct ==
  /\ \A i, j \in 1 .. Len(order) : order[i] = order[j] => i = j
  /\ \A i, j \in 1 .. Len(backlog) : backlog[i] = backlog[j] => i = j
  /\ \A i \in 1 .. Len(order), j \in 1 .. Len(backlog) : order[i] # backlog[j]
  /\ \A i \in 1 .. Len(order) : client[order[i]] # "new"
  /\ \A j \in 1 .. Len(backlog) : client[backlog[j]] # "new"

Served ==
  /\ Elems(started) = AtWorker \cup Closed
  /\ AtWorker \cap Closed = {}
  /\ \A v, w \in Workers : job[v] = job[w] /\ job[v] # None => v = w

Line == InLine /\ Distinct /\ Served

LEMMA ElemsFacts ==
  ASSUME NEW S, NEW s \in Seq(S)
  PROVE  Elems(s) = {s[i] : i \in 1 .. Len(s)} /\ Elems(s) \subseteq S
  BY DEF Elems

-----------------------------------------------------------------------------
(* The line from accept() to the workers. *)

LEMMA StepLine ==
  ASSUME Inv, Line, Next
  PROVE  InLine'
<1> USE DEF Inv, Line
<1>0. /\ backlog \in Seq(Clients) /\ order \in Seq(Clients) /\ started \in Seq(Clients)
      /\ queue \in Seq(Clients) /\ accepted \in Clients \cup {None} /\ None \notin Clients
      /\ Len(order) \in Nat /\ Len(started) \in Nat /\ Len(queue) \in Nat
  BY ServerAssumption DEF TypeOK
<1>1. CASE Accept
  <2>1. /\ accepted = None /\ accepted' = Head(backlog) /\ UNCHANGED <<queue, started>>
        /\ order' = Append(order, Head(backlog))
    BY <1>1 DEF Accept, workerVars
  <2>2. Head(backlog) \in Clients
    BY <1>0, <1>1, TailFacts DEF Accept
  <2>3. /\ Len(order') = Len(order) + 1 /\ order'[Len(order) + 1] = Head(backlog)
        /\ \A i \in 1 .. Len(order) : order'[i] = order[i]
    BY <1>0, <2>1, <2>2, AppendFacts
  <2>4. Len(order) = Len(started) + Len(queue)
    BY <1>0, <2>1 DEF InLine
  <2>5. /\ \A i \in 1 .. Len(started) : started[i] = order'[i]
        /\ \A i \in 1 .. Len(queue) : queue[i] = order'[Len(started) + i]
    BY <1>0, <2>3, <2>4 DEF InLine
  <2>6. accepted' # None /\ accepted' = order'[Len(order')]
    BY <1>0, <2>1, <2>2, <2>3
  <2> QED
    BY <1>0, <2>1, <2>3, <2>4, <2>5, <2>6 DEF InLine
<1>2. CASE Enqueue
  <2>1. /\ accepted \in Clients /\ accepted' = None /\ UNCHANGED <<order, started>>
        /\ queue' = Append(queue, accepted)
    BY <1>0, <1>2 DEF Enqueue, Sent, workerVars
  <2>2. /\ Len(queue') = Len(queue) + 1 /\ queue'[Len(queue) + 1] = accepted
        /\ \A i \in 1 .. Len(queue) : queue'[i] = queue[i]
    BY <1>0, <2>1, AppendFacts
  <2>3. Len(order) = Len(started) + Len(queue) + 1 /\ accepted = order[Len(order)]
    BY Zenon, <1>0, <2>1 DEF InLine
  <2>4. \A i \in 1 .. Len(queue') : queue'[i] = order[Len(started) + i]
    <3> SUFFICES ASSUME NEW i \in 1 .. Len(queue') PROVE queue'[i] = order[Len(started) + i]
      OBVIOUS
    <3>1. i \in 1 .. Len(queue) \/ i = Len(queue) + 1
      BY <1>0, <2>2
    <3>2. Len(started) + (Len(queue) + 1) = Len(order)
      BY <1>0, <2>3
    <3> QED
      BY <2>2, <2>3, <3>1, <3>2 DEF InLine
  <2> QED
    BY <1>0, <2>1, <2>2, <2>3, <2>4 DEF InLine
<1>3. ASSUME NEW w \in Workers, Recv(w) PROVE InLine'
  <2>1. /\ queue # <<>> /\ queue' = Tail(queue) /\ UNCHANGED <<order, accepted>>
        /\ started' = Append(started, Head(queue))
    BY <1>3 DEF Recv, Rest, acceptVars
  <2>2. /\ Head(queue) \in Clients /\ Len(queue) >= 1 /\ Head(queue) = queue[1]
        /\ Len(queue') = Len(queue) - 1
        /\ \A i \in 1 .. Len(queue) - 1 : queue'[i] = queue[i + 1]
    BY <1>0, <2>1, TailFacts
  <2>3. /\ Len(started') = Len(started) + 1 /\ started'[Len(started) + 1] = queue[1]
        /\ \A i \in 1 .. Len(started) : started'[i] = started[i]
    BY <1>0, <2>1, <2>2, AppendFacts
  <2>4. queue[1] = order[Len(started) + 1]
    BY <1>0, <2>2 DEF InLine
  <2>5. \A i \in 1 .. Len(started') : started'[i] = order[i]
    <3> SUFFICES ASSUME NEW i \in 1 .. Len(started') PROVE started'[i] = order[i]
      OBVIOUS
    <3>1. i \in 1 .. Len(started) \/ i = Len(started) + 1
      BY <1>0, <2>3
    <3> QED
      BY <2>3, <2>4, <3>1 DEF InLine
  <2>6. \A i \in 1 .. Len(queue') : queue'[i] = order[Len(started') + i]
    <3> SUFFICES ASSUME NEW i \in 1 .. Len(queue')
                 PROVE  queue'[i] = order[Len(started') + i]
      OBVIOUS
    <3>1. i + 1 \in 1 .. Len(queue) /\ i \in 1 .. Len(queue) - 1 /\ i \in Nat
      BY <1>0, <2>2
    <3>2. queue[i + 1] = order[Len(started) + (i + 1)]
      BY <3>1 DEF InLine
    <3> QED
      BY <1>0, <2>2, <2>3, <3>1, <3>2
  <2>7. Len(started') + Len(queue') = Len(started) + Len(queue)
    BY <1>0, <2>2, <2>3
  <2>8. Len(order) = Len(started') + Len(queue') + (IF accepted = None THEN 0 ELSE 1)
    BY <1>0, <2>2, <2>3 DEF InLine
  <2> QED
    BY Zenon, <2>1, <2>5, <2>6, <2>8 DEF InLine
<1>4. CASE UNCHANGED <<order, queue, accepted, started>>
  BY <1>4 DEF InLine
<1>5. \/ Accept \/ Enqueue \/ \E w \in Workers : Recv(w)
      \/ UNCHANGED <<order, queue, accepted, started>>
  <2>1. AcceptError \/ Conversing => UNCHANGED <<order, queue, accepted, started>>
    BY DEF AcceptError, Conversing, Connect, SendOrHangUp, workerVars
  <2>2. \A w \in Workers : \/ LockRx(w) \/ ReadErr(w) \/ ReadPanic(w) \/ ReadOk(w)
                          \/ PoolGet(w) \/ ForwardEnd(w) \/ ForwardPanic(w) \/ WriteBack(w)
            => UNCHANGED <<order, queue, accepted, started>>
    BY Zenon DEF LockRx, ReadErr, ReadPanic, ReadOk, PoolGet, ForwardEnd, ForwardPanic, WriteBack,
      acceptVars
  <2> QED
    BY <2>1, <2>2, NextCases DEF AcceptSide
<1> QED
  BY <1>1, <1>2, <1>3, <1>4, <1>5

\* accept() returns a connection that it has not returned before.
LEMMA StepDistinct ==
  ASSUME Inv, Line, Next
  PROVE  Distinct'
<1> USE DEF Inv, Line
<1>0. /\ backlog \in Seq(Clients) /\ order \in Seq(Clients)
      /\ client \in [Clients -> {"new", "silent", "over"}]
      /\ Len(order) \in Nat /\ Len(backlog) \in Nat
      /\ \A i \in 1 .. Len(order) : order[i] \in Clients
      /\ \A i \in 1 .. Len(backlog) : backlog[i] \in Clients
  BY DEF TypeOK
<1>1. CASE Accept
  <2>1. /\ backlog # <<>> /\ backlog' = Tail(backlog) /\ UNCHANGED client
        /\ order' = Append(order, Head(backlog))
    BY <1>1 DEF Accept
  <2>2. /\ Head(backlog) \in Clients /\ Len(backlog) >= 1 /\ Head(backlog) = backlog[1]
        /\ Len(backlog') = Len(backlog) - 1
        /\ \A i \in 1 .. Len(backlog) - 1 : backlog'[i] = backlog[i + 1]
    BY <1>0, <2>1, TailFacts
  <2>3. /\ Len(order') = Len(order) + 1 /\ order'[Len(order) + 1] = backlog[1]
        /\ \A i \in 1 .. Len(order) : order'[i] = order[i]
    BY SMTT(30), <1>0, <2>1, <2>2, AppendFacts
  <2>4. \A i \in 1 .. Len(order) : order[i] # backlog[1]
    BY <1>0, <2>2 DEF Distinct
  <2>5. \A i, j \in 1 .. Len(order') : order'[i] = order'[j] => i = j
    BY <1>0, <2>3, <2>4 DEF Distinct
  <2>6. \A i, j \in 1 .. Len(backlog') : backlog'[i] = backlog'[j] => i = j
    BY <1>0, <2>2 DEF Distinct
  <2>7. ASSUME NEW i \in 1 .. Len(order'), NEW j \in 1 .. Len(backlog')
        PROVE  order'[i] # backlog'[j]
    <3>1. i \in 1 .. Len(order) \/ i = Len(order) + 1
      BY <1>0, <2>3
    <3>2. j \in 1 .. Len(backlog) - 1 /\ j + 1 \in 1 .. Len(backlog) /\ 1 \in 1 .. Len(backlog) /\ j + 1 # 1
      BY <1>0, <2>2
    <3> QED
      BY <2>2, <2>3, <3>1, <3>2 DEF Distinct
  <2>8. /\ \A i \in 1 .. Len(order') : client[order'[i]] # "new"
        /\ \A j \in 1 .. Len(backlog') : client[backlog'[j]] # "new"
    <3>1. ASSUME NEW i \in 1 .. Len(order') PROVE client[order'[i]] # "new"
      <4>1. i \in 1 .. Len(order) \/ i = Len(order) + 1
        BY <1>0, <2>3
      <4>2. 1 \in 1 .. Len(backlog)
        BY <1>0, <2>2
      <4> QED
        BY <2>3, <4>1, <4>2 DEF Distinct
    <3>2. ASSUME NEW j \in 1 .. Len(backlog') PROVE client[backlog'[j]] # "new"
      <4>1. j \in 1 .. Len(backlog) - 1 /\ j + 1 \in 1 .. Len(backlog)
        BY <1>0, <2>2
      <4> QED
        BY <2>2, <4>1 DEF Distinct
    <3> QED
      BY <3>1, <3>2
  <2> QED
    BY ZenonT(30), <2>1, <2>5, <2>6, <2>7, <2>8 DEF Distinct
<1>2. ASSUME NEW c \in Clients, Connect(c) PROVE Distinct'
  <2>1. /\ client[c] = "new" /\ client' = [client EXCEPT ![c] = "silent"]
        /\ backlog' = Append(backlog, c) /\ UNCHANGED order
    BY <1>2 DEF Connect
  <2>2. /\ Len(backlog') = Len(backlog) + 1 /\ backlog'[Len(backlog) + 1] = c
        /\ \A i \in 1 .. Len(backlog) : backlog'[i] = backlog[i]
    BY <1>0, <2>1, AppendFacts
  <2>3. /\ \A i \in 1 .. Len(backlog) : backlog[i] # c
        /\ \A i \in 1 .. Len(order) : order[i] # c
    BY <2>1 DEF Distinct
  <2>4. \A i, j \in 1 .. Len(backlog') : backlog'[i] = backlog'[j] => i = j
    BY <1>0, <2>2, <2>3 DEF Distinct
  <2>5. \A i \in 1 .. Len(order), j \in 1 .. Len(backlog') : order[i] # backlog'[j]
    BY <1>0, <2>2, <2>3 DEF Distinct
  <2>6. \A d \in Clients : client'[d] # "new" <=> (d = c \/ client[d] # "new")
    BY <1>0, <2>1
  <2>7. /\ \A i \in 1 .. Len(order) : client'[order[i]] # "new"
        /\ \A j \in 1 .. Len(backlog') : client'[backlog'[j]] # "new"
    <3>1. ASSUME NEW j \in 1 .. Len(backlog') PROVE client'[backlog'[j]] # "new"
      <4>1. j \in 1 .. Len(backlog) \/ backlog'[j] = c
        BY <1>0, <2>2
      <4> QED
        BY <1>0, <2>2, <2>6, <4>1 DEF Distinct
    <3>2. \A i \in 1 .. Len(order) : client'[order[i]] # "new"
      BY <1>0, <2>6 DEF Distinct
    <3> QED
      BY <3>1, <3>2
  <2> QED
    BY <2>1, <2>4, <2>5, <2>7 DEF Distinct
<1>3. ASSUME NEW c \in Clients, SendOrHangUp(c) PROVE Distinct'
  BY <1>0, <1>3 DEF Distinct, SendOrHangUp
<1>4. CASE UNCHANGED <<order, backlog, client>>
  BY <1>4 DEF Distinct
<1>5. \/ Accept \/ Conversing
      \/ UNCHANGED <<order, backlog, client>>
  <2>1. AcceptError \/ Enqueue => UNCHANGED <<order, backlog, client>>
    BY DEF AcceptError, Enqueue
  <2> QED
    BY <2>1, NextCases, OutsideAccept DEF AcceptSide, acceptVars
<1> QED
  BY <1>1, <1>2, <1>3, <1>4, <1>5 DEF Conversing

-----------------------------------------------------------------------------
(* What workers have taken up. *)

\* A connection in the queue has not been taken up.
LEMMA QueueIsNew ==
  ASSUME Inv, Line, queue # <<>>
  PROVE  Head(queue) \in Clients /\ Head(queue) \notin Elems(started)
<1>0. /\ order \in Seq(Clients) /\ started \in Seq(Clients) /\ queue \in Seq(Clients)
      /\ Len(order) \in Nat /\ Len(started) \in Nat
  BY DEF Inv, TypeOK
<1>1. Head(queue) \in Clients /\ Head(queue) = queue[1] /\ Len(queue) \in Nat \ {0}
  BY <1>0, TailFacts
<1>2. queue[1] = order[Len(started) + 1] /\ Len(order) >= Len(started) + 1
  BY <1>0, <1>1 DEF Line, InLine
<1>3. ASSUME NEW i \in 1 .. Len(started) PROVE started[i] # queue[1]
  <2>1. /\ i \in 1 .. Len(order) /\ Len(started) + 1 \in 1 .. Len(order)
        /\ i # Len(started) + 1
    BY <1>0, <1>2
  <2> QED
    BY <1>2, <2>1 DEF Line, InLine, Distinct
<1>4. Elems(started) = {started[i] : i \in 1 .. Len(started)}
  BY <1>0, ElemsFacts
<1> QED
  BY <1>1, <1>3, <1>4

LEMMA StepServed ==
  ASSUME Inv, Line, Next
  PROVE  Served'
<1> USE DEF Inv, Line
<1>0. /\ started \in Seq(Clients) /\ job \in [Workers -> Clients \cup {None}]
      /\ answer \in [Clients -> {"none", "dropped", "response", "bad_gateway"}]
      /\ None \notin Clients
  BY ServerAssumption DEF TypeOK
<1>1. ASSUME NEW w \in Workers, Recv(w) PROVE Served'
  <2> DEFINE c == Head(queue)
  <2>1. /\ queue # <<>> /\ pc[w] = "recv" /\ UNCHANGED answer
        /\ job' = [job EXCEPT ![w] = c] /\ started' = Append(started, c)
    BY <1>1 DEF Recv
  <2>2. c \in Clients /\ c \notin Elems(started)
    BY <2>1, QueueIsNew
  <2> HIDE DEF c
  <2>3. Elems(started') = Elems(started) \cup {c}
    <3>1. /\ Append(started, c) \in Seq(Clients) /\ Len(started) \in Nat
          /\ Len(started') = Len(started) + 1 /\ started'[Len(started) + 1] = c
          /\ \A i \in 1 .. Len(started) : started'[i] = started[i]
      BY <1>0, <2>1, <2>2, AppendFacts
    <3>2. /\ Elems(started') = {started'[i] : i \in 1 .. Len(started')}
          /\ Elems(started) = {started[i] : i \in 1 .. Len(started)}
      <4>1. started' \in Seq(Clients)
        BY <2>1, <3>1
      <4> QED
        BY <1>0, <4>1 DEF Elems
    <3>3. 1 .. Len(started') = (1 .. Len(started)) \cup {Len(started) + 1}
      BY <3>1
    <3> QED
      BY <3>1, <3>2, <3>3
  <2>4. job[w] = None
    BY <1>0, <2>1 DEF InHands, HasJob
  <2>5. AtWorker' = AtWorker \cup {c} /\ Closed' = Closed
    BY <1>0, <2>1, <2>2, <2>4 DEF AtWorker, Closed
  <2>6. c \notin AtWorker /\ c \notin Closed
    BY <2>2 DEF Served
  <2>7. \A v \in Workers : v # w => job'[v] = job[v] /\ job'[v] # c
    BY <1>0, <2>1, <2>2, <2>6 DEF AtWorker
  <2>8. job'[w] = c
    BY <1>0, <2>1
  <2> QED
    BY <2>3, <2>5, <2>6, <2>7, <2>8 DEF Served
<1>2. ASSUME NEW w \in Workers, ReadErr(w) \/ ReadPanic(w) \/ ForwardPanic(w) \/ WriteBack(w)
      PROVE  Served'
  <2>1. PICK a \in {"dropped", "response", "bad_gateway"} : answer' = [answer EXCEPT ![job[w]] = a]
    BY <1>2 DEF ReadErr, ReadPanic, ForwardPanic, WriteBack, Close
  <2>2. /\ pc[w] \in HasJob /\ UNCHANGED started
        /\ job' = [job EXCEPT ![w] = None]
    BY <1>2 DEF ReadErr, ReadPanic, ForwardPanic, WriteBack, Close, HasJob
  <2>3. PICK c \in Clients : c = job[w]
    BY <2>2 DEF InHands
  <2>4. \A v \in Workers : v # w => job'[v] = job[v] /\ job[v] # c
    BY <1>0, <2>2, <2>3 DEF Served
  <2>5. job'[w] = None
    BY <1>0, <2>2
  <2>6. AtWorker' = AtWorker \ {c} /\ c \in AtWorker
    BY <1>0, <2>3, <2>4, <2>5 DEF AtWorker
  <2>7. Closed' = Closed \cup {c}
    BY <1>0, <2>1, <2>3 DEF Closed
  <2>8. Elems(started') = AtWorker' \cup Closed' /\ AtWorker' \cap Closed' = {}
    BY <2>2, <2>6, <2>7 DEF Served
  <2>9. \A v, u \in Workers : job'[v] = job'[u] /\ job'[v] # None => v = u
    BY <2>4, <2>5 DEF Served
  <2> QED
    BY <2>8, <2>9 DEF Served
<1>3. CASE UNCHANGED <<started, job, answer>>
  BY <1>3 DEF Served, AtWorker, Closed
<1>4. \/ \E w \in Workers :
            Recv(w) \/ ReadErr(w) \/ ReadPanic(w) \/ ForwardPanic(w) \/ WriteBack(w)
      \/ UNCHANGED <<started, job, answer>>
  <2>1. \A w \in Workers : LockRx(w) \/ ReadOk(w) \/ PoolGet(w) \/ ForwardEnd(w)
          => UNCHANGED <<started, job, answer>>
    BY Zenon DEF LockRx, ReadOk, PoolGet, ForwardEnd
  <2>2. AcceptSide \/ Conversing => UNCHANGED <<started, job, answer>>
    BY OutsideWorkers DEF workerVars
  <2> QED
    BY <2>1, <2>2, NextCases
<1> QED
  BY <1>1, <1>2, <1>3, <1>4

-----------------------------------------------------------------------------
(* The theorems. *)

\* The line holds in every reachable state.
THEOREM Lined == Spec => []Line
<1>1. Init => Line
  <2> SUFFICES ASSUME Init PROVE Line
    OBVIOUS
  <2>1. InLine /\ Distinct
    BY DEF Init, InLine, Distinct
  <2>2. Served
    BY DEF Init, Served, Elems, AtWorker, Closed
  <2> QED
    BY <2>1, <2>2 DEF Line
<1>2. Inv /\ Line /\ [Next]_vars => Line'
  <2>1. ASSUME Inv, Line, Next PROVE Line'
    BY <2>1, StepLine, StepDistinct, StepServed DEF Line
  <2>2. ASSUME Line, UNCHANGED vars PROVE Line'
    <3>1. UNCHANGED <<order, started, queue, accepted, backlog, client, job, answer>>
      BY <2>2 DEF vars, acceptVars, workerVars
    <3>2. InLine' /\ Distinct'
      BY <2>2, <3>1 DEF Line, InLine, Distinct
    <3>3. AtWorker' = AtWorker /\ Closed' = Closed
      BY <3>1 DEF AtWorker, Closed
    <3>4. Served'
      BY <2>2, <3>1, <3>3 DEF Line, Served
    <3> QED
      BY <3>2, <3>4 DEF Line
  <2> QED
    BY <2>1, <2>2
<1> QED
  BY <1>1, <1>2, Safety, PTL DEF Spec

\* However many workers race for the receiver, and whatever fails, they take
\* connections up in the order accept() returned them (main.rs:189-211).
THEOREM TakenUpInOrder == Spec => []InOrder
<1>1. Inv /\ Line => InOrder
  <2> SUFFICES ASSUME Inv, Line PROVE InOrder
    OBVIOUS
  <2>1. /\ Len(order) \in Nat /\ Len(started) \in Nat /\ Len(queue) \in Nat
        /\ DOMAIN started = 1 .. Len(started)
    BY DEF Inv, TypeOK
  <2>2. Len(started) <= Len(order)
    <3>1. PICK k \in {0, 1} : Len(order) = Len(started) + Len(queue) + k
      BY Zenon DEF Line, InLine
    <3> QED
      BY <2>1, <3>1
  <2> QED
    BY <2>1, <2>2 DEF Line, InLine, InOrder
<1> QED
  BY <1>1, Safety, Lined, PTL

\* No connection is lost, duplicated or served twice on its way from accept() to
\* the end of handle_conn (main.rs:189-211, proxy_http.rs:18-44).
THEOREM NoneLost == Spec => []OnePlaceEach
<1>1. Inv /\ Line => OnePlaceEach
  <2> SUFFICES ASSUME Inv, Line PROVE OnePlaceEach
    OBVIOUS
  <2> USE DEF Inv, Line
  <2>1. /\ order \in Seq(Clients) /\ started \in Seq(Clients) /\ queue \in Seq(Clients)
        /\ Len(order) \in Nat /\ Len(started) \in Nat /\ Len(queue) \in Nat
    BY DEF TypeOK
  <2>2. /\ Elems(order) = {order[i] : i \in 1 .. Len(order)}
        /\ Elems(started) = {started[i] : i \in 1 .. Len(started)}
        /\ InQueue = {queue[i] : i \in 1 .. Len(queue)}
    BY <2>1, ElemsFacts DEF InQueue
  <2> DEFINE first  == 1 .. Len(started)
             middle == Len(started) + 1 .. Len(started) + Len(queue)
             last   == IF accepted = None THEN {} ELSE {Len(order)}
             At(I)  == {order[i] : i \in I}
  <2>3. /\ 1 .. Len(order) = first \cup middle \cup last
        /\ first \cap middle = {} /\ first \cap last = {} /\ middle \cap last = {}
    BY <2>1 DEF InLine
  <2>4. Elems(started) = At(first)
    BY <2>2 DEF InLine
  <2>5. InQueue = At(middle)
    <3>1. ASSUME NEW i \in 1 .. Len(queue) PROVE Len(started) + i \in middle
      BY <2>1
    <3>2. \A i \in 1 .. Len(queue) : queue[i] = order[Len(started) + i]
      BY DEF InLine
    <3>3. InQueue \subseteq At(middle)
      BY <2>2, <3>1, <3>2
    <3>4. ASSUME NEW k \in middle PROVE order[k] \in InQueue
      <4>1. /\ k - Len(started) \in 1 .. Len(queue)
            /\ Len(started) + (k - Len(started)) = k
        BY <2>1
      <4>2. queue[k - Len(started)] = order[k]
        BY <3>2, <4>1
      <4> QED
        BY <2>2, <4>1, <4>2
    <3> QED
      BY <3>3, <3>4
  <2>6. InHand = At(last)
    BY DEF InLine, InHand
  <2>7. ASSUME NEW I \in SUBSET (1 .. Len(order)), NEW J \in SUBSET (1 .. Len(order)), I \cap J = {}
        PROVE  At(I) \cap At(J) = {}
    BY <2>7 DEF Distinct
  <2>8. Elems(order) = At(first) \cup At(middle) \cup At(last)
    BY <2>2, <2>3
  <2>9. At(first) \cap At(middle) = {} /\ At(first) \cap At(last) = {} /\ At(middle) \cap At(last) = {}
    BY Zenon, <2>3, <2>7
  <2> HIDE DEF At, first, middle, last
  <2> QED
    BY <2>4, <2>5, <2>6, <2>8, <2>9 DEF OnePlaceEach, Served
<1> QED
  BY <1>1, Safety, Lined, PTL

============================================================================
