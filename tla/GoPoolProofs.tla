---------------------------- MODULE GoPoolProofs ----------------------------
(***************************************************************************)
(* Proofs about the Go connection pool, for any finite set of goroutines   *)
(* and any pool size, whatever fails.                                      *)
(*                                                                         *)
(* SlotsBounded rests on the exact count (NoSlotLost).  That a hand-over   *)
(* by Put moves one slot from the sender to the receiver, and nothing      *)
(* else, rests on the channel's receive queue holding only goroutines that *)
(* are parked in Get, each once (Parked).                                  *)
(*                                                                         *)
(* That a Get blocks only if nothing is left for it rests on the slots in  *)
(* use never becoming fewer as long as nothing fails, and being all of     *)
(* them once some Get has found no room (Exhausted).                       *)
(*                                                                         *)
(* That the pool implements BoundedPool rests on the bound, since a        *)
(* dialing goroutine holds a slot and no connection, and on every open     *)
(* connection being in one place (OnePlace): a receive, a send or a        *)
(* hand-over moves one connection and touches no other.                    *)
(***************************************************************************)
EXTENDS GoPool, FiniteSetTheorems, TLAPS

\* A goroutine between Get and Put holds a connection.
ConnHeld ==
  \A t \in Tasks : pc[t] \in {"forward", "put", "close"} => conn[t] \in Conns

\* The receive queue holds parked goroutines, each once.
Parked ==
  /\ \A i \in DOMAIN recvq : pc[recvq[i]] = "blocked"
  /\ \A i, j \in DOMAIN recvq : recvq[i] = recvq[j] => i = j

\* A connection sits in the channel only while nobody is blocked.
NoIdleWhileBlocked == recvq # <<>> => conns = <<>>

Inv ==
  /\ TypeOK
  /\ ConnHeld
  /\ Parked
  /\ NoIdleWhileBlocked
  /\ NoSlotLost
  /\ SlotsBounded

-----------------------------------------------------------------------------
(* Counting slots. *)

SlotPC == {"dial", "forward", "put", "close", "release"}

SlotOf(l)      == IF l \in SlotPC THEN 1 ELSE 0
OvershootOf(l) == IF l = "unreserve" THEN 1 ELSE 0

LEMMA CountsAreNat ==
  /\ IsFiniteSet(SlotHolders) /\ Cardinality(SlotHolders) \in Nat
  /\ IsFiniteSet(Overshoot) /\ Cardinality(Overshoot) \in Nat
<1>1. SlotHolders \subseteq Tasks /\ Overshoot \subseteq Tasks
  BY DEF SlotHolders, Overshoot
<1> QED
  BY <1>1, GoPoolAssumption, FS_Subset, FS_CardinalityType

\* Whether one element is in a finite set or not makes a difference of one.
LEMMA CountOne ==
  ASSUME NEW S, NEW T, NEW x, IsFiniteSet(S), S \ {x} = T \ {x}
  PROVE  Cardinality(T) = Cardinality(S) + (IF x \in T THEN 1 ELSE 0) - (IF x \in S THEN 1 ELSE 0)
<1>0. Cardinality(S) \in Nat
  BY FS_CardinalityType
<1>1. CASE x \in T /\ x \notin S
  <2>1. T = S \cup {x}
    BY <1>1
  <2>2. Cardinality(T) = Cardinality(S) + 1
    BY <1>1, <2>1, FS_AddElement
  <2> QED
    BY <1>0, <1>1, <2>2
<1>2. CASE x \notin T /\ x \in S
  <2>1. T = S \ {x}
    BY <1>2
  <2>2. Cardinality(T) = Cardinality(S) - 1
    BY <1>2, <2>1, FS_RemoveElement
  <2> QED
    BY <1>0, <1>2, <2>2
<1>3. CASE x \in T <=> x \in S
  <2>1. T = S
    BY <1>3
  <2> QED
    BY <1>0, <1>3, <2>1
<1> QED
  BY <1>1, <1>2, <1>3

\* When one goroutine moves, both counts change by its share only.
LEMMA CountMove ==
  ASSUME TypeOK, NEW t \in Tasks, NEW l \in PC, pc' = Goto(t, l)
  PROVE  /\ Cardinality(SlotHolders') = Cardinality(SlotHolders) + SlotOf(l) - SlotOf(pc[t])
         /\ Cardinality(Overshoot') = Cardinality(Overshoot) + OvershootOf(l) - OvershootOf(pc[t])
<1>1. pc'[t] = l /\ \A u \in Tasks : u # t => pc'[u] = pc[u]
  BY DEF TypeOK, Goto
<1>2. /\ t \in SlotHolders <=> pc[t] \in SlotPC
      /\ t \in SlotHolders' <=> l \in SlotPC
      /\ SlotHolders \ {t} = SlotHolders' \ {t}
  BY <1>1 DEF SlotHolders, SlotPC
<1>3. /\ t \in Overshoot <=> pc[t] = "unreserve"
      /\ t \in Overshoot' <=> l = "unreserve"
      /\ Overshoot \ {t} = Overshoot' \ {t}
  BY <1>1 DEF Overshoot
<1>4. Cardinality(SlotHolders') = Cardinality(SlotHolders) + SlotOf(l) - SlotOf(pc[t])
  BY <1>2, CountsAreNat, CountOne DEF SlotOf
<1>5. Cardinality(Overshoot') = Cardinality(Overshoot) + OvershootOf(l) - OvershootOf(pc[t])
  BY <1>3, CountsAreNat, CountOne DEF OvershootOf
<1> QED
  BY <1>4, <1>5

-----------------------------------------------------------------------------
(* The initial state. *)

LEMMA InitInv == Init => Inv
<1> SUFFICES ASSUME Init PROVE Inv
  OBVIOUS
<1>1. TypeOK /\ ConnHeld
  <2>1. conns \in Seq(Conns) /\ recvq \in Seq(Tasks)
    BY DEF Init
  <2>2. pc \in [Tasks -> PC] /\ conn \in [Tasks -> Conns \cup {NoConn}] /\ outstanding \in Int
    BY DEF Init, PC
  <2>3. faults \subseteq Faults /\ ConnHeld
    BY DEF Init, ConnHeld
  <2> QED
    BY <2>1, <2>2, <2>3 DEF TypeOK
<1>2. Parked /\ NoIdleWhileBlocked
  BY DEF Init, Parked, NoIdleWhileBlocked
<1>3. SlotHolders = {} /\ Overshoot = {}
  BY DEF Init, SlotHolders, Overshoot
<1>4. NoSlotLost /\ SlotsBounded
  BY <1>3, FS_EmptySet, GoPoolAssumption DEF Init, NoSlotLost, SlotsBounded
<1> QED
  BY <1>1, <1>2, <1>4 DEF Inv

-----------------------------------------------------------------------------
(* Types, and who holds a connection. *)

\* The head of a nonempty receive queue is a parked goroutine.
LEMMA HeadParked ==
  ASSUME TypeOK, Parked, recvq # <<>>
  PROVE  Head(recvq) \in Tasks /\ pc[Head(recvq)] = "blocked"
<1>1. 1 \in DOMAIN recvq /\ Head(recvq) = recvq[1] /\ recvq[1] \in Tasks
  BY DEF TypeOK
<1> QED
  BY <1>1 DEF Parked

\* A receive takes the oldest connection out of the channel.
LEMMA ReceiveType ==
  ASSUME TypeOK, ConnHeld, NEW t \in Tasks, Receive(t), faults' = faults
  PROVE  TypeOK' /\ ConnHeld'
<1>1. Head(conns) \in Conns /\ Tail(conns) \in Seq(Conns)
  BY DEF Receive, TypeOK
<1>2. conn' \in [Tasks -> Conns \cup {NoConn}] /\ pc' \in [Tasks -> PC] /\ conns' \in Seq(Conns)
  BY <1>1 DEF Receive, Rest, Goto, TypeOK, PC
<1>3. TypeOK'
  BY <1>2 DEF Receive, TypeOK
<1> QED
  BY <1>1, <1>3 DEF Receive, Goto, TypeOK, ConnHeld

\* A move that touches only pc and the count.
LEMMA MoveType ==
  ASSUME TypeOK, ConnHeld, NEW t \in Tasks, NEW l \in PC, pc' = Goto(t, l), outstanding' \in Int,
         UNCHANGED <<faults, conns, recvq, conn>>,
         l \in {"forward", "put", "close"} => pc[t] \in {"forward", "put", "close"}
  PROVE  TypeOK' /\ ConnHeld'
  BY DEF TypeOK, ConnHeld, Goto

LEMMA StepType ==
  ASSUME TypeOK, ConnHeld, Parked, [Next]_vars
  PROVE  TypeOK' /\ ConnHeld'
<1>0. faults' = faults
  BY DEF Next, BurstNext, vars
<1>1. CASE UNCHANGED vars
  BY <1>1 DEF vars, TypeOK, ConnHeld
<1>2. ASSUME NEW t \in Tasks, Arrive(t) \/ Recycle(t) \/ ForwardOk(t) \/ ForwardErr(t)
      PROVE  TypeOK' /\ ConnHeld'
  <2>1. outstanding' \in Int /\ UNCHANGED <<faults, conns, recvq, conn>>
    BY <1>0, <1>2 DEF Arrive, Recycle, ForwardOk, ForwardErr, TypeOK
  <2> QED
    BY <1>2, <2>1, MoveType DEF Arrive, Recycle, ForwardOk, ForwardErr, AfterForward, PC
<1>3. ASSUME NEW t \in Tasks, TryRecv(t) PROVE TypeOK' /\ ConnHeld'
  <2>1. CASE Receive(t)
    BY <1>0, <2>1, ReceiveType
  <2>2. CASE conns = <<>> /\ pc' = Goto(t, "reserve") /\ UNCHANGED <<conns, recvq, outstanding, conn>>
    BY <1>0, <2>2, MoveType DEF TypeOK, PC
  <2> QED
    BY <1>3, <2>1, <2>2 DEF TryRecv
<1>4. ASSUME NEW t \in Tasks, Reserve(t) \/ DialErr(t) \/ Unreserve(t) \/ Release(t)
      PROVE  TypeOK' /\ ConnHeld'
  <2>1. outstanding' \in Int /\ UNCHANGED <<faults, conns, recvq, conn>>
    BY <1>0, <1>4 DEF Reserve, DialErr, Unreserve, Release, AddMinusOne, TypeOK
  <2> QED
    BY <1>4, <2>1, MoveType DEF Reserve, DialErr, Unreserve, Release, PC
<1>5. ASSUME NEW t \in Tasks, DialOk(t) PROVE TypeOK' /\ ConnHeld'
  BY <1>0, <1>5 DEF DialOk, Goto, TypeOK, ConnHeld, PC
<1>6. ASSUME NEW t \in Tasks, Recv(t) PROVE TypeOK' /\ ConnHeld'
  <2>1. CASE Receive(t)
    BY <1>0, <2>1, ReceiveType
  <2>2. CASE /\ recvq' = Append(recvq, t) /\ pc' = Goto(t, "blocked")
             /\ UNCHANGED <<conns, outstanding, conn>>
    <3>1. recvq' \in Seq(Tasks)
      BY <2>2 DEF TypeOK
    <3>2. pc' \in [Tasks -> PC]
      BY <2>2 DEF TypeOK, Goto, PC
    <3>3. TypeOK'
      BY <1>0, <2>2, <3>1, <3>2 DEF TypeOK
    <3> QED
      BY <2>2, <3>3 DEF ConnHeld, Goto, TypeOK
  <2> QED
    BY <1>6, <2>1, <2>2 DEF Recv
<1>7. ASSUME NEW t \in Tasks, PutHandOver(t) PROVE TypeOK' /\ ConnHeld'
  <2> DEFINE u == Head(recvq)
  <2>1. u \in Tasks /\ pc[u] = "blocked" /\ pc[t] = "put" /\ conn[t] \in Conns
    BY <1>7, HeadParked DEF PutHandOver, ConnHeld
  <2>2. Tail(recvq) \in Seq(Tasks)
    BY <1>7 DEF PutHandOver, TypeOK
  <2>3. /\ conn' = [conn EXCEPT ![u] = conn[t], ![t] = NoConn]
        /\ pc' = [pc EXCEPT ![u] = "forward", ![t] = "done"]
        /\ recvq' = Tail(recvq) /\ UNCHANGED <<faults, conns, outstanding>>
    BY <1>0, <1>7 DEF PutHandOver
  <2> HIDE DEF u
  <2>4. pc' \in [Tasks -> PC] /\ conn' \in [Tasks -> Conns \cup {NoConn}]
    BY SMTT(30), <2>1, <2>3 DEF TypeOK, PC
  <2>5. TypeOK'
    BY Zenon, <2>2, <2>3, <2>4 DEF TypeOK
  <2>6. ConnHeld'
    BY <2>1, <2>3 DEF ConnHeld, TypeOK
  <2> QED
    BY <2>5, <2>6
<1>8. ASSUME NEW t \in Tasks, PutBuffer(t) PROVE TypeOK' /\ ConnHeld'
  <2>1. conn[t] \in Conns /\ pc[t] = "put"
    BY <1>8 DEF PutBuffer, ConnHeld
  <2>2. CASE Len(conns) < MaxSize
    <3>1. conns' \in Seq(Conns)
      BY <1>8, <2>1, <2>2 DEF PutBuffer, TypeOK
    <3>2. pc' \in [Tasks -> PC] /\ conn' \in [Tasks -> Conns \cup {NoConn}]
      BY Zenon, <1>8, <2>2 DEF PutBuffer, Goto, TypeOK, PC
    <3>3. TypeOK'
      BY <1>0, <1>8, <3>1, <3>2 DEF PutBuffer, TypeOK
    <3>4. ConnHeld'
      BY <1>8, <2>2 DEF PutBuffer, Goto, ConnHeld, TypeOK
    <3> QED
      BY <3>3, <3>4
  <2>3. CASE ~(Len(conns) < MaxSize)
    BY <1>0, <1>8, <2>1, <2>3, MoveType DEF PutBuffer, TypeOK, PC
  <2> QED
    BY <2>2, <2>3
<1>9. ASSUME NEW t \in Tasks, Close(t) PROVE TypeOK' /\ ConnHeld'
  BY <1>0, <1>9 DEF Close, Goto, TypeOK, ConnHeld, PC
<1> QED
  BY <1>1, <1>2, <1>3, <1>4, <1>5, <1>6, <1>7, <1>8, <1>9
  DEF Next, BurstNext, ForwardPooled, Get, PutBack

-----------------------------------------------------------------------------
(* The receive queue. *)

\* A goroutine that is not parked moves.
LEMMA ParkedKept ==
  ASSUME TypeOK, Parked, NEW t \in Tasks, NEW l \in PC, pc' = Goto(t, l), pc[t] # "blocked",
         recvq' = recvq
  PROVE  Parked'
<1>1. \A i \in DOMAIN recvq : recvq[i] \in Tasks
  BY DEF TypeOK
<1> QED
  BY <1>1 DEF Parked, Goto, TypeOK

LEMMA StepParked ==
  ASSUME TypeOK, Parked, NoIdleWhileBlocked, [Next]_vars
  PROVE  Parked' /\ NoIdleWhileBlocked'
<1>1. CASE UNCHANGED vars
  BY <1>1 DEF vars, Parked, NoIdleWhileBlocked
<1>2. ASSUME NEW t \in Tasks, NEW l \in PC, pc' = Goto(t, l), pc[t] # "blocked", recvq' = recvq,
             conns' = conns \/ recvq = <<>>
      PROVE  Parked' /\ NoIdleWhileBlocked'
  BY <1>2, ParkedKept DEF NoIdleWhileBlocked
<1>3. ASSUME NEW t \in Tasks, \/ Arrive(t) \/ Recycle(t) \/ Reserve(t) \/ DialOk(t) \/ DialErr(t)
                              \/ Unreserve(t) \/ ForwardOk(t) \/ ForwardErr(t) \/ Close(t) \/ Release(t)
      PROVE  Parked' /\ NoIdleWhileBlocked'
  <2>1. pc[t] # "blocked" /\ UNCHANGED <<recvq, conns>>
    BY <1>3 DEF Arrive, Recycle, Reserve, DialOk, DialErr, Unreserve, ForwardOk, ForwardErr, Close, Release
  <2>2. \E l \in PC : pc' = Goto(t, l)
    BY <1>3 DEF Arrive, Recycle, Reserve, DialOk, DialErr, Unreserve, ForwardOk, ForwardErr,
                AfterForward, Close, Release, PC
  <2> QED
    BY <1>2, <2>1, <2>2
<1>4. ASSUME NEW t \in Tasks, Receive(t), pc[t] # "blocked" PROVE Parked' /\ NoIdleWhileBlocked'
  BY <1>2, <1>4 DEF Receive, NoIdleWhileBlocked, PC
<1>5. ASSUME NEW t \in Tasks, TryRecv(t) PROVE Parked' /\ NoIdleWhileBlocked'
  BY <1>2, <1>4, <1>5 DEF TryRecv, PC
<1>6. ASSUME NEW t \in Tasks, Recv(t) PROVE Parked' /\ NoIdleWhileBlocked'
  <2>1. CASE /\ recvq' = Append(recvq, t) /\ pc' = Goto(t, "blocked")
             /\ conns = <<>> /\ conns' = conns
    <3>1. /\ Len(recvq) \in Nat /\ DOMAIN recvq = 1 .. Len(recvq)
          /\ DOMAIN recvq' = 1 .. Len(recvq) + 1 /\ recvq'[Len(recvq) + 1] = t
          /\ \A i \in 1 .. Len(recvq) : recvq'[i] = recvq[i] /\ recvq[i] \in Tasks
      BY <2>1 DEF TypeOK
    <3>2. \A i \in 1 .. Len(recvq) : recvq[i] # t
      BY <1>6, <3>1 DEF Recv, Parked
    <3>3. pc'[t] = "blocked" /\ \A s \in Tasks \ {t} : pc'[s] = pc[s]
      BY <2>1 DEF Goto, TypeOK
    <3>4. Parked'
      BY <3>1, <3>2, <3>3 DEF Parked
    <3> QED
      BY <2>1, <3>4 DEF NoIdleWhileBlocked
  <2> QED
    BY <1>4, <1>6, <2>1 DEF Recv
<1>7. ASSUME NEW t \in Tasks, PutHandOver(t) PROVE Parked' /\ NoIdleWhileBlocked'
  <2> DEFINE u == Head(recvq)
  <2>1. u \in Tasks /\ pc[u] = "blocked" /\ pc[t] = "put"
    BY <1>7, HeadParked DEF PutHandOver
  <2>2. /\ Len(recvq) \in Nat \ {0} /\ DOMAIN recvq = 1 .. Len(recvq) /\ u = recvq[1]
        /\ DOMAIN recvq' = 1 .. Len(recvq) - 1
        /\ \A i \in 1 .. Len(recvq) - 1 : recvq'[i] = recvq[i + 1] /\ recvq[i + 1] \in Tasks
    BY <1>7 DEF PutHandOver, TypeOK
  <2>3. pc' = [pc EXCEPT ![u] = "forward", ![t] = "done"] /\ conns' = conns /\ conns = <<>>
    BY <1>7 DEF PutHandOver, NoIdleWhileBlocked
  <2> HIDE DEF u
  <2>4. \A i \in 1 .. Len(recvq) - 1 : recvq[i + 1] # u /\ pc[recvq[i + 1]] = "blocked"
    BY <2>2 DEF Parked
  <2>5. \A s \in Tasks : s # u /\ pc[s] = "blocked" => pc'[s] = "blocked"
    BY <2>1, <2>3 DEF TypeOK
  <2>6. Parked'
    <3>1. \A i \in DOMAIN recvq' : pc'[recvq'[i]] = "blocked"
      BY <2>2, <2>4, <2>5
    <3>2. ASSUME NEW i \in DOMAIN recvq', NEW j \in DOMAIN recvq', recvq'[i] = recvq'[j] PROVE i = j
      <4>1. /\ i + 1 \in DOMAIN recvq /\ j + 1 \in DOMAIN recvq /\ i \in Nat /\ j \in Nat
            /\ recvq[i + 1] = recvq[j + 1]
        BY <2>2, <3>2
      <4>2. i + 1 = j + 1
        BY <4>1 DEF Parked
      <4> QED
        BY <4>1, <4>2
    <3> QED
      BY <3>1, <3>2 DEF Parked
  <2> QED
    BY <2>3, <2>6 DEF NoIdleWhileBlocked
<1>8. ASSUME NEW t \in Tasks, PutBuffer(t) PROVE Parked' /\ NoIdleWhileBlocked'
  BY <1>2, <1>8 DEF PutBuffer, NobodyBlocked, PC
<1> QED
  BY <1>1, <1>3, <1>5, <1>6, <1>7, <1>8 DEF Next, BurstNext, ForwardPooled, Get, PutBack

-----------------------------------------------------------------------------
(* Every step keeps the count exact and the slots in use within the bound. *)

\* Nothing fails, and no slot is about to be given up.
Healthy == faults = {} /\ \A t \in Tasks : pc[t] \notin {"close", "release"}

\* The slots in use.
Used == Len(conns) + Cardinality(SlotHolders)

LEMMA StepSlots ==
  ASSUME TypeOK, Parked, NoSlotLost, SlotsBounded, [Next]_vars
  PROVE  NoSlotLost' /\ SlotsBounded' /\ (Healthy => Used' >= Used)
<1> DEFINE Goal == NoSlotLost' /\ SlotsBounded' /\ (Healthy => Used' >= Used)
<1>0. /\ Len(conns) \in Nat /\ outstanding \in Int /\ MaxSize \in Nat
      /\ Cardinality(SlotHolders) \in Nat /\ Cardinality(Overshoot) \in Nat
  BY CountsAreNat, GoPoolAssumption DEF TypeOK
<1> USE <1>0 DEF NoSlotLost, SlotsBounded, Used
<1>1. CASE UNCHANGED vars
  BY <1>1 DEF vars, SlotHolders, Overshoot
<1>2. ASSUME NEW t \in Tasks, NEW l \in PC, pc' = Goto(t, l),
             SlotOf(l) = SlotOf(pc[t]), OvershootOf(l) = OvershootOf(pc[t]),
             outstanding' = outstanding, conns' = conns
      PROVE  Goal
  BY SMTT(30), <1>2, CountMove DEF SlotOf, OvershootOf
<1>3. ASSUME NEW t \in Tasks, \/ Arrive(t) \/ Recycle(t) \/ DialOk(t) \/ ForwardOk(t)
                              \/ ForwardErr(t) \/ Close(t)
      PROVE  Goal
  <2>1. \E l \in PC : /\ pc' = Goto(t, l)
                      /\ SlotOf(l) = SlotOf(pc[t]) /\ OvershootOf(l) = OvershootOf(pc[t])
    BY <1>3 DEF Arrive, Recycle, DialOk, ForwardOk, ForwardErr, AfterForward, Close, PC,
                SlotOf, SlotPC, OvershootOf
  <2>2. outstanding' = outstanding /\ conns' = conns
    BY <1>3 DEF Arrive, Recycle, DialOk, ForwardOk, ForwardErr, Close
  <2> QED
    BY <1>2, <2>1, <2>2
<1>4. ASSUME NEW t \in Tasks, Receive(t), pc[t] \in {"tryRecv", "recv"} PROVE Goal
  <2>1. /\ Cardinality(SlotHolders') = Cardinality(SlotHolders) + 1
        /\ Cardinality(Overshoot') = Cardinality(Overshoot)
    BY <1>4, CountMove DEF Receive, PC, SlotOf, SlotPC, OvershootOf
  <2>2. Len(conns') = Len(conns) - 1 /\ outstanding' = outstanding
    BY <1>4 DEF Receive, Rest, TypeOK
  <2> QED
    BY <2>1, <2>2
<1>5. ASSUME NEW t \in Tasks, TryRecv(t) PROVE Goal
  <2>1. CASE Receive(t)
    BY <1>4, <1>5, <2>1 DEF TryRecv
  <2>2. CASE ~Receive(t)
    BY <1>2, <1>5, <2>2 DEF TryRecv, PC, SlotOf, SlotPC, OvershootOf
  <2> QED
    BY <2>1, <2>2
<1>6. ASSUME NEW t \in Tasks, Recv(t) PROVE Goal
  <2>1. CASE Receive(t)
    BY <1>4, <1>6, <2>1 DEF Recv
  <2>2. CASE ~Receive(t)
    BY <1>2, <1>6, <2>2 DEF Recv, PC, SlotOf, SlotPC, OvershootOf
  <2> QED
    BY <2>1, <2>2
<1>7. ASSUME NEW t \in Tasks, Reserve(t) PROVE Goal
  <2>1. outstanding' = outstanding + 1 /\ conns' = conns
    BY <1>7 DEF Reserve
  <2>2. CASE outstanding + 1 <= MaxSize
    <3>1. pc' = Goto(t, "dial") /\ pc[t] = "reserve"
      BY <1>7, <2>2 DEF Reserve, HasRoom
    <3>2. /\ Cardinality(SlotHolders') = Cardinality(SlotHolders) + 1
          /\ Cardinality(Overshoot') = Cardinality(Overshoot)
      BY <3>1, CountMove DEF PC, SlotOf, SlotPC, OvershootOf
    <3> QED
      BY SMTT(30), <2>1, <2>2, <3>2
  <2>3. CASE ~(outstanding + 1 <= MaxSize)
    <3>1. pc' = Goto(t, "unreserve") /\ pc[t] = "reserve"
      BY <1>7, <2>3 DEF Reserve, HasRoom
    <3>2. /\ Cardinality(SlotHolders') = Cardinality(SlotHolders)
          /\ Cardinality(Overshoot') = Cardinality(Overshoot) + 1
      BY <3>1, CountMove DEF PC, SlotOf, SlotPC, OvershootOf
    <3> QED
      BY <2>1, <3>2
  <2> QED
    BY <2>2, <2>3
<1>8. ASSUME NEW t \in Tasks, DialErr(t) \/ Release(t) PROVE Goal
  <2>1. outstanding' = outstanding - 1 /\ conns' = conns
    BY <1>8 DEF DialErr, Release, AddMinusOne
  <2>2. /\ Cardinality(SlotHolders') = Cardinality(SlotHolders) - 1
        /\ Cardinality(Overshoot') = Cardinality(Overshoot)
    BY <1>8, CountMove DEF DialErr, Release, PC, SlotOf, SlotPC, OvershootOf
  <2>3. ~Healthy
    BY <1>8 DEF DialErr, Release, Healthy
  <2> QED
    BY <2>1, <2>2, <2>3
<1>9. ASSUME NEW t \in Tasks, Unreserve(t) PROVE Goal
  <2>1. outstanding' = outstanding - 1 /\ conns' = conns
    BY <1>9 DEF Unreserve, AddMinusOne
  <2>2. /\ Cardinality(SlotHolders') = Cardinality(SlotHolders)
        /\ Cardinality(Overshoot') = Cardinality(Overshoot) - 1
    BY SMTT(30), <1>9, CountMove DEF Unreserve, PC, SlotOf, SlotPC, OvershootOf
  <2> QED
    BY <2>1, <2>2
<1>10. ASSUME NEW t \in Tasks, PutHandOver(t) PROVE Goal
  <2> DEFINE u == Head(recvq)
  <2>1. u \in Tasks /\ pc[u] = "blocked" /\ pc[t] = "put" /\ u # t
    BY <1>10, HeadParked DEF PutHandOver
  <2>2. pc' = [pc EXCEPT ![u] = "forward", ![t] = "done"] /\ UNCHANGED <<conns, outstanding>>
    BY <1>10 DEF PutHandOver
  <2> HIDE DEF u
  <2>3. /\ t \in SlotHolders /\ u \notin SlotHolders
        /\ SlotHolders' = (SlotHolders \ {t}) \cup {u} /\ Overshoot' = Overshoot
    BY <2>1, <2>2 DEF SlotHolders, Overshoot, TypeOK
  <2>4. IsFiniteSet(SlotHolders \ {t}) /\ Cardinality(SlotHolders \ {t}) = Cardinality(SlotHolders) - 1
    BY <2>3, CountsAreNat, FS_RemoveElement
  <2>5. Cardinality(SlotHolders') = Cardinality(SlotHolders \ {t}) + 1
    BY Zenon, <2>3, <2>4, FS_AddElement
  <2>6. Cardinality(SlotHolders') = Cardinality(SlotHolders)
    BY <2>4, <2>5
  <2> QED
    BY <2>2, <2>3, <2>6
<1>11. ASSUME NEW t \in Tasks, PutBuffer(t) PROVE Goal
  <2>1. CASE Len(conns) < MaxSize
    <3>1. /\ Cardinality(SlotHolders') = Cardinality(SlotHolders) - 1
          /\ Cardinality(Overshoot') = Cardinality(Overshoot)
      BY <1>11, <2>1, CountMove DEF PutBuffer, PC, SlotOf, SlotPC, OvershootOf
    <3>2. Len(conns') = Len(conns) + 1 /\ outstanding' = outstanding
      BY <1>11, <2>1 DEF PutBuffer, TypeOK
    <3> QED
      BY <3>1, <3>2
  <2>2. CASE ~(Len(conns) < MaxSize)
    BY <1>2, <1>11, <2>2 DEF PutBuffer, PC, SlotOf, SlotPC, OvershootOf
  <2> QED
    BY <2>1, <2>2
<1> QED
  BY <1>1, <1>3, <1>5, <1>6, <1>7, <1>8, <1>9, <1>10, <1>11
  DEF Next, BurstNext, ForwardPooled, Get, PutBack

-----------------------------------------------------------------------------
\* In every reachable state of the Go pool the types hold, a goroutine between
\* Get and Put holds a connection, the receive queue is right, no goroutine is
\* blocked while a connection is idle, and the count is exact and within
\* maxSize (pool.go:34-75).
THEOREM Safety == Spec => []Inv
<1>1. Inv /\ [Next]_vars => Inv'
  BY StepType, StepParked, StepSlots DEF Inv
<1> QED
  BY <1>1, InitInv, PTL DEF Spec

\* The type invariant of the Go pool.
THEOREM TypeCorrect == Spec => []TypeOK
  BY Safety, PTL DEF Inv

\* At most maxSize connections exist, dialing and closing ones included
\* (pool.go:41-49).
THEOREM Bounded == Spec => []SlotsBounded
  BY Safety, PTL DEF Inv

\* No error path of Get and Put loses a slot or frees one twice (pool.go:41-49,
\* 61-75).
THEOREM ExactCount == Spec => []NoSlotLost
  BY Safety, PTL DEF Inv

-----------------------------------------------------------------------------
(* A Get blocks only if nothing is left for it. *)

\* As long as nothing fails no slot is given up, and once a Get has found no room
\* every slot is in use.
Exhausted ==
  faults = {} =>
    /\ Healthy
    /\ \A t \in Tasks : pc[t] \in {"unreserve", "recv", "blocked"} => Used = MaxSize

LEMMA StepExhausted ==
  ASSUME Inv, Exhausted, [Next]_vars
  PROVE  Exhausted'
<1> SUFFICES ASSUME faults' = {} PROVE Exhausted'
  BY DEF Exhausted
<1> DEFINE Full   == {"unreserve", "recv", "blocked"}
           GiveUp == {"close", "release"}
<1>0. /\ faults = {} /\ Healthy /\ pc \in [Tasks -> PC]
      /\ MaxSize \in Nat /\ Len(conns) \in Nat /\ Used <= MaxSize /\ outstanding \in Int
      /\ Cardinality(SlotHolders) \in Nat /\ Cardinality(Overshoot) \in Nat /\ Used \in Nat
      /\ \A t \in Tasks : pc[t] \in Full => Used = MaxSize
  <2>1. faults = {}
    BY DEF Next, BurstNext, vars
  <2>2. Len(conns) \in Nat /\ pc \in [Tasks -> PC] /\ outstanding \in Int /\ Used <= MaxSize
    BY DEF Inv, TypeOK, SlotsBounded, Used
  <2> QED
    BY <2>1, <2>2, CountsAreNat, GoPoolAssumption DEF Exhausted, Used
<1>1. Used = MaxSize => Used' = MaxSize
  <2>1. Used' >= Used /\ Used' <= MaxSize
    BY <1>0, StepSlots DEF Inv, SlotsBounded, Used
  <2>2. Len(conns') \in Nat
    BY StepType DEF Inv, TypeOK
  <2>3. SlotHolders' \subseteq Tasks
    BY DEF SlotHolders
  <2>4. Cardinality(SlotHolders') \in Nat
    BY <2>3, GoPoolAssumption, FS_Subset, FS_CardinalityType
  <2> QED
    BY <1>0, <2>1, <2>2, <2>4 DEF Used
<1> DEFINE Goal == \A u \in Tasks : /\ pc'[u] \notin GiveUp
                                    /\ pc'[u] \in Full => Used = MaxSize
<1>2. \A u \in Tasks : pc[u] \notin GiveUp /\ (pc[u] \in Full => Used = MaxSize)
  BY <1>0 DEF Healthy
<1>3. ASSUME NEW t \in Tasks, NEW l, pc' = Goto(t, l), l \notin GiveUp, l \in Full => Used = MaxSize
      PROVE  Goal
  BY <1>0, <1>2, <1>3 DEF Goto
<1>4. ASSUME NEW t \in Tasks, Arrive(t) \/ Recycle(t) \/ DialOk(t) \/ ForwardOk(t) \/ TryRecv(t)
      PROVE  Goal
  <2>1. PICK l \in {"tryRecv", "ready", "forward", "put", "reserve"} : pc' = Goto(t, l)
    BY <1>4 DEF Arrive, Recycle, DialOk, ForwardOk, AfterForward, TryRecv, Receive
  <2> QED
    BY <1>3, <2>1
<1>5. ASSUME NEW t \in Tasks, Unreserve(t) \/ Recv(t) PROVE Goal
  <2>1. PICK l \in {"recv", "forward", "blocked"} : pc' = Goto(t, l)
    BY <1>5 DEF Unreserve, Recv, Receive
  <2>2. Used = MaxSize
    BY <1>0, <1>5 DEF Unreserve, Recv
  <2> QED
    BY <1>3, <2>1, <2>2
<1>6. ASSUME NEW t \in Tasks, Reserve(t) PROVE Goal
  <2>1. CASE HasRoom
    BY <1>3, <1>6, <2>1 DEF Reserve
  <2>2. CASE ~HasRoom
    <3>1. Used + Cardinality(Overshoot) >= MaxSize
      BY <1>0, <2>2 DEF HasRoom, Inv, NoSlotLost, Used
    <3>2. Used = MaxSize
      <4>1. CASE Overshoot = {}
        BY <1>0, <3>1, <4>1, FS_EmptySet
      <4>2. CASE Overshoot # {}
        BY <1>0, <4>2 DEF Overshoot
      <4> QED
        BY <4>1, <4>2
    <3> QED
      BY <1>3, <1>6, <2>2, <3>2 DEF Reserve
  <2> QED
    BY <2>1, <2>2
<1>7. ASSUME NEW t \in Tasks, PutHandOver(t) PROVE Goal
  <2>1. pc' = [pc EXCEPT ![Head(recvq)] = "forward", ![t] = "done"]
    BY <1>7 DEF PutHandOver
  <2>2. \A u \in Tasks : pc'[u] \in {pc[u], "forward", "done"}
    BY <1>0, <2>1
  <2> QED
    BY <1>2, <2>2
<1>8. ASSUME NEW t \in Tasks, PutBuffer(t) PROVE Goal
  <2>1. t \in SlotHolders
    BY <1>8 DEF PutBuffer, SlotHolders
  <2>2. Cardinality(SlotHolders) # 0
    BY <2>1, CountsAreNat, FS_EmptySet
  <2>3. Len(conns) < MaxSize
    BY <1>0, <2>2 DEF Used
  <2> QED
    BY <1>3, <1>8, <2>3 DEF PutBuffer
<1>9. ASSUME NEW t \in Tasks PROVE ~(DialErr(t) \/ ForwardErr(t) \/ Close(t) \/ Release(t))
  BY <1>0 DEF DialErr, ForwardErr, Close, Release, Healthy
<1>10. ASSUME UNCHANGED vars PROVE Goal
  BY <1>2, <1>10 DEF vars
<1>11. Goal
  BY <1>4, <1>5, <1>6, <1>7, <1>8, <1>9, <1>10 DEF Next, BurstNext, ForwardPooled, Get, PutBack
<1> QED
  BY <1>1, <1>11 DEF Exhausted, Healthy

\* However Gets and Puts interleave, as long as nothing fails a Get blocks only while
\* all maxSize connections are with goroutines that will put them back
\* (pool.go:35-52, 68).
THEOREM NoneBlocksInVain == Spec => []BlocksOnlyIfExhausted
<1>1. Init => Exhausted
  BY DEF Init, Exhausted, Healthy
<1>2. Inv /\ Exhausted /\ [Next]_vars => Exhausted'
  BY StepExhausted
<1>3. Inv /\ Exhausted => BlocksOnlyIfExhausted
  <2> SUFFICES ASSUME Inv, Exhausted, faults = {}, recvq # <<>>
               PROVE  Cardinality({t \in Tasks : pc[t] \in {"dial", "forward", "put"}}) = MaxSize
    BY DEF BlocksOnlyIfExhausted
  <2>1. Head(recvq) \in Tasks /\ pc[Head(recvq)] = "blocked"
    BY HeadParked DEF Inv
  <2>2. Used = MaxSize
    BY <2>1 DEF Exhausted
  <2>3. Len(conns) = 0
    BY DEF Inv, NoIdleWhileBlocked
  <2>4. SlotHolders = {t \in Tasks : pc[t] \in {"dial", "forward", "put"}}
    BY DEF Exhausted, Healthy, SlotHolders
  <2> QED
    BY <2>2, <2>3, <2>4, CountsAreNat DEF Used
<1> QED
  BY <1>1, <1>2, <1>3, Safety, PTL DEF Spec

-----------------------------------------------------------------------------
(* The Go pool implements BoundedPool. *)

Held == {"forward", "put", "close"}

\* An open connection is in one place: once in the channel, or with one goroutine
\* that is between Get and the Close of Put.
OnePlace ==
  /\ \A i, j \in DOMAIN conns : conns[i] = conns[j] => i = j
  /\ \A t \in Tasks : conn[t] # NoConn => pc[t] \in Held /\ conn[t] \notin IdleConns
  /\ \A t, u \in Tasks : conn[t] = conn[u] /\ conn[t] # NoConn => t = u

\* A receive takes one connection out of the channel, ...
LEMMA HeadLeaves ==
  ASSUME conns \in Seq(Conns), \A i, j \in DOMAIN conns : conns[i] = conns[j] => i = j,
         conns # <<>>, conns' = Tail(conns)
  PROVE  /\ Head(conns) \in IdleConns /\ Head(conns) \in Conns
         /\ IdleConns' = IdleConns \ {Head(conns)}
         /\ \A i, j \in DOMAIN conns' : conns'[i] = conns'[j] => i = j
<1>1. /\ Len(conns) \in Nat \ {0} /\ DOMAIN conns = 1 .. Len(conns)
      /\ Head(conns) = conns[1] /\ Head(conns) \in Conns
      /\ DOMAIN conns' = 1 .. Len(conns) - 1
  OBVIOUS
<1>2. \A i \in 1 .. Len(conns) - 1 : conns'[i] = conns[i + 1]
  OBVIOUS
<1>3. /\ 1 \in DOMAIN conns
      /\ \A i \in DOMAIN conns' : i + 1 \in DOMAIN conns /\ i + 1 # 1 /\ i \in Nat
      /\ \A i \in DOMAIN conns : i # 1 => i - 1 \in DOMAIN conns' /\ (i - 1) + 1 = i
  BY <1>1
<1>4. \A i \in DOMAIN conns : i # 1 => conns'[i - 1] = conns[i]
  BY <1>1, <1>2, <1>3
<1>5. \A i, j \in DOMAIN conns' : conns'[i] = conns'[j] => i = j
  <2> SUFFICES ASSUME NEW i \in DOMAIN conns', NEW j \in DOMAIN conns', conns'[i] = conns'[j]
               PROVE  i = j
    OBVIOUS
  <2>1. i + 1 = j + 1
    BY <1>1, <1>2, <1>3
  <2> QED
    BY <1>3, <2>1
<1>6. IdleConns' = IdleConns \ {Head(conns)}
  <2>1. \A c \in IdleConns' : c \in IdleConns /\ c # conns[1]
    BY <1>1, <1>2, <1>3 DEF IdleConns
  <2>2. \A c \in IdleConns : c # conns[1] => c \in IdleConns'
    BY <1>3, <1>4 DEF IdleConns
  <2> QED
    BY <1>1, <2>1, <2>2
<1> QED
  BY Zenon, <1>1, <1>3, <1>5, <1>6 DEF IdleConns

\* ... and a send that is buffered adds one.
LEMMA SendAdds ==
  ASSUME conns \in Seq(Conns), NEW c \in Conns, c \notin IdleConns,
         \A i, j \in DOMAIN conns : conns[i] = conns[j] => i = j, conns' = Append(conns, c)
  PROVE  /\ IdleConns' = IdleConns \cup {c}
         /\ \A i, j \in DOMAIN conns' : conns'[i] = conns'[j] => i = j
<1>1. Len(conns) \in Nat /\ DOMAIN conns = 1 .. Len(conns)
  OBVIOUS
<1>2. /\ DOMAIN conns' = 1 .. Len(conns) + 1 /\ conns'[Len(conns) + 1] = c
      /\ \A i \in 1 .. Len(conns) : conns'[i] = conns[i]
  BY <1>1
<1> QED
  BY <1>1, <1>2 DEF IdleConns

\* The steps that move a connection, each with the step of BoundedPool it is.
Moves(t) ==
  \/ \E c \in Conns : Abstract!Dial(t, c) \/ Abstract!Reuse(t, c)
  \/ Abstract!Return(t)
  \/ \E u \in Tasks \ {t} : Abstract!HandOver(t, u)
  \/ Abstract!Close(t)

LEMMA ReceiveRefines ==
  ASSUME Inv, OnePlace, NEW t \in Tasks, Receive(t), pc[t] \in {"tryRecv", "recv"}
  PROVE  OnePlace' /\ Moves(t)
<1>1. /\ conns # <<>> /\ conn' = [conn EXCEPT ![t] = Head(conns)] /\ conns' = Tail(conns)
      /\ pc' = Goto(t, "forward")
  BY DEF Receive, Rest
<1>2. /\ Head(conns) \in IdleConns /\ Head(conns) \in Conns
      /\ IdleConns' = IdleConns \ {Head(conns)}
      /\ \A i, j \in DOMAIN conns' : conns'[i] = conns'[j] => i = j
  BY <1>1, HeadLeaves DEF Inv, TypeOK, OnePlace
<1>3. conn[t] = NoConn
  BY DEF OnePlace, Held
<1>4. /\ conn'[t] = Head(conns) /\ pc'[t] \in Held
      /\ \A s \in Tasks \ {t} : conn'[s] = conn[s] /\ pc'[s] = pc[s]
  BY <1>1 DEF Inv, TypeOK, Goto, Held
<1>5. OnePlace'
  BY <1>2, <1>4 DEF OnePlace
<1>6. Abstract!Reuse(t, Head(conns))
  BY <1>1, <1>2, <1>3 DEF Abstract!Reuse
<1> QED
  BY <1>2, <1>5, <1>6 DEF Moves

\* A goroutine that is dialing holds a slot and no connection, so there is room for
\* the connection it is about to open.
LEMMA DialingHasRoom ==
  ASSUME Inv, OnePlace, NEW t \in Tasks, pc[t] = "dial"
  PROVE  IsFiniteSet(Open) /\ Cardinality(Open) < MaxSize
<1> DEFINE Holding == {s \in Tasks : conn[s] # NoConn}
           InHand  == {conn[s] : s \in Tasks} \ {NoConn}
           take    == [s \in Holding |-> conn[s]]
<1>1. conns \in Seq(Conns) /\ Len(conns) \in Nat
  BY DEF Inv, TypeOK
<1>2. IsFiniteSet(IdleConns) /\ Cardinality(IdleConns) <= Len(conns) /\ Cardinality(IdleConns) \in Nat
  <2>1. IsFiniteSet(1 .. Len(conns)) /\ Cardinality(1 .. Len(conns)) = Len(conns)
    BY SMTT(30), <1>1, FS_Interval
  <2>2. conns \in Surjection(1 .. Len(conns), IdleConns)
    BY <1>1 DEF Surjection, IdleConns
  <2> QED
    BY <2>1, <2>2, FS_Surjection, FS_CardinalityType
<1>3. IsFiniteSet(Holding) /\ Cardinality(Holding) <= Cardinality(SlotHolders) - 1
      /\ Cardinality(Holding) \in Nat /\ Cardinality(SlotHolders) \in Nat
  <2>1. IsFiniteSet(SlotHolders) /\ t \in SlotHolders
    BY GoPoolAssumption, FS_Subset DEF SlotHolders
  <2>2. Holding \subseteq SlotHolders \ {t}
    BY DEF OnePlace, Held, SlotHolders
  <2>3. IsFiniteSet(SlotHolders \ {t}) /\ Cardinality(SlotHolders \ {t}) = Cardinality(SlotHolders) - 1
    BY <2>1, FS_RemoveElement
  <2> QED
    BY <2>1, <2>2, <2>3, FS_Subset, FS_CardinalityType
<1>4. IsFiniteSet(InHand) /\ Cardinality(InHand) <= Cardinality(Holding) /\ Cardinality(InHand) \in Nat
  <2>1. take \in Surjection(Holding, InHand)
    BY DEF Surjection
  <2> QED
    BY <1>3, <2>1, FS_Surjection, FS_CardinalityType
<1>5. IsFiniteSet(Open) /\ Cardinality(Open) <= Cardinality(IdleConns) + Cardinality(InHand)
      /\ Cardinality(Open) \in Nat
  <2>1. Open = IdleConns \cup InHand
    BY DEF Open
  <2>2. Cardinality(IdleConns \cap InHand) \in Nat
    BY <1>2, FS_Subset, FS_CardinalityType, IdleConns \cap InHand \in SUBSET IdleConns
  <2>3. IsFiniteSet(Open)
        /\ Cardinality(Open) = Cardinality(IdleConns) + Cardinality(InHand) - Cardinality(IdleConns \cap InHand)
    BY Zenon, <1>2, <1>4, <2>1, FS_Union
  <2> HIDE DEF InHand
  <2> QED
    BY <1>2, <1>4, <2>2, <2>3, FS_CardinalityType
<1>6. Len(conns) + Cardinality(SlotHolders) <= MaxSize
  BY DEF Inv, SlotsBounded
<1> HIDE DEF InHand, Holding
<1> QED
  BY <1>1, <1>2, <1>3, <1>4, <1>5, <1>6, GoPoolAssumption

LEMMA DialRefines ==
  ASSUME Inv, OnePlace, NEW t \in Tasks, DialOk(t)
  PROVE  OnePlace' /\ Moves(t)
<1>1. PICK c \in Conns \ Open : conn' = [conn EXCEPT ![t] = c]
  BY Zenon DEF DialOk
<1>2. /\ conns' = conns /\ IdleConns' = IdleConns /\ pc[t] = "dial" /\ pc' = Goto(t, "forward")
      /\ c \notin IdleConns /\ \A s \in Tasks : conn[s] # c \/ c = NoConn
  BY <1>1 DEF DialOk, IdleConns, Open
<1>3. conn[t] = NoConn /\ c # NoConn
  BY <1>2, GoPoolAssumption DEF OnePlace, Held
<1>4. /\ conn'[t] = c /\ pc'[t] \in Held
      /\ \A s \in Tasks \ {t} : conn'[s] = conn[s] /\ pc'[s] = pc[s]
  BY <1>1, <1>2 DEF Inv, TypeOK, Goto, Held
<1>5. OnePlace'
  BY <1>2, <1>3, <1>4 DEF OnePlace
<1>6. Abstract!Open = Open
  BY DEF Abstract!Open, Abstract!InUse, Open
<1>7. \A S : Abstract!Cardinality(S) = Cardinality(S)
  BY DEF Abstract!Cardinality, Cardinality
<1>8. Abstract!Dial(t, c)
  BY <1>1, <1>2, <1>3, <1>6, <1>7, DialingHasRoom DEF Abstract!Dial
<1> QED
  BY <1>1, <1>5, <1>8 DEF Moves

LEMMA HandOverRefines ==
  ASSUME Inv, OnePlace, NEW t \in Tasks, PutHandOver(t)
  PROVE  OnePlace' /\ Moves(t)
<1> DEFINE u == Head(recvq)
<1>0. conns' = conns /\ IdleConns' = IdleConns
  BY DEF PutHandOver, IdleConns
<1>1. u \in Tasks /\ pc[u] = "blocked" /\ pc[t] = "put"
  BY HeadParked DEF Inv, TypeOK, PutHandOver
<1>2. conn[u] = NoConn /\ conn[t] # NoConn /\ conn[t] \in Conns /\ u # t
  BY <1>1, GoPoolAssumption DEF Inv, ConnHeld, OnePlace, Held
<1>3. /\ conn' = [conn EXCEPT ![u] = conn[t], ![t] = NoConn]
      /\ pc' = [pc EXCEPT ![u] = "forward", ![t] = "done"]
  BY DEF PutHandOver
<1> HIDE DEF u
<1>4. /\ conn'[u] = conn[t] /\ pc'[u] \in Held /\ conn'[t] = NoConn
      /\ \A s \in Tasks \ {t, u} : conn'[s] = conn[s] /\ pc'[s] = pc[s]
  BY <1>1, <1>2, <1>3 DEF Inv, TypeOK, Held
<1>5. OnePlace'
  <2>1. \A i, j \in DOMAIN conns' : conns'[i] = conns'[j] => i = j
    BY <1>0 DEF OnePlace
  <2>2. \A s \in Tasks : conn'[s] # NoConn => pc'[s] \in Held /\ conn'[s] \notin IdleConns'
    BY <1>0, <1>1, <1>2, <1>4 DEF OnePlace
  <2>3. \A s \in Tasks : conn'[s] # NoConn => s # t /\ conn'[s] = IF s = u THEN conn[t] ELSE conn[s]
    BY <1>4
  <2>4. \A r, s \in Tasks : conn'[r] = conn'[s] /\ conn'[r] # NoConn => r = s
    BY <2>3 DEF OnePlace
  <2> QED
    BY <2>1, <2>2, <2>4 DEF OnePlace
<1>6. Abstract!HandOver(t, u)
  BY <1>0, <1>2, <1>3 DEF Abstract!HandOver
<1> QED
  BY <1>1, <1>2, <1>5, <1>6 DEF Moves

LEMMA BufferRefines ==
  ASSUME Inv, OnePlace, NEW t \in Tasks, PutBuffer(t), Len(conns) < MaxSize
  PROVE  OnePlace' /\ Moves(t)
<1>1. /\ conns' = Append(conns, conn[t]) /\ conn' = [conn EXCEPT ![t] = NoConn]
      /\ pc[t] = "put" /\ pc' = Goto(t, "done")
  BY DEF PutBuffer
<1>2. conn[t] \in Conns /\ conn[t] # NoConn /\ conn[t] \notin IdleConns
  BY <1>1, GoPoolAssumption DEF Inv, ConnHeld, OnePlace
<1>3. /\ IdleConns' = IdleConns \cup {conn[t]}
      /\ \A i, j \in DOMAIN conns' : conns'[i] = conns'[j] => i = j
  BY <1>1, <1>2, SendAdds DEF Inv, TypeOK, OnePlace
<1>4. /\ conn'[t] = NoConn
      /\ \A s \in Tasks \ {t} : conn'[s] = conn[s] /\ pc'[s] = pc[s]
  BY <1>1 DEF Inv, TypeOK, Goto
<1>5. OnePlace'
  BY <1>2, <1>3, <1>4 DEF OnePlace
<1>6. Abstract!Return(t)
  BY <1>1, <1>2, <1>3 DEF Abstract!Return
<1> QED
  BY <1>5, <1>6 DEF Moves

LEMMA CloseRefines ==
  ASSUME Inv, OnePlace, NEW t \in Tasks, Close(t)
  PROVE  OnePlace' /\ Moves(t)
<1>1. /\ conns' = conns /\ IdleConns' = IdleConns /\ conn' = [conn EXCEPT ![t] = NoConn]
      /\ pc[t] = "close" /\ pc' = Goto(t, "release")
  BY DEF Close, IdleConns
<1>2. conn[t] # NoConn
  BY <1>1, GoPoolAssumption DEF Inv, ConnHeld
<1>3. /\ conn'[t] = NoConn
      /\ \A s \in Tasks \ {t} : conn'[s] = conn[s] /\ pc'[s] = pc[s]
  BY <1>1 DEF Inv, TypeOK, Goto
<1>4. OnePlace'
  BY <1>1, <1>3 DEF OnePlace
<1>5. Abstract!Close(t)
  BY <1>1, <1>2 DEF Abstract!Close
<1> QED
  BY <1>4, <1>5 DEF Moves

\* Every other step moves no connection, and no goroutine away from one it holds.
LEMMA KeepRefines ==
  ASSUME Inv, OnePlace, UNCHANGED <<conns, conn>>,
         \A t \in Tasks : pc[t] \in Held => pc'[t] \in Held
  PROVE  OnePlace' /\ UNCHANGED Abstract!vars
<1>1. conns' = conns /\ conn' = conn /\ IdleConns' = IdleConns
  BY DEF IdleConns
<1> QED
  BY <1>1 DEF OnePlace, Abstract!vars

-----------------------------------------------------------------------------
LEMMA InitRefines == Init => OnePlace /\ Abstract!Init
  BY DEF Init, OnePlace, Abstract!Init, IdleConns

LEMMA StepRefines ==
  Inv /\ OnePlace /\ [Next]_vars => OnePlace' /\ [Abstract!Next]_(Abstract!vars)
<1> SUFFICES ASSUME Inv, OnePlace, [Next]_vars
             PROVE  OnePlace' /\ (Abstract!Next \/ UNCHANGED Abstract!vars)
  OBVIOUS
<1>1. ASSUME NEW t \in Tasks, Moves(t) PROVE Abstract!Next
  BY Zenon, <1>1 DEF Moves, Abstract!Next
<1>2. ASSUME NEW t \in Tasks, TryRecv(t) \/ Recv(t), Receive(t) PROVE OnePlace' /\ Abstract!Next
  <2>1. pc[t] \in {"tryRecv", "recv"}
    BY <1>2 DEF TryRecv, Recv
  <2> QED
    BY Zenon, <1>1, <1>2, <2>1, ReceiveRefines
<1>3. ASSUME NEW t \in Tasks, DialOk(t) PROVE OnePlace' /\ Abstract!Next
  BY Zenon, <1>1, <1>3, DialRefines
<1>4. ASSUME NEW t \in Tasks, PutHandOver(t) PROVE OnePlace' /\ Abstract!Next
  BY Zenon, <1>1, <1>4, HandOverRefines
<1>5. ASSUME NEW t \in Tasks, PutBuffer(t), Len(conns) < MaxSize PROVE OnePlace' /\ Abstract!Next
  BY Zenon, <1>1, <1>5, BufferRefines
<1>6. ASSUME NEW t \in Tasks, Close(t) PROVE OnePlace' /\ Abstract!Next
  BY Zenon, <1>1, <1>6, CloseRefines
<1>7. ASSUME NEW t \in Tasks, NEW l, UNCHANGED <<conns, conn>>, pc' = Goto(t, l),
             pc[t] \in Held => l \in Held
      PROVE  OnePlace' /\ UNCHANGED Abstract!vars
  <2>1. \A s \in Tasks : pc[s] \in Held => pc'[s] \in Held
    BY <1>7 DEF Inv, TypeOK, Goto
  <2> QED
    BY Zenon, <1>7, <2>1, KeepRefines
<1>8. ASSUME NEW t \in Tasks, TryRecv(t), ~Receive(t) PROVE OnePlace' /\ UNCHANGED Abstract!vars
  <2>1. pc[t] \notin Held /\ pc' = Goto(t, "reserve") /\ UNCHANGED <<conns, conn>>
    BY <1>8 DEF TryRecv, Held
  <2> QED
    BY Zenon, <1>7, <2>1
<1>9. ASSUME NEW t \in Tasks, Recv(t), ~Receive(t) PROVE OnePlace' /\ UNCHANGED Abstract!vars
  <2>1. pc[t] \notin Held /\ pc' = Goto(t, "blocked") /\ UNCHANGED <<conns, conn>>
    BY <1>9 DEF Recv, Held
  <2> QED
    BY Zenon, <1>7, <2>1
<1>10. ASSUME NEW t \in Tasks,
              Arrive(t) \/ Reserve(t) \/ DialErr(t) \/ Unreserve(t) \/ Release(t) \/ Recycle(t)
       PROVE  OnePlace' /\ UNCHANGED Abstract!vars
  <2>1. pc[t] \notin Held /\ (\E l : pc' = Goto(t, l)) /\ UNCHANGED <<conns, conn>>
    BY <1>10 DEF Arrive, Reserve, DialErr, Unreserve, Release, Recycle, Held
  <2> QED
    BY Zenon, <1>7, <2>1
<1>11. ASSUME NEW t \in Tasks,
              ForwardOk(t) \/ ForwardErr(t) \/ (PutBuffer(t) /\ ~(Len(conns) < MaxSize))
       PROVE  OnePlace' /\ UNCHANGED Abstract!vars
  <2>1. (\E l \in Held : pc' = Goto(t, l)) /\ UNCHANGED <<conns, conn>>
    BY <1>11 DEF ForwardOk, ForwardErr, PutBuffer, AfterForward, Held
  <2> QED
    BY Zenon, <1>7, <2>1
<1>12. CASE UNCHANGED vars
  BY <1>12, KeepRefines DEF vars
<1> QED
  BY <1>2, <1>3, <1>4, <1>5, <1>6, <1>8, <1>9, <1>10, <1>11, <1>12
  DEF Next, BurstNext, ForwardPooled, Get, PutBack

\* The Go pool implements the abstract pool: a connection serves one request at
\* a time, whether it was received, dialed or handed over by a Put, a request
\* leaves only with a connection nobody else uses, and at most maxSize are open
\* (pool.go:33-76).
THEOREM Refinement == Spec => ImplementsBoundedPool
<1>1. Spec => []OnePlace
  BY InitRefines, StepRefines, Safety, PTL DEF Spec
<1> QED
  BY <1>1, Safety, InitRefines, StepRefines, PTL DEF Spec, ImplementsBoundedPool, Abstract!Spec
=============================================================================
