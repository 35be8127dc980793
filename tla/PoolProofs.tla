----------------------------- MODULE PoolProofs -----------------------------
(***************************************************************************)
(* Proofs about the Rust connection pool, for any finite set of request    *)
(* tasks, any pool size and with every failure the model has.              *)
(*                                                                         *)
(* SlotsBounded is not inductive: that Reserve stays within the bound      *)
(* needs `outstanding` to cover the slots in use (SlotsCovered), that a    *)
(* wake-up moves no slot needs the Notify queue to hold exactly the        *)
(* waiting tasks (NotifyConsistent), and that the idle stack holds real    *)
(* connections needs the tasks between get and put to own one (ConnOwned). *)
(*                                                                         *)
(* That no task sleeps without a waker rests on two facts about a pool in  *)
(* which nothing fails (Owed): once some get has found no room every slot  *)
(* is in use for ever, and while all connections are idle and a task is on *)
(* its way to sleep, or asleep, a wake-up is stored, about to be sent or   *)
(* being acted upon.                                                       *)
(*                                                                         *)
(* That the pool implements BoundedPool follows from the bound on slots: a *)
(* dialing task holds a slot and no connection.  That a pop takes exactly  *)
(* one connection out of use by others, and that a put adds one, needs     *)
(* every open connection to be in one place only (OnePlace).               *)
(***************************************************************************)
EXTENDS Pool, FiniteSetTheorems, TLAPS

\* A task that is between get and put owns a connection.
ConnOwned ==
  \A t \in Tasks : pc[t] \in {"forward", "put", "evict"} => conn[t] \in Conns

\* The Notify holds a permit only while nobody is queued, and its queue is exactly
\* the set of waiting tasks, each once.
NotifyConsistent ==
  /\ permit => waiters = <<>>
  /\ {waiters[i] : i \in DOMAIN waiters} = {t \in Tasks : pc[t] = "waiting"}
  /\ \A i, j \in DOMAIN waiters : waiters[i] = waiters[j] => i = j

Inv ==
  /\ TypeOK
  /\ ConnOwned
  /\ NotifyConsistent
  /\ SlotsCovered
  /\ SlotsBounded

-----------------------------------------------------------------------------
(* The initial state. *)

LEMMA InitInv == Init => Inv
<1> SUFFICES ASSUME Init PROVE Inv
  OBVIOUS
<1>1. TypeOK /\ ConnOwned
  <2>1. idle \in Seq(Conns) /\ waiters \in Seq(Tasks)
    BY DEF Init
  <2>2. pc \in [Tasks -> PC] /\ conn \in [Tasks -> Conns \cup {NoConn}]
    BY DEF Init, PC
  <2>3. ConnOwned
    BY DEF Init, ConnOwned
  <2>4. outstanding \in Int
    BY DEF Init
  <2>5. permit \in BOOLEAN /\ scenario \in Scenarios
    BY Zenon DEF Init
  <2> QED
    BY <2>1, <2>2, <2>3, <2>4, <2>5 DEF TypeOK
<1>4. NotifyConsistent
  BY DEF Init, NotifyConsistent
<1>2. SlotHolders = {} /\ Overshoot = {}
  BY DEF Init, SlotHolders, Overshoot
<1>3. SlotsCovered /\ SlotsBounded
  BY <1>2, FS_EmptySet, PoolAssumption DEF Init, SlotsCovered, SlotsBounded
<1> QED
  BY <1>1, <1>3, <1>4 DEF Inv

-----------------------------------------------------------------------------
(* Types. *)

\* A wake-up keeps the types, whatever the move of the task that causes it.
LEMMA NotifyOneType ==
  ASSUME TypeOK, NEW t \in Tasks, NEW l \in PC, NotifyOne(Goto(t, l))
  PROVE  permit' \in BOOLEAN /\ waiters' \in Seq(Tasks) /\ pc' \in [Tasks -> PC]
<1>1. Goto(t, l) \in [Tasks -> PC]
  BY DEF TypeOK, Goto
<1>2. CASE waiters = <<>>
  BY <1>1, <1>2 DEF NotifyOne, TypeOK
<1>3. CASE waiters # <<>>
  <2>1. /\ pc' = [Goto(t, l) EXCEPT ![Head(waiters)] = "woken"]
        /\ waiters' = Tail(waiters)
        /\ permit' = permit
    BY <1>3 DEF NotifyOne
  <2>2. waiters' \in Seq(Tasks)
    BY <2>1, <1>3 DEF TypeOK
  <2>3. pc' \in [Tasks -> PC]
    BY Zenon, <2>1, <1>1 DEF PC
  <2> QED
    BY <2>1, <2>2, <2>3 DEF TypeOK
<1> QED
  BY <1>2, <1>3

LEMMA StepType == TypeOK /\ ConnOwned /\ [Next]_vars => TypeOK'
<1> SUFFICES ASSUME TypeOK, ConnOwned, [Next]_vars PROVE TypeOK'
  OBVIOUS
<1>0. scenario' \in Scenarios
  BY DEF TypeOK, Next, vars
<1> USE <1>0 DEF TypeOK, Goto
<1>1. CASE UNCHANGED vars
  BY <1>1 DEF vars
<1>2. ASSUME NEW t \in Tasks, Arrive(t) PROVE TypeOK'
  BY <1>2 DEF Arrive, PC
<1>3. ASSUME NEW t \in Tasks, PopIdle(t) PROVE TypeOK'
  <2>1. pc' \in [Tasks -> PC]
    BY <1>3 DEF PopIdle, PC
  <2>2. CASE idle # <<>>
    <3>1. Len(idle) \in Nat \ {0} /\ idle[Len(idle)] \in Conns
      BY <2>2
    <3>2. SubSeq(idle, 1, Len(idle) - 1) \in Seq(Conns)
      BY <3>1
    <3> QED
      BY Zenon, <2>1, <2>2, <3>1, <3>2, <1>3 DEF PopIdle, Rest
  <2>3. CASE idle = <<>>
    BY <2>1, <2>3, <1>3 DEF PopIdle
  <2> QED
    BY <2>2, <2>3
<1>4. ASSUME NEW t \in Tasks, Reserve(t) PROVE TypeOK'
  BY <1>4 DEF Reserve, PC
<1>5. ASSUME NEW t \in Tasks, DialOk(t) PROVE TypeOK'
  BY <1>5 DEF DialOk, PC
<1>6. ASSUME NEW t \in Tasks, DialErr(t) PROVE TypeOK'
  BY <1>6 DEF DialErr, FetchSub, PC
<1>7. ASSUME NEW t \in Tasks, Unreserve(t) PROVE TypeOK'
  BY <1>7 DEF Unreserve, FetchSub, PC
<1>8. ASSUME NEW t \in Tasks, Wait(t) PROVE TypeOK'
  <2>1. pc' \in [Tasks -> PC]
    BY <1>8 DEF Wait, PC
  <2>2. waiters' \in Seq(Tasks)
    <3>1. Append(waiters, t) \in Seq(Tasks)
      OBVIOUS
    <3> QED
      BY Zenon, <3>1, <1>8 DEF Wait
  <2>3. permit' \in BOOLEAN
    BY Zenon, <1>8 DEF Wait, Permitted
  <2> QED
    BY <2>1, <2>2, <2>3, <1>8 DEF Wait
<1>9. ASSUME NEW t \in Tasks, Resume(t) PROVE TypeOK'
  BY <1>9 DEF Resume, PC
<1>10. ASSUME NEW t \in Tasks, ForwardOk(t) PROVE TypeOK'
  BY <1>10 DEF ForwardOk, PC
<1>11. ASSUME NEW t \in Tasks, ForwardErr(t) PROVE TypeOK'
  BY <1>11 DEF ForwardErr, PC
<1>12. ASSUME NEW t \in Tasks, Put(t) PROVE TypeOK'
  <2>1. conn[t] \in Conns
    BY <1>12 DEF Put, ConnOwned
  <2>2. pc' \in [Tasks -> PC]
    BY <1>12 DEF Put, AfterPut, PC
  <2>3. idle' \in Seq(Conns)
    <3>1. Append(idle, conn[t]) \in Seq(Conns)
      BY <2>1
    <3> QED
      BY Zenon, <3>1, <1>12 DEF Put
  <2>4. conn' \in [Tasks -> Conns \cup {NoConn}]
    BY <1>12 DEF Put
  <2> QED
    BY <2>2, <2>3, <2>4, <1>12 DEF Put
<1>13. ASSUME NEW t \in Tasks, Evict(t) PROVE TypeOK'
  BY <1>13 DEF Evict, PC
<1>14. ASSUME NEW t \in Tasks, Release(t) PROVE TypeOK'
  BY <1>14 DEF Release, FetchSub, PC
<1>15. ASSUME NEW t \in Tasks, Notify(t) PROVE TypeOK'
  BY Zenon, <1>15, NotifyOneType DEF Notify, PC
<1>16. ASSUME NEW t \in Tasks, CancelRunning(t) PROVE TypeOK'
  BY <1>16 DEF CancelRunning, PC
<1>17. ASSUME NEW t \in Tasks, CancelWaiting(t) PROVE TypeOK'
  <2>1. waiters' \in Seq(Tasks)
    BY <1>17 DEF CancelWaiting
  <2> QED
    BY <2>1, <1>17 DEF CancelWaiting, PC
<1>18. ASSUME NEW t \in Tasks, CancelWoken(t) PROVE TypeOK'
  BY Zenon, <1>18, NotifyOneType DEF CancelWoken, PC
<1>19. ASSUME NEW t \in Tasks, Recycle(t) PROVE TypeOK'
  BY <1>19 DEF Recycle, PC
<1> QED
  BY <1>1, <1>2, <1>3, <1>4, <1>5, <1>6, <1>7, <1>8, <1>9, <1>10, <1>11, <1>12,
     <1>13, <1>14, <1>15, <1>16, <1>17, <1>18, <1>19
  DEF Next, TaskNext, ForwardPooled, Get, PutBack, Cancel

LEMMA StepConnOwned ==
  TypeOK /\ ConnOwned /\ NotifyConsistent /\ [Next]_vars => ConnOwned'
<1> SUFFICES ASSUME TypeOK, ConnOwned, NotifyConsistent, [Next]_vars PROVE ConnOwned'
  OBVIOUS
<1> USE DEF TypeOK, ConnOwned, Goto
<1>1. CASE UNCHANGED vars
  BY <1>1 DEF vars
<1>2. ASSUME NEW t \in Tasks,
             Arrive(t) \/ Reserve(t) \/ DialErr(t) \/ Unreserve(t) \/ Wait(t) \/ Resume(t)
             \/ Release(t) \/ Recycle(t) \/ CancelWaiting(t)
      PROVE  ConnOwned'
  BY <1>2 DEF Arrive, Reserve, DialErr, Unreserve, Wait, Resume, Release, Recycle, CancelWaiting
<1>3. ASSUME NEW t \in Tasks, PopIdle(t) PROVE ConnOwned'
  <2>1. idle # <<>> => idle[Len(idle)] \in Conns
    OBVIOUS
  <2> QED
    BY <2>1, <1>3 DEF PopIdle
<1>4. ASSUME NEW t \in Tasks, DialOk(t) PROVE ConnOwned'
  BY <1>4 DEF DialOk
<1>5. ASSUME NEW t \in Tasks, ForwardOk(t) \/ ForwardErr(t) PROVE ConnOwned'
  BY <1>5 DEF ForwardOk, ForwardErr
<1>6. ASSUME NEW t \in Tasks, Put(t) \/ Evict(t) \/ CancelRunning(t) PROVE ConnOwned'
  BY <1>6 DEF Put, AfterPut, Evict, CancelRunning
<1>7. ASSUME NEW t \in Tasks, Notify(t) \/ CancelWoken(t) PROVE ConnOwned'
  <2>1. NotifyOne([pc EXCEPT ![t] = "done"]) /\ UNCHANGED conn
    BY <1>7 DEF Notify, CancelWoken
  <2>2. CASE waiters = <<>>
    BY <2>1, <2>2 DEF NotifyOne
  <2>3. CASE waiters # <<>>
    BY <2>1, <2>3 DEF NotifyOne
  <2> QED
    BY <2>2, <2>3
<1> QED
  BY <1>1, <1>2, <1>3, <1>4, <1>5, <1>6, <1>7
  DEF Next, TaskNext, ForwardPooled, Get, PutBack, Cancel

-----------------------------------------------------------------------------
(* The queue of the Notify. *)

\* A move of one task that is not to or from "waiting" leaves the queue right.
LEMMA NotifyUntouched ==
  ASSUME TypeOK, NotifyConsistent, NEW t \in Tasks, NEW l \in PC,
         pc[t] # "waiting", l # "waiting",
         pc' = Goto(t, l), waiters' = waiters, permit' = TRUE => permit = TRUE \/ waiters = <<>>
  PROVE  NotifyConsistent'
<1>1. permit' => waiters' = <<>>
  BY DEF NotifyConsistent, TypeOK
<1>2. {u \in Tasks : pc'[u] = "waiting"} = {u \in Tasks : pc[u] = "waiting"}
  BY DEF TypeOK, Goto
<1> QED
  BY <1>1, <1>2 DEF NotifyConsistent

\* A wake-up, sent by a task that is not itself queued, takes the oldest
\* waiting task out of the queue or stores the permit.
LEMMA NotifyOneConsistent ==
  ASSUME TypeOK, NotifyConsistent, NEW t \in Tasks, pc[t] # "waiting",
         NotifyOne(Goto(t, "done"))
  PROVE  NotifyConsistent'
<1>1. CASE waiters = <<>>
  BY <1>1, NotifyUntouched DEF NotifyOne, PC
<1>2. CASE waiters # <<>>
  <2> DEFINE h == Head(waiters)
  <2>1. /\ waiters' = Tail(waiters)
        /\ pc' = [Goto(t, "done") EXCEPT ![h] = "woken"]
        /\ permit' = permit
    BY <1>2 DEF NotifyOne
  <2>2. /\ h = waiters[1] /\ h \in Tasks
        /\ Len(waiters) \in Nat \ {0}
        /\ DOMAIN waiters = 1 .. Len(waiters)
    BY <1>2 DEF TypeOK
  <2>3. pc[h] = "waiting" /\ h # t
    BY <2>2 DEF NotifyConsistent
  <2>4. /\ DOMAIN waiters' = 1 .. (Len(waiters) - 1)
        /\ \A i \in DOMAIN waiters' : waiters'[i] = waiters[i + 1] /\ i + 1 \in DOMAIN waiters
    BY <2>1, <2>2, <1>2 DEF TypeOK
  <2>5. \A i \in DOMAIN waiters : i # 1 => i - 1 \in DOMAIN waiters' /\ waiters'[i - 1] = waiters[i]
    BY <2>2, <2>4
  <2>6. \A i, j \in DOMAIN waiters' : waiters'[i] = waiters'[j] => i = j
    BY <2>2, <2>4 DEF NotifyConsistent
  <2>7. \A u \in Tasks : pc'[u] = "waiting" <=> (pc[u] = "waiting" /\ u # h)
    BY <2>1, <2>2, <2>3 DEF TypeOK, Goto
  <2>8. \A i \in DOMAIN waiters' : waiters'[i] \in Tasks /\ pc'[waiters'[i]] = "waiting"
    <3> SUFFICES ASSUME NEW i \in DOMAIN waiters'
                 PROVE  waiters'[i] \in Tasks /\ pc'[waiters'[i]] = "waiting"
      OBVIOUS
    <3>1. i \in Nat /\ i # 0 /\ i + 1 # 1 /\ 1 \in DOMAIN waiters
      BY <2>2, <2>4
    <3>2. waiters[i + 1] # h
      BY <3>1, <2>2, <2>4 DEF NotifyConsistent
    <3>3. waiters[i + 1] \in Tasks /\ pc[waiters[i + 1]] = "waiting"
      BY <2>4 DEF NotifyConsistent
    <3> QED
      BY <3>2, <3>3, <2>4, <2>7
  <2>9. \A u \in Tasks : pc'[u] = "waiting" => \E i \in DOMAIN waiters' : waiters'[i] = u
    <3> SUFFICES ASSUME NEW u \in Tasks, pc'[u] = "waiting"
                 PROVE  \E i \in DOMAIN waiters' : waiters'[i] = u
      OBVIOUS
    <3>1. PICK i \in DOMAIN waiters : waiters[i] = u
      BY <2>7 DEF NotifyConsistent
    <3>2. i # 1
      BY <3>1, <2>2, <2>7
    <3> QED
      BY <3>1, <3>2, <2>5
  <2>10. {waiters'[i] : i \in DOMAIN waiters'} = {u \in Tasks : pc'[u] = "waiting"}
    BY <2>8, <2>9
  <2>11. ~permit'
    BY <1>2, <2>1 DEF NotifyConsistent, TypeOK
  <2> QED
    BY <2>6, <2>10, <2>11 DEF NotifyConsistent
<1> QED
  BY <1>1, <1>2

LEMMA WaitConsistent ==
  ASSUME TypeOK, NotifyConsistent, NEW t \in Tasks, Wait(t)
  PROVE  NotifyConsistent'
<1>1. CASE permit
  BY <1>1, NotifyUntouched DEF Wait, Permitted, PC
<1>2. CASE ~permit
  <2>1. /\ waiters' = Append(waiters, t)
        /\ pc' = Goto(t, "waiting")
        /\ permit' = permit
        /\ pc[t] = "wait"
    BY <1>2 DEF Wait, Permitted
  <2>2. /\ DOMAIN waiters = 1 .. Len(waiters)
        /\ Len(waiters) \in Nat
        /\ DOMAIN waiters' = 1 .. (Len(waiters) + 1)
        /\ \A i \in DOMAIN waiters : waiters'[i] = waiters[i]
        /\ waiters'[Len(waiters) + 1] = t
    BY <2>1 DEF TypeOK
  <2>3. \A u \in Tasks : pc'[u] = "waiting" <=> (pc[u] = "waiting" \/ u = t)
    BY <2>1 DEF TypeOK, Goto
  <2>4. \A i \in DOMAIN waiters : waiters[i] \in Tasks /\ waiters[i] # t
                                  /\ pc[waiters[i]] = "waiting"
    BY <2>1 DEF NotifyConsistent
  <2>5. \A i, j \in DOMAIN waiters' : waiters'[i] = waiters'[j] => i = j
    BY <2>2, <2>4 DEF NotifyConsistent
  <2>6. \A i \in DOMAIN waiters' : waiters'[i] \in Tasks /\ pc'[waiters'[i]] = "waiting"
    BY <2>2, <2>3, <2>4
  <2>7. \A u \in Tasks : pc[u] = "waiting" => \E i \in DOMAIN waiters : waiters[i] = u
    BY DEF NotifyConsistent
  <2>8. \A u \in Tasks : pc'[u] = "waiting" => \E i \in DOMAIN waiters' : waiters'[i] = u
    BY <2>2, <2>3, <2>7
  <2>9. {waiters'[i] : i \in DOMAIN waiters'} = {u \in Tasks : pc'[u] = "waiting"}
    BY <2>6, <2>8
  <2> QED
    BY <1>2, <2>1, <2>5, <2>9 DEF NotifyConsistent
<1> QED
  BY <1>1, <1>2

\* What is left of a sequence when its k-th element is taken out.
LEMMA RemoveAtProperties ==
  ASSUME NEW S, NEW s \in Seq(S), NEW k \in 1 .. Len(s)
  PROVE  LET r == SubSeq(s, 1, k - 1) \o SubSeq(s, k + 1, Len(s))
         IN  /\ r \in Seq(S)
             /\ DOMAIN r = 1 .. (Len(s) - 1)
             /\ \A i \in 1 .. (Len(s) - 1) : r[i] = s[IF i < k THEN i ELSE i + 1]
<1> DEFINE a == SubSeq(s, 1, k - 1)
           b == SubSeq(s, k + 1, Len(s))
           r == a \o b
<1>1. Len(s) \in Nat /\ k \in Nat /\ 1 <= k /\ k <= Len(s)
  OBVIOUS
<1>2. /\ a \in Seq(S) /\ Len(a) = k - 1
      /\ \A i \in 1 .. (k - 1) : a[i] = s[i]
  BY <1>1
<1>3. /\ b \in Seq(S) /\ Len(b) = Len(s) - k
      /\ \A i \in 1 .. (Len(s) - k) : b[i] = s[i + k]
  BY <1>1
<1> HIDE DEF a, b
<1>4. /\ r \in Seq(S)
      /\ Len(r) = Len(a) + Len(b)
      /\ \A i \in 1 .. (Len(a) + Len(b)) :
           r[i] = IF i <= Len(a) THEN a[i] ELSE b[i - Len(a)]
  <2>1. a \in Seq(S) /\ b \in Seq(S) /\ Len(a) \in Nat /\ Len(b) \in Nat
    BY <1>2, <1>3
  <2>2. r \in Seq(S) /\ Len(r) = Len(a) + Len(b)
    BY <2>1
  <2>3. ASSUME NEW i \in 1 .. (Len(a) + Len(b))
        PROVE  r[i] = IF i <= Len(a) THEN a[i] ELSE b[i - Len(a)]
    BY <2>1
  <2> QED
    BY <2>2, <2>3
<1> HIDE DEF r
<1>5. Len(r) = Len(s) - 1
  BY <1>1, <1>2, <1>3, <1>4
<1>6. DOMAIN r = 1 .. (Len(s) - 1)
  BY <1>4, <1>5
<1>7. ASSUME NEW i \in 1 .. (Len(s) - 1) PROVE r[i] = s[IF i < k THEN i ELSE i + 1]
  <2>1. r[i] = IF i <= k - 1 THEN a[i] ELSE b[i - (k - 1)]
    BY <1>1, <1>2, <1>3, <1>4
  <2>2. CASE i < k
    BY <2>1, <2>2, <1>1, <1>2
  <2>3. CASE ~(i < k)
    <3>1. i - (k - 1) \in 1 .. (Len(s) - k) /\ (i - (k - 1)) + k = i + 1
      BY <2>3, <1>1
    <3>2. b[i - (k - 1)] = s[i + 1]
      BY <3>1, <1>3
    <3> QED
      BY <2>1, <2>3, <3>2, <1>1
  <2> QED
    BY <2>2, <2>3
<1> QED
  BY Zenon, <1>4, <1>6, <1>7 DEF r, a, b

LEMMA CancelWaitingConsistent ==
  ASSUME TypeOK, NotifyConsistent, NEW t \in Tasks, CancelWaiting(t)
  PROVE  NotifyConsistent'
<1>1. PICK k \in DOMAIN waiters :
        /\ waiters[k] = t
        /\ waiters' = SubSeq(waiters, 1, k - 1) \o SubSeq(waiters, k + 1, Len(waiters))
  BY Zenon DEF CancelWaiting
<1>2. pc' = Goto(t, "done") /\ permit' = permit /\ pc[t] = "waiting"
  BY DEF CancelWaiting
<1> DEFINE n == Len(waiters)
<1>3. /\ n \in Nat
      /\ DOMAIN waiters = 1 .. n
      /\ k \in 1 .. n
  BY DEF TypeOK
<1>6. /\ DOMAIN waiters' = 1 .. (n - 1)
      /\ \A i \in 1 .. (n - 1) :
           waiters'[i] = waiters[IF i < k THEN i ELSE i + 1]
  BY Zenon, <1>1, <1>3, RemoveAtProperties DEF TypeOK
<1>7. \A u \in Tasks : pc'[u] = "waiting" <=> (pc[u] = "waiting" /\ u # t)
  BY <1>2 DEF TypeOK, Goto
<1>8. \A i, j \in DOMAIN waiters' : waiters'[i] = waiters'[j] => i = j
  <2> SUFFICES ASSUME NEW i \in 1 .. (n - 1), NEW j \in 1 .. (n - 1), waiters'[i] = waiters'[j]
               PROVE  i = j
    BY <1>6
  <2> DEFINE mi == IF i < k THEN i ELSE i + 1
             mj == IF j < k THEN j ELSE j + 1
  <2>1. waiters[mi] = waiters[mj]
    BY <1>6
  <2>2. mi \in 1 .. n /\ mj \in 1 .. n
    BY <1>3
  <2>3. mi = mj
    BY <2>1, <2>2, <1>3 DEF NotifyConsistent
  <2> QED
    BY <2>3, <1>3
<1>9. \A i \in 1 .. n : waiters[i] \in Tasks /\ pc[waiters[i]] = "waiting"
                        /\ (i # k => waiters[i] # t)
  BY Zenon, <1>1, <1>3 DEF NotifyConsistent
<1>10. \A i \in DOMAIN waiters' : waiters'[i] \in Tasks /\ pc'[waiters'[i]] = "waiting"
  <2> SUFFICES ASSUME NEW i \in 1 .. (n - 1)
               PROVE  waiters'[i] \in Tasks /\ pc'[waiters'[i]] = "waiting"
    BY <1>6
  <2> DEFINE m == IF i < k THEN i ELSE i + 1
  <2>1. m \in 1 .. n /\ m # k
    BY <1>3
  <2> QED
    BY Zenon, <2>1, <1>6, <1>7, <1>9
<1>11. \A u \in Tasks : pc'[u] = "waiting" => \E i \in DOMAIN waiters' : waiters'[i] = u
  <2> SUFFICES ASSUME NEW u \in Tasks, pc'[u] = "waiting"
               PROVE  \E i \in DOMAIN waiters' : waiters'[i] = u
    OBVIOUS
  <2>1. PICK m \in 1 .. n : waiters[m] = u
    BY <1>3, <1>7 DEF NotifyConsistent
  <2>2. m # k
    BY <1>1, <1>7, <2>1
  <2> DEFINE i == IF m < k THEN m ELSE m - 1
  <2>3. i \in 1 .. (n - 1) /\ waiters'[i] = u
    BY <1>3, <1>6, <2>1, <2>2
  <2> QED
    BY Zenon, <1>6, <2>3
<1>12. {waiters'[i] : i \in DOMAIN waiters'} = {u \in Tasks : pc'[u] = "waiting"}
  BY <1>10, <1>11
<1>13. permit' => waiters' = <<>>
  BY <1>1, <1>2 DEF NotifyConsistent, TypeOK
<1> QED
  BY <1>8, <1>12, <1>13 DEF NotifyConsistent

LEMMA StepNotifyConsistent ==
  TypeOK /\ NotifyConsistent /\ [Next]_vars => NotifyConsistent'
<1> SUFFICES ASSUME TypeOK, NotifyConsistent, [Next]_vars PROVE NotifyConsistent'
  OBVIOUS
<1>1. CASE UNCHANGED vars
  BY <1>1 DEF vars, NotifyConsistent
<1>2. ASSUME NEW t \in Tasks,
             \/ Arrive(t) \/ PopIdle(t) \/ Reserve(t) \/ DialOk(t) \/ DialErr(t)
             \/ Unreserve(t) \/ Resume(t) \/ ForwardOk(t) \/ ForwardErr(t) \/ Put(t)
             \/ Evict(t) \/ Release(t) \/ Recycle(t) \/ CancelRunning(t)
      PROVE  NotifyConsistent'
  <2>1. \E l \in PC \ {"waiting"} : pc' = Goto(t, l)
    BY <1>2
    DEF Arrive, PopIdle, Reserve, DialOk, DialErr, Unreserve, Resume, ForwardOk, ForwardErr,
        Put, AfterPut, Evict, Release, Recycle, CancelRunning, PC
  <2>2. pc[t] # "waiting" /\ waiters' = waiters /\ permit' = permit
    BY <1>2
    DEF Arrive, PopIdle, Reserve, DialOk, DialErr, Unreserve, Resume, ForwardOk, ForwardErr,
        Put, Evict, Release, Recycle, CancelRunning, Suspended
  <2> QED
    BY Zenon, <2>1, <2>2, NotifyUntouched
<1>3. ASSUME NEW t \in Tasks, Wait(t) PROVE NotifyConsistent'
  BY <1>3, WaitConsistent
<1>4. ASSUME NEW t \in Tasks, Notify(t) \/ CancelWoken(t) PROVE NotifyConsistent'
  BY <1>4, NotifyOneConsistent DEF Notify, CancelWoken
<1>5. ASSUME NEW t \in Tasks, CancelWaiting(t) PROVE NotifyConsistent'
  BY <1>5, CancelWaitingConsistent
<1> QED
  BY <1>1, <1>2, <1>3, <1>4, <1>5
  DEF Next, TaskNext, ForwardPooled, Get, PutBack, Cancel

-----------------------------------------------------------------------------
(* Counting slots. *)

SlotPC == {"dial", "forward", "put", "evict", "release"}

SlotOf(l)      == IF l \in SlotPC THEN 1 ELSE 0
OvershootOf(l) == IF l = "unreserve" THEN 1 ELSE 0

LEMMA CountsAreNat ==
  /\ IsFiniteSet(SlotHolders) /\ Cardinality(SlotHolders) \in Nat
  /\ IsFiniteSet(Overshoot) /\ Cardinality(Overshoot) \in Nat
<1>1. SlotHolders \subseteq Tasks /\ Overshoot \subseteq Tasks
  BY DEF SlotHolders, Overshoot
<1> QED
  BY <1>1, PoolAssumption, FS_Subset, FS_CardinalityType

\* When one task moves, both counts change by that task's share only.
LEMMA CountMove ==
  ASSUME TypeOK, NEW t \in Tasks, NEW l \in PC, pc' = Goto(t, l)
  PROVE  /\ Cardinality(SlotHolders') = Cardinality(SlotHolders) + SlotOf(l) - SlotOf(pc[t])
         /\ Cardinality(Overshoot') = Cardinality(Overshoot) + OvershootOf(l) - OvershootOf(pc[t])
<1>1. /\ pc'[t] = l
      /\ \A u \in Tasks : u # t => pc'[u] = pc[u]
  BY DEF TypeOK, Goto
<1>2. Cardinality(SlotHolders') = Cardinality(SlotHolders) + SlotOf(l) - SlotOf(pc[t])
  <2>1. /\ t \in SlotHolders <=> pc[t] \in SlotPC
        /\ t \in SlotHolders' <=> l \in SlotPC
        /\ SlotHolders' \ {t} = SlotHolders \ {t}
    BY <1>1 DEF SlotHolders, SlotPC
  <2>2. CASE l \in SlotPC /\ pc[t] \notin SlotPC
    <3>1. SlotHolders' = SlotHolders \cup {t} /\ t \notin SlotHolders
      BY <2>1, <2>2
    <3>2. Cardinality(SlotHolders') = Cardinality(SlotHolders) + 1
      BY Zenon, <3>1, CountsAreNat, FS_AddElement
    <3> QED
      BY <2>2, <3>2, CountsAreNat DEF SlotOf
  <2>3. CASE l \notin SlotPC /\ pc[t] \in SlotPC
    <3>1. SlotHolders' = SlotHolders \ {t} /\ t \in SlotHolders
      BY <2>1, <2>3
    <3>2. Cardinality(SlotHolders') = Cardinality(SlotHolders) - 1
      BY Zenon, <3>1, CountsAreNat, FS_RemoveElement
    <3> QED
      BY <2>3, <3>2, CountsAreNat DEF SlotOf
  <2>4. CASE l \in SlotPC <=> pc[t] \in SlotPC
    <3>1. SlotHolders' = SlotHolders
      BY <2>1, <2>4
    <3> QED
      BY <2>4, <3>1, CountsAreNat DEF SlotOf
  <2> QED
    BY <2>2, <2>3, <2>4
<1>3. Cardinality(Overshoot') = Cardinality(Overshoot) + OvershootOf(l) - OvershootOf(pc[t])
  <2>1. /\ t \in Overshoot <=> pc[t] = "unreserve"
        /\ t \in Overshoot' <=> l = "unreserve"
        /\ Overshoot' \ {t} = Overshoot \ {t}
    BY <1>1 DEF Overshoot
  <2>2. CASE l = "unreserve" /\ pc[t] # "unreserve"
    <3>1. Overshoot' = Overshoot \cup {t} /\ t \notin Overshoot
      BY <2>1, <2>2
    <3>2. Cardinality(Overshoot') = Cardinality(Overshoot) + 1
      BY Zenon, <3>1, CountsAreNat, FS_AddElement
    <3> QED
      BY <2>2, <3>2, CountsAreNat DEF OvershootOf
  <2>3. CASE l # "unreserve" /\ pc[t] = "unreserve"
    <3>1. Overshoot' = Overshoot \ {t} /\ t \in Overshoot
      BY <2>1, <2>3
    <3>2. Cardinality(Overshoot') = Cardinality(Overshoot) - 1
      BY Zenon, <3>1, CountsAreNat, FS_RemoveElement
    <3> QED
      BY <2>3, <3>2, CountsAreNat DEF OvershootOf
  <2>4. CASE l = "unreserve" <=> pc[t] = "unreserve"
    <3>1. Overshoot' = Overshoot
      BY <2>1, <2>4
    <3> QED
      BY <2>4, <3>1, CountsAreNat DEF OvershootOf
  <2> QED
    BY <2>2, <2>3, <2>4
<1> QED
  BY <1>2, <1>3

\* A wake-up moves no slot.
LEMMA CountNotifyOne ==
  ASSUME TypeOK, NotifyConsistent, NEW t \in Tasks, pc[t] \in {"notify", "woken"},
         NotifyOne(Goto(t, "done"))
  PROVE  SlotHolders' = SlotHolders /\ Overshoot' = Overshoot
<1>1. CASE waiters = <<>>
  BY <1>1 DEF NotifyOne, TypeOK, Goto, SlotHolders, Overshoot
<1>2. CASE waiters # <<>>
  <2>1. 1 \in DOMAIN waiters /\ Head(waiters) = waiters[1]
    BY <1>2 DEF TypeOK
  <2>2. Head(waiters) \in Tasks /\ pc[Head(waiters)] = "waiting"
    BY <2>1 DEF NotifyConsistent
  <2> QED
    BY <1>2, <2>2 DEF NotifyOne, TypeOK, Goto, SlotHolders, Overshoot
<1> QED
  BY <1>1, <1>2

\* Nothing fails or is cancelled, and no slot is about to be given up.
Healthy ==
  /\ scenario.faults \subseteq {"again"}
  /\ \A t \in Tasks : pc[t] \notin {"evict", "release"}

\* The slots in use.
Used == Len(idle) + Cardinality(SlotHolders)

\* Every step keeps `outstanding` at or above the slots in use and the slots in
\* use within the bound; only a cancelled request makes it count too much.  The
\* slots in use never become fewer in a healthy pool.
LEMMA StepSlots ==
  ASSUME TypeOK, NotifyConsistent, SlotsCovered, SlotsBounded, [Next]_vars
  PROVE  /\ SlotsCovered'
         /\ SlotsBounded'
         /\ NoSlotLost => NoSlotLost'
         /\ Healthy => Used' >= Used
<1> DEFINE Goal == /\ SlotsCovered'
                   /\ SlotsBounded'
                   /\ NoSlotLost => NoSlotLost'
                   /\ Healthy => Used' >= Used
<1> SUFFICES Goal
  OBVIOUS
<1>0. /\ Len(idle) \in Nat /\ outstanding \in Int /\ MaxSize \in Nat
      /\ Cardinality(SlotHolders) \in Nat /\ Cardinality(Overshoot) \in Nat
  BY CountsAreNat, PoolAssumption DEF TypeOK
<1>00. May("cancel")' <=> May("cancel")
  BY DEF Next, vars, May
<1> USE <1>0, <1>00 DEF SlotsCovered, SlotsBounded, NoSlotLost, Used
<1>1. ASSUME SlotHolders' = SlotHolders, Overshoot' = Overshoot,
             outstanding' = outstanding, idle' = idle
      PROVE  Goal
  BY <1>1
<1>2. CASE UNCHANGED vars
  BY <1>2, <1>1 DEF vars, SlotHolders, Overshoot
<1>3. ASSUME NEW t \in Tasks, NEW l \in PC, pc' = Goto(t, l),
             SlotOf(l) = SlotOf(pc[t]), OvershootOf(l) = OvershootOf(pc[t]),
             outstanding' = outstanding, idle' = idle
      PROVE  Goal
  BY SMTT(30), <1>3, CountMove DEF SlotOf, OvershootOf
<1>4. ASSUME NEW t \in Tasks,
             \/ Arrive(t) \/ DialOk(t) \/ Wait(t) \/ Resume(t) \/ ForwardOk(t)
             \/ ForwardErr(t) \/ Evict(t) \/ Recycle(t) \/ CancelWaiting(t)
      PROVE  Goal
  <2>1. \E l \in PC : /\ pc' = Goto(t, l)
                      /\ SlotOf(l) = SlotOf(pc[t]) /\ OvershootOf(l) = OvershootOf(pc[t])
    BY <1>4 DEF Arrive, DialOk, Wait, Resume, ForwardOk, ForwardErr, Evict, Recycle,
                CancelWaiting, PC, SlotOf, SlotPC, OvershootOf
  <2>2. outstanding' = outstanding /\ idle' = idle
    BY <1>4 DEF Arrive, DialOk, Wait, Resume, ForwardOk, ForwardErr, Evict, Recycle,
                CancelWaiting
  <2> QED
    BY <2>1, <2>2, <1>3
<1>5. ASSUME NEW t \in Tasks, PopIdle(t) PROVE Goal
  <2>1. CASE idle = <<>>
    BY <1>3, <1>5, <2>1 DEF PopIdle, PC, SlotOf, SlotPC, OvershootOf
  <2>2. CASE idle # <<>>
    <3>1. pc' = Goto(t, "forward") /\ pc[t] = "pop"
      BY <1>5, <2>2 DEF PopIdle
    <3>2. /\ Cardinality(SlotHolders') = Cardinality(SlotHolders) + 1
          /\ Cardinality(Overshoot') = Cardinality(Overshoot)
      BY SMTT(30), <3>1, CountMove DEF PC, SlotOf, SlotPC, OvershootOf
    <3>3. Len(idle') = Len(idle) - 1 /\ outstanding' = outstanding
      BY <1>5, <2>2 DEF PopIdle, Rest, TypeOK
    <3> QED
      BY <3>2, <3>3
  <2> QED
    BY <2>1, <2>2
<1>6. ASSUME NEW t \in Tasks, Reserve(t) PROVE Goal
  <2>1. outstanding' = outstanding + 1 /\ idle' = idle
    BY <1>6 DEF Reserve
  <2>2. CASE outstanding < MaxSize
    <3>1. pc' = Goto(t, "dial") /\ pc[t] = "reserve"
      BY <1>6, <2>2 DEF Reserve, HasRoom
    <3>2. /\ Cardinality(SlotHolders') = Cardinality(SlotHolders) + 1
          /\ Cardinality(Overshoot') = Cardinality(Overshoot)
      BY SMTT(30), <3>1, CountMove DEF PC, SlotOf, SlotPC, OvershootOf
    <3> QED
      BY <2>1, <2>2, <3>2
  <2>3. CASE ~(outstanding < MaxSize)
    <3>1. pc' = Goto(t, "unreserve") /\ pc[t] = "reserve"
      BY <1>6, <2>3 DEF Reserve, HasRoom
    <3>2. /\ Cardinality(SlotHolders') = Cardinality(SlotHolders)
          /\ Cardinality(Overshoot') = Cardinality(Overshoot) + 1
      BY SMTT(30), <3>1, CountMove DEF PC, SlotOf, SlotPC, OvershootOf
    <3> QED
      BY <2>1, <3>2
  <2> QED
    BY <2>2, <2>3
<1>7. ASSUME NEW t \in Tasks, DialErr(t) \/ Release(t) PROVE Goal
  <2>1. outstanding' = outstanding - 1 /\ idle' = idle
    BY <1>7 DEF DialErr, Release, FetchSub
  <2>2. /\ Cardinality(SlotHolders') = Cardinality(SlotHolders) - 1
        /\ Cardinality(Overshoot') = Cardinality(Overshoot)
    BY SMTT(30), <1>7, CountMove DEF DialErr, Release, PC, SlotOf, SlotPC, OvershootOf
  <2>3. ~Healthy
    BY <1>7 DEF DialErr, Release, Healthy, May
  <2> QED
    BY <2>1, <2>2, <2>3
<1>8. ASSUME NEW t \in Tasks, Unreserve(t) PROVE Goal
  <2>1. outstanding' = outstanding - 1 /\ idle' = idle
    BY <1>8 DEF Unreserve, FetchSub
  <2>2. /\ Cardinality(SlotHolders') = Cardinality(SlotHolders)
        /\ Cardinality(Overshoot') = Cardinality(Overshoot) - 1
    BY SMTT(30), <1>8, CountMove DEF Unreserve, PC, SlotOf, SlotPC, OvershootOf
  <2> QED
    BY <2>1, <2>2
<1>9. ASSUME NEW t \in Tasks, Put(t) PROVE Goal
  <2>1. CASE Len(idle) < MaxSize
    <3>1. /\ Cardinality(SlotHolders') = Cardinality(SlotHolders) - 1
          /\ Cardinality(Overshoot') = Cardinality(Overshoot)
      BY SMTT(30), <1>9, <2>1, CountMove DEF Put, AfterPut, PC, SlotOf, SlotPC, OvershootOf
    <3>2. Len(idle') = Len(idle) + 1 /\ outstanding' = outstanding
      BY <1>9, <2>1 DEF Put, TypeOK
    <3> QED
      BY <3>1, <3>2
  <2>2. CASE ~(Len(idle) < MaxSize)
    BY <1>3, <1>9, <2>2 DEF Put, AfterPut, PC, SlotOf, SlotPC, OvershootOf
  <2> QED
    BY <2>1, <2>2
<1>10. ASSUME NEW t \in Tasks, Notify(t) \/ CancelWoken(t) PROVE Goal
  BY <1>1, <1>10, CountNotifyOne DEF Notify, CancelWoken
<1>11. ASSUME NEW t \in Tasks, CancelRunning(t) PROVE Goal
  <2>1. May("cancel") /\ outstanding' = outstanding /\ idle' = idle /\ pc[t] # "unreserve"
    BY <1>11 DEF CancelRunning, Suspended
  <2>2. /\ Cardinality(SlotHolders') = Cardinality(SlotHolders) - SlotOf(pc[t])
        /\ Cardinality(Overshoot') = Cardinality(Overshoot)
    BY SMTT(30), <1>11, <2>1, CountMove DEF CancelRunning, PC, SlotOf, SlotPC, OvershootOf
  <2>3. SlotOf(pc[t]) \in {0, 1}
    BY DEF SlotOf
  <2>4. ~Healthy
    BY <2>1 DEF Healthy, May
  <2> QED
    BY <2>1, <2>2, <2>3, <2>4
<1> QED
  BY <1>2, <1>4, <1>5, <1>6, <1>7, <1>8, <1>9, <1>10, <1>11
  DEF Next, TaskNext, ForwardPooled, Get, PutBack, Cancel

-----------------------------------------------------------------------------
LEMMA StepInv == Inv /\ [Next]_vars => Inv'
BY StepType, StepConnOwned, StepNotifyConsistent, StepSlots DEF Inv

\* In every reachable state the types hold, a task between get and put owns a
\* connection, the Notify queue is right, `outstanding` covers the slots in use
\* (so fetch_sub never wraps) and these are at most max_size (pool.rs:31-75).
THEOREM Safety == Spec => []Inv
<1>1. Init => Inv
  BY InitInv
<1>2. Inv /\ [Next]_vars => Inv'
  BY StepInv
<1> QED
  BY <1>1, <1>2, PTL DEF Spec

\* The type invariant of the Rust pool.
THEOREM TypeCorrect == Spec => []TypeOK
BY Safety, PTL DEF Inv

\* At most max_size connections exist at any time, with failing dials, failing
\* forwards and cancelled requests (pool.rs:40-50).
THEOREM Bounded == Spec => []SlotsBounded
BY Safety, PTL DEF Inv

\* `outstanding` is never below the number of slots in use, hence never
\* negative: no fetch_sub of pool.rs wraps.
THEOREM Covered == Spec => []SlotsCovered
BY Safety, PTL DEF Inv

\* put always finds room: the else branch at pool.rs:69-74 is never taken.
THEOREM RoomForPut == Spec => []PutFindsRoom
<1>1. Inv => PutFindsRoom
  <2> SUFFICES ASSUME Inv, NEW t \in Tasks, pc[t] = "put" PROVE Len(idle) < MaxSize
    BY DEF PutFindsRoom
  <2>1. t \in SlotHolders
    BY DEF SlotHolders
  <2>2. Cardinality(SlotHolders) # 0
    BY <2>1, CountsAreNat, FS_EmptySet
  <2> QED
    BY <2>2, CountsAreNat, PoolAssumption DEF Inv, SlotsBounded, TypeOK
<1> QED
  BY <1>1, Safety, PTL

\* In every scenario without cancelled requests no slot is ever lost: the count is exact in
\* every reachable state (pool.rs:40-50, 56-75).
THEOREM ExactCount == Spec => []NoSlotLost
<1>1. Init => NoSlotLost
  <2> SUFFICES ASSUME Init PROVE NoSlotLost
    OBVIOUS
  <2>1. SlotHolders = {} /\ Overshoot = {}
    BY DEF Init, SlotHolders, Overshoot
  <2> QED
    BY <2>1, FS_EmptySet DEF Init, NoSlotLost
<1>2. Inv /\ NoSlotLost /\ [Next]_vars => NoSlotLost'
  BY StepSlots DEF Inv
<1> QED
  BY <1>1, <1>2, Safety, PTL DEF Spec

-----------------------------------------------------------------------------
(* Wake-ups. *)

\* What holds in a pool in which nothing fails: no slot is given up; every slot is
\* in use once a get has found no room; and a wake-up is under way while all the
\* connections are idle and some task has not seen it.
Owed ==
  scenario.faults \subseteq {"again"} =>
    /\ Healthy
    /\ \A t \in Tasks : pc[t] \in {"unreserve", "wait", "waiting"} => Used = MaxSize
    /\ MaxSize > 0 /\ Len(idle) = MaxSize =>
         \A t \in Tasks : pc[t] \in {"reserve", "unreserve", "wait", "waiting"} =>
           permit \/ \E u \in Tasks : pc[u] \in {"notify", "woken", "pop"}

LEMMA RestShorter ==
  ASSUME NEW S, NEW s \in Seq(S), s # <<>>
  PROVE  Len(SubSeq(s, 1, Len(s) - 1)) = Len(s) - 1
<1>1. Len(s) \in Nat \ {0}
  OBVIOUS
<1> DEFINE n == Len(s) - 1
<1>2. n \in Nat /\ n <= Len(s)
  BY <1>1
<1> HIDE DEF n
<1>3. Len(SubSeq(s, 1, n)) = n
  BY <1>2
<1> QED
  BY <1>3 DEF n

LEMMA StepOwed ==
  ASSUME Inv, NoSlotLost, Owed, [Next]_vars
  PROVE  Owed'
<1> SUFFICES ASSUME scenario'.faults \subseteq {"again"} PROVE Owed'
  BY DEF Owed
<1> DEFINE Full   == {"unreserve", "wait", "waiting"}
           Asleep == {"reserve", "unreserve", "wait", "waiting"}
           Awake  == {"notify", "woken", "pop"}
           GiveUp == {"evict", "release"}
<1>0. /\ Healthy /\ pc \in [Tasks -> PC] /\ permit \in BOOLEAN
      /\ MaxSize \in Nat /\ Len(idle) \in Nat /\ Used <= MaxSize /\ outstanding \in Int
      /\ Cardinality(SlotHolders) \in Nat /\ Cardinality(Overshoot) \in Nat /\ Used \in Nat
  <2>1. scenario.faults \subseteq {"again"}
    BY DEF Next, vars
  <2>2. /\ Len(idle) \in Nat /\ pc \in [Tasks -> PC] /\ outstanding \in Int /\ Used <= MaxSize
        /\ permit \in BOOLEAN
    BY DEF Inv, TypeOK, SlotsBounded, Used
  <2> QED
    BY <2>1, <2>2, CountsAreNat, PoolAssumption DEF Owed, Used
<1>1. Used = MaxSize => Used' = MaxSize
  <2>1. Used' >= Used /\ Used' <= MaxSize
    BY <1>0, StepSlots DEF Inv, SlotsBounded, Used
  <2>2. Len(idle') \in Nat
    BY StepType DEF Inv, TypeOK
  <2>3. SlotHolders' \subseteq Tasks
    BY DEF SlotHolders
  <2>4. Cardinality(SlotHolders') \in Nat
    BY <2>3, PoolAssumption, FS_Subset, FS_CardinalityType
  <2> QED
    BY <1>0, <2>1, <2>2, <2>4 DEF Used
<1>2. /\ \A u \in Tasks : pc[u] \notin GiveUp /\ (pc[u] \in Full => Used = MaxSize)
      /\ MaxSize > 0 /\ Len(idle) = MaxSize =>
           \A t \in Tasks : pc[t] \in Asleep => permit \/ \E u \in Tasks : pc[u] \in Awake
  BY <1>0 DEF Healthy, Owed
<1> DEFINE Slots == \A u \in Tasks : pc'[u] \notin GiveUp /\ (pc'[u] \in Full => Used = MaxSize)
           Wakes == MaxSize > 0 /\ Len(idle') = MaxSize =>
                      \A t \in Tasks : pc'[t] \in Asleep => permit' \/ \E u \in Tasks : pc'[u] \in Awake
<1>3. ASSUME NEW t \in Tasks, NEW l, pc' = Goto(t, l), l \notin GiveUp, l \in Full => Used = MaxSize
      PROVE  Slots
  BY <1>0, <1>2, <1>3 DEF Goto
<1>4. ASSUME NEW t \in Tasks, NEW l, pc' = Goto(t, l), l \in Awake PROVE Wakes
  BY <1>0, <1>4 DEF Goto
<1>5. ASSUME NEW t \in Tasks, NEW l, pc' = Goto(t, l), UNCHANGED <<idle, permit>>,
             pc[t] \notin Awake, l \in Asleep => pc[t] \in Asleep
      PROVE  Wakes
  <2> SUFFICES ASSUME MaxSize > 0, Len(idle) = MaxSize, NEW s \in Tasks, pc'[s] \in Asleep, ~permit
               PROVE  \E u \in Tasks : pc'[u] \in Awake
    BY <1>5
  <2>1. pc[s] \in Asleep
    BY <1>0, <1>5 DEF Goto
  <2>2. PICK u \in Tasks : pc[u] \in Awake
    BY <1>2, <2>1
  <2>3. pc'[u] = pc[u]
    BY <1>0, <1>5, <2>2 DEF Goto
  <2> QED
    BY <2>2, <2>3
<1>6. ASSUME NEW t \in Tasks, Arrive(t) \/ Resume(t) PROVE Slots /\ Wakes
  BY <1>3, <1>4, <1>6 DEF Arrive, Resume
<1>7. ASSUME NEW t \in Tasks, Recycle(t) \/ DialOk(t) \/ ForwardOk(t) PROVE Slots /\ Wakes
  <2>1. PICK l \in {"ready", "forward", "put"} : pc' = Goto(t, l)
    BY <1>7 DEF Recycle, DialOk, ForwardOk
  <2>2. UNCHANGED <<idle, permit>> /\ pc[t] \notin Awake
    BY <1>7 DEF Recycle, DialOk, ForwardOk
  <2> QED
    BY <1>3, <1>5, <2>1, <2>2
<1>8. ASSUME NEW t \in Tasks, PopIdle(t) PROVE Slots /\ Wakes
  <2>1. CASE idle # <<>>
    <3>1. pc' = Goto(t, "forward") /\ idle' = Rest
      BY <1>8, <2>1 DEF PopIdle
    <3>2. Len(idle') = Len(idle) - 1
      BY Zenon, <2>1, <3>1, RestShorter DEF Inv, TypeOK, Rest
    <3>3. Len(idle') # MaxSize
      BY <1>0, <3>2 DEF Used
    <3> QED
      BY <1>3, <3>1, <3>3
  <2>2. CASE idle = <<>>
    <3>1. pc' = Goto(t, "reserve") /\ idle' = <<>>
      BY <1>8, <2>2 DEF PopIdle
    <3>2. Len(idle') = 0
      BY <3>1
    <3> QED
      BY <1>0, <1>3, <3>1, <3>2
  <2> QED
    BY <2>1, <2>2
<1>9. ASSUME NEW t \in Tasks, Reserve(t) PROVE Slots /\ Wakes
  <2>1. PICK l \in {"dial", "unreserve"} : /\ pc' = Goto(t, l)
                                           /\ l = "unreserve" => ~HasRoom
    BY <1>9 DEF Reserve
  <2>2. UNCHANGED <<idle, permit>> /\ pc[t] = "reserve"
    BY <1>9 DEF Reserve
  <2>3. ~HasRoom => Used = MaxSize
    <3> SUFFICES ASSUME ~HasRoom PROVE Used = MaxSize
      OBVIOUS
    <3>1. ~May("cancel")
      BY <1>0 DEF Healthy, May
    <3>2. Used + Cardinality(Overshoot) >= MaxSize
      BY <1>0, <3>1 DEF HasRoom, NoSlotLost, Used
    <3>3. CASE Overshoot = {}
      BY <1>0, <3>2, <3>3, FS_EmptySet
    <3>4. CASE Overshoot # {}
      BY <1>2, <3>4 DEF Overshoot
    <3> QED
      BY <3>3, <3>4
  <2> QED
    BY <1>3, <1>5, <2>1, <2>2, <2>3
<1>10. ASSUME NEW t \in Tasks, Unreserve(t) PROVE Slots /\ Wakes
  <2>1. pc' = Goto(t, "wait") /\ pc[t] = "unreserve" /\ UNCHANGED <<idle, permit>>
    BY <1>10 DEF Unreserve
  <2> QED
    BY <1>2, <1>3, <1>5, <2>1
<1>11. ASSUME NEW t \in Tasks, Wait(t) PROVE Slots /\ Wakes
  <2>1. CASE permit
    <3>1. pc' = Goto(t, "pop")
      BY <1>11, <2>1 DEF Wait, Permitted
    <3> QED
      BY <1>3, <1>4, <3>1
  <2>2. CASE ~permit
    <3>1. pc' = Goto(t, "waiting") /\ pc[t] = "wait" /\ UNCHANGED <<idle, permit>>
      BY <1>11, <2>2 DEF Wait, Permitted
    <3> QED
      BY <1>2, <1>3, <1>5, <3>1
  <2> QED
    BY <2>1, <2>2
<1>12. ASSUME NEW t \in Tasks, Put(t) PROVE Slots /\ Wakes
  <2>1. t \in SlotHolders
    BY <1>12 DEF Put, SlotHolders
  <2>2. Cardinality(SlotHolders) # 0
    BY <2>1, CountsAreNat, FS_EmptySet
  <2>3. Len(idle) < MaxSize
    BY <1>0, <2>2 DEF Used
  <2>4. pc' = Goto(t, "notify")
    BY <1>12, <2>3 DEF Put, AfterPut
  <2> QED
    BY <1>3, <1>4, <2>4
<1>13. ASSUME NEW t \in Tasks, Notify(t) PROVE Slots /\ Wakes
  <2>1. NotifyOne(Goto(t, "done")) /\ pc[t] = "notify"
    BY <1>13 DEF Notify
  <2>2. CASE waiters = <<>>
    <3>1. pc' = Goto(t, "done") /\ permit' = TRUE
      BY <2>1, <2>2 DEF NotifyOne
    <3> QED
      BY <1>3, <3>1
  <2>3. CASE waiters # <<>>
    <3>1. 1 \in DOMAIN waiters /\ Head(waiters) = waiters[1]
      BY <2>3 DEF Inv, TypeOK
    <3>2. Head(waiters) \in Tasks
      BY <3>1 DEF Inv, NotifyConsistent
    <3>3. pc' = [Goto(t, "done") EXCEPT ![Head(waiters)] = "woken"]
      BY <2>1, <2>3 DEF NotifyOne
    <3>4. /\ pc'[Head(waiters)] = "woken"
          /\ \A u \in Tasks : pc'[u] \in {pc[u], "done", "woken"}
      BY <1>0, <3>2, <3>3 DEF Goto
    <3> QED
      BY <1>2, <3>2, <3>4
  <2> QED
    BY <2>2, <2>3
<1>14. ASSUME NEW t \in Tasks
       PROVE  ~(DialErr(t) \/ ForwardErr(t) \/ Evict(t) \/ Release(t) \/ Cancel(t))
  BY <1>0 DEF DialErr, ForwardErr, Evict, Release, Cancel, CancelRunning, CancelWaiting,
     CancelWoken, Healthy, May
<1>15. ASSUME UNCHANGED vars PROVE Slots /\ Wakes
  BY <1>2, <1>15 DEF vars
<1>16. Slots /\ Wakes
  BY Zenon, <1>6, <1>7, <1>8, <1>9, <1>10, <1>11, <1>12, <1>13, <1>14, <1>15
  DEF Next, TaskNext, ForwardPooled, Get, PutBack
<1> QED
  BY <1>1, <1>16 DEF Owed, Healthy

\* However get and put interleave, as long as nothing fails or is cancelled a task
\* sleeps only while every connection is made, and never without another task that
\* is on its way to notify_one: the single permit of the Notify loses no wake-up that
\* is needed (pool.rs:34-52, 64-68).
THEOREM NoneSleepsAlone == Spec => []WakerOnItsWay
<1>1. Init => Owed
  BY DEF Init, Owed, Healthy
<1>2. Inv /\ NoSlotLost /\ Owed /\ [Next]_vars => Owed'
  BY StepOwed
<1>3. Inv /\ Owed => WakerOnItsWay
  <2> SUFFICES ASSUME Inv, Owed, scenario.faults \subseteq {"again"}, waiters # <<>>
               PROVE  /\ Used = MaxSize
                      /\ MaxSize > 0 => \E t \in Tasks :
                           \/ pc[t] \in {"dial", "forward", "put", "notify"}
                           \/ idle # <<>> /\ pc[t] \in {"woken", "pop"}
    BY DEF WakerOnItsWay, Used
  <2>1. 1 \in DOMAIN waiters
    BY DEF Inv, TypeOK
  <2>2. PICK s \in Tasks : pc[s] = "waiting"
    BY <2>1 DEF Inv, NotifyConsistent
  <2>3. Used = MaxSize /\ ~permit
    BY <2>2 DEF Owed, Inv, NotifyConsistent
  <2>4. CASE SlotHolders = {}
    <3>1. Len(idle) = MaxSize
      BY <2>3, <2>4, FS_EmptySet, PoolAssumption DEF Used, Inv, TypeOK
    <3>2. MaxSize > 0 => idle # <<>>
      BY <3>1
    <3>3. MaxSize > 0 => \E u \in Tasks : pc[u] \in {"notify", "woken", "pop"}
      BY <2>2, <2>3, <3>1 DEF Owed
    <3> QED
      BY <2>3, <3>2, <3>3
  <2>5. CASE SlotHolders # {}
    BY <2>3, <2>5 DEF SlotHolders, Owed, Healthy
  <2> QED
    BY <2>4, <2>5
<1> QED
  BY <1>1, <1>2, <1>3, Safety, ExactCount, PTL DEF Spec

\* An open connection is in one place: once in the idle stack, or with one task
\* that is between get and put.
OnePlace ==
  /\ \A i, j \in DOMAIN idle : idle[i] = idle[j] => i = j
  /\ \A t \in Tasks : conn[t] # NoConn =>
       /\ pc[t] \in {"forward", "put", "evict"}
       /\ conn[t] \notin IdleConns
  /\ \A t, u \in Tasks : conn[t] = conn[u] /\ conn[t] # NoConn => t = u

-----------------------------------------------------------------------------
(* What pop and push do to the idle connections. *)

LEMMA PopTakesTop ==
  ASSUME idle \in Seq(Conns), idle # <<>>,
         \A i, j \in DOMAIN idle : idle[i] = idle[j] => i = j, idle' = Rest
  PROVE  /\ idle[Len(idle)] \in IdleConns
         /\ IdleConns' = IdleConns \ {idle[Len(idle)]}
         /\ \A i, j \in DOMAIN idle' : idle'[i] = idle'[j] => i = j
<1>1. Len(idle) \in Nat \ {0} /\ DOMAIN idle = 1 .. Len(idle)
  OBVIOUS
<1>2. /\ DOMAIN idle' = 1 .. Len(idle) - 1
      /\ \A i \in 1 .. Len(idle) - 1 : idle'[i] = idle[i]
  BY <1>1 DEF Rest
<1> QED
  BY <1>1, <1>2 DEF IdleConns

LEMMA PushAddsOne ==
  ASSUME idle \in Seq(Conns), NEW c \in Conns, c \notin IdleConns,
         \A i, j \in DOMAIN idle : idle[i] = idle[j] => i = j, idle' = Append(idle, c)
  PROVE  /\ IdleConns' = IdleConns \cup {c}
         /\ \A i, j \in DOMAIN idle' : idle'[i] = idle'[j] => i = j
<1>1. Len(idle) \in Nat /\ DOMAIN idle = 1 .. Len(idle)
  OBVIOUS
<1>2. /\ DOMAIN idle' = 1 .. Len(idle) + 1 /\ idle'[Len(idle) + 1] = c
      /\ \A i \in 1 .. Len(idle) : idle'[i] = idle[i]
  BY <1>1
<1> QED
  BY <1>1, <1>2 DEF IdleConns

-----------------------------------------------------------------------------
LEMMA InitOnePlace == Init => OnePlace
  BY DEF Init, OnePlace

\* A step that leaves the connections where they are.
LEMMA OnePlaceKept ==
  ASSUME OnePlace, UNCHANGED <<idle, conn>>,
         \A t \in Tasks : pc[t] \in {"forward", "put", "evict"} => pc'[t] \in {"forward", "put", "evict"}
  PROVE  OnePlace'
  BY DEF OnePlace, IdleConns

\* A step in which task t, and no other, loses its connection.
LEMMA OnePlaceLost ==
  ASSUME TypeOK, OnePlace, NEW t \in Tasks, idle' = idle, conn' = [conn EXCEPT ![t] = NoConn],
         \A s \in Tasks \ {t} : pc'[s] = pc[s]
  PROVE  OnePlace'
<1>1. /\ conn'[t] = NoConn /\ IdleConns' = IdleConns
      /\ \A s \in Tasks \ {t} : conn'[s] = conn[s]
  BY DEF TypeOK, IdleConns
<1> QED
  BY <1>1 DEF OnePlace

LEMMA StepOnePlace == Inv /\ OnePlace /\ [Next]_vars => OnePlace'
<1> SUFFICES ASSUME TypeOK, ConnOwned, NotifyConsistent, OnePlace, [Next]_vars PROVE OnePlace'
  BY DEF Inv
<1> DEFINE Held == {"forward", "put", "evict"}
<1>1. CASE UNCHANGED vars
  BY <1>1, OnePlaceKept DEF vars
<1>2. ASSUME NEW t \in Tasks, PopIdle(t), idle # <<>> PROVE OnePlace'
  <2>1. /\ conn' = [conn EXCEPT ![t] = idle[Len(idle)]] /\ idle' = Rest
        /\ pc' = Goto(t, "forward") /\ pc[t] = "pop"
    BY <1>2 DEF PopIdle
  <2>2. /\ idle[Len(idle)] \in IdleConns /\ IdleConns' = IdleConns \ {idle[Len(idle)]}
        /\ \A i, j \in DOMAIN idle' : idle'[i] = idle'[j] => i = j
    BY <1>2, <2>1, PopTakesTop DEF TypeOK, OnePlace
  <2>3. /\ conn'[t] = idle[Len(idle)] /\ pc'[t] = "forward"
        /\ \A s \in Tasks \ {t} : conn'[s] = conn[s] /\ pc'[s] = pc[s]
    BY <2>1 DEF TypeOK, Goto
  <2> QED
    BY <2>2, <2>3 DEF OnePlace
<1>3. ASSUME NEW t \in Tasks, DialOk(t) PROVE OnePlace'
  <2>1. PICK c \in Conns \ Open : conn' = [conn EXCEPT ![t] = c]
    BY Zenon, <1>3 DEF DialOk
  <2>2. /\ conn'[t] = c /\ pc'[t] = "forward" /\ idle' = idle /\ IdleConns' = IdleConns
        /\ \A s \in Tasks \ {t} : conn'[s] = conn[s] /\ pc'[s] = pc[s]
    BY <1>3, <2>1 DEF DialOk, TypeOK, Goto, IdleConns
  <2>3. c \notin IdleConns /\ \A s \in Tasks : conn[s] # NoConn => conn[s] # c
    BY <2>1 DEF Open
  <2> QED
    BY <2>2, <2>3 DEF OnePlace
<1>4. ASSUME NEW t \in Tasks, Put(t), Len(idle) < MaxSize PROVE OnePlace'
  <2>1. /\ idle' = Append(idle, conn[t]) /\ conn' = [conn EXCEPT ![t] = NoConn]
        /\ pc' = Goto(t, "notify") /\ pc[t] = "put"
    BY <1>4 DEF Put, AfterPut
  <2>2. conn[t] \in Conns /\ conn[t] # NoConn /\ conn[t] \notin IdleConns
    BY <2>1, PoolAssumption DEF ConnOwned, OnePlace
  <2>3. /\ IdleConns' = IdleConns \cup {conn[t]}
        /\ \A i, j \in DOMAIN idle' : idle'[i] = idle'[j] => i = j
    BY <2>1, <2>2, PushAddsOne DEF TypeOK, OnePlace
  <2>4. /\ conn'[t] = NoConn
        /\ \A s \in Tasks \ {t} : conn'[s] = conn[s] /\ pc'[s] = pc[s]
    BY <2>1 DEF TypeOK, Goto
  <2> QED
    BY <2>2, <2>3, <2>4 DEF OnePlace
<1>5. ASSUME NEW t \in Tasks, Evict(t) \/ CancelRunning(t) PROVE OnePlace'
  BY <1>5, OnePlaceLost DEF Evict, CancelRunning, Goto, TypeOK
\* The remaining steps move no connection, and no task out of Held.
<1>6. ASSUME NEW t \in Tasks, NEW l \in PC, pc' = Goto(t, l), UNCHANGED <<idle, conn>>,
             pc[t] \in Held => l \in Held
      PROVE  OnePlace'
  BY <1>6, OnePlaceKept DEF Goto, TypeOK
<1>7. ASSUME NEW t \in Tasks, Arrive(t) \/ Resume(t) \/ Recycle(t) \/ CancelWaiting(t) PROVE OnePlace'
  BY Zenon, <1>6, <1>7 DEF Arrive, Resume, Recycle, CancelWaiting, PC
<1>8. ASSUME NEW t \in Tasks, PopIdle(t), idle = <<>> PROVE OnePlace'
  BY <1>6, <1>8 DEF PopIdle, PC
<1>9. ASSUME NEW t \in Tasks, Reserve(t) PROVE OnePlace'
  BY <1>6, <1>9 DEF Reserve, PC
<1>10. ASSUME NEW t \in Tasks, DialErr(t) \/ Unreserve(t) \/ Release(t) PROVE OnePlace'
  BY <1>6, <1>10 DEF DialErr, Unreserve, Release, PC
<1>11. ASSUME NEW t \in Tasks, Wait(t) PROVE OnePlace'
  BY <1>6, <1>11 DEF Wait, PC
<1>12. ASSUME NEW t \in Tasks, ForwardOk(t) \/ ForwardErr(t) PROVE OnePlace'
  BY <1>6, <1>12 DEF ForwardOk, ForwardErr, PC
<1>13. ASSUME NEW t \in Tasks, Put(t), ~(Len(idle) < MaxSize) PROVE OnePlace'
  BY <1>6, <1>13 DEF Put, PC
<1>14. ASSUME NEW t \in Tasks, Notify(t) \/ CancelWoken(t) PROVE OnePlace'
  <2>1. NotifyOne(Goto(t, "done")) /\ UNCHANGED <<idle, conn>> /\ pc[t] \notin Held
    BY <1>14 DEF Notify, CancelWoken
  <2>2. CASE waiters = <<>>
    BY <1>6, <2>1, <2>2 DEF NotifyOne, PC
  <2>3. CASE waiters # <<>>
    <3>1. Head(waiters) \in Tasks /\ pc[Head(waiters)] = "waiting"
      <4>1. 1 \in DOMAIN waiters /\ Head(waiters) = waiters[1]
        BY <2>3 DEF TypeOK
      <4> QED
        BY <4>1 DEF NotifyConsistent
    <3>2. pc' = [Goto(t, "done") EXCEPT ![Head(waiters)] = "woken"]
      BY <2>1, <2>3 DEF NotifyOne
    <3>3. \A s \in Tasks : pc[s] \in Held => pc'[s] = pc[s]
      BY <2>1, <3>1, <3>2 DEF Goto, TypeOK
    <3> QED
      BY <2>1, <3>3, OnePlaceKept
  <2> QED
    BY <2>2, <2>3
<1> QED
  BY <1>1, <1>2, <1>3, <1>4, <1>5, <1>7, <1>8, <1>9, <1>10, <1>11, <1>12, <1>13, <1>14
  DEF Next, TaskNext, ForwardPooled, Get, PutBack, Cancel

-----------------------------------------------------------------------------
(* A dialing task finds room in the abstract pool. *)

LEMMA DialingHasRoom ==
  ASSUME Inv, OnePlace, NEW t \in Tasks, pc[t] = "dial"
  PROVE  IsFiniteSet(Open) /\ Cardinality(Open) < MaxSize
<1> DEFINE Holding == {s \in Tasks : conn[s] # NoConn}
           InHand  == {conn[s] : s \in Tasks} \ {NoConn}
           take    == [s \in Holding |-> conn[s]]
<1>1. idle \in Seq(Conns) /\ Len(idle) \in Nat
  BY DEF Inv, TypeOK
<1>2. IsFiniteSet(IdleConns) /\ Cardinality(IdleConns) <= Len(idle) /\ Cardinality(IdleConns) \in Nat
  <2>1. IsFiniteSet(1 .. Len(idle)) /\ Cardinality(1 .. Len(idle)) = Len(idle)
    BY SMTT(30), <1>1, FS_Interval
  <2>2. idle \in Surjection(1 .. Len(idle), IdleConns)
    BY <1>1 DEF Surjection, IdleConns
  <2> QED
    BY <2>1, <2>2, FS_Surjection, FS_CardinalityType
<1>3. IsFiniteSet(Holding) /\ Cardinality(Holding) <= Cardinality(SlotHolders) - 1
      /\ Cardinality(Holding) \in Nat /\ Cardinality(SlotHolders) \in Nat
  <2>1. IsFiniteSet(SlotHolders) /\ t \in SlotHolders
    BY PoolAssumption, FS_Subset DEF SlotHolders
  <2>2. Holding \subseteq SlotHolders \ {t}
    BY DEF OnePlace, SlotHolders
  <2>3. IsFiniteSet(SlotHolders \ {t}) /\ Cardinality(SlotHolders \ {t}) = Cardinality(SlotHolders) - 1
    BY <2>1, FS_RemoveElement
  <2> QED
    BY <2>1, <2>2, <2>3, FS_Subset, FS_CardinalityType
<1>4. IsFiniteSet(InHand) /\ Cardinality(InHand) <= Cardinality(Holding) /\ Cardinality(InHand) \in Nat
  <2>1. take \in Surjection(Holding, InHand)
    BY DEF Surjection
  <2> QED
    BY <1>3, <2>1, FS_Surjection, FS_CardinalityType
<1>5. IsFiniteSet(Open) /\ Cardinality(Open) <= Cardinality(IdleConns) + Cardinality(InHand)
      /\ Cardinality(Open) \in Nat
  <2>1. Open = IdleConns \cup InHand
    BY DEF Open
  <2>2. Cardinality(IdleConns \cap InHand) \in Nat
    BY <1>2, FS_Subset, FS_CardinalityType, IdleConns \cap InHand \in SUBSET IdleConns
  <2>3. IsFiniteSet(Open)
        /\ Cardinality(Open) = Cardinality(IdleConns) + Cardinality(InHand) - Cardinality(IdleConns \cap InHand)
    BY Zenon, <1>2, <1>4, <2>1, FS_Union
  <2> HIDE DEF InHand
  <2> QED
    BY <1>2, <1>4, <2>2, <2>3, FS_CardinalityType
<1>6. Len(idle) + Cardinality(SlotHolders) <= MaxSize
  BY DEF Inv, SlotsBounded
<1> HIDE DEF InHand, Holding
<1> QED
  BY <1>1, <1>2, <1>3, <1>4, <1>5, <1>6, PoolAssumption

-----------------------------------------------------------------------------
LEMMA InitRefines == Init => Abstract!Init
  BY DEF Init, Abstract!Init, IdleConns

LEMMA StepRefines == Inv /\ OnePlace /\ [Next]_vars => [Abstract!Next]_(Abstract!vars)
<1> SUFFICES ASSUME Inv, OnePlace, [Next]_vars PROVE Abstract!Next \/ UNCHANGED Abstract!vars
  OBVIOUS
<1>0. TypeOK /\ ConnOwned
  BY DEF Inv
<1>1. ASSUME UNCHANGED <<idle, conn>> PROVE UNCHANGED Abstract!vars
  BY <1>1 DEF Abstract!vars, IdleConns
<1>2. ASSUME NEW t \in Tasks, PopIdle(t), idle # <<>> PROVE Abstract!Next
  <2>1. /\ conn' = [conn EXCEPT ![t] = idle[Len(idle)]] /\ idle' = Rest /\ pc[t] = "pop"
    BY <1>2 DEF PopIdle
  <2>2. /\ idle[Len(idle)] \in IdleConns /\ IdleConns' = IdleConns \ {idle[Len(idle)]}
    BY <1>0, <1>2, <2>1, PopTakesTop DEF TypeOK, OnePlace
  <2>3. idle[Len(idle)] \in Conns
    BY <1>0, <1>2 DEF TypeOK
  <2>4. conn[t] = NoConn
    BY <2>1 DEF OnePlace
  <2>5. Abstract!Reuse(t, idle[Len(idle)])
    BY <2>1, <2>2, <2>4 DEF Abstract!Reuse
  <2> QED
    BY <2>3, <2>5 DEF Abstract!Next
<1>3. ASSUME NEW t \in Tasks, DialOk(t) PROVE Abstract!Next
  <2>1. PICK c \in Conns \ Open : conn' = [conn EXCEPT ![t] = c]
    BY Zenon, <1>3 DEF DialOk
  <2>2. conn[t] = NoConn /\ IdleConns' = IdleConns
    BY <1>3 DEF DialOk, OnePlace, IdleConns
  <2>3. Cardinality(Open) < MaxSize
    BY <1>3, DialingHasRoom DEF DialOk
  <2>4. Abstract!Open = Open
    BY DEF Abstract!Open, Abstract!InUse, Open
  <2>5. \A S : Abstract!Cardinality(S) = Cardinality(S)
    BY DEF Abstract!Cardinality, Cardinality
  <2>6. Abstract!Dial(t, c)
    BY <2>1, <2>2, <2>3, <2>4, <2>5 DEF Abstract!Dial
  <2> QED
    BY <2>6 DEF Abstract!Next
<1>4. ASSUME NEW t \in Tasks, Put(t), Len(idle) < MaxSize PROVE Abstract!Next
  <2>1. /\ idle' = Append(idle, conn[t]) /\ conn' = [conn EXCEPT ![t] = NoConn] /\ pc[t] = "put"
    BY <1>4 DEF Put
  <2>2. conn[t] \in Conns /\ conn[t] # NoConn /\ conn[t] \notin IdleConns
    BY <1>0, <2>1, PoolAssumption DEF ConnOwned, OnePlace
  <2>3. IdleConns' = IdleConns \cup {conn[t]}
    BY <1>0, <2>1, <2>2, PushAddsOne DEF TypeOK, OnePlace
  <2> QED
    BY Zenon, <2>1, <2>2, <2>3 DEF Abstract!Return, Abstract!Next
<1>5. ASSUME NEW t \in Tasks, Evict(t) \/ CancelRunning(t) PROVE Abstract!Next \/ UNCHANGED Abstract!vars
  <2>1. conn' = [conn EXCEPT ![t] = NoConn] /\ IdleConns' = IdleConns /\ idle' = idle
    BY <1>5 DEF Evict, CancelRunning, IdleConns
  <2>2. CASE conn[t] = NoConn
    BY <1>0, <1>1, <2>1, <2>2 DEF TypeOK
  <2>3. CASE conn[t] # NoConn
    BY Zenon, <2>1, <2>3 DEF Abstract!Close, Abstract!Next
  <2> QED
    BY <2>2, <2>3
<1>6. ASSUME NEW t \in Tasks, \/ Arrive(t) \/ Reserve(t) \/ DialErr(t) \/ Unreserve(t) \/ Wait(t)
                              \/ Resume(t) \/ ForwardOk(t) \/ ForwardErr(t) \/ Release(t)
                              \/ Notify(t) \/ CancelWaiting(t) \/ CancelWoken(t) \/ Recycle(t)
      PROVE  UNCHANGED Abstract!vars
  BY Zenon, <1>1, <1>6 DEF Arrive, Reserve, DialErr, Unreserve, Wait, Resume, ForwardOk, ForwardErr,
     Release, Notify, CancelWaiting, CancelWoken, Recycle
<1>7. ASSUME NEW t \in Tasks, PopIdle(t), idle = <<>> PROVE UNCHANGED Abstract!vars
  BY Zenon, <1>1, <1>7 DEF PopIdle
<1>8. ASSUME NEW t \in Tasks, Put(t), ~(Len(idle) < MaxSize) PROVE UNCHANGED Abstract!vars
  BY <1>1, <1>8 DEF Put
<1>9. CASE UNCHANGED vars
  BY <1>1, <1>9 DEF vars
<1> QED
  BY <1>2, <1>3, <1>4, <1>5, <1>6, <1>7, <1>8, <1>9
  DEF Next, TaskNext, ForwardPooled, Get, PutBack, Cancel

\* The Rust pool implements the abstract pool: a connection serves one request
\* at a time, a request leaves only with a connection nobody else uses, and at
\* most max_size are open (pool.rs:31-108).
THEOREM Refinement == Spec => ImplementsBoundedPool
<1>1. Inv /\ OnePlace /\ [Next]_vars => OnePlace'
  BY StepOnePlace
<1>2. Spec => []OnePlace
  BY <1>1, InitOnePlace, Safety, PTL DEF Spec
<1> QED
  BY <1>2, Safety, InitRefines, StepRefines, PTL DEF Spec, ImplementsBoundedPool, Abstract!Spec
=============================================================================
