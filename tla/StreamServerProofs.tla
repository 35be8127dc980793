------------------------- MODULE StreamServerProofs -------------------------
(***************************************************************************)
(* Proofs about the modes without a worker pool, for any finite set of     *)
(* requests spread in any way over any set of connections: what a handler  *)
(* that is dropped, fails, panics or loses its client leaves in the        *)
(* selector's gauge and in the pool.                                       *)
(*                                                                         *)
(* The gauge is inductive by itself.  For the pool's connections the       *)
(* invariant also has that no handler without a pool waits for one         *)
(* (SlotsExact).                                                           *)
(***************************************************************************)
EXTENDS StreamServer, FiniteSetTheorems, TLAPS

\* The handlers between next() and release(), those that ended there included, and
\* those that use a connection or have lost it.
Holding == {r \in Requests : pc[r] \in {"get", "forward", "dropped", "leaked"}}
Using == {r \in Requests : pc[r] \in {"forward", "leaked"}}

\* A forwarder without a pool takes no slots.
SlotsExact ==
  /\ UsesPool => slots = Cardinality(Using)
  /\ ~UsesPool => slots = 0 /\ \A r \in Requests : pc[r] # "get"

GaugeCounts == inflight = Cardinality(Holding)

Inv == TypeOK /\ GaugeCounts /\ SlotsExact

-----------------------------------------------------------------------------
(* Steps, by what they touch. *)

\* The steps of clients and accept loops, which touch no handler.
Outside ==
  \/ AcceptError
  \/ \E k \in Links : Accept(k) \/ EndLink(k) \/ Leave(k)
  \/ \E r \in Requests : Ask(r) \/ FinishAsking(r) \/ Reset(r)

LEMMA NextCases ==
  ASSUME Next
  PROVE  /\ UNCHANGED <<mode, of>>
         /\ \/ Outside
            \/ \E r \in Requests : \/ Start(r) \/ ReadErr(r) \/ ReadOk(r) \/ Get(r)
                                   \/ \E got \in {"good", "odd", "error"} : ForwardEnd(r, got)
                                   \/ ReadPanic(r) \/ ForwardPanic(r) \/ Reply(r) \/ Drop(r)
  BY StreamAssumption DEF Next, Step, Handler, Client, On, Outside, AllOutcomes

LEMMA OutsideHandlers ==
  ASSUME Outside PROVE UNCHANGED <<pc, answer, inflight, slots>>
  BY DEF Outside, AcceptError, Accept, EndLink, Leave, Ask, FinishAsking, Reset, held

LEMMA OneMore ==
  ASSUME NEW S \in SUBSET Requests, NEW r \in Requests, r \notin S
  PROVE  Cardinality(S \cup {r}) = Cardinality(S) + 1 /\ Cardinality(S) \in Nat
  BY StreamAssumption, FS_Subset, FS_AddElement, FS_CardinalityType

LEMMA OneLess ==
  ASSUME NEW S \in SUBSET Requests, NEW r \in S
  PROVE  /\ Cardinality(S \ {r}) = Cardinality(S) - 1
         /\ Cardinality(S) \in Nat /\ Cardinality(S) >= 1
<1>1. IsFiniteSet(S) /\ IsFiniteSet(S \ {r})
  BY StreamAssumption, FS_Subset
<1>2. Cardinality(S \ {r}) = Cardinality(S) - 1
  BY <1>1, FS_RemoveElement
<1> QED
  BY <1>1, <1>2, FS_CardinalityType

-----------------------------------------------------------------------------
LEMMA InitInv == Init => Inv
<1> SUFFICES ASSUME Init PROVE Inv
  OBVIOUS
<1>1. TypeOK
  BY StreamAssumption DEF Init, TypeOK
<1>2. Holding = {} /\ Using = {}
  BY DEF Init, Holding, Using
<1>3. GaugeCounts /\ SlotsExact
  BY <1>2, FS_EmptySet DEF Init, GaugeCounts, SlotsExact
<1> QED
  BY <1>1, <1>3 DEF Inv

\* The counters: the gauge and the pool's slots.
LEMMA StepCounts ==
  ASSUME Inv, Next
  PROVE  GaugeCounts' /\ SlotsExact' /\ inflight' \in Nat /\ slots' \in 0 .. PoolSize
<1> DEFINE Goal == GaugeCounts' /\ SlotsExact' /\ inflight' \in Nat /\ slots' \in 0 .. PoolSize
<1>0. /\ inflight \in Nat /\ slots \in 0 .. PoolSize /\ PoolSize \in Nat /\ DOMAIN pc = Requests
      /\ GaugeCounts /\ SlotsExact
  BY StreamAssumption DEF Inv, TypeOK
<1>1. UNCHANGED mode /\ (UsesPool' <=> UsesPool)
  BY NextCases DEF UsesPool
<1>2. ASSUME UNCHANGED <<inflight, slots>>, Holding' = Holding, Using' = Using,
             \A r \in Requests : pc'[r] = "get" => pc[r] = "get"
      PROVE  Goal
  BY <1>0, <1>1, <1>2 DEF GaugeCounts, SlotsExact
<1>3. CASE Outside
  <2>1. UNCHANGED <<pc, inflight, slots>>
    BY <1>3, OutsideHandlers
  <2> QED
    BY <1>2, <2>1 DEF Holding, Using
<1>4. ASSUME NEW r \in Requests, Start(r) \/ ReadErr(r) \/ ReadPanic(r) \/ Reply(r)
      PROVE  Goal
  <2>1. UNCHANGED <<inflight, slots>> /\ pc[r] \notin {"get", "forward", "dropped", "leaked"}
    BY <1>4 DEF Start, ReadErr, ReadPanic, Panic, Reply, held
  <2>2. PICK l \in {"read", "done", "failed"} : pc' = [pc EXCEPT ![r] = l]
    BY <1>4 DEF Start, ReadErr, ReadPanic, Panic, Reply, Over, Goto
  <2>3. Holding' = Holding /\ Using' = Using
    BY <1>0, <2>1, <2>2 DEF Holding, Using
  <2> QED
    BY <1>0, <1>2, <2>1, <2>2, <2>3
<1>5. ASSUME NEW r \in Requests, ReadOk(r)
      PROVE  Goal
  <2>1. /\ inflight' = inflight + 1 /\ UNCHANGED slots /\ pc[r] = "read"
        /\ pc' = [pc EXCEPT ![r] = IF UsesPool THEN "get" ELSE "forward"]
    BY <1>5 DEF ReadOk, Goto
  <2>2. Holding' = Holding \cup {r} /\ r \notin Holding
    BY <1>0, <2>1 DEF Holding
  <2>3. Cardinality(Holding') = Cardinality(Holding) + 1
    BY <2>2, OneMore DEF Holding
  <2>4. UsesPool => Using' = Using
    BY <1>0, <2>1 DEF Using
  <2>5. ~UsesPool => \A s \in Requests : pc'[s] # "get"
    BY <1>0, <2>1 DEF SlotsExact
  <2> QED
    BY <1>0, <1>1, <2>1, <2>3, <2>4, <2>5 DEF GaugeCounts, SlotsExact
<1>6. ASSUME NEW r \in Requests, Get(r)
      PROVE  Goal
  <2>1. /\ UNCHANGED inflight /\ slots < PoolSize /\ slots' = slots + 1 /\ pc[r] = "get"
        /\ pc' = [pc EXCEPT ![r] = "forward"]
    BY <1>6 DEF Get, Goto
  <2>2. Holding' = Holding
    BY <1>0, <2>1 DEF Holding
  <2>3. Using' = Using \cup {r} /\ r \notin Using
    BY <1>0, <2>1 DEF Using
  <2>4. Cardinality(Using') = Cardinality(Using) + 1 /\ Cardinality(Using) \in Nat
    BY <2>3, OneMore DEF Using
  <2>5. UsesPool
    BY <1>0, <2>1 DEF SlotsExact
  <2> QED
    BY <1>0, <1>1, <2>1, <2>2, <2>4, <2>5 DEF GaugeCounts, SlotsExact
<1>7. ASSUME NEW r \in Requests, NEW got \in {"good", "odd", "error"}, ForwardEnd(r, got)
      PROVE  Goal
  <2>1. /\ inflight' = inflight - 1 /\ pc[r] = "forward"
        /\ slots' = IF UsesPool THEN slots - 1 ELSE slots
    BY <1>7 DEF ForwardEnd, GivenBack
  <2>2. pc' = [pc EXCEPT ![r] = got]
    BY <1>7 DEF ForwardEnd, Goto
  <2>3. /\ Holding' = Holding \ {r} /\ r \in Holding
        /\ Using' = Using \ {r} /\ r \in Using
    BY <1>0, <2>1, <2>2 DEF Holding, Using
  <2>4. /\ Cardinality(Holding') = Cardinality(Holding) - 1
        /\ Cardinality(Using') = Cardinality(Using) - 1
        /\ Cardinality(Holding) >= 1 /\ Cardinality(Using) >= 1
        /\ Cardinality(Holding) \in Nat /\ Cardinality(Using) \in Nat
    <3>1. Holding \in SUBSET Requests /\ Using \in SUBSET Requests
      BY DEF Holding, Using
    <3> QED
      BY <2>3, <3>1, OneLess
  <2>5. \A s \in Requests : pc'[s] = "get" => pc[s] = "get"
    BY <1>0, <2>2
  <2> QED
    BY <1>0, <1>1, <2>1, <2>4, <2>5 DEF GaugeCounts, SlotsExact
<1>8. ASSUME NEW r \in Requests, Drop(r) \/ ForwardPanic(r)
      PROVE  Goal
  <2>1. /\ UNCHANGED <<inflight, slots>> /\ pc[r] \in {"get", "forward"}
        /\ pc' = [pc EXCEPT ![r] = IF pc[r] = "forward" THEN "leaked" ELSE "dropped"]
    BY <1>8 DEF Drop, ForwardPanic, Panic, Over, Goto, held
  <2>2. Holding' = Holding /\ Using' = Using
    BY <1>0, <2>1 DEF Holding, Using
  <2>3. \A s \in Requests : pc'[s] = "get" => pc[s] = "get"
    BY <1>0, <2>1
  <2> QED
    BY <1>2, <2>1, <2>2, <2>3
<1> QED
  BY <1>3, <1>4, <1>5, <1>6, <1>7, <1>8, NextCases

LEMMA StepType ==
  ASSUME Inv, Next
  PROVE  TypeOK'
<1>0. TypeOK /\ of \in [Requests -> Links]
  BY StreamAssumption DEF Inv, TypeOK
<1>1. mode' \in Modes /\ of' \in Layouts /\ inflight' \in Nat /\ slots' \in 0 .. PoolSize
  BY <1>0, StepCounts, NextCases DEF TypeOK
<1>2. CASE Outside
  <2>1. UNCHANGED <<pc, answer>>
    BY <1>2, OutsideHandlers
  <2> DEFINE Typed == /\ alive' \in BOOLEAN /\ gone' \subseteq Links
                      /\ link' \in [Links -> {"waiting", "open", "closed"}]
                      /\ sent' \in [Requests -> {"no", "part", "all", "bad", "over", "reset"}]
  <2>2. Typed
    <3>1. CASE AcceptError
      BY Zenon, <1>0, <3>1 DEF TypeOK, AcceptError
    <3>2. ASSUME NEW k \in Links, Accept(k) \/ EndLink(k) \/ Leave(k)
          PROVE  Typed
      BY <1>0, <3>2 DEF TypeOK, Accept, EndLink, Leave, ServeHttp, ServeHttp2, ServeGrpc, ServeQuic,
                        ServeHttp3, Opened, Refused
    <3>3. ASSUME NEW r \in Requests, Ask(r) \/ FinishAsking(r) \/ Reset(r)
          PROVE  Typed
      BY <1>0, <3>3 DEF TypeOK, Ask, FinishAsking, Reset
    <3> QED
      BY <1>2, <3>1, <3>2, <3>3 DEF Outside
  <2> QED
    BY <1>0, <1>1, <2>1, <2>2 DEF TypeOK
<1>3. ASSUME NEW r \in Requests,
             \/ Start(r) \/ ReadErr(r) \/ ReadPanic(r) \/ ReadOk(r) \/ Get(r)
             \/ \E got \in {"good", "odd", "error"} : ForwardEnd(r, got)
             \/ ForwardPanic(r) \/ Reply(r) \/ Drop(r)
      PROVE  TypeOK'
  <2>1. UNCHANGED <<gone, sent>> /\ alive' \in BOOLEAN
    BY Zenon, <1>0, <1>3 DEF Start, ReadErr, ReadPanic, Panic, ReadOk, Get, ForwardEnd, ForwardPanic, Reply, Drop, TypeOK
  <2>2. \E l \in {"read", "get", "forward", "good", "odd", "error", "done", "failed", "dropped", "leaked"} :
           pc' = [pc EXCEPT ![r] = l]
    BY <1>3 DEF Start, ReadErr, ReadPanic, Panic, ReadOk, Get, ForwardEnd, ForwardPanic, Reply, Drop, Over, Goto
  <2>3. link' = link \/ link' = [link EXCEPT ![of[r]] = "closed"]
    BY <1>3 DEF Start, ReadErr, ReadPanic, Panic, ReadOk, Get, ForwardEnd, ForwardPanic, Reply, Drop, Over
  <2>4. \/ answer' = answer
        \/ \E told \in {"cut", Refusal} : answer' = [answer EXCEPT ![r] = told]
        \/ pc[r] \in {"good", "odd", "error"} /\ answer' = [answer EXCEPT ![r] = Says(pc[r])]
    BY <1>3 DEF Start, ReadErr, ReadPanic, Panic, ReadOk, Get, ForwardEnd, ForwardPanic, Reply, Drop, Tell
  <2>5. Refusal \in {"400", "unavailable", "cut"}
    BY DEF Refusal
  <2>6. \A got \in {"good", "odd", "error"} : Says(got) \in {"response", "502", "unavailable", "empty", "cut"}
    <3>1. mode \in Tcp \/ mode \in {"http2", "grpc", "quic", "http3"}
      BY <1>0, StreamAssumption DEF TypeOK, Quic, Dropping
    <3> QED
      BY <3>1 DEF Says, HandleConnSays, HyperSays, EchoSays, QuicSays, Http3Says, Tcp
  <2>7. answer' \in [Requests -> {"none", "response", "400", "502", "unavailable", "empty", "cut"}]
    BY <1>0, <2>4, <2>5, <2>6 DEF TypeOK
  <2>8. pc' \in [Requests -> {"none", "read", "get", "forward", "good", "odd", "error",
                              "done", "failed", "dropped", "leaked"}]
    BY <1>0, <2>2 DEF TypeOK
  <2>9. link' \in [Links -> {"waiting", "open", "closed"}]
    BY <1>0, <2>3 DEF TypeOK
  <2> QED
    BY <1>0, <1>1, <2>1, <2>7, <2>8, <2>9 DEF TypeOK
<1> QED
  BY <1>2, <1>3, NextCases

-----------------------------------------------------------------------------
(* The theorems. *)

\* The invariant holds in every reachable state.
THEOREM Safety == Spec => []Inv
<1>1. Init => Inv
  BY InitInv
<1>2. Inv /\ [Next]_vars => Inv'
  <2>1. ASSUME Inv, Next PROVE Inv'
    BY <2>1, StepType, StepCounts DEF Inv
  <2>2. ASSUME Inv, UNCHANGED vars PROVE Inv'
    BY <2>2 DEF Inv, vars, TypeOK, GaugeCounts, SlotsExact, Holding, Using, UsesPool
  <2> QED
    BY <2>1, <2>2
<1> QED
  BY <1>1, <1>2, PTL DEF Spec

\* The state stays of its type; in particular put never takes the pool's count
\* below zero, nor get above its bound, though handlers that were dropped or have
\* panicked never call put (pool.rs:31-75).
THEOREM TypeCorrect == Spec => []TypeOK
<1>1. Inv => TypeOK
  BY DEF Inv
<1> QED
  BY <1>1, Safety, PTL

\* In every mode, however requests are spread over connections and wherever
\* clients leave, the gauge and the pool hold what the handlers at work hold and
\* what those took with them that were dropped or panicked (proxy_http.rs:29-31,
\* 192-201, grpc_proxy.rs:35-54, quic_proxy/mod.rs:73-91, 189-203, pool.rs:97-107).
THEOREM HoldsExactly == Spec => []HeldExactly
<1>1. Inv => HeldExactly
  BY DEF Inv, GaugeCounts, SlotsExact, HeldExactly, In, Holding, Using
<1> QED
  BY <1>1, Safety, PTL
=============================================================================
