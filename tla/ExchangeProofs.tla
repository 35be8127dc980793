--------------------------- MODULE ExchangeProofs ---------------------------
(***************************************************************************)
(* Proofs about the exchanges with an upstream, for any finite set of      *)
(* requests, any set of connections and any size of the pool, whatever the *)
(* shape of the responses and wherever the upstream closes.                *)
(*                                                                         *)
(* That one close fails one request needs every open connection to be in   *)
(* one place (OnePlace), and a connection that failed a request to be in   *)
(* none (FailedDropped).  That the pool stays within its size needs the    *)
(* connections lent to be counted with the idle ones (Room).               *)
(***************************************************************************)
EXTENDS Exchange, FiniteSetTheorems, TLAPS

IdleConns == {idle[i] : i \in DOMAIN idle}

\* A connection that is in use is with one request, or once in the pool.
OnePlace ==
  /\ \A i, j \in DOMAIN idle : idle[i] = idle[j] => i = j
  /\ \A c \in IdleConns : state[c] \in {"open", "closed"}
  /\ \A r \in Active : /\ conn[r] \in Conns \ IdleConns
                       /\ state[conn[r]] \in {"open", "closed"}
  /\ \A r, s \in Active : conn[r] = conn[s] => r = s

\* A connection on which a request failed is dropped.
FailedDropped == \A r \in Requests : pc[r] = "err" => conn[r] \in Conns /\ state[conn[r]] = "dropped"

\* The pool is not used, or its connections are within its size.
Room ==
  IF forwarder = "Pool" THEN Cardinality(Active) + Len(idle) <= MaxSize ELSE idle = <<>>

Inv ==
  /\ TypeOK
  /\ OnePlace
  /\ FailedDropped
  /\ OneFailurePerClose
  /\ Room

-----------------------------------------------------------------------------
(* The steps. *)

LEMMA ActiveIs ==
  ASSUME TypeOK
  PROVE  Active = {r \in Requests : pc[r] \in {"write", "status", "headers", "body"}}
BY DEF TypeOK, Active

\* r's forward goes on to l, with the connection it has.
GoesOn(r, l) ==
  /\ pc[r] \in {"write", "status", "headers"} /\ l \in {"status", "headers", "body"}
  /\ pc' = [pc EXCEPT ![r] = l]
  /\ UNCHANGED <<forwarder, conn, idle, state>>

\* r's forward ends.
Ends(r, ok) ==
  /\ pc[r] \in {"write", "status", "headers", "body"} /\ ok \in BOOLEAN
  /\ \E k \in Nat : End(r, ok, k)
  /\ UNCHANGED forwarder

DialOk(r) ==
  /\ pc[r] = "ready"
  /\ forwarder = "Pool" => idle = <<>> /\ Open < MaxSize
  /\ Unused # {}
  /\ state' = [state EXCEPT ![Fresh] = "open"]
  /\ conn' = [conn EXCEPT ![r] = Fresh]
  /\ pc' = [pc EXCEPT ![r] = "write"]
  /\ UNCHANGED <<forwarder, reading, idle, wire, pending>>

DialErr(r) ==
  /\ pc[r] = "ready"
  /\ pc' = [pc EXCEPT ![r] = "dialErr"]
  /\ UNCHANGED <<forwarder, conn, reading, idle, state, wire, pending>>

LEMMA ForwardCases ==
  ASSUME TypeOK, Inv, NEW r \in Requests, Forward(r), UNCHANGED forwarder
  PROVE  (\E l \in {"status", "headers", "body"} : GoesOn(r, l)) \/ (\E ok \in BOOLEAN : Ends(r, ok))
<1>1. r \in Active => Len(wire[conn[r]]) \in Nat
  BY DEF Inv, OnePlace, TypeOK
<1>2. ASSUME Fail(r), pc[r] \in {"write", "status", "headers", "body"} PROVE Ends(r, FALSE)
  BY Zenon, <1>2 DEF Fail, Ends
<1>3. CASE WriteRequest(r)
  BY Zenon, <1>2, <1>3 DEF WriteRequest, GoesOn
<1>4. CASE ReadStatus(r)
  BY Zenon, <1>2, <1>4 DEF ReadStatus, Take, GoesOn
<1>5. CASE ReadHeader(r)
  BY Zenon, <1>2, <1>5 DEF ReadHeader, Take, GoesOn
<1>6. CASE EndHeaders(r)
  <2>1. pc[r] = "headers" /\ r \in Active
    BY <1>6 DEF EndHeaders, Active
  <2>2. CASE WantsBody(r)
    BY <1>6, <2>1, <2>2 DEF EndHeaders, GoesOn
  <2>3. CASE ~WantsBody(r)
    <3>1. PICK n \in {0, 1} : \E k \in n .. Len(wire[conn[r]]) : End(r, TRUE, k)
      BY Zenon, <1>6, <2>3 DEF EndHeaders
    <3>2. PICK k \in n .. Len(wire[conn[r]]) : End(r, TRUE, k)
      BY Zenon, <3>1
    <3>3. k \in Nat
      BY <1>1, <2>1
    <3> QED
      BY Zenon, <2>1, <3>2, <3>3 DEF Ends
  <2> QED
    BY <2>2, <2>3
<1>7. CASE ReadBody(r)
  <2>1. pc[r] = "body" /\ r \in Active
    BY <1>7 DEF ReadBody, Active
  <2>2. ASSUME NEW k \in 1 .. Len(wire[conn[r]]), End(r, TRUE, k) PROVE Ends(r, TRUE)
    <3>1. k \in Nat
      BY <1>1, <2>1
    <3> QED
      BY Zenon, <2>1, <2>2, <3>1 DEF Ends
  <2>3. ASSUME End(r, FALSE, 0) PROVE Ends(r, FALSE)
    BY Zenon, <2>1, <2>3 DEF Ends
  <2> QED
    BY Zenon, <1>7, <2>2, <2>3 DEF ReadBody, ShortBodyOk
<1> QED
  BY <1>3, <1>4, <1>5, <1>6, <1>7 DEF Forward

LEMMA NextCases ==
  ASSUME Inv, Next
  PROVE  \/ \E r \in Requests : \/ (Reuse(r) /\ UNCHANGED forwarder)
                                \/ DialOk(r) \/ DialErr(r)
                                \/ \E l \in {"status", "headers", "body"} : GoesOn(r, l)
                                \/ \E ok \in BOOLEAN : Ends(r, ok)
         \/ \E c \in Conns : (Respond(c) \/ Close(c)) /\ UNCHANGED forwarder
<1>1. ASSUME NEW r \in Requests, Dial(r), UNCHANGED forwarder PROVE DialOk(r) \/ DialErr(r)
  BY <1>1 DEF Dial, DialOk, DialErr
<1> QED
  BY <1>1, ForwardCases DEF Next, ProxyStep, UpstreamStep, Inv

-----------------------------------------------------------------------------
(* Every open connection is in one place. *)

LEMMA InitInv == Init => Inv
<1> SUFFICES ASSUME Init PROVE Inv
  OBVIOUS
<1>1. Active = {} /\ IdleConns = {} /\ idle = <<>>
  BY DEF Init, Active, IdleConns
<1>2. TypeOK
  BY ExchangeAssumption DEF Init, TypeOK
<1>3. OnePlace /\ FailedDropped /\ OneFailurePerClose
  BY <1>1 DEF Init, OnePlace, FailedDropped, OneFailurePerClose
<1>4. Room
  BY <1>1, ExchangeAssumption, FS_EmptySet DEF Room
<1> QED
  BY <1>2, <1>3, <1>4 DEF Inv

\* What pop leaves, and what push adds.
LEMMA Popped ==
  ASSUME idle \in Seq(Conns), idle # <<>>,
         \A i, j \in DOMAIN idle : idle[i] = idle[j] => i = j, idle' = Pop
  PROVE  /\ idle[Len(idle)] \in IdleConns /\ idle[Len(idle)] \in Conns
         /\ idle' \in Seq(Conns) /\ Len(idle') = Len(idle) - 1
         /\ IdleConns' = IdleConns \ {idle[Len(idle)]}
         /\ \A i, j \in DOMAIN idle' : idle'[i] = idle'[j] => i = j
<1>1. Len(idle) \in Nat \ {0} /\ DOMAIN idle = 1 .. Len(idle)
  OBVIOUS
<1>2. /\ idle' \in Seq(Conns) /\ Len(idle') = Len(idle) - 1 /\ DOMAIN idle' = 1 .. Len(idle) - 1
      /\ \A i \in 1 .. Len(idle) - 1 : idle'[i] = idle[i]
  BY <1>1 DEF Pop
<1>3. /\ idle[Len(idle)] \in IdleConns /\ idle[Len(idle)] \in Conns
  BY <1>1 DEF IdleConns
<1>4. \A i, j \in DOMAIN idle' : idle'[i] = idle'[j] => i = j
  BY <1>1, <1>2
<1>5. ASSUME NEW c \in IdleConns' PROVE c \in IdleConns /\ c # idle[Len(idle)]
  <2>1. PICK i \in 1 .. Len(idle) - 1 : c = idle[i]
    BY <1>2 DEF IdleConns
  <2>2. i \in 1 .. Len(idle) /\ Len(idle) \in 1 .. Len(idle) /\ i # Len(idle)
    <3>1. Len(idle) \in Nat /\ Len(idle) # 0
      BY <1>1
    <3> QED
      BY <3>1
  <2> QED
    BY Zenon, <1>1, <2>1, <2>2 DEF IdleConns
<1>6. ASSUME NEW c \in IdleConns, c # idle[Len(idle)] PROVE c \in IdleConns'
  <2>1. PICK i \in 1 .. Len(idle) : c = idle[i]
    BY <1>1 DEF IdleConns
  <2>2. i \in 1 .. Len(idle) - 1
    BY <1>1, <1>6, <2>1
  <2> QED
    BY <1>2, <2>1, <2>2 DEF IdleConns
<1> QED
  BY <1>2, <1>3, <1>4, <1>5, <1>6

LEMMA Pushed ==
  ASSUME idle \in Seq(Conns), NEW c \in Conns, c \notin IdleConns,
         \A i, j \in DOMAIN idle : idle[i] = idle[j] => i = j, idle' = Append(idle, c)
  PROVE  /\ idle' \in Seq(Conns) /\ Len(idle') = Len(idle) + 1
         /\ IdleConns' = IdleConns \cup {c}
         /\ \A i, j \in DOMAIN idle' : idle'[i] = idle'[j] => i = j
<1>1. Len(idle) \in Nat /\ DOMAIN idle = 1 .. Len(idle)
  OBVIOUS
<1>2. /\ idle' \in Seq(Conns) /\ Len(idle') = Len(idle) + 1 /\ DOMAIN idle' = 1 .. Len(idle) + 1
      /\ idle'[Len(idle) + 1] = c
      /\ \A i \in 1 .. Len(idle) : idle'[i] = idle[i]
  BY <1>1
<1>3. ASSUME NEW i \in 1 .. Len(idle) PROVE idle'[i] \in IdleConns
  BY <1>1, <1>2 DEF IdleConns
<1>4. \A i, j \in DOMAIN idle' : idle'[i] = idle'[j] => i = j
  BY <1>1, <1>2, <1>3
<1>5. ASSUME NEW d \in IdleConns' PROVE d \in IdleConns \cup {c}
  <2>1. PICK i \in 1 .. Len(idle) + 1 : d = idle'[i]
    BY <1>2 DEF IdleConns
  <2> QED
    BY <1>1, <1>2, <1>3, <2>1
<1>6. ASSUME NEW d \in IdleConns PROVE d \in IdleConns'
  <2>1. PICK i \in 1 .. Len(idle) : d = idle[i]
    BY <1>1 DEF IdleConns
  <2>2. i \in DOMAIN idle' /\ d = idle'[i]
    BY <1>1, <1>2, <2>1
  <2> QED
    BY <2>2 DEF IdleConns
<1>7. c \in IdleConns'
  <2>1. Len(idle) + 1 \in DOMAIN idle'
    BY <1>1, <1>2
  <2> QED
    BY <1>2, <2>1 DEF IdleConns
<1> QED
  BY <1>2, <1>4, <1>5, <1>6, <1>7

\* How the requests in progress change.
LEMMA StepActive ==
  ASSUME Inv, NEW r \in Requests
  PROVE  /\ Reuse(r) \/ DialOk(r) => r \notin Active /\ Active' = Active \cup {r}
         /\ DialErr(r) => Active' = Active
         /\ \A l \in {"status", "headers", "body"} : GoesOn(r, l) => r \in Active /\ Active' = Active
         /\ \A ok \in BOOLEAN : Ends(r, ok) => r \in Active /\ Active' = Active \ {r}
<1>0. pc \in [Requests -> {"ready", "write", "status", "headers", "body", "ok", "err", "dialErr"}]
  BY DEF Inv, TypeOK
<1>1. ASSUME Reuse(r) \/ DialOk(r) PROVE r \notin Active /\ Active' = Active \cup {r}
  <2>1. pc[r] = "ready" /\ pc' = [pc EXCEPT ![r] = "write"]
    BY <1>1 DEF Reuse, DialOk
  <2> QED
    BY <1>0, <2>1 DEF Active
<1>2. ASSUME DialErr(r) PROVE Active' = Active
  BY <1>0, <1>2 DEF DialErr, Active
<1>3. ASSUME NEW l \in {"status", "headers", "body"}, GoesOn(r, l)
      PROVE  r \in Active /\ Active' = Active
  BY <1>0, <1>3 DEF GoesOn, Active
<1>4. ASSUME NEW ok \in BOOLEAN, Ends(r, ok) PROVE r \in Active /\ Active' = Active \ {r}
  <2>1. PICK l \in {"ok", "err"} : pc' = [pc EXCEPT ![r] = l]
    BY Zenon, <1>4 DEF Ends, End
  <2>2. pc[r] \in {"write", "status", "headers", "body"}
    BY <1>4 DEF Ends
  <2> QED
    BY <1>0, <2>1, <2>2 DEF Active
<1> QED
  BY <1>1, <1>2, <1>3, <1>4

\* A request is given a connection c that nobody else has.
LEMMA GivenPlace ==
  ASSUME Inv, NEW r \in Requests, NEW c \in Conns,
         pc[r] = "ready", pc' = [pc EXCEPT ![r] = "write"], conn' = [conn EXCEPT ![r] = c],
         \A s \in Active : conn[s] # c, state[c] # "dropped",
         c \notin IdleConns', IdleConns' \subseteq IdleConns,
         \A i, j \in DOMAIN idle' : idle'[i] = idle'[j] => i = j,
         state'[c] \in {"open", "closed"}, \A d \in Conns \ {c} : state'[d] = state[d]
  PROVE  OnePlace' /\ FailedDropped' /\ OneFailurePerClose'
<1>0. /\ pc \in [Requests -> {"ready", "write", "status", "headers", "body", "ok", "err", "dialErr"}]
      /\ conn \in [Requests -> Conns \cup {None}]
  BY DEF Inv, TypeOK
<1>1. Active' = Active \cup {r} /\ r \notin Active
  BY <1>0 DEF Active
<1>2. conn'[r] = c /\ \A s \in Requests \ {r} : conn'[s] = conn[s] /\ pc'[s] = pc[s]
  BY <1>0
<1>3. \A d \in IdleConns : d \in Conns
  BY DEF Inv, TypeOK, IdleConns
<1>4. \A d \in IdleConns' : state'[d] \in {"open", "closed"}
  BY <1>3 DEF Inv, OnePlace
<1>5. ASSUME NEW s \in Active' PROVE conn'[s] \in Conns \ IdleConns' /\ state'[conn'[s]] \in {"open", "closed"}
  <2>1. CASE s = r
    BY <1>2, <2>1
  <2>2. CASE s # r
    <3>1. s \in Active /\ s \in Requests /\ conn'[s] = conn[s] /\ conn[s] # c
      BY <1>1, <1>2, <1>5, <2>2 DEF Active
    <3> QED
      BY <3>1 DEF Inv, OnePlace
  <2> QED
    BY <2>1, <2>2
<1>6. ASSUME NEW s \in Active', NEW t \in Active', conn'[s] = conn'[t] PROVE s = t
  <2>1. s \in Requests /\ t \in Requests
    BY <1>6 DEF Active
  <2> QED
    BY <1>1, <1>2, <1>6, <2>1 DEF Inv, OnePlace
<1>7. OnePlace'
  BY <1>4, <1>5, <1>6 DEF OnePlace
<1>8. \A s \in Requests : pc'[s] = "err" => s # r /\ pc[s] = "err" /\ conn'[s] = conn[s]
  BY <1>0, <1>2
<1>9. FailedDropped'
  <2> SUFFICES ASSUME NEW s \in Requests, pc'[s] = "err"
               PROVE  conn'[s] \in Conns /\ state'[conn'[s]] = "dropped"
    BY DEF FailedDropped
  <2>1. conn'[s] = conn[s] /\ conn[s] \in Conns /\ state[conn[s]] = "dropped"
    BY <1>8 DEF Inv, FailedDropped
  <2> QED
    BY <2>1
<1>10. OneFailurePerClose'
  BY <1>8 DEF Inv, OneFailurePerClose
<1> QED
  BY <1>7, <1>9, <1>10

\* A forward ends, and its connection is pooled or dropped.
LEMMA EndPlace ==
  ASSUME Inv, NEW r \in Requests, NEW ok \in BOOLEAN, Ends(r, ok)
  PROVE  OnePlace' /\ FailedDropped' /\ OneFailurePerClose'
<1> DEFINE c == conn[r]
<1>0. /\ pc \in [Requests -> {"ready", "write", "status", "headers", "body", "ok", "err", "dialErr"}]
      /\ conn' = conn /\ idle \in Seq(Conns)
      /\ state \in [Conns -> {"unused", "open", "closed", "dropped"}]
  BY DEF Inv, TypeOK, Ends, End
<1>1. r \in Active /\ Active' = Active \ {r}
  BY StepActive
<1>2. c \in Conns /\ c \notin IdleConns /\ state[c] \in {"open", "closed"}
  BY <1>1 DEF Inv, OnePlace
<1>3. \A s \in Active' : s \in Active /\ conn[s] # c
  BY <1>1 DEF Inv, OnePlace
<1>4. pc' = [pc EXCEPT ![r] = IF ok THEN "ok" ELSE "err"]
  BY DEF Ends, End
<1>5. \/ Healthy(r, ok) /\ ok /\ idle' = Append(idle, c) /\ state' = state
      \/ idle' = idle /\ state' = [state EXCEPT ![c] = "dropped"]
  BY DEF Ends, End, Healthy
<1>6. CASE Healthy(r, ok) /\ ok /\ idle' = Append(idle, c) /\ state' = state
  <2>1. /\ IdleConns' = IdleConns \cup {c}
        /\ \A i, j \in DOMAIN idle' : idle'[i] = idle'[j] => i = j
    BY <1>0, <1>2, <1>6, Pushed DEF Inv, OnePlace
  <2>2. OnePlace'
    BY <1>0, <1>1, <1>2, <1>3, <1>6, <2>1 DEF Inv, OnePlace
  <2>3. \A s \in Requests : pc'[s] = "err" => pc[s] = "err"
    BY <1>0, <1>4, <1>6
  <2> QED
    BY <1>0, <1>6, <2>2, <2>3 DEF Inv, FailedDropped, OneFailurePerClose
<1>7. CASE idle' = idle /\ state' = [state EXCEPT ![c] = "dropped"]
  <2>1. IdleConns' = IdleConns /\ \A d \in IdleConns : d \in Conns /\ d # c
    BY <1>0, <1>2, <1>7 DEF IdleConns
  <2>2. \A d \in Conns \ {c} : state'[d] = state[d]
    BY <1>0, <1>7
  <2>3. OnePlace'
    <3>1. \A d \in IdleConns' : state'[d] \in {"open", "closed"}
      BY <2>1, <2>2 DEF Inv, OnePlace
    <3>2. ASSUME NEW s \in Active' PROVE conn'[s] \in Conns \ IdleConns' /\ state'[conn'[s]] \in {"open", "closed"}
      <4>1. s \in Active /\ conn[s] \in Conns \ {c} /\ conn[s] \notin IdleConns
            /\ state[conn[s]] \in {"open", "closed"}
        BY <1>3, <3>2 DEF Inv, OnePlace
      <4> QED
        BY <1>0, <2>1, <2>2, <4>1
    <3> QED
      BY <1>0, <1>3, <1>7, <3>1, <3>2 DEF Inv, OnePlace
  <2>4. state'[c] = "dropped"
    BY <1>0, <1>2, <1>7
  <2>5. ASSUME NEW s \in Requests, pc'[s] = "err"
        PROVE  s = r \/ (pc[s] = "err" /\ conn[s] \in Conns \ {c} /\ state[conn[s]] = "dropped")
    BY <1>0, <1>2, <1>4, <2>5 DEF Inv, FailedDropped
  <2>6. FailedDropped'
    <3> SUFFICES ASSUME NEW s \in Requests, pc'[s] = "err"
                 PROVE  conn[s] \in Conns /\ state'[conn[s]] = "dropped"
      BY <1>0 DEF FailedDropped
    <3> QED
      BY <1>2, <2>2, <2>4, <2>5
  <2>7. OneFailurePerClose'
    BY <1>0, <2>5 DEF Inv, OneFailurePerClose
  <2> QED
    BY <2>3, <2>6, <2>7
<1> QED
  BY <1>5, <1>6, <1>7

LEMMA StepPlaces ==
  ASSUME Inv, Next
  PROVE  OnePlace' /\ FailedDropped' /\ OneFailurePerClose'
<1>0. /\ pc \in [Requests -> {"ready", "write", "status", "headers", "body", "ok", "err", "dialErr"}]
      /\ conn \in [Requests -> Conns \cup {None}] /\ idle \in Seq(Conns)
      /\ state \in [Conns -> {"unused", "open", "closed", "dropped"}]
  BY DEF Inv, TypeOK
<1>1. ASSUME NEW r \in Requests, Reuse(r) PROVE OnePlace' /\ FailedDropped' /\ OneFailurePerClose'
  <2> DEFINE c == idle[Len(idle)]
  <2>1. /\ pc[r] = "ready" /\ pc' = [pc EXCEPT ![r] = "write"] /\ conn' = [conn EXCEPT ![r] = c]
        /\ idle # <<>> /\ idle' = Pop /\ state' = state
    BY <1>1 DEF Reuse
  <2>2. /\ c \in IdleConns /\ c \in Conns /\ IdleConns' = IdleConns \ {c}
        /\ \A i, j \in DOMAIN idle' : idle'[i] = idle'[j] => i = j
    BY <1>0, <2>1, Popped DEF Inv, OnePlace
  <2>3. state[c] \in {"open", "closed"} /\ \A s \in Active : conn[s] # c
    BY <2>2 DEF Inv, OnePlace
  <2>4. /\ c \notin IdleConns' /\ IdleConns' \subseteq IdleConns
        /\ state[c] # "dropped" /\ state'[c] \in {"open", "closed"}
        /\ \A d \in Conns \ {c} : state'[d] = state[d]
    BY <2>1, <2>2, <2>3
  <2> HIDE DEF c
  <2> QED
    BY Zenon, <2>1, <2>2, <2>3, <2>4, GivenPlace
<1>2. ASSUME NEW r \in Requests, DialOk(r) PROVE OnePlace' /\ FailedDropped' /\ OneFailurePerClose'
  <2> DEFINE c == Fresh
  <2>1. /\ pc[r] = "ready" /\ pc' = [pc EXCEPT ![r] = "write"] /\ conn' = [conn EXCEPT ![r] = c]
        /\ Unused # {} /\ idle' = idle /\ state' = [state EXCEPT ![c] = "open"]
    BY <1>2 DEF DialOk
  <2>2. c \in Conns /\ state[c] = "unused"
    BY <2>1 DEF Fresh, Unused
  <2> HIDE DEF c
  <2>3. IdleConns' = IdleConns /\ c \notin IdleConns' /\ \A s \in Active : conn[s] # c
    BY <2>1, <2>2 DEF Inv, OnePlace, IdleConns
  <2>4. state'[c] = "open" /\ \A d \in Conns \ {c} : state'[d] = state[d]
    BY <1>0, <2>1, <2>2
  <2>5. \A i, j \in DOMAIN idle' : idle'[i] = idle'[j] => i = j
    BY <2>1 DEF Inv, OnePlace
  <2>6. IdleConns' \subseteq IdleConns /\ state'[c] \in {"open", "closed"} /\ state[c] # "dropped"
    BY <2>2, <2>3, <2>4
  <2> QED
    BY Zenon, <2>1, <2>2, <2>3, <2>4, <2>5, <2>6, GivenPlace
<1>3. ASSUME NEW r \in Requests, NEW l \in {"dialErr", "status", "headers", "body"},
             pc' = [pc EXCEPT ![r] = l], Active' = Active, UNCHANGED <<conn, idle, state>>
      PROVE  OnePlace' /\ FailedDropped' /\ OneFailurePerClose'
  <2>1. \A s \in Requests : pc'[s] = "err" => pc[s] = "err"
    BY <1>0, <1>3
  <2>2. IdleConns' = IdleConns
    BY <1>3 DEF IdleConns
  <2> QED
    BY <1>3, <2>1, <2>2 DEF Inv, OnePlace, FailedDropped, OneFailurePerClose
<1>4. ASSUME NEW c \in Conns, Respond(c) \/ Close(c) PROVE OnePlace' /\ FailedDropped' /\ OneFailurePerClose'
  <2>1. state[c] = "open" /\ UNCHANGED <<pc, conn, idle>>
    BY <1>4 DEF Respond, Close
  <2>2. state' = state \/ state' = [state EXCEPT ![c] = "closed"]
    BY <1>4 DEF Respond, Close
  <2>3. \A d \in Conns : /\ state[d] \in {"open", "closed"} => state'[d] \in {"open", "closed"}
                         /\ state[d] = "dropped" => state'[d] = "dropped"
    BY <1>0, <2>1, <2>2
  <2>4. IdleConns' = IdleConns /\ Active' = Active /\ IdleConns \subseteq Conns
    BY <1>0, <2>1 DEF IdleConns, Active
  <2> QED
    BY <2>1, <2>3, <2>4 DEF Inv, OnePlace, FailedDropped, OneFailurePerClose
<1>5. ASSUME NEW r \in Requests, DialErr(r) PROVE OnePlace' /\ FailedDropped' /\ OneFailurePerClose'
  BY Zenon, <1>3, <1>5, StepActive DEF DialErr
<1>6. ASSUME NEW r \in Requests, NEW l \in {"status", "headers", "body"}, GoesOn(r, l)
      PROVE  OnePlace' /\ FailedDropped' /\ OneFailurePerClose'
  BY Zenon, <1>3, <1>6, StepActive DEF GoesOn
<1> QED
  BY <1>1, <1>2, <1>4, <1>5, <1>6, EndPlace, NextCases

-----------------------------------------------------------------------------
(* The size of the pool. *)

LEMMA ActiveFinite == IsFiniteSet(Active) /\ Cardinality(Active) \in Nat
  BY ExchangeAssumption, FS_Subset, FS_CardinalityType DEF Active

\* Requests in progress have a connection each, so that Open counts them.
LEMMA OpenCounts == ASSUME Inv, idle = <<>> PROVE Open = Cardinality(Active)
<1> DEFINE T == {conn[r] : r \in Active}
           f == [r \in Active |-> conn[r]]
<1>1. IdleConns = {} /\ Open = Cardinality(T \cup IdleConns)
  BY DEF Open, IdleConns
<1>2. f \in Bijection(Active, T)
  <2>1. f \in [Active -> T] /\ \A t \in T : \E r \in Active : f[r] = t
    OBVIOUS
  <2>2. \A r, s \in Active : f[r] = f[s] => r = s
    BY DEF Inv, OnePlace
  <2> HIDE DEF f, T
  <2>3. f \in Injection(Active, T)
    BY <2>1, <2>2 DEF Injection, IsInjective
  <2>4. f \in Surjection(Active, T)
    BY <2>1 DEF Surjection
  <2> QED
    BY <2>3, <2>4 DEF Bijection
<1>3. Cardinality(T) = Cardinality(Active)
  <2> HIDE DEF f, T
  <2> QED
    BY <1>2, ActiveFinite, FS_Bijection DEF ExistsBijection
<1> QED
  BY <1>1, <1>3

LEMMA StepRoom == ASSUME Inv, Next PROVE Room'
<1>0. idle \in Seq(Conns) /\ Len(idle) \in Nat /\ MaxSize \in Nat \ {0} /\ forwarder \in {"Dial", "Pool"}
  BY ExchangeAssumption DEF Inv, TypeOK
<1>1. ASSUME NEW r \in Requests, Reuse(r), UNCHANGED forwarder PROVE Room'
  <2>1. forwarder = "Pool" /\ idle # <<>> /\ idle' = Pop
    BY <1>1 DEF Reuse
  <2>2. Len(idle') = Len(idle) - 1
    BY <1>0, <2>1, Popped DEF Inv, OnePlace
  <2>3. Cardinality(Active') = Cardinality(Active) + 1
    BY <1>1, ActiveFinite, StepActive, FS_AddElement
  <2> QED
    BY <1>0, <1>1, <2>1, <2>2, <2>3, ActiveFinite DEF Inv, Room
<1>2. ASSUME NEW r \in Requests, DialOk(r) PROVE Room'
  <2>1. idle' = idle /\ forwarder' = forwarder
    BY <1>2 DEF DialOk
  <2>2. CASE forwarder = "Pool"
    <3>1. idle = <<>> /\ Open < MaxSize
      BY <1>2, <2>2 DEF DialOk
    <3>2. Cardinality(Active') = Cardinality(Active) + 1
      BY <1>2, ActiveFinite, StepActive, FS_AddElement
    <3>3. Cardinality(Active) < MaxSize /\ Len(idle) = 0
      BY <3>1, OpenCounts
    <3> QED
      BY <1>0, <2>1, <2>2, <3>2, <3>3, ActiveFinite DEF Room
  <2>3. CASE forwarder = "Dial"
    BY <2>1, <2>3 DEF Inv, Room
  <2> QED
    BY <1>0, <2>2, <2>3
<1>3. ASSUME Active' = Active, UNCHANGED <<idle, forwarder>> PROVE Room'
  BY <1>3 DEF Inv, Room
<1>4. ASSUME NEW r \in Requests, NEW ok \in BOOLEAN, Ends(r, ok) PROVE Room'
  <2>1. forwarder' = forwarder /\ r \in Active /\ Cardinality(Active') = Cardinality(Active) - 1
    BY <1>4, ActiveFinite, StepActive, FS_RemoveElement DEF Ends
  <2>2. conn[r] \in Conns /\ conn[r] \notin IdleConns
    BY <2>1 DEF Inv, OnePlace
  <2>3. \/ idle' = idle
        \/ forwarder = "Pool" /\ idle' = Append(idle, conn[r])
    BY <1>4 DEF Ends, End, Healthy
  <2>4. Len(idle') \in {Len(idle), Len(idle) + 1}
    BY <1>0, <2>2, <2>3
  <2> QED
    BY <1>0, <2>1, <2>3, <2>4, ActiveFinite DEF Inv, Room
<1>5. ASSUME NEW r \in Requests, DialErr(r) PROVE Room'
  BY Zenon, <1>3, <1>5, StepActive DEF DialErr
<1>6. ASSUME NEW r \in Requests, NEW l \in {"status", "headers", "body"}, GoesOn(r, l) PROVE Room'
  BY Zenon, <1>3, <1>6, StepActive DEF GoesOn
<1>7. ASSUME NEW c \in Conns, Respond(c) \/ Close(c), UNCHANGED forwarder PROVE Room'
  <2>1. UNCHANGED <<pc, idle>>
    BY <1>7 DEF Respond, Close
  <2> QED
    BY <1>3, <1>7, <2>1 DEF Active
<1> QED
  BY <1>1, <1>2, <1>4, <1>5, <1>6, <1>7, NextCases

-----------------------------------------------------------------------------
(* Types. *)

LEMMA WithoutFirst ==
  ASSUME NEW S, NEW q \in Seq(S), Len(q) >= 1
  PROVE  /\ Len(SubSeq(q, 2, Len(q))) = Len(q) - 1
         /\ \A i \in 1 .. Len(q) - 1 : SubSeq(q, 2, Len(q))[i] = q[i + 1]
<1>1. Len(q) \in Nat /\ \A i \in 2 .. Len(q) : q[i] \in S
  OBVIOUS
<1>2. /\ Len(SubSeq(q, 2, Len(q))) = IF 2 <= Len(q) THEN Len(q) - 2 + 1 ELSE 0
      /\ \A i \in 1 .. Len(q) - 2 + 1 : SubSeq(q, 2, Len(q))[i] = q[2 + i - 1]
  BY <1>1
<1>3. ASSUME NEW i \in 1 .. Len(q) - 1 PROVE SubSeq(q, 2, Len(q))[i] = q[i + 1]
  <2>1. i \in 1 .. Len(q) - 2 + 1 /\ 2 + i - 1 = i + 1
    BY <1>1
  <2> QED
    BY <1>2, <2>1
<1>4. Len(SubSeq(q, 2, Len(q))) = Len(q) - 1
  <2> DEFINE m == Len(q)
             n == Len(SubSeq(q, 2, m))
  <2>1. n = IF 2 <= m THEN m - 2 + 1 ELSE 0
    BY <1>2
  <2>2. m \in Nat /\ m >= 1
    BY <1>1
  <2> HIDE DEF m, n
  <2>3. n = m - 1
    BY <2>1, <2>2
  <2> QED
    BY <2>3 DEF m, n
<1> QED
  BY <1>3, <1>4

LEMMA Suffix ==
  ASSUME NEW S, NEW q \in Seq(S), NEW k \in Nat
  PROVE  SubSeq(q, k + 1, Len(q)) \in Seq(S)
<1>1. CASE k + 1 > Len(q)
  BY <1>1
<1>2. CASE k + 1 <= Len(q)
  BY <1>2
<1> QED
  BY <1>1, <1>2

LEMMA ResponseType ==
  ASSUME NEW r \in Requests, NEW shape \in Shapes
  PROVE  Response(r, shape) \in Seq(Piece)
<1> DEFINE P(k) == [of |-> r, kind |-> k]
<1>1. P("status") \in Piece /\ P("length") \in Piece /\ P("blank") \in Piece /\ P("body") \in Piece
  BY DEF Piece
<1>2. Response(r, shape) =
        CASE shape = "sized"   -> <<P("status"), P("length"), P("blank"), P("body")>>
          [] shape = "chunked" -> <<P("status"), P("blank"), P("body"), P("blank")>>
          [] shape = "interim" -> <<P("status"), P("blank")>> \o <<P("status"), P("length"), P("blank"), P("body")>>
  BY DEF Response
<1> HIDE DEF P
<1>3. /\ <<P("status"), P("length"), P("blank"), P("body")>> \in Seq(Piece)
      /\ <<P("status"), P("blank"), P("body"), P("blank")>> \in Seq(Piece)
      /\ <<P("status"), P("blank")>> \in Seq(Piece)
  BY <1>1
<1>4. shape \in {"sized", "chunked", "interim"}
  BY ExchangeAssumption
<1> QED
  BY <1>2, <1>3, <1>4

PlaceTypes ==
  /\ forwarder \in {"Dial", "Pool"}
  /\ pc \in [Requests -> {"ready", "write", "status", "headers", "body", "ok", "err", "dialErr"}]
  /\ conn \in [Requests -> Conns \cup {None}]
  /\ idle \in Seq(Conns)
  /\ state \in [Conns -> {"unused", "open", "closed", "dropped"}]

StreamTypes ==
  /\ sized \in [Requests -> BOOLEAN]
  /\ from \in [Requests -> SUBSET Requests]
  /\ body \in [Requests -> {"unread", "read", "cut"}]
  /\ wire \in [Conns -> Seq(Piece)]
  /\ pending \in [Conns -> Seq(Requests)]

LEMMA StepPlaceTypes == ASSUME Inv, Next PROVE PlaceTypes'
<1> USE DEF PlaceTypes
<1>0. PlaceTypes
  BY DEF Inv, TypeOK
<1>1. ASSUME NEW r \in Requests, Reuse(r), UNCHANGED forwarder PROVE PlaceTypes'
  <2>1. idle # <<>> /\ idle' = Pop
    BY <1>1 DEF Reuse
  <2>2. idle' \in Seq(Conns) /\ idle[Len(idle)] \in Conns
    BY <1>0, <2>1, Popped DEF Inv, OnePlace
  <2> QED
    BY <1>0, <1>1, <2>2 DEF Reuse
<1>2. ASSUME NEW r \in Requests, DialOk(r) PROVE PlaceTypes'
  <2>1. Fresh \in Conns
    BY <1>2 DEF DialOk, Fresh, Unused
  <2> QED
    BY <1>0, <1>2, <2>1 DEF DialOk
<1>3. ASSUME NEW r \in Requests, DialErr(r) PROVE PlaceTypes'
  BY <1>0, <1>3 DEF DialErr
<1>4. ASSUME NEW r \in Requests, NEW l \in {"status", "headers", "body"}, GoesOn(r, l) PROVE PlaceTypes'
  BY <1>0, <1>4 DEF GoesOn
<1>5. ASSUME NEW r \in Requests, NEW ok \in BOOLEAN, Ends(r, ok) PROVE PlaceTypes'
  <2>1. conn[r] \in Conns
    BY <1>5, StepActive DEF Inv, OnePlace
  <2>2. /\ idle' = idle \/ idle' = Append(idle, conn[r])
        /\ state' = state \/ state' = [state EXCEPT ![conn[r]] = "dropped"]
        /\ UNCHANGED <<forwarder, conn>>
    BY <1>5 DEF Ends, End
  <2>3. PICK l \in {"ok", "err"} : pc' = [pc EXCEPT ![r] = l]
    BY Zenon, <1>5 DEF Ends, End
  <2>4. idle' \in Seq(Conns)
    BY <1>0, <2>1, <2>2
  <2>5. state' \in [Conns -> {"unused", "open", "closed", "dropped"}]
    BY <1>0, <2>1, <2>2
  <2> QED
    BY <1>0, <2>2, <2>3, <2>4, <2>5
<1>6. ASSUME NEW c \in Conns, Respond(c) \/ Close(c), UNCHANGED forwarder PROVE PlaceTypes'
  <2>1. /\ UNCHANGED <<pc, conn, idle>>
        /\ state' = state \/ state' = [state EXCEPT ![c] = "closed"]
    BY <1>6 DEF Respond, Close
  <2> QED
    BY <1>0, <1>6, <2>1
<1> QED
  BY <1>1, <1>2, <1>3, <1>4, <1>5, <1>6, NextCases

LEMMA StepStreamTypes == ASSUME Inv, Next PROVE StreamTypes'
<1> USE DEF StreamTypes
<1>0. StreamTypes /\ pc \in [Requests -> {"ready", "write", "status", "headers", "body", "ok", "err", "dialErr"}]
  BY DEF Inv, TypeOK
<1>1. ASSUME NEW r \in Requests, NEW l, Ready(r), Take(r, l), r \in Active, UNCHANGED body,
             sized' = sized \/ \E b \in BOOLEAN : sized' = [sized EXCEPT ![r] = b]
      PROVE  StreamTypes'
  <2>1. conn[r] \in Conns /\ wire[conn[r]] \in Seq(Piece) /\ wire[conn[r]] # <<>>
    BY <1>0, <1>1 DEF Inv, OnePlace, Ready
  <2>2. Tail(wire[conn[r]]) \in Seq(Piece) /\ NextPiece(r) \in Piece
    BY <2>1 DEF NextPiece
  <2>3. NextPiece(r).of \in Requests
    BY <2>2 DEF Piece
  <2> QED
    BY Zenon, <1>0, <1>1, <2>1, <2>2, <2>3 DEF Take
<1>2. ASSUME NEW r \in Requests, r \in Active, NEW k \in Nat,
             wire' = [wire EXCEPT ![conn[r]] = SubSeq(@, k + 1, Len(@))]
      PROVE  wire' \in [Conns -> Seq(Piece)]
  <2>1. conn[r] \in Conns /\ wire[conn[r]] \in Seq(Piece)
    BY <1>0, <1>2 DEF Inv, OnePlace
  <2> QED
    BY <1>0, <1>2, <2>1, Suffix
<1>3. ASSUME NEW r \in Requests, Fail(r), r \in Active PROVE StreamTypes'
  <2>1. wire' \in [Conns -> Seq(Piece)]
    BY Zenon, <1>2, <1>3 DEF Fail, End
  <2> QED
    BY <1>0, <1>3, <2>1 DEF Fail, End, reading
<1>4. ASSUME NEW r \in Requests, WriteRequest(r) PROVE StreamTypes'
  <2>1. r \in Active
    BY <1>4 DEF WriteRequest, Active
  <2>2. conn[r] \in Conns
    BY <2>1 DEF Inv, OnePlace
  <2>3. CASE Fail(r)
    BY <1>3, <2>1, <2>3
  <2>4. CASE /\ pending' = IF state[conn[r]] = "open" THEN [pending EXCEPT ![conn[r]] = Append(@, r)] ELSE pending
             /\ UNCHANGED <<reading, wire>>
    BY <1>0, <2>2, <2>4 DEF reading
  <2> QED
    BY <1>4, <2>3, <2>4 DEF WriteRequest
<1>5. ASSUME NEW r \in Requests, ReadStatus(r) PROVE StreamTypes'
  <2>1. r \in Active
    BY <1>5 DEF ReadStatus, Active
  <2> QED
    BY <1>1, <1>3, <1>5, <2>1 DEF ReadStatus
<1>6. ASSUME NEW r \in Requests, ReadHeader(r) PROVE StreamTypes'
  <2>1. r \in Active /\ Ready(r)
    BY <1>6 DEF ReadHeader, Active
  <2>2. CASE Fail(r)
    BY <1>3, <2>1, <2>2
  <2>3. CASE /\ Take(r, "headers") /\ UNCHANGED body
             /\ sized' = [sized EXCEPT ![r] = @ \/ NextPiece(r).kind = "length"]
    <3>1. \E b \in BOOLEAN : sized' = [sized EXCEPT ![r] = b]
      BY Zenon, <1>0, <2>3
    <3> QED
      BY Zenon, <1>1, <2>1, <2>3, <3>1
  <2> QED
    BY <1>6, <2>2, <2>3 DEF ReadHeader
<1>7. ASSUME NEW r \in Requests, EndHeaders(r) PROVE StreamTypes'
  <2>1. r \in Active
    BY <1>7 DEF EndHeaders, Active
  <2>2. Len(wire[conn[r]]) \in Nat
    BY <1>0, <2>1 DEF Inv, OnePlace
  <2>3. PICK k \in Nat : wire' = [wire EXCEPT ![conn[r]] = SubSeq(@, k + 1, Len(@))]
    <3>1. PICK n \in {0, 1} :
            \/ wire' = [wire EXCEPT ![conn[r]] = SubSeq(@, n + 1, Len(@))]
            \/ \E k \in n .. Len(wire[conn[r]]) : End(r, TRUE, k)
      BY Zenon, <1>7 DEF EndHeaders
    <3>2. ASSUME NEW k \in n .. Len(wire[conn[r]]), End(r, TRUE, k)
          PROVE  k \in Nat /\ wire' = [wire EXCEPT ![conn[r]] = SubSeq(@, k + 1, Len(@))]
      BY <2>2, <3>2 DEF End
    <3> QED
      BY Zenon, <3>1, <3>2
  <2>4. wire' \in [Conns -> Seq(Piece)]
    BY Zenon, <1>2, <2>1, <2>3
  <2>5. /\ UNCHANGED <<sized, from, pending>>
        /\ body' = body \/ body' = [body EXCEPT ![r] = "cut"]
    BY Zenon, <1>7 DEF EndHeaders, End
  <2> QED
    BY <1>0, <2>4, <2>5
<1>8. ASSUME NEW r \in Requests, ReadBody(r) PROVE StreamTypes'
  <2>1. r \in Active
    BY <1>8 DEF ReadBody, Active
  <2>2. Len(wire[conn[r]]) \in Nat /\ conn[r] \in Conns /\ wire[conn[r]] \in Seq(Piece)
    BY <1>0, <2>1 DEF Inv, OnePlace
  <2>3. CASE EndOfFile(r) /\ End(r, ShortBodyOk, 0) /\ UNCHANGED reading
    <3>1. wire' \in [Conns -> Seq(Piece)]
      BY Zenon, <1>2, <2>1, <2>3 DEF End
    <3> QED
      BY <1>0, <2>3, <3>1 DEF End, reading
  <2>4. CASE /\ Ready(r)
             /\ \E k \in 1 .. Len(wire[conn[r]]) : End(r, TRUE, k)
             /\ from' = [from EXCEPT ![r] = @ \cup {NextPiece(r).of}]
             /\ body' = [body EXCEPT ![r] = "read"]
             /\ UNCHANGED sized
    <3>1. NextPiece(r) \in Piece
      BY <2>2, <2>4 DEF Ready, NextPiece
    <3>2. NextPiece(r).of \in Requests
      BY <3>1 DEF Piece
    <3>3. PICK k \in 1 .. Len(wire[conn[r]]) : End(r, TRUE, k)
      BY Zenon, <2>4
    <3>4. k \in Nat
      BY <2>2
    <3>5. wire' \in [Conns -> Seq(Piece)] /\ pending' = pending
      BY Zenon, <1>2, <2>1, <3>3, <3>4 DEF End
    <3> QED
      BY <1>0, <2>4, <3>2, <3>5
  <2> QED
    BY Zenon, <1>8, <2>3, <2>4 DEF ReadBody
<1>9. ASSUME NEW c \in Conns, Respond(c) PROVE StreamTypes'
  <2>1. pending[c] # <<>> /\ pending[c] \in Seq(Requests)
    BY <1>0, <1>9 DEF Respond
  <2>2. Head(pending[c]) \in Requests /\ Tail(pending[c]) \in Seq(Requests)
    BY <2>1
  <2>3. \A shape \in Shapes : Response(Head(pending[c]), shape) \in Seq(Piece)
    BY <2>2, ResponseType
  <2>4. PICK shape \in Shapes : \E n \in 1 .. Len(Response(Head(pending[c]), shape)) :
          wire' = [wire EXCEPT ![c] = @ \o SubSeq(Response(Head(pending[c]), shape), 1, n)]
    BY Zenon, <1>9 DEF Respond
  <2> DEFINE full == Response(Head(pending[c]), shape)
  <2>5. full \in Seq(Piece)
    BY <2>3
  <2>9. PICK n \in 1 .. Len(full) : wire' = [wire EXCEPT ![c] = @ \o SubSeq(full, 1, n)]
    BY Zenon, <2>4
  <2> HIDE DEF full
  <2>6. SubSeq(full, 1, n) \in Seq(Piece)
    BY <2>5
  <2>7. wire' \in [Conns -> Seq(Piece)]
    BY <1>0, <2>6, <2>9
  <2> QED
    BY <1>0, <1>9, <2>2, <2>7 DEF Respond, reading
<1>10. ASSUME NEW r \in Requests, Reuse(r) \/ Dial(r) PROVE StreamTypes'
  BY <1>0, <1>10 DEF Reuse, Dial, reading
<1>11. ASSUME NEW c \in Conns, Close(c) PROVE StreamTypes'
  BY <1>0, <1>11 DEF Close, reading
<1> QED
  BY <1>4, <1>5, <1>6, <1>7, <1>8, <1>9, <1>10, <1>11 DEF Next, ProxyStep, UpstreamStep, Forward

LEMMA StepInv == Inv /\ [Next]_vars => Inv'
<1>1. ASSUME Inv, Next PROVE Inv'
  <2>1. Room' /\ PlaceTypes' /\ StreamTypes' /\ OnePlace' /\ FailedDropped' /\ OneFailurePerClose'
    BY <1>1, StepRoom, StepPlaceTypes, StepStreamTypes, StepPlaces
  <2>2. Len(idle') <= MaxSize
    <3>1. Cardinality(Active') \in Nat /\ Len(idle') \in Nat /\ MaxSize \in Nat \ {0}
      <4>1. IsFiniteSet(Active')
        BY ExchangeAssumption, FS_Subset DEF Active
      <4> QED
        BY <2>1, <4>1, FS_CardinalityType, ExchangeAssumption DEF PlaceTypes
    <3> QED
      BY <2>1, <3>1 DEF Room
  <2>3. TypeOK'
    BY <2>1, <2>2 DEF TypeOK, PlaceTypes, StreamTypes
  <2> QED
    BY <2>1, <2>3 DEF Inv
<1>2. ASSUME Inv, UNCHANGED vars PROVE Inv'
  <2>1. UNCHANGED <<forwarder, pc, conn, sized, from, body, idle, state, wire, pending>>
    BY <1>2 DEF vars
  <2>2. Active' = Active /\ IdleConns' = IdleConns
    BY <2>1 DEF Active, IdleConns
  <2>3. TypeOK'
    BY <1>2, <2>1 DEF Inv, TypeOK
  <2> QED
    BY <1>2, <2>1, <2>2, <2>3 DEF Inv, OnePlace, FailedDropped, OneFailurePerClose, Room
<1> QED
  BY <1>1, <1>2

-----------------------------------------------------------------------------
(* The theorems. *)

\* The inductive invariant holds for any set of requests and any shapes of response:
\* an open connection is idle or with one request, and the one a request failed on
\* is with nobody (pool.rs:31-108).
THEOREM Safety == Spec => []Inv
  BY InitInv, StepInv, PTL DEF Spec

\* The values stay in their types, and the pool within its size, whatever the
\* upstream sends and wherever it closes (pool.rs:28-66, dial.rs:90-139).
THEOREM TypeCorrect == Spec => []TypeOK
<1>1. Inv => TypeOK
  BY DEF Inv
<1> QED
  BY <1>1, Safety, PTL

\* No two requests fail on the same connection, for any shape of response: a
\* connection that failed one is dropped (pool.rs:35, 103-105).
THEOREM OneFailure == Spec => []OneFailurePerClose
<1>1. Inv => OneFailurePerClose
  BY DEF Inv
<1> QED
  BY <1>1, Safety, PTL
=============================================================================
