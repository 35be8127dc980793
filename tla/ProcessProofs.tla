--------------------------- MODULE ProcessProofs ---------------------------
(***************************************************************************)
(* Proofs about the process around the proxy's server, for any set of      *)
(* environments, any addresses and any number of requests and clients of   *)
(* the profiling endpoint.                                                 *)
(*                                                                         *)
(* That no side server takes the process down needs to know what it        *)
(* listens on before it has its own address: ports of the side servers,    *)
(* whose addresses main has parsed (BoundBySides, SidesParsed).  That only *)
(* a client that left lets a profile collide needs every profile under way *)
(* to have a handler that holds the lock, or to have lost it (JobOwned).   *)
(***************************************************************************)
EXTENDS Process, FiniteSetTheorems, TLAPS

\* main spawns a side server only with an address that it could parse.
SidesParsed ==
  \A s \in Sides : side[s] \in {"spawned", "up"} => cfg.addr[s] \in DOMAIN Resolve

\* Until main has its own port, the process listens on side servers' ports only.
BoundBySides ==
  phase \in Sides \cup {"listen"} =>
    \A p \in bound : \E s \in Sides : cfg.addr[s] # "" /\ p = Resolve[cfg.addr[s]]

StartInv ==
  /\ env \in Envs
  /\ StartTypeOK
  /\ SidesParsed
  /\ BoundBySides
  /\ ExitsOnlyIf
  /\ PanicsOnlyIf

\* The profiler runs for the one whose profile is running.
RunsForOne == \A c \in Curls : job[c] = "running" <=> profiler = c

\* Who holds the lock waits for an answer, and so do those in the queue.
Waiting ==
  /\ holder # None => curl[holder] = "wait"
  /\ \A i \in DOMAIN queue : curl[queue[i]] = "wait" /\ queue[i] # holder

\* A profile under way belongs to the holder of the lock or to a client that left.
JobOwned == \A c \in Curls : job[c] \in {"spawned", "running"} => curl[c] = "left" \/ holder = c

ProfInv ==
  /\ ProfTypeOK
  /\ RunsForOne
  /\ Waiting
  /\ JobOwned

-----------------------------------------------------------------------------
(* What config.rs makes of the environment. *)

LEMMA SameCfg == ASSUME env' = env PROVE cfg' = cfg /\ Udp' = Udp /\ AddressesOk' = AddressesOk
                                         /\ UpstreamsOk' = UpstreamsOk /\ QueueOk' = QueueOk
  BY DEF cfg, Udp, AddressesOk, UpstreamsOk, QueueOk

\* An address of a side server that is not empty was set.
LEMMA SideAddress ==
  ASSUME NEW s \in Sides, cfg.addr[s] # ""
  PROVE  cfg.addr[s] \in {env.STATS_ADDR, env.PPROF_ADDR, env.TOKIO_METRICS_ADDR} \ {Unset, ""}
<1>1. /\ cfg.addr["stats"] = EnvOr(env.STATS_ADDR, "")
      /\ cfg.addr["pprof"] = EnvOr(env.PPROF_ADDR, "")
      /\ cfg.addr["metrics"] = EnvOr(env.TOKIO_METRICS_ADDR, "")
  BY Zenon DEF cfg
<1>2. s = "stats" \/ s = "pprof" \/ s = "metrics"
  BY Zenon DEF Sides
<1> QED
  BY Zenon, <1>1, <1>2 DEF EnvOr

\* The mode is the one that is set, or the default.
LEMMA Modes ==
  /\ \A m \in {"grpc", "pooled", "quic", "http3"} : cfg.mode = m <=> env.PROXY_MODE = m
  /\ cfg.mode = ParseMode(env.PROXY_MODE)
<1>1. cfg.mode = ParseMode(EnvOr(env.PROXY_MODE, "tcp-sync"))
  BY DEF cfg
<1>2. Unset \notin NamedModes
  BY Zenon, StartupAssumption
<1> QED
  BY <1>1, <1>2 DEF EnvOr, ParseMode, NamedModes

\* Where the addresses are good, each one that is used resolves, and the listen
\* address is not a side server's.
LEMMA GoodAddresses ==
  ASSUME AddressesOk
  PROVE  /\ \A s \in Sides : cfg.addr[s] # "" => cfg.addr[s] \in DOMAIN Resolve
         /\ cfg.listen_addr \in DOMAIN Resolve /\ Resolve[cfg.listen_addr] \notin Taken
         /\ ~Udp => \A s \in Sides : cfg.addr[s] # "" => Resolve[cfg.addr[s]] # Resolve[cfg.listen_addr]
<1>1. cfg.listen_addr = IF env.LISTEN_ADDR = Unset THEN ":8080" ELSE env.LISTEN_ADDR
  BY DEF cfg, EnvOr
<1>2. Udp <=> env.PROXY_MODE \in {"quic", "http3"}
  BY Modes DEF Udp
<1> QED
  BY Zenon, <1>1, <1>2, SideAddress DEF AddressesOk

\* Where there are upstreams enough, no call of next() panics.
LEMMA GoodUpstreams ==
  ASSUME env \in Envs, UpstreamsOk
  PROVE  ~SelectorPanics
<1> DEFINE list == IF env.UPSTREAM_ADDRS # Unset THEN env.UPSTREAM_ADDRS
                   ELSE IF env.UPSTREAM_ADDR # Unset THEN env.UPSTREAM_ADDR
                   ELSE <<"upstream:9000">>
           good == {i \in DOMAIN list : list[i] # ""}
<1>1. cfg.upstream_addrs = good
  BY Zenon DEF cfg, SplitAddrs, EnvOr
<1>2. cfg.lb_strategy = "p2c" => env.LB_STRATEGY = "p2c"
  BY DEF cfg, EnvOr
<1>3. IsFiniteSet(good)
  <2>1. IsFiniteSet(DOMAIN <<"upstream:9000">>)
    <3>1. DOMAIN <<"upstream:9000">> = {1}
      OBVIOUS
    <3> QED
      BY Zenon, <3>1, FS_Singleton
  <2>2. IsFiniteSet(DOMAIN list)
    BY Zenon, <2>1, StartupAssumption
  <2>3. good \subseteq DOMAIN list
    BY Zenon
  <2> HIDE DEF list, good
  <2> QED
    BY <2>2, <2>3, FS_Subset
<1>4. PICK i \in good : env.LB_STRATEGY = "p2c" => \E j \in good : i # j
  BY Zenon DEF UpstreamsOk
<1> HIDE DEF good
<1>5. Cardinality(good) \in Nat /\ Cardinality(good) >= 1
  <2>1. Cardinality(good) \in Nat /\ Cardinality(good) # 0
    BY <1>3, <1>4, FS_CardinalityType, FS_EmptySet
  <2> QED
    BY <2>1
<1>6. ASSUME cfg.lb_strategy = "p2c" PROVE Cardinality(good) >= 2
  <2>1. PICK j \in good : i # j
    BY <1>2, <1>4, <1>6
  <2>2. Cardinality(good \ {i}) = Cardinality(good) - 1 /\ IsFiniteSet(good \ {i})
    BY <1>3, <1>4, FS_RemoveElement
  <2>3. Cardinality(good \ {i}) \in Nat /\ Cardinality(good \ {i}) # 0
    <3>1. j \in good \ {i}
      BY <2>1
    <3> DEFINE rest == good \ {i}
    <3> HIDE DEF rest
    <3>2. Cardinality(rest) \in Nat /\ Cardinality(rest) # 0
      BY Zenon, <2>2, <3>1, FS_CardinalityType, FS_EmptySet DEF rest
    <3> QED
      BY <3>2 DEF rest
  <2> QED
    BY <1>5, <2>2, <2>3
<1> QED
  BY <1>1, <1>5, <1>6 DEF SelectorPanics, Needed

-----------------------------------------------------------------------------
(* The start of main. *)

LEMMA StartInitInv == StartInit => StartInv
  BY DEF StartInit, StartInv, StartTypeOK, SidesParsed, BoundBySides, ExitsOnlyIf, PanicsOnlyIf, Sides

\* main goes past a side server, spawns it or exits for its address.
LEMMA StartSideInv ==
  ASSUME StartInv, NEW s \in Sides, NEW next \in {"stats", "metrics", "listen"}, StartSide(s, next)
  PROVE  StartInv'
<1>0. phase = s /\ UNCHANGED <<env, bound, workers, req, mishaps>>
  BY DEF StartSide
<1>1. /\ cfg' = cfg /\ AddressesOk' = AddressesOk
      /\ UpstreamsOk' = UpstreamsOk /\ QueueOk' = QueueOk
  BY <1>0, SameCfg
<1>2. \/ phase' = next /\ UNCHANGED side
      \/ /\ phase' = next /\ side' = [side EXCEPT ![s] = "spawned"]
         /\ cfg.addr[s] \in DOMAIN Resolve /\ cfg.addr[s] # ""
      \/ phase' = "exited" /\ UNCHANGED side /\ cfg.addr[s] # "" /\ cfg.addr[s] \notin DOMAIN Resolve
  BY Zenon DEF StartSide, Wanted
<1>3. StartTypeOK'
  BY Zenon, <1>0, <1>2 DEF StartInv, StartTypeOK, Sides
<1>4. SidesParsed'
  BY Zenon, <1>0, <1>1, <1>2 DEF StartInv, StartTypeOK, SidesParsed
<1>5. BoundBySides'
  BY Zenon, <1>0, <1>1 DEF StartInv, BoundBySides
<1>6. ExitsOnlyIf'
  BY Zenon, <1>0, <1>1, <1>2, GoodAddresses DEF StartInv, ExitsOnlyIf, Sides
<1>7. PanicsOnlyIf'
  BY Zenon, <1>0, <1>1, <1>2 DEF StartInv, PanicsOnlyIf, Sides
<1> QED
  BY <1>0, <1>3, <1>4, <1>5, <1>6, <1>7 DEF StartInv

\* The failure of a side server changes nothing but what is bound.
LEMMA SideInv ==
  ASSUME StartInv, NEW s \in Sides, BindSide(s) \/ SideAcceptError(s)
  PROVE  StartInv'
<1>0. UNCHANGED <<env, phase, workers, req, mishaps>>
  BY DEF BindSide, SideAcceptError, AfterSideFailure
<1>1. /\ cfg' = cfg /\ AddressesOk' = AddressesOk
      /\ UpstreamsOk' = UpstreamsOk /\ QueueOk' = QueueOk
  BY <1>0, SameCfg
<1>2. side[s] \in {"spawned", "up"} /\ cfg.addr[s] \in DOMAIN Resolve /\ cfg.addr[s] # ""
  BY Zenon, StartupAssumption DEF BindSide, SideAcceptError, StartInv, SidesParsed
<1>3. \E l \in {"up", "failed"} : side' = [side EXCEPT ![s] = l]
  BY DEF BindSide, SideAcceptError
<1>4. bound' \subseteq bound \cup {Resolve[cfg.addr[s]]}
  BY DEF BindSide, SideAcceptError
<1>5. StartTypeOK'
  BY Zenon, <1>0, <1>2, <1>3, <1>4 DEF StartInv, StartTypeOK
<1>6. SidesParsed'
  BY Zenon, <1>1, <1>2, <1>3 DEF StartInv, StartTypeOK, SidesParsed
<1>7. BoundBySides'
  BY Zenon, <1>0, <1>1, <1>2, <1>4 DEF StartInv, BoundBySides
<1>8. ExitsOnlyIf' /\ PanicsOnlyIf'
  BY <1>0, <1>1 DEF StartInv, ExitsOnlyIf, PanicsOnlyIf
<1> QED
  BY <1>0, <1>5, <1>6, <1>7, <1>8 DEF StartInv

\* Where main cannot have its listen address, the addresses are not good.
LEMMA CannotListen ==
  ASSUME StartInv, phase = "listen", ~CanListen
  PROVE  ~AddressesOk
<1>1. \A p \in bound : \E s \in Sides : cfg.addr[s] # "" /\ p = Resolve[cfg.addr[s]]
  BY Zenon DEF StartInv, BoundBySides
<1> QED
  BY Zenon, <1>1, GoodAddresses DEF CanListen

LEMMA ListenInv ==
  ASSUME StartInv, ListenTcp \/ ListenUdp
  PROVE  StartInv'
<1>0. phase = "listen" /\ UNCHANGED <<env, side, req>>
  BY DEF ListenTcp, ListenUdp
<1>1. /\ cfg' = cfg /\ AddressesOk' = AddressesOk
      /\ UpstreamsOk' = UpstreamsOk /\ QueueOk' = QueueOk
  BY <1>0, SameCfg
<1>2. phase' \in {"serving", "exited", "panicked"} /\ workers' \in Nat
  <2>1. cfg.worker_pool_size \in Nat
    BY DEF cfg, EnvInt
  <2> QED
    BY <2>1 DEF ListenTcp, ListenUdp, StartInv, StartTypeOK
<1>3. bound' \subseteq {Resolve[a] : a \in DOMAIN Resolve}
  BY DEF ListenTcp, ListenUdp, CanListen, StartInv, StartTypeOK
<1>4. /\ mishaps \subseteq mishaps' /\ mishaps' \subseteq Mishaps
      /\ phase' = "exited" => ~CanListen \/ (Udp /\ "tls" \in mishaps')
  BY Zenon DEF ListenTcp, ListenUdp, StartInv, StartTypeOK, Mishaps
<1>5. phase' = "panicked" => ~QueueOk /\ env.PROXY_MODE = "pooled"
  <2>1. phase' = "panicked" => cfg.mode = "pooled" /\ cfg.worker_queue_depth \notin 1 .. MaxPermits
    BY DEF ListenTcp, ListenUdp, QueueRefused
  <2>2. cfg.worker_queue_depth = IF env.WORKER_QUEUE_DEPTH \in Nat THEN env.WORKER_QUEUE_DEPTH ELSE 256
    BY DEF cfg, EnvInt
  <2>3. 256 \in 1 .. MaxPermits
    <3>1. MaxPermits \in Nat /\ MaxPermits >= 256
      BY Zenon, StartupAssumption
    <3> QED
      BY <3>1
  <2> QED
    BY Zenon, <2>1, <2>2, <2>3, Modes DEF QueueOk
<1>6. StartTypeOK'
  BY <1>0, <1>2, <1>3, <1>4 DEF StartInv, StartTypeOK
<1>7. SidesParsed' /\ BoundBySides'
  BY Zenon, <1>0, <1>1, <1>2 DEF StartInv, SidesParsed, BoundBySides, Sides
<1>8. ExitsOnlyIf'
  BY <1>0, <1>1, <1>4, CannotListen, Modes DEF ExitsOnlyIf, Udp
<1>9. PanicsOnlyIf'
  BY Zenon, <1>0, <1>1, <1>4, <1>5 DEF StartInv, PanicsOnlyIf
<1> QED
  BY <1>0, <1>6, <1>7, <1>8, <1>9 DEF StartInv

LEMMA AcceptErrorInv ==
  ASSUME StartInv, AcceptError
  PROVE  StartInv'
<1>0. /\ phase = "serving" /\ phase' = "exited" /\ cfg.mode # "grpc"
      /\ mishaps' = mishaps \cup {"accept"} /\ UNCHANGED <<env, side, bound, workers, req>>
  BY DEF AcceptError
<1>1. /\ cfg' = cfg /\ AddressesOk' = AddressesOk
      /\ UpstreamsOk' = UpstreamsOk /\ QueueOk' = QueueOk
  BY <1>0, SameCfg
<1>2. StartTypeOK'
  BY <1>0 DEF StartInv, StartTypeOK, Mishaps
<1>3. SidesParsed' /\ BoundBySides'
  BY Zenon, <1>0, <1>1 DEF StartInv, SidesParsed, BoundBySides, Sides
<1>4. ExitsOnlyIf'
  BY <1>0, <1>1, Modes DEF ExitsOnlyIf
<1>5. PanicsOnlyIf'
  BY <1>0, <1>1 DEF StartInv, PanicsOnlyIf
<1> QED
  BY <1>0, <1>2, <1>3, <1>4, <1>5 DEF StartInv

\* A request is over, lost for a cause that PanicsOnlyIf names or not lost.
LEMMA FinishInv ==
  ASSUME StartInv, NEW r \in Requests, NEW outcome \in {"lost", "stuck", "answered"},
         Finish(r, outcome), mishaps \subseteq mishaps', mishaps' \subseteq Mishaps,
         outcome = "lost" =>
           \/ ~UpstreamsOk \/ "length" \in mishaps'
           \/ cfg.mode \in {"http2", "http3"} /\ "header" \in mishaps'
  PROVE  StartInv'
<1>0. /\ phase = "serving" /\ UNCHANGED <<env, side, bound>>
      /\ req' = [req EXCEPT ![r] = outcome]
      /\ phase' = IF outcome = "lost" /\ cfg.mode = "tcp-sync" THEN "panicked" ELSE phase
  BY DEF Finish
<1>1. /\ cfg' = cfg /\ AddressesOk' = AddressesOk
      /\ UpstreamsOk' = UpstreamsOk /\ QueueOk' = QueueOk
  BY <1>0, SameCfg
<1>2. workers' \in Nat
  <2>1. workers' = workers \/ (workers > 0 /\ workers' = workers - 1)
    BY DEF Finish
  <2> QED
    BY <2>1 DEF StartInv, StartTypeOK
<1>3. StartTypeOK'
  BY <1>0, <1>2 DEF StartInv, StartTypeOK
<1>4. SidesParsed' /\ BoundBySides' /\ ExitsOnlyIf'
  BY <1>0, <1>1 DEF StartInv, SidesParsed, BoundBySides, ExitsOnlyIf, Sides
<1>5. PanicsOnlyIf'
  <2>1. \A q \in Requests : req'[q] = "lost" => req[q] = "lost" \/ outcome = "lost"
    BY <1>0 DEF StartInv, StartTypeOK
  <2>2. phase' = "panicked" => outcome = "lost" /\ cfg.mode = "tcp-sync"
    BY <1>0
  <2>3. cfg.mode \in {"http2", "http3"} => env.PROXY_MODE \in {"http2", "http3"} /\ cfg.mode # "tcp-sync"
    BY Modes DEF ParseMode
  <2> QED
    BY <1>0, <1>1, <2>1, <2>2, <2>3, Modes DEF StartInv, PanicsOnlyIf
<1> QED
  BY <1>0, <1>3, <1>4, <1>5 DEF StartInv

LEMMA HandleInv ==
  ASSUME StartInv, NEW r \in Requests, Handle(r)
  PROVE  StartInv'
<1>1. PICK outcome \in {"lost", "stuck", "answered"} :
        (outcome = "lost" => SelectorPanics) /\ Finish(r, outcome)
  BY Zenon DEF Handle
<1>2. outcome = "lost" => ~UpstreamsOk
  BY <1>1, GoodUpstreams DEF StartInv
<1>3. mishaps' = mishaps /\ mishaps \subseteq Mishaps
  BY DEF Handle, StartInv, StartTypeOK
<1> QED
  BY <1>1, <1>2, <1>3, FinishInv

LEMMA MishapInv ==
  ASSUME StartInv, NEW r \in Requests, NEW what \in {"length", "header"}, Mishap(r, what)
  PROVE  StartInv'
<1>1. /\ Finish(r, "lost") /\ mishaps' = mishaps \cup {what}
      /\ what = "header" => cfg.mode \in {"http2", "http3"}
  BY Zenon DEF Mishap
<1>2. mishaps \subseteq mishaps' /\ mishaps' \subseteq Mishaps
  BY <1>1 DEF StartInv, StartTypeOK, Mishaps
<1> QED
  BY <1>1, <1>2, FinishInv

LEMMA StartStep == ASSUME StartInv, StartNext PROVE StartInv'
<1>1. "pprof" \in Sides /\ "stats" \in Sides /\ "metrics" \in Sides
  BY DEF Sides
<1> QED
  BY <1>1, StartSideInv, SideInv, ListenInv, AcceptErrorInv, HandleInv, MishapInv DEF StartNext, MainStep

-----------------------------------------------------------------------------
(* The queue for PROFILE_LOCK. *)

\* What is left of a sequence when its k-th element is taken out.
LEMMA RemoveAtProperties ==
  ASSUME NEW S, NEW s \in Seq(S), NEW k \in 1 .. Len(s)
  PROVE  LET r == SubSeq(s, 1, k - 1) \o SubSeq(s, k + 1, Len(s))
         IN  /\ r \in Seq(S)
             /\ DOMAIN r = 1 .. (Len(s) - 1)
             /\ \A i \in 1 .. (Len(s) - 1) : r[i] = s[IF i < k THEN i ELSE i + 1]
<1> DEFINE a == SubSeq(s, 1, k - 1)
           b == SubSeq(s, k + 1, Len(s))
           r == a \o b
<1>1. Len(s) \in Nat /\ k \in Nat /\ 1 <= k /\ k <= Len(s)
  OBVIOUS
<1>2. /\ a \in Seq(S) /\ Len(a) = k - 1
      /\ \A i \in 1 .. (k - 1) : a[i] = s[i]
  BY <1>1
<1>3. /\ b \in Seq(S) /\ Len(b) = Len(s) - k
      /\ \A i \in 1 .. (Len(s) - k) : b[i] = s[i + k]
  BY <1>1
<1> HIDE DEF a, b
<1>4. /\ r \in Seq(S)
      /\ Len(r) = Len(a) + Len(b)
      /\ \A i \in 1 .. (Len(a) + Len(b)) :
           r[i] = IF i <= Len(a) THEN a[i] ELSE b[i - Len(a)]
  <2>1. a \in Seq(S) /\ b \in Seq(S) /\ Len(a) \in Nat /\ Len(b) \in Nat
    BY <1>2, <1>3
  <2>2. r \in Seq(S) /\ Len(r) = Len(a) + Len(b)
    BY <2>1
  <2>3. ASSUME NEW i \in 1 .. (Len(a) + Len(b))
        PROVE  r[i] = IF i <= Len(a) THEN a[i] ELSE b[i - Len(a)]
    BY <2>1
  <2> QED
    BY <2>2, <2>3
<1> HIDE DEF r
<1>5. Len(r) = Len(s) - 1
  BY <1>1, <1>2, <1>3, <1>4
<1>6. DOMAIN r = 1 .. (Len(s) - 1)
  BY <1>4, <1>5
<1>7. ASSUME NEW i \in 1 .. (Len(s) - 1) PROVE r[i] = s[IF i < k THEN i ELSE i + 1]
  <2>1. r[i] = IF i <= k - 1 THEN a[i] ELSE b[i - (k - 1)]
    BY <1>1, <1>2, <1>3, <1>4
  <2>2. CASE i < k
    BY <2>1, <2>2, <1>1, <1>2
  <2>3. CASE ~(i < k)
    <3>1. i - (k - 1) \in 1 .. (Len(s) - k) /\ (i - (k - 1)) + k = i + 1
      BY <2>3, <1>1
    <3>2. b[i - (k - 1)] = s[i + 1]
      BY <3>1, <1>3
    <3> QED
      BY <2>1, <2>3, <3>2, <1>1
  <2> QED
    BY <2>2, <2>3
<1> QED
  BY Zenon, <1>4, <1>6, <1>7 DEF r, a, b

\* q is part of queue s, each of it once, without c.
Within(q, s, c) ==
  /\ q \in Seq(Curls) /\ IsInjective(q)
  /\ \A i \in DOMAIN q : q[i] # c /\ \E j \in DOMAIN s : q[i] = s[j]

LEMMA FirstOut ==
  ASSUME NEW s \in Seq(Curls), IsInjective(s), s # <<>>
  PROVE  Head(s) \in Curls /\ (\E j \in DOMAIN s : Head(s) = s[j]) /\ Within(Tail(s), s, Head(s))
<1>1. /\ Len(s) \in Nat /\ Len(s) >= 1 /\ DOMAIN s = 1 .. Len(s)
      /\ Head(s) = s[1] /\ Head(s) \in Curls /\ Tail(s) \in Seq(Curls)
      /\ DOMAIN Tail(s) = 1 .. Len(s) - 1
  OBVIOUS
<1>2. \A i \in 1 .. Len(s) - 1 : Tail(s)[i] = s[i + 1]
  OBVIOUS
<1>3. \A i \in 1 .. Len(s) - 1 : i + 1 \in DOMAIN s /\ i + 1 # 1
  BY <1>1
<1>4. 1 \in DOMAIN s
  BY <1>1
<1>5. \A i, j \in DOMAIN s : s[i] = s[j] => i = j
  BY DEF IsInjective
<1>6. IsInjective(Tail(s))
  BY <1>1, <1>2, <1>3, <1>5 DEF IsInjective
<1> QED
  BY <1>1, <1>2, <1>3, <1>4, <1>5, <1>6 DEF Within

LEMMA OneOut ==
  ASSUME NEW s \in Seq(Curls), IsInjective(s), NEW k \in DOMAIN s
  PROVE  Within(SubSeq(s, 1, k - 1) \o SubSeq(s, k + 1, Len(s)), s, s[k])
<1> DEFINE r == SubSeq(s, 1, k - 1) \o SubSeq(s, k + 1, Len(s))
           at(i) == IF i < k THEN i ELSE i + 1
<1>1. DOMAIN s = 1 .. Len(s) /\ Len(s) \in Nat
  OBVIOUS
<1>2. /\ r \in Seq(Curls) /\ DOMAIN r = 1 .. (Len(s) - 1)
      /\ \A i \in 1 .. (Len(s) - 1) : r[i] = s[at(i)]
  BY Zenon, <1>1, RemoveAtProperties
<1>3. \A i \in 1 .. (Len(s) - 1) : at(i) \in DOMAIN s /\ at(i) # k
  BY <1>1
<1>4. \A i, j \in 1 .. (Len(s) - 1) : at(i) = at(j) => i = j
  BY <1>1
<1>5. \A i, j \in DOMAIN s : s[i] = s[j] => i = j
  BY DEF IsInjective
<1> HIDE DEF r, at
<1>6. IsInjective(r)
  BY Zenon, <1>2, <1>3, <1>4, <1>5 DEF IsInjective
<1>7. Within(r, s, s[k])
  BY <1>2, <1>3, <1>5, <1>6 DEF Within
<1> QED
  BY <1>7 DEF r

LEMMA LastIn ==
  ASSUME NEW s \in Seq(Curls), IsInjective(s), NEW c \in Curls, \A i \in DOMAIN s : s[i] # c
  PROVE  /\ Append(s, c) \in Seq(Curls) /\ IsInjective(Append(s, c))
         /\ \A i \in DOMAIN Append(s, c) : Append(s, c)[i] = c \/ \E j \in DOMAIN s : Append(s, c)[i] = s[j]
<1> DEFINE n == Len(s)
           r == Append(s, c)
<1>1. /\ r \in Seq(Curls) /\ DOMAIN s = 1 .. n /\ n \in Nat /\ DOMAIN r = 1 .. n + 1 /\ r[n + 1] = c
      /\ \A i \in 1 .. n : r[i] = s[i]
  OBVIOUS
<1>2. \A i, j \in DOMAIN s : s[i] = s[j] => i = j
  BY DEF IsInjective
<1> HIDE DEF n, r
<1>3. \A i \in DOMAIN r : i \in DOMAIN s \/ i = n + 1
  BY <1>1
<1>4. IsInjective(r)
  BY <1>1, <1>2, <1>3 DEF IsInjective
<1>5. \A i \in DOMAIN r : r[i] = c \/ \E j \in DOMAIN s : r[i] = s[j]
  BY <1>1, <1>3
<1> QED
  BY <1>1, <1>4, <1>5 DEF r

-----------------------------------------------------------------------------
(* The profiling endpoint. *)

LEMMA ProfInitInv == ProfInit => ProfInv
<1> SUFFICES ASSUME ProfInit PROVE ProfInv
  OBVIOUS
<1>1. queue = <<>> /\ queue \in Seq(Curls) /\ DOMAIN queue = {}
  BY DEF ProfInit
<1> QED
  BY <1>1, ProfileAssumption
  DEF ProfInit, ProfInv, ProfTypeOK, RunsForOne, Waiting, JobOwned, IsInjective

\* The holder's handler is over: the lock goes to the first in the queue.
LEMMA UnlockInv ==
  ASSUME ProfInv, NEW c \in Curls, holder = c, Unlock, UNCHANGED <<job, profiler>>,
         NEW l \in {"ok", "error", "left"}, curl' = [curl EXCEPT ![c] = l],
         job[c] \in {"spawned", "running"} => l = "left"
  PROVE  ProfInv'
<1>0. /\ curl \in [Curls -> {"new", "wait", "ok", "error", "other", "left"}]
      /\ queue \in Seq(Curls) /\ IsInjective(queue)
      /\ \A i \in DOMAIN queue : curl[queue[i]] = "wait" /\ queue[i] # c /\ queue[i] \in Curls
  BY DEF ProfInv, ProfTypeOK, Waiting
<1>1. curl'[c] = l /\ \A d \in Curls \ {c} : curl'[d] = curl[d]
  BY <1>0
<1>2. JobOwned' /\ RunsForOne'
  BY <1>1 DEF ProfInv, JobOwned, RunsForOne
<1>3. ASSUME queue = <<>> PROVE ProfTypeOK' /\ Waiting'
  <2>1. holder' = None /\ queue' = queue /\ DOMAIN queue = {}
    BY <1>3 DEF Unlock
  <2> QED
    BY <1>0, <2>1 DEF ProfInv, ProfTypeOK, Waiting
<1>4. ASSUME queue # <<>> PROVE ProfTypeOK' /\ Waiting'
  <2>1. holder' = Head(queue) /\ queue' = Tail(queue)
    BY <1>4 DEF Unlock
  <2>2. holder' \in Curls /\ (\E j \in DOMAIN queue : holder' = queue[j]) /\ Within(queue', queue, holder')
    BY <1>0, <1>4, <2>1, FirstOut
  <2>3. ProfTypeOK'
    BY <1>0, <2>2 DEF ProfInv, ProfTypeOK, Within
  <2>4. curl'[holder'] = "wait"
    BY <1>0, <1>1, <2>2
  <2>5. \A i \in DOMAIN queue' : curl'[queue'[i]] = "wait" /\ queue'[i] # holder'
    BY <1>0, <1>1, <2>2 DEF Within
  <2> QED
    BY <2>3, <2>4, <2>5 DEF Waiting
<1> QED
  BY <1>2, <1>3, <1>4 DEF ProfInv

LEMMA CurlInv == ASSUME ProfInv, NEW c \in Curls, Curl(c) PROVE ProfInv'
<1>0. /\ curl \in [Curls -> {"new", "wait", "ok", "error", "other", "left"}] /\ curl[c] = "new"
      /\ queue \in Seq(Curls) /\ IsInjective(queue)
      /\ \A i \in DOMAIN queue : curl[queue[i]] = "wait" /\ queue[i] # holder /\ queue[i] \in Curls
      /\ holder \in Curls \cup {None} /\ (holder # None => curl[holder] = "wait")
      /\ UNCHANGED <<job, profiler>>
  BY DEF ProfInv, ProfTypeOK, Waiting, Curl
<1>1. job[c] \notin {"spawned", "running"} /\ holder # c /\ \A i \in DOMAIN queue : queue[i] # c
  BY <1>0, ProfileAssumption DEF ProfInv, JobOwned
<1>2. PICK l \in {"other", "wait"} : curl' = [curl EXCEPT ![c] = l]
  BY DEF Curl
<1>3. curl'[c] = l /\ \A d \in Curls \ {c} : curl'[d] = curl[d]
  BY <1>0, <1>2
<1>4. RunsForOne'
  BY <1>0 DEF ProfInv, RunsForOne
<1>5. CASE UNCHANGED <<queue, holder>>
  BY <1>0, <1>1, <1>2, <1>3, <1>4, <1>5 DEF ProfInv, ProfTypeOK, Waiting, JobOwned
<1>6. CASE l = "wait" /\ holder = None /\ holder' = c /\ UNCHANGED queue
  <2>1. ProfTypeOK'
    BY <1>0, <1>2, <1>6 DEF ProfInv, ProfTypeOK
  <2>2. Waiting'
    BY <1>0, <1>1, <1>3, <1>6 DEF Waiting
  <2>3. JobOwned'
    BY <1>0, <1>1, <1>3, <1>6, ProfileAssumption DEF ProfInv, JobOwned
  <2> QED
    BY <1>4, <2>1, <2>2, <2>3 DEF ProfInv
<1>7. CASE l = "wait" /\ queue' = Append(queue, c) /\ UNCHANGED holder
  <2>1. /\ queue' \in Seq(Curls) /\ IsInjective(queue')
        /\ \A i \in DOMAIN queue' : queue'[i] = c \/ \E j \in DOMAIN queue : queue'[i] = queue[j]
    BY <1>0, <1>1, <1>7, LastIn
  <2>2. ProfTypeOK'
    BY <1>0, <1>2, <1>7, <2>1 DEF ProfInv, ProfTypeOK
  <2>3. Waiting'
    BY <1>0, <1>1, <1>3, <1>7, <2>1 DEF Waiting
  <2>4. JobOwned'
    BY <1>0, <1>1, <1>3, <1>7 DEF ProfInv, JobOwned
  <2> QED
    BY <1>4, <2>2, <2>3, <2>4 DEF ProfInv
<1>8. \/ UNCHANGED <<queue, holder>>
      \/ l = "wait" /\ holder = None /\ holder' = c /\ UNCHANGED queue
      \/ l = "wait" /\ queue' = Append(queue, c) /\ UNCHANGED holder
  <2>1. curl' = [curl EXCEPT ![c] = "wait"] => l = "wait"
    BY <1>0, <1>3
  <2> QED
    BY <2>1 DEF Curl
<1> QED
  BY <1>5, <1>6, <1>7, <1>8

\* A profile is handed over, started, refused or over.
LEMMA JobInv ==
  ASSUME ProfInv, NEW c \in Curls, Collect(c) \/ Build(c) \/ Report(c)
  PROVE  ProfInv'
<1>0. /\ job \in [Curls -> {"none", "spawned", "running", "conflict", "good", "bad"}]
      /\ profiler \in Curls \cup {None} /\ None \notin Curls
      /\ UNCHANGED <<curl, queue, holder>>
  BY ProfileAssumption DEF ProfInv, ProfTypeOK, Collect, Build, Report
<1>1. Waiting'
  BY <1>0 DEF ProfInv, Waiting
<1>2. CASE Collect(c)
  BY <1>0, <1>1, <1>2 DEF Collect, ProfInv, ProfTypeOK, RunsForOne, JobOwned
<1>3. CASE Build(c)
  BY <1>0, <1>1, <1>3 DEF Build, ProfInv, ProfTypeOK, RunsForOne, JobOwned
<1>4. CASE Report(c)
  <2>1. PICK end \in {"good", "bad"} : job' = [job EXCEPT ![c] = end]
    BY Zenon, <1>4 DEF Report
  <2> QED
    BY <1>0, <1>1, <1>4, <2>1 DEF Report, ProfInv, ProfTypeOK, RunsForOne, JobOwned
<1> QED
  BY <1>2, <1>3, <1>4

LEMMA DisconnectInv == ASSUME ProfInv, NEW c \in Curls, Disconnect(c) PROVE ProfInv'
<1>0. /\ curl' = [curl EXCEPT ![c] = "left"] /\ UNCHANGED <<job, profiler>>
      /\ IF holder = c THEN Unlock
         ELSE \E i \in DOMAIN queue :
                /\ queue[i] = c
                /\ queue' = SubSeq(queue, 1, i - 1) \o SubSeq(queue, i + 1, Len(queue))
                /\ UNCHANGED holder
  BY Zenon DEF Disconnect, DropHandler
<1>1. CASE holder = c
  BY Zenon, <1>0, <1>1, UnlockInv
<1>2. CASE holder # c
  <2>1. PICK k \in DOMAIN queue :
          /\ queue[k] = c /\ holder' = holder
          /\ queue' = SubSeq(queue, 1, k - 1) \o SubSeq(queue, k + 1, Len(queue))
    BY Zenon, <1>0, <1>2
  <2>2. /\ curl \in [Curls -> {"new", "wait", "ok", "error", "other", "left"}]
        /\ queue \in Seq(Curls) /\ IsInjective(queue)
        /\ \A i \in DOMAIN queue : curl[queue[i]] = "wait" /\ queue[i] # holder /\ queue[i] \in Curls
        /\ holder \in Curls \cup {None} /\ (holder # None => curl[holder] = "wait")
    BY DEF ProfInv, ProfTypeOK, Waiting
  <2>3. Within(queue', queue, c)
    BY <2>1, <2>2, OneOut
  <2>4. curl'[c] = "left" /\ \A d \in Curls \ {c} : curl'[d] = curl[d]
    BY <1>0, <2>2
  <2>5. ProfTypeOK'
    BY Zenon, <1>0, <2>1, <2>2, <2>3 DEF ProfInv, ProfTypeOK, Within
  <2>6. Waiting'
    <3>1. holder' = holder
      BY <2>1
    <3>2. \A i \in DOMAIN queue' : curl'[queue'[i]] = "wait" /\ queue'[i] # holder
      BY <2>2, <2>3, <2>4 DEF Within
    <3>3. holder # None => curl'[holder] = "wait"
      BY <1>2, <2>2, <2>4
    <3> QED
      BY <3>1, <3>2, <3>3 DEF Waiting
  <2>7. JobOwned' /\ RunsForOne'
    BY <1>0, <2>1, <2>4 DEF ProfInv, JobOwned, RunsForOne
  <2> QED
    BY <2>5, <2>6, <2>7 DEF ProfInv
<1> QED
  BY <1>1, <1>2

LEMMA ProfStep ==
  ASSUME ProfInv, NEW c \in Curls, Curl(c) \/ ProfileStep(c) \/ Disconnect(c)
  PROVE  ProfInv'
<1>1. ASSUME Answer(c) PROVE ProfInv'
  <2>1. /\ holder = c /\ job[c] \in {"good", "bad", "conflict"} /\ Unlock /\ UNCHANGED <<job, profiler>>
        /\ \E l \in {"ok", "error"} : curl' = [curl EXCEPT ![c] = l]
    BY Zenon, <1>1 DEF Answer, ProfileOver
  <2> QED
    BY Zenon, <2>1, UnlockInv
<1> QED
  BY <1>1, CurlInv, JobInv, DisconnectInv DEF ProfileStep

-----------------------------------------------------------------------------
(* The theorems. *)

Inv == StartInv /\ ProfInv

LEMMA StepInv == Inv /\ [Next]_vars => Inv'
<1>1. ASSUME StartInv, UNCHANGED startVars PROVE StartInv'
  <2>1. UNCHANGED <<env, phase, side, bound, workers, req, mishaps>>
    BY <1>1 DEF startVars
  <2>2. /\ cfg' = cfg /\ AddressesOk' = AddressesOk
        /\ UpstreamsOk' = UpstreamsOk /\ QueueOk' = QueueOk
    BY <2>1, SameCfg
  <2> QED
    BY Zenon, <1>1, <2>1, <2>2
    DEF StartInv, StartTypeOK, SidesParsed, BoundBySides, ExitsOnlyIf, PanicsOnlyIf
<1>2. ASSUME ProfInv, UNCHANGED profVars PROVE ProfInv'
  <2>1. UNCHANGED <<curl, queue, holder, job, profiler>>
    BY <1>2 DEF profVars
  <2> QED
    BY <1>2, <2>1 DEF ProfInv, ProfTypeOK, RunsForOne, Waiting, JobOwned
<1>3. ASSUME Inv, Start(StartNext) PROVE Inv'
  BY <1>2, <1>3, StartStep DEF Inv, Start
<1>4. ASSUME Inv, NEW c \in Curls, Profile(Curl(c)) \/ Profile(ProfileStep(c)) \/ Profile(Disconnect(c)) PROVE Inv'
  BY <1>1, <1>4, ProfStep DEF Inv, Profile
<1> QED
  BY <1>1, <1>2, <1>3, <1>4 DEF Next, vars, Inv

\* The inductive invariant of both halves of the process holds, in whatever order
\* the side servers' tasks, the profiles and their clients move (main.rs:25-106,
\* pprof_server.rs:84-105).
THEOREM Safety == Spec => []Inv
<1>1. Init => Inv
  BY StartInitInv, ProfInitInv DEF Init, Inv
<1> QED
  BY <1>1, StepInv, PTL DEF Spec

\* The values stay in their types: the process listens on addresses that resolve
\* only, never counts below no worker, and has no client twice in the queue for
\* the profiling lock (main.rs:25-106, pprof_server.rs:92-97).
THEOREM TypeCorrect == Spec => []TypeOK
<1>1. Inv => TypeOK
  BY DEF Inv, StartInv, ProfInv, TypeOK
<1> QED
  BY <1>1, Safety, PTL

\* Under every environment the process exits only for its addresses, for want of a
\* TLS configuration in the QUIC modes, or when its own accept() fails, and not even
\* then in grpc mode: no side server ends it, whenever their tasks run (main.rs:40-59,
\* 161, 207, 225, 268, 285).
THEOREM NoSideServerEndsIt == Spec => []ExitsOnlyIf
<1>1. Inv => ExitsOnlyIf
  BY DEF Inv, StartInv
<1> QED
  BY <1>1, Safety, PTL

\* Under every environment, a panic ends the process in pooled mode for its queue's
\* depth and in tcp-sync mode for its upstreams or a length only, and no request is
\* lost without one of the causes named (balancer.rs:62, 132, 167, 215, main.rs:185,
\* proxy_http.rs:121, 223, dial.rs:126).
THEOREM PanicsForCause == Spec => []PanicsOnlyIf
<1>1. Inv => PanicsOnlyIf
  BY DEF Inv, StartInv
<1> QED
  BY <1>1, Safety, PTL

\* With any number of clients, the profile of one that stays collides with the
\* profile of a client that left only (pprof_server.rs:92-105).
THEOREM CollidesAfterLeaving == Spec => []ConflictOnlyAfterLeaving
<1>1. ASSUME ProfInv PROVE ConflictOnlyAfterLeaving
  <2> SUFFICES ASSUME NEW c \in Curls, curl[c] = "wait", job[c] = "spawned", profiler # None
               PROVE  curl[profiler] = "left"
    BY DEF ConflictOnlyAfterLeaving
  <2>1. profiler \in Curls /\ job[profiler] = "running" /\ profiler # c
    BY <1>1 DEF ProfInv, ProfTypeOK, RunsForOne
  <2>2. holder = c
    BY <1>1 DEF ProfInv, JobOwned
  <2> QED
    BY <1>1, <2>1, <2>2 DEF ProfInv, JobOwned
<1> QED
  BY <1>1, Safety, PTL DEF Inv
=============================================================================
