------------------------------ MODULE Balancer ------------------------------
(***************************************************************************)
(* Upstream selection: crates/service-proxy/src/upstream/balancer.rs and   *)
(* its Go twin go/internal/upstream/balancer.go, which agree step by step. *)
(*                                                                         *)
(* Request tasks call next(), forward their request, and call release()    *)
(* with the token next() gave them.  The counters are separate relaxed     *)
(* atomics and no lock protects them, so one step of the model is one      *)
(* atomic access, and any other task may run between two of them.  The     *)
(* stats endpoint (serve_stats) reads and resets the counters meanwhile.   *)
(***************************************************************************)
EXTENDS Integers, FiniteSets

CONSTANTS
  Tasks,        \* request tasks
  Settings      \* the settings considered, records of
                \*   strategy: LB_STRATEGY; n: the number of upstreams, which
                \*   are the indices 0 .. n-1; pollers: who asks for stats;
                \*   cancel: may a request future be dropped (Rust, modes http2
                \*   and grpc)?; requests: bound on the requests of a behaviour

ASSUME BalancerAssumption ==
  /\ IsFiniteSet(Tasks)
  /\ \A s \in Settings : s.n \in Nat \ {0} /\ s.requests \in Nat

VARIABLES
  setting,   \* the setting of this process, fixed at its start
  counter,   \* the fetch_add counter of the round-robin selectors
  total,     \* Counters::total
  inflight,  \* Counters::inflight
  pc,        \* pc[t]: where request task t is
  at,        \* at[t]: LeastConn's loop index, P2C's j
  best,      \* best[t]: the upstream chosen so far
  load,      \* load[t]: the load read for the upstream compared against
  token,     \* token[t]: what next() returned with the address
  poller,    \* poller[p]: progress of a stats request
  issued,    \* history: requests begun
  chosen,    \* history: requests for which each upstream was chosen
  routed,    \* history: increments of total
  reported,  \* history: sum of the totals that resets reported
  drift      \* history: drift[t][u], changes of inflight[u] during t's next()

selVars == <<counter, at, best, load>>
vars == <<setting, counter, total, inflight, pc, at, best, load, token, poller,
          issued, chosen, routed, reported, drift>>

N == setting.n
Ups == 0 .. N - 1

\* new_selector: which selector serves the configured strategy.
Kind ==
  CASE setting.strategy = "round-robin" -> "CountingRoundRobin"
    [] setting.strategy = "least-conn"  -> "LeastConn"
    [] setting.strategy = "p2c"         -> "P2C"
    [] OTHER -> IF N = 1 THEN "Fixed" ELSE "RoundRobin"

Goto(t, l) == pc' = [pc EXCEPT ![t] = l]

\* Upstream u is decided on for t.
Choose(t, u) ==
  /\ best' = [best EXCEPT ![t] = u]
  /\ chosen' = [chosen EXCEPT ![u] = @ + 1]

\* inflight[u] changes, by t, under the eyes of every other task inside next().
Disturb(t, u) ==
  drift' = [s \in Tasks |->
              IF s # t /\ pc[s] \in {"scan", "compare", "pickTotal"}
              THEN [drift[s] EXCEPT ![u] = @ + 1]
              ELSE [v \in Ups |-> 0]]

-----------------------------------------------------------------------------
(* Plausible mistakes in balancer.rs, each of which some property must catch. *)

\* The index counts from 1, or never reaches the last upstream.
IndexFromOne == (counter % N) + 1
IndexSkipsLast == counter % (N - 1)

\* `token > 0` instead of `token >= 0`.
TrackedSkipsFirst(tok) == tok > 0

\* The scan forgets to lower best_load with best.
BestLoadKept(t) == load[t]

\* P2C keeps the more loaded of the two.
LessFlipped(j, i) == j > i

\* A reset stores 0 and forgets the requests routed since its load.
RemainingZero(now, seen) == 0

-----------------------------------------------------------------------------
Init ==
  /\ setting \in Settings
  /\ counter = 0
  /\ total = [u \in Ups |-> 0]
  /\ inflight = [u \in Ups |-> 0]
  /\ pc = [t \in Tasks |-> "ready"]
  /\ at = [t \in Tasks |-> 0]
  /\ best = [t \in Tasks |-> 0]
  /\ load = [t \in Tasks |-> 0]
  /\ token = [t \in Tasks |-> -1]
  /\ poller = [p \in setting.pollers |-> [at |-> 0, step |-> "load", seen |-> 0]]
  /\ issued = 0
  /\ chosen = [u \in Ups |-> 0]
  /\ routed = [u \in Ups |-> 0]
  /\ reported = [u \in Ups |-> 0]
  /\ drift = [t \in Tasks |-> [u \in Ups |-> 0]]

\* A request reaches the selector.
Arrive(t) ==
  /\ pc[t] = "ready"
  /\ issued < setting.requests
  /\ issued' = issued + 1
  /\ Goto(t, "next")
  /\ UNCHANGED <<total, inflight, selVars, token, poller, chosen, routed, reported, drift>>

Index == counter % N

\* Fixed::next and RoundRobin::next: no load is tracked, the token is -1.
NextUncounted(t) ==
  /\ pc[t] = "next"
  /\ Kind \in {"Fixed", "RoundRobin"}
  /\ Choose(t, IF Kind = "Fixed" THEN 0 ELSE Index)
  /\ counter' = IF Kind = "Fixed" THEN counter ELSE counter + 1
  /\ token' = [token EXCEPT ![t] = -1]
  /\ Goto(t, "hold")
  /\ UNCHANGED <<total, inflight, at, load, poller, issued, routed, reported, drift>>

\* CountingRoundRobin::next, up to its call of pick.
NextCounting(t) ==
  /\ pc[t] = "next"
  /\ Kind = "CountingRoundRobin"
  /\ Choose(t, Index)
  /\ counter' = counter + 1
  /\ Goto(t, "pickTotal")
  /\ UNCHANGED <<total, inflight, at, load, token, poller, issued, routed, reported, drift>>

\* LeastConn::next: the first load, ...
ScanFirst(t) ==
  /\ pc[t] = "next"
  /\ Kind = "LeastConn"
  /\ best' = [best EXCEPT ![t] = 0]
  /\ load' = [load EXCEPT ![t] = inflight[0]]
  /\ at' = [at EXCEPT ![t] = 1]
  /\ Goto(t, "scan")
  /\ UNCHANGED <<counter, total, inflight, token, poller, issued, chosen, routed, reported, drift>>

BestLoad(t) == inflight[at[t]]

\* ... one turn of the loop; a tie is kept or taken by a random draw, ...
ScanNext(t) ==
  /\ pc[t] = "scan"
  /\ at[t] < N
  /\ \/ /\ inflight[at[t]] < load[t]
        /\ best' = [best EXCEPT ![t] = at[t]]
        /\ load' = [load EXCEPT ![t] = BestLoad(t)]
     \/ /\ inflight[at[t]] = load[t]
        /\ best' = [best EXCEPT ![t] = at[t]]
        /\ UNCHANGED load
     \/ /\ inflight[at[t]] >= load[t]
        /\ UNCHANGED <<best, load>>
  /\ at' = [at EXCEPT ![t] = @ + 1]
  /\ UNCHANGED <<counter, total, inflight, pc, token, poller, issued, chosen, routed, reported, drift>>

\* ... and the end of the loop.
ScanDone(t) ==
  /\ pc[t] = "scan"
  /\ at[t] = N
  /\ Choose(t, best[t])
  /\ Goto(t, "pickTotal")
  /\ UNCHANGED <<counter, total, inflight, at, load, token, poller, issued, routed, reported, drift>>

\* P2C::next: draw i from 0..n and j from 0..n-1, skip j over i, load j.
\* With a single upstream the second range is empty, and drawing from it panics.
Draw(t) ==
  /\ pc[t] = "next"
  /\ Kind = "P2C"
  /\ IF N = 1
     THEN /\ Goto(t, "panicked")
          /\ UNCHANGED <<at, best, load>>
     ELSE \E i \in 0 .. N - 1, r \in 0 .. N - 2 :
            LET j == IF r >= i THEN r + 1 ELSE r IN
              /\ best' = [best EXCEPT ![t] = i]
              /\ at' = [at EXCEPT ![t] = j]
              /\ load' = [load EXCEPT ![t] = inflight[j]]
              /\ Goto(t, "compare")
  /\ UNCHANGED <<counter, total, inflight, token, poller, issued, chosen, routed, reported, drift>>

Less(j, i) == j < i

\* P2C::next: load i, and keep it unless j was less loaded.
Compare(t) ==
  /\ pc[t] = "compare"
  /\ Choose(t, IF Less(load[t], inflight[best[t]]) THEN at[t] ELSE best[t])
  /\ Goto(t, "pickTotal")
  /\ UNCHANGED <<counter, total, inflight, at, load, token, poller, issued, routed, reported, drift>>

\* Counters::pick: count the request, ...
PickTotal(t) ==
  /\ pc[t] = "pickTotal"
  /\ total' = [total EXCEPT ![best[t]] = @ + 1]
  /\ routed' = [routed EXCEPT ![best[t]] = @ + 1]
  /\ Goto(t, "pickInflight")
  /\ UNCHANGED <<inflight, selVars, token, poller, issued, chosen, reported, drift>>

Raised(u) == [inflight EXCEPT ![u] = @ + 1]

\* ... then raise the gauge and return the index as token; next() is over and
\* its locals are gone.
PickInflight(t) ==
  /\ pc[t] = "pickInflight"
  /\ inflight' = Raised(best[t])
  /\ token' = [token EXCEPT ![t] = best[t]]
  /\ Disturb(t, best[t])
  /\ at' = [at EXCEPT ![t] = 0]
  /\ load' = [load EXCEPT ![t] = 0]
  /\ Goto(t, "hold")
  /\ UNCHANGED <<counter, total, best, poller, issued, chosen, routed, reported>>

Tracked(tok) == tok >= 0

\* The forward has ended, well or not: release(token).
Release(t) ==
  /\ pc[t] = "hold"
  /\ \/ /\ Tracked(token[t])
        /\ inflight' = [inflight EXCEPT ![token[t]] = @ - 1]
        /\ Disturb(t, token[t])
     \/ /\ ~Tracked(token[t])
        /\ UNCHANGED <<inflight, drift>>
  /\ Goto(t, "ready")
  /\ UNCHANGED <<total, selVars, token, poller, issued, chosen, routed, reported>>

\* The client resets its stream while the request is being forwarded: the
\* future is dropped between next() and release().
Cancel(t) ==
  /\ setting.cancel
  /\ pc[t] = "hold"
  /\ Goto(t, "ready")
  /\ UNCHANGED <<total, inflight, selVars, token, poller, issued, chosen, routed, reported, drift>>

-----------------------------------------------------------------------------
\* Counters::stats(reset = true), one upstream after the other: load the total,
\* then subtract what was loaded.  After the last upstream the poller asks
\* again.  (stats(false) and the load of inflight change nothing.)
StatsLoad(p) ==
  /\ poller[p].step = "load"
  /\ poller' = [poller EXCEPT ![p].seen = total[poller[p].at], ![p].step = "sub"]
  /\ UNCHANGED <<total, inflight, pc, selVars, token, issued, chosen, routed, reported, drift>>

Remaining(now, seen) == now - seen

StatsReset(p) ==
  /\ poller[p].step = "sub"
  /\ LET u == poller[p].at IN
       /\ total' = [total EXCEPT ![u] = Remaining(@, poller[p].seen)]
       /\ reported' = [reported EXCEPT ![u] = @ + poller[p].seen]
  /\ poller' = [poller EXCEPT ![p].at = (@ + 1) % N, ![p].step = "load"]
  /\ UNCHANGED <<inflight, pc, selVars, token, issued, chosen, routed, drift>>

-----------------------------------------------------------------------------
RequestStep(t) ==
  \/ Arrive(t) \/ NextUncounted(t) \/ NextCounting(t)
  \/ ScanFirst(t) \/ ScanNext(t) \/ ScanDone(t) \/ Draw(t) \/ Compare(t)
  \/ PickTotal(t) \/ PickInflight(t) \/ Release(t) \/ Cancel(t)

\* serve_stats: a GET of /stats?reset=1.
StatsStep(p) == StatsLoad(p) \/ StatsReset(p)

Next ==
  /\ \/ \E t \in Tasks : RequestStep(t)
     \/ \E p \in setting.pollers : StatsStep(p)
  /\ UNCHANGED setting

Spec == Init /\ [][Next]_vars

-----------------------------------------------------------------------------
PC == {"ready", "next", "scan", "compare", "pickTotal", "pickInflight", "hold", "panicked"}

TypeOK ==
  /\ setting \in Settings
  /\ counter \in Nat
  /\ total \in [Ups -> Int]
  /\ inflight \in [Ups -> Int]
  /\ pc \in [Tasks -> PC]
  /\ at \in [Tasks -> 0 .. N]
  /\ best \in [Tasks -> Ups]
  /\ load \in [Tasks -> Int]
  /\ token \in [Tasks -> Ups \cup {-1}]
  /\ poller \in [setting.pollers -> [at : Ups, step : {"load", "sub"}, seen : Int]]
  /\ issued \in 0 .. setting.requests
  /\ chosen \in [Ups -> Nat]
  /\ routed \in [Ups -> Nat]
  /\ reported \in [Ups -> Int]
  /\ drift \in [Tasks -> [Ups -> Nat]]

\* The requests that hold upstream u's gauge up.
Holders(u) == {t \in Tasks : pc[t] = "hold" /\ token[t] = u}

\* The in-flight gauge counts the requests that were given the upstream and have
\* not released it ("requests currently outstanding", balancer.go:70), whatever
\* the interleaving of pick and release.  A cancelled request can only leave it
\* too high, never too low, so release never drives it negative (balancer.rs:85-95).
InflightExact ==
  \A u \in Ups :
    /\ inflight[u] >= Cardinality(Holders(u))
    /\ ~setting.cancel => inflight[u] = Cardinality(Holders(u))

\* At most one stats request at a time, as when one script measures.
OnePoller == \A p, q \in setting.pollers : p = q

\* Resets lose no request: what resets have reported plus what is still in total is
\* what was routed, although requests are routed between a reset's load and its
\* fetch_sub (balancer.rs:102-104).  When resets do not overlap, total is never
\* negative and so no request is reported twice.  Resets that overlap do report a
\* request twice: both subtract it, and total is negative until later requests make
\* up for it.
NothingLostByReset ==
  \A u \in Ups :
    /\ total[u] + reported[u] = routed[u]
    /\ OnePoller => total[u] >= 0

\* Round robin spreads evenly at every moment, not only on average: no two
\* upstreams are ever more than one request apart (balancer.rs:62-63, 132-133).
SpreadsEvenly ==
  Kind \in {"RoundRobin", "CountingRoundRobin"} =>
    \A u, v \in Ups : chosen[u] <= chosen[v] + 1

\* LeastConn reads the gauges one after the other while they move.  When its
\* scan is over the chosen upstream is least loaded up to the changes that
\* other tasks made to the two gauges meanwhile; with no interference it is a
\* minimum (balancer.rs:166-184).
LeastConnNearMinimum ==
  \A t \in Tasks : (Kind = "LeastConn" /\ pc[t] = "pickTotal") =>
    \A u \in Ups :
      inflight[best[t]] <= inflight[u] + drift[t][best[t]] + drift[t][u]

\* P2C compares two distinct upstreams: when it has chosen, some other upstream
\* is at least as loaded up to the changes made meanwhile; with no interference
\* it never picks the only most loaded one (balancer.rs:215-228).
P2CAvoidsWorst ==
  \A t \in Tasks : (Kind = "P2C" /\ pc[t] = "pickTotal") =>
    \E u \in Ups \ {best[t]} :
      inflight[best[t]] <= inflight[u] + drift[t][best[t]] + drift[t][u]
=============================================================================
