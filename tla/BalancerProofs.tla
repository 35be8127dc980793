--------------------------- MODULE BalancerProofs ---------------------------
(***************************************************************************)
(* Proofs about the selectors, for any finite set of request tasks, any    *)
(* number of upstreams and any number of stats pollers.                    *)
(*                                                                         *)
(* What LeastConn and P2C promise when they have chosen rests on what they *)
(* know on the way (Looking): the load they carry was read from a gauge    *)
(* that has moved by no more than its drift since.                         *)
(*                                                                         *)
(* The spread of round robin rests on the upstreams chosen so far being    *)
(* those of full rounds and of the first counter % N steps of one more     *)
(* (Rounds).                                                               *)
(***************************************************************************)
EXTENDS Balancer, FiniteSetTheorems, TLAPS

\* What task t knows about the gauges while it scans them (LeastConn), while it
\* compares two of them (P2C), and when it has chosen.
Scanning(t) ==
  pc[t] = "scan" =>
    /\ Kind = "LeastConn"
    /\ best[t] < at[t]
    /\ inflight[best[t]] <= load[t] + drift[t][best[t]]
    /\ \A u \in Ups : u < at[t] => load[t] <= inflight[u] + drift[t][u]

Comparing(t) ==
  pc[t] = "compare" =>
    /\ Kind = "P2C"
    /\ at[t] \in Ups \ {best[t]}
    /\ inflight[at[t]] <= load[t] + drift[t][at[t]]
    /\ load[t] <= inflight[at[t]] + drift[t][at[t]]

NearMinimum(t) ==
  (Kind = "LeastConn" /\ pc[t] = "pickTotal") =>
    \A u \in Ups :
      inflight[best[t]] <= inflight[u] + drift[t][best[t]] + drift[t][u]

NotWorst(t) ==
  (Kind = "P2C" /\ pc[t] = "pickTotal") =>
    \E u \in Ups \ {best[t]} :
      inflight[best[t]] <= inflight[u] + drift[t][best[t]] + drift[t][u]

Knows(t) == Scanning(t) /\ Comparing(t) /\ NearMinimum(t) /\ NotWorst(t)

Looking == \A t \in Tasks : Knows(t)

Inv == TypeOK /\ Looking

-----------------------------------------------------------------------------
(* Counting modulo N. *)

LEMMA Multiple ==
  ASSUME NEW n \in Nat \ {0}, NEW d \in Int, n * d > -n, n * d <= n
  PROVE  d \in {0, 1}
<1>1. d >= 2 => n * d >= n + n
  BY SMT
<1>2. d <= -1 => n * d <= -n
  BY SMT
<1> QED
  BY <1>1, <1>2

LEMMA Successor ==
  ASSUME NEW n \in Nat \ {0}, NEW q \in Int, NEW r \in 0 .. n - 1,
         NEW k \in Int, NEW s \in 0 .. n - 1, n * q + r + 1 = n * k + s
  PROVE  s = IF r + 1 = n THEN 0 ELSE r + 1
<1>1. n * (k - q) = r + 1 - s
  BY SMT
<1>2. k - q \in {0, 1}
  <2>1. n * (k - q) > -n /\ n * (k - q) <= n
    BY <1>1
  <2> QED
    BY <2>1, Multiple, k - q \in Int
<1>3. CASE k - q = 0
  <2>1. n * (k - q) = 0
    BY <1>3
  <2> QED
    BY <2>1, <1>1
<1>4. CASE k - q = 1
  <2>1. n * (k - q) = n
    BY <1>4
  <2> QED
    BY <2>1, <1>1
<1> QED
  BY <1>2, <1>3, <1>4

LEMMA ModStep ==
  ASSUME NEW c \in Nat, NEW n \in Nat \ {0}
  PROVE  /\ c % n \in 0 .. n - 1
         /\ (c + 1) % n = IF (c % n) + 1 = n THEN 0 ELSE (c % n) + 1
<1>1. \A m \in Nat : /\ m % n \in 0 .. n - 1
                     /\ m \div n \in Int
                     /\ m = n * (m \div n) + (m % n)
  BY SMT
<1>2. PICK q \in Int, r \in 0 .. n - 1 : r = c % n /\ c = n * q + r
  BY Zenon, <1>1
<1>3. PICK k \in Int, s \in 0 .. n - 1 : s = (c + 1) % n /\ c + 1 = n * k + s
  <2>1. c + 1 \in Nat
    OBVIOUS
  <2> QED
    BY Zenon, <1>1, <2>1
<1>4. n * q + r + 1 = n * k + s
  BY <1>2, <1>3
<1>5. s = IF r + 1 = n THEN 0 ELSE r + 1
  BY <1>4, Successor
<1> QED
  BY <1>2, <1>3, <1>5

-----------------------------------------------------------------------------
(* The number of upstreams and the selector are those of the start. *)

LEMMA Rigid ==
  ASSUME setting' = setting
  PROVE  N' = N /\ Ups' = Ups /\ Kind' = Kind
  BY DEF N, Ups, Kind

LEMMA SizePositive ==
  ASSUME setting \in Settings
  PROVE  N \in Nat \ {0} /\ setting.requests \in Nat /\ 0 \in Ups /\ Ups \subseteq Nat
<1>1. N \in Nat \ {0} /\ setting.requests \in Nat
  BY BalancerAssumption DEF N
<1> QED
  BY <1>1 DEF Ups

LEMMA IndexIsUpstream ==
  ASSUME setting \in Settings, counter \in Nat
  PROVE  Index \in Ups
  BY SizePositive, ModStep DEF Index, Ups

LEMMA NextRigid == [Next]_vars => setting' = setting
  BY DEF Next, vars

-----------------------------------------------------------------------------
(* The initial state. *)

LEMMA InitInv == Init => Inv
<1> SUFFICES ASSUME Init PROVE Inv
  OBVIOUS
<1>1. N \in Nat \ {0} /\ setting.requests \in Nat /\ 0 \in Ups
  BY SizePositive DEF Init
<1>2. TypeOK
  <2>1. poller \in [setting.pollers -> [at : Ups, step : {"load", "sub"}, seen : Int]]
    BY <1>1 DEF Init
  <2>2. /\ total \in [Ups -> Int] /\ inflight \in [Ups -> Int]
        /\ chosen \in [Ups -> Nat] /\ routed \in [Ups -> Nat] /\ reported \in [Ups -> Int]
        /\ drift \in [Tasks -> [Ups -> Nat]]
    BY DEF Init
  <2>3. /\ pc \in [Tasks -> PC] /\ at \in [Tasks -> 0 .. N] /\ best \in [Tasks -> Ups]
        /\ load \in [Tasks -> Int] /\ token \in [Tasks -> Ups \cup {-1}]
    BY <1>1 DEF Init, PC
  <2>4. setting \in Settings /\ counter \in Nat /\ issued \in 0 .. setting.requests
    BY <1>1 DEF Init
  <2> QED
    BY <2>1, <2>2, <2>3, <2>4 DEF TypeOK
<1>3. Looking
  BY DEF Init, Looking, Knows, Scanning, Comparing, NearMinimum, NotWorst
<1> QED
  BY <1>2, <1>3 DEF Inv

-----------------------------------------------------------------------------
(* Types. *)

\* A change of a gauge keeps drift a table of naturals.
LEMMA DisturbType ==
  ASSUME TypeOK, NEW t \in Tasks, NEW u \in Ups, Disturb(t, u)
  PROVE  drift' \in [Tasks -> [Ups -> Nat]]
  BY DEF Disturb, TypeOK

\* Deciding on an upstream keeps the types.
LEMMA ChooseType ==
  ASSUME TypeOK, NEW t \in Tasks, NEW u \in Ups, Choose(t, u)
  PROVE  best' \in [Tasks -> Ups] /\ chosen' \in [Ups -> Nat]
  BY DEF Choose, TypeOK

LEMMA StepType == TypeOK /\ Looking /\ [Next]_vars => TypeOK'
<1> SUFFICES ASSUME TypeOK, Looking, [Next]_vars PROVE TypeOK'
  OBVIOUS
<1>0. /\ setting' = setting /\ N' = N /\ Ups' = Ups
      /\ N \in Nat \ {0} /\ setting.requests \in Nat /\ 0 \in Ups
  BY NextRigid, Rigid, SizePositive DEF TypeOK
<1>1. CASE UNCHANGED vars
  BY <1>0, <1>1 DEF vars, TypeOK
<1>2. ASSUME NEW t \in Tasks, Arrive(t) PROVE TypeOK'
  BY <1>0, <1>2 DEF Arrive, Goto, selVars, TypeOK, PC
<1>3. ASSUME NEW t \in Tasks, NextUncounted(t) PROVE TypeOK'
  <2>1. best' \in [Tasks -> Ups] /\ chosen' \in [Ups -> Nat]
    BY <1>0, <1>3, IndexIsUpstream, ChooseType DEF NextUncounted, TypeOK
  <2>2. token' \in [Tasks -> Ups \cup {-1}]
    BY <1>3 DEF NextUncounted, TypeOK
  <2> QED
    BY <1>0, <1>3, <2>1, <2>2 DEF NextUncounted, Goto, TypeOK, PC
<1>4. ASSUME NEW t \in Tasks, NextCounting(t) PROVE TypeOK'
  <2>1. best' \in [Tasks -> Ups] /\ chosen' \in [Ups -> Nat]
    BY <1>4, IndexIsUpstream, ChooseType DEF NextCounting, TypeOK
  <2>2. pc' \in [Tasks -> PC] /\ counter' \in Nat
    BY <1>4 DEF NextCounting, Goto, TypeOK, PC
  <2> QED
    BY <1>0, <1>4, <2>1, <2>2 DEF NextCounting, TypeOK
<1>5. ASSUME NEW t \in Tasks, ScanFirst(t) PROVE TypeOK'
  BY <1>0, <1>5 DEF ScanFirst, Goto, TypeOK, PC
<1>6. ASSUME NEW t \in Tasks, ScanNext(t) PROVE TypeOK'
  <2>0. at[t] \in 0 .. N /\ at[t] < N
    BY <1>6 DEF ScanNext, TypeOK
  <2>1. at[t] \in Ups /\ inflight[at[t]] \in Int
    <3>1. at[t] \in 0 .. N - 1
      BY <1>0, <2>0
    <3> QED
      BY <3>1 DEF TypeOK, Ups
  <2>2. best' \in [Tasks -> Ups] /\ load' \in [Tasks -> Int]
    BY Zenon, <1>6, <2>1 DEF ScanNext, BestLoad, TypeOK
  <2>3. at' \in [Tasks -> 0 .. N]
    BY <1>0, <1>6 DEF ScanNext, TypeOK
  <2> QED
    BY <1>0, <1>6, <2>2, <2>3 DEF ScanNext, TypeOK
<1>7. ASSUME NEW t \in Tasks, ScanDone(t) PROVE TypeOK'
  <2>1. best' \in [Tasks -> Ups] /\ chosen' \in [Ups -> Nat]
    BY <1>7, ChooseType DEF ScanDone, TypeOK
  <2> QED
    BY Zenon, <1>0, <1>7, <2>1 DEF ScanDone, Goto, TypeOK, PC
<1>8. ASSUME NEW t \in Tasks, Draw(t) PROVE TypeOK'
  <2>1. CASE N = 1
    BY Zenon, <1>0, <1>8, <2>1 DEF Draw, Goto, TypeOK, PC
  <2>2. CASE N # 1
    <3>1. PICK i \in 0 .. N - 1, r \in 0 .. N - 2 :
            LET j == IF r >= i THEN r + 1 ELSE r IN
              /\ best' = [best EXCEPT ![t] = i]
              /\ at' = [at EXCEPT ![t] = j]
              /\ load' = [load EXCEPT ![t] = inflight[j]]
              /\ Goto(t, "compare")
      BY <1>8, <2>2 DEF Draw
    <3> DEFINE j == IF r >= i THEN r + 1 ELSE r
    <3>2. i \in Ups /\ j \in Ups /\ j \in 0 .. N
      BY <1>0 DEF Ups
    <3> HIDE DEF j
    <3>3. best' = [best EXCEPT ![t] = i] /\ at' = [at EXCEPT ![t] = j]
          /\ load' = [load EXCEPT ![t] = inflight[j]]
      BY <3>1 DEF j
    <3>4. best' \in [Tasks -> Ups] /\ at' \in [Tasks -> 0 .. N] /\ load' \in [Tasks -> Int]
      BY <3>2, <3>3 DEF TypeOK
    <3> QED
      BY <1>0, <1>8, <3>1, <3>4 DEF Draw, Goto, TypeOK, PC
  <2> QED
    BY <2>1, <2>2
<1>9. ASSUME NEW t \in Tasks, Compare(t) PROVE TypeOK'
  <2>1. at[t] \in Ups /\ best[t] \in Ups
    BY <1>9 DEF Compare, Looking, Knows, Comparing, TypeOK
  <2>2. best' \in [Tasks -> Ups] /\ chosen' \in [Ups -> Nat]
    BY <1>9, <2>1, ChooseType DEF Compare
  <2> QED
    BY Zenon, <1>0, <1>9, <2>2 DEF Compare, Goto, TypeOK, PC
<1>10. ASSUME NEW t \in Tasks, PickTotal(t) PROVE TypeOK'
  BY <1>0, <1>10 DEF PickTotal, Goto, selVars, TypeOK, PC
<1>11. ASSUME NEW t \in Tasks, PickInflight(t) PROVE TypeOK'
  <2>1. drift' \in [Tasks -> [Ups -> Nat]]
    BY <1>11, DisturbType DEF PickInflight, TypeOK
  <2>2. inflight' \in [Ups -> Int]
    BY <1>11 DEF PickInflight, Raised, TypeOK
  <2>3. /\ pc' \in [Tasks -> PC] /\ at' \in [Tasks -> 0 .. N]
        /\ load' \in [Tasks -> Int] /\ token' \in [Tasks -> Ups \cup {-1}]
    BY <1>0, <1>11 DEF PickInflight, Goto, TypeOK, PC
  <2> QED
    BY <1>0, <1>11, <2>1, <2>2, <2>3 DEF PickInflight, TypeOK
<1>12. ASSUME NEW t \in Tasks, Release(t) PROVE TypeOK'
  <2>1. CASE Tracked(token[t])
    <3>1. token[t] \in Ups
      BY <2>1 DEF Tracked, TypeOK
    <3>2. drift' \in [Tasks -> [Ups -> Nat]] /\ inflight' \in [Ups -> Int]
      BY <1>12, <2>1, <3>1, DisturbType DEF Release, TypeOK
    <3> QED
      BY Zenon, <1>0, <1>12, <3>2 DEF Release, Goto, selVars, TypeOK, PC
  <2>2. CASE ~Tracked(token[t])
    BY <1>0, <1>12, <2>2 DEF Release, Goto, selVars, TypeOK, PC
  <2> QED
    BY <2>1, <2>2
<1>13. ASSUME NEW t \in Tasks, Cancel(t) PROVE TypeOK'
  BY <1>0, <1>13 DEF Cancel, Goto, selVars, TypeOK, PC
<1>14. ASSUME NEW p \in setting.pollers, StatsLoad(p) PROVE TypeOK'
  <2>1. poller[p] \in [at : Ups, step : {"load", "sub"}, seen : Int]
    BY DEF TypeOK
  <2>2. poller' \in [setting.pollers -> [at : Ups, step : {"load", "sub"}, seen : Int]]
    BY <1>14, <2>1 DEF StatsLoad, TypeOK
  <2> QED
    BY <1>0, <1>14, <2>2 DEF StatsLoad, selVars, TypeOK
<1>15. ASSUME NEW p \in setting.pollers, StatsReset(p) PROVE TypeOK'
  <2>1. poller[p] \in [at : Ups, step : {"load", "sub"}, seen : Int]
    BY DEF TypeOK
  <2>2. (poller[p].at + 1) % N \in Ups
    BY <1>0, <2>1, ModStep DEF Ups
  <2>3. poller' \in [setting.pollers -> [at : Ups, step : {"load", "sub"}, seen : Int]]
    BY SMTT(30), <1>15, <2>1, <2>2 DEF StatsReset, TypeOK
  <2>4. total' \in [Ups -> Int] /\ reported' \in [Ups -> Int]
    BY <1>15, <2>1 DEF StatsReset, Remaining, TypeOK
  <2> QED
    BY <1>0, <1>15, <2>3, <2>4 DEF StatsReset, selVars, TypeOK
<1> QED
  BY <1>1, <1>2, <1>3, <1>4, <1>5, <1>6, <1>7, <1>8, <1>9, <1>10, <1>11, <1>12,
     <1>13, <1>14, <1>15 DEF Next, RequestStep, StatsStep

-----------------------------------------------------------------------------
(* What the selectors know. *)

\* A step that leaves a task's locals, its drift and the gauges alone.
LEMMA KnowsKept ==
  ASSUME NEW s \in Tasks, Knows(s), setting' = setting,
         pc'[s] = pc[s], at'[s] = at[s], best'[s] = best[s], load'[s] = load[s],
         inflight' = inflight, drift'[s] = drift[s]
  PROVE  Knows(s)'
<1>1. Ups' = Ups /\ Kind' = Kind
  BY Rigid
<1> QED
  BY <1>1 DEF Knows, Scanning, Comparing, NearMinimum, NotWorst

\* Another task moves one gauge by one: the drift makes up for it.
LEMMA KnowsDisturbed ==
  ASSUME TypeOK, NEW s \in Tasks, Knows(s), setting' = setting,
         pc'[s] = pc[s], at'[s] = at[s], best'[s] = best[s], load'[s] = load[s],
         NEW t \in Tasks \ {s}, NEW w \in Ups, Disturb(t, w),
         NEW d \in {-1, 1}, inflight' = [inflight EXCEPT ![w] = @ + d]
  PROVE  Knows(s)'
<1>1. Ups' = Ups /\ Kind' = Kind
  BY Rigid
<1>2. CASE pc[s] \notin {"scan", "compare", "pickTotal"}
  BY <1>2 DEF Knows, Scanning, Comparing, NearMinimum, NotWorst
<1>3. CASE pc[s] \in {"scan", "compare", "pickTotal"}
  <2>1. drift'[s] = [drift[s] EXCEPT ![w] = @ + 1]
    BY <1>3 DEF Disturb
  <2> DEFINE Moves(u) == /\ inflight[u] \in Int /\ drift[s][u] \in Nat
                         /\ inflight'[u] \in Int /\ drift'[s][u] \in Nat
                         /\ inflight'[u] - inflight[u] <= drift'[s][u] - drift[s][u]
                         /\ inflight[u] - inflight'[u] <= drift'[s][u] - drift[s][u]
                         /\ drift[s][u] <= drift'[s][u]
  <2>2. \A u \in Ups : Moves(u)
    BY <2>1 DEF TypeOK
  <2>3. best[s] \in Ups /\ load[s] \in Int
    BY DEF TypeOK
  <2>4. Scanning(s)'
    BY <1>1, <2>2, <2>3 DEF Knows, Scanning
  <2>5. Comparing(s)'
    <3> SUFFICES ASSUME pc[s] = "compare"
                 PROVE  /\ Kind = "P2C" /\ at[s] \in Ups \ {best[s]}
                        /\ inflight'[at[s]] <= load[s] + drift'[s][at[s]]
                        /\ load[s] <= inflight'[at[s]] + drift'[s][at[s]]
      BY <1>1 DEF Comparing
    <3>1. /\ Kind = "P2C" /\ at[s] \in Ups \ {best[s]}
          /\ inflight[at[s]] <= load[s] + drift[s][at[s]]
          /\ load[s] <= inflight[at[s]] + drift[s][at[s]]
      BY DEF Knows, Comparing
    <3>2. Moves(at[s])
      BY <2>2, <3>1
    <3> QED
      BY <2>3, <3>1, <3>2
  <2>6. NearMinimum(s)'
    <3> SUFFICES ASSUME Kind = "LeastConn", pc[s] = "pickTotal", NEW u \in Ups
                 PROVE  inflight'[best[s]] <= inflight'[u] + drift'[s][best[s]] + drift'[s][u]
      BY <1>1 DEF NearMinimum
    <3>1. inflight[best[s]] <= inflight[u] + drift[s][best[s]] + drift[s][u]
      BY DEF Knows, NearMinimum
    <3> QED
      <4>1. Moves(u) /\ Moves(best[s])
        BY <2>2, <2>3
      <4> QED
        BY <3>1, <4>1
  <2>7. NotWorst(s)'
    <3> SUFFICES ASSUME Kind = "P2C", pc[s] = "pickTotal"
                 PROVE  \E u \in Ups \ {best[s]} :
                          inflight'[best[s]] <= inflight'[u] + drift'[s][best[s]] + drift'[s][u]
      BY <1>1 DEF NotWorst
    <3>1. PICK u \in Ups \ {best[s]} :
            inflight[best[s]] <= inflight[u] + drift[s][best[s]] + drift[s][u]
      BY DEF Knows, NotWorst
    <3>2. Moves(u) /\ Moves(best[s])
      BY <2>2, <2>3
    <3>3. inflight'[best[s]] <= inflight'[u] + drift'[s][best[s]] + drift'[s][u]
      BY SMTT(30), <3>1, <3>2
    <3> QED
      BY <3>3
  <2> QED
    BY <2>4, <2>5, <2>6, <2>7 DEF Knows
<1> QED
  BY <1>2, <1>3

LEMMA StepLooking == Inv /\ [Next]_vars => Looking'
<1> SUFFICES ASSUME TypeOK, Looking, [Next]_vars, NEW s \in Tasks PROVE Knows(s)'
  BY DEF Inv, Looking
<1>0. /\ setting' = setting /\ N' = N /\ Ups' = Ups /\ Kind' = Kind
      /\ N \in Nat \ {0} /\ 0 \in Ups /\ Ups \subseteq Nat /\ Knows(s)
  BY NextRigid, Rigid, SizePositive DEF TypeOK, Looking
<1>1. /\ at[s] \in 0 .. N /\ best[s] \in Ups /\ load[s] \in Int
      /\ \A u \in Ups : inflight[u] \in Int /\ drift[s][u] \in Nat
  BY DEF TypeOK
<1>2. CASE UNCHANGED vars
  BY <1>0, <1>2, KnowsKept DEF vars
\* Steps of others that touch no gauge, and steps of s into a state in which it
\* knows nothing.
<1>3. ASSUME NEW t \in Tasks, t # s, pc' = [pc EXCEPT ![t] = pc'[t]],
             at' = [at EXCEPT ![t] = at'[t]], best' = [best EXCEPT ![t] = best'[t]],
             load' = [load EXCEPT ![t] = load'[t]], inflight' = inflight, drift' = drift
      PROVE  Knows(s)'
  BY <1>0, <1>3, KnowsKept DEF TypeOK
<1>4. ASSUME pc'[s] \notin {"scan", "compare", "pickTotal"} PROVE Knows(s)'
  BY <1>4 DEF Knows, Scanning, Comparing, NearMinimum, NotWorst
<1>5. ASSUME NEW t \in Tasks, Arrive(t) PROVE Knows(s)'
  BY <1>0, <1>3, <1>4, <1>5, KnowsKept DEF Arrive, Goto, selVars, TypeOK
<1>6. ASSUME NEW t \in Tasks, NextUncounted(t) PROVE Knows(s)'
  BY Zenon, <1>0, <1>3, <1>4, <1>6 DEF NextUncounted, Choose, Goto, TypeOK
<1>7. ASSUME NEW t \in Tasks, NextCounting(t) PROVE Knows(s)'
  <2>1. CASE t = s
    BY <1>0, <1>7, <2>1 DEF NextCounting, Goto, TypeOK, Knows, Scanning, Comparing, NearMinimum, NotWorst
  <2> QED
    BY ZenonT(30), <1>3, <1>7, <2>1 DEF NextCounting, Choose, Goto, TypeOK
<1>8. ASSUME NEW t \in Tasks, ScanFirst(t) PROVE Knows(s)'
  <2>1. CASE t = s
    <3>1. /\ pc'[s] = "scan" /\ at'[s] = 1 /\ best'[s] = 0 /\ load'[s] = inflight[0]
          /\ inflight' = inflight /\ drift' = drift /\ Kind = "LeastConn"
      BY <1>8, <2>1 DEF ScanFirst, Goto, TypeOK
    <3>2. Scanning(s)'
      <4>1. \A u \in Ups : u < 1 => u = 0 /\ inflight[0] <= inflight[u] + drift[s][u]
        <5>1. \A u \in Ups : u \in Nat /\ (u < 1 => u = 0)
          BY <1>0
        <5>2. inflight[0] \in Int /\ drift[s][0] \in Nat
          BY <1>0, <1>1
        <5>3. inflight[0] <= inflight[0] + drift[s][0]
          BY <5>2
        <5> QED
          BY <5>1, <5>3
      <4>2. inflight[0] <= inflight[0] + drift[s][0]
        BY <1>0, <1>1
      <4> QED
        BY <1>0, <3>1, <4>1, <4>2 DEF Scanning
    <3> QED
      BY <3>1, <3>2 DEF Knows, Comparing, NearMinimum, NotWorst
  <2> QED
    BY Zenon, <1>3, <1>8, <2>1 DEF ScanFirst, Goto, TypeOK
<1>9. ASSUME NEW t \in Tasks, ScanNext(t) PROVE Knows(s)'
  <2>1. CASE t = s
    <3>1. /\ pc[s] = "scan" /\ pc' = pc /\ inflight' = inflight /\ drift' = drift
          /\ at'[s] = at[s] + 1 /\ Scanning(s) /\ at[s] \in Ups
      <4>1. /\ pc[s] = "scan" /\ pc' = pc /\ inflight' = inflight /\ drift' = drift
            /\ at[s] < N /\ at' = [at EXCEPT ![s] = @ + 1]
        BY <1>9, <2>1 DEF ScanNext
      <4>2. at'[s] = at[s] + 1
        BY <4>1 DEF TypeOK
      <4>3. at[s] \in Ups
        BY <1>0, <1>1, <4>1 DEF Ups
      <4> QED
        BY <1>0, <4>1, <4>2, <4>3 DEF Knows
    <3>2. \/ best'[s] = at[s] /\ load'[s] = inflight[at[s]] /\ inflight[at[s]] <= load[s]
          \/ best'[s] = best[s] /\ load'[s] = load[s] /\ inflight[at[s]] >= load[s]
      <4>1. inflight[at[s]] \in Int /\ load[s] \in Int
        BY <1>1, <3>1
      <4>2. DOMAIN best = Tasks /\ DOMAIN load = Tasks
        BY DEF TypeOK
      <4>3. CASE /\ inflight[at[s]] < load[s] /\ best' = [best EXCEPT ![s] = at[s]]
                 /\ load' = [load EXCEPT ![s] = inflight[at[s]]]
        BY <4>1, <4>2, <4>3
      <4>4. CASE /\ inflight[at[s]] = load[s] /\ best' = [best EXCEPT ![s] = at[s]]
                 /\ load' = load
        BY <4>1, <4>2, <4>4
      <4>5. CASE inflight[at[s]] >= load[s] /\ best' = best /\ load' = load
        BY <4>5
      <4> QED
        BY Zenon, <1>9, <2>1, <4>3, <4>4, <4>5 DEF ScanNext, BestLoad
    <3>3. /\ Kind = "LeastConn" /\ best[s] < at[s]
          /\ inflight[best[s]] <= load[s] + drift[s][best[s]]
          /\ \A u \in Ups : u < at[s] => load[s] <= inflight[u] + drift[s][u]
      BY <3>1 DEF Scanning
    <3>4. best'[s] < at'[s] /\ load'[s] <= load[s] /\ load'[s] <= inflight[at[s]]
          /\ best'[s] \in Ups /\ load'[s] \in Int
      <4>1. /\ best[s] \in Nat /\ at[s] \in Nat /\ at[s] < at[s] + 1
            /\ best[s] < at[s] + 1 /\ inflight[at[s]] \in Int
        <5>1. best[s] \in Nat
          BY Zenon, <1>0, <1>1
        <5>2. at[s] \in Nat
          BY <1>0, <1>1
        <5>3. best[s] < at[s]
          BY <3>3
        <5>4. inflight[at[s]] \in Int
          BY <1>1, <3>1
        <5> QED
          BY <5>1, <5>2, <5>3, <5>4
      <4>2. CASE best'[s] = at[s] /\ load'[s] = inflight[at[s]] /\ inflight[at[s]] <= load[s]
        BY <3>1, <4>1, <4>2
      <4>3. CASE best'[s] = best[s] /\ load'[s] = load[s] /\ inflight[at[s]] >= load[s]
        BY <1>1, <3>1, <4>1, <4>3
      <4> QED
        BY <3>2, <4>2, <4>3
    <3>5. inflight[best'[s]] <= load'[s] + drift[s][best'[s]]
      BY <1>1, <3>1, <3>2, <3>3
    <3>6. ASSUME NEW u \in Ups, u < at[s] + 1 PROVE load'[s] <= inflight[u] + drift[s][u]
      <4>1. u < at[s] \/ u = at[s]
        BY <1>0, <1>1, <3>6
      <4> QED
        BY <1>1, <3>3, <3>4, <4>1
    <3>7. Scanning(s)'
      BY Zenon, <1>0, <3>1, <3>3, <3>4, <3>5, <3>6 DEF Scanning
    <3> QED
      BY <3>1, <3>7 DEF Knows, Comparing, NearMinimum, NotWorst
  <2> QED
    BY ZenonT(30), <1>3, <1>9, <2>1 DEF ScanNext, TypeOK
<1>10. ASSUME NEW t \in Tasks, ScanDone(t) PROVE Knows(s)'
  <2>1. CASE t = s
    <3>1. /\ pc[s] = "scan" /\ pc'[s] = "pickTotal" /\ at[s] = N /\ best'[s] = best[s]
          /\ inflight' = inflight /\ drift' = drift /\ Scanning(s)
      BY <1>0, <1>10, <2>1 DEF ScanDone, Choose, Goto, TypeOK, Knows
    <3>2. NearMinimum(s)'
      <4> SUFFICES ASSUME NEW u \in Ups
                   PROVE  inflight[best[s]] <= inflight[u] + drift[s][best[s]] + drift[s][u]
        BY <1>0, <3>1 DEF NearMinimum
      <4>1. u < at[s]
        BY <1>0, <3>1 DEF Ups
      <4>2. /\ inflight[best[s]] <= load[s] + drift[s][best[s]]
            /\ load[s] <= inflight[u] + drift[s][u]
        BY <3>1, <4>1 DEF Scanning
      <4>3. /\ load[s] \in Int /\ inflight[best[s]] \in Int /\ drift[s][best[s]] \in Nat
            /\ inflight[u] \in Int /\ drift[s][u] \in Nat
        BY <1>1
      <4> QED
        BY <4>2, <4>3
    <3> QED
      BY <1>0, <3>1, <3>2 DEF Knows, Scanning, Comparing, NotWorst
  <2> QED
    BY Zenon, <1>3, <1>10, <2>1 DEF ScanDone, Choose, Goto, TypeOK
<1>11. ASSUME NEW t \in Tasks, Draw(t) PROVE Knows(s)'
  <2>1. CASE t = s /\ N # 1
    <3>1. PICK i \in 0 .. N - 1, r \in 0 .. N - 2 :
            LET j == IF r >= i THEN r + 1 ELSE r IN
              /\ best' = [best EXCEPT ![s] = i]
              /\ at' = [at EXCEPT ![s] = j]
              /\ load' = [load EXCEPT ![s] = inflight[j]]
              /\ Goto(s, "compare")
      BY <1>11, <2>1 DEF Draw
    <3>2. /\ pc'[s] = "compare" /\ at'[s] \in Ups \ {best'[s]} /\ load'[s] = inflight[at'[s]]
          /\ inflight' = inflight /\ drift' = drift /\ Kind = "P2C"
      <4> DEFINE j == IF r >= i THEN r + 1 ELSE r
      <4>1. i \in Ups /\ j \in Ups /\ j # i
        BY <1>0 DEF Ups
      <4> HIDE DEF j
      <4>2. best' = [best EXCEPT ![s] = i] /\ at' = [at EXCEPT ![s] = j]
            /\ load' = [load EXCEPT ![s] = inflight[j]] /\ Goto(s, "compare")
        BY <3>1 DEF j
      <4> QED
        BY <1>11, <2>1, <4>1, <4>2 DEF Draw, Goto, TypeOK
    <3>3. Comparing(s)'
      <4>1. inflight[at'[s]] <= inflight[at'[s]] + drift[s][at'[s]]
        BY <1>1, <3>2
      <4> QED
        BY <1>0, <3>2, <4>1 DEF Comparing
    <3> QED
      BY <3>2, <3>3 DEF Knows, Scanning, NearMinimum, NotWorst
  <2>2. CASE t = s /\ N = 1
    BY SMTT(30), <1>4, <1>11, <2>2 DEF Draw, Goto, TypeOK
  <2>3. CASE t # s
    <3>1. /\ pc'[s] = pc[s] /\ at'[s] = at[s] /\ best'[s] = best[s] /\ load'[s] = load[s]
          /\ inflight' = inflight /\ drift'[s] = drift[s]
      BY <1>11, <2>3 DEF Draw, Goto, TypeOK
    <3> QED
      BY Zenon, <1>0, <3>1, KnowsKept
  <2> QED
    BY <2>1, <2>2, <2>3
<1>12. ASSUME NEW t \in Tasks, Compare(t) PROVE Knows(s)'
  <2>1. CASE t = s
    <3>1. /\ pc[s] = "compare" /\ pc'[s] = "pickTotal" /\ Comparing(s)
          /\ inflight' = inflight /\ drift' = drift
          /\ best'[s] = IF load[s] < inflight[best[s]] THEN at[s] ELSE best[s]
      BY Zenon, <1>0, <1>12, <2>1 DEF Compare, Less, Choose, Goto, TypeOK, Knows
    <3>2. NotWorst(s)'
      <4>1. CASE load[s] < inflight[best[s]]
        <5>1. /\ best[s] \in Ups \ {at[s]}
              /\ inflight[at[s]] <= inflight[best[s]] + drift[s][at[s]] + drift[s][best[s]]
          BY <1>1, <3>1, <4>1 DEF Comparing
        <5> QED
          BY Zenon, <1>0, <3>1, <4>1, <5>1 DEF NotWorst
      <4>2. CASE ~(load[s] < inflight[best[s]])
        <5>1. /\ at[s] \in Ups \ {best[s]}
              /\ inflight[best[s]] <= inflight[at[s]] + drift[s][best[s]] + drift[s][at[s]]
          BY <1>1, <3>1, <4>2 DEF Comparing
        <5> QED
          BY Zenon, <1>0, <3>1, <4>2, <5>1 DEF NotWorst
      <4> QED
        BY <4>1, <4>2
    <3> QED
      BY Zenon, <1>0, <3>1, <3>2 DEF Knows, Scanning, Comparing, NearMinimum
  <2> QED
    BY Zenon, <1>3, <1>12, <2>1 DEF Compare, Choose, Goto, TypeOK
<1>13. ASSUME NEW t \in Tasks, PickTotal(t) PROVE Knows(s)'
  BY Zenon, <1>0, <1>3, <1>4, <1>13 DEF PickTotal, Goto, selVars, TypeOK
<1>14. ASSUME NEW t \in Tasks, PickInflight(t) PROVE Knows(s)'
  <2>1. CASE t = s
    BY <1>4, <1>14, <2>1 DEF PickInflight, Goto, TypeOK
  <2>2. CASE t # s
    <3>1. /\ pc'[s] = pc[s] /\ at'[s] = at[s] /\ best'[s] = best[s] /\ load'[s] = load[s]
          /\ best[t] \in Ups /\ inflight' = [inflight EXCEPT ![best[t]] = @ + 1]
          /\ Disturb(t, best[t])
      BY <1>14, <2>2 DEF PickInflight, Raised, Goto, TypeOK
    <3> QED
      BY ZenonT(30), <1>0, <2>2, <3>1, KnowsDisturbed
  <2> QED
    BY <2>1, <2>2
<1>15. ASSUME NEW t \in Tasks, Release(t) PROVE Knows(s)'
  <2>1. CASE t = s
    BY <1>4, <1>15, <2>1 DEF Release, Goto, TypeOK
  <2>2. CASE t # s /\ Tracked(token[t])
    <3>1. /\ pc'[s] = pc[s] /\ at'[s] = at[s] /\ best'[s] = best[s] /\ load'[s] = load[s]
          /\ token[t] \in Ups /\ Disturb(t, token[t])
          /\ inflight' = [inflight EXCEPT ![token[t]] = @ - 1]
      BY <1>15, <2>2 DEF Release, Tracked, Goto, selVars, TypeOK
    <3>2. inflight' = [inflight EXCEPT ![token[t]] = @ + (-1)]
      BY Zenon, <3>1 DEF TypeOK
    <3> QED
      BY Zenon, <1>0, <2>2, <3>1, <3>2, KnowsDisturbed
  <2>3. CASE t # s /\ ~Tracked(token[t])
    BY Zenon, <1>3, <1>15, <2>3 DEF Release, Goto, selVars, TypeOK
  <2> QED
    BY <2>1, <2>2, <2>3
<1>16. ASSUME NEW t \in Tasks, Cancel(t) PROVE Knows(s)'
  BY Zenon, <1>0, <1>3, <1>4, <1>16 DEF Cancel, Goto, selVars, TypeOK
<1>17. ASSUME NEW p \in setting.pollers, StatsLoad(p) PROVE Knows(s)'
  BY <1>0, <1>17, KnowsKept DEF StatsLoad, selVars
<1>18. ASSUME NEW p \in setting.pollers, StatsReset(p) PROVE Knows(s)'
  BY <1>0, <1>18, KnowsKept DEF StatsReset, selVars
<1> QED
  BY <1>2, <1>5, <1>6, <1>7, <1>8, <1>9, <1>10, <1>11, <1>12, <1>13, <1>14, <1>15,
     <1>16, <1>17, <1>18 DEF Next, RequestStep, StatsStep

LEMMA InvHolds == Spec => []Inv
<1>1. Inv /\ [Next]_vars => Inv'
  BY StepType, StepLooking DEF Inv
<1> QED
  BY InitInv, <1>1, PTL DEF Spec

-----------------------------------------------------------------------------
(* The theorems. *)

\* Every variable of the selectors keeps its type; in particular every index the
\* selectors compute is that of an upstream (balancer.rs:62-63, 132-133, 166-184,
\* 215-228).
THEOREM TypeCorrect == Spec => []TypeOK
  BY InvHolds, PTL DEF Inv

\* LeastConn chooses a least loaded upstream up to the changes of the gauges
\* during its scan, for any number of concurrent requests (balancer.rs:166-184).
THEOREM LeastConnPromise == Spec => []LeastConnNearMinimum
<1>1. Inv => LeastConnNearMinimum
  BY DEF Inv, Looking, Knows, NearMinimum, LeastConnNearMinimum
<1> QED
  BY <1>1, InvHolds, PTL

\* P2C leaves an upstream that is at least as loaded, up to the changes of the
\* gauges meanwhile (balancer.rs:215-228).
THEOREM P2CPromise == Spec => []P2CAvoidsWorst
<1>1. Inv => P2CAvoidsWorst
  BY DEF Inv, Looking, Knows, NotWorst, P2CAvoidsWorst
<1> QED
  BY <1>1, InvHolds, PTL



\* q full rounds of round robin are over, and counter % N steps of the next.
Rounds ==
  Kind \in {"RoundRobin", "CountingRoundRobin"} =>
    \E q \in Nat : \A u \in Ups :
      chosen[u] = IF u < counter % N THEN q + 1 ELSE q

-----------------------------------------------------------------------------
(* Resets. *)

\* When nobody else resets, what a poller has loaded is still in the total.
SeenInTotal ==
  OnePoller => \A p \in setting.pollers :
    poller[p].step = "sub" => poller[p].seen <= total[poller[p].at]

Resets == NothingLostByReset /\ SeenInTotal

LEMMA StepReset == TypeOK /\ Looking /\ Resets /\ [Next]_vars => Resets'
<1> SUFFICES ASSUME TypeOK, Looking, Resets, [Next]_vars PROVE Resets'
  OBVIOUS
<1> USE DEF Resets
<1>0. setting' = setting /\ Ups' = Ups /\ OnePoller' = OnePoller /\ N' = N
  BY NextRigid, Rigid DEF OnePoller, N
<1>t. /\ poller \in [setting.pollers -> [at : Ups, step : {"load", "sub"}, seen : Int]]
      /\ total \in [Ups -> Int] /\ reported \in [Ups -> Int] /\ routed \in [Ups -> Nat]
  BY DEF TypeOK
<1>1. ASSUME UNCHANGED <<total, routed, reported, poller>> PROVE Resets'
  BY <1>0, <1>1 DEF NothingLostByReset, SeenInTotal
<1>2. ASSUME NEW t \in Tasks, PickTotal(t) PROVE Resets'
  <2>1. /\ total' = [total EXCEPT ![best[t]] = @ + 1] /\ UNCHANGED <<reported, poller>>
        /\ routed' = [routed EXCEPT ![best[t]] = @ + 1] /\ best[t] \in Ups
    BY <1>2 DEF PickTotal, TypeOK
  <2>2. NothingLostByReset'
    BY <1>0, <1>t, <2>1 DEF NothingLostByReset
  <2>3. \A u \in Ups : total'[u] >= total[u]
    BY <1>t, <2>1
  <2>4. SeenInTotal'
    BY <1>0, <1>t, <2>1, <2>3 DEF SeenInTotal
  <2> QED
    BY <2>2, <2>4
<1>3. ASSUME NEW p \in setting.pollers, StatsReset(p) PROVE Resets'
  <2> DEFINE u == poller[p].at
  <2>1. /\ u \in Ups /\ poller[p].seen \in Int /\ poller[p].step = "sub" /\ UNCHANGED routed
        /\ total' = [total EXCEPT ![u] = @ - poller[p].seen]
        /\ reported' = [reported EXCEPT ![u] = @ + poller[p].seen]
    BY <1>3, <1>t DEF StatsReset, Remaining
  <2>2. poller'[p].step = "load"
    BY <1>3, <1>t DEF StatsReset
  <2>3. OnePoller => poller[p].seen <= total[u]
    BY <2>1 DEF SeenInTotal
  <2> HIDE DEF u
  <2>4. NothingLostByReset'
    BY <1>0, <1>t, <2>1, <2>3 DEF NothingLostByReset
  <2>5. OnePoller => \A q \in setting.pollers : q = p
    BY DEF OnePoller
  <2>6. SeenInTotal'
    BY <1>0, <2>2, <2>5 DEF SeenInTotal
  <2> QED
    BY <2>4, <2>6
<1>4. ASSUME NEW t \in Tasks, RequestStep(t), ~PickTotal(t) PROVE Resets'
  BY Zenon, <1>1, <1>4 DEF RequestStep, Arrive, NextUncounted, NextCounting, ScanFirst, ScanNext,
     ScanDone, Draw, Compare, PickInflight, Release, Cancel
<1>5. ASSUME NEW p \in setting.pollers, StatsLoad(p) PROVE Resets'
  <2>1. UNCHANGED <<total, routed, reported>>
    BY <1>5 DEF StatsLoad
  <2>2. poller'[p].seen = total[poller[p].at] /\ poller'[p].at = poller[p].at
    BY <1>5, <1>t DEF StatsLoad
  <2>3. total[poller[p].at] \in Int
    BY <1>t
  <2>4. OnePoller => \A q \in setting.pollers : q = p
    BY DEF OnePoller
  <2>5. SeenInTotal'
    BY <1>0, <2>1, <2>2, <2>3, <2>4 DEF SeenInTotal
  <2> QED
    BY <1>0, <2>1, <2>5 DEF NothingLostByReset
<1> QED
  BY Zenon, <1>1, <1>2, <1>3, <1>4, <1>5 DEF Next, StatsStep, vars

-----------------------------------------------------------------------------
(* The gauge. *)

\* The requests that hold a gauge up are finitely many.
LEMMA HoldersFinite == ASSUME NEW u PROVE IsFiniteSet(Holders(u)) /\ Cardinality(Holders(u)) \in Nat
  BY BalancerAssumption, FS_Subset, FS_CardinalityType DEF Holders

LEMMA StepGauge == TypeOK /\ Looking /\ InflightExact /\ [Next]_vars => InflightExact'
<1> SUFFICES ASSUME TypeOK, Looking, InflightExact, [Next]_vars, NEW u \in Ups
             PROVE  /\ inflight'[u] >= Cardinality(Holders(u)')
                    /\ ~setting.cancel => inflight'[u] = Cardinality(Holders(u)')
  BY NextRigid, Rigid DEF InflightExact
<1> DEFINE Good == /\ inflight'[u] >= Cardinality(Holders(u)')
                   /\ ~setting.cancel => inflight'[u] = Cardinality(Holders(u)')
<1>0. /\ inflight[u] >= Cardinality(Holders(u)) /\ inflight[u] \in Int
      /\ ~setting.cancel => inflight[u] = Cardinality(Holders(u))
      /\ u # -1 /\ IsFiniteSet(Holders(u)) /\ Cardinality(Holders(u)) \in Nat
  BY HoldersFinite, SizePositive DEF InflightExact, TypeOK
<1>1. ASSUME inflight' = inflight, Holders(u)' = Holders(u) PROVE Good
  BY <1>0, <1>1
<1>2. ASSUME NEW t \in Tasks, pc[t] # "hold", pc'[t] # "hold",
             \A s \in Tasks \ {t} : pc'[s] = pc[s], token' = token, inflight' = inflight
      PROVE  Good
  BY <1>1, <1>2 DEF Holders
<1>3. ASSUME NEW t \in Tasks, NextUncounted(t) PROVE Good
  <2>1. Holders(u)' = Holders(u)
    BY Zenon, <1>0, <1>3 DEF NextUncounted, Goto, Holders, TypeOK
  <2> QED
    BY <1>1, <1>3, <2>1 DEF NextUncounted
<1>4. ASSUME NEW t \in Tasks, PickInflight(t) PROVE Good
  <2>1. CASE best[t] = u
    <3>1. Holders(u)' = Holders(u) \cup {t} /\ t \notin Holders(u)
      BY <1>4, <2>1 DEF PickInflight, Goto, Holders, TypeOK
    <3>2. Cardinality(Holders(u)') = Cardinality(Holders(u)) + 1
      BY SMTT(30), <1>0, <3>1, FS_AddElement
    <3>3. inflight'[u] = inflight[u] + 1
      BY <1>4, <2>1 DEF PickInflight, Raised, TypeOK
    <3> QED
      BY <1>0, <3>2, <3>3
  <2>2. CASE best[t] # u
    <3>1. Holders(u)' = Holders(u)
      BY <1>4, <2>2 DEF PickInflight, Goto, Holders, TypeOK
    <3>2. inflight'[u] = inflight[u]
      BY <1>4, <2>2 DEF PickInflight, Raised, TypeOK
    <3> QED
      BY <1>0, <3>1, <3>2
  <2> QED
    BY <2>1, <2>2
<1>5. ASSUME NEW t \in Tasks, Release(t) PROVE Good
  <2>1. CASE token[t] = u
    <3>1. Holders(u)' = Holders(u) \ {t} /\ t \in Holders(u)
      BY <1>5, <2>1 DEF Release, Goto, Holders, TypeOK
    <3>2. Cardinality(Holders(u)') = Cardinality(Holders(u)) - 1
      BY ZenonT(30), <1>0, <3>1, FS_RemoveElement
    <3>3. Tracked(token[t])
      BY <2>1, SizePositive DEF Tracked, TypeOK
    <3>4. inflight'[u] = inflight[u] - 1
      BY Zenon, <1>5, <2>1, <3>3 DEF Release, TypeOK
    <3> QED
      BY <1>0, <3>2, <3>4
  <2>2. CASE token[t] # u
    <3>1. Holders(u)' = Holders(u)
      BY <1>5, <2>2 DEF Release, Goto, Holders, TypeOK
    <3>2. inflight'[u] = inflight[u]
      BY <1>5, <2>2 DEF Release, Tracked, TypeOK
    <3> QED
      BY <1>0, <3>1, <3>2
  <2> QED
    BY <2>1, <2>2
<1>6. ASSUME NEW t \in Tasks, Cancel(t) PROVE Good
  <2>1. Holders(u)' \subseteq Holders(u)
    BY <1>6 DEF Cancel, Goto, Holders, TypeOK
  <2>2. Cardinality(Holders(u)') <= Cardinality(Holders(u)) /\ Cardinality(Holders(u)') \in Nat
    BY <1>0, <2>1, FS_Subset, FS_CardinalityType
  <2> QED
    BY <1>0, <1>6, <2>2 DEF Cancel
<1>7. ASSUME NEW t \in Tasks, Arrive(t) \/ NextCounting(t) PROVE Good
  BY Zenon, <1>2, <1>7 DEF Arrive, NextCounting, Goto, TypeOK
<1>8. ASSUME NEW t \in Tasks, ScanFirst(t) \/ ScanNext(t) \/ ScanDone(t) PROVE Good
  BY ZenonT(30), <1>2, <1>8 DEF ScanFirst, ScanNext, ScanDone, Goto, TypeOK
<1>9. ASSUME NEW t \in Tasks, Draw(t) PROVE Good
  <2>1. PICK l \in {"panicked", "compare"} : pc' = [pc EXCEPT ![t] = l]
    BY <1>9 DEF Draw, Goto
  <2> QED
    BY Zenon, <1>2, <1>9, <2>1 DEF Draw, TypeOK
<1>10. ASSUME NEW t \in Tasks, Compare(t) \/ PickTotal(t) PROVE Good
  BY <1>2, <1>10 DEF Compare, PickTotal, Goto, TypeOK
<1>11. ASSUME UNCHANGED <<pc, token, inflight>> PROVE Good
  BY <1>1, <1>11 DEF Holders
<1>12. ASSUME NEW p \in setting.pollers, StatsStep(p) PROVE Good
  BY <1>11, <1>12 DEF StatsStep, StatsLoad, StatsReset
<1> QED
  BY Zenon, <1>3, <1>4, <1>5, <1>6, <1>7, <1>8, <1>9, <1>10, <1>11, <1>12 DEF Next, RequestStep, vars

-----------------------------------------------------------------------------
(* Round robin. *)

LEMMA InitRounds == Init => Rounds
<1> SUFFICES ASSUME Init PROVE \E q \in Nat : \A u \in Ups :
                                 chosen[u] = IF u < counter % N THEN q + 1 ELSE q
  BY DEF Rounds
<1>1. N \in Nat \ {0} /\ Ups \subseteq Nat
  BY SizePositive DEF Init
<1>2. 0 % N = 0
  BY <1>1, SMT
<1>3. \A u \in Ups : chosen[u] = IF u < counter % N THEN 0 + 1 ELSE 0
  BY <1>1, <1>2 DEF Init
<1> QED
  BY <1>3

\* One more step of round robin: the first upstream not yet served in this round
\* is chosen, and a full round begins the next.
LEMMA RoundGoesOn ==
  ASSUME TypeOK, Rounds, Kind \in {"RoundRobin", "CountingRoundRobin"}, setting' = setting,
         NEW t \in Tasks, Choose(t, Index), counter' = counter + 1
  PROVE  Rounds'
<1>0. N' = N /\ Ups' = Ups /\ Kind' = Kind /\ N \in Nat \ {0} /\ counter \in Nat
  BY Zenon, Rigid, SizePositive DEF TypeOK
<1>1. PICK q \in Nat : \A u \in Ups : chosen[u] = IF u < counter % N THEN q + 1 ELSE q
  BY DEF Rounds
<1>2. PICK r \in 0 .. N - 1 : r = counter % N
  BY <1>0, ModStep
<1>3. counter' % N' = IF r + 1 = N THEN 0 ELSE r + 1
  BY Zenon, <1>0, <1>2, ModStep
<1>4. ASSUME NEW u \in Ups PROVE chosen'[u] = IF u < r + 1 THEN q + 1 ELSE q
  <2>1. chosen' = [chosen EXCEPT ![r] = @ + 1]
    BY <1>2 DEF Choose, Index
  <2>2. u \in 0 .. N - 1
    BY DEF Ups
  <2>3. chosen[u] = IF u < r THEN q + 1 ELSE q
    BY <1>1, <1>2
  <2>4. chosen'[u] = IF u = r THEN chosen[u] + 1 ELSE chosen[u]
    BY <2>1 DEF TypeOK
  <2> QED
    BY <1>0, <2>2, <2>3, <2>4
<1>5. CASE r + 1 = N
  <2>1. \A u \in Ups : u < r + 1 /\ ~(u < 0)
    BY <1>0, <1>5 DEF Ups
  <2>2. \A u \in Ups : chosen'[u] = IF u < 0 THEN (q + 1) + 1 ELSE q + 1
    BY <1>4, <2>1
  <2>3. q + 1 \in Nat
    OBVIOUS
  <2> QED
    BY <1>0, <1>3, <1>5, <2>2, <2>3 DEF Rounds
<1>6. CASE r + 1 # N
  BY <1>0, <1>3, <1>4, <1>6 DEF Rounds
<1> QED
  BY <1>5, <1>6

LEMMA StepRounds == TypeOK /\ Looking /\ Rounds /\ [Next]_vars => Rounds'
<1> SUFFICES ASSUME TypeOK, Looking, Rounds, [Next]_vars PROVE Rounds'
  OBVIOUS
<1>0. setting' = setting /\ N' = N /\ Ups' = Ups /\ Kind' = Kind
  BY NextRigid, Rigid
<1>1. ASSUME UNCHANGED <<counter, chosen>> PROVE Rounds'
  BY <1>0, <1>1 DEF Rounds
<1>2. ASSUME Kind \notin {"RoundRobin", "CountingRoundRobin"} PROVE Rounds'
  BY <1>0, <1>2 DEF Rounds
<1>3. ASSUME NEW t \in Tasks, NextUncounted(t) PROVE Rounds'
  <2>1. CASE Kind = "Fixed"
    BY <1>2, <2>1
  <2>2. CASE Kind = "RoundRobin"
    BY <1>0, <1>3, <2>2, RoundGoesOn DEF NextUncounted
  <2> QED
    BY <1>3, <2>1, <2>2 DEF NextUncounted
<1>4. ASSUME NEW t \in Tasks, NextCounting(t) PROVE Rounds'
  BY <1>0, <1>4, RoundGoesOn DEF NextCounting
<1>5. ASSUME NEW t \in Tasks, ScanDone(t) PROVE Rounds'
  BY <1>2, <1>5 DEF ScanDone, Looking, Knows, Scanning
<1>6. ASSUME NEW t \in Tasks, Compare(t) PROVE Rounds'
  BY Zenon, <1>2, <1>6 DEF Compare, Looking, Knows, Comparing
<1>7. ASSUME NEW t \in Tasks, Arrive(t) \/ ScanFirst(t) \/ ScanNext(t) \/ Draw(t) PROVE Rounds'
  BY SMTT(30), <1>1, <1>7 DEF Arrive, ScanFirst, ScanNext, Draw, selVars
<1>8. ASSUME NEW t \in Tasks, PickTotal(t) \/ PickInflight(t) \/ Release(t) \/ Cancel(t) PROVE Rounds'
  BY Zenon, <1>1, <1>8 DEF PickTotal, PickInflight, Release, Cancel, selVars
<1>9. ASSUME NEW p \in setting.pollers, StatsStep(p) PROVE Rounds'
  BY <1>1, <1>9 DEF StatsStep, StatsLoad, StatsReset, selVars
<1> QED
  BY <1>1, <1>3, <1>4, <1>5, <1>6, <1>7, <1>8, <1>9 DEF Next, RequestStep, vars

-----------------------------------------------------------------------------
(* The theorems. *)

\* Any number of overlapping resets lose no routed request, and resets that do not
\* overlap report none twice (balancer.rs:97-113).
THEOREM ResetsLoseNothing == Spec => []NothingLostByReset
<1>1. Init => Resets
  <2> SUFFICES ASSUME Init PROVE Resets
    OBVIOUS
  <2>1. \A u \in Ups : total[u] = 0 /\ reported[u] = 0 /\ routed[u] = 0
    BY Zenon DEF Init
  <2>2. NothingLostByReset
    BY <2>1 DEF NothingLostByReset
  <2>3. \A p \in setting.pollers : poller[p].step = "load"
    BY Zenon DEF Init
  <2> QED
    BY <2>2, <2>3 DEF Resets, SeenInTotal
<1>2. Inv /\ Resets /\ [Next]_vars => Resets'
  BY StepReset DEF Inv
<1>3. Resets => NothingLostByReset
  BY DEF Resets
<1> QED
  BY <1>1, <1>2, <1>3, InvHolds, PTL DEF Spec

\* The gauge counts the requests between pick and release, exactly if none is
\* cancelled and never too low if some are (balancer.rs:85-95).
THEOREM GaugeExact == Spec => []InflightExact
<1>1. Init => InflightExact
  <2> SUFFICES ASSUME Init PROVE InflightExact
    OBVIOUS
  <2>1. \A u \in Ups : Holders(u) = {} /\ inflight[u] = 0
    BY DEF Init, Holders
  <2> QED
    BY <2>1, FS_EmptySet DEF InflightExact
<1>2. Inv /\ InflightExact /\ [Next]_vars => InflightExact'
  BY StepGauge DEF Inv
<1> QED
  BY <1>1, <1>2, InvHolds, PTL DEF Spec

\* Round robin never leaves two upstreams more than one request apart, however
\* its callers interleave (balancer.rs:60-65, 131-135).
THEOREM EvenSpread == Spec => []SpreadsEvenly
<1>1. Inv /\ Rounds /\ [Next]_vars => Rounds'
  BY StepRounds DEF Inv
<1>2. Rounds => SpreadsEvenly
  <2> SUFFICES ASSUME Rounds, Kind \in {"RoundRobin", "CountingRoundRobin"}, NEW u \in Ups, NEW v \in Ups
               PROVE  chosen[u] <= chosen[v] + 1
    BY DEF SpreadsEvenly
  <2>1. PICK q \in Nat : \A w \in Ups : chosen[w] = IF w < counter % N THEN q + 1 ELSE q
    BY DEF Rounds
  <2>2. chosen[u] \in {q, q + 1} /\ chosen[v] \in {q, q + 1}
    BY <2>1
  <2> QED
    BY <2>2
<1> QED
  BY <1>1, <1>2, InitRounds, InvHolds, PTL DEF Spec
=============================================================================
