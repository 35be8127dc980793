--------------------------- MODULE ProfileServer ---------------------------
(***************************************************************************)
(* The profiling endpoint, pprof_server.rs: concurrent GETs queue for      *)
(* PROFILE_LOCK, its holder runs a profile on the blocking pool and waits  *)
(* for it.  A client that disconnects has its handler dropped by hyper,    *)
(* and the lock with it; the blocking profile is beyond its reach and runs *)
(* to its end.  pprof allows one running profiler in a process.            *)
(***************************************************************************)
EXTENDS Integers, Sequences, Functions

CONSTANTS
  Curls,  \* clients of the endpoint
  None    \* nobody

ASSUME ProfileAssumption == None \notin Curls

VARIABLES
  curl,      \* curl[c]: "new", "wait", "ok", "error", "other" or "left"
  queue,     \* the clients that wait for PROFILE_LOCK; tokio serves them in turn
  holder,    \* whose handler holds PROFILE_LOCK
  job,       \* job[c]: c's profile on the blocking pool
  profiler   \* whose profile has the profiler running

profVars == <<curl, queue, holder, job, profiler>>

-----------------------------------------------------------------------------
(* Plausible mistakes, each of which some property must catch.              *)

\* The guard is a temporary that is dropped before the profile has run.
GuardDropped(c) == TRUE

\* A client that leaves keeps the lock, or its place in the queue.
LeaveKeeps(c) == UNCHANGED <<queue, holder>>

-----------------------------------------------------------------------------
ProfInit ==
  /\ curl = [c \in Curls |-> "new"]
  /\ queue = <<>>
  /\ holder = None
  /\ job = [c \in Curls |-> "none"]
  /\ profiler = None

\* The guard is dropped: the first in the queue has the lock.
Unlock ==
  /\ holder' = IF queue = <<>> THEN None ELSE Head(queue)
  /\ queue' = IF queue = <<>> THEN queue ELSE Tail(queue)

\* handle: another method or path is refused at once; a profile, or a flamegraph,
\* asks for the lock.
Curl(c) ==
  /\ curl[c] = "new"
  /\ \/ /\ curl' = [curl EXCEPT ![c] = "other"]
        /\ UNCHANGED <<queue, holder>>
     \/ /\ curl' = [curl EXCEPT ![c] = "wait"]
        /\ IF holder = None
           THEN holder' = c /\ UNCHANGED queue
           ELSE queue' = Append(queue, c) /\ UNCHANGED holder
  /\ UNCHANGED <<job, profiler>>

\* collect: with the lock, hand the profile to the blocking pool.
Collect(c) ==
  /\ holder = c /\ job[c] = "none"
  /\ job' = [job EXCEPT ![c] = "spawned"]
  /\ UNCHANGED <<curl, queue, holder, profiler>>

\* profile_blocking: start the profiler, which fails when one is running, ...
Build(c) ==
  /\ job[c] = "spawned"
  /\ IF profiler = None
     THEN job' = [job EXCEPT ![c] = "running"] /\ profiler' = c
     ELSE job' = [job EXCEPT ![c] = "conflict"] /\ UNCHANGED profiler
  /\ UNCHANGED <<curl, queue, holder>>

\* ... sleep, and report; the report may fail or hold no samples.
Report(c) ==
  /\ job[c] = "running"
  /\ \E end \in {"good", "bad"} : job' = [job EXCEPT ![c] = end]
  /\ profiler' = None
  /\ UNCHANGED <<curl, queue, holder>>

\* collect awaits the profile with the guard held.
ProfileOver(c) == job[c] \in {"good", "bad", "conflict"}

\* collect returns and handle answers, with 500 if the profile failed.
Answer(c) ==
  /\ holder = c /\ curl[c] = "wait" /\ job[c] # "none"
  /\ ProfileOver(c)
  /\ curl' = [curl EXCEPT ![c] = IF job[c] = "good" THEN "ok" ELSE "error"]
  /\ Unlock
  /\ UNCHANGED <<job, profiler>>

\* The handler of a client that leaves is dropped, at either await.
DropHandler(c) ==
  IF holder = c THEN Unlock
  ELSE \E i \in DOMAIN queue :
         /\ queue[i] = c
         /\ queue' = SubSeq(queue, 1, i - 1) \o SubSeq(queue, i + 1, Len(queue))
         /\ UNCHANGED holder

Disconnect(c) ==
  /\ curl[c] = "wait"
  /\ curl' = [curl EXCEPT ![c] = "left"]
  /\ DropHandler(c)
  /\ UNCHANGED <<job, profiler>>

ProfileStep(c) == Collect(c) \/ Build(c) \/ Report(c) \/ Answer(c)

ProfNext == \E c \in Curls : Curl(c) \/ ProfileStep(c) \/ Disconnect(c)

-----------------------------------------------------------------------------
ProfTypeOK ==
  /\ curl \in [Curls -> {"new", "wait", "ok", "error", "other", "left"}]
  /\ queue \in Seq(Curls) /\ IsInjective(queue)
  /\ holder \in Curls \cup {None}
  /\ job \in [Curls -> {"none", "spawned", "running", "conflict", "good", "bad"}]
  /\ profiler \in Curls \cup {None}

\* Concurrent curls queue ("so concurrent curls queue", pprof_server.rs:93): the
\* profile of a client that stays is refused only because the one that is
\* running has lost its client, whose handler gave the lock up early.
ConflictOnlyAfterLeaving ==
  \A c \in Curls :
    curl[c] = "wait" /\ job[c] = "spawned" /\ profiler # None => curl[profiler] = "left"
=============================================================================
