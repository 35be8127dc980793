------------------------------ MODULE Process ------------------------------
(***************************************************************************)
(* The proxy process around its server: the start of main (Startup) and    *)
(* the profiling endpoint (ProfileServer), which takes requests while its  *)
(* side server is up, and goes on with those it has when accept() fails.   *)
(***************************************************************************)
EXTENDS Startup, ProfileServer

vars == <<startVars, profVars>>

Init == StartInit /\ ProfInit

Start(A) == A /\ UNCHANGED profVars
Profile(A) == Running /\ A /\ UNCHANGED startVars

Next ==
  \/ Start(StartNext)
  \/ \E c \in Curls :
       \/ side["pprof"] = "up" /\ Profile(Curl(c))
       \/ Profile(ProfileStep(c))
       \/ Profile(Disconnect(c))

Spec == Init /\ [][Next]_vars

\* main, the side servers' tasks, the handlers and the blocking profiles are
\* run; clients and the errors of accept() are not bound to come.
FairSpec ==
  /\ Spec
  /\ WF_vars(Start(MainStep))
  /\ \A s \in Sides : WF_vars(Start(BindSide(s)))
  /\ \A r \in Requests : WF_vars(Start(Handle(r)))
  /\ \A c \in Curls : WF_vars(Profile(ProfileStep(c)))

-----------------------------------------------------------------------------
TypeOK == StartTypeOK /\ ProfTypeOK

\* Every client of the profiling endpoint that stays is answered, whoever before
\* it in the queue leaves, also after the endpoint has stopped to accept.
CurlsAnswered ==
  \A c \in Curls : curl[c] = "wait" ~> curl[c] # "wait" \/ ~Running
=============================================================================
