-------------------------------- MODULE MCApp --------------------------------
(* TLC instances of App. *)
EXTENDS App, TLC

CONSTANTS c1, c2, c3

FullHook == [onStart |-> TRUE, onStop |-> TRUE]
FullKind == {FullHook}

FairPatientSpec   == PatientSpec /\ CodeRuns
FairHastySpec     == HastySpec /\ CodeRuns
EndingPatientSpec == FairPatientSpec /\ CallbacksReturn

\* A client that makes its calls in the order c1, c2, c3, each as soon as the one
\* before has returned: it starts the app, stops it and stops it again, or, when
\* one hook is appended, starts it twice and stops it.  Hooks are appended first.
RaceCall ==
    \/ hooks # <<>> /\ Call(c1, "start")
    \/ caller[c1] = "returned" /\ Call(c2, "stop")
    \/ caller[c1] = "returned" /\ Len(hooks) = 1 /\ Call(c2, "start")
    \/ caller[c2] = "returned" /\ Call(c3, "stop")

RaceNext ==
    /\ Alive
    /\ RaceCall \/ Body
    /\ hooks' # hooks => caller[c1] = "idle"

RaceSpec == AppInit /\ [][RaceNext]_appVars

\* The part of it in which the app is stopped once it is known to be up.
StopTwiceNext == RaceNext /\ (stage'[c2] # "none" => result[c1] = "nil")

StopTwiceSpec == AppInit /\ [][StopTwiceNext]_appVars

============================================================================
