-------------------------------- MODULE FxTest --------------------------------
(***************************************************************************)
(* fxtest.App (src/fxtest/app.go): a test that makes an app, requires it to  *)
(* start, does its own things and requires it to stop.  FailNow ends the    *)
(* test's goroutine where it is, so what follows is not called; goroutines  *)
(* the app has left behind go on.  Tests are written                       *)
(* "defer fxtest.New(t, ...).RequireStart().RequireStop()".                *)
(***************************************************************************)
EXTENDS App

CONSTANTS TestStart, TestStop   \* the calls of Start and Stop

ASSUME TestCallsAssumption ==
    TestStart # TestStop /\ Procs = {TestStart, TestStop}

VARIABLE test   \* "new", "requireStart", "starting", "body", "stopping", and then
                \* "passed" or "failed"

\* Faulty variants of the steps below, used by no specification.
StartedOnlyOk ==
    /\ test = "starting" /\ caller[TestStart] = "returned"
    /\ result[TestStart] = "nil"
    /\ test' = "body"
    /\ UNCHANGED appVars

StoppedIgnoresError ==
    /\ test = "stopping" /\ caller[TestStop] = "returned"
    /\ test' = "passed"
    /\ UNCHANGED appVars

\* New fails the test if fx.New met an error.
TestNew ==
    /\ test = "new"
    /\ test' = IF appErr = "nil" THEN "requireStart" ELSE "failed"
    /\ UNCHANGED appVars

\* Start and Stop get contexts with the app's own timeouts.
RequireStart ==
    /\ test = "requireStart"
    /\ Call(TestStart, "start")
    /\ test' = "starting"

Started ==
    /\ test = "starting" /\ caller[TestStart] = "returned"
    /\ test' = IF result[TestStart] = "nil" THEN "body" ELSE "failed"
    /\ UNCHANGED appVars

RequireStop ==
    /\ test = "body"
    /\ Call(TestStop, "stop")
    /\ test' = "stopping"

Stopped ==
    /\ test = "stopping" /\ caller[TestStop] = "returned"
    /\ test' = IF result[TestStop] = "nil" THEN "passed" ELSE "failed"
    /\ UNCHANGED appVars

TestStep == TestNew \/ RequireStart \/ Started \/ RequireStop \/ Stopped

TestInit == AppInit /\ test = "new"

TestNext == /\ Alive
            /\ \/ TestStep
               \/ Body /\ UNCHANGED test

TestSpec == TestInit /\ [][TestNext]_<<appVars, test>>

-----------------------------------------------------------------------------
\* A test that passes leaves nothing behind: no hook is up and no goroutine of a
\* callback runs.
PassesWhenDown == test = "passed" => up = {} /\ Quiescent

\* A test that uses the Require methods ends, although a callback hangs.
TestEnds == test = "new" ~> test \in {"passed", "failed"} \/ ~ Alive

============================================================================
