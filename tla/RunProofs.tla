------------------------------ MODULE RunProofs ------------------------------
(***************************************************************************)
(* Theorems about the two clients of App that the repository ships, Run and *)
(* FxTest: both are patient, so what App promises a patient client holds of *)
(* them, and both end well only when the app is down.                      *)
(***************************************************************************)
EXTENDS Run, FxTest, AppProofs

USE ProcsAssumption, MaxHooksAssumption, KindsAssumption, FailuresAssumption,
    EndingsAssumption

-----------------------------------------------------------------------------
(* App under any patient client. *)

AppInv == AppTypeOK /\ Places /\ OneOpen /\ IInv /\ Answers

\* What nil from a call says: its goroutine is done, and after a Stop nothing is up
\* and nobody is at work.
Told(k) ==
    caller[k] = "returned" /\ result[k] = "nil" =>
        /\ stage[k] = "done"
        /\ op[k] = "stop" => up = {} /\ \A j \in Procs : Settled(j)
AllTold == \A k \in Procs : Told(k)

\* App starts with no call made.
LEMMA AppInvInit ==
    ASSUME AppInit
    PROVE  AppInv /\ AllTold /\ fresh /\ \A k \in Procs : op[k] = "none"
  <1>1. Init /\ IInv /\ TypeOK
    BY InitIInv, InitType DEF AppInit
  <1>2. AppTypeOK
    BY <1>1 DEF AppInit, AppTypeOK, CallerPC, CtxState, Stage, Error
  <1>3. Places
    BY InitPlaces
  <1>4. OneOpen
    BY DEF AppInit, OneOpen, Open, Settled, Returned
  <1>5. Answers
    <2>1. \A k \in Procs : pc[k] = "idle"
      BY <1>1 DEF Init
    <2> QED  BY <2>1 DEF AppInit, Answers, AnswerOf
  <1>6. fresh
    BY <1>1 DEF Init
  <1> QED
    BY <1>1, <1>2, <1>3, <1>4, <1>5, <1>6 DEF AppInit, AppInv, AllTold, Told

\* Every step of a patient client keeps what is known of App.
LEMMA AppInvStep ==
    ASSUME AppInv, [PatientNext]_appVars
    PROVE  AppInv'
  <1>1. [AnyNext]_appVars
    BY DEF PatientNext, PatientCall, AnyNext, AnyCall
  <1>2. AppTypeOK'
    BY <1>1, AppStepType DEF AppInv
  <1>3. Places'
    BY <1>1, PlacesStep DEF AppInv
  <1>4. OneOpen'
    BY OneOpenStep DEF AppInv
  <1>5. IInv'
    BY SerialStep, StepKeepsIInv DEF AppInv, AppTypeOK
  <1>6. Answers'
    BY <1>4, AnswersStep DEF AppInv
  <1> QED  BY <1>2, <1>3, <1>4, <1>5, <1>6 DEF AppInv

\* A call that is settled has left the lifecycle.
LEMMA SettledIsOut ==
    ASSUME AppInv, NEW k \in Procs, Settled(k)
    PROVE  pc[k] = "idle"
  BY DEF AppInv, Places, PlaceOf, Settled

\* What the calls were told stays true when App and its environment go on.
LEMMA BodyTold ==
    ASSUME AppInv, AllTold, Body \/ UNCHANGED appVars
    PROVE  AllTold' /\ UNCHANGED op
  <1>1. CASE UNCHANGED <<op, caller, stage, result, up>>
    BY <1>1 DEF AllTold, Told, Settled, Returned
  <1>2. Environment \/ UNCHANGED appVars => UNCHANGED <<op, caller, stage, result, up>>
    BY DEF appVars, vars, callVars, Environment, AppendHook, CtxEnds
  <1>3. ASSUME NEW k \in Procs,
               GoroutineStep(k) \/ CallbackReturns(k) \/ CallerStep(k)
        PROVE  AllTold' /\ UNCHANGED op
    <2>1. /\ Open(k) /\ UNCHANGED op
          /\ \A j \in Procs : j # k =>
                caller'[j] = caller[j] /\ stage'[j] = stage[j] /\ Settled(j)
      BY <1>3, CallStep, OthersAreOut DEF AppInv
    <2>2. ASSUME NEW j \in Procs, j # k  PROVE Told(j)'
      <3>1. result'[j] = result[j]
        BY <1>3, <2>2
           DEF AppInv, AppTypeOK, GoroutineStep, ShortCircuit, Enter, StartOk,
               StartFailed, RollbackDone, StopDone, Send, CallbackReturns, callVars,
               CallerStep, SelectCtx, SelectChan, Answer, ReadRecords, ReadRunning
      <3>2. caller[j] = "returned" /\ result[j] = "nil" => op[j] # "stop"
        BY <2>1 DEF AllTold, Told, Open
      <3> QED  BY <2>1, <2>2, <3>1, <3>2 DEF AllTold, Told
    <2>3. Told(k)'
      <3> SUFFICES ASSUME caller'[k] = "returned", result'[k] = "nil"
                   PROVE  /\ stage'[k] = "done"
                          /\ op'[k] = "stop" => up' = {} /\ \A j \in Procs : Settled(j)'
        BY DEF Told
      <3>1. CASE caller[k] = "returned"
        <4>1. ~ CallerStep(k)
          BY <3>1 DEF CallerStep, SelectCtx, SelectChan, ReadRecords, ReadRunning
        <4>2. result'[k] = result[k]
          BY <1>3, <4>1
             DEF GoroutineStep, ShortCircuit, Enter, StartOk, StartFailed,
                 RollbackDone, StopDone, Send, CallbackReturns, callVars
        <4>3. stage[k] = "done"
          BY <3>1, <4>2 DEF AllTold, Told
        <4> QED  BY <2>1, <3>1, <4>3 DEF Open, Settled, Returned
      <3>2. CASE caller[k] # "returned"
        <4>1. CallerStep(k)
          BY <1>3, <3>2
             DEF GoroutineStep, ShortCircuit, Enter, StartOk, StartFailed,
                 RollbackDone, StopDone, Send, CallbackReturns, callVars
        <4>2. SelectChan(k) /\ chan[k] = "nil"
          BY <4>1, <3>2
             DEF CallerStep, SelectCtx, SelectChan, ReadRecords, ReadRunning, Answer,
                 AppInv, AppTypeOK, CtxState, CallerPC
        <4>3. stage[k] = "done" /\ (op[k] = "stop" => up = {})
          BY <4>2 DEF SelectChan, AppInv, Answers, AnswerOf
        <4>4. UNCHANGED <<stage, up>>
          BY <4>2 DEF SelectChan, vars
        <4> QED  BY <2>1, <4>3, <4>4 DEF Settled, Returned
      <3> QED  BY <3>1, <3>2
    <2> QED  BY <2>1, <2>2, <2>3 DEF AllTold
  <1> QED  BY <1>1, <1>2, <1>3 DEF Body

\* So it does when a call is made before any Stop.
LEMMA CallTold ==
    ASSUME AppInv, AllTold, NEW c \in Procs, NEW o, Call(c, o),
           \A k \in Procs : op[k] # "stop"
    PROVE  /\ AllTold' /\ op'[c] = o
           /\ \A k \in Procs : k # c =>
                 op'[k] = op[k] /\ caller'[k] = caller[k] /\ result'[k] = result[k]
  <1>1. /\ caller[c] = "idle" /\ caller'[c] = "select" /\ op'[c] = o
        /\ \A k \in Procs : k # c =>
              op'[k] = op[k] /\ caller'[k] = caller[k] /\ stage'[k] = stage[k]
        /\ UNCHANGED <<result, up>>
    BY DEF Call, AppInv, AppTypeOK, vars
  <1> QED  BY <1>1 DEF AllTold, Told

\* A call that was not made, or was answered with nil, is settled.
LEMMA SettledCalls ==
    ASSUME AppInv, AllTold, NEW k \in Procs,
           \/ op[k] = "none"
           \/ caller[k] = "returned" /\ result[k] = "nil"
    PROVE  Settled(k)
  BY DEF AppInv, Places, PlaceOf, AppTypeOK, Stage, AllTold, Told, Settled, Returned
-----------------------------------------------------------------------------
(* Run. *)

\* Where Run is tells which calls it has made.
MainInv ==
    /\ main \in {"notify", "register", "start"} =>
          fresh /\ \A k \in Procs : op[k] = "none"
    /\ main \in {"starting", "wait", "stop"} =>
          op[StartCall] = "start" /\ op[StopCall] = "none"
    /\ main \in {"wait", "stop"} =>
          caller[StartCall] = "returned" /\ result[StartCall] = "nil"
    /\ main = "stopping" => op[StopCall] = "stop"
    /\ main = "returned" => up = {} /\ Quiescent

RunInv == AppInv /\ AllTold /\ MainInv

\* Run makes its calls when everything is settled.
LEMMA RunCalls ==
    ASSUME RunInv, MainStart \/ MainStop
    PROVE  PatientCall
  <1>1. Procs = {StartCall, StopCall}
    BY CallsAssumption
  <1>2. CASE MainStart
    <2>1. main = "start" /\ Call(StartCall, "start")
      BY <1>2 DEF MainStart
    <2>2. fresh /\ \A k \in Procs : op[k] = "none"
      BY <2>1 DEF RunInv, MainInv
    <2>3. \A k \in Procs : Settled(k)
      BY <2>2, SettledCalls DEF RunInv
    <2> QED  BY <1>1, <2>1, <2>2, <2>3 DEF PatientCall
  <1>3. CASE MainStop
    <2>1. main = "stop" /\ Call(StopCall, "stop")
      BY <1>3 DEF MainStop
    <2>2. Settled(StartCall) /\ Settled(StopCall)
      BY <1>1, <2>1, SettledCalls DEF RunInv, MainInv
    <2> QED  BY <1>1, <2>1, <2>2 DEF PatientCall
  <1> QED  BY <1>2, <1>3

\* Every step of Run is one of a patient client, or leaves App alone.
LEMMA RunSteps ==
    ASSUME RunInv, [RunNext]_runVars
    PROVE  [PatientNext]_appVars
  <1>1. Body /\ Alive => PatientNext
    BY DEF PatientNext
  <1>2. MainStart \/ MainStop => PatientCall
    BY RunCalls
  <1> QED
    BY <1>1, <1>2
       DEF RunNext, runVars, MainStep, MainNotify, MainRegister, MainStarted,
           MainReceive, MainStopped, AppStep, Kill, CallShutdown, ShutterStep,
           PatientNext

\* While no call is made, Run is where it was told the truth.
LEMMA MainKeeps ==
    ASSUME RunInv, Body \/ UNCHANGED appVars, UNCHANGED main, main # "returned"
    PROVE  MainInv'
  <1>1. UNCHANGED op
    BY BodyTold DEF RunInv
  <1>2. CASE main \in {"notify", "register", "start"}
    <2>1. \A k \in Procs : Settled(k)
      BY <1>2, SettledCalls DEF RunInv, MainInv
    <2>2. ~ \E k \in Procs : GoroutineStep(k) \/ CallbackReturns(k) \/ CallerStep(k)
      BY <2>1, CallStep DEF RunInv, AppInv, Open
    <2>3. UNCHANGED fresh
      BY <2>2 DEF Body, Environment, AppendHook, CtxEnds, appVars, vars
    <2> QED  BY <1>1, <1>2, <2>3 DEF RunInv, MainInv
  <1>3. CASE main \in {"wait", "stop"}
    <2>1. \A k \in Procs : Settled(k)
      <3>1. Procs = {StartCall, StopCall}
        BY CallsAssumption
      <3>2. Settled(StartCall) /\ Settled(StopCall)
        BY <1>3, <3>1, SettledCalls DEF RunInv, MainInv
      <3> QED  BY <3>1, <3>2
    <2>2. ~ \E k \in Procs : GoroutineStep(k) \/ CallbackReturns(k) \/ CallerStep(k)
      BY <2>1, CallStep DEF RunInv, AppInv, Open
    <2>3. UNCHANGED <<caller, result>>
      BY <2>2 DEF Body, Environment, AppendHook, CtxEnds, appVars, callVars
    <2> QED  BY <1>1, <1>3, <2>3 DEF RunInv, MainInv
  <1>4. CASE main \notin {"notify", "register", "start", "wait", "stop"}
    BY <1>1, <1>4 DEF RunInv, MainInv
  <1> QED  BY <1>2, <1>3, <1>4

\* Every step of Run keeps its invariant.
LEMMA RunStepInv ==
    ASSUME RunInv, [RunNext]_runVars
    PROVE  RunInv'
  <1>1. AppInv'
    BY RunSteps, AppInvStep DEF RunInv
  <1>2. Procs = {StartCall, StopCall} /\ StartCall # StopCall
    BY CallsAssumption
  <1>3. ASSUME Body \/ UNCHANGED appVars, UNCHANGED main, main # "returned"
        PROVE  RunInv'
    BY <1>1, <1>3, BodyTold, MainKeeps DEF RunInv
  <1>4. CASE UNCHANGED runVars
    <2>1. AllTold'
      BY <1>4, BodyTold DEF RunInv, runVars
    <2>2. MainInv'
      BY <1>4
         DEF runVars, appVars, vars, frame, callVars, RunInv, MainInv, Quiescent
    <2> QED  BY <1>1, <2>1, <2>2 DEF RunInv
  <1>5. CASE AppStep /\ ~ Ended
    BY <1>3, <1>5 DEF AppStep, Ended
  <1>6. CASE ~ Ended /\ (Kill \/ \E b \in Shutters : CallShutdown(b) \/ ShutterStep(b))
    BY <1>3, <1>6 DEF Kill, CallShutdown, ShutterStep, Ended
  <1>7. CASE MainStart
    <2>1. main = "start" /\ Call(StartCall, "start") /\ main' = "starting"
      BY <1>7 DEF MainStart, MainGoto
    <2>2. \A k \in Procs : op[k] = "none"
      BY <2>1 DEF RunInv, MainInv
    <2>3. AllTold' /\ op'[StartCall] = "start" /\ op'[StopCall] = "none"
      BY <1>2, <2>1, <2>2, CallTold DEF RunInv
    <2> QED  BY <1>1, <2>1, <2>3 DEF RunInv, MainInv
  <1>8. CASE MainStop
    <2>1. main = "stop" /\ Call(StopCall, "stop") /\ main' = "stopping"
      BY <1>8 DEF MainStop, MainGoto
    <2>2. op[StartCall] = "start" /\ op[StopCall] = "none"
      BY <2>1 DEF RunInv, MainInv
    <2>3. AllTold' /\ op'[StopCall] = "stop"
      BY <1>2, <2>1, <2>2, CallTold DEF RunInv
    <2> QED  BY <1>1, <2>1, <2>3 DEF RunInv, MainInv
  <1>9. CASE MainNotify \/ MainRegister \/ MainStarted \/ MainReceive
    <2>1. /\ UNCHANGED appVars
          /\ \/ main = "notify" /\ main' = "register"
             \/ main = "register" /\ main' = "start"
             \/ /\ main = "starting" /\ caller[StartCall] = "returned"
                /\ main' = IF result[StartCall] = "nil" THEN "wait" ELSE "exit1"
             \/ main = "wait" /\ main' = "stop"
      BY <1>9 DEF MainNotify, MainRegister, MainStarted, MainReceive, MainGoto
    <2>2. AllTold'
      BY <2>1, BodyTold DEF RunInv
    <2>3. UNCHANGED <<fresh, op, caller, result>>
      BY <2>1 DEF appVars, vars, callVars
    <2>4. MainInv'
      BY <2>1, <2>3 DEF RunInv, MainInv
    <2> QED  BY <1>1, <2>2, <2>4 DEF RunInv
  <1>10. CASE MainStopped
    <2>1. /\ UNCHANGED appVars /\ main = "stopping" /\ caller[StopCall] = "returned"
          /\ main' = IF result[StopCall] = "nil" THEN "returned" ELSE "exit1"
      BY <1>10 DEF MainStopped, MainGoto
    <2>2. AllTold'
      BY <2>1, BodyTold DEF RunInv
    <2>3. ASSUME result[StopCall] = "nil"  PROVE up = {} /\ Quiescent
      <3>1. up = {} /\ \A k \in Procs : Settled(k)
        BY <1>2, <2>1, <2>3 DEF RunInv, MainInv, AllTold, Told
      <3> QED  BY <3>1, SettledIsOut DEF RunInv, Quiescent
    <2>4. UNCHANGED <<up, Quiescent>>
      BY <2>1 DEF appVars, vars, frame, Quiescent
    <2>5. MainInv'
      BY <2>1, <2>3, <2>4 DEF MainInv
    <2> QED  BY <1>1, <2>2, <2>5 DEF RunInv
  <1> QED
    BY <1>4, <1>5, <1>6, <1>7, <1>8, <1>9, <1>10 DEF RunNext, MainStep

\* What holds whenever a program calls Run.
LEMMA RunInvariant == RunSpec => []RunInv
  <1>1. RunInit => RunInv
    BY AppInvInit DEF RunInit, RunInv, MainInv
  <1>2. RunInv /\ [RunNext]_runVars => RunInv'
    BY RunStepInv
  <1> QED  BY <1>1, <1>2, PTL DEF RunSpec

\* Run is a patient client, whatever hooks, timeouts, signals and Shutdown calls
\* there are: it never makes a call while another is at work.
THEOREM RunWaits == RunSpec => RunIsPatient
  <1>1. RunInit => AppInit
    BY DEF RunInit
  <1>2. RunInv /\ [RunNext]_runVars => [PatientNext]_appVars
    BY RunSteps
  <1> QED  BY <1>1, <1>2, RunInvariant, PTL DEF RunSpec, RunIsPatient, PatientSpec

\* Run returns only when every hook that was started is stopped and nothing runs.
THEOREM ReturnsDown == RunSpec => []ReturnsWhenDown
  <1>1. RunInv => ReturnsWhenDown
    BY DEF RunInv, MainInv, ReturnsWhenDown
  <1> QED  BY <1>1, RunInvariant, PTL

\* So a program that calls Run has its hooks run one at a time, as the promise says,
\* and what its calls are answered is true.
COROLLARY RunKeepsThePromise == RunSpec => Promise!Spec /\ AnswersAreTrue
  BY RunWaits, AppImplementsHookStack, AnswersTrue, PTL DEF RunIsPatient

-----------------------------------------------------------------------------
(* The Shutdowner under Run. *)

\* Every step of the program is one of Shutdown, or leaves its variables alone: Run
\* calls Done once, in two steps, and receives from the channel it returned.
LEMMA SigSteps == [RunNext]_runVars => [Sig!Next]_(Sig!vars)
  <1> USE DEF Sig!vars, Sig!doneVars, Sig!senderVars, sigVars
  <1> SUFFICES ASSUME [RunNext]_runVars
               PROVE  Sig!Next \/ UNCHANGED sigVars
    OBVIOUS
  <1>1. CASE MainStep
    BY <1>1 DEF MainStep, MainNotify, MainRegister, MainStart, MainStarted,
                MainReceive, MainStop, MainStopped, Sig!Next
  <1>2. CASE Kill \/ \E b \in Shutters : CallShutdown(b) \/ ShutterStep(b)
    BY <1>2 DEF Kill, CallShutdown, ShutterStep, Sig!Next
  <1> QED  BY <1>1, <1>2 DEF RunNext, AppStep, runVars

\* So the program keeps to Shutdown, with one channel.
THEOREM RunUsesShutdown == RunSpec => Sig!Spec
  <1>1. RunInit => Sig!Init
    BY DEF RunInit
  <1> QED  BY <1>1, SigSteps, PTL DEF RunSpec, Sig!Spec

\* What is proved of Shutdown, for the channel Run waits on.
Proved == INSTANCE ShutdownProofs WITH Chans <- {MainChan}

\* Each Shutdown a hook or another goroutine calls reaches Run, when Run has added
\* its channel: a signal waits in it when Shutdown returns, or Run has received one
\* since the call.
COROLLARY ShutdownReachesRun == RunSpec => Sig!ShutdownReachesAll
  <1> USE DEF Sig!vars, Proved!vars, Sig!doneVars, Proved!doneVars,
              Sig!senderVars, Proved!senderVars
  <1>1. Sig!Init => Proved!Init
    BY DEF Sig!Init, Proved!Init
  <1>2. [Sig!Next]_(Sig!vars) => [Proved!Next]_(Proved!vars)
    BY DEF Sig!Next, Sig!Notify, Sig!Register, Sig!Receive, Sig!BeginBroadcast,
           Sig!Broadcast, Sig!TrySend, Sig!EndBroadcast, Sig!OsSignal, Sig!Signal,
           Sig!Open,
           Proved!Next, Proved!Notify, Proved!Register, Proved!Receive,
           Proved!BeginBroadcast, Proved!Broadcast, Proved!TrySend,
           Proved!EndBroadcast, Proved!OsSignal, Proved!Signal, Proved!Open
  <1>3. Proved!ShutdownReachesAll => Sig!ShutdownReachesAll
    <2> DEFINE Reached(open) ==
          \A b \in Shutters : sender[b] = "sending" /\ sender'[b] = "idle" =>
             \A c \in open : mail[c] # "empty" \/ c \in heard[b]
    <2>1. [Reached(Proved!Open)]_(Proved!vars) => [Reached(Sig!Open)]_(Sig!vars)
      BY DEF Proved!Open, Sig!Open
    <2> QED  BY <2>1, PTL DEF Proved!ShutdownReachesAll, Sig!ShutdownReachesAll
  <1> QED
    BY <1>1, <1>2, <1>3, RunUsesShutdown, Proved!ReachesAll, PTL
       DEF Sig!Spec, Proved!Spec

-----------------------------------------------------------------------------
(* FxTest. *)

\* Where the test is tells which calls it has made.
TestCalls ==
    /\ test \in {"new", "requireStart"} => fresh /\ \A k \in Procs : op[k] = "none"
    /\ test \in {"starting", "body"} =>
          op[TestStart] = "start" /\ op[TestStop] = "none"
    /\ test = "body" =>
          caller[TestStart] = "returned" /\ result[TestStart] = "nil"
    /\ test = "stopping" => op[TestStop] = "stop"
    /\ test = "passed" => up = {} /\ \A k \in Procs : Settled(k)

TestInv == AppInv /\ AllTold /\ TestCalls

\* A test makes its calls when everything is settled.
LEMMA TestMakesCalls ==
    ASSUME TestInv, RequireStart \/ RequireStop
    PROVE  PatientCall
  <1>1. Procs = {TestStart, TestStop}
    BY TestCallsAssumption
  <1>2. CASE RequireStart
    <2>1. test = "requireStart" /\ Call(TestStart, "start")
      BY <1>2 DEF RequireStart
    <2>2. fresh /\ \A k \in Procs : op[k] = "none"
      BY <2>1 DEF TestInv, TestCalls
    <2>3. \A k \in Procs : Settled(k)
      BY <2>2, SettledCalls DEF TestInv
    <2> QED  BY <1>1, <2>1, <2>2, <2>3 DEF PatientCall
  <1>3. CASE RequireStop
    <2>1. test = "body" /\ Call(TestStop, "stop")
      BY <1>3 DEF RequireStop
    <2>2. Settled(TestStart) /\ Settled(TestStop)
      BY <1>1, <2>1, SettledCalls DEF TestInv, TestCalls
    <2> QED  BY <1>1, <2>1, <2>2 DEF PatientCall
  <1> QED  BY <1>2, <1>3

\* Every step of a test is one of a patient client, or leaves App alone.
LEMMA TestSteps ==
    ASSUME TestInv, [TestNext]_<<appVars, test>>
    PROVE  [PatientNext]_appVars
  <1>1. RequireStart \/ RequireStop => PatientCall
    BY TestMakesCalls
  <1> QED
    BY <1>1 DEF TestNext, TestStep, TestNew, Started, Stopped, PatientNext

\* While the test makes no call, what it knows stays true: also after it has passed,
\* when the goroutines of the app are done.
LEMMA TestKeeps ==
    ASSUME TestInv, Body \/ UNCHANGED appVars, UNCHANGED test
    PROVE  TestCalls'
  <1>1. UNCHANGED op
    BY BodyTold DEF TestInv
  <1>2. CASE test \in {"new", "requireStart", "body", "passed"}
    <2>1. \A k \in Procs : Settled(k)
      <3>1. CASE test = "body"
        <4>1. Procs = {TestStart, TestStop}
          BY TestCallsAssumption
        <4>2. Settled(TestStart) /\ Settled(TestStop)
          BY <3>1, <4>1, SettledCalls DEF TestInv, TestCalls
        <4> QED  BY <4>1, <4>2
      <3>2. CASE test \in {"new", "requireStart"}
        BY <3>2, SettledCalls DEF TestInv, TestCalls
      <3>3. CASE test = "passed"
        BY <3>3 DEF TestInv, TestCalls
      <3> QED  BY <1>2, <3>1, <3>2, <3>3
    <2>2. ~ \E k \in Procs : GoroutineStep(k) \/ CallbackReturns(k) \/ CallerStep(k)
      BY <2>1, CallStep DEF TestInv, AppInv, Open
    <2>3. UNCHANGED <<fresh, up, caller, result, stage>>
      BY <2>2 DEF Body, Environment, AppendHook, CtxEnds, appVars, vars, callVars
    <2> QED  BY <1>1, <1>2, <2>3 DEF TestInv, TestCalls, Settled, Returned
  <1>3. CASE test \notin {"new", "requireStart", "body", "passed"}
    BY <1>1, <1>3 DEF TestInv, TestCalls
  <1> QED  BY <1>2, <1>3

\* Every step of a test keeps the invariant.
LEMMA TestStepInv ==
    ASSUME TestInv, [TestNext]_<<appVars, test>>
    PROVE  TestInv'
  <1>1. AppInv'
    BY TestSteps, AppInvStep DEF TestInv
  <1>2. Procs = {TestStart, TestStop} /\ TestStart # TestStop
    BY TestCallsAssumption
  <1>3. CASE (Body \/ UNCHANGED appVars) /\ UNCHANGED test
    BY <1>1, <1>3, BodyTold, TestKeeps DEF TestInv
  <1>4. CASE RequireStart
    <2>1. test = "requireStart" /\ Call(TestStart, "start") /\ test' = "starting"
      BY <1>4 DEF RequireStart
    <2>2. \A k \in Procs : op[k] = "none"
      BY <2>1 DEF TestInv, TestCalls
    <2>3. AllTold' /\ op'[TestStart] = "start" /\ op'[TestStop] = "none"
      BY <1>2, <2>1, <2>2, CallTold DEF TestInv
    <2> QED  BY <1>1, <2>1, <2>3 DEF TestInv, TestCalls
  <1>5. CASE RequireStop
    <2>1. test = "body" /\ Call(TestStop, "stop") /\ test' = "stopping"
      BY <1>5 DEF RequireStop
    <2>2. op[TestStart] = "start" /\ op[TestStop] = "none"
      BY <2>1 DEF TestInv, TestCalls
    <2>3. AllTold' /\ op'[TestStop] = "stop"
      BY <1>2, <2>1, <2>2, CallTold DEF TestInv
    <2> QED  BY <1>1, <2>1, <2>3 DEF TestInv, TestCalls
  <1>6. CASE TestNew \/ Started \/ Stopped
    <2>1. /\ UNCHANGED appVars
          /\ \/ test = "new" /\ test' \in {"requireStart", "failed"}
             \/ /\ test = "starting" /\ caller[TestStart] = "returned"
                /\ test' = IF result[TestStart] = "nil" THEN "body" ELSE "failed"
             \/ /\ test = "stopping" /\ caller[TestStop] = "returned"
                /\ test' = IF result[TestStop] = "nil" THEN "passed" ELSE "failed"
      BY <1>6 DEF TestNew, Started, Stopped
    <2>2. AllTold'
      BY <2>1, BodyTold DEF TestInv
    <2>3. UNCHANGED <<fresh, up, op, caller, result, stage>>
      BY <2>1 DEF appVars, vars, callVars
    <2>4. ASSUME test = "stopping", caller[TestStop] = "returned",
                 result[TestStop] = "nil"
          PROVE  up = {} /\ \A k \in Procs : Settled(k)
      BY <1>2, <2>4 DEF TestInv, TestCalls, AllTold, Told
    <2>5. TestCalls'
      BY <2>1, <2>3, <2>4 DEF TestInv, TestCalls, Settled, Returned
    <2> QED  BY <1>1, <2>2, <2>5 DEF TestInv
  <1> QED  BY <1>3, <1>4, <1>5, <1>6 DEF TestNext, TestStep

\* What holds whenever a test uses the Require methods.
LEMMA TestInvariant == TestSpec => []TestInv
  <1>1. TestInit => TestInv
    BY AppInvInit DEF TestInit, TestInv, TestCalls
  <1>2. TestInv /\ [TestNext]_<<appVars, test>> => TestInv'
    BY TestStepInv
  <1> QED  BY <1>1, <1>2, PTL DEF TestSpec

\* A test that uses the Require methods is a patient client.
THEOREM TestWaits == TestSpec => PatientSpec
  <1>1. TestInit => AppInit
    BY DEF TestInit
  <1>2. TestInv /\ [TestNext]_<<appVars, test>> => [PatientNext]_appVars
    BY TestSteps
  <1> QED  BY <1>1, <1>2, TestInvariant, PTL DEF TestSpec, PatientSpec

\* A test that passes leaves no hook up and no callback running, then and later.
THEOREM PassesDown == TestSpec => []PassesWhenDown
  <1>1. TestInv => PassesWhenDown
    BY SettledIsOut DEF TestInv, TestCalls, PassesWhenDown, Quiescent
  <1> QED  BY <1>1, TestInvariant, PTL

\* So a test that uses the Require methods gets what App promises a patient client.
COROLLARY TestKeepsThePromise == TestSpec => Promise!Spec /\ AnswersAreTrue
  BY TestWaits, AppImplementsHookStack, AnswersTrue, PTL

=============================================================================
