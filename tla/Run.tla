--------------------------------- MODULE Run ---------------------------------
(***************************************************************************)
(* App.Run (src/app.go): Done, Start, wait for a signal, Stop, with a       *)
(* timeout for Start and one for Stop, and os.Exit(1) when either returns   *)
(* an error.  It composes App and Shutdown: hooks and other goroutines of   *)
(* the process call Shutdown at any time, and the operating system signals  *)
(* the process.                                                            *)
(***************************************************************************)
EXTENDS App

CONSTANTS
    StartCall, StopCall,    \* the two calls Run makes
    MainChan,               \* the channel Run's Done makes
    Shutters                \* the goroutines that call Shutdown

ASSUME CallsAssumption == StartCall # StopCall /\ Procs = {StartCall, StopCall}

VARIABLES
    main,       \* where Run is
    notified, dones, mail, sender, at, last, unsent, answer, heard  \* Shutdown

sigVars == <<notified, dones, mail, sender, at, last, unsent, answer, heard>>
runVars == <<appVars, main, sigVars>>

Sig == INSTANCE Shutdown WITH Chans <- {MainChan}

MainPC == {"notify", "register", "start", "starting", "wait", "stop",
           "stopping", "returned", "exit1"}
Ended  == main \in {"returned", "exit1"}    \* the process is gone

MainGoto(label) == main' = label

RunInit == AppInit /\ Sig!Init /\ main = "notify"

-----------------------------------------------------------------------------
(* Faulty variants of steps below, used by no specification. *)

\* The error of Start is only logged.
MainStartedIgnoresError ==
    /\ main = "starting" /\ caller[StartCall] = "returned"
    /\ MainGoto("wait")
    /\ UNCHANGED <<appVars, sigVars>>

\* The error of Stop is only logged.
MainStoppedIgnoresError ==
    /\ main = "stopping" /\ caller[StopCall] = "returned"
    /\ MainGoto("returned")
    /\ UNCHANGED <<appVars, sigVars>>

\* The channel is subscribed to the signals and not added to dones.
MainRegisterForgotten ==
    /\ main = "register"
    /\ MainGoto("start")
    /\ UNCHANGED <<appVars, sigVars>>

-----------------------------------------------------------------------------
(* The goroutine that calls Run. *)

MainNotify ==
    /\ main = "notify"
    /\ Sig!Notify(MainChan)
    /\ MainGoto("register")
    /\ UNCHANGED appVars

MainRegister ==
    /\ main = "register"
    /\ Sig!Register(MainChan)
    /\ MainGoto("start")
    /\ UNCHANGED appVars

MainStart ==
    /\ main = "start"
    /\ Call(StartCall, "start")
    /\ MainGoto("starting")
    /\ UNCHANGED sigVars

\* os.Exit(1) ends the process, whatever its other goroutines are doing.
MainStarted ==
    /\ main = "starting" /\ caller[StartCall] = "returned"
    /\ MainGoto(IF result[StartCall] = "nil" THEN "wait" ELSE "exit1")
    /\ UNCHANGED <<appVars, sigVars>>

MainReceive ==
    /\ main = "wait"
    /\ Sig!Receive(MainChan)
    /\ MainGoto("stop")
    /\ UNCHANGED appVars

MainStop ==
    /\ main = "stop"
    /\ Call(StopCall, "stop")
    /\ MainGoto("stopping")
    /\ UNCHANGED sigVars

MainStopped ==
    /\ main = "stopping" /\ caller[StopCall] = "returned"
    /\ MainGoto(IF result[StopCall] = "nil" THEN "returned" ELSE "exit1")
    /\ UNCHANGED <<appVars, sigVars>>

MainStep ==
    \/ MainNotify \/ MainRegister \/ MainStart \/ MainStarted
    \/ MainReceive \/ MainStop \/ MainStopped

-----------------------------------------------------------------------------
\* Shutdown is called by hooks, or by any other goroutine of the process.
ShutterStep(b) ==
    /\ Sig!Broadcast(b)
    /\ UNCHANGED <<appVars, main>>

CallShutdown(b) ==
    /\ Sig!BeginBroadcast(b)
    /\ UNCHANGED <<appVars, main>>

\* A signal that arrives before Notify ends the process and is left out.
Kill ==
    /\ MainChan \in notified
    /\ \E s \in Sig!Signal : Sig!OsSignal(s)
    /\ UNCHANGED <<appVars, main>>

AppStep == Body /\ UNCHANGED <<main, sigVars>>

RunNext ==
    /\ Alive /\ ~ Ended
    /\ \/ MainStep \/ AppStep \/ Kill
       \/ \E b \in Shutters : CallShutdown(b) \/ ShutterStep(b)

RunSpec == RunInit /\ [][RunNext]_runVars

\* Goroutines run and timers fire; a callback may hang for ever.  A sync.RWMutex
\* makes new readers wait behind a writer, so broadcasts that go on and on do not
\* keep the append of Done from its turn: strong fairness.
Running(A) == Alive /\ ~ Ended /\ A /\ UNCHANGED <<main, sigVars>>

RunFairness ==
    /\ WF_runVars(Alive /\ ~ Ended /\ MainStep)
    /\ SF_runVars(Alive /\ ~ Ended /\ MainRegister)
    /\ \A b \in Shutters : WF_runVars(Alive /\ ~ Ended /\ ShutterStep(b))
    /\ \A k \in Procs :
          /\ WF_runVars(Running(GoroutineStep(k)))
          /\ WF_runVars(Running(CallerStep(k)))
          /\ WF_runVars(Running(CtxEnds(k, "deadline")))

FairRunSpec == RunSpec /\ RunFairness

-----------------------------------------------------------------------------
(* Properties. *)

\* Run is a patient client of App: it never stops an app whose start is still
\* going on in the background.
RunIsPatient == PatientSpec

\* Run returns, instead of exiting with status 1, only when every hook that was
\* started has been stopped and no callback runs.
ReturnsWhenDown == main = "returned" => up = {} /\ Quiescent

\* A Shutdown that begins when hooks may be running, the first OnStart included,
\* ends the process; so does a signal, also when it comes before Run waits for
\* it, or after another one filled the channel, and even if callbacks hang.
ShutdownEndsRun ==
    \/ mail[MainChan] # "empty"
    \/ caller[StartCall] # "idle" /\ \E b \in Shutters : sender[b] = "sending"
    ~> Ended

============================================================================
