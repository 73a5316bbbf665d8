--------------------------------- MODULE App ---------------------------------
(***************************************************************************)
(* App.Start and App.Stop (src/app.go): the lifecycle behind withTimeout.  *)
(* Each call starts a goroutine that runs the lifecycle and sends its      *)
(* error on a channel of capacity 1; the caller waits for that error or    *)
(* for its context.  A call whose context ends returns while its goroutine *)
(* is still in the lifecycle, and nothing stops that goroutine.            *)
(*                                                                         *)
(* A member of Procs is one call together with its goroutine, used once.   *)
(***************************************************************************)
EXTENDS Lifecycle

CONSTANT Endings    \* bound: how contexts end

ASSUME EndingsAssumption == Endings \subseteq {"deadline", "canceled"}

VARIABLES
    appErr,     \* app.err: "nil", or an error New met
    op,         \* per call: "none", "start" or "stop"
    caller,     \* per call: where the caller is in withTimeout
    ctx,        \* per call: "live", or how the context ended
    chan,       \* per call: the channel's content, or "empty"
    stage,      \* per call: where the goroutine is in its callback
    startErr,   \* per call: the error a rollback follows
    result,     \* per call: what withTimeout returns, or "none"
    listed,     \* per call: the hooks a timeout report lists as finished
    blamed      \* per call: the hook a timeout report blames

callVars == <<op, caller, ctx, chan, stage, startErr, result, listed, blamed>>
appVars  == <<vars, appErr, callVars>>

CallerPC == {"idle", "select", "records", "running", "returned"}
Stage    == {"none", "begin", "start", "rollback", "stop", "done"}
CtxState == {"live", "deadline", "canceled"}

AppInit ==
    /\ Init
    /\ appErr \in {"nil", "fail", "deadline"}
    /\ op = [k \in Procs |-> "none"]
    /\ caller = [k \in Procs |-> "idle"]
    /\ ctx = [k \in Procs |-> "live"]
    /\ chan = [k \in Procs |-> "empty"]
    /\ stage = [k \in Procs |-> "none"]
    /\ startErr = [k \in Procs |-> "nil"]
    /\ result = [k \in Procs |-> "none"]
    /\ listed = [k \in Procs |-> {}]
    /\ blamed = [k \in Procs |-> 0]

-----------------------------------------------------------------------------
(* Faulty variants of steps below, used by no specification. *)

\* The goroutine reports the failed start before the rollback is over.
StartFailedEarlyAnswer(k) ==
    /\ stage[k] = "start" /\ pc[k] = "idle" /\ ret[k] # "nil"
    /\ CallStop(k)
    /\ chan' = [chan EXCEPT ![k] = ret[k]]
    /\ stage' = [stage EXCEPT ![k] = "done"]
    /\ UNCHANGED <<appErr, op, caller, ctx, startErr, result, listed, blamed>>

\* A failed start is not rolled back.
StartFailedNoRollback(k) ==
    /\ stage[k] = "start" /\ pc[k] = "idle" /\ ret[k] # "nil"
    /\ chan' = [chan EXCEPT ![k] = ret[k]]
    /\ stage' = [stage EXCEPT ![k] = "done"]
    /\ UNCHANGED <<vars, appErr, op, caller, ctx, startErr, result, listed,
                   blamed>>

\* An error of the rollback replaces the error that caused it.
RollbackDoneLosesError(k) ==
    /\ stage[k] = "rollback" /\ pc[k] = "idle"
    /\ chan' = [chan EXCEPT ![k] = IF ret[k] = "nil" THEN startErr[k] ELSE ret[k]]
    /\ stage' = [stage EXCEPT ![k] = "done"]
    /\ UNCHANGED <<vars, appErr, op, caller, ctx, startErr, result, listed,
                   blamed>>

\* The channel has no buffer: the goroutine waits for a caller in "select".
StopDoneUnbuffered(k) ==
    /\ stage[k] = "stop" /\ pc[k] = "idle" /\ caller[k] = "select"
    /\ chan' = [chan EXCEPT ![k] = ret[k]]
    /\ stage' = [stage EXCEPT ![k] = "done"]
    /\ UNCHANGED <<vars, appErr, op, caller, ctx, startErr, result, listed,
                   blamed>>

\* The caller waits for its goroutine even when its context has ended.
SelectCtxWaits(k) ==
    /\ caller[k] = "select" /\ ctx[k] # "live" /\ stage[k] = "done"
    /\ caller' = [caller EXCEPT ![k] = "returned"]
    /\ result' = [result EXCEPT ![k] = ctx[k]]
    /\ UNCHANGED <<vars, appErr, op, ctx, chan, stage, startErr, listed, blamed>>

-----------------------------------------------------------------------------
(* The call and its goroutine. *)

\* withTimeout makes the channel and starts the goroutine.
Call(k, o) ==
    /\ caller[k] = "idle"
    /\ op' = [op EXCEPT ![k] = o]
    /\ caller' = [caller EXCEPT ![k] = "select"]
    /\ stage' = [stage EXCEPT ![k] = "begin"]
    /\ UNCHANGED <<vars, appErr, ctx, chan, startErr, result, listed, blamed>>

\* The callback returns e and the goroutine sends it: the channel has room.
Send(k, e) ==
    /\ chan' = [chan EXCEPT ![k] = e]
    /\ stage' = [stage EXCEPT ![k] = "done"]
    /\ UNCHANGED <<vars, appErr, op, caller, ctx, startErr, result, listed,
                   blamed>>

\* app.start on an app that New could not build.
ShortCircuit(k) ==
    /\ stage[k] = "begin" /\ op[k] = "start" /\ appErr # "nil"
    /\ Send(k, appErr)

\* The goroutine enters lifecycle.Start or lifecycle.Stop.
Enter(k) ==
    /\ stage[k] = "begin"
    /\ \/ op[k] = "start" /\ appErr = "nil" /\ CallStart(k)
       \/ op[k] = "stop" /\ CallStop(k)
    /\ stage' = [stage EXCEPT ![k] = op[k]]
    /\ UNCHANGED <<appErr, op, caller, ctx, chan, startErr, result, listed,
                   blamed>>

StartOk(k) ==
    /\ stage[k] = "start" /\ pc[k] = "idle" /\ ret[k] = "nil"
    /\ Send(k, "nil")

\* Start failed, rolling back: lifecycle.Stop with the same context.
StartFailed(k) ==
    /\ stage[k] = "start" /\ pc[k] = "idle" /\ ret[k] # "nil"
    /\ startErr' = [startErr EXCEPT ![k] = ret[k]]
    /\ CallStop(k)
    /\ stage' = [stage EXCEPT ![k] = "rollback"]
    /\ UNCHANGED <<appErr, op, caller, ctx, chan, result, listed, blamed>>

\* The start error, with the rollback's error appended to it.
RollbackDone(k) ==
    /\ stage[k] = "rollback" /\ pc[k] = "idle"
    /\ Send(k, Combine(startErr[k], ret[k]))

StopDone(k) ==
    /\ stage[k] = "stop" /\ pc[k] = "idle"
    /\ Send(k, ret[k])

-----------------------------------------------------------------------------
(* The caller. *)

\* The context's timer fires or the client cancels it.
CtxEnds(k, how) ==
    /\ caller[k] = "select" /\ ctx[k] = "live"
    /\ ctx' = [ctx EXCEPT ![k] = how]
    /\ UNCHANGED <<vars, appErr, op, caller, chan, stage, startErr, result,
                   listed, blamed>>

\* After select: a deadline goes on to the report, anything else is returned.
Answer(k, e) ==
    IF e = "deadline"
       THEN caller' = [caller EXCEPT ![k] = "records"] /\ UNCHANGED result
       ELSE /\ caller' = [caller EXCEPT ![k] = "returned"]
            /\ result' = [result EXCEPT ![k] = e]

\* When the channel is ready too, select takes either.
SelectCtx(k) ==
    /\ caller[k] = "select" /\ ctx[k] # "live"
    /\ Answer(k, ctx[k])
    /\ UNCHANGED <<vars, appErr, op, ctx, chan, stage, startErr, listed, blamed>>

\* A callback that returned context.DeadlineExceeded is reported as a timeout.
SelectChan(k) ==
    /\ caller[k] = "select" /\ chan[k] # "empty"
    /\ Answer(k, chan[k])
    /\ chan' = [chan EXCEPT ![k] = "empty"]
    /\ UNCHANGED <<vars, appErr, op, ctx, stage, startErr, listed, blamed>>

\* Start resets startRecords without the lock, so a copy made meanwhile holds the
\* records of the Start before, none, or as many that are zero (hook 0).
StartRecordsRead ==
    {StartHookRecords} \cup
    IF \E p \in Procs : pc[p] = "startEnter"
       THEN {{}} \cup (IF startRecords = <<>> THEN {} ELSE {{0}})
       ELSE {}

\* startHookRecords or stopHookRecords copies the records under the lock.
ReadRecords(k) ==
    /\ caller[k] = "records"
    /\ mu = NoProc
    /\ \E records \in IF op[k] = "start" THEN StartRecordsRead
                                         ELSE {StopHookRecords} :
          listed' = [listed EXCEPT ![k] = records]
    /\ caller' = [caller EXCEPT ![k] = "running"]
    /\ UNCHANGED <<vars, appErr, op, ctx, chan, stage, startErr, result, blamed>>

\* runningHookCaller takes the lock a second time.
ReadRunning(k) ==
    /\ caller[k] = "running"
    /\ mu = NoProc
    /\ blamed' = [blamed EXCEPT ![k] = RunningHookCaller]
    /\ result' = [result EXCEPT ![k] = "deadline"]
    /\ caller' = [caller EXCEPT ![k] = "returned"]
    /\ UNCHANGED <<vars, appErr, op, ctx, chan, stage, startErr, listed>>

-----------------------------------------------------------------------------
GoroutineStep(k) ==
    \/ ShortCircuit(k) \/ Enter(k) \/ StartOk(k) \/ StartFailed(k)
    \/ RollbackDone(k) \/ StopDone(k)
    \/ OwnStep(k) /\ UNCHANGED <<appErr, callVars>>

CallbackReturns(k) == HookReturns(k) /\ UNCHANGED <<appErr, callVars>>

CallerStep(k) ==
    SelectCtx(k) \/ SelectChan(k) \/ ReadRecords(k) \/ ReadRunning(k)

Environment ==
    \/ \E h \in Kinds : AppendHook(h) /\ UNCHANGED <<appErr, callVars>>
    \/ \E k \in Procs, how \in Endings : CtxEnds(k, how)

Body ==
    \/ Environment
    \/ \E k \in Procs :
          GoroutineStep(k) \/ CallbackReturns(k) \/ CallerStep(k)

Returned(k) == caller[k] \in {"idle", "returned"}
Settled(k)  == Returned(k) /\ stage[k] \in {"none", "done"}

\* A client that lets a call's goroutine finish before it makes another call,
\* and stops the app before it starts it again.
PatientCall ==
    /\ \A k \in Procs : Settled(k)
    /\ \E k \in Procs : Call(k, "stop") \/ (fresh /\ Call(k, "start"))

\* A client that waits for each call to return and no longer: it retries or
\* stops the app after a timeout.
HastyCall ==
    /\ \A k \in Procs : Returned(k)
    /\ \E k \in Procs, o \in {"start", "stop"} : Call(k, o)

PatientNext == Alive /\ (PatientCall \/ Body)
HastyNext   == Alive /\ (HastyCall \/ Body)

PatientSpec == AppInit /\ [][PatientNext]_appVars
HastySpec   == AppInit /\ [][HastyNext]_appVars

\* The Go scheduler runs every goroutine that can run and hands every mutex
\* over.  Nothing is assumed of callbacks, contexts and the client.
CodeRuns ==
    \A k \in Procs : /\ WF_appVars(Alive /\ GoroutineStep(k))
                     /\ WF_appVars(Alive /\ CallerStep(k))

\* Every callback returns in the end.
CallbacksReturn == \A k \in Procs : WF_appVars(Alive /\ CallbackReturns(k))

-----------------------------------------------------------------------------
AppTypeOK ==
    /\ TypeOK
    /\ appErr \in {"nil", "fail", "deadline"}
    /\ op \in [Procs -> {"none", "start", "stop"}]
    /\ caller \in [Procs -> CallerPC]
    /\ ctx \in [Procs -> CtxState]
    /\ chan \in [Procs -> Error \cup {"empty"}]
    /\ stage \in [Procs -> Stage]
    /\ startErr \in [Procs -> Error]
    /\ result \in [Procs -> Error \cup {"none", "canceled"}]
    /\ listed \in [Procs -> SUBSET Nat]
    /\ blamed \in [Procs -> Nat]

-----------------------------------------------------------------------------
(* Properties. *)

\* The lifecycle of a patient client is used as Lifecycle expects: also during
\* a rollback, after a timeout and in the next start, no two callbacks run at
\* once and no Start follows a Start without a Stop.
LifecycleIsSerial == SerialSpec

\* What a call that was answered says is true when the client reads it: after a
\* successful Start the hooks it knew are up, after a failed Start and after any
\* Stop none is, and no callback is running.  A start that was rolled back answers
\* with its error, also when the rollback has failed, and then with both.
AnswersAreTrue ==
    [][\A k \in Procs : chan[k] # "empty" /\ chan'[k] = "empty" =>
         /\ Quiescent
         /\ IF op[k] = "start" /\ chan[k] = "nil"
               THEN up = 1..lim[k]
               ELSE up = {}
         /\ startErr[k] # "nil" =>
               chan[k] = IF ret[k] = "nil" THEN startErr[k] ELSE "multi"]_appVars

\* The report of a call that timed out while its goroutine is still at work: once
\* Start has reset the records, what it lists are the hooks this Start has started
\* and none of an earlier one; and a callback that is running is the one blamed.
TimeoutReportIsTrue ==
    [][\A k \in Procs :
         /\ caller[k] = "records" /\ caller'[k] = "running"
            /\ stage[k] = "start" /\ pc[k] \in StartPC \ {"startEnter"}
               => listed'[k] = {i \in up : hooks[i].onStart} \
                               (IF pc[k] = "startRecord" THEN {pos[k]} ELSE {})
         /\ caller[k] = "running" /\ caller'[k] = "returned" /\ pc[k] \in InHook
               => blamed'[k] = pos[k]]_appVars

\* The mutex is held across steps only by a goroutine whose logger runs, and
\* nobody takes it from that goroutine.
LockDiscipline == \A k \in Procs : mu = k <=> pc[k] = "stopLog"

\* "one at a time": no two callbacks of the lifecycle run at once.
OneHookAtATime ==
    \A j, k \in Procs : pc[j] \in InHook /\ pc[k] \in InHook => j = k

\* Start is called once, and one goroutine at most has entered lifecycle.Stop: by a
\* call of Stop or to roll back a start.
OneStart == \A i, j \in Procs : op[i] = "start" /\ op[j] = "start" => i = j

Stops(k) == \/ stage[k] \in {"rollback", "stop"}
            \/ stage[k] = "done" /\ (op[k] = "stop" \/ startErr[k] # "nil")
OneStop  == \A i, j \in Procs : Stops(i) /\ Stops(j) => i = j

\* As long as Start is called once, an OnStop is only called for a hook whose
\* OnStart, if it has one, returned nil: also when Stop is called after a timeout
\* and retried, and the goroutines race for numStarted.
StopsOnlyStarted ==
    [][\A k \in Procs :
         /\ pc[k] # "inOnStop" /\ pc'[k] = "inOnStop" /\ hooks[pos[k]].onStart
         /\ OneStart
         => pos[k] \in StartHookRecords]_appVars

\* The process panics in lifecycle.Stop, by the index of its loop or the capacity of
\* make(), only if Start was called twice or two goroutines have entered Stop: one
\* Start and one Stop never do that, also when the Stop comes after a timeout and
\* overlaps the Start.
PanicsNeedTwo == Alive \/ ~ OneStart \/ ~ OneStop

\* A call whose context has ended returns, whatever its callbacks and the
\* goroutines of earlier calls do: they cannot keep the mutex from it.
CallerReturns ==
    \A k \in Procs :
       caller[k] = "select" /\ ctx[k] # "live"
          ~> caller[k] = "returned" \/ ~ Alive

\* The goroutine of a call ends if the callbacks return, also when its caller
\* has gone: the send on its channel does not block.
GoroutineEnds ==
    CallbacksReturn =>
       \A k \in Procs : stage[k] # "none" ~> stage[k] = "done" \/ ~ Alive

\* A start that fails is rolled back to the end, also when its caller gave up:
\* then no hook is left up.
FailedStartIsUndone ==
    CallbacksReturn => \A k \in Procs :
       stage[k] = "start" /\ pc[k] = "idle" /\ ret[k] # "nil"
          ~> stage[k] = "done" /\ up = {}

-----------------------------------------------------------------------------
(* What the documentation says and the code does not do. *)

\* App.Stop's comment: "only hooks whose OnStart phase was called are executed.
\* However, all those hooks are executed".  A hook whose OnStart was called and
\* failed would have its OnStop called by the rollback.
FailedHookIsStopped ==
    \A k \in Procs, i \in 1..MaxHooks :
       stage[k] = "start" /\ pc[k] = "idle" /\ ret[k] # "nil"
             /\ pos[k] = i /\ hooks[i].onStop
          ~> pc[k] = "inOnStop" /\ pos[k] = i

\* App.Stop's comment again: "all those hooks are executed, even if some fail".
\* A Stop that returns nil would leave no hook up.
StopOkLeavesNothingUp ==
    [][\A k \in Procs :
         op[k] = "stop" /\ chan[k] = "nil" /\ chan'[k] = "empty" => up = {}]_appVars

============================================================================
