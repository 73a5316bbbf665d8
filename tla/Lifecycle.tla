------------------------------ MODULE Lifecycle ------------------------------
(***************************************************************************)
(* The lifecycle of an Fx application (src/internal/lifecycle/lifecycle.go) *)
(* a list of hooks, each an optional OnStart and an optional OnStop         *)
(* callback.  Start runs the OnStart callbacks in order and gives up at the *)
(* first error; Stop runs the OnStop callbacks of the started hooks in      *)
(* reverse order and goes on after errors.                                  *)
(*                                                                         *)
(* A process is a goroutine that executes Start or Stop; one process calls *)
(* them any number of times.  An action is the code between two points     *)
(* another goroutine can observe: a lock, an unlock, the call or the return *)
(* of a callback, an access to a field that no lock protects.              *)
(*                                                                         *)
(* A hook is named by its position in hooks.                               *)
(***************************************************************************)
EXTENDS Integers, Sequences

CONSTANTS
    Procs,      \* the goroutines that call Start and Stop
    NoProc,     \* "no goroutine", for an unlocked mutex
    MaxHooks,   \* bound: how many hooks are ever appended
    Kinds,      \* bound: the kinds of hooks that are appended
    Failures    \* bound: the errors callbacks return

HookKind == [onStart : BOOLEAN, onStop : BOOLEAN]   \* FALSE: a nil callback

ASSUME ProcsAssumption == NoProc \notin Procs
ASSUME MaxHooksAssumption == MaxHooks \in Nat
ASSUME KindsAssumption == Kinds \subseteq HookKind
ASSUME FailuresAssumption == Failures \subseteq {"fail", "deadline"}

VARIABLES
    hooks,          \* the appended hooks
    numStarted,     \* written and read without the lock
    startRecords,   \* hooks whose OnStart returned nil in the last Start
    stopRecords,    \* hooks whose OnStop returned in the last Stop
    runningHook,    \* the last hook a callback of which was called, 0 for none
    mu,             \* the goroutine that holds the mutex, or NoProc
    pc,             \* per goroutine: where it is in Start or Stop
    pos,            \* per goroutine: the hook it is at
    lim,            \* per goroutine: length of the slice that "range" walks
    reg,            \* per goroutine: numStarted between the load and the store of
                    \* ++ or --, otherwise 0
    ret,            \* per goroutine: the error it returns or has returned
    fresh,          \* client: no Start was called since the last Stop
    up              \* history: hooks started and not yet stopped

shared == <<hooks, numStarted, startRecords, stopRecords, runningHook, mu>>
frame  == <<pc, pos, lim, reg, ret>>
vars   == <<shared, frame, fresh, up>>

\* Errors, as far as the code tells them apart.  A callback that watches its
\* context returns context.DeadlineExceeded, which withTimeout looks for.
Error == {"nil", "fail", "deadline", "multi"}

\* Faulty variant of Combine: an error joined with nil is a new error.
CombineWrapsNil(e, f) == IF e = "nil" THEN f ELSE "wrapped"

\* multierr.Append and multierr.Combine: nil is neutral, two errors make an
\* error that is equal to neither.
Combine(e, f) == IF e = "nil" THEN f ELSE IF f = "nil" THEN e ELSE "multi"

StartPC == {"startEnter", "startLoop", "inOnStart", "startRecord", "inc",
            "incStore"}
StopPC  == {"stopEnter", "stopLoop", "stopPick", "stopMark", "inOnStop",
            "stopRecord", "stopRecordErr", "stopLog", "dec", "decStore"}
PC      == {"idle", "panic"} \cup StartPC \cup StopPC

InHook    == {"inOnStart", "inOnStop"}
Quiescent == \A p \in Procs : pc[p] = "idle"
Alive     == \A p \in Procs : pc[p] # "panic"   \* a panic ends the process

Goto(p, label) == pc' = [pc EXCEPT ![p] = label]

Init ==
    /\ hooks = <<>>
    /\ numStarted = 0
    /\ startRecords = <<>>
    /\ stopRecords = <<>>
    /\ runningHook = 0
    /\ mu = NoProc
    /\ pc = [p \in Procs |-> "idle"]
    /\ pos = [p \in Procs |-> 0]
    /\ lim = [p \in Procs |-> 0]
    /\ reg = [p \in Procs |-> 0]
    /\ ret = [p \in Procs |-> "nil"]
    /\ fresh = TRUE
    /\ up = {}

-----------------------------------------------------------------------------
(* Faulty variants of steps below.  No specification uses them: each is a    *)
(* mistake the code could have had, and shows that some property sees it.    *)

\* The loop over OnStart goes on after an error, as the one over OnStop does.
KeepStartingAfterError(p, e) ==
    /\ pc[p] = "inOnStart"
    /\ ret' = [ret EXCEPT ![p] = e]
    /\ Goto(p, "inc")
    /\ UNCHANGED <<shared, pos, lim, reg, fresh, up>>

\* The records of the Start before this one are kept.
StartEnterKeepsRecords(p) ==
    /\ pc[p] = "startEnter"
    /\ lim' = [lim EXCEPT ![p] = Len(hooks)]
    /\ pos' = [pos EXCEPT ![p] = 1]
    /\ Goto(p, "startLoop")
    /\ UNCHANGED <<shared, reg, ret, fresh, up>>

\* The records of the Stop before this one are kept.
StopEnterKeepsRecords(p) ==
    /\ pc[p] = "stopEnter"
    /\ mu = NoProc
    /\ Goto(p, "stopLoop")
    /\ UNCHANGED <<shared, pos, lim, reg, ret, fresh, up>>

\* Stop gives up at the first error, as Start does.
StopReturnOnError(p) ==
    /\ pc[p] = "stopLoop" /\ (numStarted <= 0 \/ ret[p] # "nil")
    /\ Goto(p, "idle")
    /\ UNCHANGED <<shared, pos, lim, reg, ret, fresh, up>>

\* The hook is looked up at numStarted instead of numStarted - 1.
StopPanicOffByOne(p) ==
    /\ \/ pc[p] = "stopEnter" /\ mu = NoProc /\ numStarted < 0
       \/ pc[p] = "stopPick" /\ numStarted \notin 1..(Len(hooks) - 1)
    /\ Goto(p, "panic")
    /\ UNCHANGED <<shared, pos, lim, reg, ret, fresh, up>>

\* Only the error of the last OnStop that failed is returned.
OnStopReturnLast(p, e) ==
    /\ pc[p] = "inOnStop"
    /\ ret' = [ret EXCEPT ![p] = e]
    /\ Goto(p, IF e = "nil" THEN "stopRecord" ELSE "stopRecordErr")
    /\ UNCHANGED <<shared, pos, lim, reg, fresh, up>>

\* numStarted is not counted down.
DecStoreForgotten(p) ==
    /\ pc[p] = "decStore"
    /\ Goto(p, "stopLoop")
    /\ UNCHANGED <<shared, pos, lim, reg, ret, fresh, up>>

\* A hook without OnStart is not counted as started.
StartSkipUncounted(p) ==
    /\ pc[p] = "startLoop" /\ pos[p] <= lim[p]
    /\ ~ hooks[pos[p]].onStart
    /\ up' = up \cup {pos[p]}
    /\ pos' = [pos EXCEPT ![p] = pos[p] + 1]
    /\ UNCHANGED <<shared, pc, lim, reg, ret, fresh>>

\* The lock is not released after the logger ran.
StopLoggedKeepsLock(p) ==
    /\ pc[p] = "stopLog"
    /\ Goto(p, "dec")
    /\ UNCHANGED <<shared, pos, lim, reg, ret, fresh, up>>

-----------------------------------------------------------------------------
\* Append: constructors and invoked functions call it before Start, the client
\* between calls, and a callback while it runs.
AppendHook(h) ==
    /\ Len(hooks) < MaxHooks
    /\ Quiescent \/ \E p \in Procs : pc[p] \in InHook
    /\ hooks' = Append(hooks, h)
    /\ UNCHANGED <<numStarted, startRecords, stopRecords, runningHook, mu,
                   frame, fresh, up>>

-----------------------------------------------------------------------------
(* Start *)

CallStart(p) ==
    /\ pc[p] = "idle"
    /\ Goto(p, "startEnter")
    /\ ret' = [ret EXCEPT ![p] = "nil"]
    /\ fresh' = FALSE
    /\ UNCHANGED <<shared, pos, lim, reg, up>>

\* The records are reset without the lock; "range" fixes the hooks to visit.
StartEnter(p) ==
    /\ pc[p] = "startEnter"
    /\ startRecords' = <<>>
    /\ lim' = [lim EXCEPT ![p] = Len(hooks)]
    /\ pos' = [pos EXCEPT ![p] = 1]
    /\ Goto(p, "startLoop")
    /\ UNCHANGED <<hooks, numStarted, stopRecords, runningHook, mu, reg, ret,
                   fresh, up>>

\* A nil OnStart counts as started at once.
StartSkip(p) ==
    /\ pc[p] = "startLoop" /\ pos[p] <= lim[p]
    /\ ~ hooks[pos[p]].onStart
    /\ up' = up \cup {pos[p]}
    /\ Goto(p, "inc")
    /\ UNCHANGED <<shared, pos, lim, reg, ret, fresh>>

\* runningHook is set under the lock and OnStart is called.
CallOnStart(p) ==
    /\ pc[p] = "startLoop" /\ pos[p] <= lim[p]
    /\ hooks[pos[p]].onStart
    /\ mu = NoProc
    /\ runningHook' = pos[p]
    /\ Goto(p, "inOnStart")
    /\ UNCHANGED <<hooks, numStarted, startRecords, stopRecords, mu, pos, lim,
                   reg, ret, fresh, up>>

OnStartOk(p) ==
    /\ pc[p] = "inOnStart"
    /\ up' = up \cup {pos[p]}
    /\ Goto(p, "startRecord")
    /\ UNCHANGED <<shared, pos, lim, reg, ret, fresh>>

\* Start returns the error and leaves numStarted at the hooks before this one.
OnStartFails(p, e) ==
    /\ pc[p] = "inOnStart"
    /\ ret' = [ret EXCEPT ![p] = e]
    /\ Goto(p, "idle")
    /\ UNCHANGED <<shared, pos, lim, reg, fresh, up>>

StartRecord(p) ==
    /\ pc[p] = "startRecord"
    /\ mu = NoProc
    /\ startRecords' = Append(startRecords, pos[p])
    /\ Goto(p, "inc")
    /\ UNCHANGED <<hooks, numStarted, stopRecords, runningHook, mu, pos, lim,
                   reg, ret, fresh, up>>

\* numStarted++ is a load and a store: no lock is held.
IncLoad(p) ==
    /\ pc[p] = "inc"
    /\ reg' = [reg EXCEPT ![p] = numStarted]
    /\ Goto(p, "incStore")
    /\ UNCHANGED <<shared, pos, lim, ret, fresh, up>>

IncStore(p) ==
    /\ pc[p] = "incStore"
    /\ numStarted' = reg[p] + 1
    /\ reg' = [reg EXCEPT ![p] = 0]
    /\ pos' = [pos EXCEPT ![p] = pos[p] + 1]
    /\ Goto(p, "startLoop")
    /\ UNCHANGED <<hooks, startRecords, stopRecords, runningHook, mu, lim,
                   ret, fresh, up>>

StartReturn(p) ==
    /\ pc[p] = "startLoop" /\ pos[p] > lim[p]
    /\ Goto(p, "idle")
    /\ UNCHANGED <<shared, pos, lim, reg, ret, fresh, up>>

-----------------------------------------------------------------------------
(* Stop *)

CallStop(p) ==
    /\ pc[p] = "idle"
    /\ Goto(p, "stopEnter")
    /\ ret' = [ret EXCEPT ![p] = "nil"]
    /\ fresh' = TRUE
    /\ UNCHANGED <<shared, pos, lim, reg, up>>

\* The records are reset under the lock.
StopEnter(p) ==
    /\ pc[p] = "stopEnter" /\ numStarted >= 0
    /\ mu = NoProc
    /\ stopRecords' = <<>>
    /\ Goto(p, "stopLoop")
    /\ UNCHANGED <<hooks, numStarted, startRecords, runningHook, mu, pos, lim,
                   reg, ret, fresh, up>>

\* The condition of the loop and the index read numStarted one after the other.
StopCheck(p) ==
    /\ pc[p] = "stopLoop" /\ numStarted > 0
    /\ Goto(p, "stopPick")
    /\ UNCHANGED <<shared, pos, lim, reg, ret, fresh, up>>

\* The hook at numStarted - 1 (Go counts from 0).
StopPick(p) ==
    /\ pc[p] = "stopPick" /\ numStarted \in 1..Len(hooks)
    /\ hooks[numStarted].onStop
    /\ pos' = [pos EXCEPT ![p] = numStarted]
    /\ Goto(p, "stopMark")
    /\ UNCHANGED <<shared, lim, reg, ret, fresh, up>>

\* A nil OnStop: the hook counts as stopped at once.
StopSkip(p) ==
    /\ pc[p] = "stopPick" /\ numStarted \in 1..Len(hooks)
    /\ ~ hooks[numStarted].onStop
    /\ pos' = [pos EXCEPT ![p] = numStarted]
    /\ up' = up \ {numStarted}
    /\ Goto(p, "dec")
    /\ UNCHANGED <<shared, lim, reg, ret, fresh>>

\* make() with a negative capacity panics, and so does an index out of range.
StopPanic(p) ==
    /\ \/ pc[p] = "stopEnter" /\ mu = NoProc /\ numStarted < 0
       \/ pc[p] = "stopPick" /\ numStarted \notin 1..Len(hooks)
    /\ Goto(p, "panic")
    /\ UNCHANGED <<shared, pos, lim, reg, ret, fresh, up>>

CallOnStop(p) ==
    /\ pc[p] = "stopMark"
    /\ mu = NoProc
    /\ runningHook' = pos[p]
    /\ up' = up \ {pos[p]}
    /\ Goto(p, "inOnStop")
    /\ UNCHANGED <<hooks, numStarted, startRecords, stopRecords, mu, pos, lim,
                   reg, ret, fresh>>

\* The error is kept and the loop goes on.
OnStopReturn(p, e) ==
    /\ pc[p] = "inOnStop"
    /\ ret' = [ret EXCEPT ![p] = Combine(ret[p], e)]
    /\ Goto(p, IF e = "nil" THEN "stopRecord" ELSE "stopRecordErr")
    /\ UNCHANGED <<shared, pos, lim, reg, fresh, up>>

\* The hook is recorded whether or not it failed.  After a success the lock is
\* kept while the logger runs.
StopRecord(p) ==
    /\ pc[p] = "stopRecord"
    /\ mu = NoProc /\ mu' = p
    /\ stopRecords' = Append(stopRecords, pos[p])
    /\ Goto(p, "stopLog")
    /\ UNCHANGED <<hooks, numStarted, startRecords, runningHook, pos, lim, reg,
                   ret, fresh, up>>

StopRecordErr(p) ==
    /\ pc[p] = "stopRecordErr"
    /\ mu = NoProc
    /\ stopRecords' = Append(stopRecords, pos[p])
    /\ Goto(p, "dec")
    /\ UNCHANGED <<hooks, numStarted, startRecords, runningHook, mu, pos, lim,
                   reg, ret, fresh, up>>

\* The logger returns and the lock is released.
StopLogged(p) ==
    /\ pc[p] = "stopLog"
    /\ mu' = NoProc
    /\ Goto(p, "dec")
    /\ UNCHANGED <<hooks, numStarted, startRecords, stopRecords, runningHook,
                   pos, lim, reg, ret, fresh, up>>

\* numStarted-- is a load and a store: no lock is held.
DecLoad(p) ==
    /\ pc[p] = "dec"
    /\ reg' = [reg EXCEPT ![p] = numStarted]
    /\ Goto(p, "decStore")
    /\ UNCHANGED <<shared, pos, lim, ret, fresh, up>>

DecStore(p) ==
    /\ pc[p] = "decStore"
    /\ numStarted' = reg[p] - 1
    /\ reg' = [reg EXCEPT ![p] = 0]
    /\ Goto(p, "stopLoop")
    /\ UNCHANGED <<hooks, startRecords, stopRecords, runningHook, mu, pos, lim,
                   ret, fresh, up>>

StopReturn(p) ==
    /\ pc[p] = "stopLoop" /\ numStarted <= 0
    /\ Goto(p, "idle")
    /\ UNCHANGED <<shared, pos, lim, reg, ret, fresh, up>>

-----------------------------------------------------------------------------
(* What the report of a timeout reads, under the lock.  It sorts the records by
   run time, so only which hooks are listed matters. *)

StartHookRecords  == {startRecords[i] : i \in 1..Len(startRecords)}
StopHookRecords   == {stopRecords[i] : i \in 1..Len(stopRecords)}
RunningHookCaller == runningHook

-----------------------------------------------------------------------------
\* What a goroutine inside Start or Stop does, split by what drives it: its own
\* code, or a callback of the application that returns.
OwnStep(p) ==
    \/ StartEnter(p) \/ StartSkip(p) \/ CallOnStart(p) \/ StartRecord(p)
    \/ IncLoad(p) \/ IncStore(p) \/ StartReturn(p)
    \/ StopEnter(p) \/ StopCheck(p) \/ StopPick(p) \/ StopSkip(p)
    \/ StopPanic(p) \/ CallOnStop(p) \/ StopRecord(p) \/ StopRecordErr(p)
    \/ StopLogged(p) \/ DecLoad(p) \/ DecStore(p) \/ StopReturn(p)

HookReturns(p) ==
    \/ OnStartOk(p)
    \/ \E e \in Failures : OnStartFails(p, e)
    \/ \E e \in Failures \cup {"nil"} : OnStopReturn(p, e)

Step(p) == OwnStep(p) \/ HookReturns(p)

\* The client the package is written for: one call at a time, and no second
\* Start before a Stop.  App.tla says what happens to other clients.
SerialCall(p) == /\ Quiescent
                 /\ (fresh /\ CallStart(p)) \/ CallStop(p)

Next ==
    /\ Alive
    /\ \/ \E h \in Kinds : AppendHook(h)
       \/ \E p \in Procs : SerialCall(p) \/ Step(p)

SerialSpec == Init /\ [][Next]_vars

\* Start and Stop are ordinary calls: the goroutine in them keeps running.
\* Callbacks are expected to return.
FairSerialSpec == SerialSpec /\ \A p \in Procs : WF_vars(Step(p))

-----------------------------------------------------------------------------
TypeOK ==
    /\ hooks \in Seq(HookKind) /\ Len(hooks) <= MaxHooks
    /\ numStarted \in Int
    /\ startRecords \in Seq(Nat)
    /\ stopRecords \in Seq(Nat)
    /\ runningHook \in Nat
    /\ mu \in Procs \cup {NoProc}
    /\ pc \in [Procs -> PC]
    /\ pos \in [Procs -> Nat]
    /\ lim \in [Procs -> Nat]
    /\ reg \in [Procs -> Int]
    /\ ret \in [Procs -> Error]
    /\ fresh \in BOOLEAN
    /\ up \in SUBSET Nat

\* Start and Stop calls of the serial client never overlap, so numStarted is safe
\* without the lock.  The hooks that are up are always an initial segment of
\* hooks, and each point of Start and Stop knows which one.
AtStart(p) == pc[p] \in StartPC \ {"startEnter"}    \* pos[p] is to start
AtStop(p)  == pc[p] \in StopPC \ {"stopEnter", "stopLoop", "stopPick"}  \* ... to stop
AtOnStart(p) == pc[p] \in {"inOnStart", "startRecord"}     \* ... and has OnStart
AtOnStop(p)  == pc[p] \in {"stopMark", "inOnStop", "stopRecord", "stopRecordErr"}
OneUp(p)   == pc[p] \in {"startRecord", "inc", "incStore"}   \* not yet counted
OneDown(p) == AtStop(p) /\ pc[p] # "stopMark"                \* still counted

StackIsUp(p) ==
    LET n == numStarted IN
    /\ pc[p] = "startEnter" => n = 0
    /\ AtStart(p) => n = pos[p] - 1
    /\ pc[p] = "stopPick" => n >= 1
    /\ AtStop(p) => n = pos[p] /\ n >= 1
    /\ AtOnStop(p) => hooks[n].onStop
    /\ pc[p] \in {"incStore", "decStore"} => reg[p] = n
    /\ OneUp(p) => up = 1..(n + 1)
    /\ OneDown(p) => up = 1..(n - 1)
    /\ pc[p] # "idle" /\ ~ OneUp(p) /\ ~ OneDown(p) => up = 1..n

StartBounds(p) ==
    /\ pc[p] \in StartPC => ~ fresh
    /\ pc[p] \in StopPC => fresh
    /\ AtStart(p) => lim[p] <= Len(hooks) /\ pos[p] >= 1 /\ pos[p] <= lim[p] + 1
    /\ AtStart(p) /\ pc[p] # "startLoop" => pos[p] <= lim[p]
    /\ AtOnStart(p) => hooks[pos[p]].onStart

\* The state the code is in between and during serial calls: the inductive
\* invariant behind every other property of this module.
IInv ==
    /\ \A p, q \in Procs : pc[p] # "idle" /\ pc[q] # "idle" => p = q
    /\ Alive
    /\ \A p \in Procs : mu = p <=> pc[p] = "stopLog"
    /\ numStarted \in 0..Len(hooks)
    /\ Quiescent => up = 1..numStarted /\ (fresh => numStarted = 0)
    /\ \A p \in Procs : StackIsUp(p) /\ StartBounds(p)

-----------------------------------------------------------------------------
(* Properties of the serial client. *)

\* An OnStart is called only when every hook before it is up and no other is:
\* "one at a time, in order", whatever was appended, failed or stopped before.
StartInOrder ==
    [][\A p \in Procs :
         pc[p] # "inOnStart" /\ pc'[p] = "inOnStart" => up = 1..(pos[p] - 1)]_vars

\* An OnStop is called only for the topmost hook that is up: each started hook
\* once, in reverse order, and never a hook whose OnStart failed.
StopInReverse ==
    [][\A p \in Procs :
         pc[p] # "inOnStop" /\ pc'[p] = "inOnStop" =>
            pos[p] \in up /\ \A i \in up : i <= pos[p]]_vars

\* When Stop returns, no hook is left up, even if OnStop callbacks failed.
NothingLeftUp ==
    [][\A p \in Procs : pc[p] \in StopPC /\ pc'[p] = "idle" => up' = {}]_vars

\* startRecords lists the hooks this Start has run OnStart of, in order.
StartRecordsExact ==
    \A p \in Procs : pc[p] \in StartPC \ {"startEnter"} =>
        LET done == {i \in up : hooks[i].onStart /\
                               ~ (pc[p] = "startRecord" /\ i = pos[p])}
        IN  /\ StartHookRecords = done
            /\ \A k \in 2..Len(startRecords) :
                  startRecords[k - 1] < startRecords[k]

\* stopRecords lists hooks this Stop has stopped, in reverse order, and leaves
\* out none between the first of them and the hook Stop is at.
StopRecordsExact ==
    \A p \in Procs : pc[p] \in StopPC \ {"stopEnter"} =>
        LET done == StopHookRecords
            here == pc[p] \in {"inOnStop", "stopRecord", "stopRecordErr"}
        IN  /\ \A i \in done : i \notin up /\ hooks[i].onStop
            /\ \A i \in 1..Len(hooks), j \in done :
                  i < j /\ i \notin up /\ hooks[i].onStop => 
                     i \in done \/ (here /\ i = pos[p])
            /\ \A k \in 2..Len(stopRecords) :
                  stopRecords[k - 1] > stopRecords[k]

\* Stop forgets no error: once an OnStop failed, Stop returns an error, and the
\* next failure does not replace the one before.
StopErrorsKept ==
    [][\A p \in Procs : pc[p] \in StopPC =>
         /\ ret[p] # "nil" => ret'[p] # "nil"
         /\ ret'[p] # ret[p] => ret'[p] = "multi" \/ ret[p] = "nil"]_vars

\* Start and Stop return if every callback does.
CallsReturn == \A p \in Procs : pc[p] # "idle" ~> pc[p] = "idle"

-----------------------------------------------------------------------------
(* Lifecycle implements HookStack. *)

Rising  == \E p \in Procs : pc[p] \in StartPC
Falling == \E p \in Procs : pc[p] \in StopPC
Busy    == CHOOSE p \in Procs : pc[p] # "idle"

AbsRun == CASE \E p \in Procs : pc[p] = "inOnStart" ->
                   [phase |-> "start", hook |-> pos[Busy]]
            [] \E p \in Procs : pc[p] = "inOnStop" ->
                   [phase |-> "stop", hook |-> pos[Busy]]
            [] OTHER -> [phase |-> "none", hook |-> 0]

AbsMode == CASE Rising  -> "rising"
             [] Falling -> "falling"
             [] OTHER   -> IF fresh THEN "down" ELSE "settled"

AbsGoal == IF ~ Rising THEN 0
           ELSE IF pc[Busy] = "startEnter" THEN Len(hooks) ELSE lim[Busy]

Promise == INSTANCE HookStack
               WITH live <- up, run <- AbsRun, mode <- AbsMode, goal <- AbsGoal

\* Every behaviour of the serial client is one HookStack allows, and it makes
\* the progress HookStack promises.
ImplementsHookStack == Promise!FairSpec

============================================================================
