# Fx in TLA+

Models, model-checking runs and machine-checked proofs for Fx, the dependency
injection framework for Go in this repository. Fx builds an application from constructors, starts it,
waits, and stops it. The part of Fx in which things can go wrong in ways a unit
test hardly reaches is the second half: starting and stopping with callbacks that
fail, hang and outlive the call that ran them. That part is modelled first and
in most detail; the construction of an application, the walks of its helpers and
its analyser follow.

Paths are relative to the repository (`src/`).

## The system

| Component | State | Operations | Interacts with |
|---|---|---|---|
| **Lifecycle** (`internal/lifecycle/lifecycle.go`, wrapped by `lifecycle.go`) | `hooks`, `numStarted`, `startRecords`, `stopRecords`, `runningHook`, `mu` | `Append`, `Start`, `Stop`, `StartHookRecords`, `StopHookRecords`, `RunningHookCaller` | called by constructors and callbacks (`Append`), by `App.start` and `App.Stop`, and by timeout reports; calls back into the application |
| **App.Start / App.Stop** (`app.go`, `withTimeout`, `start`) | one goroutine, one channel of capacity 1 and one context per call; `app.err` | `Start`, `Stop` | runs the lifecycle in a goroutine, rolls a failed start back, reads records for a timeout report |
| **Done, Shutdowner, signals** (`app.go`, `shutdown.go`, `app_unixes.go`) | `dones`, `donesMu`, the channels' buffers | `Done`, `Shutdown` | `os/signal`, anything that receives from a Done channel |
| **App.Run** (`app.go`) | where `run` is | `Run` | composes the two above; ends the process with `os.Exit(1)` |
| **Construction** (`app.go` `New`, options; `supply.go`, `annotated.go`, `populate.go`) | `provides`, `invokes`, `err`, `errorHooks`, `validate`, timeouts, the dig container | every `Option.apply`, `provide`, `executeInvokes`, `New`, `ValidateApp` | dig (external), lifecycle, loggers |
| **Log buffer and custom logger** (`log.go`, `app.go` `constructCustomLogger`) | buffered events, the logger in use | `LogEvent`, `Connect` | construction |
| **Extract / Populate** (`extract.go`, `populate.go`) | none | a walk over the fields of a struct | construction |
| **fxtest** (`fxtest/`) | none of its own | `RequireStart`, `RequireStop`, lifecycle that panics on failure | lifecycle, app |
| **fxevent loggers** (`fxevent/`) | none | one type switch per logger | everything |
| **fxreflect** (`internal/fxreflect/`) | none | `CallerStack`, frame filters, names | construction, lifecycle |
| **allfxevents analyser** (`tools/analysis/passes/allfxevents/`) | the set of events not yet handled by the method being visited | `Visit`, `funcDeclEnter`, `funcDeclExit` | go/analysis (external) |

What is hard in each, and what makes it correct:

* **Lifecycle.** `numStarted` and the iteration over `hooks` are not protected by
  `mu`. Start gives up at the first error, Stop goes on after errors; a hook may
  lack either callback; a callback may append hooks. Correct: hooks start in order
  and stop in reverse, exactly those that started are stopped, whatever fails; no
  error is lost; the records are those of the present call.
* **App.Start / App.Stop.** A call that times out leaves its goroutine behind in
  the lifecycle, where it may still be starting hooks or rolling back. Correct: an
  answer read from the channel is true; a failed start is undone to the end, seen
  or unseen; callers return although callbacks hang; goroutines do not leak.
* **Done and Shutdown.** Done subscribes to signals before the channel is in
  `dones`; channels hold one signal; several Shutdowns, signals and receivers
  meet. Correct: Shutdown reaches every open channel and never blocks.
* **Run.** The signal may come while hooks are starting, or before anybody waits
  for it. Correct: the process ends, and returns normally only when all is down.
* **Construction.** Errors stop some steps and not others, in a fixed order.
  Correct: no invoke after an error, no error lost, a failed invoke told to every
  error handler, events written once and in order to one logger, and a New
  without error has done everything it was asked for.
* **Extract, fxreflect, allfxevents.** Pure walks with boundary cases: two indices
  that must stay aligned, a loop that leaves before its last element, a set that
  is stale between two visited nodes.
* **fxtest.** A test that passes must have taken its app down, and one whose start
  hangs must end.

## The modules

| Module | Models | |
|---|---|---|
| `HookStack` | what a lifecycle promises: a stack of hooks that goes up one at a time from the bottom and comes down one at a time from the top | abstract specification |
| `Lifecycle` | `internal/lifecycle/lifecycle.go`, step by step | implements `HookStack` |
| `LifecycleProofs` | theorems about `Lifecycle` | |
| `App` | `App.Start`, `App.Stop`, `withTimeout`, `App.start` | extends `Lifecycle` |
| `AppProofs` | theorems about `App` and its clients | extends `LifecycleProofs` |
| `Shutdown` | `App.Done`, `Shutdowner.Shutdown`, signals | |
| `ShutdownProofs` | theorems about `Shutdown` | |
| `Run` | `App.Run` | extends `App`, instantiates `Shutdown` |
| `FxTest` | `fxtest.App`: New, RequireStart, RequireStop | extends `App` |
| `RunProofs` | theorems about `Run` and `FxTest` | extends `AppProofs` |
| `Construct` | `New`, `ValidateApp`, every option, `provide`, the custom logger and its buffer, the invokes | |
| `ConstructProofs` | theorems about the phases of `Construct` | |
| `Lists` | lemmas about sequences, and induction and recursion over natural numbers | |
| `ConstructComplete` | theorems about what the options of `Construct` ask for, and get | extends `ConstructProofs`, `Lists` |
| `Extract` | `Extract`, `Populate` | |
| `Stack` | `fxreflect.CallerStack`, `CallerName` | |
| `FxEvent` | the events, and the clauses of the two loggers | |
| `AllFxEvents` | the analyser's visitor | |
| `WalkProofs` | theorems about `Extract`, `Stack` and `AllFxEvents` | extends the three |
| `MCLifecycle`, `MCApp`, `MCRun`, `MCConstruct`, `MCWalks` | instances for TLC, and clients written for a run | |

### Lifecycle

A process is a goroutine in `Start` or `Stop`; `pc`, `pos`, `lim`, `reg` and `ret`
are its program counter and local variables. A step is the code between two
points where another goroutine could notice or interfere: a critical section of
`mu`, the call or the return of a callback, an access to an unprotected field.
`numStarted++` and `numStarted--` are a load and a store, since no lock is held, and
the condition of Stop's loop and the index in its body are two reads: when another
Stop counts down between them, the index is -1.
`mu` is a variable because one critical section contains a call: after a
successful OnStop the logger runs with `mu` held (`StopRecord`, `StopLogged`).

| Action | Code in `Start` / `Stop` |
|---|---|
| `StartEnter` | records reset without the lock, `range l.hooks` evaluated once |
| `StartSkip`, `CallOnStart` | hook without / with OnStart; `runningHook` set under `mu` |
| `OnStartOk`, `OnStartFails` | the callback returns |
| `StartRecord`, `IncLoad`, `IncStore`, `StartReturn` | record under `mu`; `numStarted++`; `return nil` |
| `StopEnter`, `StopPanic` | records reset under `mu`; `make` with a negative capacity |
| `StopCheck` | the loop condition `l.numStarted > 0`, a read of its own |
| `StopPick`, `StopSkip`, `StopPanic` | `l.hooks[l.numStarted-1]`, or its index out of range, -1 included |
| `CallOnStop`, `OnStopReturn` | `runningHook` set under `mu`; the callback returns |
| `StopRecord`, `StopLogged`, `StopRecordErr` | record under `mu`, the logger, `continue` on an error |
| `DecLoad`, `DecStore`, `StopReturn` | `numStarted--`; the loop condition fails, `multierr.Combine` |

A hook is its position. An error is `"nil"`, `"fail"`, `"deadline"` (a callback
that returned `context.DeadlineExceeded`, which `withTimeout` treats apart) or
`"multi"` (several, joined by multierr). `up` is a history variable: the hooks
that are started and not yet stopped. A callback that returns is nondeterministic
in its result, and need not return unless a run says so.

`SerialSpec` is the client the package is written for: one call at a time, and
no second Start before a Stop. `HookStack` says what this client gets, progress
included, and `ImplementsHookStack` is the refinement.

### App

A member of `Procs` is one call of `Start` or `Stop` together with the goroutine
`withTimeout` starts for it. `caller` is the caller's place, `stage` that of the
goroutine around the lifecycle call (`begin`, `start`, `rollback`, `stop`, `done`),
`chan` the channel, `ctx` the context. The caller's `select` takes either side
when both are ready. When the error is a deadline, from the context or from a
callback, the caller reads the records and the running hook in two critical
sections of `mu`. `appErr` is the error New left in the app: none, one, or a deadline,
which `withTimeout` takes for a timeout of the Start that returns it.

Three clients:

* `PatientSpec` waits for the goroutine of a call before it makes the next, and
  stops the app before it starts it again. `LifecycleIsSerial` shows that this
  client never leaves `SerialSpec`, so every theorem about `SerialSpec` applies
  (`AppIsSerial`).
* `HastySpec` waits for a call to return and no longer. Goroutines overlap.
* `RaceSpec` (in `MCApp`) is a hasty client with a script of three calls.

### Shutdown

`Notify` and `Register` are the two halves of `Done`: the channel is subscribed
before it is in `dones`. A broadcast is one step per channel under the read lock of
`donesMu`; `Register` takes the write lock and so waits for every broadcast. Each
channel holds one signal; a full one is counted and skipped. `heard` is a history
variable: the channels a signal was received from since the broadcast began.

### Run

`main` is where `run` is; its steps are Shutdown's `Notify` and `Register`, App's
`Call` twice and a `Receive`. A Start or Stop that returns an error ends the
process at once, whatever its goroutines are doing. Both contexts have a deadline
and are never cancelled while Run waits.

### FxTest

`test` is where a test is. Its steps are those of Run without the wait: New fails
the test if `fx.New` met an error, and a Start or Stop that returns an error ends
the test (`FailNow`), so that what follows is not called. `MCRun` puts both
clients into one run: the process is a program that calls Run or a test.

### Construct

New is one goroutine; the interest is in what an error stops. `pc` is the phase:
`options`, `provides`, `logger`, `check`, `invokes`, `handle`, `done`, or `panic`.
`todo` is the list of options not yet applied: a group is replaced by its options.
A group can hold groups; `Nesting` is how deep.
`app` holds the fields of `App`; `app.err` is the sequence of the errors that
multierr has joined. `buffer` is the `logBuffer`. `emitted`, `out`, `called` and
`heard` are histories: the events handed to `app.log`, what each logger has
written, the invoked functions that ran, and the error handlers that were called.

| Action | Code |
|---|---|
| `ApplyProvide` .. `ApplyGroup` | one `Option.apply` each |
| `Prepare` | the log buffer is put in front if `WithLogger` was used |
| `ProvideSkip`, `ProvideRejected`, `ProvidePanic`, `ProvideOk` | `app.provide`, its deferred call included, for the constructors of the options and Fx's own three |
| `ProvidesDone` | the `ProvideError` event |
| `BuildLogger`, `BuildLoggerDry`, `BuildLoggerFails` | `constructCustomLogger`, in a dry run, and the way back to the former logger; the constructor goes to dig as it is (`AcceptsLogger`), without the checks of `app.provide` |
| `CustomLogger`, `CustomLoggerError`, `CheckErr` | the event; the return before the invokes |
| `InvokeNext`, `InvokeOk`, `InvokeFails` | one round of `executeInvokes` |
| `HandleError`, `HandlersDone` | the error handlers |

dig is external. It refuses what is not a constructor and a second constructor
of a value; it can call a function when all it needs is provided and no
constructor of these fails; under `DryRun` it calls nothing and finds only what is
missing. A function's `needs` are closed under what its constructors need. That a dry
run calls no constructor is dig's, and is not followed constructor by constructor:
`DryRunCallsNothing` is about the invoked functions and the custom logger.

### Extract, Stack, AllFxEvents

`Extract`: `job` is one call of Extract or Populate. `fields` and `targets` are the
two lists the walk builds; `value` is what each item holds: what it held before,
the zero value, or the key of the value it was given. A field is told apart by
whether it is embedded, its name (or its type's) is upper case, and `PkgPath` is
empty, which says nothing of embedded fields. A nil pointer to a struct (`NilStruct`)
and a nil pointer among the targets (`FillPanics`) panic. A target that is an `fx.In`
struct counts as one value.

`Stack`: `CallerStack` reads `pcs` frames and keeps all but the last; `CallerName`
passes over Fx's frames. A frame is told apart by the owner of its sanitized name
and whether its file is a test file.

`AllFxEvents`: the visitor's `funcEvents` and the place in the package, one step per
file, declaration or clause. What is below a clause is skipped by the inspector,
and so is not in the model. `MCWalks` gives it small packages, and Fx's own, made
from `FxEvent`.

## The runs

| Run | Question | Instance | Distinct states |
|---|---|---|---|
| `lifecycle` | Does a serial client get what `HookStack` promises, errors and records included? | 2 goroutines, 3 hooks of any of the 4 kinds, appended at any time | 492,000 |
| `app_patient` | Can a patient client believe its answers, and is a failed start undone? | 2 calls, 2 hooks, both endings of contexts | 196,000 |
| `app_hasty` | Do lock, callers and goroutines survive calls that overlap? | 2 calls, 1 hook | 134,000 |
| `app_race` | What survives when three goroutines race for `numStarted`, and what does a panic take? | 3 calls, 2 hooks | 2,140,000 |
| `shutdown` | Does Shutdown reach every channel, and never block? | 2 channels, 2 senders that repeat | 82,000 |
| `run` | Does Run always end, and with everything down when it returns? And a test? | 1 hook, 1 sender that repeats, both signals | 33,000 |
| `construct` | What does an error of New stop, and where do the events go? | lists of up to 4 options, validated and not | 46,000 |
| `walks` | Do the walks give what their reference definitions say? | up to 3 fields, 4 frames, 3 declarations | 94,000 |
| `overlap`, `failed_hook`, `stop_twice`, `validate_log` | Four statements of comments that the code does not keep | see Findings | |

Bounds. `MaxHooks` bounds how many hooks are ever appended: three are needed to tell
"in order" and "in reverse" from "somehow", to have a hook that fails with one
below and one above it, and to append one during a call. Starts and Stops of the
`lifecycle` run repeat without bound, so records and counters of earlier calls
are there to be confused with. `app_patient` has two calls, the second after the
first is over: a start and its stop, a rollback and a retry. Overlap needs two
calls, and the panics three: a Start, and two Stops or a second Start and a Stop. `Failures` and `Endings` choose the
errors; `Kinds` the hooks: all kinds in `lifecycle`, hooks with both callbacks
elsewhere, since a missing callback only shortens the path.
`construct` has every list of two options out of a pool in which each phase of New
can fail and which has a group within a group, and lists of three and four that have a
constructor, a logger, an invoke and an error handler at once. `walks` enumerates all short inputs: a skipped
item before, between and after kept ones, a stack shorter and longer than its
depth, a method after another one. `DefaultDepth` is 3 there (8 in the code), so
that four frames are already too deep.
The theorems of the last part remove these bounds for all safety properties but one.

Every property is checked against a faulty variant of some step, written beside the
code model ("Faulty variants"): each property of a passing run fails when the step is
replaced by the variant.

`App` runs stop when every call has been made, `run` when the process ends, New
and the walks when they return, so these do not check for deadlock; `lifecycle` and `shutdown` do.

Fairness.
* `lifecycle`: weak fairness per goroutine in a call, callbacks included: Start
  and Stop are ordinary code, and the promise is conditional on callbacks returning.
* `App`: `CodeRuns` is weak fairness for each goroutine's own steps and each
  caller's: the Go scheduler runs what can run, and a `sync.Mutex` is handed
  over. Nothing is assumed of callbacks, contexts or the client. Where callbacks
  must return, the property says so itself (`CallbacksReturn => ...`).
  One call that a goroutine makes is not its own code and yet is taken to return: the
  user's logger, which runs with `mu` held after an OnStop (`StopLogged`). A logger that
  never returns keeps the mutex, and with it every caller that wants a report;
  `CallerReturns`, `ShutdownEndsRun` and `TestEnds` hold for loggers that return.
* `shutdown`: weak fairness of a broadcast in progress.
* `run`: as `App`, and timers fire. Callbacks may hang for ever. The append in
  `Done` needs strong fairness: a `sync.RWMutex` makes new readers queue behind a
  writer, without which Shutdowns that follow each other could keep Done waiting.
  The steps of a test are weakly fair.
* `construct` and `walks` assume none: they check no liveness.

## Findings

* `overlap`. `app.go:354` and `app.go:363`: hooks are executed "one at a time". A
  call that times out leaves its goroutine running callbacks; the next call runs
  more of them at the same time.
* `failed_hook`. `app.go:700`: "only hooks whose OnStart phase was called are
  executed. However, all those hooks are executed". The hook whose OnStart was
  called and failed is not stopped. The lifecycle's own comment
  (`lifecycle.go:124`) says "succeeded", which is what the code does.
* `stop_twice`. A Stop repeated after it timed out runs the same OnStop again;
  both goroutines count `numStarted` down, so the hook below is skipped, and the
  second Stop returns nil.

* `validate_log`. `app.go:539`: "use a buffered logger to hold all messages until
  user supplied logger is instantiated. Then we flush those messages". Under
  `ValidateApp` the function that connects the buffer is not called, because dig
  is told to make a dry run, and the events, the error of a missing constructor
  included, stay in the buffer. `EventsDelivered` shows that this is the only way
  for New to return with events in the buffer.

Three more differences are known and have no run. `StopHookRecords` is said to return
hooks "that successfully ran till the end" (`internal/lifecycle/lifecycle.go:195`)
and also lists hooks whose OnStop failed. `RunningHookCaller` is said to name the
hook "that was running when a Start/Stop hook timed out" (line 205); `runningHook`
is never cleared, so a report can blame a hook that had just finished. The
records of the model carry both. `Populate` is commented "Validate all targets are
non-nil pointers" (`populate.go:37`) and refuses only an untyped nil: a nil pointer of
a type panics when it is written (line 62), after the targets before it were;
`ExtractAllOrNothing` states this as its third case. `TimeoutReportIsTrue` says when a report can be
believed: once Start has reset the records (the reset takes no lock, so a copy
made meanwhile may hold old or zero records), and as long as a callback is running.

`shouldIgnoreFrame` (`internal/fxreflect/fxreflect.go:77`) reads the first letter
of an empty name, so a frame without a function name makes `CallerName` panic, and
a copy of Fx in a `vendor` directory is named as a client. `CallerIsInnermostClient`
counts such a copy as a client, and shows that nothing else panics or is
misnamed. The analyser panics on a clause outside functions that comes before the
first LogEvent method; `ReportsExact` shows that only those do it.

`Provide(nil)` makes New panic (`app.go:807`), after its deferred call has logged a Provide
event: `ContainerIsLogged` says that this event is the only one too many. No comment says
what New should do instead.

A second Start without a Stop counts hooks twice and the next Stop panics. Of two Stops
that overlap one can panic in its loop, and the Stop after them when it makes room for
its records. Nothing is promised otherwise. `PanicsNeedTwo` shows that it takes one of
the two, a second Start or a second goroutine in Stop (a rollback counts): one Start and
one Stop never panic, also when the Stop comes after a timeout and they overlap. Serial
clients never get there at all (`Alive`, a part of `IInv`).

## The proofs

Eight modules: those of the lifecycle, of App, of its two clients, of Shutdown, of the
three walks, two of New, and one of lemmas about lists. The theorems hold for any number of
goroutines, hooks, errors, channels, options, fields, frames and declarations: they remove
the bounds of the runs.

### What is assumed

Each constant has a named assumption in the module that declares it, evaluated by TLC
on every run that uses it.

| Module | Assumptions | Why the code justifies them |
|---|---|---|
| `Lifecycle` | `NoProc` is no goroutine, `MaxHooks` a natural number, `Kinds` and `Failures` subsets of what exists | `MaxHooks` is any number; a run of the program appends finitely many hooks |
| `App` | a context ends by its deadline or is cancelled | `context.Context` has no third way |
| `Run`, `FxTest` | the calls are a Start and a Stop, two different ones | the body of `run`, and of a test that requires both |
| `Construct` | each option has the argument of its kind, and `validate` is none of them | the parameter types of the exported options; `validate` is not exported |
| `Construct` | `Nesting`: what is in a group is nested less deep than the group | an Option is a value made by a call, and `Options` is given options that were made before (it keeps the caller's slice; a caller that then puts the group into that slice makes New recurse for ever, and is left out) |
| `Extract` | the fields of a struct, or the targets of Populate, have their attributes; `PkgPath` tells if a field that is not embedded is exported | the rule of `reflect` that `extract.go` relies on |
| `Stack` | a stack is a sequence of frames, a depth an integer | |
| `AllFxEvents` | a package is a sequence of files of declarations, over a finite scope; `nil` is no set of events | the syntax tree that go/analysis hands over |

### Lifecycle

| Theorem of `LifecycleProofs` | States |
|---|---|
| `TypeCorrect` | `SerialSpec => []TypeOK` |
| `Inductive` | `SerialSpec => []IInv` |
| `NoPanic` | `SerialSpec => []Alive`: Stop does not panic |
| `StartOrder`, `StopOrder` | `StartInOrder`, `StopInReverse` |
| `StopIsComplete`, `StopErrors` | `NothingLeftUp`, `StopErrorsKept` |
| `StartRecords`, `StopRecords` | `StartRecordsExact`, `StopRecordsExact` |
| `Refinement` | `SerialSpec => Promise!Spec`: the safety part of `HookStack` |

The argument. "The hooks that are up are the first `numStarted` ones" is true
between calls and false in the middle of one: after OnStart returned and before
`numStarted++`, one more is up; once OnStop was called and before `numStarted--`,
one less. `IInv` says for each program point which of the three holds
(`StackIsUp`), that at most one goroutine is in a call, that the mutex is held
exactly at `stopLog`, that `range` never walks past the hooks there are
(`StartBounds`), and that after a Stop, or before the first Start, `numStarted` is
0. The last one needs the client: it is why a second Start must wait for a Stop.
The step proof has one case per action. The order properties follow from `StackIsUp`
at the step that calls a callback; the refinement maps `up` to the live hooks
and the running callback to the abstract one, and each step of the code to a
step of `HookStack` or to a stutter.

`StartRecordsExact` is inductive beside `IInv`. `StopRecordsExact` is not: `StopRecordsInv`
adds that every hook recorded lies above the one that Stop is at (`Passed`).

### App

| Theorem of `AppProofs` | States |
|---|---|
| `AppTypes` | `AppTypeOK`, for patient and hasty clients |
| `Lock` | `LockDiscipline`, for patient and hasty clients |
| `AppIsSerial` | `PatientSpec => LifecycleIsSerial` |
| `AppImplementsHookStack` | `PatientSpec => Promise!Spec`, with `OneHookAtATime` and without a panic |
| `AnswersTrue`, `TimeoutReport` | `AnswersAreTrue`, `TimeoutReportIsTrue`, for patient clients |
| `RollbackLeavesNothing` | when the rollback of a failed start is over, nothing is up and nobody is at work: the safety half of `FailedStartIsUndone`, for patient clients |
| `StopsStarted` | `AnySpec => StopsOnlyStarted` |
| `PanicTakesTwo` | `AnySpec => []PanicsNeedTwo` |
| `SendHasRoom` | `AnySpec`: a goroutine that ends finds its channel empty and sends |

`AnySpec` is a client that makes any call at any time; the other clients are among its
behaviours. `Places` relates the two program counters of a call, `stage` around the
lifecycle and `pc` inside it: only a goroutine between `begin` and `done` is in the
lifecycle. A patient client keeps `OneOpen`, that at most one call is not settled; the
two make every step of App one of `SerialSpec`, and all of the lifecycle's theorems
apply. `Answers` follows the truth of an answer from the lifecycle's `ret` to the
channel to its caller: what is up stays as it was, since nobody else is at work; and it
follows the error of a failed start to its place in the answer, alone or with the rollback's. The
report also needs `RunningHookIsRunning`, which is an invariant of the lifecycle: while
a callback runs, `runningHook` is its hook.

`SendHasRoom` is why a capacity of 1 is enough, which `Send` of the model takes for granted:
`Room`, a channel holds something only when its goroutine is done.

`StopsStarted` is the hardest of these. It is about goroutines that race, where `IInv`
does not hold: `numStarted` may be anything that lost updates leave. What does hold, as long
as Start is called once, is `CountsRecorded`: `numStarted`, every copy of it in a goroutine's
register, and every hook that a Stop is at, are at most the number of hooks this Start has
recorded. Each `numStarted--` only lowers what it read, and each `numStarted++` adds one to
at most `pos - 1`, after the record of `pos`. The start's own reset of the records is harmless
because nothing was counted before it (`NothingYet`).

`PanicTakesTwo` bounds `numStarted` from both sides. `CountsRecorded` keeps it at or below
the number of hooks, as long as Start is called once. `CountsBelow` keeps it at or above 1
from the check of Stop's loop to the decrement, as long as no second goroutine is in Stop: every
store of a Start leaves at least 1, since what it read was not negative. Both conditions
can only cease to hold (`EarlyPasses`, `StopPasses`).

### Run and FxTest

| Theorem of `RunProofs` | States |
|---|---|
| `RunWaits`, `TestWaits` | Run, and a test, are patient clients: `RunIsPatient`, `TestSpec => PatientSpec` |
| `ReturnsDown`, `PassesDown` | `ReturnsWhenDown`, `PassesWhenDown` |
| `RunKeepsThePromise`, `TestKeepsThePromise` | `Promise!Spec /\ AnswersAreTrue`, of Run and of a test |
| `RunUsesShutdown` | `RunSpec => Sig!Spec`: Run, the goroutines that call Shutdown and the signals do steps of `Shutdown` and no other |
| `ShutdownReachesRun` | `RunSpec => Sig!ShutdownReachesAll`, from the theorem about `Shutdown` |

Both clients go on only after `nil`. `AllTold` says what a `nil` means after it was
read: the goroutine of the call is done, and after a Stop nothing is up. A call that
timed out has an error, and the client makes no other; so it never has to know whether
the goroutine is still there.

### Done and Shutdown

| Theorem of `ShutdownProofs` | States |
|---|---|
| `DoneInvariant` | `Spec => []IInv` |
| `ReachesAll` | `Spec => ShutdownReachesAll` |

No assumption on channels and senders. `dones` does not change under a broadcast, because
the append waits for the readers; every channel a broadcast has passed holds a signal or
has delivered one since the broadcast began, because only a receive empties a channel.
At the end the broadcast has passed them all.

### Construction

| Theorem of `ConstructProofs` | States |
|---|---|
| `NewInvariant` | `Spec => []NewInv` |
| `EveryEventDelivered` | `EventsDelivered` |
| `ContainerLogged` | `ContainerIsLogged` |
| `ErrorsStay`, `NothingInvokedAfterError` | `ErrorsKept`, `InvokesNeedCleanApp` |
| `DryRunIsDry` | `DryRunCallsNothing` |

| Theorem of `ConstructComplete` | States |
|---|---|
| `CompleteInvariant` | `Spec => []CompleteInv` |
| `CleanIsComplete` | `CleanMeansComplete` |
| `HandlersAreCalled` | `HandlersHear` |

`NewInv` is a conjunction of parts over the phases of New. `OneLogger`: the events are all
in the buffer (`Held`) or all with `app.log` (`Direct`), and which of the two is told
by the phase and by whether there is a custom logger to build. `DryRunKnown`: the option that
ValidateApp appends is the last one until it is applied, and no option after it can undo
it. `ContainerInv`: the first constructors of the container are the Provide and Supply events,
which come first. `ErrorsAreKnown`: an event that tells of a failure has its error in
`app.err`. `Progress` and `HandlersProgress`: how far each list has been gone through.

`CompleteInv` adds three parts. `AskedInv`: while options are applied, what each field of App
has collected, followed by what the options in `todo` still ask for, is what was given
(`GivenTo`); afterwards the first is all of it. `ContainerDone`: without an error, the
container is the constructors collected, Fx's own and the one of `WithLogger`. `InvokesTold`:
the last events are those of the invokes that New has come to, and no other event is one.

What was given is defined without regard to how New finds it: `Leaves` opens an option by
recursion over its groups, while the code keeps a list and replaces the group at its head by
its options. That both agree needs facts about data that the library does not prove in a form
the provers can use, and that `Lists` proves. `InductionBySet` has a set in the place of the
predicate and follows from well-foundedness; `Recursion` builds the function that takes given steps from a
start, by induction over how far it has been built; `FlattenSteps` gets from it what
`FlattenSeq`, itself such a function, computes one list at a time; and from this follow
`FlattenConcat`, that flattening two lists joined is joining them flattened, and the same for
`FlatMap`. `LeavesExist` does the same for the nesting of options, level by level, with `NestingAssumption`. `AskedNext`
is the link to the code: to take an option from `todo`, and to put the options of a group in
its place, leaves what is asked for as it was.

### The walks

| Theorem of `WalkProofs` | States |
|---|---|
| `StackInvariant`, `CallerNamed` | `CallerIsInnermostClient`, for any stack and depth |
| `ExtractInvariant`, `Fills`, `AllOrNothing` | `ExtractFills`, `ExtractAllOrNothing`, for any struct or list of targets |
| `AnalyserInvariant`, `ReportsAreExact` | `ReportsExact`, for any package |

Each has the loop invariant of its walk. `StackInv`: the frames kept are the first ones, in
order, and those passed over are no client's. `ExtractInv`: the two lists are aligned, but for the
`In` that only Extract has (`SideBySide`); they have every wanted item before `x` and only
those, once, and what was not reached holds what it held. `AnalyserInv`: in a method the set holds
the events of no clause met so far, and the reports are those of the declarations left behind. The code
decides from two sizes; that they tell "none handled" and "all handled" is `AllOrNone`, a fact
about finite sets.

### Only model-checked

* All liveness, because fairness and ENABLED are out of the prover's reach: `CallsReturn`,
  `FailedStartIsUndone`, `CallerReturns`, `GoroutineEnds`, `ShutdownReturns`,
  `ShutdownEndsRun`, `TestEnds`, and the progress that `ImplementsHookStack` includes.
  Of `FailedStartIsUndone` the safety half is proved, `RollbackLeavesNothing`; of
  `GoroutineEnds` and `ShutdownEndsRun` a part each, `SendHasRoom` and `ShutdownReachesRun`.
* `ShippedLoggersComplete`, which is about two concrete loggers and has nothing to quantify.

## What is left out

* What a timeout report prints, run times and the order they are sorted in, the
  text of events. A report is the set of hooks it lists and the hook it blames.
* A signal before `signal.Notify` has its default action, ending the process.
* dig, multierr, os/signal, context, reflect, runtime and go/analysis are modelled
  from how the code uses them. Cycles of constructors are one more way for
  dig to refuse an invoke and are not told apart; nor are the graphs of errors.
* In `Construct` a step is not interrupted by a function that panics or calls New
  again. The default loggers' text is left out.
* `fxtest.Lifecycle` is a serial client of `Lifecycle`; what it adds is `panicT`,
  which formats a message and panics with it.
* Not modelled: marker types (`inout.go`), `String` methods, writers, printers and
  test helpers. They have no control and no state of their own.

## State of the project

All components are modelled but for what was just left out. Every safety property of the
runs is proved for all values of the constants, but `ShippedLoggersComplete`.

Two statements about `Construct` turned out wrong, or weaker than meant, when they were to be
proved. `CleanMeansComplete` used to count the constructors that are not the one of
`WithLogger`; it failed when the same function was given to `Provide` as well, in a value group,
of which dig takes the same constructor twice. It now says what the container holds, in order,
and also what the last events are. And the options were opened one level deep only, while `Options` can hold `Options`: the
run now has a group in a group, and the theorem any depth.

What could follow: a proof system with ENABLED would make the liveness properties
theorems, `CallsReturn` first, by the number of hooks left to call.
