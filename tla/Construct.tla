------------------------------ MODULE Construct ------------------------------
(***************************************************************************)
(* fx.New (src/app.go): options are applied, constructors are given to the  *)
(* dig container, the custom logger is built, and the invoked functions run *)
(* in order.  Each of these may fail, and each failure stops other things.  *)
(* Events go through a buffer (src/log.go) until the custom logger exists.  *)
(*                                                                         *)
(* New runs in one goroutine.  A step is one option, one constructor, one   *)
(* function or one event handed to the logger.                             *)
(*                                                                         *)
(* An option is a record of its kind and its argument.  A function given to *)
(* Provide, Invoke or WithLogger is a record: its form (what the code tells *)
(* apart), the key of the value it makes, the keys it needs, directly or    *)
(* through constructors, and whether it returns an error.  A supplied value *)
(* is a record of its key and its annotation, "func" for none.             *)
(***************************************************************************)
EXTENDS Integers, Sequences, SequencesExt

CONSTANTS
    Options,        \* the options there are, those inside groups included
    OptionLists,    \* bound: the lists of them that New or ValidateApp is called with
    Keys,           \* the keys of values that options make or need
    Errors,         \* the errors that fx.Error is given
    Handlers,       \* the error handlers there are
    Nesting,        \* per option: how deep groups are nested in it
    NoCtor          \* "no constructor", when fx.WithLogger was not used

\* "named", "grouped" and "both" are Annotated; "returnsAnnotated" is a function that
\* returns one beside the value of its key; "value" is something else than a function.
Forms == {"func", "named", "grouped", "both", "returnsAnnotated", "option",
          "value", "nil"}
Sinks == {"stderr", "printer", "custom"}    \* loggers that write somewhere

FxKeys    == {"Lifecycle", "Shutdowner", "DotGraph"}    \* what Fx provides
Functions == [form : Forms, key : Keys \cup FxKeys, needs : SUBSET (Keys \cup FxKeys),
              fails : BOOLEAN]
Supplied  == [ann : {"func", "named", "grouped", "both"}, key : Keys \cup FxKeys]

\* What an option of each kind is given.  None of them is "validate": that option is
\* not exported.
Args == [provide    |-> Seq(Functions),  supply |-> Seq(Supplied),
         invoke     |-> Seq(Functions),  error  |-> Seq(Errors \cup {"nil"}),
         withLogger |-> Functions,       logger |-> {"printer"},
         errorHook  |-> Seq(Handlers),   startTimeout |-> {"given"},
         group      |-> Seq(Options),    stopTimeout  |-> {"given"}]

\* multierr.Append and Combine drop nil errors.
NonNil(errs) ==
    FlattenSeq([i \in 1..Len(errs) |-> IF errs[i] = "nil" THEN <<>> ELSE <<errs[i]>>])

ASSUME OptionsAssumption ==
    \A o \in Options : o.kind \in DOMAIN Args /\ o.arg \in Args[o.kind]

ASSUME OptionListsAssumption == OptionLists \subseteq Seq(Options)

\* A group is made of options that there are already.
ASSUME NestingAssumption ==
    /\ Nesting \in [Options -> Nat]
    /\ \A o \in Options : o.kind = "group" =>
          \A i \in 1..Len(o.arg) : Nesting[o.arg[i]] < Nesting[o]

VARIABLES
    given,      \* the options New was called with
    app,        \* the fields of the App
    todo,       \* the options not yet applied, groups opened
    pc,         \* where New is
    n,          \* index of the loop New is in
    container,  \* the constructors dig has accepted, in order
    buffer,     \* the logBuffer: its events and its logger
    fallback,   \* the logger to go back to if the custom one fails
    out,        \* per sink: the events written to it
    emitted,    \* history: the events handed to app.log
    called,     \* the invoked functions that dig has called
    heard       \* the error handlers that were called

bufferVars == <<buffer, fallback, out, emitted>>
vars == <<given, app, todo, pc, n, container, bufferVars, called, heard>>

Event(type, of) == [type |-> type, of |-> of]

\* ValidateApp appends its option, so that it comes last.
ValidateOption == [kind |-> "validate", arg |-> TRUE]
ValidateApp(opts) == Append(opts, ValidateOption)

Init ==
    /\ given \in OptionLists \cup {ValidateApp(l) : l \in OptionLists}
    /\ app = [provides |-> <<>>, invokes |-> <<>>, err |-> <<>>,
              log |-> "stderr", logConstructor |-> NoCtor,
              startTimeout |-> "default", stopTimeout |-> "default",
              errorHooks |-> <<>>, validate |-> FALSE]
    /\ todo = given
    /\ pc = "options"
    /\ n = 1
    /\ container = <<>>
    /\ buffer = [events |-> <<>>, logger |-> "nil"]
    /\ fallback = "nil"
    /\ out = [s \in Sinks |-> <<>>]
    /\ emitted = <<>>
    /\ called = <<>>
    /\ heard = <<>>

-----------------------------------------------------------------------------
(* The container, as New uses it. *)

Provided(cs) == {cs[i].key : i \in {j \in 1..Len(cs) : cs[j].form # "grouped"}}

\* A second constructor of a value is refused, except in a value group.
Accepts(f) == f.form \in {"func", "named", "grouped"}
              /\ (f.form = "grouped" \/ f.key \notin Provided(container))

\* WithLogger's constructor goes to the container as it is: an Annotated is not opened,
\* and nobody looks for one among the results of a function.
AcceptsLogger(f) == f.form \in {"func", "returnsAnnotated"}
                    /\ f.key \notin Provided(container)

\* Whether the values f needs can be made.  A dry run finds what is missing and
\* calls no function.
CanCall(cs, f) ==
    /\ f.needs \subseteq Provided(cs)
    /\ app.validate \/ \A i \in 1..Len(cs) :
          cs[i].key \in f.needs /\ cs[i].form # "grouped" => ~ cs[i].fails

Succeeds(cs, f) == CanCall(cs, f) /\ (app.validate \/ ~ f.fails)

-----------------------------------------------------------------------------
(* The loggers. *)

\* LogEvent of app.log: the buffer keeps the event, or passes it on.
Log(e) ==
    /\ emitted' = Append(emitted, e)
    /\ LET l == IF app.log = "buffer" THEN buffer.logger ELSE app.log
       IN  IF l = "nil"
              THEN /\ buffer' = [buffer EXCEPT !.events = Append(@, e)]
                   /\ UNCHANGED out
              ELSE /\ out' = [out EXCEPT ![l] = Append(@, e)]
                   /\ UNCHANGED buffer
    /\ UNCHANGED fallback

\* The buffered events are written to the logger, in order.
Connect(l) ==
    /\ buffer' = [events |-> <<>>, logger |-> l]
    /\ out' = [out EXCEPT ![l] = @ \o buffer.events]
    /\ UNCHANGED <<fallback, emitted>>

\* Nothing but the App, the place in New and the index changes.
Elsewhere == <<given, todo, container, called, heard>>

-----------------------------------------------------------------------------
(* Faulty variants of steps below, used by no specification. *)

\* Only the first option of a group is applied.
ApplyGroupFirst ==
    /\ pc = "options" /\ todo # <<>> /\ Head(todo).kind = "group"
    /\ todo' = SubSeq(Head(todo).arg, 1, 1) \o Tail(todo)
    /\ UNCHANGED <<given, app, pc, n, container, bufferVars, called, heard>>

\* The option asks for a dry run and is not listened to.
ApplyValidateIgnored ==
    /\ pc = "options" /\ todo # <<>> /\ Head(todo).kind = "validate"
    /\ todo' = Tail(todo)
    /\ UNCHANGED <<given, app, pc, n, container, bufferVars, called, heard>>

\* The deferred call of provide does not look at app.err.
ProvideRejectedLogged ==
    LET f == app.provides[n].target IN
    /\ pc = "provides" /\ n <= Len(app.provides) /\ app.err = <<>>
    /\ f.form # "nil" /\ ~ Accepts(f)
    /\ app' = [app EXCEPT !.err = <<"provide">>]
    /\ n' = n + 1
    /\ Log(Event("Provide", f))
    /\ UNCHANGED <<Elsewhere, pc>>

\* The error of the logger replaces the one of an option or of a constructor.
BuildLoggerFailsAlone ==
    /\ pc = "logger" /\ app.logConstructor # NoCtor
    /\ ~ AcceptsLogger(app.logConstructor)
    /\ app' = [app EXCEPT !.err = <<"logger">>, !.log = fallback]
    /\ Connect(fallback)
    /\ pc' = "noCustom"
    /\ UNCHANGED <<Elsewhere, n>>

\* The buffer is not connected to the logger that is fallen back to.
BuildLoggerFailsHeld ==
    /\ pc = "logger" /\ app.logConstructor # NoCtor
    /\ ~ AcceptsLogger(app.logConstructor)
    /\ app' = [app EXCEPT !.err = Append(@, "logger"), !.log = fallback]
    /\ pc' = "noCustom"
    /\ UNCHANGED <<Elsewhere, n, bufferVars>>

\* New goes on to the invokes although an option or a constructor has failed.
CheckErrIgnored ==
    /\ pc = "check"
    /\ pc' = "invokes"
    /\ n' = 1
    /\ UNCHANGED <<Elsewhere, app, bufferVars>>

\* The error of an invoke is returned without a word to the handlers.
InvokeFailsUnheard ==
    LET f == app.invokes[n] IN
    /\ pc = "invoking"
    /\ f.form # "func" \/ ~ Succeeds(container, f)
    /\ Log(Event("InvokeError", f))
    /\ app' = [app EXCEPT !.err = <<"invoke">>]
    /\ pc' = "done"
    /\ UNCHANGED <<Elsewhere, n>>

-----------------------------------------------------------------------------
(* Options. *)

Applying(kind) == pc = "options" /\ todo # <<>> /\ Head(todo).kind = kind

\* o.apply(app) changes the App, and is the only thing that happens.
Applied(fields) ==
    /\ app' = fields
    /\ todo' = Tail(todo)
    /\ UNCHANGED <<given, pc, n, container, bufferVars, called, heard>>

Arg == Head(todo).arg

ApplyProvide == Applying("provide") /\ Applied(
    [app EXCEPT !.provides = @ \o [i \in 1..Len(Arg) |->
                                      [target |-> Arg[i], isSupply |-> FALSE]]])

\* A function without parameters that returns the value; an Annotated stays one.
newSupplyConstructor(value) ==
    [form |-> value.ann, key |-> value.key, needs |-> {}, fails |-> FALSE]

\* Supply has panicked already if a value is an untyped nil or an error.
Supply(values) == [i \in 1..Len(values) |-> newSupplyConstructor(values[i])]

ApplySupply == Applying("supply") /\ Applied(
    [app EXCEPT !.provides = @ \o [i \in 1..Len(Arg) |->
                         [target |-> Supply(Arg)[i], isSupply |-> TRUE]]])

ApplyInvoke == Applying("invoke") /\ Applied([app EXCEPT !.invokes = @ \o Arg])

ApplyError ==
    Applying("error") /\ Applied([app EXCEPT !.err = @ \o NonNil(Arg)])

ApplyStartTimeout ==
    Applying("startTimeout") /\ Applied([app EXCEPT !.startTimeout = Arg])

ApplyStopTimeout ==
    Applying("stopTimeout") /\ Applied([app EXCEPT !.stopTimeout = Arg])

ApplyWithLogger ==
    Applying("withLogger") /\ Applied([app EXCEPT !.logConstructor = Arg])

ApplyLogger == Applying("logger") /\ Applied([app EXCEPT !.log = "printer"])

ApplyErrorHook ==
    Applying("errorHook") /\ Applied([app EXCEPT !.errorHooks = @ \o Arg])

ApplyValidate ==
    Applying("validate") /\ Applied([app EXCEPT !.validate = Arg])

\* The options of a group are applied before those that follow the group.
ApplyGroup ==
    /\ Applying("group")
    /\ todo' = Arg \o Tail(todo)
    /\ UNCHANGED <<given, app, pc, n, container, bufferVars, called, heard>>

\* A custom logger is not there yet: its events are held in the buffer.
Prepare ==
    /\ pc = "options" /\ todo = <<>>
    /\ pc' = "provides"
    /\ \/ /\ app.logConstructor = NoCtor
          /\ UNCHANGED <<app, fallback>>
       \/ /\ app.logConstructor # NoCtor
          /\ fallback' = app.log
          /\ app' = [app EXCEPT !.log = "buffer"]
    /\ UNCHANGED <<Elsewhere, n, buffer, out, emitted>>

-----------------------------------------------------------------------------
(* app.provide, for the constructors of the options and then for Fx's own. *)

Default(key) == [target |-> [form |-> "func", key |-> key, needs |-> {},
                             fails |-> FALSE],
                 isSupply |-> FALSE]
Defaults    == <<Default("Lifecycle"), Default("Shutdowner"), Default("DotGraph")>>
AllProvides == app.provides \o Defaults
Target      == AllProvides[n].target
ProvideEvent ==
    Event(IF AllProvides[n].isSupply THEN "Supply" ELSE "Provide", Target)

Providing == pc = "provides" /\ n <= Len(AllProvides)

\* An error stops the loop from providing, not from looping.
ProvideSkip ==
    /\ Providing /\ app.err # <<>>
    /\ n' = n + 1
    /\ UNCHANGED <<Elsewhere, app, pc, bufferVars>>

\* Either a check of app.provide or the container refuses it.
ProvideRejected ==
    /\ Providing /\ app.err = <<>>
    /\ Target.form # "nil" /\ ~ Accepts(Target)
    /\ app' = [app EXCEPT !.err = <<"provide">>]
    /\ n' = n + 1
    /\ UNCHANGED <<Elsewhere, pc, bufferVars>>

\* reflect.TypeOf(nil).Kind() panics; the deferred call logs the event first.
ProvidePanic ==
    /\ Providing /\ app.err = <<>>
    /\ Target.form = "nil"
    /\ Log(ProvideEvent)
    /\ pc' = "panic"
    /\ UNCHANGED <<Elsewhere, app, n>>

ProvideOk ==
    /\ Providing /\ app.err = <<>>
    /\ Accepts(Target)
    /\ container' = Append(container, Target)
    /\ Log(ProvideEvent)
    /\ n' = n + 1
    /\ UNCHANGED <<given, todo, called, heard, app, pc>>

ProvidesDone ==
    /\ pc = "provides" /\ n > Len(AllProvides)
    /\ \/ app.err = <<>> /\ UNCHANGED bufferVars
       \/ app.err # <<>> /\ Log(Event("ProvideError", app.err))
    /\ pc' = "logger"
    /\ UNCHANGED <<Elsewhere, app, n>>

-----------------------------------------------------------------------------
(* constructCustomLogger and what New does with its error. *)

Ctor == app.logConstructor

NoCustomLogger ==
    /\ pc = "logger" /\ Ctor = NoCtor
    /\ pc' = "check"
    /\ UNCHANGED <<Elsewhere, app, n, bufferVars>>

WithCtor == Append(container, Ctor)

\* The logger may come from another constructor than the one of WithLogger.
LoggerIsBuilt ==
    /\ AcceptsLogger(Ctor)
    /\ \E i \in 1..Len(WithCtor) :
          /\ WithCtor[i].key = "Logger" /\ WithCtor[i].form # "grouped"
          /\ Succeeds(WithCtor, WithCtor[i])

\* The function that dig calls with the logger installs it.
BuildLogger ==
    /\ pc = "logger" /\ Ctor # NoCtor
    /\ LoggerIsBuilt /\ ~ app.validate
    /\ container' = WithCtor
    /\ app' = [app EXCEPT !.log = "custom"]
    /\ Connect("custom")
    /\ pc' = "custom"
    /\ UNCHANGED <<given, todo, called, heard, n>>

\* A dry run does not call that function and finds no error.
BuildLoggerDry ==
    /\ pc = "logger" /\ Ctor # NoCtor
    /\ LoggerIsBuilt /\ app.validate
    /\ container' = WithCtor
    /\ pc' = "custom"
    /\ UNCHANGED <<given, todo, called, heard, app, n, bufferVars>>

\* Back to the logger there was; the buffer is flushed to it.
BuildLoggerFails ==
    /\ pc = "logger" /\ Ctor # NoCtor
    /\ ~ LoggerIsBuilt
    /\ container' = IF AcceptsLogger(Ctor) THEN WithCtor ELSE container
    /\ app' = [app EXCEPT !.err = Append(@, "logger"), !.log = fallback]
    /\ Connect(fallback)
    /\ pc' = "noCustom"
    /\ UNCHANGED <<given, todo, called, heard, n>>

CustomLogger ==
    /\ pc = "custom"
    /\ Log(Event("CustomLogger", Ctor))
    /\ pc' = "check"
    /\ UNCHANGED <<Elsewhere, app, n>>

CustomLoggerError ==
    /\ pc = "noCustom"
    /\ Log(Event("CustomLoggerError", Ctor))
    /\ pc' = "done"
    /\ UNCHANGED <<Elsewhere, app, n>>

CheckErr ==
    /\ pc = "check"
    /\ pc' = IF app.err = <<>> THEN "invokes" ELSE "done"
    /\ n' = 1
    /\ UNCHANGED <<Elsewhere, app, bufferVars>>

-----------------------------------------------------------------------------
(* executeInvokes and the error handlers. *)

Fn == app.invokes[n]

InvokeNext ==
    /\ pc = "invokes" /\ n <= Len(app.invokes)
    /\ Log(Event("Invoke", Fn))
    /\ pc' = "invoking"
    /\ UNCHANGED <<Elsewhere, app, n>>

InvokesDone ==
    /\ pc = "invokes" /\ n > Len(app.invokes)
    /\ pc' = "done"
    /\ UNCHANGED <<Elsewhere, app, n, bufferVars>>

\* dig calls the function if it can make its arguments, except in a dry run.
InvokeCalls ==
    called' = IF Fn.form = "func" /\ CanCall(container, Fn) /\ ~ app.validate
                 THEN Append(called, Fn) ELSE called

InvokeOk ==
    /\ pc = "invoking"
    /\ Fn.form = "func" /\ Succeeds(container, Fn)
    /\ InvokeCalls
    /\ n' = n + 1
    /\ pc' = "invokes"
    /\ UNCHANGED <<given, todo, container, heard, app, bufferVars>>

\* The first error ends the loop and becomes the error of the App.
InvokeFails ==
    /\ pc = "invoking"
    /\ Fn.form # "func" \/ ~ Succeeds(container, Fn)
    /\ InvokeCalls
    /\ Log(Event("InvokeError", Fn))
    /\ app' = [app EXCEPT !.err = <<"invoke">>]
    /\ n' = 1
    /\ pc' = "handle"
    /\ UNCHANGED <<given, todo, container, heard>>

HandleError ==
    /\ pc = "handle" /\ n <= Len(app.errorHooks)
    /\ heard' = Append(heard, app.errorHooks[n])
    /\ n' = n + 1
    /\ UNCHANGED <<given, todo, container, called, app, pc, bufferVars>>

HandlersDone ==
    /\ pc = "handle" /\ n > Len(app.errorHooks)
    /\ pc' = "done"
    /\ UNCHANGED <<Elsewhere, app, n, bufferVars>>

-----------------------------------------------------------------------------
Apply ==
    \/ ApplyProvide \/ ApplySupply \/ ApplyInvoke \/ ApplyError \/ ApplyGroup
    \/ ApplyStartTimeout \/ ApplyStopTimeout \/ ApplyWithLogger \/ ApplyLogger
    \/ ApplyErrorHook \/ ApplyValidate

Next ==
    \/ Apply \/ Prepare
    \/ ProvideSkip \/ ProvideRejected \/ ProvidePanic \/ ProvideOk \/ ProvidesDone
    \/ NoCustomLogger \/ BuildLogger \/ BuildLoggerDry \/ BuildLoggerFails
    \/ CustomLogger \/ CustomLoggerError \/ CheckErr
    \/ InvokeNext \/ InvokesDone \/ InvokeOk \/ InvokeFails
    \/ HandleError \/ HandlersDone

Spec == Init /\ [][Next]_vars

-----------------------------------------------------------------------------
(* Properties. *)

\* What an option is made of that is no group, in the order in which it is written.
Leaves[o \in Options \cup {ValidateOption}] ==
    IF o.kind = "group" THEN FlattenSeq([i \in 1..Len(o.arg) |-> Leaves[o.arg[i]]])
                        ELSE <<o>>
LeavesOf(opts) == FlattenSeq([i \in 1..Len(opts) |-> Leaves[opts[i]]])

\* What an option that is no group gives to a field of the App, and all options do.
Gives(o, field) ==
    CASE o.kind = "provide"   /\ field = "provides"   -> o.arg
      [] o.kind = "supply"    /\ field = "provides"   -> Supply(o.arg)
      [] o.kind = "invoke"    /\ field = "invokes"    -> o.arg
      [] o.kind = "errorHook" /\ field = "errorHooks" -> o.arg
      [] o.kind = "error"     /\ field = "err"        -> NonNil(o.arg)
      [] OTHER -> <<>>
GivesAll(opts, field) == FlattenSeq([i \in 1..Len(opts) |-> Gives(opts[i], field)])
GivenTo(field) == GivesAll(LeavesOf(given), field)

DryRun == \E i \in 1..Len(given) : given[i].kind = "validate"

\* Events reach one logger, each once and in the order they were handed to
\* app.log: none is lost, doubled or overtaken where the buffer is flushed, and
\* none is left in the buffer when New returns, except after a dry run.
EventsDelivered ==
    /\ \E s \in Sinks : /\ out[s] \o buffer.events = emitted
                         /\ \A t \in Sinks \ {s} : out[t] = <<>>
    /\ pc = "done" /\ ~ DryRun => buffer.events = <<>>

\* An error that New has met stays the first thing that Err() tells.
ErrorsKept == [][IsPrefix(app.err, app'.err)]_vars

\* No function is invoked once an option, a constructor, the logger or an earlier
\* function has failed: "options registered before or after an Error option will
\* not be applied".
InvokesNeedCleanApp ==
    [][called' # called =>
         /\ app.err = <<>> /\ heard = <<>>
         /\ \A i \in 1..Len(emitted) : emitted[i].type \notin
               {"ProvideError", "CustomLoggerError", "InvokeError"}]_vars

\* New without an error means that no option gave one and everything asked for was
\* done, once and in order, however the options are grouped: dig has every constructor,
\* supplied values included, then Fx's own and the one of WithLogger; the last events
\* tell of every invoke; and every function was called.
CleanMeansComplete ==
    pc = "done" /\ app.err = <<>> =>
       /\ GivenTo("err") = <<>>
       /\ container = GivenTo("provides")
                       \o [i \in 1..Len(Defaults) |-> Defaults[i].target]
                       \o IF Ctor = NoCtor THEN <<>> ELSE <<Ctor>>
       /\ LET k == Len(emitted) - Len(GivenTo("invokes"))
          IN  /\ {i \in 1..Len(emitted) : emitted[i].type = "Invoke"}
                     = (k + 1)..Len(emitted)
              /\ [i \in 1..Len(GivenTo("invokes")) |-> emitted[k + i].of]
                     = GivenTo("invokes")
       /\ ~ DryRun => called = GivenTo("invokes")

\* The Provide and Supply events come first and are what the container holds, one
\* each and in order; only the constructor of WithLogger is there without an event,
\* after the others.  Provide(nil) panics with one event too many, of what it was
\* given: everything before it is in the container, nothing else was logged.
ContainerIsLogged ==
    \E k \in 0..Len(container) :
       LET told == {i \in 1..Len(emitted) : emitted[i].type \in {"Provide", "Supply"}}
       IN  /\ \A i \in 1..k : i \in told /\ emitted[i].of = container[i]
           /\ pc # "panic" =>
                 /\ told = 1..k
                 /\ Len(container) <= k + 1
                 /\ Len(container) = k + 1 => container[k + 1] = Ctor
           /\ pc = "panic" =>
                 /\ Len(container) = k /\ Len(emitted) = k + 1
                 /\ k + 1 \in told /\ emitted[k + 1].of.form = "nil"

\* Every error handler hears of an invoke that failed, once and in order, and of
\* no other error: they "are executed on invoke failures".  The loggers hear first.
HandlersHear ==
    LET failed == \E i \in 1..Len(emitted) : emitted[i].type = "InvokeError"
    IN  /\ pc = "done" => heard = IF failed THEN GivenTo("errorHooks") ELSE <<>>
        /\ heard # <<>> => failed

\* ValidateApp calls no function, whatever the options before it say.
DryRunCallsNothing == DryRun => called = <<>> /\ out["custom"] = <<>>

-----------------------------------------------------------------------------
(* What a comment says and the code does not do. *)

\* "a buffered logger to hold all messages until user supplied logger is
\* instantiated.  Then we flush those messages".
NothingHeldBack == pc = "done" => buffer.events = <<>>

============================================================================
