---------------------------- MODULE ConstructProofs ----------------------------
(***************************************************************************)
(* Theorems about Construct, for any options: where the events go, what the *)
(* container and the events have to do with each other, and what a failure  *)
(* or a dry run keeps New from doing.                                      *)
(***************************************************************************)
EXTENDS Construct, Lists

-----------------------------------------------------------------------------
(* Types. *)

AllErrors == Errors \cup {"provide", "logger", "invoke"}
Types     == {"Provide", "Supply", "ProvideError", "CustomLogger", "CustomLoggerError",
              "Invoke", "InvokeError"}
Events    == [type : Types, of : Functions \cup Seq(AllErrors) \cup {NoCtor}]
AnyOption == Options \cup {ValidateOption}
Entries   == [target : Functions, isSupply : BOOLEAN]

AppType ==
    [provides : Seq(Entries), invokes : Seq(Functions), err : Seq(AllErrors),
     log : Sinks \cup {"buffer"}, logConstructor : Functions \cup {NoCtor},
     startTimeout : {"default", "given"}, stopTimeout : {"default", "given"},
     errorHooks : Seq(Handlers), validate : BOOLEAN]

BufferType ==
    /\ buffer \in [events : Seq(Events), logger : Sinks \cup {"nil"}]
    /\ fallback \in Sinks \cup {"nil"}
    /\ out \in [Sinks -> Seq(Events)]
    /\ emitted \in Seq(Events)

TypeOK ==
    /\ given \in Seq(AnyOption)
    /\ app \in AppType
    /\ todo \in Seq(AnyOption)
    /\ n \in Nat \ {0}
    /\ pc = "invoking" => n <= Len(app.invokes)
    /\ container \in Seq(Functions)
    /\ BufferType
    /\ called \in Seq(Functions)
    /\ heard \in Seq(Handlers)

\* There is a logger to go back to.
FallbackReady ==
    /\ pc = "options" => app.log \in {"stderr", "printer"}
    /\ pc \in {"provides", "logger"} /\ Ctor # NoCtor =>
          fallback \in {"stderr", "printer"}

\* What is left of errors when the nil ones are dropped.
LEMMA NonNilType ==
    ASSUME NEW errs \in Seq(Errors \cup {"nil"})
    PROVE  NonNil(errs) \in Seq(Errors)
  <1> DEFINE one(e) == IF e = "nil" THEN <<>> ELSE <<e>>
             ss == [i \in 1..Len(errs) |-> one(errs[i])]
  <1>1. ASSUME NEW e \in Errors \cup {"nil"}  PROVE one(e) \in Seq(Errors)
    OBVIOUS
  <1> HIDE DEF one
  <1>2. Len(errs) \in Nat /\ \A i \in 1..Len(errs) : one(errs[i]) \in Seq(Errors)
    BY <1>1, LenProperties, ElementOfSeq
  <1>3. ss \in Seq(Seq(Errors))
    BY <1>2
  <1> HIDE DEF ss
  <1>4. FlattenSeq(ss) \in Seq(Errors)
    BY <1>3, FlattenType
  <1> QED  BY <1>4 DEF NonNil, ss, one

\* What the options are given, kind by kind.
LEMMA OptionTypes ==
    ASSUME NEW o \in AnyOption
    PROVE  /\ o.kind \in {"provide", "invoke"} => o.arg \in Seq(Functions)
           /\ o.kind = "supply" => o.arg \in Seq(Supplied)
           /\ o.kind = "error" => NonNil(o.arg) \in Seq(Errors)
           /\ o.kind = "withLogger" => o.arg \in Functions
           /\ o.kind \in {"startTimeout", "stopTimeout"} => o.arg = "given"
           /\ o.kind = "errorHook" => o.arg \in Seq(Handlers)
           /\ o.kind = "group" => o.arg \in Seq(Options)
           /\ o.kind = "validate" => o = ValidateOption
  <1>1. CASE o = ValidateOption
    BY <1>1 DEF ValidateOption
  <1>2. CASE o \in Options
    <2>1. o.kind \in DOMAIN Args /\ o.arg \in Args[o.kind]
      BY <1>2, OptionsAssumption
    <2>2. o.kind # "validate"
      BY <2>1 DEF Args
    <2>3. o.kind = "error" => o.arg \in Seq(Errors \cup {"nil"})
      BY <2>1 DEF Args
    <2>4. o.kind = "error" => NonNil(o.arg) \in Seq(Errors)
      BY <2>3, NonNilType
    <2> QED  BY <2>1, <2>2, <2>4 DEF Args
  <1> QED  BY <1>1, <1>2 DEF AnyOption

\* The option that is next, and those after it.
LEMMA NextOption ==
    ASSUME TypeOK, todo # <<>>
    PROVE  Head(todo) \in AnyOption /\ Tail(todo) \in Seq(AnyOption)
  BY HeadTailProperties DEF TypeOK

\* A field of the App keeps the types of the others.
LEMMA FieldTypes ==
    ASSUME app \in AppType
    PROVE  /\ \A x \in Seq(Entries) : [app EXCEPT !.provides = x] \in AppType
           /\ \A x \in Seq(Functions) : [app EXCEPT !.invokes = x] \in AppType
           /\ \A x \in Seq(AllErrors) : [app EXCEPT !.err = x] \in AppType
           /\ \A x \in Seq(Handlers) : [app EXCEPT !.errorHooks = x] \in AppType
           /\ \A x \in Sinks \cup {"buffer"} : [app EXCEPT !.log = x] \in AppType
           /\ \A x \in Functions : [app EXCEPT !.logConstructor = x] \in AppType
           /\ [app EXCEPT !.startTimeout = "given"] \in AppType
           /\ [app EXCEPT !.stopTimeout = "given"] \in AppType
           /\ [app EXCEPT !.validate = TRUE] \in AppType
           /\ \A x \in Seq(AllErrors), s \in Sinks \cup {"buffer"} :
                 [app EXCEPT !.err = x, !.log = s] \in AppType
  BY DEF AppType

\* The fields, one by one.
LEMMA AppFields ==
    ASSUME app \in AppType
    PROVE  /\ app.provides \in Seq(Entries)
           /\ app.invokes \in Seq(Functions)
           /\ app.err \in Seq(AllErrors)
           /\ app.log \in Sinks \cup {"buffer"}
           /\ app.logConstructor \in Functions \cup {NoCtor}
           /\ app.errorHooks \in Seq(Handlers)
           /\ app.validate \in BOOLEAN
  BY DEF AppType

\* An event that is handed to the logger keeps the types.
LEMMA LogTypes ==
    ASSUME BufferType, app \in AppType, NEW e \in Events, Log(e)
    PROVE  BufferType'
  <1>1. emitted' \in Seq(Events)
    BY AppendProperties DEF BufferType, Log
  <1> DEFINE l == IF app.log = "buffer" THEN buffer.logger ELSE app.log
  <1>2. l \in Sinks \cup {"nil"}
    BY AppFields DEF BufferType
  <1>3. CASE l = "nil"
    <2>1. Append(buffer.events, e) \in Seq(Events)
      BY AppendProperties DEF BufferType
    <2> QED  BY <1>1, <1>3, <2>1 DEF BufferType, Log
  <1>4. CASE l # "nil"
    <2>1. Append(out[l], e) \in Seq(Events)
      BY <1>2, <1>4, AppendProperties DEF BufferType
    <2>2. UNCHANGED <<buffer, fallback>> /\ out' = [out EXCEPT ![l] = Append(@, e)]
      BY <1>4 DEF Log
    <2>3. out' \in [Sinks -> Seq(Events)]
      BY <2>1, <2>2 DEF BufferType
    <2> QED  BY <1>1, <2>2, <2>3 DEF BufferType
  <1> QED  BY <1>3, <1>4

\* The same for the buffer that is flushed.
LEMMA ConnectTypes ==
    ASSUME BufferType, NEW l \in Sinks, Connect(l)
    PROVE  BufferType'
  <1>1. out[l] \o buffer.events \in Seq(Events)
    BY ConcatProperties DEF BufferType
  <1>2. <<>> \in Seq(Events)
    BY EmptySeq
  <1> QED  BY <1>1, <1>2 DEF BufferType, Connect

\* Options change the App, or open a group.
LEMMA ApplyTypes ==
    ASSUME TypeOK, Apply
    PROVE  TypeOK'
  <1> DEFINE o == Head(todo)
  <1>1. /\ todo # <<>> /\ o \in AnyOption /\ Tail(todo) \in Seq(AnyOption)
        /\ pc = "options" /\ app \in AppType
    <2>1. pc = "options" /\ todo # <<>>
      BY DEF Apply, ApplyProvide, ApplySupply, ApplyInvoke, ApplyError, ApplyGroup,
             ApplyStartTimeout, ApplyStopTimeout, ApplyWithLogger, ApplyLogger,
             ApplyErrorHook, ApplyValidate, Applying
    <2> QED  BY <2>1, NextOption DEF TypeOK
  <1>2. ASSUME NEW fields \in AppType, Applied(fields)
        PROVE  TypeOK'
    BY <1>1, <1>2 DEF TypeOK, Applied, BufferType, bufferVars
  <1>3. CASE ApplyProvide
    <2> DEFINE x == [i \in 1..Len(Arg) |-> [target |-> Arg[i], isSupply |-> FALSE]]
    <2>1. x \in Seq(Entries)
      BY <1>1, <1>3, OptionTypes DEF ApplyProvide, Applying, Arg, Entries
    <2>2. app.provides \o x \in Seq(Entries)
      BY <1>1, <2>1, AppFields, ConcatProperties
    <2> HIDE DEF x
    <2> QED  BY <1>1, <1>2, <1>3, <2>2, FieldTypes DEF ApplyProvide, x
  <1>4. CASE ApplySupply
    <2> DEFINE x == [i \in 1..Len(Arg) |-> [target |-> Supply(Arg)[i],
                                            isSupply |-> TRUE]]
    <2>1. Arg \in Seq(Supplied)
      BY <1>1, <1>4, OptionTypes DEF ApplySupply, Applying, Arg
    <2>2. ASSUME NEW i \in 1..Len(Arg)  PROVE newSupplyConstructor(Arg[i]) \in Functions
      <3>1. Arg[i] \in Supplied
        BY <2>1
      <3> QED  BY <3>1 DEF newSupplyConstructor, Supplied, Functions, Forms
    <2>3. x \in Seq(Entries)
      BY <2>1, <2>2 DEF Entries, Supply
    <2>4. app.provides \o x \in Seq(Entries)
      BY <1>1, <2>3, AppFields, ConcatProperties
    <2> HIDE DEF x
    <2> QED  BY <1>1, <1>2, <1>4, <2>4, FieldTypes DEF ApplySupply, x
  <1>5. CASE ApplyInvoke
    <2>1. app.invokes \o Arg \in Seq(Functions)
      BY <1>1, <1>5, OptionTypes, AppFields, ConcatProperties
         DEF ApplyInvoke, Applying, Arg
    <2> QED  BY <1>1, <1>2, <1>5, <2>1, FieldTypes DEF ApplyInvoke
  <1>6. CASE ApplyError
    <2>1. NonNil(Arg) \in Seq(AllErrors)
      BY <1>1, <1>6, OptionTypes, SeqMonotonic DEF ApplyError, Applying, Arg, AllErrors
    <2>2. app.err \o NonNil(Arg) \in Seq(AllErrors)
      BY <1>1, <2>1, AppFields, ConcatProperties
    <2> QED  BY <1>1, <1>2, <1>6, <2>2, FieldTypes DEF ApplyError
  <1>7. CASE ApplyGroup
    <2>1. Arg \in Seq(Options)
      BY <1>1, <1>7, OptionTypes DEF ApplyGroup, Applying, Arg
    <2>2. Arg \in Seq(AnyOption)
      BY <2>1, SeqMonotonic DEF AnyOption
    <2>3. Arg \o Tail(todo) \in Seq(AnyOption)
      BY <1>1, <2>2, ConcatProperties
    <2> QED  BY <1>1, <1>7, <2>3 DEF ApplyGroup, TypeOK, BufferType, bufferVars
  <1>8. CASE ApplyStartTimeout
    BY <1>1, <1>2, <1>8, FieldTypes, OptionTypes DEF ApplyStartTimeout, Applying, Arg
  <1>9. CASE ApplyStopTimeout
    BY <1>1, <1>2, <1>9, FieldTypes, OptionTypes DEF ApplyStopTimeout, Applying, Arg
  <1>10. CASE ApplyWithLogger
    BY <1>1, <1>2, <1>10, FieldTypes, OptionTypes DEF ApplyWithLogger, Applying, Arg
  <1>11. CASE ApplyLogger
    BY <1>1, <1>2, <1>11, FieldTypes DEF ApplyLogger, Sinks
  <1>12. CASE ApplyErrorHook
    <2>1. app.errorHooks \o Arg \in Seq(Handlers)
      BY <1>1, <1>12, OptionTypes, AppFields, ConcatProperties
         DEF ApplyErrorHook, Applying, Arg
    <2> QED  BY <1>1, <1>2, <1>12, <2>1, FieldTypes DEF ApplyErrorHook
  <1>13. CASE ApplyValidate
    <2>1. Arg = TRUE
      BY <1>1, <1>13, OptionTypes DEF ApplyValidate, Applying, Arg, ValidateOption
    <2> QED  BY <1>1, <1>2, <1>13, <2>1, FieldTypes DEF ApplyValidate
  <1> QED
    BY <1>3, <1>4, <1>5, <1>6, <1>7, <1>8, <1>9, <1>10, <1>11, <1>12, <1>13 DEF Apply

\* The errors that New itself makes.
LEMMA ErrorTypes ==
    <<"provide">> \in Seq(AllErrors) /\ <<"invoke">> \in Seq(AllErrors)
  BY DEF AllErrors

\* An event of a known type is an event.
LEMMA EventTypes ==
    ASSUME NEW t \in Types, NEW x \in Functions \cup Seq(AllErrors) \cup {NoCtor}
    PROVE  Event(t, x) \in Events
  BY DEF Event, Events

\* What is in AllProvides, and the function of an invoke.
LEMMA ProvideTypes ==
    ASSUME app \in AppType
    PROVE  /\ AllProvides \in Seq(Entries)
           /\ Len(AllProvides) = Len(app.provides) + 3
  <1>1. /\ Default("Lifecycle") \in Entries /\ Default("Shutdowner") \in Entries
        /\ Default("DotGraph") \in Entries
    BY DEF Default, Entries, Functions, Forms, FxKeys
  <1>2. Defaults \in Seq(Entries) /\ Len(Defaults) = 3
    BY <1>1 DEF Defaults
  <1>3. app.provides \in Seq(Entries)
    BY AppFields
  <1> HIDE DEF Defaults
  <1>4. /\ app.provides \o Defaults \in Seq(Entries)
        /\ Len(app.provides \o Defaults) = Len(app.provides) + Len(Defaults)
    BY <1>2, <1>3, ConcatProperties
  <1> QED  BY <1>2, <1>4 DEF AllProvides

\* The constructor that is next, and its event.
LEMMA TargetTypes ==
    ASSUME TypeOK, Providing
    PROVE  /\ n \in 1..Len(AllProvides)
           /\ AllProvides[n] \in Entries
           /\ Target \in Functions
           /\ ProvideEvent \in Events
  <1>1. n \in 1..Len(AllProvides) /\ AllProvides[n] \in Entries
    BY ProvideTypes, ElementOfSeq DEF TypeOK, Providing
  <1>2. Target \in Functions
    BY <1>1 DEF Target, Entries
  <1> QED  BY <1>1, <1>2, EventTypes DEF ProvideEvent, Types

\* The function that is next.
LEMMA FnTypes ==
    ASSUME TypeOK, n <= Len(app.invokes)
    PROVE  n \in 1..Len(app.invokes) /\ Fn \in Functions
  BY AppFields, ElementOfSeq DEF TypeOK, Fn

\* A step that logs an event, or that keeps the loggers as they are, keeps the types
\* when it keeps those of the other variables.
LEMMA OtherTypes ==
    ASSUME TypeOK, UNCHANGED <<given, todo>>, app' \in AppType, n' \in Nat \ {0},
           container' \in Seq(Functions), BufferType', called' \in Seq(Functions),
           heard' \in Seq(Handlers), pc' = "invoking" => n' <= Len(app'.invokes)
    PROVE  TypeOK'
  BY DEF TypeOK

\* Providing keeps the types.
LEMMA ProvideStepTypes ==
    ASSUME TypeOK,
           ProvideSkip \/ ProvideRejected \/ ProvidePanic \/ ProvideOk \/ ProvidesDone
    PROVE  TypeOK'
  <1> USE DEF Elsewhere
  <1>0. /\ app \in AppType /\ n \in Nat \ {0} /\ container \in Seq(Functions)
        /\ BufferType /\ called \in Seq(Functions) /\ heard \in Seq(Handlers)
    BY DEF TypeOK
  <1>1. CASE ProvideSkip
    <2>1. BufferType'
      BY <1>0, <1>1 DEF ProvideSkip, BufferType, bufferVars
    <2> QED  BY <1>0, <1>1, <2>1, OtherTypes DEF ProvideSkip, Providing
  <1>2. CASE ProvideRejected
    <2>1. BufferType'
      BY <1>0, <1>2 DEF ProvideRejected, BufferType, bufferVars
    <2>2. app' \in AppType
      BY <1>0, <1>2, ErrorTypes, FieldTypes DEF ProvideRejected
    <2> QED  BY <1>0, <1>2, <2>1, <2>2, OtherTypes DEF ProvideRejected, Providing
  <1>3. CASE ProvidePanic
    <2>1. BufferType'
      BY <1>0, <1>3, TargetTypes, LogTypes DEF ProvidePanic
    <2> QED  BY <1>0, <1>3, <2>1, OtherTypes DEF ProvidePanic
  <1>4. CASE ProvideOk
    <2>1. BufferType'
      BY <1>0, <1>4, TargetTypes, LogTypes DEF ProvideOk
    <2>2. Append(container, Target) \in Seq(Functions)
      BY <1>0, <1>4, TargetTypes, AppendProperties DEF ProvideOk
    <2> QED  BY <1>0, <1>4, <2>1, <2>2, OtherTypes DEF ProvideOk, Providing
  <1>5. CASE ProvidesDone
    <2>1. BufferType'
      <3>1. CASE UNCHANGED bufferVars
        BY <1>0, <3>1 DEF BufferType, bufferVars
      <3>2. CASE Log(Event("ProvideError", app.err))
        BY <1>0, <3>2, EventTypes, AppFields, LogTypes DEF Types
      <3> QED  BY <1>5, <3>1, <3>2 DEF ProvidesDone
    <2> QED  BY <1>0, <1>5, <2>1, OtherTypes DEF ProvidesDone
  <1> QED  BY <1>1, <1>2, <1>3, <1>4, <1>5

\* Building the custom logger keeps the types; it needs the fallback.
LEMMA LoggerStepTypes ==
    ASSUME TypeOK, FallbackReady,
           \/ NoCustomLogger \/ BuildLogger \/ BuildLoggerDry \/ BuildLoggerFails
           \/ CustomLogger \/ CustomLoggerError \/ CheckErr
    PROVE  TypeOK'
  <1> USE DEF Elsewhere
  <1>0. /\ app \in AppType /\ n \in Nat \ {0} /\ container \in Seq(Functions)
        /\ BufferType /\ called \in Seq(Functions) /\ heard \in Seq(Handlers)
        /\ Ctor \in Functions \cup {NoCtor}
    BY AppFields DEF TypeOK, Ctor
  <1>1. UNCHANGED bufferVars => BufferType'
    BY <1>0 DEF BufferType, bufferVars
  <1>2. Ctor # NoCtor => WithCtor \in Seq(Functions)
    BY <1>0, AppendProperties DEF WithCtor
  <1>3. CASE NoCustomLogger
    BY <1>0, <1>1, <1>3, OtherTypes DEF NoCustomLogger
  <1>4. CASE BuildLogger
    <2>1. BufferType' /\ app' \in AppType
      BY <1>0, <1>4, FieldTypes, ConnectTypes DEF BuildLogger, Sinks
    <2> QED  BY <1>0, <1>2, <1>4, <2>1, OtherTypes DEF BuildLogger
  <1>5. CASE BuildLoggerDry
    BY <1>0, <1>1, <1>2, <1>5, OtherTypes DEF BuildLoggerDry
  <1>6. CASE BuildLoggerFails
    <2>1. fallback \in Sinks
      BY <1>6 DEF BuildLoggerFails, FallbackReady, Sinks
    <2>2. BufferType'
      BY <1>0, <1>6, <2>1, ConnectTypes DEF BuildLoggerFails
    <2>3. Append(app.err, "logger") \in Seq(AllErrors)
      BY <1>0, AppFields, AppendProperties DEF AllErrors
    <2>4. app' \in AppType
      BY <1>0, <1>6, <2>1, <2>3, FieldTypes DEF BuildLoggerFails
    <2> QED  BY <1>0, <1>2, <1>6, <2>2, <2>4, OtherTypes DEF BuildLoggerFails
  <1>7. CASE CustomLogger
    <2>1. BufferType'
      BY <1>0, <1>7, EventTypes, LogTypes DEF CustomLogger, Types
    <2> QED  BY <1>0, <1>7, <2>1, OtherTypes DEF CustomLogger
  <1>8. CASE CustomLoggerError
    <2>1. BufferType'
      BY <1>0, <1>8, EventTypes, LogTypes DEF CustomLoggerError, Types
    <2> QED  BY <1>0, <1>8, <2>1, OtherTypes DEF CustomLoggerError
  <1>9. CASE CheckErr
    BY <1>0, <1>1, <1>9, OtherTypes DEF CheckErr
  <1> QED  BY <1>3, <1>4, <1>5, <1>6, <1>7, <1>8, <1>9

\* Invoking and telling the handlers keeps the types.
LEMMA InvokeStepTypes ==
    ASSUME TypeOK,
           \/ InvokeNext \/ InvokesDone \/ InvokeOk \/ InvokeFails
           \/ HandleError \/ HandlersDone
    PROVE  TypeOK'
  <1> USE DEF Elsewhere
  <1>0. /\ app \in AppType /\ n \in Nat \ {0} /\ container \in Seq(Functions)
        /\ BufferType /\ called \in Seq(Functions) /\ heard \in Seq(Handlers)
    BY DEF TypeOK
  <1>1. UNCHANGED bufferVars => BufferType'
    BY <1>0 DEF BufferType, bufferVars
  <1>2. ASSUME pc = "invoking", InvokeCalls
        PROVE  called' \in Seq(Functions)
    <2>1. Append(called, Fn) \in Seq(Functions)
      BY <1>0, <1>2, FnTypes, AppendProperties DEF TypeOK
    <2> QED  BY <1>0, <1>2, <2>1 DEF InvokeCalls
  <1>3. CASE InvokeNext
    <2>1. BufferType'
      BY <1>0, <1>3, FnTypes, EventTypes, LogTypes DEF InvokeNext, Types
    <2> QED  BY <1>0, <1>3, <2>1, OtherTypes DEF InvokeNext
  <1>4. CASE InvokesDone
    BY <1>0, <1>1, <1>4, OtherTypes DEF InvokesDone
  <1>5. CASE InvokeOk
    BY <1>0, <1>1, <1>2, <1>5, OtherTypes DEF InvokeOk
  <1>6. CASE InvokeFails
    <2>1. BufferType'
      BY <1>0, <1>6, FnTypes, EventTypes, LogTypes DEF InvokeFails, TypeOK, Types
    <2>2. app' \in AppType
      BY <1>0, <1>6, ErrorTypes, FieldTypes DEF InvokeFails
    <2> QED  BY <1>0, <1>2, <1>6, <2>1, <2>2, OtherTypes DEF InvokeFails
  <1>7. CASE HandleError
    <2>1. Append(heard, app.errorHooks[n]) \in Seq(Handlers)
      BY <1>0, <1>7, AppFields, ElementOfSeq, AppendProperties DEF HandleError
    <2> QED  BY <1>0, <1>1, <1>7, <2>1, OtherTypes DEF HandleError
  <1>8. CASE HandlersDone
    BY <1>0, <1>1, <1>8, OtherTypes DEF HandlersDone
  <1> QED  BY <1>3, <1>4, <1>5, <1>6, <1>7, <1>8
-----------------------------------------------------------------------------
(* Where the events are.  Until the custom logger is built, or has failed, they  *)
(* are all in the buffer; otherwise all of them are with app.log.                *)

Direct ==
    /\ app.log \in Sinks
    /\ buffer.events = <<>>
    /\ out[app.log] = emitted
    /\ \A t \in Sinks \ {app.log} : out[t] = <<>>

Held ==
    /\ app.log = "buffer" /\ buffer.logger = "nil"
    /\ buffer.events = emitted
    /\ \A t \in Sinks : out[t] = <<>>

OneLogger ==
    /\ Direct \/ Held
    /\ pc = "options" => Direct /\ emitted = <<>> /\ buffer.logger = "nil"
    /\ pc \in {"provides", "logger"} => IF Ctor = NoCtor THEN Direct ELSE Held
    /\ Held => pc \in {"provides", "logger", "panic"} \/ app.validate

\* A dry run is one from its last option on, and nothing else is.
DryRunKnown ==
    /\ ~ DryRun => todo \in Seq(Options) /\ ~ app.validate
    /\ DryRun => \/ app.validate
                 \/ pc = "options" /\ todo # <<>> /\ todo[Len(todo)] = ValidateOption

NothingCalled ==
    /\ pc = "options" => called = <<>> /\ app.log # "custom"
    /\ app.validate => called = <<>> /\ app.log # "custom"

-----------------------------------------------------------------------------
(* What New has done of what the options ask for. *)

Failed == {"ProvideError", "CustomLoggerError", "InvokeError"}

\* What has failed is an error of the App.
ErrorsAreKnown ==
    /\ \A i \in 1..Len(emitted) : emitted[i].type \in Failed => app.err # <<>>
    /\ pc \in {"noCustom", "handle"} => app.err # <<>>
    /\ pc \in {"invokes", "invoking"} => app.err = <<>>
    /\ pc \notin {"handle", "done"} => heard = <<>>

\* The first k constructors of cs are the Provide and Supply events of es, which
\* come first.
Logged(es, cs, k) ==
    /\ k <= Len(es) /\ k <= Len(cs)
    /\ \A i \in 1..Len(es) : es[i].type \in {"Provide", "Supply"} <=> i <= k
    /\ \A i \in 1..k : es[i].of = cs[i]

\* The constructors of cs are the first events of es, and one that is nil the last.
NilLogged(es, cs) ==
    /\ Len(es) = Len(cs) + 1
    /\ \A i \in 1..Len(es) : es[i].type \in {"Provide", "Supply"}
    /\ \A i \in 1..Len(cs) : es[i].of = cs[i]
    /\ es[Len(es)].of.form = "nil"

ContainerInv ==
    /\ pc = "options" => container = <<>> /\ emitted = <<>>
    /\ pc = "provides" => Len(emitted) = Len(container)
    /\ pc \in {"provides", "logger"} => Logged(emitted, container, Len(container))
    /\ pc # "panic" => \E k \in 0..Len(container) :
          /\ Logged(emitted, container, k)
          /\ Len(container) <= k + 1
          /\ Len(container) = k + 1 => container[k + 1] = Ctor
    /\ pc = "panic" => NilLogged(emitted, container)
-----------------------------------------------------------------------------
(* Steps. *)

\* The options are applied with nothing happening elsewhere.
LEMMA ApplySteps ==
    ASSUME TypeOK, Apply
    PROVE  /\ pc = "options" /\ todo # <<>>
           /\ UNCHANGED <<given, pc, n, container, buffer, fallback, out, emitted,
                          called, heard>>
           /\ app' \in AppType
           /\ app'.log \in {app.log, "printer"}
           /\ Head(todo).kind = "validate" => app'.validate = TRUE
           /\ Head(todo).kind # "validate" => app'.validate = app.validate
           /\ Head(todo).kind # "group" => todo' = Tail(todo)
           /\ Head(todo).kind = "group" => todo' = Arg \o Tail(todo)
           /\ Head(todo).kind # "error" => app'.err = app.err
           /\ Head(todo).kind = "error" => app'.err = app.err \o NonNil(Arg)
  <1>1. app \in AppType /\ app' \in AppType
    BY ApplyTypes DEF TypeOK
  <1> USE DEF Applying, Applied, bufferVars
  <1>3. CASE ApplyProvide
    BY <1>1, <1>3 DEF ApplyProvide, AppType
  <1>4. CASE ApplySupply
    BY <1>1, <1>4 DEF ApplySupply, AppType
  <1>5. CASE ApplyInvoke
    BY <1>1, <1>5 DEF ApplyInvoke, AppType
  <1>6. CASE ApplyError
    BY <1>1, <1>6 DEF ApplyError, AppType
  <1>7. CASE ApplyGroup
    BY <1>1, <1>7 DEF ApplyGroup
  <1>8. CASE ApplyStartTimeout
    BY <1>1, <1>8 DEF ApplyStartTimeout, AppType
  <1>9. CASE ApplyStopTimeout
    BY <1>1, <1>9 DEF ApplyStopTimeout, AppType
  <1>10. CASE ApplyWithLogger
    BY <1>1, <1>10 DEF ApplyWithLogger, AppType
  <1>11. CASE ApplyLogger
    BY <1>1, <1>11 DEF ApplyLogger, AppType
  <1>12. CASE ApplyErrorHook
    BY <1>1, <1>12 DEF ApplyErrorHook, AppType
  <1>13. CASE ApplyValidate
    <2>1. Arg = TRUE
      BY <1>13, NextOption, OptionTypes DEF ApplyValidate, Arg, ValidateOption
    <2> QED  BY <1>1, <1>13, <2>1 DEF ApplyValidate, AppType
  <1> QED
    BY <1>3, <1>4, <1>5, <1>6, <1>7, <1>8, <1>9, <1>10, <1>11, <1>12, <1>13 DEF Apply

Later ==
    \/ Prepare
    \/ ProvideSkip \/ ProvideRejected \/ ProvidePanic \/ ProvideOk \/ ProvidesDone
    \/ NoCustomLogger \/ BuildLogger \/ BuildLoggerDry \/ BuildLoggerFails
    \/ CustomLogger \/ CustomLoggerError \/ CheckErr
    \/ InvokeNext \/ InvokesDone \/ InvokeOk \/ InvokeFails
    \/ HandleError \/ HandlersDone

\* Later steps change the error and the logger of the App and nothing that the
\* options have asked for.
LEMMA AskedIsKept ==
    ASSUME TypeOK, Later
    PROVE  /\ UNCHANGED <<given, todo>>
           /\ UNCHANGED <<app.provides, app.invokes, app.logConstructor,
                          app.errorHooks, app.validate>>
           /\ Ctor' = Ctor /\ AllProvides' = AllProvides
           /\ pc' # "options"
           /\ pc = "options" => Prepare
  <1>1. app \in AppType
    BY DEF TypeOK
  <1>2. \/ app' = app
        \/ \E x, l : \/ app' = [app EXCEPT !.err = x]
                     \/ app' = [app EXCEPT !.log = l]
                     \/ app' = [app EXCEPT !.err = x, !.log = l]
    BY DEF Later, Prepare, ProvideSkip, ProvideRejected, ProvidePanic, ProvideOk,
           ProvidesDone, NoCustomLogger, BuildLogger, BuildLoggerDry, BuildLoggerFails,
           CustomLogger, CustomLoggerError, CheckErr, InvokeNext, InvokesDone, InvokeOk,
           InvokeFails, HandleError, HandlersDone
  <1>3. UNCHANGED <<app.provides, app.invokes, app.logConstructor,
                    app.errorHooks, app.validate>>
    BY <1>1, <1>2 DEF AppType
  <1>4. /\ UNCHANGED <<given, todo>>
        /\ pc' # "options"
        /\ pc = "options" => Prepare
    BY DEF Later, Prepare, ProvideSkip, ProvideRejected, ProvidePanic, ProvideOk,
           ProvidesDone, NoCustomLogger, BuildLogger, BuildLoggerDry, BuildLoggerFails,
           CustomLogger, CustomLoggerError, CheckErr, InvokeNext, InvokesDone, InvokeOk,
           InvokeFails, HandleError, HandlersDone, Elsewhere, Providing
  <1> QED  BY <1>3, <1>4 DEF Ctor, AllProvides

\* New first applies options and then does the rest.
LEMMA NextSplits == Next <=> Apply \/ Later
  BY DEF Next, Later

\* Types and the logger to go back to.
LEMMA StepTypes ==
    ASSUME TypeOK, FallbackReady, [Next]_vars
    PROVE  TypeOK' /\ FallbackReady'
  <1>1. CASE Apply
    <2>1. TypeOK'
      BY <1>1, ApplyTypes
    <2> QED  BY <1>1, <2>1, ApplySteps DEF FallbackReady
  <1>2. CASE Prepare
    <2>1. app' \in AppType
      BY <1>2, FieldTypes DEF Prepare, TypeOK
    <2>2. fallback' \in Sinks \cup {"nil"}
      BY <1>2 DEF Prepare, FallbackReady, TypeOK, BufferType, Sinks
    <2>3. BufferType'
      BY <1>2, <2>2 DEF Prepare, TypeOK, BufferType
    <2>4. TypeOK'
      BY <1>2, <2>1, <2>3, OtherTypes DEF Prepare, TypeOK, Elsewhere
    <2>5. Ctor' = Ctor
      BY <1>2, AskedIsKept DEF Later
    <2> QED  BY <1>2, <2>4, <2>5 DEF Prepare, FallbackReady, Ctor
  <1>3. CASE Later /\ ~ Prepare
    <2>1. TypeOK'
      BY <1>3, ProvideStepTypes, LoggerStepTypes, InvokeStepTypes DEF Later
    <2>2. Ctor' = Ctor /\ pc # "options" /\ pc' # "options"
      BY <1>3, AskedIsKept
    <2>3. pc' \in {"provides", "logger"} =>
             pc \in {"provides", "logger"} /\ fallback' = fallback
      BY <1>3 DEF Later, ProvideSkip, ProvideRejected, ProvidePanic, ProvideOk,
           ProvidesDone, NoCustomLogger, BuildLogger, BuildLoggerDry, BuildLoggerFails,
           CustomLogger, CustomLoggerError, CheckErr, InvokeNext, InvokesDone, InvokeOk,
           InvokeFails, HandleError, HandlersDone, Elsewhere, Providing, bufferVars,
           Log
    <2> QED  BY <2>1, <2>2, <2>3 DEF FallbackReady
  <1>4. CASE UNCHANGED vars
    BY <1>4 DEF vars, bufferVars, TypeOK, BufferType, FallbackReady, Ctor
  <1> QED  BY <1>1, <1>2, <1>3, <1>4, NextSplits

\* The types hold when New is called.
LEMMA InitTypes ==
    ASSUME Init  PROVE TypeOK /\ FallbackReady
  <1>1. given \in Seq(AnyOption)
    <2>1. ASSUME NEW l \in OptionLists
          PROVE  l \in Seq(AnyOption) /\ ValidateApp(l) \in Seq(AnyOption)
      <3>1. l \in Seq(AnyOption)
        BY <2>1, OptionListsAssumption, SeqMonotonic DEF AnyOption
      <3> QED  BY <3>1, AppendProperties DEF ValidateApp, AnyOption
    <2> QED  BY <2>1 DEF Init
  <1>2. app \in AppType
    BY EmptySeq DEF Init, AppType, Sinks
  <1>3. BufferType
    BY EmptySeq DEF Init, BufferType, Sinks
  <1> QED  BY <1>1, <1>2, <1>3 DEF Init, TypeOK, FallbackReady
-----------------------------------------------------------------------------
(* The events. *)

\* An event joins the others, wherever they are.
LEMMA LogKeeps ==
    ASSUME TypeOK, NEW e \in Events, Log(e), app'.log = app.log
    PROVE  (Direct => Direct') /\ (Held => Held')
  <1>1. emitted' = Append(emitted, e)
    BY DEF Log
  <1>2. CASE Direct
    <2>1. app.log \in Sinks /\ app.log # "buffer" /\ app.log # "nil"
      BY <1>2 DEF Direct, Sinks
    <2>2. out' = [out EXCEPT ![app.log] = Append(@, e)] /\ buffer' = buffer
      BY <2>1 DEF Log
    <2>3. out \in [Sinks -> Seq(Events)]
      BY DEF TypeOK, BufferType
    <2> QED  BY <1>1, <1>2, <2>1, <2>2, <2>3 DEF Direct, Held
  <1>3. CASE Held
    <2>1. buffer' = [buffer EXCEPT !.events = Append(@, e)] /\ out' = out
      BY <1>3 DEF Held, Log
    <2>2. buffer \in [events : Seq(Events), logger : Sinks \cup {"nil"}]
      BY DEF TypeOK, BufferType
    <2> QED  BY <1>1, <1>3, <2>1, <2>2 DEF Direct, Held, Sinks
  <1> QED  BY <1>2, <1>3

\* The buffer is flushed to the one logger that is written to from then on.
LEMMA ConnectDelivers ==
    ASSUME TypeOK, Held, NEW l \in Sinks, Connect(l), app'.log = l
    PROVE  Direct'
  <1>1. buffer'.events = <<>> /\ out' = [out EXCEPT ![l] = <<>> \o emitted]
    BY DEF Held, Connect
  <1>2. <<>> \o emitted = emitted
    BY ConcatEmptySeq DEF TypeOK, BufferType
  <1>3. out \in [Sinks -> Seq(Events)] /\ emitted' = emitted
    BY DEF TypeOK, BufferType, Connect
  <1> QED  BY <1>1, <1>2, <1>3 DEF Direct, Held

\* No step splits the events between two loggers.
LEMMA StepLoggers ==
    ASSUME TypeOK, FallbackReady, OneLogger, [Next]_vars
    PROVE  OneLogger'
  <1>0. Direct => ~ Held
    BY DEF Direct, Held, Sinks
  <1>1. ASSUME UNCHANGED <<app.log, buffer, out, emitted>>
        PROVE  (Direct' <=> Direct) /\ (Held' <=> Held)
    BY <1>1 DEF Direct, Held
  <1>2. CASE Apply
    <2>1. Direct' /\ buffer'.logger = "nil" /\ emitted' = <<>>
      <3>1. app'.log \in Sinks
        BY <1>2, ApplySteps DEF OneLogger, Direct, Sinks
      <3>2. \A t \in Sinks : out[t] = <<>>
        BY <1>2, ApplySteps DEF OneLogger, Direct
      <3> QED  BY <1>2, <3>1, <3>2, ApplySteps DEF OneLogger, Direct
    <2>2. ~ Held'
      BY <2>1 DEF Direct, Held, Sinks
    <2> QED  BY <1>2, <2>1, <2>2, ApplySteps DEF OneLogger
  <1>3. ASSUME Later, NEW e \in Events, Log(e), app'.log = app.log,
               pc' \in {"provides", "logger"} => pc \in {"provides", "logger"},
               pc \in {"provides", "logger"} => pc' \in {"provides", "logger", "panic"}
        PROVE  OneLogger'
    <2>1. (Direct => Direct') /\ (Held => Held')
      BY <1>3, LogKeeps
    <2>2. Direct' => ~ Held'
      BY DEF Direct, Held, Sinks
    <2>3. Ctor' = Ctor /\ app'.validate = app.validate /\ pc' # "options"
      BY <1>3, AskedIsKept
    <2>4. pc = "panic" => pc' = "panic"
      BY <1>3 DEF Later, Prepare, ProvideSkip, ProvideRejected, ProvidePanic, ProvideOk,
           ProvidesDone, NoCustomLogger, BuildLogger, BuildLoggerDry, BuildLoggerFails,
           CustomLogger, CustomLoggerError, CheckErr, InvokeNext, InvokesDone, InvokeOk,
           InvokeFails, HandleError, HandlersDone, Providing
    <2> QED  BY <1>0, <2>1, <2>2, <2>3, <2>4, <1>3 DEF OneLogger
  <1>4. ASSUME Later, UNCHANGED bufferVars, app'.log = app.log,
               pc' \in {"provides", "logger"} => pc \in {"provides", "logger"},
               pc \in {"provides", "logger"} /\ Held /\ ~ app.validate =>
                  pc' \in {"provides", "logger", "panic"}
        PROVE  OneLogger'
    <2>1. (Direct' <=> Direct) /\ (Held' <=> Held)
      BY <1>1, <1>4 DEF bufferVars
    <2>2. Ctor' = Ctor /\ app'.validate = app.validate /\ pc' # "options"
      BY <1>4, AskedIsKept
    <2>3. pc = "panic" => pc' = "panic"
      BY <1>4 DEF Later, Prepare, ProvideSkip, ProvideRejected, ProvidePanic, ProvideOk,
           ProvidesDone, NoCustomLogger, BuildLogger, BuildLoggerDry, BuildLoggerFails,
           CustomLogger, CustomLoggerError, CheckErr, InvokeNext, InvokesDone, InvokeOk,
           InvokeFails, HandleError, HandlersDone, Providing
    <2> QED  BY <1>0, <2>1, <2>2, <2>3, <1>4 DEF OneLogger
  <1>5. CASE Prepare
    <2>1. Direct /\ emitted = <<>> /\ buffer.logger = "nil"
      BY <1>5 DEF Prepare, OneLogger
    <2>2. Ctor' = Ctor
      BY <1>5, AskedIsKept DEF Later
    <2>3. CASE Ctor = NoCtor
      <3>1. Direct' /\ ~ Held'
        BY <1>0, <1>1, <1>5, <2>1, <2>3 DEF Prepare, Ctor
      <3> QED  BY <1>5, <2>2, <2>3, <3>1 DEF Prepare, OneLogger
    <2>4. CASE Ctor # NoCtor
      <3>1. app' = [app EXCEPT !.log = "buffer"] /\ app \in AppType
        BY <1>5, <2>4 DEF Prepare, Ctor, TypeOK
      <3>2. app'.log = "buffer"
        BY <3>1 DEF AppType
      <3>3. Held'
        BY <1>5, <2>1, <3>2 DEF Prepare, Direct, Held
      <3> QED  BY <1>5, <2>2, <2>4, <3>3 DEF Prepare, OneLogger
    <2> QED  BY <2>3, <2>4
  <1>6. app \in AppType
    BY DEF TypeOK
  <1> USE DEF Later
  <1>7. CASE ProvideSkip
    BY <1>4, <1>7 DEF ProvideSkip, Providing
  <1>8. CASE ProvideRejected
    <2>1. app'.log = app.log
      BY <1>6, <1>8 DEF ProvideRejected, AppType
    <2> QED  BY <1>4, <1>8, <2>1 DEF ProvideRejected, Providing
  <1>9. CASE ProvidePanic
    BY <1>3, <1>9, TargetTypes DEF ProvidePanic, Providing
  <1>10. CASE ProvideOk
    BY <1>3, <1>10, TargetTypes DEF ProvideOk, Providing
  <1>11. CASE ProvidesDone
    <2>1. Event("ProvideError", app.err) \in Events
      BY <1>6, EventTypes, AppFields DEF Types
    <2>2. CASE UNCHANGED bufferVars
      BY <1>4, <1>11, <2>2 DEF ProvidesDone
    <2>3. CASE Log(Event("ProvideError", app.err))
      BY <1>3, <1>11, <2>1, <2>3 DEF ProvidesDone
    <2> QED  BY <1>11, <2>2, <2>3 DEF ProvidesDone
  <1>12. CASE NoCustomLogger
    <2>1. ~ Held
      BY <1>0, <1>12 DEF NoCustomLogger, OneLogger
    <2> QED  BY <1>4, <1>12, <2>1 DEF NoCustomLogger
  <1>13. CASE BuildLogger
    <2>1. Held /\ app'.log = "custom"
      BY <1>6, <1>13 DEF BuildLogger, OneLogger, AppType
    <2>2. Direct'
      BY <1>13, <2>1, ConnectDelivers DEF BuildLogger, Sinks
    <2>3. ~ Held'
      BY <2>1 DEF Held
    <2> QED  BY <1>13, <2>2, <2>3 DEF BuildLogger, OneLogger
  <1>14. CASE BuildLoggerDry
    BY <1>4, <1>14 DEF BuildLoggerDry
  <1>15. CASE BuildLoggerFails
    <2>1. Held /\ app'.log = fallback /\ fallback \in Sinks /\ fallback # "buffer"
      BY <1>6, <1>15 DEF BuildLoggerFails, OneLogger, FallbackReady, AppType, Sinks
    <2>2. Direct'
      BY <1>15, <2>1, ConnectDelivers DEF BuildLoggerFails
    <2>3. ~ Held'
      BY <2>1 DEF Held
    <2> QED  BY <1>15, <2>2, <2>3 DEF BuildLoggerFails, OneLogger
  <1>16. Event("CustomLogger", Ctor) \in Events
         /\ Event("CustomLoggerError", Ctor) \in Events
    BY <1>6, EventTypes, AppFields DEF Types, Ctor
  <1>17. CASE CustomLogger
    BY <1>3, <1>16, <1>17 DEF CustomLogger
  <1>18. CASE CustomLoggerError
    BY <1>3, <1>16, <1>18 DEF CustomLoggerError
  <1>19. CASE CheckErr
    BY <1>4, <1>19 DEF CheckErr
  <1>20. n <= Len(app.invokes) =>
            Event("Invoke", Fn) \in Events /\ Event("InvokeError", Fn) \in Events
    BY FnTypes, EventTypes DEF Types
  <1>21. CASE InvokeNext
    BY <1>3, <1>20, <1>21 DEF InvokeNext
  <1>22. CASE InvokesDone
    BY <1>4, <1>22 DEF InvokesDone
  <1>23. CASE InvokeOk
    BY <1>4, <1>23 DEF InvokeOk
  <1>24. CASE InvokeFails
    <2>1. app'.log = app.log
      BY <1>6, <1>24 DEF InvokeFails, AppType
    <2>2. n <= Len(app.invokes)
      BY <1>24 DEF InvokeFails, TypeOK
    <2> QED  BY <1>3, <1>20, <1>24, <2>1, <2>2 DEF InvokeFails
  <1>25. CASE HandleError
    BY <1>4, <1>25 DEF HandleError
  <1>26. CASE HandlersDone
    BY <1>4, <1>26 DEF HandlersDone
  <1>27. CASE UNCHANGED vars
    BY <1>1, <1>27 DEF vars, bufferVars, OneLogger, Ctor
  <1> QED
    BY <1>2, <1>5, <1>7, <1>8, <1>9, <1>10, <1>11, <1>12, <1>13, <1>14, <1>15, <1>17,
       <1>18, <1>19, <1>21, <1>22, <1>23, <1>24, <1>25, <1>26, <1>27, NextSplits
-----------------------------------------------------------------------------
(* Dry runs. *)

\* The option that is last stays last until it is applied.
LEMMA StepDryRun ==
    ASSUME TypeOK, DryRunKnown, [Next]_vars
    PROVE  DryRunKnown'
  <1>0. given' = given /\ (DryRun' <=> DryRun)
    <2>1. given' = given
      BY ApplySteps, AskedIsKept, NextSplits DEF vars
    <2> QED  BY <2>1 DEF DryRun
  <1>1. CASE Apply
    <2> DEFINE o == Head(todo)
               rest == Tail(todo)
    <2>1. /\ pc = "options" /\ pc' = pc /\ todo # <<>> /\ o \in AnyOption
          /\ rest \in Seq(AnyOption) /\ Len(rest) = Len(todo) - 1 /\ Len(todo) > 0
          /\ \A i \in 1..Len(rest) : rest[i] = todo[i + 1]
          /\ o = todo[1]
      <3>1. pc = "options" /\ pc' = pc /\ todo # <<>>
        BY <1>1, ApplySteps
      <3>2. o \in AnyOption /\ rest \in Seq(AnyOption) /\ todo \in Seq(AnyOption)
        BY <3>1, NextOption DEF TypeOK
      <3>3. Len(todo) > 0 /\ o = todo[1]
        BY <3>1, <3>2, EmptySeq
      <3> QED  BY <3>1, <3>2, <3>3, HeadTailProperties
    <2>2. CASE ~ DryRun
      <3>1. o \in Options /\ rest \in Seq(Options) /\ ~ app.validate
        BY <2>1, <2>2, HeadTailProperties DEF DryRunKnown
      <3>2. o.kind # "validate"
        BY <3>1, OptionsAssumption DEF Args
      <3>3. o.kind = "group" => Arg \o rest \in Seq(Options)
        BY <2>1, <3>1, OptionTypes, ConcatProperties DEF Arg
      <3> QED  BY <1>0, <1>1, <2>2, <3>1, <3>2, <3>3, ApplySteps DEF DryRunKnown
    <2>3. CASE DryRun
      <3>1. CASE app.validate
        BY <1>0, <1>1, <2>3, <3>1, ApplySteps DEF DryRunKnown
      <3>2. CASE todo[Len(todo)] = ValidateOption
        <4>1. CASE o.kind = "validate"
          BY <1>0, <1>1, <2>3, <4>1, ApplySteps DEF DryRunKnown
        <4>2. CASE o.kind # "validate"
          <5>1. Len(rest) > 0 /\ rest[Len(rest)] = ValidateOption
            BY <2>1, <3>2, <4>2 DEF ValidateOption
          <5>2. CASE o.kind = "group"
            <6>1. Arg \in Seq(AnyOption)
              BY <2>1, <5>2, OptionTypes, SeqMonotonic DEF Arg, AnyOption
            <6>2. /\ Len(Arg \o rest) = Len(Arg) + Len(rest)
                  /\ (Arg \o rest)[Len(Arg) + Len(rest)] = rest[Len(rest)]
                  /\ Len(Arg) \in Nat /\ Arg \o rest \in Seq(AnyOption)
              <7>1. Len(Arg) \in Nat /\ Len(rest) \in Nat
                BY <2>1, <6>1, LenProperties
              <7> QED  BY <2>1, <5>1, <6>1, <7>1, ConcatProperties
            <6>3. Arg \o rest # <<>>
              BY <5>1, <6>2, LenProperties, <2>1
            <6> QED  BY <1>0, <1>1, <2>1, <2>3, <5>1, <5>2, <6>2, <6>3, ApplySteps
                     DEF DryRunKnown
          <5>3. CASE o.kind # "group"
            <6>1. rest # <<>>
              <7>1. Len(<<>>) = 0
                OBVIOUS
              <7> HIDE DEF rest
              <7> QED  BY <5>1, <7>1
            <6> QED  BY <1>0, <1>1, <2>1, <2>3, <4>2, <5>1, <5>3, <6>1, ApplySteps
                     DEF DryRunKnown
          <5> QED  BY <5>2, <5>3
        <4> QED  BY <4>1, <4>2
      <3> QED  BY <2>3, <3>1, <3>2 DEF DryRunKnown
    <2> QED  BY <2>2, <2>3
  <1>2. CASE Later
    <2>1. todo' = todo /\ app'.validate = app.validate /\ (pc = "options" => Prepare)
      BY <1>2, AskedIsKept
    <2>2. pc = "options" => todo = <<>>
      BY <2>1 DEF Prepare
    <2> QED  BY <1>0, <2>1, <2>2 DEF DryRunKnown
  <1>3. CASE UNCHANGED vars
    BY <1>0, <1>3 DEF vars, DryRunKnown
  <1> QED  BY <1>1, <1>2, <1>3, NextSplits

\* ValidateApp puts its option last, and no other option is of that kind.
LEMMA InitDryRun == ASSUME Init  PROVE DryRunKnown
  <1>1. app.validate = FALSE /\ todo = given /\ pc = "options"
    BY DEF Init
  <1>2. ASSUME NEW l \in OptionLists, given = l
        PROVE  DryRunKnown
    <2>1. l \in Seq(Options)
      BY OptionListsAssumption
    <2>2. ~ DryRun
      <3>1. ASSUME NEW i \in 1..Len(l)  PROVE l[i].kind # "validate"
        BY <2>1, ElementOfSeq, OptionsAssumption DEF Args
      <3> QED  BY <1>2, <3>1 DEF DryRun
    <2> QED  BY <1>1, <1>2, <2>1, <2>2 DEF DryRunKnown
  <1>3. ASSUME NEW l \in OptionLists, given = ValidateApp(l)
        PROVE  DryRunKnown
    <2>1. l \in Seq(AnyOption) /\ ValidateOption \in AnyOption
      BY OptionListsAssumption, SeqMonotonic DEF AnyOption
    <2>2. /\ given # <<>> /\ Len(given) = Len(l) + 1
          /\ given[Len(l) + 1] = ValidateOption /\ Len(l) \in Nat
      BY <1>3, <2>1, AppendProperties, LenProperties DEF ValidateApp
    <2>3. DryRun
      BY <2>2 DEF DryRun, ValidateOption
    <2> QED  BY <1>1, <2>2, <2>3 DEF DryRunKnown
  <1> QED  BY <1>2, <1>3 DEF Init

\* A dry run calls nothing.
LEMMA StepNothingCalled ==
    ASSUME TypeOK, FallbackReady, OneLogger, NothingCalled, [Next]_vars
    PROVE  NothingCalled'
  <1>1. CASE Apply
    BY <1>1, ApplySteps DEF NothingCalled
  <1>2. CASE Later
    <2>1. app'.validate = app.validate /\ pc' # "options"
      BY <1>2, AskedIsKept
    <2>2. ASSUME app.validate  PROVE called' = <<>> /\ app'.log # "custom"
      <3>1. called = <<>> /\ app.log # "custom" /\ app \in AppType
        BY <2>2 DEF NothingCalled, TypeOK
      <3>2. called' = <<>>
        BY <1>2, <2>2, <3>1 DEF Later, Prepare, ProvideSkip, ProvideRejected,
           ProvidePanic, ProvideOk, ProvidesDone, NoCustomLogger, BuildLogger,
           BuildLoggerDry, BuildLoggerFails, CustomLogger, CustomLoggerError, CheckErr,
           InvokeNext, InvokesDone, InvokeOk, InvokeFails, HandleError, HandlersDone,
           Elsewhere, InvokeCalls
      <3>3. CASE BuildLoggerFails
        <4>1. app'.log = fallback
          BY <3>1, <3>3 DEF BuildLoggerFails, AppType
        <4>2. fallback # "custom"
          BY <3>3 DEF BuildLoggerFails, FallbackReady
        <4> QED  BY <3>2, <4>1, <4>2
      <3>4. CASE ~ BuildLoggerFails
        <4>1. \/ app' = app \/ app' = [app EXCEPT !.log = "buffer"]
              \/ \E x : app' = [app EXCEPT !.err = x]
          BY <1>2, <2>2, <3>4 DEF Later, Prepare, ProvideSkip, ProvideRejected,
             ProvidePanic, ProvideOk, ProvidesDone, NoCustomLogger, BuildLogger,
             BuildLoggerDry, CustomLogger, CustomLoggerError, CheckErr, InvokeNext,
             InvokesDone, InvokeOk, InvokeFails, HandleError, HandlersDone
        <4> QED  BY <3>1, <3>2, <4>1 DEF AppType
      <3> QED  BY <3>3, <3>4
    <2> QED  BY <2>1, <2>2 DEF NothingCalled
  <1>3. CASE UNCHANGED vars
    BY <1>3 DEF vars, NothingCalled
  <1> QED  BY <1>1, <1>2, <1>3, NextSplits
-----------------------------------------------------------------------------
(* Errors. *)

\* What a sequence is a prefix of.
LEMMA PrefixFacts ==
    ASSUME NEW S, NEW s \in Seq(S)
    PROVE  /\ IsPrefix(s, s)
           /\ s = <<>> => \A t \in Seq(S) : IsPrefix(s, t)
           /\ \A t \in Seq(S) : IsPrefix(s, s \o t)
           /\ \A e \in S : IsPrefix(s, Append(s, e))
  <1>1. Len(s) \in Nat /\ IsPrefix(s, s)
    BY LenProperties DEF IsPrefix
  <1>2. ASSUME NEW t \in Seq(S)  PROVE IsPrefix(s, s \o t)
    <2>1. /\ s \o t \in Seq(S) /\ Len(s \o t) = Len(s) + Len(t) /\ Len(t) \in Nat
          /\ \A i \in 1..Len(s) : (s \o t)[i] = s[i]
      BY ConcatProperties, LenProperties
    <2>2. SubSeq(s \o t, 1, Len(s)) = SubSeq(s, 1, Len(s))
      BY <1>1, <2>1
    <2> QED  BY <1>1, <2>1, <2>2 DEF IsPrefix
  <1>3. ASSUME NEW e \in S  PROVE IsPrefix(s, Append(s, e))
    <2>1. Append(s, e) = s \o <<e>> /\ <<e>> \in Seq(S)
      BY AppendIsConcat
    <2> QED  BY <1>2, <2>1
  <1>4. ASSUME NEW t \in Seq(S), s = <<>>  PROVE IsPrefix(s, t)
    <2>1. <<>> \o t = t
      BY ConcatEmptySeq
    <2> QED  BY <1>2, <1>4, <2>1
  <1> QED  BY <1>1, <1>2, <1>3, <1>4

\* What the steps do to the errors.
LEMMA ErrGrows ==
    ASSUME TypeOK, ErrorsAreKnown, [Next]_vars
    PROVE  /\ IsPrefix(app.err, app'.err)
           /\ app.err # <<>> => app'.err # <<>>
  <1>1. app \in AppType /\ app.err \in Seq(AllErrors)
    BY AppFields DEF TypeOK
  <1>2. CASE app'.err = app.err
    BY <1>1, <1>2, PrefixFacts
  <1>3. CASE app.err = <<>> /\ app'.err \in Seq(AllErrors)
    BY <1>1, <1>3, PrefixFacts
  <1>4. CASE Apply
    <2>1. CASE Head(todo).kind = "error"
      <3>1. app'.err = app.err \o NonNil(Arg)
        BY <1>4, <2>1, ApplySteps
      <3>2. NonNil(Arg) \in Seq(AllErrors)
        BY <1>4, <2>1, ApplySteps, NextOption, OptionTypes, SeqMonotonic
           DEF Arg, AllErrors
      <3>3. app.err # <<>> => app.err \o NonNil(Arg) # <<>>
        BY <1>1, <3>2, ConcatEqualIffEmpty
      <3> QED  BY <1>1, <3>1, <3>2, <3>3, PrefixFacts
    <2> QED  BY <1>2, <1>4, <2>1, ApplySteps
  <1>5. CASE ProvideRejected
    BY <1>1, <1>3, <1>5, ErrorTypes DEF ProvideRejected, AppType
  <1>6. CASE BuildLoggerFails
    <2>1. app'.err = Append(app.err, "logger") /\ "logger" \in AllErrors
      BY <1>1, <1>6 DEF BuildLoggerFails, AppType, AllErrors
    <2>2. app'.err # <<>>
      BY <1>1, <2>1, AppendProperties
    <2> QED  BY <1>1, <2>1, <2>2, PrefixFacts
  <1>7. CASE InvokeFails
    <2>1. app.err = <<>>
      BY <1>7 DEF InvokeFails, ErrorsAreKnown
    <2> QED  BY <1>1, <1>3, <1>7, <2>1, ErrorTypes DEF InvokeFails, AppType
  <1>8. CASE Later /\ ~ ProvideRejected /\ ~ BuildLoggerFails /\ ~ InvokeFails
    <2>1. app' = app \/ \E l : app' = [app EXCEPT !.log = l]
      BY <1>8 DEF Later, Prepare, ProvideSkip,
         ProvidePanic, ProvideOk, ProvidesDone, NoCustomLogger, BuildLogger,
         BuildLoggerDry, CustomLogger, CustomLoggerError, CheckErr, InvokeNext,
         InvokesDone, InvokeOk, HandleError, HandlersDone
    <2> QED  BY <1>1, <1>2, <2>1 DEF AppType
  <1>9. CASE UNCHANGED vars
    BY <1>2, <1>9 DEF vars
  <1> QED  BY <1>4, <1>5, <1>6, <1>7, <1>8, <1>9, NextSplits

\* The events that a step adds.
LEMMA EmittedGrows ==
    ASSUME TypeOK, [Next]_vars
    PROVE  \/ emitted' = emitted
           \/ \E e \in Events : /\ emitted' = Append(emitted, e)
                                /\ \/ ProvidePanic \/ ProvideOk \/ CustomLogger
                                   \/ InvokeNext \/ InvokeFails
                                   \/ ProvidesDone /\ app.err # <<>>
                                   \/ CustomLoggerError
                                /\ e.type \in Failed =>
                                      \/ ProvidesDone \/ CustomLoggerError
                                      \/ InvokeFails
                                /\ e.type = "InvokeError" => InvokeFails
                                /\ e.type = "Invoke" => InvokeNext
                                /\ e.type \in {"Provide", "Supply"} <=>
                                      ProvidePanic \/ ProvideOk
                                /\ ProvidePanic \/ ProvideOk => e = ProvideEvent
  <1>1. app \in AppType /\ app.err \in Seq(AllErrors)
    BY AppFields DEF TypeOK
  <1>2. CASE ProvidePanic \/ ProvideOk
    <2>1. ProvideEvent \in Events
      BY <1>2, TargetTypes DEF ProvidePanic, ProvideOk
    <2>2. ProvideEvent.type \in {"Provide", "Supply"}
      BY DEF ProvideEvent, Event
    <2>3. emitted' = Append(emitted, ProvideEvent)
      BY <1>2 DEF ProvidePanic, ProvideOk, Log
    <2> QED  BY <1>2, <2>1, <2>2, <2>3 DEF Failed
  <1>3. pc # "provides" \/ ProvidesDone => ~ ProvidePanic /\ ~ ProvideOk
    BY <1>1, ProvideTypes DEF ProvidePanic, ProvideOk, ProvidesDone, Providing, TypeOK
  <1>4. CASE ProvidesDone
    <2>1. CASE UNCHANGED bufferVars
      BY <2>1 DEF bufferVars
    <2>2. CASE app.err # <<>> /\ Log(Event("ProvideError", app.err))
      <3>1. Event("ProvideError", app.err) \in Events
        BY <1>1, EventTypes DEF Types
      <3> QED  BY <1>3, <1>4, <2>2, <3>1 DEF Log, Event
    <2> QED  BY <1>4, <2>1, <2>2 DEF ProvidesDone
  <1>5. CASE CustomLogger
    <2>1. Event("CustomLogger", Ctor) \in Events
      BY <1>1, EventTypes, AppFields DEF Types, Ctor
    <2> QED  BY <1>3, <1>5, <2>1 DEF CustomLogger, Log, Event, Failed
  <1>6. CASE CustomLoggerError
    <2>1. Event("CustomLoggerError", Ctor) \in Events
      BY <1>1, EventTypes, AppFields DEF Types, Ctor
    <2> QED  BY <1>3, <1>6, <2>1 DEF CustomLoggerError, Log, Event
  <1>7. CASE InvokeNext
    <2>1. Event("Invoke", Fn) \in Events
      BY <1>7, EventTypes, FnTypes DEF Types, InvokeNext
    <2> QED  BY <1>3, <1>7, <2>1 DEF InvokeNext, Log, Event, Failed
  <1>8. CASE InvokeFails
    <2>1. Event("InvokeError", Fn) \in Events
      BY <1>8, EventTypes, FnTypes DEF Types, InvokeFails, TypeOK
    <2> QED  BY <1>3, <1>8, <2>1 DEF InvokeFails, Log, Event
  <1>9. CASE Apply
    BY <1>9, ApplySteps
  <1>10. CASE \/ Prepare \/ ProvideSkip \/ ProvideRejected \/ NoCustomLogger
              \/ BuildLogger \/ BuildLoggerDry \/ BuildLoggerFails \/ CheckErr
              \/ InvokesDone \/ InvokeOk \/ HandleError \/ HandlersDone
              \/ UNCHANGED vars
    BY <1>10 DEF Prepare, ProvideSkip, ProvideRejected, NoCustomLogger, BuildLogger,
       BuildLoggerDry, BuildLoggerFails, CheckErr, InvokesDone, InvokeOk, HandleError,
       HandlersDone, vars, bufferVars, Connect
  <1> QED
    BY <1>2, <1>4, <1>5, <1>6, <1>7, <1>8, <1>9, <1>10 DEF Next

\* No step forgets an error.
LEMMA StepErrors ==
    ASSUME TypeOK, ErrorsAreKnown, [Next]_vars
    PROVE  ErrorsAreKnown'
  <1>1. app.err # <<>> => app'.err # <<>>
    BY ErrGrows
  <1>2. app \in AppType /\ emitted \in Seq(Events)
    BY DEF TypeOK, BufferType
  <1>3. ASSUME NEW i \in 1..Len(emitted'), emitted'[i].type \in Failed
        PROVE  app'.err # <<>>
    <2>1. CASE emitted' = emitted
      BY <1>1, <1>3, <2>1 DEF ErrorsAreKnown
    <2>2. ASSUME NEW e \in Events, emitted' = Append(emitted, e),
                 e.type \in Failed => app'.err # <<>>
          PROVE  app'.err # <<>>
      <3>1. /\ Len(emitted') = Len(emitted) + 1
            /\ \A j \in 1..Len(emitted) : emitted'[j] = emitted[j]
            /\ emitted'[Len(emitted) + 1] = e /\ Len(emitted) \in Nat
        BY <1>2, <2>2, AppendProperties, LenProperties
      <3>2. CASE i = Len(emitted) + 1
        BY <1>3, <2>2, <3>1, <3>2
      <3>3. CASE i \in 1..Len(emitted)
        BY <1>1, <1>3, <3>1, <3>3 DEF ErrorsAreKnown
      <3> QED  BY <3>1, <3>2, <3>3
    <2>3. CustomLoggerError \/ (ProvidesDone /\ app.err # <<>>) => app'.err # <<>>
      BY <1>1 DEF CustomLoggerError, ErrorsAreKnown
    <2>4. InvokeFails => app'.err # <<>>
      BY <1>2 DEF InvokeFails, AppType
    <2>5. ProvidesDone => pc = "provides" /\ n > Len(AllProvides)
      BY DEF ProvidesDone
    <2>6. \/ emitted' = emitted
          \/ \E e \in Events : /\ emitted' = Append(emitted, e)
                               /\ e.type \in Failed => app'.err # <<>>
      <3>1. ProvidesDone => ~ (\/ ProvidePanic \/ ProvideOk \/ CustomLogger
                               \/ InvokeNext \/ InvokeFails \/ CustomLoggerError)
        BY <2>5, <1>2, ProvideTypes DEF ProvidePanic, ProvideOk, CustomLogger,
           InvokeNext, InvokeFails, CustomLoggerError, Providing, TypeOK
      <3> QED  BY <2>3, <2>4, <3>1, EmittedGrows
    <2> QED  BY <2>1, <2>2, <2>6
  <1>4. /\ pc' \in {"noCustom", "handle"} => app'.err # <<>>
        /\ pc' \in {"invokes", "invoking"} => app'.err = <<>>
        /\ pc' \notin {"handle", "done"} => heard' = <<>>
    <2>1. CASE Apply
      BY <2>1, ApplySteps DEF ErrorsAreKnown
    <2>2. CASE BuildLoggerFails
      <3>1. app'.err = Append(app.err, "logger") /\ app.err \in Seq(AllErrors)
            /\ "logger" \in AllErrors
        BY <1>2, <2>2, AppFields DEF BuildLoggerFails, AppType, AllErrors
      <3>2. app'.err # <<>>
        BY <3>1, AppendProperties
      <3> QED  BY <2>2, <3>2 DEF BuildLoggerFails, ErrorsAreKnown
    <2>3. CASE InvokeFails
      BY <1>2, <2>3 DEF InvokeFails, AppType
    <2>4. CASE Later /\ ~ BuildLoggerFails /\ ~ InvokeFails
      <3>1. \/ pc' = pc
            \/ pc' \in {"logger", "custom", "check", "panic", "provides", "done"}
            \/ pc' \in {"invokes", "invoking"} /\ app'.err = <<>>
        BY <1>2, <2>4 DEF Later, Prepare, ProvideSkip, ProvideRejected,
           ProvidePanic, ProvideOk, ProvidesDone, NoCustomLogger, BuildLogger,
           BuildLoggerDry, CustomLogger, CustomLoggerError, CheckErr,
           InvokeNext, InvokesDone, InvokeOk, HandleError, HandlersDone,
           Elsewhere, Providing, ErrorsAreKnown
      <3>2. /\ pc' \in {"invokes", "invoking"} => app'.err = <<>>
            /\ pc' \notin {"handle", "done"} => heard' = <<>>
        BY <1>2, <2>4 DEF Later, Prepare, ProvideSkip, ProvideRejected,
           ProvidePanic, ProvideOk, ProvidesDone, NoCustomLogger, BuildLogger,
           BuildLoggerDry, CustomLogger, CustomLoggerError, CheckErr,
           InvokeNext, InvokesDone, InvokeOk, HandleError, HandlersDone,
           Elsewhere, Providing, ErrorsAreKnown
      <3> QED  BY <1>1, <3>1, <3>2 DEF ErrorsAreKnown
    <2>5. CASE UNCHANGED vars
      BY <2>5 DEF vars, ErrorsAreKnown
    <2> QED  BY <2>1, <2>2, <2>3, <2>4, <2>5, NextSplits
  <1> QED  BY <1>3, <1>4 DEF ErrorsAreKnown
-----------------------------------------------------------------------------
(* The container and its events. *)

\* Events of other kinds, and the constructor of the logger, change nothing.
LEMMA LoggedKept ==
    ASSUME NEW es \in Seq(Events), NEW cs \in Seq(Functions), NEW k \in Nat,
           Logged(es, cs, k)
    PROVE  /\ \A e \in Events : e.type \notin {"Provide", "Supply"} =>
                 Logged(Append(es, e), cs, k)
           /\ \A f \in Functions : Logged(es, Append(cs, f), k)
  <1>3. k <= Len(es) /\ k <= Len(cs) /\ Len(es) \in Nat /\ Len(cs) \in Nat
    BY LenProperties DEF Logged
  <1>4. ASSUME NEW e \in Events, e.type \notin {"Provide", "Supply"}
        PROVE  Logged(Append(es, e), cs, k)
    <2>0. /\ Len(Append(es, e)) = Len(es) + 1
          /\ \A i \in 1..Len(es) : Append(es, e)[i] = es[i]
          /\ Append(es, e)[Len(es) + 1] = e
      BY AppendProperties
    <2>1. ASSUME NEW i \in 1..Len(Append(es, e))
          PROVE  Append(es, e)[i].type \in {"Provide", "Supply"} <=> i <= k
      <3>1. CASE i = Len(es) + 1
        BY <2>0, <1>3, <1>4, <3>1
      <3>2. CASE i \in 1..Len(es)
        BY <2>0, <3>2 DEF Logged
      <3> QED  BY <2>0, <1>3, <3>1, <3>2
    <2>2. \A i \in 1..k : Append(es, e)[i].of = cs[i]
      BY <2>0, <1>3 DEF Logged
    <2> QED  BY <2>0, <1>3, <2>1, <2>2 DEF Logged
  <1>5. ASSUME NEW f \in Functions  PROVE Logged(es, Append(cs, f), k)
    <2>1. /\ Len(Append(cs, f)) = Len(cs) + 1
          /\ \A i \in 1..Len(cs) : Append(cs, f)[i] = cs[i]
      BY AppendProperties
    <2> QED  BY <1>3, <2>1 DEF Logged
  <1> QED  BY <1>4, <1>5

\* A constructor and its event.
LEMMA LoggedBoth ==
    ASSUME NEW es \in Seq(Events), NEW cs \in Seq(Functions),
           Logged(es, cs, Len(cs)), Len(es) = Len(cs),
           NEW e \in Events, e.type \in {"Provide", "Supply"}, e.of \in Functions
    PROVE  /\ Logged(Append(es, e), Append(cs, e.of), Len(Append(cs, e.of)))
           /\ Len(Append(es, e)) = Len(Append(cs, e.of))
  <1>1. /\ Len(Append(es, e)) = Len(es) + 1 /\ Len(es) \in Nat
        /\ \A i \in 1..Len(es) : Append(es, e)[i] = es[i]
        /\ Append(es, e)[Len(es) + 1] = e
    BY AppendProperties, LenProperties
  <1>2. /\ Len(Append(cs, e.of)) = Len(cs) + 1 /\ Len(cs) \in Nat
        /\ \A i \in 1..Len(cs) : Append(cs, e.of)[i] = cs[i]
        /\ Append(cs, e.of)[Len(cs) + 1] = e.of
    BY AppendProperties, LenProperties
  <1> DEFINE es1 == Append(es, e)
             cs1 == Append(cs, e.of)
  <1>3. ASSUME NEW i \in 1..Len(es1)
        PROVE  es1[i].type \in {"Provide", "Supply"} /\ es1[i].of = cs1[i]
    <2>1. CASE i = Len(es) + 1
      BY <1>1, <1>2, <2>1
    <2>2. CASE i \in 1..Len(es)
      BY <1>1, <1>2, <2>2 DEF Logged
    <2> QED  BY <1>1, <2>1, <2>2
  <1>4. Len(es1) = Len(cs1) /\ Len(cs1) \in Nat
    BY <1>1, <1>2
  <1> HIDE DEF es1, cs1
  <1>5. Logged(es1, cs1, Len(cs1))
    BY <1>3, <1>4 DEF Logged
  <1> QED  BY <1>4, <1>5 DEF es1, cs1

\* The last conjunct of ContainerInv, with the constructors counted.
AllLogged(es, cs, c) ==
    \E k \in 0..Len(cs) : /\ Logged(es, cs, k)
                          /\ Len(cs) <= k + 1
                          /\ Len(cs) = k + 1 => cs[k + 1] = c

\* ContainerInv with AllLogged as one of its parts.
LEMMA ContainerInvSplits ==
    ContainerInv <=>
    /\ pc = "options" => container = <<>> /\ emitted = <<>>
    /\ pc = "provides" => Len(emitted) = Len(container)
    /\ pc \in {"provides", "logger"} => Logged(emitted, container, Len(container))
    /\ pc # "panic" => AllLogged(emitted, container, Ctor)
    /\ pc = "panic" => NilLogged(emitted, container)
  BY DEF ContainerInv, AllLogged

\* Without a constructor of a logger all constructors are logged.
LEMMA LoggedIsAll ==
    ASSUME NEW es, NEW cs \in Seq(Functions), NEW c, Logged(es, cs, Len(cs))
    PROVE  AllLogged(es, cs, c)
  BY LenProperties DEF AllLogged

\* Another event changes nothing there either.
LEMMA AllLoggedKept ==
    ASSUME NEW es \in Seq(Events), NEW cs \in Seq(Functions), NEW c,
           AllLogged(es, cs, c), NEW e \in Events,
           e.type \notin {"Provide", "Supply"}
    PROVE  AllLogged(Append(es, e), cs, c)
  <1>1. PICK k \in 0..Len(cs) : /\ Logged(es, cs, k)
                                /\ Len(cs) <= k + 1
                                /\ Len(cs) = k + 1 => cs[k + 1] = c
    BY DEF AllLogged
  <1>2. k \in Nat /\ Len(cs) \in Nat
    BY LenProperties
  <1>3. Logged(Append(es, e), cs, k)
    BY <1>1, <1>2, LoggedKept
  <1> QED  BY <1>1, <1>3 DEF AllLogged
\* The constructor of the logger comes after those that are logged.
LEMMA LoggerJoins ==
    ASSUME NEW es \in Seq(Events), NEW cs \in Seq(Functions), NEW c \in Functions,
           Logged(es, cs, Len(cs))
    PROVE  AllLogged(es, Append(cs, c), c)
  <1>1. /\ Len(Append(cs, c)) = Len(cs) + 1 /\ Len(cs) \in Nat
        /\ Append(cs, c)[Len(cs) + 1] = c
    BY AppendProperties, LenProperties
  <1>2. Logged(es, Append(cs, c), Len(cs))
    BY <1>1, LoggedKept
  <1> QED  BY <1>1, <1>2 DEF AllLogged

\* No step brings the container and its events apart.
LEMMA StepContainer ==
    ASSUME TypeOK, ContainerInv, [Next]_vars
    PROVE  ContainerInv'
  <1>1. /\ emitted \in Seq(Events) /\ container \in Seq(Functions) /\ app \in AppType
        /\ Ctor \in Functions \cup {NoCtor}
    BY AppFields DEF TypeOK, BufferType, Ctor
  <1> DEFINE Inv(p, es, cs, c) ==
               /\ p = "options" => cs = <<>> /\ es = <<>>
               /\ p = "provides" => Len(es) = Len(cs)
               /\ p \in {"provides", "logger"} => Logged(es, cs, Len(cs))
               /\ p # "panic" => AllLogged(es, cs, c)
               /\ p = "panic" => NilLogged(es, cs)
  <1>2. Inv(pc, emitted, container, Ctor)
    BY ContainerInvSplits
  <1>3. Inv(pc', emitted', container', Ctor') => ContainerInv'
    BY DEF ContainerInv, AllLogged
  <1>4. ASSUME NEW e \in Events, emitted' = Append(emitted, e), container' = container,
               e.type \notin {"Provide", "Supply"}, Ctor' = Ctor,
               pc # "panic", pc' \notin {"options", "provides", "panic"},
               pc' = "logger" => pc = "provides"
        PROVE  Inv(pc', emitted', container', Ctor')
    <2>1. AllLogged(emitted', container', Ctor')
      BY <1>1, <1>2, <1>4, AllLoggedKept
    <2>2. pc' = "logger" => Logged(emitted', container', Len(container'))
      BY <1>1, <1>2, <1>4, LoggedKept, LenProperties
    <2> QED  BY <1>4, <2>1, <2>2
  <1>5. ASSUME emitted' = emitted, container' = container, Ctor' = Ctor,
               pc' = pc \/ pc' \notin {"options", "provides", "panic"},
               pc' = "logger" => pc \in {"provides", "logger"}, pc = "panic" => pc' = pc
        PROVE  Inv(pc', emitted', container', Ctor')
    BY <1>2, <1>5
  <1> HIDE DEF Inv
  <1>6. CASE Apply
    <2>1. /\ pc' = "options" /\ emitted' = <<>> /\ container' = <<>>
      BY <1>2, <1>6, ApplySteps DEF Inv
    <2>2. Logged(<<>>, <<>>, Len(<<>>)) /\ <<>> \in Seq(Functions) /\ Len(<<>>) = 0
      BY DEF Logged
    <2> QED  BY <1>3, <2>1, <2>2, LoggedIsAll DEF Inv
  <1>7. Later => /\ Ctor' = Ctor /\ pc' # "options"
                 /\ pc = "options" => Prepare
    BY AskedIsKept
  <1>8. CASE Prepare
    <2>1. emitted' = <<>> /\ container' = <<>> /\ pc' = "provides" /\ Ctor' = Ctor
      BY <1>2, <1>7, <1>8 DEF Inv, Later, Prepare, Elsewhere
    <2>2. Logged(<<>>, <<>>, Len(<<>>)) /\ <<>> \in Seq(Functions) /\ Len(<<>>) = 0
      BY DEF Logged
    <2> QED  BY <1>3, <2>1, <2>2, LoggedIsAll DEF Inv
  <1>9. CASE ProvideOk
    <2>1. pc = "provides" /\ pc' = pc /\ container' = Append(container, Target)
      BY <1>9 DEF ProvideOk, Providing
    <2>2. /\ ProvideEvent \in Events /\ Target \in Functions
          /\ ProvideEvent.of = Target /\ ProvideEvent.type \in {"Provide", "Supply"}
      BY <1>9, TargetTypes DEF ProvideOk, ProvideEvent, Event
    <2>3. emitted' = Append(emitted, ProvideEvent)
      BY <1>9 DEF ProvideOk, Log
    <2>4. /\ Logged(emitted', container', Len(container'))
          /\ Len(emitted') = Len(container')
      BY <1>1, <1>2, <2>1, <2>2, <2>3, LoggedBoth DEF Inv
    <2>5. container' \in Seq(Functions)
      BY <1>1, <2>1, <2>2, AppendProperties
    <2>6. AllLogged(emitted', container', Ctor')
      BY <2>4, <2>5, LoggedIsAll
    <2> QED  BY <1>3, <2>1, <2>4, <2>6 DEF Inv
  <1>10. CASE ProvidePanic
    <2>1. /\ pc = "provides" /\ pc' = "panic" /\ container' = container
          /\ emitted' = Append(emitted, ProvideEvent) /\ Target.form = "nil"
      BY <1>10 DEF ProvidePanic, Providing, Log, Elsewhere
    <2>2. /\ ProvideEvent \in Events /\ ProvideEvent.of = Target
          /\ ProvideEvent.type \in {"Provide", "Supply"}
      BY <1>10, TargetTypes DEF ProvidePanic, ProvideEvent, Event
    <2>3. Len(emitted) = Len(container) /\ Logged(emitted, container, Len(container))
      BY <1>2, <2>1 DEF Inv
    <2>4. NilLogged(emitted', container')
      <3>1. Len(emitted) \in Nat
        BY <1>1, LenProperties
      <3>2. /\ Len(emitted') = Len(emitted) + 1 /\ emitted'[Len(emitted) + 1] = ProvideEvent
            /\ \A i \in 1..Len(emitted) : emitted'[i] = emitted[i]
        BY <1>1, <2>1, <2>2, AppendProperties
      <3> QED  BY <2>1, <2>2, <2>3, <3>1, <3>2 DEF NilLogged, Logged
    <2> QED  BY <1>3, <2>1, <2>4 DEF Inv
  <1>11. CASE BuildLogger \/ BuildLoggerDry
              \/ (BuildLoggerFails /\ container' = WithCtor)
    <2>1. /\ pc = "logger" /\ pc' \in {"custom", "noCustom"} /\ emitted' = emitted
          /\ container' = Append(container, Ctor) /\ Ctor \in Functions
      BY <1>1, <1>11 DEF BuildLogger, BuildLoggerDry, BuildLoggerFails, Connect,
                         WithCtor, bufferVars
    <2>2. AllLogged(emitted', container', Ctor')
      BY <1>1, <1>2, <1>7, <1>11, <2>1, LoggerJoins DEF Inv, Later
    <2> QED  BY <1>3, <2>1, <2>2 DEF Inv
  <1>12. CASE BuildLoggerFails /\ container' = container
    <2>1. pc = "logger" /\ pc' = "noCustom" /\ emitted' = emitted
      BY <1>12 DEF BuildLoggerFails, Connect
    <2> QED  BY <1>3, <1>5, <1>7, <1>12, <2>1 DEF Later
  <1>13. CASE \/ ProvideSkip \/ ProvideRejected \/ ProvidesDone \/ NoCustomLogger
              \/ CustomLogger \/ CustomLoggerError \/ CheckErr \/ InvokeNext
              \/ InvokesDone \/ InvokeOk \/ InvokeFails \/ HandleError \/ HandlersDone
    <2>1. /\ container' = container
          /\ pc # "panic" /\ pc' # "panic"
          /\ pc' = pc \/ pc' \notin {"options", "provides"}
          /\ pc' = "logger" => pc = "provides"
          /\ pc = pc' => ~ (\/ ProvidesDone \/ CustomLogger \/ InvokeNext \/ InvokeFails
                            \/ CustomLoggerError)
      BY <1>13 DEF ProvideSkip, ProvideRejected, ProvidesDone, NoCustomLogger,
         CustomLogger, CustomLoggerError, CheckErr, InvokeNext, InvokesDone, InvokeOk,
         InvokeFails, HandleError, HandlersDone, Elsewhere, Providing
    <2>2. ~ ProvidePanic /\ ~ ProvideOk
      <3>1. n \in Nat /\ Len(AllProvides) \in Nat
        BY <1>1, ProvideTypes, LenProperties DEF TypeOK
      <3> QED  BY <1>13, <3>1 DEF ProvideSkip, ProvideRejected, ProvidesDone,
         NoCustomLogger, CustomLogger, CustomLoggerError, CheckErr, InvokeNext,
         InvokesDone, InvokeOk, InvokeFails, HandleError, HandlersDone, Providing,
         ProvidePanic, ProvideOk, Accepts
    <2>3. CASE emitted' = emitted
      BY <1>3, <1>5, <1>7, <1>13, <2>1, <2>3 DEF Later
    <2>4. ASSUME NEW e \in Events, emitted' = Append(emitted, e),
                 e.type \notin {"Provide", "Supply"},
                 \/ ProvidesDone \/ CustomLogger \/ InvokeNext \/ InvokeFails
                 \/ CustomLoggerError
          PROVE  ContainerInv'
      BY <1>3, <1>4, <1>7, <1>13, <2>1, <2>4 DEF Later
    <2> QED  BY <2>2, <2>3, <2>4, EmittedGrows
  <1>14. CASE UNCHANGED vars
    <2>1. Ctor' = Ctor
      BY <1>14 DEF vars, Ctor
    <2> QED  BY <1>3, <1>5, <1>14, <2>1 DEF vars, bufferVars
  <1>15. BuildLoggerFails => container' \in {container, WithCtor}
    BY DEF BuildLoggerFails
  <1> QED
    BY <1>6, <1>8, <1>9, <1>10, <1>11, <1>12, <1>13, <1>14, <1>15 DEF Next, Apply
-----------------------------------------------------------------------------
(* What the options have collected is done, in order.                       *)

\* The first k constructors that were asked for are in cs, in order.
InOrder(cs, ps, k) ==
    k <= Len(cs) /\ k <= Len(ps) /\ \A i \in 1..k : cs[i] = ps[i].target

\* s is the first k elements of t.
FirstOf(s, t, k) == Len(s) = k /\ k <= Len(t) /\ \A i \in 1..k : s[i] = t[i]

InvokeFailed(es) == \E i \in 1..Len(es) : es[i].type = "InvokeError"

Progress ==
    /\ pc \in {"options", "provides", "logger", "custom", "noCustom", "check"} =>
          called = <<>>
    /\ pc = "options" => container = <<>> /\ n = 1
    /\ pc = "provides" /\ app.err = <<>> =>
          Len(container) = n - 1 /\ InOrder(container, AllProvides, n - 1)
    /\ pc \in {"invokes", "invoking"} =>
          app.validate \/ FirstOf(called, app.invokes, n - 1)
    /\ pc = "done" /\ app.err = <<>> => app.validate \/ called = app.invokes

HandlersProgress ==
    /\ pc = "handle" => FirstOf(heard, app.errorHooks, n - 1)
    /\ pc = "done" =>
          heard = IF InvokeFailed(emitted) THEN app.errorHooks ELSE <<>>
    /\ pc \notin {"handle", "done"} => heard = <<>>
    /\ pc \notin {"handle", "done"} => ~ InvokeFailed(emitted)
    /\ pc = "handle" => InvokeFailed(emitted)

\* One constructor more.
LEMMA InOrderNext ==
    ASSUME NEW cs \in Seq(Functions), NEW ps \in Seq(Entries), NEW k \in Nat,
           InOrder(cs, ps, k), NEW f \in Functions,
           k + 1 <= Len(ps), k = Len(cs), f = ps[k + 1].target
    PROVE  InOrder(Append(cs, f), ps, k + 1)
  <1>1. /\ Len(Append(cs, f)) = Len(cs) + 1 /\ Len(cs) \in Nat /\ Len(ps) \in Nat
        /\ \A i \in 1..Len(cs) : Append(cs, f)[i] = cs[i]
        /\ Append(cs, f)[Len(cs) + 1] = f
    BY AppendProperties, LenProperties
  <1> QED  BY <1>1 DEF InOrder

\* One element more of a sequence that is walked, and the end of the walk.
LEMMA FirstOfNext ==
    ASSUME NEW S, NEW s \in Seq(S), NEW t \in Seq(S), NEW k \in Nat, FirstOf(s, t, k)
    PROVE  /\ k < Len(t) => FirstOf(Append(s, t[k + 1]), t, k + 1)
           /\ k >= Len(t) => s = t
  <1>1. Len(s) \in Nat /\ Len(t) \in Nat
    BY LenProperties
  <1>2. ASSUME k < Len(t)  PROVE FirstOf(Append(s, t[k + 1]), t, k + 1)
    <2>1. t[k + 1] \in S
      BY <1>1, <1>2, ElementOfSeq
    <2>2. /\ Len(Append(s, t[k + 1])) = Len(s) + 1
          /\ \A i \in 1..Len(s) : Append(s, t[k + 1])[i] = s[i]
          /\ Append(s, t[k + 1])[Len(s) + 1] = t[k + 1]
      BY <2>1, AppendProperties
    <2> QED  BY <1>1, <1>2, <2>2 DEF FirstOf
  <1>3. ASSUME k >= Len(t)  PROVE s = t
    <2>1. Len(s) = Len(t) /\ \A i \in 1..Len(s) : s[i] = t[i]
      BY <1>1, <1>3 DEF FirstOf
    <2> QED  BY <2>1, SeqEqual
  <1> QED  BY <1>2, <1>3

\* Each step goes one further in what the options ask for.
LEMMA StepProgress ==
    ASSUME TypeOK, ErrorsAreKnown, Progress, [Next]_vars
    PROVE  Progress'
  <1>0. /\ app \in AppType /\ container \in Seq(Functions) /\ n \in Nat \ {0}
        /\ AllProvides \in Seq(Entries) /\ Len(AllProvides) \in Nat
        /\ app.invokes \in Seq(Functions) /\ called \in Seq(Functions)
        /\ Len(app.invokes) \in Nat
    BY AppFields, ProvideTypes, LenProperties DEF TypeOK
  <1>1. CASE Apply
    BY <1>1, ApplySteps DEF Progress
  <1>2. Later => /\ AllProvides' = AllProvides /\ app'.invokes = app.invokes
                 /\ app'.validate = app.validate /\ pc' # "options"
    BY AskedIsKept
  <1>3. app.err # <<>> => app'.err # <<>>
    BY ErrGrows
  <1> USE DEF Later
  <1>4. CASE Prepare
    <2>1. InOrder(<<>>, AllProvides, 0)
      BY <1>0 DEF InOrder
    <2> QED  BY <1>2, <1>4, <2>1 DEF Prepare, Progress, Elsewhere
  <1>5. CASE ProvideSkip
    BY <1>0, <1>2, <1>3, <1>5 DEF ProvideSkip, Providing, Progress, Elsewhere
  <1>6. CASE ProvideRejected
    <2>1. app'.err # <<>>
      BY <1>0, <1>6 DEF ProvideRejected, AppType
    <2> QED
      BY <1>0, <1>2, <1>6, <2>1 DEF ProvideRejected, Providing, Progress, Elsewhere
  <1>7. CASE ProvidePanic
    BY <1>7 DEF ProvidePanic, Progress
  <1>8. CASE ProvideOk
    <2>1. /\ n \in 1..Len(AllProvides) /\ Target \in Functions
          /\ app.err = <<>> /\ pc = "provides" /\ pc' = pc /\ n' = n + 1
          /\ container' = Append(container, Target) /\ app' = app /\ called' = called
      BY <1>8, TargetTypes DEF ProvideOk, Providing
    <2>2. Len(container) = n - 1 /\ InOrder(container, AllProvides, n - 1)
          /\ called = <<>>
      BY <2>1 DEF Progress
    <2>3. /\ InOrder(container', AllProvides, (n - 1) + 1)
          /\ Len(container') = Len(container) + 1
      BY <1>0, <2>1, <2>2, InOrderNext, AppendProperties DEF Target
    <2>4. (n - 1) + 1 = n' - 1
      BY <1>0, <2>1
    <2> QED  BY <1>0, <1>2, <1>8, <2>1, <2>2, <2>3, <2>4 DEF Progress
  <1>9. CASE ProvidesDone
    <2>1. /\ pc = "provides" /\ pc' = "logger" /\ n > Len(AllProvides) /\ app' = app
          /\ container' = container /\ called' = called
      BY <1>9 DEF ProvidesDone, Elsewhere
    <2> QED  BY <1>2, <1>9, <2>1 DEF Progress
  <1>10. CASE BuildLogger \/ BuildLoggerDry
    BY <1>10 DEF BuildLogger, BuildLoggerDry, Progress
  <1>11. CASE BuildLoggerFails
    <2>1. app'.err = Append(app.err, "logger") /\ app.err \in Seq(AllErrors)
          /\ "logger" \in AllErrors
      BY <1>0, <1>11, AppFields DEF BuildLoggerFails, AppType, AllErrors
    <2>2. app'.err # <<>>
      BY <2>1, AppendProperties
    <2> QED  BY <1>11, <2>2 DEF BuildLoggerFails, Progress
  <1>12. CASE NoCustomLogger \/ CustomLogger
    BY <1>2, <1>12 DEF NoCustomLogger, CustomLogger, Progress, Elsewhere
  <1>13. CASE CustomLoggerError
    BY <1>2, <1>13 DEF CustomLoggerError, Progress, Elsewhere, ErrorsAreKnown
  <1>14. CASE CheckErr
    <2>1. FirstOf(<<>>, app.invokes, 0)
      BY <1>0 DEF FirstOf
    <2> QED  BY <1>2, <1>14, <2>1 DEF CheckErr, Progress, Elsewhere
  <1>15. CASE InvokeNext
    BY <1>2, <1>15 DEF InvokeNext, Progress, Elsewhere
  <1>16. CASE InvokesDone
    <2>1. app.validate \/ called = app.invokes
      <3>1. app.validate \/ FirstOf(called, app.invokes, n - 1)
        BY <1>16 DEF InvokesDone, Progress
      <3>2. n - 1 \in Nat /\ n - 1 >= Len(app.invokes)
        BY <1>0, <1>16 DEF InvokesDone
      <3> QED  BY <1>0, <3>1, <3>2, FirstOfNext
    <2> QED  BY <1>2, <1>16, <2>1 DEF InvokesDone, Progress, Elsewhere
  <1>17. CASE InvokeOk
    <2>1. /\ pc = "invoking" /\ pc' = "invokes" /\ n' = n + 1 /\ app' = app
          /\ container' = container /\ InvokeCalls /\ Fn.form = "func"
          /\ CanCall(container, Fn) /\ n <= Len(app.invokes)
      BY <1>17 DEF InvokeOk, Succeeds, TypeOK
    <2>2. app.validate \/ FirstOf(called', app.invokes, (n - 1) + 1)
      <3>1. app.validate \/ called' = Append(called, app.invokes[(n - 1) + 1])
        BY <1>0, <2>1 DEF InvokeCalls, Fn
      <3>2. app.validate \/ FirstOf(called, app.invokes, n - 1)
        BY <2>1 DEF Progress
      <3> DEFINE k == n - 1
      <3>3. k \in Nat /\ k < Len(app.invokes)
        BY <1>0, <2>1
      <3> HIDE DEF k
      <3>4. FirstOf(called, app.invokes, k) =>
               FirstOf(Append(called, app.invokes[k + 1]), app.invokes, k + 1)
        BY <1>0, <3>3, FirstOfNext
      <3> QED  BY <3>1, <3>2, <3>4 DEF k
    <2>3. (n - 1) + 1 = n' - 1
      BY <1>0, <2>1
    <2> QED  BY <1>2, <1>17, <2>1, <2>2, <2>3 DEF Progress
  <1>18. CASE InvokeFails
    <2>1. pc' = "handle"
      BY <1>18 DEF InvokeFails
    <2> QED  BY <2>1 DEF Progress
  <1>19. CASE HandleError
    BY <1>19 DEF HandleError, Progress
  <1>20. CASE HandlersDone
    <2>1. app.err # <<>> /\ app' = app /\ pc' = "done"
      BY <1>20 DEF HandlersDone, ErrorsAreKnown
    <2> QED  BY <2>1 DEF Progress
  <1>21. CASE UNCHANGED vars
    BY <1>21 DEF vars, Progress, AllProvides
  <1> QED
    BY <1>1, <1>4, <1>5, <1>6, <1>7, <1>8, <1>9, <1>10, <1>11, <1>12, <1>13, <1>14,
       <1>15, <1>16, <1>17, <1>18, <1>19, <1>20, <1>21 DEF Next, Apply

\* The handlers hear of a failed invoke, one after the other.
LEMMA StepHandlers ==
    ASSUME TypeOK, HandlersProgress, [Next]_vars
    PROVE  HandlersProgress'
  <1>0. /\ app \in AppType /\ n \in Nat \ {0} /\ emitted \in Seq(Events)
        /\ app.errorHooks \in Seq(Handlers) /\ heard \in Seq(Handlers)
        /\ Len(app.errorHooks) \in Nat
    BY AppFields, LenProperties DEF TypeOK, BufferType
  <1>1. ASSUME NEW e \in Events, emitted' = Append(emitted, e)
        PROVE  InvokeFailed(emitted') <=>
                  InvokeFailed(emitted) \/ e.type = "InvokeError"
    <2>1. /\ Len(emitted') = Len(emitted) + 1 /\ Len(emitted) \in Nat
          /\ \A i \in 1..Len(emitted) : emitted'[i] = emitted[i]
          /\ emitted'[Len(emitted) + 1] = e
      BY <1>0, <1>1, AppendProperties, LenProperties
    <2> QED  BY <2>1 DEF InvokeFailed
  <1>2. ~ InvokeFails => (InvokeFailed(emitted') <=> InvokeFailed(emitted))
    <2>1. CASE emitted' = emitted
      BY <2>1 DEF InvokeFailed
    <2>2. ASSUME NEW e \in Events, emitted' = Append(emitted, e),
                 e.type = "InvokeError" => InvokeFails, ~ InvokeFails
          PROVE  InvokeFailed(emitted') <=> InvokeFailed(emitted)
      BY <1>1, <2>2
    <2> QED  BY <2>1, <2>2, EmittedGrows
  <1>3. Later => app'.errorHooks = app.errorHooks /\ pc' # "options"
    BY AskedIsKept
  <1>4. CASE Apply
    BY <1>4, ApplySteps DEF HandlersProgress
  <1>5. CASE InvokeFails
    <2>1. Event("InvokeError", Fn) \in Events
      BY <1>5, FnTypes, EventTypes DEF InvokeFails, TypeOK, Types
    <2>2. InvokeFailed(emitted')
      BY <1>1, <1>5, <2>1 DEF InvokeFails, Log, Event
    <2>3. heard' = <<>> /\ pc' = "handle" /\ n' = 1
      BY <1>5 DEF InvokeFails, HandlersProgress
    <2>4. FirstOf(heard', app'.errorHooks, n' - 1)
      BY <1>0, <1>3, <1>5, <2>3 DEF FirstOf, Later
    <2> QED  BY <2>2, <2>3, <2>4 DEF HandlersProgress
  <1>6. CASE HandleError
    <2> DEFINE k == n - 1
    <2>1. k \in Nat /\ k < Len(app.errorHooks) /\ n = k + 1 /\ n' - 1 = k + 1
      BY <1>0, <1>6 DEF HandleError
    <2> HIDE DEF k
    <2>2. /\ pc = "handle" /\ pc' = pc /\ app' = app
          /\ heard' = Append(heard, app.errorHooks[k + 1])
      BY <1>6, <2>1 DEF HandleError
    <2>3. FirstOf(heard, app.errorHooks, k)
      BY <2>2 DEF HandlersProgress, k
    <2>4. FirstOf(heard', app.errorHooks, k + 1)
      BY <1>0, <2>1, <2>2, <2>3, FirstOfNext
    <2>5. InvokeFailed(emitted')
      BY <1>2, <2>2 DEF HandlersProgress, InvokeFails
    <2> QED  BY <2>1, <2>2, <2>4, <2>5 DEF HandlersProgress
  <1>7. CASE HandlersDone
    <2>1. n - 1 \in Nat /\ n - 1 >= Len(app.errorHooks)
      BY <1>0, <1>7 DEF HandlersDone
    <2>2. FirstOf(heard, app.errorHooks, n - 1) /\ InvokeFailed(emitted)
      BY <1>7 DEF HandlersDone, HandlersProgress
    <2>3. heard = app.errorHooks
      BY <1>0, <2>1, <2>2, FirstOfNext
    <2> QED
      BY <1>7, <2>2, <2>3 DEF HandlersDone, HandlersProgress, Elsewhere, bufferVars
  <1>8. CASE Later /\ ~ InvokeFails /\ ~ HandleError /\ ~ HandlersDone
    <2>1. heard' = heard /\ pc # "handle" /\ pc' # "handle" /\ pc # "done"
      BY <1>8 DEF Later, Prepare, ProvideSkip, ProvideRejected,
           ProvidePanic, ProvideOk, ProvidesDone, NoCustomLogger, BuildLogger,
           BuildLoggerDry, BuildLoggerFails, CustomLogger, CustomLoggerError, CheckErr,
           InvokeNext, InvokesDone, InvokeOk, Elsewhere, Providing
    <2> QED  BY <1>2, <1>8, <2>1 DEF HandlersProgress
  <1>9. CASE UNCHANGED vars
    BY <1>9 DEF vars, bufferVars, HandlersProgress
  <1> QED  BY <1>4, <1>5, <1>6, <1>7, <1>8, <1>9, NextSplits

-----------------------------------------------------------------------------
(* The invariant and what follows from it. *)

NewInv ==
    /\ TypeOK /\ FallbackReady
    /\ OneLogger /\ DryRunKnown /\ NothingCalled
    /\ ErrorsAreKnown /\ ContainerInv
    /\ Progress /\ HandlersProgress

\* The invariant holds when New is called,
LEMMA InitInv == ASSUME Init  PROVE NewInv
  <1>1. OneLogger
    BY DEF Init, OneLogger, Direct, Held, Sinks
  <1>2. NothingCalled
    BY DEF Init, NothingCalled
  <1>3. ErrorsAreKnown
    BY DEF Init, ErrorsAreKnown
  <1>4. ContainerInv
    BY DEF Init, ContainerInv, Logged
  <1>5. Progress
    BY DEF Init, Progress
  <1>6. HandlersProgress
    BY DEF Init, HandlersProgress, InvokeFailed
  <1> QED  BY <1>1, <1>2, <1>3, <1>4, <1>5, <1>6, InitTypes, InitDryRun DEF NewInv

\* and every step of New keeps it.
LEMMA StepInv == ASSUME NewInv, [Next]_vars  PROVE NewInv'
  BY StepTypes, StepLoggers, StepDryRun, StepNothingCalled, StepErrors, StepContainer,
     StepProgress, StepHandlers DEF NewInv

\* New keeps its invariant, for any options.
THEOREM NewInvariant == Spec => []NewInv
  <1>1. Init => NewInv
    BY InitInv
  <1>2. NewInv /\ [Next]_vars => NewInv'
    BY StepInv
  <1> QED  BY <1>1, <1>2, PTL DEF Spec

\* Whatever fails, the events are with one logger, each once and in order, and none is
\* left in the buffer (src/log.go) except by a dry run.
THEOREM EveryEventDelivered == Spec => []EventsDelivered
  <1>1. ASSUME NewInv  PROVE EventsDelivered
    <2>1. /\ out \in [Sinks -> Seq(Events)] /\ emitted \in Seq(Events)
          /\ OneLogger /\ DryRunKnown
      BY <1>1 DEF NewInv, TypeOK, BufferType
    <2>2. CASE Direct
      <3>1. out[app.log] \o buffer.events = emitted
        BY <2>1, <2>2, ConcatEmptySeq DEF Direct
      <3> QED  BY <2>2, <3>1 DEF Direct, EventsDelivered
    <2>3. CASE Held
      <3>1. out["stderr"] \o buffer.events = emitted /\ "stderr" \in Sinks
        BY <2>1, <2>3, ConcatEmptySeq DEF Held, Sinks
      <3>2. pc = "done" => DryRun
        BY <2>1, <2>3 DEF OneLogger, DryRunKnown
      <3> QED  BY <2>3, <3>1, <3>2 DEF Held, EventsDelivered
    <2> QED  BY <2>1, <2>2, <2>3 DEF OneLogger
  <1> QED  BY <1>1, NewInvariant, PTL

\* An error that New has met stays the first thing that Err() tells.
THEOREM ErrorsStay == Spec => ErrorsKept
  <1>1. ASSUME NewInv, [Next]_vars  PROVE [IsPrefix(app.err, app'.err)]_vars
    BY <1>1, ErrGrows DEF NewInv
  <1> QED  BY <1>1, NewInvariant, PTL DEF Spec, ErrorsKept

\* A function is invoked only when nothing has failed before.
THEOREM NothingInvokedAfterError == Spec => InvokesNeedCleanApp
  <1> DEFINE Clean == called' # called =>
                /\ app.err = <<>> /\ heard = <<>>
                /\ \A i \in 1..Len(emitted) : emitted[i].type \notin
                      {"ProvideError", "CustomLoggerError", "InvokeError"}
  <1>1. ASSUME NewInv, [Next]_vars  PROVE [Clean]_vars
    <2>1. called' # called => pc = "invoking"
      <3>1. CASE Apply
        BY <3>1, ApplySteps, <1>1 DEF NewInv
      <3>2. CASE Later
        BY <3>2 DEF Later, Prepare, ProvideSkip, ProvideRejected,
           ProvidePanic, ProvideOk, ProvidesDone, NoCustomLogger, BuildLogger,
           BuildLoggerDry, BuildLoggerFails, CustomLogger, CustomLoggerError, CheckErr,
           InvokeNext, InvokesDone, InvokeOk, InvokeFails, HandleError, HandlersDone,
           Elsewhere
      <3> QED  BY <1>1, <3>1, <3>2, NextSplits DEF vars
    <2> QED  BY <1>1, <2>1 DEF NewInv, ErrorsAreKnown, Failed
  <1> QED  BY <1>1, NewInvariant, PTL DEF Spec, InvokesNeedCleanApp

\* The Provide and Supply events are what the container holds, one each, in order.
THEOREM ContainerLogged == Spec => []ContainerIsLogged
  <1>1. ASSUME NewInv  PROVE ContainerIsLogged
    <2>1. ASSUME NEW k \in 0..Len(container), Logged(emitted, container, k)
          PROVE  /\ {i \in 1..Len(emitted) : emitted[i].type \in {"Provide", "Supply"}}
                       = 1..k
                 /\ \A i \in 1..k : emitted[i].of = container[i]
      <3>1. Len(emitted) \in Nat /\ k \in Nat
        BY <1>1, LenProperties DEF NewInv, TypeOK, BufferType
      <3> QED  BY <2>1, <3>1 DEF Logged
    <2>2. CASE pc = "panic"
      <3>1. NilLogged(emitted, container) /\ Len(container) \in Nat
        BY <1>1, <2>2, LenProperties DEF NewInv, ContainerInv, TypeOK
      <3> QED  BY <2>2, <3>1 DEF NilLogged, ContainerIsLogged
    <2>3. CASE pc # "panic"
      <3>1. PICK k \in 0..Len(container) :
               /\ Logged(emitted, container, k)
               /\ Len(container) <= k + 1
               /\ Len(container) = k + 1 => container[k + 1] = Ctor
        BY <1>1, <2>3 DEF NewInv, ContainerInv
      <3> QED  BY <2>1, <2>3, <3>1 DEF ContainerIsLogged
    <2> QED  BY <2>2, <2>3
  <1> QED  BY <1>1, NewInvariant, PTL

\* ValidateApp calls no function and builds no logger, whatever options it is given.
THEOREM DryRunIsDry == Spec => []DryRunCallsNothing
  <1>1. ASSUME NewInv  PROVE DryRunCallsNothing
    <2>1. ASSUME DryRun  PROVE called = <<>> /\ app.log # "custom"
      BY <1>1, <2>1 DEF NewInv, DryRunKnown, NothingCalled
    <2>2. ASSUME app.log # "custom"  PROVE out["custom"] = <<>>
      BY <1>1, <2>2 DEF NewInv, OneLogger, Direct, Held, Sinks
    <2> QED  BY <2>1, <2>2 DEF DryRunCallsNothing
  <1> QED  BY <1>1, NewInvariant, PTL

=============================================================================
