------------------------------- MODULE AppProofs -------------------------------
(***************************************************************************)
(* Theorems about App: what holds for every client, also one whose calls    *)
(* overlap, and what the client that waits for its calls can rely on, for   *)
(* any number of calls and hooks.                                          *)
(***************************************************************************)
EXTENDS App, LifecycleProofs

USE ProcsAssumption, MaxHooksAssumption, KindsAssumption, FailuresAssumption,
    EndingsAssumption

-----------------------------------------------------------------------------
(* Any client: it makes any call at any time. *)

AnyCall == \E k \in Procs, o \in {"start", "stop"} : Call(k, o)
AnyNext == AnyCall \/ Body
AnySpec == AppInit /\ [][AnyNext]_appVars

\* The clients of App are clients.
LEMMA Clients ==
    /\ PatientSpec => AnySpec
    /\ HastySpec => AnySpec
  <1>1. [PatientNext]_appVars => [AnyNext]_appVars
    BY DEF PatientNext, PatientCall, AnyNext, AnyCall
  <1>2. [HastyNext]_appVars => [AnyNext]_appVars
    BY DEF HastyNext, HastyCall, AnyNext, AnyCall
  <1> QED  BY <1>1, <1>2, PTL DEF PatientSpec, HastySpec, AnySpec

\* What the steps of the calls do to the lifecycle.
LEMMA LifecycleSteps ==
    ASSUME [AnyNext]_appVars
    PROVE  \/ UNCHANGED vars
           \/ \E h \in Kinds : AppendHook(h)
           \/ \E k \in Procs : CallStart(k) \/ CallStop(k) \/ Step(k)
  <1>1. ASSUME NEW k \in Procs, GoroutineStep(k)
        PROVE  UNCHANGED vars \/ CallStart(k) \/ CallStop(k) \/ Step(k)
    BY <1>1 DEF GoroutineStep, ShortCircuit, Enter, StartOk, StartFailed,
                RollbackDone, StopDone, Send, Step
  <1>2. ASSUME NEW k \in Procs, CallerStep(k)  PROVE UNCHANGED vars
    BY <1>2 DEF CallerStep, SelectCtx, SelectChan, ReadRecords, ReadRunning
  <1>3. ASSUME NEW k \in Procs, CallbackReturns(k)  PROVE Step(k)
    BY <1>3 DEF CallbackReturns, Step
  <1>4. Environment => UNCHANGED vars \/ \E h \in Kinds : AppendHook(h)
    BY DEF Environment, CtxEnds
  <1>5. AnyCall => UNCHANGED vars
    BY DEF AnyCall, Call
  <1>6. UNCHANGED appVars => UNCHANGED vars
    BY DEF appVars
  <1> QED  BY <1>1, <1>2, <1>3, <1>4, <1>5, <1>6 DEF AnyNext, Body

-----------------------------------------------------------------------------
(* Types. *)

\* What a step of one call does to the calls' own variables keeps their types.
CallTypes ==
    /\ appErr \in {"nil", "fail", "deadline"}
    /\ op \in [Procs -> {"none", "start", "stop"}]
    /\ caller \in [Procs -> CallerPC]
    /\ ctx \in [Procs -> CtxState]
    /\ chan \in [Procs -> Error \cup {"empty"}]
    /\ stage \in [Procs -> Stage]
    /\ startErr \in [Procs -> Error]
    /\ result \in [Procs -> Error \cup {"none", "canceled"}]
    /\ listed \in [Procs -> SUBSET Nat]
    /\ blamed \in [Procs -> Nat]

\* The goroutine of a call keeps them.
LEMMA GoroutineType ==
    ASSUME TypeOK, CallTypes, NEW k \in Procs, GoroutineStep(k)
    PROVE  CallTypes'
  <1> USE DEF CallTypes, Stage
  <1>0. ret[k] \in Error
    BY DEF TypeOK
  <1>1. ASSUME NEW e \in Error, Send(k, e)  PROVE CallTypes'
    BY <1>1 DEF Send
  <1>2. CASE ShortCircuit(k)
    BY <1>1, <1>2 DEF ShortCircuit, Error
  <1>3. CASE Enter(k)
    BY <1>3 DEF Enter
  <1>4. CASE StartOk(k)
    BY <1>1, <1>4 DEF StartOk, Error
  <1>5. CASE StartFailed(k)
    BY <1>0, <1>5 DEF StartFailed
  <1>6. CASE RollbackDone(k)
    <2>1. Combine(startErr[k], ret[k]) \in Error
      BY <1>0, CombineError
    <2> QED  BY <1>1, <1>6, <2>1 DEF RollbackDone
  <1>7. CASE StopDone(k)
    BY <1>0, <1>1, <1>7 DEF StopDone
  <1>8. CASE UNCHANGED <<appErr, callVars>>
    BY <1>8 DEF callVars
  <1> QED  BY <1>2, <1>3, <1>4, <1>5, <1>6, <1>7, <1>8 DEF GoroutineStep

\* The records and the hook that a timeout report reads are positions.
LEMMA ReportTypes ==
    ASSUME TypeOK
    PROVE  /\ \A records \in StartRecordsRead : records \subseteq Nat
           /\ StopHookRecords \subseteq Nat /\ RunningHookCaller \in Nat
  <1>1. \A i \in 1..Len(startRecords) : startRecords[i] \in Nat
    BY DEF TypeOK
  <1>2. \A i \in 1..Len(stopRecords) : stopRecords[i] \in Nat
    BY DEF TypeOK
  <1>3. RunningHookCaller \in Nat
    BY DEF TypeOK, RunningHookCaller
  <1> QED  BY <1>1, <1>2, <1>3 DEF StartRecordsRead, StartHookRecords,
                                   StopHookRecords

\* The caller of a call keeps them.
LEMMA CallerType ==
    ASSUME TypeOK, CallTypes, NEW k \in Procs, CallerStep(k)
    PROVE  CallTypes'
  <1> USE DEF CallTypes, CallerPC
  <1>1. CASE SelectCtx(k)
    <2>1. ctx[k] \in {"deadline", "canceled"}
      BY <1>1 DEF SelectCtx, CtxState
    <2> QED  BY <1>1, <2>1 DEF SelectCtx, Answer
  <1>2. CASE SelectChan(k)
    <2>1. chan[k] \in Error
      BY <1>2 DEF SelectChan
    <2> QED  BY <1>2, <2>1 DEF SelectChan, Answer
  <1>3. CASE ReadRecords(k)
    <2>1. PICK records \in IF op[k] = "start" THEN StartRecordsRead
                                              ELSE {StopHookRecords} :
             listed' = [listed EXCEPT ![k] = records]
      BY <1>3 DEF ReadRecords
    <2>2. records \in SUBSET Nat
      BY ReportTypes, <2>1
    <2>3. listed' \in [Procs -> SUBSET Nat]
      BY <2>1, <2>2
    <2> QED  BY <1>3, <2>3 DEF ReadRecords
  <1>4. CASE ReadRunning(k)
    BY <1>4, ReportTypes DEF ReadRunning, Error
  <1> QED  BY <1>1, <1>2, <1>3, <1>4 DEF CallerStep

\* Every step of every client keeps the types.
LEMMA AppStepType ==
    ASSUME AppTypeOK, [AnyNext]_appVars
    PROVE  AppTypeOK'
  <1>1. TypeOK /\ CallTypes
    BY DEF AppTypeOK, CallTypes
  <1>2. TypeOK'
    <2>1. CASE UNCHANGED vars
      BY <1>1, <2>1 DEF TypeOK, vars, shared, frame
    <2>2. CASE \E h \in Kinds : AppendHook(h)
      BY <1>1, <2>2, AppendHookType
    <2>3. CASE \E k \in Procs : CallStart(k) \/ CallStop(k) \/ Step(k)
      BY <1>1, <2>3, StartStepType, StopStepType DEF Step, OwnStep, HookReturns
    <2> QED  BY <2>1, <2>2, <2>3, LifecycleSteps
  <1>3. CallTypes'
    <2>1. CASE UNCHANGED <<appErr, callVars>>
      BY <1>1, <2>1 DEF CallTypes, callVars
    <2>2. ASSUME NEW k \in Procs, NEW o \in {"start", "stop"}, Call(k, o)
          PROVE  CallTypes'
      BY <1>1, <2>2 DEF Call, CallTypes, CallerPC, Stage
    <2>3. ASSUME NEW k \in Procs, NEW how \in Endings, CtxEnds(k, how)
          PROVE  CallTypes'
      BY <1>1, <2>3 DEF CtxEnds, CallTypes, CtxState
    <2>4. UNCHANGED appVars => UNCHANGED <<appErr, callVars>>
      BY DEF appVars
    <2> QED  BY <1>1, <2>1, <2>2, <2>3, <2>4, GoroutineType, CallerType
             DEF AnyNext, AnyCall, Body, Environment, CallbackReturns
  <1> QED  BY <1>2, <1>3 DEF AppTypeOK, CallTypes

\* The variables of App keep their types for every client.
LEMMA AnyType == AnySpec => []AppTypeOK
  <1>1. AppInit => AppTypeOK
    <2> QED  BY InitType DEF AppInit, AppTypeOK, CallerPC, CtxState, Stage, Error
  <1>2. AppTypeOK /\ [AnyNext]_appVars => AppTypeOK'
    BY AppStepType
  <1> QED  BY <1>1, <1>2, PTL DEF AnySpec

\* Type correctness of App.Start and App.Stop.
THEOREM AppTypes ==
    /\ PatientSpec => []AppTypeOK
    /\ HastySpec => []AppTypeOK
  BY AnyType, Clients

-----------------------------------------------------------------------------
(* The mutex. *)

\* A step of the lifecycle takes the mutex only when it is free, and keeps it
\* only to run the logger.
LEMMA LockStep ==
    ASSUME TypeOK, LockDiscipline, NEW p \in Procs,
           CallStart(p) \/ CallStop(p) \/ Step(p)
    PROVE  LockDiscipline'
  <1> USE DEF TypeOK, Goto, shared, LockDiscipline
  <1>1. CASE StopRecord(p)
    BY <1>1 DEF StopRecord
  <1>2. CASE StopLogged(p)
    BY <1>2 DEF StopLogged
  <1>3. CASE CallStart(p) \/ CallStop(p)
    BY <1>3 DEF CallStart, CallStop
  <1>4. CASE HookReturns(p)
    <2>1. UNCHANGED mu /\ pc[p] # "stopLog" /\ pc'[p] # "stopLog"
          /\ \A q \in Procs : q # p => pc'[q] = pc[q]
      BY <1>4 DEF HookReturns, OnStartOk, OnStartFails, OnStopReturn
    <2> QED  BY <2>1
  <1>5. CASE OwnStep(p) /\ ~ StopRecord(p) /\ ~ StopLogged(p)
    <2>1. UNCHANGED mu /\ pc[p] # "stopLog" /\ pc'[p] # "stopLog"
          /\ \A q \in Procs : q # p => pc'[q] = pc[q]
      BY <1>5 DEF OwnStep, StartEnter, StartSkip, CallOnStart, StartRecord, IncLoad,
           IncStore, StartReturn, StopEnter, StopCheck, StopPick, StopSkip, StopPanic,
           CallOnStop, StopRecordErr, DecLoad, DecStore, StopReturn
    <2> QED  BY <2>1
  <1> QED  BY <1>1, <1>2, <1>3, <1>4, <1>5 DEF Step

\* The mutex is held across steps only by a goroutine whose logger runs, and
\* nobody takes it from that goroutine, whatever calls the client makes.
THEOREM Lock ==
    /\ PatientSpec => []LockDiscipline
    /\ HastySpec => []LockDiscipline
  <1>1. AppInit => LockDiscipline
    <2>1. Init => mu = NoProc /\ \A k \in Procs : pc[k] = "idle"
      BY DEF Init
    <2>2. AppInit => mu = NoProc /\ \A k \in Procs : pc[k] = "idle"
      BY <2>1 DEF AppInit
    <2> QED  BY <2>2, ProcsAssumption DEF LockDiscipline
  <1>2. AppTypeOK /\ LockDiscipline /\ [AnyNext]_appVars => LockDiscipline'
    <2> SUFFICES ASSUME TypeOK, LockDiscipline, [AnyNext]_appVars
                 PROVE  LockDiscipline'
      BY DEF AppTypeOK
    <2>1. CASE UNCHANGED vars \/ \E h \in Kinds : AppendHook(h)
      BY <2>1 DEF vars, shared, frame, AppendHook, LockDiscipline
    <2> QED  BY <2>1, LockStep, LifecycleSteps
  <1> QED  BY <1>1, <1>2, AnyType, Clients, PTL DEF AnySpec

-----------------------------------------------------------------------------
(* Where a goroutine is in the lifecycle, for every client. *)

Open(k) == ~ Settled(k)

\* The part of the lifecycle a goroutine is in belongs to the stage of its call.
PlaceOf(k) ==
    /\ stage[k] \in {"none", "begin", "done"} => pc[k] = "idle"
    /\ stage[k] = "start" => pc[k] \in StartPC \cup {"idle"}
    /\ stage[k] \in {"rollback", "stop"} => pc[k] \in StopPC \cup {"idle", "panic"}
    /\ stage[k] \in {"start", "rollback"} => op[k] = "start"
    /\ stage[k] = "stop" => op[k] = "stop"
    /\ stage[k] # "none" => op[k] # "none"
    /\ caller[k] = "idle" <=> op[k] = "none"
Places == \A k \in Procs : PlaceOf(k)

\* A goroutine moves no other, leaves fresh alone, and stays in the call it is in.
LEMMA StepPlace ==
    ASSUME TypeOK, NEW p \in Procs, Step(p)
    PROVE  /\ pc[p] \in StartPC \cup StopPC
           /\ pc[p] \in StartPC => pc'[p] \in StartPC \cup {"idle"}
           /\ pc[p] \in StopPC => pc'[p] \in StopPC \cup {"idle", "panic"}
           /\ UNCHANGED fresh
  <1> USE DEF TypeOK, Goto, StartPC, StopPC
  <1>1. CASE HookReturns(p)
    BY <1>1 DEF HookReturns, OnStartOk, OnStartFails, OnStopReturn
  <1>2. CASE OwnStep(p)
    BY <1>2 DEF OwnStep, StartEnter, StartSkip, CallOnStart, StartRecord, IncLoad,
         IncStore, StartReturn, StopEnter, StopCheck, StopPick, StopSkip, StopPanic,
         CallOnStop, StopRecord, StopRecordErr, StopLogged, DecLoad, DecStore,
         StopReturn
  <1> QED  BY <1>1, <1>2 DEF Step

\* A step of goroutine q leaves the local variables of every other alone.
LEMMA StepFrame ==
    ASSUME TypeOK, NEW q \in Procs, CallStart(q) \/ CallStop(q) \/ Step(q),
           NEW r \in Procs, r # q
    PROVE  /\ pc'[r] = pc[r] /\ ret'[r] = ret[r] /\ lim'[r] = lim[r]
           /\ pos'[r] = pos[r] /\ reg'[r] = reg[r]
  <1> USE DEF TypeOK, Goto
  <1>1. CASE CallStart(q) \/ CallStop(q)
    BY <1>1 DEF CallStart, CallStop
  <1>2. CASE HookReturns(q)
    BY <1>2 DEF HookReturns, OnStartOk, OnStartFails, OnStopReturn
  <1>3. CASE OwnStep(q)
    BY <1>3 DEF OwnStep, StartEnter, StartSkip, CallOnStart, StartRecord, IncLoad,
         IncStore, StartReturn, StopEnter, StopCheck, StopPick, StopSkip, StopPanic,
         CallOnStop, StopRecord, StopRecordErr, StopLogged, DecLoad, DecStore,
         StopReturn
  <1> QED  BY <1>1, <1>2, <1>3 DEF Step

\* A step of one call is a step of no other, and of no call that is settled.
LEMMA CallStep ==
    ASSUME AppTypeOK, Places, NEW k \in Procs,
           GoroutineStep(k) \/ CallbackReturns(k) \/ CallerStep(k)
    PROVE  /\ Open(k)
           /\ UNCHANGED <<op, appErr>>
           /\ stage'[k] = "begin" => stage[k] = "begin" /\ UNCHANGED fresh
           /\ caller'[k] = "idle" <=> caller[k] = "idle"
           /\ stage'[k] = "none" <=> stage[k] = "none"
           /\ \A j \in Procs : j # k =>
                 /\ caller'[j] = caller[j] /\ stage'[j] = stage[j]
                 /\ chan'[j] = chan[j] /\ startErr'[j] = startErr[j]
                 /\ ctx'[j] = ctx[j]
                 /\ pc'[j] = pc[j] /\ ret'[j] = ret[j] /\ lim'[j] = lim[j]
                 /\ pos'[j] = pos[j] /\ reg'[j] = reg[j]
  <1> USE DEF AppTypeOK
  <1>0. UNCHANGED vars =>
          /\ UNCHANGED fresh
          /\ \A j \in Procs : /\ pc'[j] = pc[j] /\ ret'[j] = ret[j]
                              /\ lim'[j] = lim[j] /\ pos'[j] = pos[j]
                              /\ reg'[j] = reg[j]
    BY DEF vars, frame
  <1>1. CASE CallerStep(k)
    BY <1>0, <1>1 DEF CallerStep, SelectCtx, SelectChan, ReadRecords, ReadRunning,
                      Answer, Open, Settled, Returned
  <1>2. CASE Step(k) /\ UNCHANGED <<appErr, callVars>>
    <2>1. Open(k) /\ stage[k] # "begin"
      BY <1>2, StepPlace DEF Places, PlaceOf, Open, Settled, StartPC, StopPC
    <2> QED  BY <1>2, <2>1, StepFrame DEF callVars
  <1>3. ASSUME NEW e \in Error, Send(k, e)
        PROVE  /\ UNCHANGED <<vars, op, appErr, caller>> /\ stage'[k] = "done"
               /\ \A j \in Procs : j # k =>
                     /\ stage'[j] = stage[j] /\ chan'[j] = chan[j]
                     /\ startErr'[j] = startErr[j] /\ ctx'[j] = ctx[j]
    BY <1>3 DEF Send
  <1>4. CASE ShortCircuit(k)
    BY <1>0, <1>3, <1>4 DEF ShortCircuit, Error, Open, Settled
  <1>5. CASE StartOk(k)
    BY <1>0, <1>3, <1>5 DEF StartOk, Error, Open, Settled
  <1>6. CASE RollbackDone(k)
    <2>1. Combine(startErr[k], ret[k]) \in Error
      BY CombineError DEF TypeOK
    <2> QED  BY <1>0, <1>3, <1>6, <2>1 DEF RollbackDone, Open, Settled
  <1>7. CASE StopDone(k)
    <2>1. ret[k] \in Error
      BY DEF TypeOK
    <2> QED  BY <1>0, <1>3, <1>7, <2>1 DEF StopDone, Open, Settled
  <1>8. CASE Enter(k)
    <2>1. CallStart(k) \/ CallStop(k)
      BY <1>8 DEF Enter
    <2>2. /\ UNCHANGED <<op, appErr, caller, chan, startErr, ctx>>
          /\ stage[k] = "begin" /\ stage' = [stage EXCEPT ![k] = op[k]]
          /\ op[k] \in {"start", "stop"}
      BY <1>8 DEF Enter
    <2> QED  BY <2>1, <2>2, StepFrame DEF Open, Settled
  <1>9. CASE StartFailed(k)
    <2>1. CallStop(k)
      BY <1>9 DEF StartFailed
    <2> QED  BY <1>9, <2>1, StepFrame DEF StartFailed, Open, Settled
  <1> QED  BY <1>1, <1>2, <1>4, <1>5, <1>6, <1>7, <1>8, <1>9
           DEF GoroutineStep, CallbackReturns, Step

\* Every step of every client keeps goroutines where they belong.
LEMMA PlacesStep ==
    ASSUME AppTypeOK, Places, [AnyNext]_appVars
    PROVE  Places'
  <1> USE DEF AppTypeOK
  <1>1. CASE UNCHANGED <<pc, op, caller, stage>>
    BY <1>1 DEF Places, PlaceOf
  <1>2. UNCHANGED appVars \/ Environment => UNCHANGED <<pc, op, caller, stage>>
    BY DEF appVars, vars, frame, callVars, Environment, AppendHook, CtxEnds
  <1>3. ASSUME NEW k \in Procs, NEW o \in {"start", "stop"}, Call(k, o)
        PROVE  Places'
    BY <1>3 DEF Places, PlaceOf, Call, vars, frame
  <1>4. ASSUME NEW k \in Procs,
               GoroutineStep(k) \/ CallbackReturns(k) \/ CallerStep(k)
        PROVE  Places'
    <2>1. \A j \in Procs : j # k => PlaceOf(j)'
      BY <1>4, CallStep DEF Places, PlaceOf
    <2>2. PlaceOf(k)'
      <3>0. PlaceOf(k) /\ op' = op /\ (caller'[k] = "idle" <=> caller[k] = "idle")
        BY <1>4, CallStep DEF Places
      <3>1. CASE CallerStep(k)
        <4>1. UNCHANGED <<pc, stage>>
          BY <3>1 DEF CallerStep, SelectCtx, SelectChan, ReadRecords, ReadRunning,
                      vars, frame
        <4> QED  BY <3>0, <4>1 DEF PlaceOf
      <3>2. CASE Step(k) /\ UNCHANGED <<appErr, callVars>>
        <4>1. UNCHANGED stage
          BY <3>2 DEF callVars
        <4> QED  BY <3>0, <3>2, <4>1, StepPlace DEF PlaceOf, StartPC, StopPC
      <3>3. CASE \E e : stage[k] # "none" /\ pc[k] = "idle" /\ Send(k, e)
        <4>1. UNCHANGED pc /\ stage' = [stage EXCEPT ![k] = "done"]
          BY <3>3 DEF Send, vars, frame
        <4> QED  BY <3>0, <3>3, <4>1 DEF PlaceOf
      <3>4. CASE Enter(k)
        <4>1. stage' = [stage EXCEPT ![k] = op[k]] /\ stage[k] = "begin"
          BY <3>4 DEF Enter
        <4>2. \/ op[k] = "start" /\ pc'[k] = "startEnter"
              \/ op[k] = "stop" /\ pc'[k] = "stopEnter"
          BY <3>4 DEF Enter, CallStart, CallStop, Goto, TypeOK
        <4> QED  BY <3>0, <4>1, <4>2 DEF PlaceOf, StartPC, StopPC
      <3>5. CASE StartFailed(k)
        <4>1. /\ stage[k] = "start" /\ stage' = [stage EXCEPT ![k] = "rollback"]
              /\ pc'[k] = "stopEnter"
          BY <3>5 DEF StartFailed, CallStop, Goto, TypeOK
        <4> QED  BY <3>0, <4>1 DEF PlaceOf, StopPC
      <3>6. ShortCircuit(k) \/ StartOk(k) \/ RollbackDone(k) \/ StopDone(k) =>
              \E e : stage[k] # "none" /\ pc[k] = "idle" /\ Send(k, e)
        BY <3>0 DEF ShortCircuit, StartOk, RollbackDone, StopDone, PlaceOf
      <3> QED  BY <1>4, <3>1, <3>2, <3>3, <3>4, <3>5, <3>6
               DEF GoroutineStep, CallbackReturns, Step
    <2> QED  BY <2>1, <2>2 DEF Places
  <1> QED  BY <1>1, <1>2, <1>3, <1>4 DEF AnyNext, AnyCall, Body

\* Places holds at first and then always, for every client.
LEMMA InitPlaces == AppInit => Places
  <1>1. Init => \A k \in Procs : pc[k] = "idle"
    BY DEF Init
  <1> QED  BY <1>1 DEF AppInit, Places, PlaceOf

\* See InitPlaces.
LEMMA AnyPlaces == AnySpec => []Places
  <1>1. AppTypeOK /\ Places /\ [AnyNext]_appVars => Places'
    BY PlacesStep
  <1> QED  BY <1>1, InitPlaces, AnyType, PTL DEF AnySpec

-----------------------------------------------------------------------------
(* The channel between a goroutine and its caller. *)

\* A channel holds something only when its goroutine is done.
Room == \A k \in Procs : chan[k] # "empty" => stage[k] = "done"

\* Every step of every client keeps that: a goroutine sends last, and a call is
\* made once.
LEMMA RoomStep ==
    ASSUME AppTypeOK, Places, Room, [AnyNext]_appVars
    PROVE  Room'
  <1> USE DEF AppTypeOK, Room
  <1>1. UNCHANGED appVars \/ Environment => UNCHANGED <<chan, stage>>
    BY DEF appVars, callVars, Environment, CtxEnds
  <1>2. ASSUME NEW k \in Procs, NEW o \in {"start", "stop"}, Call(k, o)
        PROVE  Room'
    <2>1. /\ caller[k] = "idle" /\ UNCHANGED chan
          /\ stage' = [stage EXCEPT ![k] = "begin"]
      BY <1>2 DEF Call
    <2>2. chan[k] = "empty"
      BY <2>1 DEF Places, PlaceOf
    <2> QED  BY <2>1, <2>2
  <1>3. ASSUME NEW k \in Procs,
               GoroutineStep(k) \/ CallbackReturns(k) \/ CallerStep(k)
        PROVE  Room'
    <2>1. \A j \in Procs : j # k => chan'[j] = chan[j] /\ stage'[j] = stage[j]
      BY <1>3, CallStep
    <2>2. \/ UNCHANGED <<chan, stage>>
          \/ stage'[k] = "done"
          \/ chan'[k] = "empty"
          \/ stage[k] # "done" /\ UNCHANGED chan
      BY <1>3 DEF GoroutineStep, ShortCircuit, Enter, StartOk, StartFailed,
                  RollbackDone, StopDone, Send, CallbackReturns, callVars,
                  CallerStep, SelectCtx, SelectChan, ReadRecords, ReadRunning
    <2> QED  BY <2>1, <2>2
  <1> QED  BY <1>1, <1>2, <1>3 DEF AnyNext, AnyCall, Body

\* The step that ends a goroutine is its own.
LEMMA DoneByItself ==
    ASSUME AppTypeOK, Places, [AnyNext]_appVars,
           NEW k \in Procs, stage[k] # "done", stage'[k] = "done"
    PROVE  GoroutineStep(k)
  <1>1. ~ AnyCall
    BY DEF AnyCall, Call, AppTypeOK
  <1>2. ~ Environment /\ ~ UNCHANGED stage
    BY DEF Environment, AppendHook, CtxEnds, callVars
  <1>3. PICK j \in Procs : GoroutineStep(j) \/ CallbackReturns(j) \/ CallerStep(j)
    BY <1>1, <1>2 DEF AnyNext, Body, appVars, callVars
  <1>4. j = k
    BY <1>3, CallStep
  <1> QED
    BY <1>2, <1>3, <1>4 DEF CallbackReturns, CallerStep, SelectCtx, SelectChan,
                            ReadRecords, ReadRunning, callVars

\* The send of a goroutine finds the channel empty, so a capacity of 1 is enough for
\* it not to block, for every client: also when the caller has gone.
THEOREM SendHasRoom ==
    AnySpec => [][\A k \in Procs : stage[k] # "done" /\ stage'[k] = "done" =>
                     chan[k] = "empty" /\ chan'[k] # "empty"]_appVars
  <1>1. AppInit => Room
    BY DEF AppInit, Room
  <1>2. AppTypeOK /\ Places /\ Room /\ [AnyNext]_appVars => Room'
    BY RoomStep
  <1>3. ASSUME AppTypeOK, Places, Room, [AnyNext]_appVars,
               NEW k \in Procs, stage[k] # "done", stage'[k] = "done"
        PROVE  chan[k] = "empty" /\ chan'[k] # "empty"
    <2>1. chan[k] = "empty"
      BY <1>3 DEF Room
    <2>2. GoroutineStep(k)
      BY <1>3, DoneByItself
    <2>4. PICK e : Send(k, e) /\ e \in Error
      <3>1. ret[k] \in Error /\ Combine(startErr[k], ret[k]) \in Error
        BY <1>3, CombineError DEF AppTypeOK, TypeOK
      <3>2. appErr \in Error /\ "nil" \in Error
        BY <1>3 DEF AppTypeOK, Error
      <3>3. op[k] # "done" /\ ~ Enter(k) /\ ~ StartFailed(k)
        BY <1>3 DEF AppTypeOK, Enter, StartFailed
      <3>4. ~ UNCHANGED <<appErr, callVars>>
        BY <1>3 DEF callVars
      <3> QED  BY <2>2, <3>1, <3>2, <3>3, <3>4
               DEF GoroutineStep, ShortCircuit, StartOk, RollbackDone, StopDone
    <2> QED  BY <1>3, <2>1, <2>4 DEF Send, AppTypeOK, Error
  <1>4. AppTypeOK /\ Places /\ Room /\ [AnyNext]_appVars =>
          [\A k \in Procs : stage[k] # "done" /\ stage'[k] = "done" =>
              chan[k] = "empty" /\ chan'[k] # "empty"]_appVars
    BY <1>3
  <1> QED  BY <1>1, <1>2, <1>4, AnyType, AnyPlaces, PTL DEF AnySpec

-----------------------------------------------------------------------------
(* The patient client. *)

\* One call at a time is open, and a Start is only on its way when no Start was
\* called since the last Stop.
OneOpen ==
    /\ \A j, k \in Procs : Open(j) /\ Open(k) => j = k
    /\ \A k \in Procs : stage[k] = "begin" /\ op[k] = "start" => fresh

\* So the goroutines of all other calls are out of the lifecycle.
LEMMA OthersAreOut ==
    ASSUME Places, OneOpen, NEW k \in Procs, Open(k)
    PROVE  \A j \in Procs : j # k => Settled(j) /\ pc[j] = "idle"
  BY DEF Places, PlaceOf, OneOpen, Open, Settled

\* Every step of the patient client keeps that.
LEMMA OneOpenStep ==
    ASSUME AppTypeOK, Places, OneOpen, [PatientNext]_appVars
    PROVE  OneOpen'
  <1> USE DEF AppTypeOK
  <1>1. CASE UNCHANGED <<op, caller, stage, fresh>>
    BY <1>1 DEF OneOpen, Open, Settled, Returned
  <1>2. UNCHANGED appVars \/ Environment => UNCHANGED <<op, caller, stage, fresh>>
    BY DEF appVars, vars, callVars, Environment, AppendHook, CtxEnds
  <1>3. CASE PatientCall
    <2>1. PICK k \in Procs : Call(k, "stop") \/ (fresh /\ Call(k, "start"))
      BY <1>3 DEF PatientCall
    <2>2. \A j \in Procs : j # k => Settled(j)'
      BY <1>3, <2>1 DEF PatientCall, Call, Settled, Returned
    <2>3. stage'[k] = "begin" /\ op'[k] = "start" => fresh'
      BY <2>1 DEF Call, vars
    <2> QED  BY <2>2, <2>3 DEF OneOpen, Open, Settled
  <1>4. ASSUME NEW k \in Procs,
               GoroutineStep(k) \/ CallbackReturns(k) \/ CallerStep(k)
        PROVE  OneOpen'
    <2>1. \A j \in Procs : j # k => Settled(j)'
      BY <1>4, CallStep, OthersAreOut DEF Settled, Returned
    <2>2. stage'[k] = "begin" /\ op'[k] = "start" => fresh'
      BY <1>4, CallStep DEF OneOpen
    <2> QED  BY <2>1, <2>2 DEF OneOpen, Open, Settled
  <1> QED  BY <1>1, <1>2, <1>3, <1>4 DEF PatientNext, Body

\* A step of the patient client is a step of the serial client of the lifecycle.
LEMMA SerialStep ==
    ASSUME AppTypeOK, Places, OneOpen, [PatientNext]_appVars
    PROVE  [Next]_vars
  <1>1. CASE Alive /\ Environment
    BY <1>1 DEF Environment, CtxEnds, Next
  <1>2. CASE PatientCall \/ UNCHANGED appVars
    BY <1>2 DEF PatientCall, Call, appVars
  <1>3. ASSUME NEW k \in Procs, CallerStep(k)  PROVE UNCHANGED vars
    BY <1>3 DEF CallerStep, SelectCtx, SelectChan, ReadRecords, ReadRunning
  <1>4. ASSUME NEW k \in Procs, CallbackReturns(k), Alive  PROVE Next
    BY <1>4 DEF CallbackReturns, Next, Step
  <1>5. ASSUME NEW k \in Procs, GoroutineStep(k), Alive  PROVE [Next]_vars
    <2>1. Open(k)
      BY <1>5, CallStep
    <2>2. CASE ShortCircuit(k) \/ StartOk(k) \/ RollbackDone(k) \/ StopDone(k)
      BY <2>2 DEF ShortCircuit, StartOk, RollbackDone, StopDone, Send
    <2>3. CASE OwnStep(k)
      BY <1>5, <2>3 DEF Next, Step
    <2>4. CASE Enter(k) \/ StartFailed(k)
      <3>1. pc[k] = "idle"
        BY <2>4 DEF Enter, StartFailed, Places, PlaceOf
      <3>2. Quiescent
        BY <2>1, <3>1, OthersAreOut DEF Quiescent
      <3>3. (fresh /\ CallStart(k)) \/ CallStop(k)
        BY <2>4 DEF Enter, StartFailed, OneOpen
      <3> QED  BY <1>5, <3>2, <3>3 DEF Next, SerialCall
    <2> QED  BY <1>5, <2>2, <2>3, <2>4 DEF GoroutineStep
  <1> QED  BY <1>1, <1>2, <1>3, <1>4, <1>5 DEF PatientNext, Body

\* What holds whenever a patient client uses the app.
LEMMA PatientInvariants == PatientSpec => [](AppTypeOK /\ Places /\ OneOpen)
  <1>1. AppInit => OneOpen
    BY DEF AppInit, OneOpen, Open, Settled, Returned
  <1>2. AppTypeOK /\ Places /\ OneOpen /\ [PatientNext]_appVars => OneOpen'
    BY OneOpenStep
  <1> QED  BY <1>1, <1>2, AnyType, AnyPlaces, Clients, PTL DEF PatientSpec

\* The lifecycle of a patient client is used as Lifecycle expects, also during a
\* rollback, after a timeout and in the next start.
THEOREM AppIsSerial == PatientSpec => LifecycleIsSerial
  <1>1. AppInit => Init
    BY DEF AppInit
  <1>2. AppTypeOK /\ Places /\ OneOpen /\ [PatientNext]_appVars => [Next]_vars
    BY SerialStep
  <1> QED  BY <1>1, <1>2, PatientInvariants, PTL
           DEF PatientSpec, LifecycleIsSerial, SerialSpec

\* So the hooks of an app that is used patiently go up and come down as HookStack
\* promises, no two callbacks run at once, and Stop does not panic.
THEOREM AppImplementsHookStack ==
    PatientSpec => Promise!Spec /\ []OneHookAtATime /\ []Alive
  <1>1. IInv => OneHookAtATime
    BY DEF IInv, OneHookAtATime, InHook
  <1> QED  BY <1>1, AppIsSerial, Refinement, Inductive, NoPanic, PTL
           DEF LifecycleIsSerial

-----------------------------------------------------------------------------
(* What a patient client is told. *)

\* The error of a failed start and the one of its rollback.
BothErrors(k) == IF ret[k] = "nil" THEN startErr[k] ELSE "multi"

\* The answer that waits for the caller of k is true, and the goroutine of k is
\* about to give a true one.
AnswerOf(k) ==
    /\ chan[k] # "empty" => stage[k] = "done"
    /\ stage[k] = "rollback" => startErr[k] # "nil"
    /\ stage[k] \in {"rollback", "stop"} => fresh
    /\ stage[k] = "start" /\ pc[k] = "idle" /\ ret[k] = "nil" => up = 1..lim[k]
    /\ caller[k] = "select" /\ chan[k] # "empty" =>
          IF op[k] = "start" /\ chan[k] = "nil" THEN up = 1..lim[k] ELSE up = {}
    /\ startErr[k] # "nil" => stage[k] \in {"rollback", "done"}
    /\ startErr[k] # "nil" /\ chan[k] # "empty" => chan[k] = BothErrors(k)
Answers == \A k \in Procs : AnswerOf(k)

\* When nobody is in the lifecycle and it was stopped, or not started yet, nothing
\* is up.
LEMMA DownWhenFresh ==
    ASSUME IInv, Quiescent, fresh
    PROVE  up = {}
  <1>1. numStarted = 0 /\ up = 1..numStarted
    BY DEF IInv
  <1> QED  BY <1>1

\* The goroutine's own step in the lifecycle: Start returns nil only with all its
\* hooks up.
LEMMA AnswerOfStep ==
    ASSUME TypeOK, IInv, NEW k \in Procs, stage[k] \in Stage, PlaceOf(k),
           AnswerOf(k), Step(k), UNCHANGED <<appErr, callVars>>
    PROVE  AnswerOf(k)'
  <1> USE DEF TypeOK, Goto, shared
  <1>1. pc[k] \in StartPC \cup StopPC /\ UNCHANGED fresh
    BY StepPlace
  <1>2. /\ stage[k] \in {"start", "rollback", "stop"}
        /\ chan[k] = "empty"
        /\ UNCHANGED <<chan, stage, startErr, op, caller>>
    BY <1>1 DEF PlaceOf, AnswerOf, StartPC, StopPC, callVars, Stage
  <1>3. ASSUME stage[k] = "start", pc'[k] = "idle", ret'[k] = "nil"
        PROVE  up' = 1..lim'[k]
    <2>1. pc[k] \in StartPC
      BY <1>1, <1>3 DEF PlaceOf, StartPC, StopPC
    <2>2. ~ \E e \in Failures : OnStartFails(k, e)
      BY <1>3, FailuresAssumption DEF OnStartFails
    <2>3. StartReturn(k)
      BY <1>3, <2>1, <2>2
         DEF Step, OwnStep, HookReturns, StartEnter, StopEnter, StartSkip, CallOnStart,
             StartRecord, IncLoad, IncStore, OnStartOk, StopCheck, StopPick, StopSkip,
             StopPanic, CallOnStop, StopRecord, StopRecordErr, StopLogged, DecLoad,
             DecStore, StopReturn, OnStopReturn, StartPC
    <2>4. StackIsUp(k) /\ StartBounds(k)
      BY DEF IInv
    <2>5. /\ pc[k] = "startLoop" /\ pos[k] > lim[k]
          /\ UNCHANGED <<up, lim>>
      BY <2>3 DEF StartReturn
    <2>6. up = 1..numStarted /\ numStarted = pos[k] - 1 /\ pos[k] <= lim[k] + 1
      BY <2>4, <2>5 DEF StackIsUp, StartBounds, AtStart, AtStop, OneUp, OneDown,
                        StartPC, StopPC
    <2>7. pos[k] \in Nat /\ lim[k] \in Nat
      OBVIOUS
    <2>8. pos[k] - 1 = lim[k]
      BY <2>5, <2>6, <2>7
    <2> QED  BY <2>5, <2>6, <2>8
  <1>4. startErr'[k] # "nil" => stage'[k] \in {"rollback", "done"}
    BY <1>2 DEF AnswerOf
  <1> QED  BY <1>1, <1>2, <1>3, <1>4 DEF AnswerOf, BothErrors

\* Every step of the patient client keeps the answers true.
LEMMA AnswersStep ==
    ASSUME AppTypeOK, Places, OneOpen, OneOpen', IInv, Answers,
           [PatientNext]_appVars
    PROVE  Answers'
  <1>1. CASE UNCHANGED <<chan, stage, startErr, fresh, pc, ret, up, lim, caller, op>>
    BY <1>1 DEF Answers, AnswerOf, BothErrors
  <1>2. UNCHANGED appVars \/ Environment =>
          UNCHANGED <<chan, stage, startErr, fresh, pc, ret, up, lim, caller, op>>
    BY DEF appVars, vars, frame, callVars, Environment, AppendHook, CtxEnds
  <1>3. CASE PatientCall
    <2> PICK k \in Procs, o \in {"start", "stop"} : Call(k, o)
      BY <1>3 DEF PatientCall
    <2>0. caller[k] = "idle" /\ stage[k] = "none"
      BY DEF Call, Places, PlaceOf
    <2>1. chan[k] = "empty"
      BY <2>0 DEF Answers, AnswerOf
    <2>2. \A j \in Procs : caller[j] # "select"
      BY <1>3 DEF PatientCall, Settled, Returned
    <2>3. /\ UNCHANGED <<chan, startErr, fresh, pc, ret, up, lim>>
          /\ stage'[k] = "begin" /\ startErr[k] = "nil"
          /\ \A j \in Procs : j # k => stage'[j] = stage[j] /\ caller'[j] = caller[j]
      BY <2>0 DEF Call, vars, frame, AppTypeOK, Answers, AnswerOf
    <2> QED  BY <2>1, <2>2, <2>3 DEF Answers, AnswerOf, BothErrors
  <1>4. ASSUME NEW k \in Procs,
               GoroutineStep(k) \/ CallbackReturns(k) \/ CallerStep(k)
        PROVE  Answers'
    <2>1. \A j \in Procs : j # k => AnswerOf(j)'
      <3> SUFFICES ASSUME NEW j \in Procs, j # k  PROVE AnswerOf(j)'
        OBVIOUS
      <3>1. Settled(j) /\ AnswerOf(j)
        BY <1>4, CallStep, OthersAreOut DEF Answers
      <3>2. /\ chan'[j] = chan[j] /\ stage'[j] = stage[j] /\ caller'[j] = caller[j]
            /\ startErr'[j] = startErr[j] /\ ret'[j] = ret[j]
        BY <1>4, CallStep
      <3> QED  BY <3>1, <3>2 DEF AnswerOf, BothErrors, Settled, Returned
    <2>2. AnswerOf(k)'
      <3>0. PlaceOf(k) /\ AnswerOf(k) /\ Open(k) /\ UNCHANGED op
        BY <1>4, CallStep DEF Places, Answers
      <3>a. pc[k] = "idle" => Quiescent
        BY <3>0, OthersAreOut DEF Quiescent
      <3>1. CASE CallerStep(k)
        <4>1. /\ UNCHANGED <<stage, startErr, fresh, pc, ret, up, lim, op>>
              /\ \/ chan'[k] = chan[k]
                 \/ chan'[k] = "empty"
              /\ caller'[k] # "select"
          BY <3>1 DEF CallerStep, SelectCtx, SelectChan, ReadRecords, ReadRunning,
                      Answer, vars, frame, AppTypeOK
        <4> QED  BY <3>0, <4>1 DEF AnswerOf, BothErrors
      <3>2. CASE Step(k) /\ UNCHANGED <<appErr, callVars>>
        BY <3>0, <3>2, AnswerOfStep DEF AppTypeOK, IInv
      <3>3. ASSUME NEW e \in Error, Send(k, e), stage[k] # "done",
                   IF op[k] = "start" /\ e = "nil" THEN up = 1..lim[k] ELSE up = {},
                   startErr[k] # "nil" => e = BothErrors(k)
            PROVE  AnswerOf(k)'
        <4>1. /\ UNCHANGED <<up, lim, op, ret, startErr>>
              /\ chan'[k] = e /\ stage'[k] = "done"
          BY <3>3 DEF Send, vars, frame, AppTypeOK
        <4> QED  BY <3>3, <4>1 DEF AnswerOf, BothErrors
      <3>4. CASE ShortCircuit(k)
        <4>1. /\ fresh /\ pc[k] = "idle" /\ appErr \in Error \ {"nil"}
              /\ Send(k, appErr) /\ stage[k] = "begin" /\ startErr[k] = "nil"
          BY <3>0, <3>4 DEF ShortCircuit, OneOpen, PlaceOf, AnswerOf, AppTypeOK, Error
        <4>2. up = {}
          BY <3>a, <4>1, DownWhenFresh
        <4> QED  BY <3>3, <4>1, <4>2
      <3>5. CASE StartOk(k)
        <4>1. /\ Send(k, "nil") /\ op[k] = "start" /\ up = 1..lim[k]
              /\ stage[k] = "start" /\ startErr[k] = "nil"
          BY <3>0, <3>5 DEF StartOk, PlaceOf, AnswerOf
        <4> QED  BY <3>3, <4>1 DEF Error
      <3>6. CASE RollbackDone(k)
        <4>1. /\ Send(k, Combine(startErr[k], ret[k])) /\ stage[k] = "rollback"
              /\ pc[k] = "idle" /\ fresh /\ startErr[k] # "nil"
          BY <3>0, <3>6 DEF RollbackDone, AnswerOf
        <4>2. up = {}
          BY <3>a, <4>1, DownWhenFresh
        <4>3. startErr[k] \in Error /\ ret[k] \in Error
          BY DEF AppTypeOK, TypeOK
        <4>4. /\ Combine(startErr[k], ret[k]) \in Error \ {"nil"}
              /\ Combine(startErr[k], ret[k]) = BothErrors(k)
          BY <4>1, <4>3, CombineError DEF Combine, BothErrors
        <4> QED  BY <3>3, <4>1, <4>2, <4>4
      <3>7. CASE StopDone(k)
        <4>1. /\ Send(k, ret[k]) /\ op[k] = "stop" /\ stage[k] = "stop"
              /\ pc[k] = "idle" /\ fresh /\ startErr[k] = "nil"
          BY <3>0, <3>7 DEF StopDone, AnswerOf, PlaceOf
        <4>2. up = {}
          BY <3>a, <4>1, DownWhenFresh
        <4>3. ret[k] \in Error
          BY DEF AppTypeOK, TypeOK
        <4> QED  BY <3>3, <4>1, <4>2, <4>3
      <3>8. CASE Enter(k)
        <4>1. /\ chan'[k] = chan[k] /\ stage[k] = "begin" /\ pc'[k] # "idle"
              /\ stage'[k] \in {"start", "stop"} /\ startErr'[k] = startErr[k]
              /\ stage'[k] = "stop" => fresh'
          BY <3>8 DEF Enter, CallStart, CallStop, Goto, AppTypeOK, TypeOK
        <4> QED  BY <3>0, <4>1 DEF AnswerOf
      <3>9. CASE StartFailed(k)
        <4>1. /\ chan'[k] = chan[k] /\ stage[k] = "start" /\ stage'[k] = "rollback"
              /\ startErr'[k] # "nil" /\ fresh'
          BY <3>9 DEF StartFailed, CallStop, Goto, AppTypeOK, TypeOK
        <4> QED  BY <3>0, <4>1 DEF AnswerOf
      <3> QED  BY <1>4, <3>1, <3>2, <3>4, <3>5, <3>6, <3>7, <3>8, <3>9
               DEF GoroutineStep, CallbackReturns, Step
    <2> QED  BY <2>1, <2>2 DEF Answers
  <1> QED  BY <1>1, <1>2, <1>3, <1>4 DEF PatientNext, Body

\* Everything this section needs, always.
LEMMA PatientAnswers ==
    PatientSpec => [](AppTypeOK /\ Places /\ OneOpen /\ TypeOK /\ IInv /\ Answers)
  <1>1. AppInit => Answers
    <2>1. Init => \A k \in Procs : pc[k] = "idle"
      BY DEF Init
    <2> QED  BY <2>1 DEF AppInit, Answers, AnswerOf
  <1>2. AppTypeOK /\ Places /\ OneOpen /\ OneOpen' /\ IInv /\ Answers
          /\ [PatientNext]_appVars => Answers'
    BY AnswersStep
  <1> QED  BY <1>1, <1>2, PatientInvariants, AppIsSerial, Inductive, TypeCorrect, PTL
           DEF PatientSpec, LifecycleIsSerial

\* What a call that was answered says is true when the client reads it, no callback
\* is running then, and no error of a failed start or of its rollback is lost.
THEOREM AnswersTrue == PatientSpec => AnswersAreTrue
  <1>1. ASSUME AppTypeOK, Places, OneOpen, Answers, [PatientNext]_appVars,
               NEW k \in Procs, chan[k] # "empty", chan'[k] = "empty"
        PROVE  /\ Quiescent
               /\ IF op[k] = "start" /\ chan[k] = "nil"
                     THEN up = 1..lim[k]
                     ELSE up = {}
               /\ startErr[k] # "nil" => chan[k] = BothErrors(k)
    <2>1. chan' # chan
      BY <1>1
    <2>2. PICK j \in Procs : GoroutineStep(j) \/ CallerStep(j)
      BY <1>1, <2>1 DEF PatientNext, PatientCall, Call, Body, Environment, CtxEnds,
                        CallbackReturns, appVars, callVars
    <2>3. j = k
      BY <1>1, <2>2, CallStep
    <2>4. stage[k] = "done"
      BY <1>1 DEF Answers, AnswerOf
    <2>5. SelectChan(k)
      BY <1>1, <2>1, <2>2, <2>3, <2>4, CallStep
         DEF GoroutineStep, ShortCircuit, Enter, StartOk, StartFailed, RollbackDone,
             StopDone, CallerStep, SelectCtx, ReadRecords, ReadRunning, callVars
    <2>6. Open(k) /\ pc[k] = "idle"
      BY <1>1, <2>4, <2>5 DEF SelectChan, Open, Settled, Returned, Places, PlaceOf
    <2> QED  BY <1>1, <2>5, <2>6, OthersAreOut
             DEF Quiescent, SelectChan, Answers, AnswerOf
  <1>2. AppTypeOK /\ Places /\ OneOpen /\ Answers /\ [PatientNext]_appVars =>
          [\A k \in Procs : chan[k] # "empty" /\ chan'[k] = "empty" =>
             /\ Quiescent
             /\ IF op[k] = "start" /\ chan[k] = "nil"
                   THEN up = 1..lim[k]
                   ELSE up = {}
             /\ startErr[k] # "nil" =>
                   chan[k] = IF ret[k] = "nil" THEN startErr[k] ELSE "multi"]_appVars
    BY <1>1 DEF BothErrors
  <1> QED  BY <1>2, PatientAnswers, PTL DEF PatientSpec, AnswersAreTrue

\* When the rollback of a failed start is over, no hook is up and no callback runs:
\* the safety half of FailedStartIsUndone.
THEOREM RollbackLeavesNothing ==
    PatientSpec => [][\A k \in Procs : stage[k] = "rollback" /\ stage'[k] = "done" =>
                         Quiescent /\ up = {}]_appVars
  <1>1. ASSUME AppTypeOK, Places, OneOpen, IInv, Answers, [PatientNext]_appVars,
               NEW k \in Procs, stage[k] = "rollback", stage'[k] = "done"
        PROVE  Quiescent /\ up = {}
    <2>1. [AnyNext]_appVars
      BY <1>1 DEF PatientNext, PatientCall, AnyNext, AnyCall
    <2>2. GoroutineStep(k)
      BY <1>1, <2>1, DoneByItself
    <2>3. RollbackDone(k)
      BY <1>1, <2>2
         DEF GoroutineStep, ShortCircuit, Enter, StartOk, StartFailed, StopDone,
             callVars
    <2>4. Open(k) /\ pc[k] = "idle" /\ fresh
      BY <1>1, <2>3 DEF RollbackDone, Open, Settled, Answers, AnswerOf
    <2>5. Quiescent
      BY <1>1, <2>4, OthersAreOut DEF Quiescent
    <2> QED  BY <1>1, <2>4, <2>5, DownWhenFresh
  <1>2. AppTypeOK /\ Places /\ OneOpen /\ IInv /\ Answers /\ [PatientNext]_appVars =>
          [\A k \in Procs : stage[k] = "rollback" /\ stage'[k] = "done" =>
              Quiescent /\ up = {}]_appVars
    BY <1>1
  <1> QED  BY <1>2, PatientAnswers, PTL DEF PatientSpec

-----------------------------------------------------------------------------
(* The report of a timeout. *)

\* runningHook is the hook whose callback runs.
RunningHookIsRunning == \A p \in Procs : pc[p] \in InHook => runningHook = pos[p]

\* Every step of a serial client keeps it.
LEMMA RunningHookStep ==
    ASSUME TypeOK, IInv, RunningHookIsRunning, [Next]_vars
    PROVE  RunningHookIsRunning'
  <1> SUFFICES ASSUME NEW p \in Procs, pc'[p] \in InHook
               PROVE  runningHook' = pos'[p]
    BY DEF RunningHookIsRunning
  <1>1. CASE pc[p] = pc'[p]
    <2>1. pc[p] # "idle" /\ runningHook = pos[p]
      BY <1>1 DEF InHook, RunningHookIsRunning
    <2>2. CASE UNCHANGED vars \/ \E h \in Kinds : AppendHook(h)
      BY <2>1, <2>2 DEF vars, shared, frame, AppendHook
    <2>3. CASE Step(p)
      BY <1>1, <2>3 DEF Step, OwnStep, HookReturns, StartEnter, StopEnter, StartSkip,
          CallOnStart, StartRecord, IncLoad, IncStore, StartReturn, OnStartOk,
          OnStartFails, StopCheck, StopPick, StopSkip, StopPanic, CallOnStop,
          StopRecord, StopRecordErr, StopLogged, DecLoad, DecStore, StopReturn, OnStopReturn,
          Goto, TypeOK, InHook
    <2> QED  BY <2>1, <2>2, <2>3, InsiderSteps
  <1>2. CASE pc[p] # pc'[p]
    <2>1. CallOnStart(p) \/ CallOnStop(p)
      BY <1>2, EnteringAHook DEF InHook, vars, frame
    <2> QED  BY <2>1 DEF CallOnStart, CallOnStop
  <1> QED  BY <1>1, <1>2

\* So it always holds.
LEMMA RunningHookKnown == SerialSpec => []RunningHookIsRunning
  <1>1. Init => RunningHookIsRunning
    BY DEF Init, RunningHookIsRunning, InHook
  <1>2. TypeOK /\ IInv /\ RunningHookIsRunning /\ [Next]_vars => RunningHookIsRunning'
    BY RunningHookStep
  <1> QED  BY <1>1, <1>2, TypeCorrect, Inductive, PTL DEF SerialSpec

\* The report of a timed-out call whose goroutine is still at work lists the hooks
\* that this Start has started, and blames the callback that is running.
THEOREM TimeoutReport == PatientSpec => TimeoutReportIsTrue
  <1>1. ASSUME AppTypeOK, Places, OneOpen, StartRecordsExact, RunningHookIsRunning,
               [PatientNext]_appVars, NEW k \in Procs,
               caller[k] = "records", caller'[k] = "running",
               stage[k] = "start", pc[k] \in StartPC \ {"startEnter"}
        PROVE  listed'[k] = {i \in up : hooks[i].onStart} \
                            (IF pc[k] = "startRecord" THEN {pos[k]} ELSE {})
    <2>1. ReadRecords(k)
      <3>1. PICK j \in Procs : GoroutineStep(j) \/ CallerStep(j)
        BY <1>1 DEF PatientNext, PatientCall, Call, Body, Environment, CtxEnds,
                    CallbackReturns, appVars, callVars, AppTypeOK
      <3>2. j = k
        BY <1>1, <3>1, CallStep
      <3> QED
        BY <1>1, <3>1, <3>2
           DEF GoroutineStep, ShortCircuit, Enter, StartOk, StartFailed, RollbackDone,
               StopDone, Send, CallerStep, SelectCtx, SelectChan, ReadRunning, callVars
    <2>2. op[k] = "start" /\ Open(k)
      BY <1>1 DEF Places, PlaceOf, Open, Settled
    <2>3. ~ \E p \in Procs : pc[p] = "startEnter"
      BY <1>1, <2>2, OthersAreOut
    <2>4. listed'[k] = StartHookRecords
      <3>1. StartRecordsRead = {StartHookRecords}
        BY <2>3 DEF StartRecordsRead
      <3>2. PICK records \in {StartHookRecords} :
               listed' = [listed EXCEPT ![k] = records]
        BY <2>1, <2>2, <3>1 DEF ReadRecords
      <3> QED  BY <1>1, <3>2 DEF AppTypeOK
    <2>5. StartHookRecords = {i \in up : hooks[i].onStart /\
                                         ~ (pc[k] = "startRecord" /\ i = pos[k])}
      BY <1>1 DEF StartRecordsExact
    <2> QED  BY <2>4, <2>5
  <1>2. ASSUME AppTypeOK, Places, OneOpen, RunningHookIsRunning, [PatientNext]_appVars,
               NEW k \in Procs, caller[k] = "running", caller'[k] = "returned",
               pc[k] \in InHook
        PROVE  blamed'[k] = pos[k]
    <2>1. ReadRunning(k)
      <3>1. PICK j \in Procs : GoroutineStep(j) \/ CallerStep(j)
        BY <1>2 DEF PatientNext, PatientCall, Call, Body, Environment, CtxEnds,
                    CallbackReturns, appVars, callVars, AppTypeOK
      <3>2. j = k
        BY <1>2, <3>1, CallStep
      <3> QED
        BY <1>2, <3>1, <3>2
           DEF GoroutineStep, ShortCircuit, Enter, StartOk, StartFailed, RollbackDone,
               StopDone, Send, CallerStep, SelectCtx, SelectChan, ReadRecords, callVars
    <2> QED  BY <1>2, <2>1 DEF ReadRunning, RunningHookCaller, RunningHookIsRunning,
                               AppTypeOK
  <1>3. AppTypeOK /\ Places /\ OneOpen /\ StartRecordsExact /\ RunningHookIsRunning
          /\ [PatientNext]_appVars =>
        [\A k \in Procs :
           /\ caller[k] = "records" /\ caller'[k] = "running"
              /\ stage[k] = "start" /\ pc[k] \in StartPC \ {"startEnter"}
                 => listed'[k] = {i \in up : hooks[i].onStart} \
                                 (IF pc[k] = "startRecord" THEN {pos[k]} ELSE {})
           /\ caller[k] = "running" /\ caller'[k] = "returned" /\ pc[k] \in InHook
                 => blamed'[k] = pos[k]]_appVars
    BY <1>1, <1>2
  <1> QED  BY <1>3, PatientInvariants, AppIsSerial, StartRecords, RunningHookKnown, PTL
           DEF PatientSpec, LifecycleIsSerial, TimeoutReportIsTrue
-----------------------------------------------------------------------------
(* A single Start and any number of Stops, whose goroutines race. *)

\* The first n of the hooks h have been started, as the records r say.
Covered(h, r, n) == n <= Len(h) /\ \A i \in 1..n : h[i].onStart => i \in r
Recorded(n) == Covered(hooks, StartHookRecords, n)

\* No Start has got to its loop yet, and then nothing was counted.
Early == \A k \in Procs :
            op[k] = "start" => stage[k] = "begin" \/ pc[k] = "startEnter"
NothingYet ==
    /\ numStarted = 0
    /\ \A k \in Procs : reg[k] = 0 /\ ~ AtStop(k) /\ ~ AtStart(k)

\* The goroutine in the loop of Start is ahead of every count of hooks there is.
Progress(k) ==
    /\ pos[k] >= 1 /\ pos[k] <= lim[k] + 1 /\ lim[k] <= Len(hooks)
    /\ pc[k] # "startLoop" => pos[k] <= lim[k]
    /\ Recorded(pos[k] - 1)
    /\ numStarted <= pos[k] - 1
    /\ \A j \in Procs : reg[j] <= pos[k] - 1
    /\ pc[k] \in {"inc", "incStore"} => Recorded(pos[k])

\* numStarted, the copies of it that goroutines hold and the hooks that Stops are
\* at never get ahead of the hooks that were started.
CountsRecorded ==
    /\ Recorded(numStarted)
    /\ \A k \in Procs : Recorded(reg[k])
    /\ \A k \in Procs : pc[k] = "stopMark" => pos[k] >= 1 /\ Recorded(pos[k])
    /\ \A k \in Procs : AtStart(k) => Progress(k)
    /\ Early => NothingYet
RaceInv == OneStart => CountsRecorded

\* Fewer hooks are covered too.
LEMMA CoveredLess ==
    ASSUME NEW h, NEW r, NEW n \in Int, NEW m \in Int, m <= n, Len(h) \in Nat,
           Covered(h, r, n)
    PROVE  Covered(h, r, m)
  BY DEF Covered

\* More hooks and more records cover what was covered.
LEMMA CoveredMore ==
    ASSUME NEW h, NEW r, NEW g, NEW s, NEW n \in Int, Covered(h, r, n),
           Len(h) \in Nat, Len(g) \in Nat, Len(h) <= Len(g),
           \A i \in 1..Len(h) : g[i] = h[i], r \subseteq s
    PROVE  Covered(g, s, n)
  BY DEF Covered

\* No hooks are always covered.
LEMMA CoveredNone ==
    ASSUME NEW h, NEW r, Len(h) \in Nat
    PROVE  Covered(h, r, 0)
  BY DEF Covered

\* Steps that leave every count, every position and the records alone.
LEMMA SilentCounts ==
    ASSUME CountsRecorded, NEW p \in Procs, Early' => Early,
           UNCHANGED <<hooks, numStarted, startRecords, pos, lim, reg>>,
           \A r \in Procs : r # p => pc'[r] = pc[r],
           pc'[p] # "stopMark",
           pc'[p] \in {"inOnStart", "startRecord"} \/ ~ AtStart(p)',
           pc'[p] = "inOnStart" => pc[p] = "startLoop" /\ pos[p] <= lim[p],
           pc'[p] = "startRecord" => pc[p] = "inOnStart",
           AtStop(p)' => AtStop(p)
    PROVE  CountsRecorded'
  <1> USE DEF AtStart, AtStop, StartPC, StopPC
  <1>1. UNCHANGED StartHookRecords
    BY DEF StartHookRecords
  <1>2. \A k \in Procs : AtStart(k)' => AtStart(k)
    OBVIOUS
  <1>3. ASSUME NEW k \in Procs, AtStart(k)'  PROVE Progress(k)'
    <2>1. Progress(k)
      BY <1>2, <1>3 DEF CountsRecorded
    <2>2. pc'[k] # "startLoop" => pos[k] <= lim[k]
      BY <1>3, <2>1 DEF Progress
    <2>3. pc'[k] \in {"inc", "incStore"} => pc[k] = pc'[k]
      BY <1>3
    <2> QED  BY <1>1, <2>1, <2>2, <2>3 DEF Progress, Recorded
  <1>4. Early' => NothingYet'
    BY <1>2 DEF CountsRecorded, NothingYet
  <1>5. \A k \in Procs : pc'[k] = "stopMark" => pc[k] = "stopMark"
    OBVIOUS
  <1> QED  BY <1>1, <1>3, <1>4, <1>5 DEF CountsRecorded, Recorded

\* Which steps those are.
LEMMA SilentSteps ==
    ASSUME TypeOK, CountsRecorded, NEW p \in Procs, Early' => Early,
           \/ CallStart(p) \/ CallStop(p) \/ CallOnStart(p) \/ OnStartOk(p)
           \/ (\E e \in Failures : OnStartFails(p, e)) \/ StartReturn(p)
           \/ StopEnter(p) \/ StopCheck(p) \/ StopPanic(p) \/ CallOnStop(p)
           \/ (\E e \in Failures \cup {"nil"} : OnStopReturn(p, e))
           \/ StopRecord(p) \/ StopRecordErr(p) \/ StopLogged(p) \/ StopReturn(p)
    PROVE  CountsRecorded'
  <1>1. \A r \in Procs : r # p => pc'[r] = pc[r]
    BY StepFrame DEF Step, OwnStep, HookReturns
  <1>2. UNCHANGED <<hooks, numStarted, startRecords, pos, lim, reg>>
    BY DEF CallStart, CallStop, CallOnStart, OnStartOk, OnStartFails, StartReturn,
           StopEnter, StopCheck, StopPanic, CallOnStop, OnStopReturn, StopRecord,
           StopRecordErr, StopLogged, StopReturn, shared
  <1>3. /\ pc'[p] # "stopMark"
        /\ pc'[p] \in {"inOnStart", "startRecord"} \/ ~ AtStart(p)'
        /\ pc'[p] = "inOnStart" => pc[p] = "startLoop" /\ pos[p] <= lim[p]
        /\ pc'[p] = "startRecord" => pc[p] = "inOnStart"
        /\ AtStop(p)' => AtStop(p)
    BY DEF CallStart, CallStop, CallOnStart, OnStartOk, OnStartFails, StartReturn,
           StopEnter, StopCheck, StopPanic, CallOnStop, OnStopReturn, StopRecord,
           StopRecordErr, StopLogged, StopReturn, TypeOK, Goto, AtStart, AtStop,
           StartPC, StopPC
  <1> QED  BY <1>1, <1>2, <1>3, SilentCounts

\* A new hook at the end covers nothing and uncovers nothing.
LEMMA AppendCounts ==
    ASSUME TypeOK, CountsRecorded, Early' => Early, NEW h \in Kinds, AppendHook(h)
    PROVE  CountsRecorded'
  <1>1. /\ Len(hooks') = Len(hooks) + 1
        /\ \A i \in 1..Len(hooks) : hooks'[i] = hooks[i]
    BY AppendProperties, KindsAssumption DEF AppendHook, TypeOK
  <1>2. UNCHANGED <<numStarted, StartHookRecords, pc, pos, lim, reg>>
    BY DEF AppendHook, frame, StartHookRecords
  <1>3. \A n \in Int : Recorded(n) => Covered(hooks', StartHookRecords, n)
    <2>1. Len(hooks) \in Nat /\ Len(hooks') \in Nat
      BY <1>1 DEF TypeOK
    <2> QED  BY <1>1, <2>1, CoveredMore DEF Recorded
  <1>4. Recorded(numStarted)' /\ \A k \in Procs : Recorded(reg[k])'
    BY <1>2, <1>3 DEF CountsRecorded, Recorded, TypeOK
  <1>5. \A k \in Procs : Recorded(pos[k]) => Recorded(pos[k])'
    BY <1>2, <1>3 DEF Recorded, TypeOK
  <1>6. ASSUME NEW k \in Procs, AtStart(k)'  PROVE Progress(k)'
    <2>1. Progress(k) /\ pos[k] - 1 \in Int /\ lim[k] <= Len(hooks')
      BY <1>1, <1>2, <1>6, SMTT(30) DEF CountsRecorded, AtStart, TypeOK, Progress
    <2>2. Recorded(pos[k] - 1)'
      BY <1>2, <1>3, <2>1 DEF Recorded, Progress
    <2> QED  BY <1>2, <1>5, <2>1, <2>2 DEF Progress
  <1> QED  BY <1>2, <1>4, <1>5, <1>6 DEF CountsRecorded, NothingYet, AtStart, AtStop

\* A step in the loop of Start covers one more hook before it counts it.
LEMMA StartCounts ==
    ASSUME TypeOK, TypeOK', CountsRecorded, NEW p \in Procs, Early' => Early,
           \A r \in Procs : pc[r] \in StartPC /\ pc[p] \in StartPC => r = p,
           \/ StartSkip(p) \/ StartRecord(p) \/ IncLoad(p) \/ IncStore(p)
    PROVE  CountsRecorded'
  <1>1. \A r \in Procs : r # p => pc'[r] = pc[r] /\ reg'[r] = reg[r] /\ pos'[r] = pos[r]
    BY StepFrame DEF Step, OwnStep
  <1>2. AtStart(p) /\ AtStart(p)' /\ pc'[p] # "stopMark" /\ UNCHANGED <<hooks, lim>>
    BY DEF StartSkip, StartRecord, IncLoad, IncStore, TypeOK, Goto, AtStart, StartPC,
           shared
  <1>3. Progress(p) /\ ~ Early'
    BY <1>2 DEF CountsRecorded, NothingYet
  <1>4. \A r \in Procs : AtStart(r)' => r = p
    BY <1>1, <1>2 DEF AtStart
  <1>5. /\ numStarted \in Int /\ pos[p] \in Nat /\ lim[p] \in Nat /\ Len(hooks) \in Nat
        /\ \A r \in Procs : reg[r] \in Int
    <2>1. numStarted \in Int /\ pos[p] \in Nat /\ lim[p] \in Nat
      BY DEF TypeOK
    <2>2. hooks \in Seq(HookKind) /\ \A r \in Procs : reg[r] \in Int
      BY DEF TypeOK
    <2> QED  BY <2>1, <2>2
  <1>6. \A n \in Int : n <= pos[p] - 1 => Recorded(n)
    BY <1>3, <1>5, CoveredLess DEF Progress, Recorded
  <1>7. CASE StartSkip(p)
    <2>1. /\ UNCHANGED <<numStarted, reg, pos, StartHookRecords>> /\ pc'[p] = "inc"
          /\ pos[p] <= lim[p] /\ ~ hooks[pos[p]].onStart
      BY <1>7 DEF StartSkip, shared, StartHookRecords, Goto, TypeOK
    <2>2. Recorded(pos[p])
      BY <1>3, <1>5, <2>1 DEF Progress, Recorded, Covered
    <2>3. Progress(p)'
      BY <1>2, <1>3, <2>1, <2>2 DEF Progress, Recorded
    <2> QED  BY <1>1, <1>2, <1>3, <1>4, <2>1, <2>3 DEF CountsRecorded, Recorded
  <1>8. CASE StartRecord(p)
    <2>1. /\ UNCHANGED <<numStarted, reg, pos>> /\ pc'[p] = "inc"
          /\ pos[p] <= lim[p] /\ startRecords' = Append(startRecords, pos[p])
      BY <1>3, <1>8 DEF StartRecord, Goto, TypeOK, Progress
    <2>2. StartHookRecords' = StartHookRecords \cup {pos[p]}
      <3>1. startRecords \in Seq(Nat)
        BY DEF TypeOK
      <3>2. pos[p] \in Nat /\ startRecords' = Append(startRecords, pos[p])
        BY <1>5, <2>1
      <3> QED  BY <3>1, <3>2, AppendRecord DEF StartHookRecords
    <2>3. \A n \in Int : Recorded(n) => Covered(hooks', StartHookRecords', n)
      BY <1>2, <1>5, <2>2, CoveredMore DEF Recorded
    <2>4. Covered(hooks', StartHookRecords', pos[p])
      BY <1>2, <1>3, <1>5, <2>1, <2>2 DEF Progress, Recorded, Covered
    <2>5. Covered(hooks', StartHookRecords', pos[p] - 1)
      BY <1>3, <1>5, <2>3 DEF Progress
    <2>6. Progress(p)'
      <3>1. UNCHANGED <<numStarted, reg, pos, hooks, lim>> /\ pc'[p] = "inc"
        BY <1>2, <2>1
      <3>2. /\ pos[p] >= 1 /\ pos[p] <= lim[p] + 1 /\ lim[p] <= Len(hooks)
            /\ numStarted <= pos[p] - 1 /\ \A j \in Procs : reg[j] <= pos[p] - 1
        BY <1>3 DEF Progress
      <3> QED  BY <2>1, <2>4, <2>5, <3>1, <3>2 DEF Progress, Recorded
    <2>7. \A k \in Procs : pc'[k] = "stopMark" => pos'[k] >= 1 /\ Recorded(pos[k])'
      <3> SUFFICES ASSUME NEW k \in Procs, pc'[k] = "stopMark"
                   PROVE  pos'[k] >= 1 /\ Recorded(pos[k])'
        OBVIOUS
      <3>1. pos[k] >= 1 /\ Recorded(pos[k])
        BY <1>1, <1>2 DEF CountsRecorded
      <3>2. pos[k] \in Int
        BY DEF TypeOK
      <3> QED  BY <2>1, <2>3, <3>1, <3>2 DEF Recorded
    <2>8. Recorded(numStarted)' /\ \A k \in Procs : Recorded(reg[k])'
      BY <1>5, <2>1, <2>3 DEF CountsRecorded, Recorded
    <2> QED  BY <1>3, <1>4, <2>6, <2>7, <2>8 DEF CountsRecorded
  <1>9. CASE IncLoad(p)
    <2>1. /\ UNCHANGED <<numStarted, pos, StartHookRecords>> /\ pc'[p] = "incStore"
          /\ pc[p] = "inc" /\ reg'[p] = numStarted
      BY <1>9 DEF IncLoad, shared, StartHookRecords, Goto, TypeOK
    <2>2. \A r \in Procs : reg'[r] = reg[r] \/ reg'[r] = numStarted
      BY <1>1, <2>1
    <2>3. Progress(p)'
      BY <1>2, <1>3, <2>1, <2>2 DEF Progress, Recorded
    <2>4. \A r \in Procs : Recorded(reg[r])'
      BY <1>2, <2>1, <2>2 DEF CountsRecorded, Recorded
    <2> QED  BY <1>1, <1>2, <1>3, <1>4, <2>1, <2>3, <2>4 DEF CountsRecorded, Recorded
  <1>10. CASE IncStore(p)
    <2>1. /\ UNCHANGED StartHookRecords /\ pc'[p] = "startLoop" /\ pc[p] = "incStore"
          /\ reg'[p] = 0 /\ pos'[p] = pos[p] + 1 /\ numStarted' = reg[p] + 1
      BY <1>10 DEF IncStore, StartHookRecords, Goto, TypeOK
    <2>2. /\ Recorded(pos[p]) /\ reg[p] <= pos[p] - 1 /\ pos[p] <= lim[p]
          /\ lim[p] <= Len(hooks)
      BY <1>3, <2>1 DEF Progress
    <2>3. Covered(hooks, StartHookRecords, reg[p] + 1)
      BY <1>5, <2>2, CoveredLess DEF Recorded
    <2>4. Covered(hooks, StartHookRecords, 0)
      BY <1>5, CoveredNone
    <2>5. \A r \in Procs : reg'[r] = reg[r] \/ reg'[r] = 0
      BY <1>1, <2>1
    <2>6. \A r \in Procs : reg'[r] <= pos'[p] - 1
      BY <1>3, <1>5, <2>1, <2>5 DEF Progress
    <2>7. Recorded(pos[p] - 1)'
      BY <1>2, <1>5, <2>1, <2>2 DEF Recorded
    <2>8. Progress(p)'
      BY <1>2, <1>5, <2>1, <2>2, <2>6, <2>7 DEF Progress
    <2>9. Recorded(numStarted)' /\ \A r \in Procs : Recorded(reg[r])'
      BY <1>2, <2>1, <2>3, <2>4, <2>5 DEF CountsRecorded, Recorded
    <2> QED  BY <1>1, <1>2, <1>3, <1>4, <2>1, <2>8, <2>9 DEF CountsRecorded, Recorded
  <1> QED  BY <1>7, <1>8, <1>9, <1>10

\* Start begins its loop when nothing was counted yet.
LEMMA StartEnterCounts ==
    ASSUME TypeOK, CountsRecorded, NEW p \in Procs, StartEnter(p), Early, ~ Early'
    PROVE  CountsRecorded'
  <1>1. NothingYet /\ Len(hooks) \in Nat
    BY DEF CountsRecorded, TypeOK
  <1>2. /\ \A r \in Procs : pc'[r] = pc[r] \/ r = p
        /\ pc'[p] = "startLoop" /\ pos'[p] = 1 /\ lim'[p] = Len(hooks)
        /\ UNCHANGED <<hooks, numStarted, reg>>
    BY DEF StartEnter, Goto, TypeOK
  <1>3. Covered(hooks', StartHookRecords', 0)
    BY <1>1, <1>2, CoveredNone
  <1>4. \A r \in Procs : AtStart(r)' => r = p
    BY <1>1, <1>2 DEF NothingYet, AtStart, StartPC
  <1>5. \A r \in Procs : pc'[r] # "stopMark"
    BY <1>1, <1>2 DEF NothingYet, AtStop, StopPC
  <1>6. Progress(p)'
    BY <1>1, <1>2, <1>3 DEF Progress, Recorded, NothingYet
  <1>7. Recorded(numStarted)' /\ \A r \in Procs : Recorded(reg[r])'
    BY <1>1, <1>2, <1>3 DEF NothingYet, Recorded
  <1> QED  BY <1>4, <1>5, <1>6, <1>7 DEF CountsRecorded

\* A step of Stop that reads or writes numStarted does not raise it.
LEMMA StopCounts ==
    ASSUME TypeOK, CountsRecorded, NEW p \in Procs, Early' => Early,
           StopPick(p) \/ StopSkip(p) \/ DecLoad(p) \/ DecStore(p)
    PROVE  CountsRecorded'
  <1>1. \A r \in Procs : r # p => /\ pc'[r] = pc[r] /\ reg'[r] = reg[r]
                                  /\ pos'[r] = pos[r] /\ lim'[r] = lim[r]
    BY StepFrame DEF Step, OwnStep
  <1>2. /\ UNCHANGED <<hooks, StartHookRecords>>
        /\ ~ AtStart(p) /\ ~ AtStart(p)'
    <2>1. UNCHANGED <<hooks, startRecords>>
      BY DEF StopPick, StopSkip, DecLoad, DecStore, shared
    <2>2. /\ pc[p] \in {"stopPick", "dec", "decStore"}
          /\ pc'[p] \in {"stopMark", "dec", "decStore", "stopLoop"}
      BY DEF StopPick, StopSkip, DecLoad, DecStore, TypeOK, Goto
    <2> QED  BY <2>1, <2>2 DEF AtStart, StartPC, StartHookRecords
  <1>0. ~ Early
    <2>1. numStarted # 0 \/ AtStop(p)
      BY DEF StopPick, StopSkip, DecLoad, DecStore, AtStop, StopPC
    <2> QED  BY <2>1 DEF CountsRecorded, NothingYet
  <1>3. /\ \A r \in Procs : reg[r] \in Int /\ pos[r] \in Nat
        /\ numStarted \in Int /\ hooks \in Seq(HookKind)
    BY DEF TypeOK
  <1>4. Len(hooks) \in Nat
    BY <1>3
  <1>5. Covered(hooks, StartHookRecords, 0)
    BY <1>4, CoveredNone
  <1>6. Covered(hooks, StartHookRecords, reg[p] - 1)
    <2>1. Covered(hooks, StartHookRecords, reg[p]) /\ reg[p] \in Int
      BY <1>3 DEF CountsRecorded, Recorded
    <2> QED  BY <1>4, <2>1, CoveredLess
  <1>7. CASE StopPick(p)
    <2>1. /\ UNCHANGED <<numStarted, reg>> /\ pc'[p] = "stopMark"
          /\ pos'[p] = numStarted /\ numStarted >= 1
      BY <1>7 DEF StopCheck, StopPick, shared, Goto, TypeOK
    <2>2. Recorded(numStarted)' /\ \A r \in Procs : Recorded(reg[r])'
      BY <1>2, <2>1 DEF CountsRecorded, Recorded
    <2>3. \A r \in Procs : pc'[r] = "stopMark" => pos'[r] >= 1 /\ Recorded(pos[r])'
      BY <1>1, <1>2, <2>1 DEF CountsRecorded, Recorded
    <2>4. ASSUME NEW r \in Procs, AtStart(r)'  PROVE Progress(r)'
      <3>1. r # p /\ AtStart(r)
        BY <1>1, <1>2, <2>4 DEF AtStart
      <3>2. Progress(r)
        BY <3>1 DEF CountsRecorded
      <3> QED  BY <1>1, <1>2, <2>1, <3>1, <3>2 DEF Progress, Recorded
    <2> QED  BY <1>0, <2>2, <2>3, <2>4 DEF CountsRecorded
  <1>8. CASE StopSkip(p) \/ DecLoad(p) \/ DecStore(p)
    <2>1. pc'[p] # "stopMark"
      BY <1>8 DEF StopSkip, DecLoad, DecStore, Goto, TypeOK
    <2>2. /\ reg'[p] \in {reg[p], numStarted, 0}
          /\ numStarted' \in {numStarted, reg[p] - 1}
          /\ reg'[p] = 0 => numStarted' \in {numStarted, reg[p] - 1}
      BY <1>8 DEF StopSkip, DecLoad, DecStore, shared, TypeOK
    <2>3. Recorded(numStarted)' /\ \A r \in Procs : Recorded(reg[r])'
      BY <1>1, <1>2, <1>5, <1>6, <2>2 DEF CountsRecorded, Recorded
    <2>4. \A r \in Procs : pc'[r] = "stopMark" => pos'[r] >= 1 /\ Recorded(pos[r])'
      BY <1>1, <1>2, <2>1 DEF CountsRecorded, Recorded
    <2>5. ASSUME NEW r \in Procs, AtStart(r)'  PROVE Progress(r)'
      <3>1. r # p /\ AtStart(r)
        BY <1>1, <1>2, <2>5 DEF AtStart
      <3>2. Progress(r)
        BY <3>1 DEF CountsRecorded
      <3>3. pc'[r] = pc[r] /\ pos'[r] = pos[r] /\ lim'[r] = lim[r]
        BY <1>1, <3>1
      <3>4. numStarted' <= pos[r] - 1 /\ \A j \in Procs : reg'[j] <= pos[r] - 1
        BY <1>1, <1>3, <2>2, <3>2 DEF Progress
      <3> QED  BY <1>2, <3>2, <3>3, <3>4 DEF Progress, Recorded
    <2> QED  BY <1>0, <2>3, <2>4, <2>5 DEF CountsRecorded
  <1> QED  BY <1>7, <1>8

\* Once Start is in its loop it is not early any more, whatever else happens.
LEMMA EarlyPasses ==
    ASSUME AppTypeOK, Places, [AnyNext]_appVars, OneStart'
    PROVE  /\ OneStart
           /\ Early' => Early
           /\ \A p \in Procs : StartEnter(p) => Early /\ ~ Early'
           /\ \A p, r \in Procs : pc[p] \in StartPC /\ pc[r] \in StartPC => p = r
  <1>1. \A j \in Procs : op[j] = "start" => op'[j] = "start"
    <2>1. CASE UNCHANGED op
      BY <2>1
    <2>2. ASSUME NEW k \in Procs, NEW o \in {"start", "stop"}, Call(k, o)
          PROVE  \A j \in Procs : op[j] = "start" => op'[j] = "start"
      BY <2>2 DEF Call, Places, PlaceOf, AppTypeOK
    <2>3. UNCHANGED appVars \/ Environment => UNCHANGED op
      BY DEF appVars, callVars, Environment, CtxEnds
    <2> QED  BY <2>1, <2>2, <2>3, CallStep DEF AnyNext, AnyCall, Body
  <1>2. OneStart
    BY <1>1 DEF OneStart
  <1>3. \A p \in Procs : pc[p] \in StartPC => op[p] = "start" /\ stage[p] = "start"
    BY DEF Places, PlaceOf, StartPC, StopPC, AppTypeOK, Stage
  <1>4. Early' => Early
    <2>1. CASE UNCHANGED <<op, stage, pc>>
      BY <2>1 DEF Early
    <2>2. UNCHANGED appVars \/ Environment => UNCHANGED <<op, stage, pc>>
      BY DEF appVars, vars, frame, callVars, Environment, AppendHook, CtxEnds
    <2>3. ASSUME NEW k \in Procs, NEW o \in {"start", "stop"}, Call(k, o)
          PROVE  Early' => Early
      <3>1. /\ op[k] = "none" /\ op'[k] = o /\ UNCHANGED pc
            /\ \A j \in Procs : j # k => op'[j] = op[j] /\ stage'[j] = stage[j]
        BY <2>3 DEF Call, Places, PlaceOf, AppTypeOK, vars, frame
      <3> QED  BY <3>1 DEF Early
    <2>4. ASSUME NEW k \in Procs,
                 GoroutineStep(k) \/ CallbackReturns(k) \/ CallerStep(k), Early'
          PROVE  Early
      <3>1. /\ op' = op /\ (stage'[k] = "begin" => stage[k] = "begin")
            /\ \A j \in Procs : j # k => stage'[j] = stage[j] /\ pc'[j] = pc[j]
        BY <2>4, CallStep
      <3>2. pc'[k] = "startEnter" => pc[k] = "startEnter" \/ stage[k] = "begin"
        <4>1. CASE UNCHANGED pc
          BY <4>1
        <4>2. CASE Step(k)
          BY <4>2 DEF Step, OwnStep, HookReturns, StartEnter, StopEnter, StartSkip,
              CallOnStart, StartRecord, IncLoad, IncStore, StartReturn, OnStartOk,
              OnStartFails, StopCheck, StopPick, StopSkip, StopPanic, CallOnStop,
              StopRecord, StopRecordErr, StopLogged, DecLoad, DecStore, StopReturn, OnStopReturn,
              Goto, AppTypeOK, TypeOK
        <4>3. CASE Enter(k)
          BY <4>3 DEF Enter
        <4>4. CASE StartFailed(k)
          BY <4>4 DEF StartFailed, CallStop, Goto, AppTypeOK, TypeOK
        <4>5. CallerStep(k) \/ ShortCircuit(k) \/ StartOk(k) \/ RollbackDone(k)
                \/ StopDone(k) => UNCHANGED pc
          BY DEF CallerStep, SelectCtx, SelectChan, ReadRecords, ReadRunning,
                 ShortCircuit, StartOk, RollbackDone, StopDone, Send, vars, frame
        <4> QED  BY <2>4, <4>1, <4>2, <4>3, <4>4, <4>5
                 DEF GoroutineStep, CallbackReturns, Step
      <3> QED  BY <2>4, <3>1, <3>2 DEF Early
    <2> QED  BY <2>1, <2>2, <2>3, <2>4 DEF AnyNext, AnyCall, Body
  <1>5. ASSUME NEW p \in Procs, StartEnter(p)  PROVE Early /\ ~ Early'
    <2>1. pc[p] = "startEnter" /\ pc'[p] = "startLoop"
      BY <1>5 DEF StartEnter, Goto, AppTypeOK, TypeOK
    <2>2. op[p] = "start" /\ op'[p] = "start" /\ stage[p] = "start"
      BY <1>1, <1>3, <2>1 DEF StartPC
    <2>3. Early
      BY <1>2, <2>1, <2>2 DEF OneStart, Early
    <2>4. stage'[p] # "begin"
      <3>1. CASE UNCHANGED stage
        BY <2>2, <3>1
      <3>2. ASSUME NEW k \in Procs, NEW o \in {"start", "stop"}, Call(k, o)
            PROVE  stage'[p] # "begin"
        BY <2>2, <3>2 DEF Call, Places, PlaceOf, AppTypeOK
      <3>3. UNCHANGED appVars \/ Environment => UNCHANGED stage
        BY DEF appVars, callVars, Environment, CtxEnds
      <3>4. ASSUME NEW k \in Procs,
                   GoroutineStep(k) \/ CallbackReturns(k) \/ CallerStep(k)
            PROVE  stage'[p] # "begin"
        BY <2>2, <3>4, CallStep
      <3> QED  BY <3>1, <3>2, <3>3, <3>4 DEF AnyNext, AnyCall, Body
    <2> QED  BY <2>1, <2>2, <2>3, <2>4 DEF Early
  <1>6. \A p, r \in Procs : pc[p] \in StartPC /\ pc[r] \in StartPC => p = r
    BY <1>2, <1>3 DEF OneStart
  <1> QED  BY <1>2, <1>4, <1>5, <1>6

\* Every step of a client keeps the counts recorded.
LEMMA RaceStep ==
    ASSUME AppTypeOK, AppTypeOK', Places, RaceInv, [AnyNext]_appVars
    PROVE  RaceInv'
  <1> SUFFICES ASSUME OneStart'  PROVE CountsRecorded'
    BY DEF RaceInv
  <1>1. /\ Early' => Early
        /\ \A p \in Procs : StartEnter(p) => Early /\ ~ Early'
        /\ \A p, r \in Procs : pc[p] \in StartPC /\ pc[r] \in StartPC => p = r
        /\ CountsRecorded /\ TypeOK /\ TypeOK'
    BY EarlyPasses DEF RaceInv, AppTypeOK
  <1>2. CASE UNCHANGED vars
    BY <1>1, <1>2 DEF vars, shared, frame, CountsRecorded, NothingYet, Progress,
                      Recorded, StartHookRecords, AtStart, AtStop
  <1>3. CASE \E h \in Kinds : AppendHook(h)
    BY <1>1, <1>3, AppendCounts
  <1>4. ASSUME NEW p \in Procs, CallStart(p) \/ CallStop(p) \/ Step(p)
        PROVE  CountsRecorded'
    <2>1. CASE StartEnter(p)
      BY <1>1, <2>1, StartEnterCounts
    <2>2. CASE StartSkip(p) \/ StartRecord(p) \/ IncLoad(p) \/ IncStore(p)
      BY <1>1, <2>2, StartCounts
    <2>3. CASE StopPick(p) \/ StopSkip(p) \/ DecLoad(p) \/ DecStore(p)
      BY <1>1, <2>3, StopCounts
    <2> QED  BY <1>1, <1>4, <2>1, <2>2, <2>3, SilentSteps
             DEF Step, OwnStep, HookReturns
  <1> QED  BY <1>2, <1>3, <1>4, LifecycleSteps

\* The counts stay recorded for every client that calls Start once.
LEMMA AnyRace == AnySpec => []RaceInv
  <1>1. AppInit => RaceInv
    <2>1. Init => /\ numStarted = 0 /\ Len(hooks) \in Nat
                  /\ \A k \in Procs : reg[k] = 0 /\ pc[k] = "idle"
      BY DEF Init
    <2>2. Len(hooks) \in Nat => Covered(hooks, StartHookRecords, 0)
      BY CoveredNone
    <2> QED  BY <2>1, <2>2 DEF AppInit, RaceInv, CountsRecorded, Recorded, NothingYet,
                               AtStart, AtStop, StartPC, StopPC
  <1>2. AppTypeOK /\ AppTypeOK' /\ Places /\ RaceInv /\ [AnyNext]_appVars => RaceInv'
    BY RaceStep
  <1> QED  BY <1>1, <1>2, AnyType, AnyPlaces, PTL DEF AnySpec

\* As long as Start is called once, an OnStop is only called for a hook whose
\* OnStart, if it has one, returned nil, whatever the client does otherwise and
\* however the goroutines of its calls race for numStarted.
THEOREM StopsStarted == AnySpec => StopsOnlyStarted
  <1>1. ASSUME AppTypeOK, RaceInv, [AnyNext]_appVars, NEW k \in Procs,
               pc[k] # "inOnStop", pc'[k] = "inOnStop", hooks[pos[k]].onStart,
               OneStart
        PROVE  pos[k] \in StartHookRecords
    <2>1. TypeOK /\ pc' # pc
      BY <1>1 DEF AppTypeOK
    <2>2. PICK p \in Procs : CallStart(p) \/ CallStop(p) \/ Step(p)
      BY <2>1, LifecycleSteps, <1>1 DEF vars, frame, AppendHook
    <2>3. p = k
      BY <1>1, <2>1, <2>2, StepFrame
    <2>4. CallOnStop(k)
      BY <1>1, <2>1, <2>2, <2>3
         DEF Step, OwnStep, HookReturns, StartEnter, StopEnter, StartSkip, CallOnStart,
             StartRecord, IncLoad, IncStore, StartReturn, OnStartOk, OnStartFails,
             StopCheck, StopPick, StopSkip, StopPanic, StopRecord, StopRecordErr,
             StopLogged, DecLoad, DecStore, StopReturn, OnStopReturn, CallStart, CallStop, Goto,
             TypeOK
    <2>5. pos[k] >= 1 /\ Recorded(pos[k]) /\ pos[k] \in Nat
      BY <1>1, <2>1, <2>4 DEF RaceInv, CountsRecorded, CallOnStop, TypeOK
    <2> QED  BY <1>1, <2>5 DEF Recorded, Covered
  <1>2. AppTypeOK /\ RaceInv /\ [AnyNext]_appVars =>
          [\A k \in Procs :
             /\ pc[k] # "inOnStop" /\ pc'[k] = "inOnStop" /\ hooks[pos[k]].onStart
             /\ OneStart
             => pos[k] \in StartHookRecords]_appVars
    BY <1>1
  <1> QED  BY <1>2, AnyType, AnyRace, PTL DEF AnySpec, StopsOnlyStarted

-----------------------------------------------------------------------------
(* A single goroutine in Stop, next to any number of Starts. *)

\* A rollback follows an error.
Undoing == \A k \in Procs : stage[k] = "rollback" => startErr[k] # "nil"

\* A goroutine that has entered Stop has done so for good.
LEMMA StopPasses ==
    ASSUME AppTypeOK, Places, Undoing, [AnyNext]_appVars
    PROVE  Undoing' /\ \A k \in Procs : Stops(k) => Stops(k)'
  <1> USE DEF AppTypeOK, Undoing, Stops
  <1>1. CASE UNCHANGED <<op, stage, startErr>>
    BY <1>1
  <1>2. UNCHANGED appVars \/ Environment => UNCHANGED <<op, stage, startErr>>
    BY DEF appVars, callVars, Environment, CtxEnds
  <1>3. ASSUME NEW k \in Procs, NEW o \in {"start", "stop"}, Call(k, o)
        PROVE  Undoing' /\ \A j \in Procs : Stops(j) => Stops(j)'
    <2>1. stage[k] = "none"
      BY <1>3 DEF Call, Places, PlaceOf
    <2> QED  BY <1>3, <2>1 DEF Call
  <1>4. ASSUME NEW k \in Procs, GoroutineStep(k)
        PROVE  Undoing' /\ \A j \in Procs : Stops(j) => Stops(j)'
    <2>1. /\ UNCHANGED op
          /\ \A j \in Procs : j # k => stage'[j] = stage[j] /\ startErr'[j] = startErr[j]
      BY <1>4, CallStep
    <2>2. /\ stage'[k] = "rollback" => startErr'[k] # "nil"
          /\ Stops(k) => Stops(k)'
      <3>1. CASE UNCHANGED <<appErr, callVars>>
        BY <3>1 DEF callVars
      <3>2. CASE ShortCircuit(k) \/ StartOk(k) \/ RollbackDone(k) \/ StopDone(k)
        BY <3>2 DEF ShortCircuit, StartOk, RollbackDone, StopDone, Send, Places, PlaceOf
      <3>3. CASE Enter(k)
        BY <3>3 DEF Enter
      <3>4. CASE StartFailed(k)
        BY <3>4 DEF StartFailed
      <3> QED  BY <1>4, <3>1, <3>2, <3>3, <3>4 DEF GoroutineStep
    <2> QED  BY <2>1, <2>2
  <1>5. ASSUME NEW k \in Procs, CallbackReturns(k) \/ CallerStep(k)
        PROVE  UNCHANGED <<op, stage, startErr>>
    BY <1>5 DEF CallbackReturns, CallerStep, SelectCtx, SelectChan, ReadRecords,
                ReadRunning, callVars
  <1> QED  BY <1>1, <1>2, <1>3, <1>4, <1>5 DEF AnyNext, AnyCall, Body

\* The single goroutine in Stop never takes numStarted, or its copy of it, below
\* the hook it is at.
CountsBelow ==
    /\ numStarted >= 0
    /\ \A k \in Procs :
          /\ reg[k] >= 0
          /\ pc[k] = "stopPick" \/ AtStop(k) => numStarted >= 1
          /\ pc[k] = "decStore" => reg[k] >= 1
BelowInv == OneStop => CountsBelow

\* Every step of a goroutine keeps that while no other is in Stop.
LEMMA BelowOwnStep ==
    ASSUME TypeOK, CountsBelow, NEW p \in Procs,
           \A r \in Procs : pc[p] \in StopPC /\ pc[r] \in StopPC => p = r,
           CallStart(p) \/ CallStop(p) \/ Step(p)
    PROVE  CountsBelow'
  <1>1. \A r \in Procs : r # p => pc'[r] = pc[r] /\ reg'[r] = reg[r]
    BY StepFrame
  <1>2. /\ numStarted \in Int /\ reg[p] \in Int /\ reg[p] >= 0 /\ numStarted >= 0
        /\ pc[p] = "decStore" => reg[p] >= 1
        /\ pc[p] = "stopPick" \/ AtStop(p) => numStarted >= 1
    BY DEF TypeOK, CountsBelow
  <1>3. CASE IncStore(p)
    <2>1. numStarted' >= 1 /\ reg'[p] = 0 /\ pc'[p] = "startLoop"
      BY <1>2, <1>3 DEF IncStore, Goto, TypeOK
    <2>2. numStarted' \in Int
      BY <1>2, <1>3 DEF IncStore
    <2> QED  BY <1>1, <2>1, <2>2 DEF CountsBelow, AtStop, StopPC
  <1>4. CASE DecStore(p)
    <2>1. numStarted' >= 0 /\ reg'[p] = 0 /\ pc'[p] = "stopLoop" /\ pc[p] = "decStore"
      BY <1>2, <1>4 DEF DecStore, Goto, TypeOK
    <2>2. \A r \in Procs : pc'[r] # "stopPick" /\ ~ AtStop(r)'
      BY <1>1, <2>1 DEF AtStop, StopPC
    <2>3. \A r \in Procs : pc'[r] # "decStore"
      BY <2>2 DEF AtStop, StopPC
    <2> QED  BY <1>1, <2>1, <2>2, <2>3 DEF CountsBelow
  <1>5. CASE IncLoad(p) \/ DecLoad(p)
    <2>1. /\ UNCHANGED numStarted /\ reg'[p] = numStarted
          /\ pc'[p] \in {"incStore", "decStore"}
          /\ AtStop(p)' => AtStop(p)
      BY <1>5 DEF IncLoad, DecLoad, Goto, TypeOK, shared, AtStop, StopPC
    <2>2. pc'[p] = "decStore" => AtStop(p)'
      BY DEF AtStop, StopPC
    <2> QED  BY <1>1, <1>2, <2>1, <2>2 DEF CountsBelow, AtStop
  <1>6. CASE UNCHANGED <<numStarted, reg>> /\ pc'[p] # "decStore"
               /\ (pc'[p] = "stopPick" \/ AtStop(p)' =>
                      AtStop(p) \/ numStarted >= 1)
    BY <1>1, <1>2, <1>6 DEF CountsBelow, AtStop
  <1> USE DEF Goto, TypeOK, shared, AtStop, StopPC
  <1>7. CASE CallStart(p) \/ CallStop(p)
    BY <1>6, <1>7 DEF CallStart, CallStop
  <1>8. CASE HookReturns(p)
    BY <1>6, <1>8 DEF HookReturns, OnStartOk, OnStartFails, OnStopReturn
  <1>9. CASE StartEnter(p) \/ StartSkip(p) \/ CallOnStart(p) \/ StartRecord(p)
               \/ StartReturn(p)
    BY <1>6, <1>9 DEF StartEnter, StartSkip, CallOnStart, StartRecord, StartReturn
  <1>10. CASE StopEnter(p) \/ StopCheck(p) \/ StopPick(p) \/ StopSkip(p)
                \/ StopPanic(p) \/ StopReturn(p)
    BY <1>2, <1>6, <1>10 DEF StopEnter, StopCheck, StopPick, StopSkip, StopPanic,
                        StopReturn
  <1>11. CASE CallOnStop(p) \/ StopRecord(p) \/ StopRecordErr(p) \/ StopLogged(p)
    BY <1>6, <1>11 DEF CallOnStop, StopRecord, StopRecordErr, StopLogged
  <1> QED  BY <1>3, <1>4, <1>5, <1>7, <1>8, <1>9, <1>10, <1>11 DEF Step, OwnStep

\* Every step of a client keeps that while one goroutine at most has entered Stop.
LEMMA BelowStep ==
    ASSUME AppTypeOK, Places, Undoing, BelowInv, [AnyNext]_appVars
    PROVE  BelowInv'
  <1> SUFFICES ASSUME OneStop'  PROVE CountsBelow'
    BY DEF BelowInv
  <1>1. OneStop
    BY StopPasses DEF OneStop
  <1>2. CountsBelow /\ TypeOK
    BY <1>1 DEF BelowInv, AppTypeOK
  <1>3. \A p, r \in Procs : pc[p] \in StopPC /\ pc[r] \in StopPC => p = r
    <2>1. \A k \in Procs : pc[k] \in StopPC => Stops(k)
      BY DEF Places, PlaceOf, Stops, StartPC, StopPC, AppTypeOK, Stage
    <2> QED  BY <1>1, <2>1 DEF OneStop
  <1>4. CASE UNCHANGED vars \/ \E h \in Kinds : AppendHook(h)
    BY <1>2, <1>4 DEF vars, shared, frame, AppendHook, CountsBelow, AtStop
  <1> QED  BY <1>2, <1>3, <1>4, BelowOwnStep, LifecycleSteps

\* With one Start and one goroutine in Stop no step panics.
LEMMA PanicStep ==
    ASSUME AppTypeOK, Places, Undoing, RaceInv, BelowInv, PanicsNeedTwo,
           [AnyNext]_appVars
    PROVE  PanicsNeedTwo'
  <1> SUFFICES ASSUME OneStart', OneStop'  PROVE Alive'
    BY DEF PanicsNeedTwo
  <1>1. OneStart /\ OneStop
    BY EarlyPasses, StopPasses DEF OneStop
  <1>2. Alive /\ CountsRecorded /\ CountsBelow /\ TypeOK
    BY <1>1 DEF PanicsNeedTwo, RaceInv, BelowInv, AppTypeOK
  <1>3. CASE UNCHANGED vars \/ \E h \in Kinds : AppendHook(h)
    BY <1>2, <1>3 DEF vars, frame, AppendHook, Alive
  <1>4. ASSUME NEW p \in Procs, CallStart(p) \/ CallStop(p) \/ Step(p)
        PROVE  Alive'
    <2>1. \A r \in Procs : r # p => pc'[r] = pc[r]
      BY <1>2, <1>4, StepFrame
    <2>2. pc'[p] # "panic"
      <3>1. numStarted \in Int /\ numStarted <= Len(hooks) /\ numStarted >= 0
        BY <1>2 DEF CountsRecorded, Recorded, Covered, CountsBelow, TypeOK
      <3>2. pc[p] = "stopPick" => numStarted \in 1..Len(hooks)
        BY <1>2, <3>1 DEF CountsBelow, TypeOK
      <3>3. ~ StopPanic(p)
        BY <3>1, <3>2 DEF StopPanic
      <3>4. CASE HookReturns(p) \/ CallStart(p) \/ CallStop(p)
        BY <1>2, <3>4 DEF HookReturns, OnStartOk, OnStartFails, OnStopReturn,
                          CallStart, CallStop, Goto, TypeOK
      <3>5. CASE OwnStep(p)
        BY <1>2, <3>3, <3>5
           DEF OwnStep, StartEnter, StartSkip, CallOnStart, StartRecord, IncLoad,
               IncStore, StartReturn, StopEnter, StopCheck, StopPick, StopSkip,
               CallOnStop, StopRecord, StopRecordErr, StopLogged, DecLoad, DecStore,
               StopReturn, Goto, TypeOK
      <3> QED  BY <1>4, <3>4, <3>5 DEF Step
    <2> QED  BY <1>2, <2>1, <2>2 DEF Alive
  <1> QED  BY <1>3, <1>4, LifecycleSteps

\* Whatever the client does, Stop panics only if Start was called twice or two
\* goroutines have entered Stop.
THEOREM PanicTakesTwo == AnySpec => []PanicsNeedTwo
  <1>1. AppInit => Undoing /\ BelowInv /\ PanicsNeedTwo
    <2>1. Init => numStarted = 0 /\ \A k \in Procs : reg[k] = 0 /\ pc[k] = "idle"
      BY DEF Init
    <2> QED  BY <2>1 DEF AppInit, Undoing, BelowInv, CountsBelow, AtStop, StopPC,
                         PanicsNeedTwo, Alive
  <1>2. AppTypeOK /\ Places /\ Undoing /\ [AnyNext]_appVars => Undoing'
    BY StopPasses
  <1>3. AppTypeOK /\ Places /\ Undoing /\ BelowInv /\ [AnyNext]_appVars => BelowInv'
    BY BelowStep
  <1>4. AppTypeOK /\ Places /\ Undoing /\ RaceInv /\ BelowInv /\ PanicsNeedTwo
          /\ [AnyNext]_appVars => PanicsNeedTwo'
    BY PanicStep
  <1> QED  BY <1>1, <1>2, <1>3, <1>4, AnyType, AnyPlaces, AnyRace, PTL DEF AnySpec

=============================================================================
