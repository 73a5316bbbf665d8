--------------------------- MODULE LifecycleProofs ---------------------------
(***************************************************************************)
(* Theorems about Lifecycle under its serial client, for any set of         *)
(* goroutines, any number and kind of hooks and any errors.                *)
(***************************************************************************)
EXTENDS Lifecycle, SequenceTheorems, TLAPS

USE ProcsAssumption, MaxHooksAssumption, KindsAssumption, FailuresAssumption

-----------------------------------------------------------------------------
(* Types. *)

\* Combine joins two errors into an error, and keeps the fact that there is one.
LEMMA CombineError ==
    ASSUME NEW e \in Error, NEW f \in Error
    PROVE  /\ Combine(e, f) \in Error
           /\ e # "nil" \/ f # "nil" => Combine(e, f) # "nil"
           /\ e # "nil" /\ f # "nil" => Combine(e, f) = "multi"
  BY DEF Combine, Error

\* The appended hook keeps the list a list of hooks, within the bound.
LEMMA AppendHookType ==
    ASSUME TypeOK, NEW h \in Kinds, AppendHook(h)
    PROVE  TypeOK'
  <1>1. hooks' \in Seq(HookKind) /\ Len(hooks') = Len(hooks) + 1
    BY DEF TypeOK, AppendHook
  <1>2. Len(hooks') <= MaxHooks
    BY <1>1 DEF TypeOK, AppendHook
  <1> QED  BY <1>1, <1>2 DEF TypeOK, AppendHook, frame

\* A step of Start keeps the types.
LEMMA StartStepType ==
    ASSUME TypeOK, NEW p \in Procs,
           \/ CallStart(p) \/ StartEnter(p) \/ StartSkip(p) \/ CallOnStart(p)
           \/ OnStartOk(p) \/ (\E e \in Failures : OnStartFails(p, e))
           \/ StartRecord(p) \/ IncLoad(p) \/ IncStore(p) \/ StartReturn(p)
    PROVE  TypeOK'
  <1> USE DEF TypeOK, PC, StartPC, Goto, shared
  <1>1. CASE CallStart(p)    BY <1>1 DEF CallStart, Error
  <1>2. CASE StartEnter(p)   BY <1>2 DEF StartEnter
  <1>3. CASE StartSkip(p)    BY <1>3 DEF StartSkip
  <1>4. CASE CallOnStart(p)  BY <1>4 DEF CallOnStart
  <1>5. CASE OnStartOk(p)    BY <1>5 DEF OnStartOk
  <1>6. CASE \E e \in Failures : OnStartFails(p, e)
    BY <1>6 DEF OnStartFails, Error
  <1>7. CASE StartRecord(p)  BY <1>7 DEF StartRecord
  <1>8. CASE IncLoad(p)      BY <1>8 DEF IncLoad
  <1>9. CASE IncStore(p)     BY <1>9, SMTT(30) DEF IncStore
  <1>10. CASE StartReturn(p) BY <1>10 DEF StartReturn
  <1> QED  BY <1>1, <1>2, <1>3, <1>4, <1>5, <1>6, <1>7, <1>8, <1>9, <1>10

\* A step of Stop keeps the types.
LEMMA StopStepType ==
    ASSUME TypeOK, NEW p \in Procs,
           \/ CallStop(p) \/ StopEnter(p) \/ StopCheck(p) \/ StopPick(p)
           \/ StopSkip(p) \/ StopPanic(p) \/ CallOnStop(p)
           \/ (\E e \in Failures \cup {"nil"} : OnStopReturn(p, e))
           \/ StopRecord(p) \/ StopRecordErr(p) \/ StopLogged(p)
           \/ DecLoad(p) \/ DecStore(p) \/ StopReturn(p)
    PROVE  TypeOK'
  <1> USE DEF TypeOK, PC, StopPC, Goto, shared
  <1>1. CASE CallStop(p)     BY <1>1 DEF CallStop, Error
  <1>2. CASE StopEnter(p)    BY <1>2 DEF StopEnter
  <1>3. CASE StopPick(p)     BY <1>3, SMTT(30) DEF StopPick
  <1>4. CASE StopSkip(p)     BY <1>4, SMTT(30) DEF StopSkip
  <1>5. CASE StopPanic(p)    BY <1>5 DEF StopPanic
  <1>6. CASE CallOnStop(p)   BY <1>6 DEF CallOnStop
  <1>7. CASE \E e \in Failures \cup {"nil"} : OnStopReturn(p, e)
    <2> PICK e \in Failures \cup {"nil"} : OnStopReturn(p, e)  BY <1>7
    <2>1. e \in Error /\ ret[p] \in Error
      BY DEF Error
    <2>2. Combine(ret[p], e) \in Error
      BY <2>1, CombineError
    <2> QED  BY <2>2 DEF OnStopReturn
  <1>8. CASE StopRecord(p)   BY <1>8 DEF StopRecord
  <1>9. CASE StopLogged(p)   BY <1>9 DEF StopLogged
  <1>10. CASE DecLoad(p)     BY <1>10 DEF DecLoad
  <1>11. CASE DecStore(p)    BY <1>11 DEF DecStore
  <1>12. CASE StopReturn(p)  BY <1>12 DEF StopReturn
  <1>13. CASE StopRecordErr(p) BY <1>13 DEF StopRecordErr
  <1>14. CASE StopCheck(p)   BY <1>14 DEF StopCheck
  <1> QED  BY <1>1, <1>2, <1>3, <1>4, <1>5, <1>6, <1>7, <1>8, <1>9, <1>10,
              <1>11, <1>12, <1>13, <1>14

\* Every step keeps the types, also of clients whose calls overlap.
LEMMA StepType ==
    ASSUME TypeOK, [Next]_vars
    PROVE  TypeOK'
  <1>1. CASE UNCHANGED vars
    BY <1>1 DEF TypeOK, vars, shared, frame
  <1>2. CASE \E h \in Kinds : AppendHook(h)
    BY <1>2, AppendHookType
  <1>3. ASSUME NEW p \in Procs, SerialCall(p) \/ Step(p)
        PROVE  TypeOK'
    BY <1>3, StartStepType, StopStepType
       DEF SerialCall, Step, OwnStep, HookReturns
  <1> QED  BY <1>1, <1>2, <1>3 DEF Next

\* The initial state has the types.
LEMMA InitType == Init => TypeOK
  BY DEF Init, TypeOK, PC, Error

\* Type correctness of the lifecycle.
THEOREM TypeCorrect == SerialSpec => []TypeOK
  <1>1. Init => TypeOK
    BY InitType
  <1>2. TypeOK /\ [Next]_vars => TypeOK'
    BY StepType
  <1> QED  BY <1>1, <1>2, PTL DEF SerialSpec

-----------------------------------------------------------------------------
(* The inductive invariant. *)

\* While one goroutine is in Start or Stop, every other is outside, and only
\* that one can hold the mutex.
LEMMA OnlyOneInside ==
    ASSUME TypeOK, IInv, NEW p \in Procs, pc[p] # "idle"
    PROVE  /\ \A q \in Procs : q # p => pc[q] = "idle"
           /\ mu = IF pc[p] = "stopLog" THEN p ELSE NoProc
           /\ StackIsUp(p) /\ StartBounds(p) /\ numStarted \in 0..Len(hooks)
  <1>1. \A q \in Procs : q # p => pc[q] = "idle"
    BY DEF IInv
  <1>2. mu = IF pc[p] = "stopLog" THEN p ELSE NoProc
    BY <1>1 DEF IInv, TypeOK
  <1> QED  BY <1>1, <1>2 DEF IInv

\* A stack of n hooks, and one more or one less.
LEMMA Intervals ==
    ASSUME NEW n \in Nat
    PROVE  /\ (1..n) \cup {n + 1} = 1..(n + 1)
           /\ n # 0 => (1..n) \ {n} = 1..(n - 1)
           /\ 1..0 = {}
  OBVIOUS

\* The invariant holds for goroutine p and every other is outside: that is all
\* there is to check of a step of p.
LEMMA OneGoroutine ==
    ASSUME NEW p \in Procs, TypeOK',
           \A q \in Procs : q # p => pc'[q] = "idle",
           pc'[p] # "panic",
           mu' = (IF pc'[p] = "stopLog" THEN p ELSE NoProc),
           numStarted' \in 0..Len(hooks'),
           pc'[p] = "idle" => up' = 1..numStarted' /\ (fresh' => numStarted' = 0),
           StackIsUp(p)', StartBounds(p)'
    PROVE  IInv'
  <1>1. (\A a, b \in Procs : pc[a] # "idle" /\ pc[b] # "idle" => a = b)'
    OBVIOUS
  <1>2. Alive'
    BY DEF Alive
  <1>3. (\A q \in Procs : mu = q <=> pc[q] = "stopLog")'
    OBVIOUS
  <1>4. (Quiescent => up = 1..numStarted /\ (fresh => numStarted = 0))'
    BY DEF Quiescent
  <1>5. ASSUME NEW q \in Procs PROVE (StackIsUp(q) /\ StartBounds(q))'
    <2>1. CASE q = p   BY <2>1
    <2>2. CASE q # p
      BY <2>2 DEF StackIsUp, StartBounds, AtStart, AtStop, AtOnStart, AtOnStop,
                  OneUp, OneDown, StartPC, StopPC
    <2> QED  BY <2>1, <2>2
  <1> QED  BY <1>1, <1>2, <1>3, <1>4, <1>5 DEF IInv

\* A step of a goroutine in Start keeps the invariant.
LEMMA StartKeepsIInv ==
    ASSUME TypeOK, TypeOK', IInv, NEW p \in Procs,
           \/ StartEnter(p)
           \/ StartSkip(p)
           \/ CallOnStart(p)
           \/ OnStartOk(p)
           \/ (\E e \in Failures : OnStartFails(p, e))
           \/ StartRecord(p)
           \/ IncLoad(p)
           \/ IncStore(p)
           \/ StartReturn(p)
    PROVE  IInv'
  <1> USE DEF TypeOK, Goto, shared, StackIsUp, StartBounds, AtStart, AtStop,
              AtOnStart, AtOnStop, OneUp, OneDown, StartPC, StopPC
  <1>0. pc[p] # "idle"
    BY DEF StartEnter, StartSkip, CallOnStart, OnStartOk, OnStartFails,
           StartRecord, IncLoad, IncStore, StartReturn
  <1>a. /\ \A q \in Procs : q # p => pc[q] = "idle"
        /\ mu = IF pc[p] = "stopLog" THEN p ELSE NoProc
        /\ numStarted \in 0..Len(hooks)
        /\ StackIsUp(p) /\ StartBounds(p)
    BY <1>0, OnlyOneInside
  <1>1. CASE StartEnter(p)
    <2>1. up' = 1..numStarted' /\ numStarted' = 0
      BY <1>1, <1>a, Intervals DEF StartEnter
    <2>2. StackIsUp(p)'
      BY <1>1, <1>a, <2>1 DEF StartEnter
    <2>3. StartBounds(p)'
      BY <1>1, <1>a DEF StartEnter
    <2> QED  BY <1>1, <1>a, <2>1, <2>2, <2>3, OneGoroutine DEF StartEnter
  <1>2. CASE StartSkip(p)
    <2>0. up = 1..numStarted /\ numStarted + 1 = pos[p] /\ numStarted \in Nat
      BY <1>2, <1>a DEF StartSkip
    <2>1. up' = 1..(numStarted' + 1)
      BY <1>2, <2>0, Intervals DEF StartSkip
    <2>2. StackIsUp(p)'
      BY <1>2, <1>a, <2>1 DEF StartSkip
    <2>3. StartBounds(p)'
      BY <1>2, <1>a DEF StartSkip
    <2> QED  BY <1>2, <1>a, <2>1, <2>2, <2>3, OneGoroutine DEF StartSkip
  <1>3. CASE CallOnStart(p)
    <2>1. StackIsUp(p)' /\ StartBounds(p)'
      BY <1>3, <1>a DEF CallOnStart
    <2> QED  BY <1>3, <1>a, <2>1, OneGoroutine DEF CallOnStart
  <1>4. CASE OnStartOk(p)
    <2>0. up = 1..numStarted /\ numStarted + 1 = pos[p] /\ numStarted \in Nat
      BY <1>4, <1>a DEF OnStartOk
    <2>1. up' = 1..(numStarted' + 1)
      BY <1>4, <2>0, Intervals DEF OnStartOk
    <2>2. StackIsUp(p)'
      BY <1>4, <1>a, <2>1 DEF OnStartOk
    <2>3. StartBounds(p)'
      BY <1>4, <1>a DEF OnStartOk
    <2> QED  BY <1>4, <1>a, <2>1, <2>2, <2>3, OneGoroutine DEF OnStartOk
  <1>5. CASE \E e \in Failures : OnStartFails(p, e)
    <2>1. up' = 1..numStarted' /\ ~ fresh'
      BY <1>5, <1>a DEF OnStartFails
    <2>2. StackIsUp(p)'
      BY <1>5, <1>a, <2>1 DEF OnStartFails
    <2>3. StartBounds(p)'
      BY <1>5, <1>a DEF OnStartFails
    <2>4. /\ pc'[p] = "idle" /\ mu' = NoProc /\ numStarted' \in 0..Len(hooks')
          /\ \A q \in Procs : q # p => pc'[q] = "idle"
      BY <1>5, <1>a DEF OnStartFails
    <2> QED  BY <2>1, <2>2, <2>3, <2>4, OneGoroutine
  <1>6. CASE StartRecord(p)
    <2>1. StackIsUp(p)' /\ StartBounds(p)'
      BY <1>6, <1>a DEF StartRecord
    <2> QED  BY <1>6, <1>a, <2>1, OneGoroutine DEF StartRecord
  <1>7. CASE IncLoad(p)
    <2>1. StackIsUp(p)' /\ StartBounds(p)'
      BY <1>7, <1>a DEF IncLoad
    <2> QED  BY <1>7, <1>a, <2>1, OneGoroutine DEF IncLoad
  <1>8. CASE IncStore(p)
    <2>1. numStarted' = numStarted + 1 /\ up' = 1..numStarted'
      BY <1>8, <1>a DEF IncStore
    <2>2. StackIsUp(p)'
      BY <1>8, <1>a, <2>1 DEF IncStore
    <2>3. StartBounds(p)'
      BY <1>8, <1>a DEF IncStore
    <2>4. numStarted' \in 0..Len(hooks')
      BY <1>8, <1>a, <2>1 DEF IncStore
    <2>5. /\ pc'[p] = "startLoop" /\ mu' = NoProc
          /\ \A q \in Procs : q # p => pc'[q] = "idle"
      BY <1>8, <1>a DEF IncStore
    <2> QED  BY <2>2, <2>3, <2>4, <2>5, OneGoroutine
  <1>9. CASE StartReturn(p)
    <2>1. StackIsUp(p)' /\ StartBounds(p)'
      BY <1>9, <1>a DEF StartReturn
    <2> QED  BY <1>9, <1>a, <2>1, OneGoroutine DEF StartReturn
  <1> QED  BY <1>1, <1>2, <1>3, <1>4, <1>5, <1>6, <1>7, <1>8, <1>9

\* A step of a goroutine in Stop keeps the invariant.
LEMMA StopKeepsIInv ==
    ASSUME TypeOK, TypeOK', IInv, NEW p \in Procs,
           \/ StopEnter(p)
           \/ StopCheck(p)
           \/ StopPick(p)
           \/ StopSkip(p)
           \/ StopPanic(p)
           \/ CallOnStop(p)
           \/ (\E e \in Failures \cup {"nil"} : OnStopReturn(p, e))
           \/ StopRecord(p)
           \/ StopRecordErr(p)
           \/ StopLogged(p)
           \/ DecLoad(p)
           \/ DecStore(p)
           \/ StopReturn(p)
    PROVE  IInv'
  <1> USE DEF TypeOK, Goto, shared, StackIsUp, StartBounds, AtStart, AtStop,
              AtOnStart, AtOnStop, OneUp, OneDown, StartPC, StopPC
  <1>0. pc[p] # "idle"
    BY DEF StopEnter, StopCheck, StopPick, StopSkip, StopPanic, CallOnStop, OnStopReturn,
           StopRecord, StopRecordErr, StopLogged, DecLoad, DecStore, StopReturn
  <1>a. /\ \A q \in Procs : q # p => pc[q] = "idle"
        /\ mu = IF pc[p] = "stopLog" THEN p ELSE NoProc
        /\ numStarted \in 0..Len(hooks)
        /\ StackIsUp(p) /\ StartBounds(p)
    BY <1>0, OnlyOneInside
  <1>1. CASE StopEnter(p)
    <2>1. StackIsUp(p)' /\ StartBounds(p)'
      BY <1>1, <1>a DEF StopEnter
    <2> QED  BY <1>1, <1>a, <2>1, OneGoroutine DEF StopEnter
  <1>2. CASE StopPick(p)
    <2>1. up' = 1..numStarted' /\ numStarted' >= 1
      BY <1>2, <1>a DEF StopPick
    <2>2. StackIsUp(p)'
      BY <1>2, <1>a, <2>1 DEF StopPick
    <2>3. StartBounds(p)'
      BY <1>2, <1>a DEF StopPick
    <2> QED  BY <1>2, <1>a, <2>1, <2>2, <2>3, OneGoroutine DEF StopPick
  <1>3. CASE StopSkip(p)
    <2>0. up = 1..numStarted /\ numStarted \in Nat \ {0}
      BY <1>3, <1>a DEF StopSkip
    <2>1. up' = 1..(numStarted' - 1)
      BY <1>3, <2>0, Intervals DEF StopSkip
    <2>2. StackIsUp(p)'
      BY <1>3, <1>a, <2>1 DEF StopSkip
    <2>3. StartBounds(p)'
      BY <1>3, <1>a DEF StopSkip
    <2> QED  BY <1>3, <1>a, <2>1, <2>2, <2>3, OneGoroutine, ZenonT(30) DEF StopSkip
  <1>4. CASE StopPanic(p)
    <2>1. StackIsUp(p)' /\ StartBounds(p)'
      BY <1>4, <1>a DEF StopPanic
    <2> QED  BY <1>4, <1>a, <2>1, OneGoroutine DEF StopPanic
  <1>5. CASE CallOnStop(p)
    <2>0. up = 1..numStarted /\ numStarted = pos[p] /\ numStarted \in Nat \ {0}
      BY <1>5, <1>a DEF CallOnStop
    <2>1. up' = 1..(numStarted' - 1)
      BY <1>5, <2>0, Intervals DEF CallOnStop
    <2>2. StackIsUp(p)'
      BY <1>5, <1>a, <2>1 DEF CallOnStop
    <2>3. StartBounds(p)'
      BY <1>5, <1>a DEF CallOnStop
    <2> QED  BY <1>5, <1>a, <2>1, <2>2, <2>3, OneGoroutine, ZenonT(30) DEF CallOnStop
  <1>6. CASE \E e \in Failures \cup {"nil"} : OnStopReturn(p, e)
    <2>1. pc'[p] \in {"stopRecord", "stopRecordErr"}
      BY <1>6, <1>a DEF OnStopReturn
    <2>2. StackIsUp(p)'
      BY <1>6, <1>a, <2>1 DEF OnStopReturn
    <2>3. StartBounds(p)'
      BY <1>6, <1>a DEF OnStopReturn
    <2>4. /\ mu' = NoProc /\ numStarted' \in 0..Len(hooks')
          /\ \A q \in Procs : q # p => pc'[q] = "idle"
      BY <1>6, <1>a DEF OnStopReturn
    <2> QED  BY <2>1, <2>2, <2>3, <2>4, OneGoroutine
  <1>7. CASE StopRecord(p)
    <2>1. StackIsUp(p)' /\ StartBounds(p)'
      BY <1>7, <1>a DEF StopRecord
    <2> QED  BY <1>7, <1>a, <2>1, OneGoroutine DEF StopRecord
  <1>8. CASE StopRecordErr(p)
    <2>1. StackIsUp(p)' /\ StartBounds(p)'
      BY <1>8, <1>a DEF StopRecordErr
    <2> QED  BY <1>8, <1>a, <2>1, OneGoroutine DEF StopRecordErr
  <1>9. CASE StopLogged(p)
    <2>1. StackIsUp(p)' /\ StartBounds(p)'
      BY <1>9, <1>a DEF StopLogged
    <2> QED  BY <1>9, <1>a, <2>1, OneGoroutine DEF StopLogged
  <1>10. CASE DecLoad(p)
    <2>1. StackIsUp(p)' /\ StartBounds(p)'
      BY <1>10, <1>a DEF DecLoad
    <2> QED  BY <1>10, <1>a, <2>1, OneGoroutine DEF DecLoad
  <1>11. CASE DecStore(p)
    <2>1. numStarted' = numStarted - 1 /\ up' = 1..numStarted'
      BY <1>11, <1>a DEF DecStore
    <2>2. StackIsUp(p)'
      BY <1>11, <1>a, <2>1 DEF DecStore
    <2>3. StartBounds(p)'
      BY <1>11, <1>a DEF DecStore
    <2>4. numStarted' \in 0..Len(hooks')
      BY <1>11, <1>a, <2>1 DEF DecStore
    <2>5. /\ pc'[p] = "stopLoop" /\ mu' = NoProc
          /\ \A q \in Procs : q # p => pc'[q] = "idle"
      BY <1>11, <1>a DEF DecStore
    <2> QED  BY <2>2, <2>3, <2>4, <2>5, OneGoroutine
  <1>12. CASE StopReturn(p)
    <2>1. up' = 1..numStarted' /\ numStarted' = 0
      BY <1>12, <1>a DEF StopReturn
    <2>2. StackIsUp(p)'
      BY <1>12, <1>a, <2>1 DEF StopReturn
    <2>3. StartBounds(p)'
      BY <1>12, <1>a DEF StopReturn
    <2> QED  BY <1>12, <1>a, <2>1, <2>2, <2>3, OneGoroutine DEF StopReturn
  <1>13. CASE StopCheck(p)
    <2>1. StackIsUp(p)' /\ StartBounds(p)'
      BY <1>13, <1>a DEF StopCheck
    <2> QED  BY <1>13, <1>a, <2>1, OneGoroutine DEF StopCheck
  <1> QED  BY <1>1, <1>2, <1>3, <1>4, <1>5, <1>6, <1>7, <1>8, <1>9, <1>10, <1>11, <1>12,
              <1>13

\* A call of the serial client keeps the invariant: nobody is inside, and before
\* a Start nothing is up.
LEMMA CallKeepsIInv ==
    ASSUME TypeOK, TypeOK', IInv, NEW p \in Procs, SerialCall(p)
    PROVE  IInv'
  <1> USE DEF TypeOK, Goto, shared
  <1>1. /\ \A q \in Procs : pc[q] = "idle"
        /\ mu = NoProc
        /\ numStarted \in 0..Len(hooks)
        /\ up = 1..numStarted
        /\ fresh => numStarted = 0
    BY DEF SerialCall, Quiescent, IInv
  <1>2. /\ \A q \in Procs : q # p => pc'[q] = "idle"
        /\ UNCHANGED <<numStarted, hooks, mu, up>>
        /\ \/ pc'[p] = "startEnter" /\ ~ fresh' /\ numStarted = 0
           \/ pc'[p] = "stopEnter" /\ fresh'
    BY <1>1 DEF SerialCall, CallStart, CallStop
  <1>3. StackIsUp(p)' /\ StartBounds(p)'
    BY <1>1, <1>2 DEF StackIsUp, StartBounds, AtStart, AtStop, AtOnStart,
                      AtOnStop, OneUp, OneDown, StartPC, StopPC
  <1> QED  BY <1>1, <1>2, <1>3, OneGoroutine

\* Appending a hook moves nobody and takes nothing off the stack.
LEMMA AppendKeepsIInv ==
    ASSUME TypeOK, TypeOK', IInv, NEW h \in Kinds, AppendHook(h)
    PROVE  IInv'
  <1>1. /\ UNCHANGED <<numStarted, mu, pc, pos, lim, reg, fresh, up>>
        /\ Len(hooks') = Len(hooks) + 1
    BY DEF AppendHook, frame, TypeOK
  <1>2. ASSUME NEW p \in Procs  PROVE (StackIsUp(p) /\ StartBounds(p))'
    <2>1. StackIsUp(p) /\ StartBounds(p)
      BY DEF IInv
    <2>0. \A i \in 1..Len(hooks) : hooks'[i] = hooks[i]
      BY AppendProperties, KindsAssumption DEF AppendHook, TypeOK
    <2>2. StackIsUp(p)'
      <3>1. AtOnStop(p)' => hooks'[numStarted'].onStop
        BY <1>1, <2>0, <2>1 DEF StackIsUp, AtStop, AtOnStop, StopPC, IInv
      <3> QED  BY <1>1, <2>1, <3>1 DEF StackIsUp, AtStart, AtStop, AtOnStart,
                                       AtOnStop, OneUp, OneDown
    <2>3. lim[p] <= Len(hooks) => lim'[p] <= Len(hooks')
      BY <1>1 DEF TypeOK
    <2>4. AtOnStart(p)' => hooks'[pos'[p]].onStart
      <3> SUFFICES ASSUME AtOnStart(p)  PROVE hooks'[pos[p]].onStart
        BY <1>1 DEF AtOnStart
      <3>1. pos[p] >= 1 /\ pos[p] <= lim[p] /\ lim[p] <= Len(hooks)
        BY <2>1 DEF StartBounds, AtStart, AtOnStart, StartPC
      <3>2. pos[p] \in 1..Len(hooks)
        BY <3>1 DEF TypeOK
      <3> QED  BY <2>0, <2>1, <3>2 DEF StartBounds
    <2>5. StartBounds(p)'
      BY <1>1, <2>1, <2>3, <2>4 DEF StartBounds, AtStart, AtOnStart
    <2> QED  BY <2>2, <2>5
  <1>3. numStarted' \in 0..Len(hooks')
    BY <1>1 DEF IInv, TypeOK
  <1> QED  BY <1>1, <1>2, <1>3 DEF IInv, Alive, Quiescent

\* Every step of the serial client keeps the invariant.
LEMMA StepKeepsIInv ==
    ASSUME TypeOK, IInv, [Next]_vars
    PROVE  IInv'
  <1>0. TypeOK'
    BY StepType
  <1>1. CASE UNCHANGED vars
    BY <1>1 DEF vars, shared, frame, IInv, Alive, Quiescent, StackIsUp,
                StartBounds, AtStart, AtStop, AtOnStart, AtOnStop, OneUp,
                OneDown
  <1>2. CASE \E h \in Kinds : AppendHook(h)
    BY <1>0, <1>2, AppendKeepsIInv
  <1>3. ASSUME NEW p \in Procs, SerialCall(p)  PROVE IInv'
    BY <1>0, <1>3, CallKeepsIInv
  <1>4. ASSUME NEW p \in Procs, Step(p)  PROVE IInv'
    BY <1>0, <1>4, StartKeepsIInv, StopKeepsIInv DEF Step, OwnStep, HookReturns
  <1> QED  BY <1>1, <1>2, <1>3, <1>4 DEF Next

\* The invariant holds in the initial state: nothing is appended, called or up.
LEMMA InitIInv ==
    ASSUME Init
    PROVE  IInv
  <1>1. Len(hooks) = 0 /\ 1..0 = {}
    BY DEF Init
  <1> QED  BY <1>1 DEF Init, IInv, Alive, Quiescent, StackIsUp, StartBounds,
                       AtStart, AtStop, AtOnStart, AtOnStop, OneUp, OneDown,
                       StartPC, StopPC

\* Between and during the calls of a serial client the hooks that are up are the
\* first numStarted ones, give or take the hook being started or stopped.
THEOREM Inductive == SerialSpec => []IInv
  <1>1. Init => IInv
    BY InitIInv
  <1>2. TypeOK /\ IInv /\ [Next]_vars => IInv'
    BY StepKeepsIInv
  <1> QED  BY <1>1, <1>2, TypeCorrect, PTL DEF SerialSpec

-----------------------------------------------------------------------------
(* What follows for the client. *)

\* A goroutine's steps move no other goroutine.
LEMMA MovesOnlyItself ==
    ASSUME TypeOK, NEW q \in Procs, SerialCall(q) \/ Step(q)
    PROVE  \A r \in Procs : r # q => pc'[r] = pc[r] /\ ret'[r] = ret[r]
  <1> USE DEF TypeOK, Goto
  <1>1. CASE SerialCall(q)
    BY <1>1 DEF SerialCall, CallStart, CallStop
  <1>2. CASE HookReturns(q)
    BY <1>2 DEF HookReturns, OnStartOk, OnStartFails, OnStopReturn
  <1>3. CASE OwnStep(q)
    BY <1>3 DEF OwnStep, StartEnter, StartSkip, CallOnStart, StartRecord, IncLoad,
         IncStore, StartReturn, StopEnter, StopCheck, StopPick, StopSkip, StopPanic,
         CallOnStop, StopRecord, StopRecordErr, StopLogged, DecLoad, DecStore,
         StopReturn
  <1> QED  BY <1>1, <1>2, <1>3 DEF Step

\* So a goroutine that has moved took the step itself.
LEMMA MoverSteps ==
    ASSUME TypeOK, Next, NEW p \in Procs, pc'[p] # pc[p]
    PROVE  SerialCall(p) \/ Step(p)
  <1>1. ~ \E h \in Kinds : AppendHook(h)
    BY DEF AppendHook, frame
  <1>2. PICK q \in Procs : SerialCall(q) \/ Step(q)
    BY <1>1 DEF Next
  <1> QED  BY <1>2, MovesOnlyItself

\* Which step leads where.
LEMMA EnteringAHook ==
    ASSUME TypeOK, Next, NEW p \in Procs, pc'[p] # pc[p]
    PROVE  /\ pc'[p] = "inOnStart" => CallOnStart(p)
           /\ pc'[p] = "inOnStop" => CallOnStop(p)
           /\ pc'[p] = "idle" /\ pc[p] \in StopPC => StopReturn(p)
  <1> USE DEF TypeOK, Goto, StopPC
  <1>1. CASE SerialCall(p)
    BY <1>1 DEF SerialCall, CallStart, CallStop
  <1>2. CASE HookReturns(p)
    BY <1>2 DEF HookReturns, OnStartOk, OnStartFails, OnStopReturn
  <1>3. CASE OwnStep(p)
    BY <1>3 DEF OwnStep, StartEnter, StartSkip, CallOnStart, StartRecord, IncLoad,
         IncStore, StartReturn, StopEnter, StopCheck, StopPick, StopSkip, StopPanic,
         CallOnStop, StopRecord, StopRecordErr, StopLogged, DecLoad, DecStore,
         StopReturn
  <1> QED  BY <1>1, <1>2, <1>3, MoverSteps DEF Step

\* Neither make() nor the index in Stop's loop panics, however many hooks were
\* appended, failed or lack a callback.
THEOREM NoPanic == SerialSpec => []Alive
  <1>1. IInv => Alive
    BY DEF IInv
  <1> QED  BY <1>1, Inductive, PTL

\* OnStart callbacks are called one at a time and in order.
THEOREM StartOrder == SerialSpec => StartInOrder
  <1>1. ASSUME TypeOK, IInv, Next, NEW p \in Procs,
               pc[p] # "inOnStart", pc'[p] = "inOnStart"
        PROVE  up = 1..(pos[p] - 1)
    <2>1. pc[p] = "startLoop" /\ StackIsUp(p)
      BY <1>1, EnteringAHook DEF CallOnStart, IInv
    <2> QED  BY <2>1 DEF StackIsUp, AtStart, AtStop, AtOnStart, AtOnStop,
                         OneUp, OneDown, StartPC, StopPC
  <1>2. TypeOK /\ IInv /\ [Next]_vars =>
          [\A p \in Procs : pc[p] # "inOnStart" /\ pc'[p] = "inOnStart" =>
                              up = 1..(pos[p] - 1)]_vars
    BY <1>1
  <1> QED  BY <1>2, TypeCorrect, Inductive, PTL DEF SerialSpec, StartInOrder

\* OnStop callbacks are called in reverse order, each for a hook that is up.
THEOREM StopOrder == SerialSpec => StopInReverse
  <1>1. ASSUME TypeOK, IInv, Next, NEW p \in Procs,
               pc[p] # "inOnStop", pc'[p] = "inOnStop"
        PROVE  pos[p] \in up /\ \A i \in up : i <= pos[p]
    <2>1. pc[p] = "stopMark" /\ StackIsUp(p)
      BY <1>1, EnteringAHook DEF CallOnStop, IInv
    <2>2. up = 1..pos[p] /\ pos[p] >= 1 /\ pos[p] \in Nat
      BY <1>1, <2>1 DEF StackIsUp, AtStart, AtStop, AtOnStart, AtOnStop, OneUp,
                        OneDown, StartPC, StopPC, TypeOK
    <2> QED  BY <2>2
  <1>2. TypeOK /\ IInv /\ [Next]_vars =>
          [\A p \in Procs : pc[p] # "inOnStop" /\ pc'[p] = "inOnStop" =>
             pos[p] \in up /\ \A i \in up : i <= pos[p]]_vars
    BY <1>1
  <1> QED  BY <1>2, TypeCorrect, Inductive, PTL DEF SerialSpec, StopInReverse

\* A Stop that returns has stopped every hook that was up, whatever failed.
THEOREM StopIsComplete == SerialSpec => NothingLeftUp
  <1>1. ASSUME TypeOK, IInv, Next, NEW p \in Procs,
               pc[p] \in StopPC, pc'[p] = "idle"
        PROVE  up' = {}
    <2>1. StopReturn(p) /\ StackIsUp(p) /\ numStarted \in 0..Len(hooks)
      BY <1>1, EnteringAHook DEF IInv, StopPC
    <2>2. up = 1..numStarted /\ numStarted = 0 /\ up' = up
      BY <2>1 DEF StopReturn, StackIsUp, AtStart, AtStop, AtOnStart, AtOnStop,
                  OneUp, OneDown, StartPC, StopPC
    <2> QED  BY <2>2
  <1>2. TypeOK /\ IInv /\ [Next]_vars =>
          [\A p \in Procs : pc[p] \in StopPC /\ pc'[p] = "idle" => up' = {}]_vars
    BY <1>1
  <1> QED  BY <1>2, TypeCorrect, Inductive, PTL DEF SerialSpec, NothingLeftUp

\* Stop returns an error if any OnStop did, and no error hides another.
THEOREM StopErrors == SerialSpec => StopErrorsKept
  <1>1. ASSUME TypeOK, Next, NEW p \in Procs, pc[p] \in StopPC
        PROVE  /\ ret[p] # "nil" => ret'[p] # "nil"
               /\ ret'[p] # ret[p] => ret'[p] = "multi" \/ ret[p] = "nil"
    <2>1. CASE \E h \in Kinds : AppendHook(h)
      BY <2>1 DEF AppendHook, frame
    <2>2. ASSUME NEW q \in Procs, q # p, SerialCall(q) \/ Step(q)
          PROVE  ret'[p] = ret[p]
      BY <2>2, <1>1, MovesOnlyItself
    <2>3. CASE Step(p)
      <3>1. CASE \E e \in Failures \cup {"nil"} : OnStopReturn(p, e)
        <4> PICK e \in Failures \cup {"nil"} : OnStopReturn(p, e)  BY <3>1
        <4>1. ret'[p] = Combine(ret[p], e)
          BY <1>1 DEF OnStopReturn, TypeOK
        <4> QED  BY <4>1 DEF Combine
      <3>2. CASE OwnStep(p)
        BY <3>2 DEF OwnStep, StartEnter, StartSkip, CallOnStart, StartRecord,
           IncLoad, IncStore, StartReturn, StopEnter, StopCheck, StopPick, StopSkip, StopPanic,
           CallOnStop, StopRecord, StopRecordErr, StopLogged, DecLoad, DecStore,
           StopReturn
      <3>3. ~ OnStartOk(p) /\ ~ \E e \in Failures : OnStartFails(p, e)
        BY <1>1 DEF OnStartOk, OnStartFails, StopPC
      <3> QED  BY <2>3, <3>1, <3>2, <3>3 DEF Step, HookReturns
    <2>4. ~ SerialCall(p)
      BY <1>1 DEF SerialCall, Quiescent, StopPC
    <2> QED  BY <1>1, <2>1, <2>2, <2>3, <2>4 DEF Next
  <1>2. TypeOK /\ [Next]_vars =>
          [\A p \in Procs : pc[p] \in StopPC =>
             /\ ret[p] # "nil" => ret'[p] # "nil"
             /\ ret'[p] # ret[p] => ret'[p] = "multi" \/ ret[p] = "nil"]_vars
    BY <1>1
  <1> QED  BY <1>2, TypeCorrect, PTL DEF SerialSpec, StopErrorsKept

-----------------------------------------------------------------------------
(* The records of the last Start and of the last Stop. *)

StartedBy(p) == {i \in up : hooks[i].onStart /\ ~ (pc[p] = "startRecord" /\ i = pos[p])}
StartRecordsOf(p) ==
    /\ StartHookRecords = StartedBy(p)
    /\ \A k \in 2..Len(startRecords) : startRecords[k - 1] < startRecords[k]

\* Only a goroutine inside Start or Stop moves, unless a call begins.
LEMMA InsiderSteps ==
    ASSUME TypeOK, IInv, Next, NEW p \in Procs, pc[p] # "idle"
    PROVE  Step(p) \/ \E h \in Kinds : AppendHook(h)
  <1>1. \A q \in Procs : ~ SerialCall(q)
    BY DEF SerialCall, Quiescent
  <1>2. ASSUME NEW q \in Procs, Step(q)  PROVE pc[q] # "idle"
    BY <1>2 DEF Step, OwnStep, HookReturns, StartEnter, StartSkip, CallOnStart,
       StartRecord, IncLoad, IncStore, StartReturn, StopEnter, StopCheck, StopPick, StopSkip,
       StopPanic, CallOnStop, StopRecord, StopRecordErr, StopLogged, DecLoad,
       DecStore, StopReturn, OnStartOk, OnStartFails, OnStopReturn
  <1> QED  BY <1>1, <1>2 DEF Next, IInv

\* Appending to a list of records adds one record.
LEMMA AppendRecord ==
    ASSUME NEW s \in Seq(Nat), NEW n \in Nat, NEW t, t = Append(s, n)
    PROVE  {t[i] : i \in 1..Len(t)} = {s[i] : i \in 1..Len(s)} \cup {n}
  <1>1. Len(t) = Len(s) + 1 /\ t[Len(s) + 1] = n /\ \A i \in 1..Len(s) : t[i] = s[i]
    BY AppendProperties
  <1>2. Len(s) \in Nat
    OBVIOUS
  <1>3. 1..Len(t) = (1..Len(s)) \cup {Len(s) + 1}
    BY <1>1, <1>2
  <1> QED  BY <1>1, <1>3

\* A goroutine gets into a loop by the step before it.
LEMMA EnteringALoop ==
    ASSUME TypeOK, Next, NEW p \in Procs, pc'[p] # pc[p]
    PROVE  /\ pc[p] \notin StartPC \ {"startEnter"}
                /\ pc'[p] \in StartPC \ {"startEnter"} => StartEnter(p)
           /\ pc[p] \notin StopPC \ {"stopEnter"} /\ pc'[p] \in StopPC \ {"stopEnter"}
                => StopEnter(p)
  <1> USE DEF TypeOK, Goto, StopPC, StartPC
  <1>1. CASE SerialCall(p)
    BY <1>1 DEF SerialCall, CallStart, CallStop
  <1>2. CASE HookReturns(p)
    BY <1>2 DEF HookReturns, OnStartOk, OnStartFails, OnStopReturn
  <1>3. CASE OwnStep(p)
    BY <1>3 DEF OwnStep, StartEnter, StartSkip, CallOnStart, StartRecord, IncLoad,
         IncStore, StartReturn, StopEnter, StopCheck, StopPick, StopSkip, StopPanic,
         CallOnStop, StopRecord, StopRecordErr, StopLogged, DecLoad, DecStore,
         StopReturn
  <1> QED  BY <1>1, <1>2, <1>3, MoverSteps DEF Step

\* What is up has been appended.
LEMMA UpIsHooks ==
    ASSUME TypeOK, IInv, NEW p \in Procs, pc[p] # "idle"
    PROVE  up \subseteq 1..Len(hooks)
  <1>1. StackIsUp(p) /\ StartBounds(p) /\ numStarted \in 0..Len(hooks)
    BY DEF IInv
  <1>2. OneUp(p) => numStarted + 1 <= Len(hooks)
    BY <1>1 DEF StackIsUp, StartBounds, AtStart, OneUp, StartPC, TypeOK
  <1> QED  BY <1>1, <1>2 DEF StackIsUp, OneUp, OneDown, AtStop, StopPC, TypeOK

\* The records stay exact when neither they nor the hooks they name change.
LEMMA SameStartRecords ==
    ASSUME NEW p \in Procs, StartRecordsOf(p), UNCHANGED startRecords,
           StartedBy(p)' = StartedBy(p)
    PROVE  StartRecordsOf(p)'
  BY DEF StartRecordsOf, StartHookRecords

\* The hook that was just started is added to the records.
LEMMA AddsStartRecord ==
    ASSUME startRecords \in Seq(Nat), NEW p \in Procs, pos[p] \in Nat \ {0},
           pc[p] = "startRecord", up = 1..pos[p], hooks[pos[p]].onStart,
           StartRecordsOf(p), startRecords' = Append(startRecords, pos[p]),
           UNCHANGED <<hooks, up, pos>>, pc'[p] = "inc"
    PROVE  StartRecordsOf(p)'
  <1>1. \A i \in StartedBy(p) : i < pos[p]
    BY DEF StartedBy
  <1>2. StartedBy(p)' = StartedBy(p) \cup {pos[p]}
    BY DEF StartedBy
  <1>3. StartHookRecords' = StartHookRecords \cup {pos[p]}
    BY AppendRecord DEF StartHookRecords
  <1>4. /\ Len(startRecords') = Len(startRecords) + 1
        /\ \A i \in 1..Len(startRecords) : startRecords'[i] = startRecords[i]
        /\ startRecords'[Len(startRecords) + 1] = pos[p]
    BY AppendProperties
  <1>5. \A i \in 1..Len(startRecords) : startRecords[i] < pos[p]
    BY <1>1 DEF StartRecordsOf, StartHookRecords
  <1>6. Len(startRecords) \in Nat
    OBVIOUS
  <1>7. \A k \in 2..Len(startRecords') : startRecords'[k - 1] < startRecords'[k]
    BY <1>4, <1>5, <1>6 DEF StartRecordsOf
  <1> QED  BY <1>2, <1>3, <1>7 DEF StartRecordsOf

\* A step of a goroutine in the loop of Start keeps its records exact.
LEMMA StartRecordsStep ==
    ASSUME TypeOK, IInv, TypeOK', IInv', NEW p \in Procs,
           pc[p] \in StartPC \ {"startEnter"}, StartRecordsOf(p),
           pc'[p] \in StartPC, Step(p)
    PROVE  StartRecordsOf(p)'
  <1> USE DEF TypeOK, Goto, shared, StartPC
  <1>a. StackIsUp(p) /\ StartBounds(p) /\ numStarted \in 0..Len(hooks)
    BY DEF IInv
  <1>b. pos[p] \in Nat /\ numStarted = pos[p] - 1
    BY <1>a DEF StackIsUp, AtStart
  <1>1. CASE StartSkip(p)
    <2>1. StartedBy(p)' = StartedBy(p)
      BY <1>1 DEF StartSkip, StartedBy
    <2>2. UNCHANGED startRecords
      BY <1>1 DEF StartSkip
    <2> QED  BY <2>1, <2>2, SameStartRecords
  <1>2. CASE CallOnStart(p)
    <2>1. UNCHANGED <<hooks, up, pos, startRecords>> /\ pc[p] = "startLoop"
          /\ pc'[p] = "inOnStart"
      BY <1>2 DEF CallOnStart
    <2>2. StartedBy(p)' = StartedBy(p)
      BY <2>1 DEF StartedBy
    <2> QED  BY <2>1, <2>2, SameStartRecords
  <1>3. CASE OnStartOk(p)
    <2>0. up = 1..(pos[p] - 1)
      BY <1>3, <1>a, <1>b DEF OnStartOk, StackIsUp, OneUp, OneDown, AtStop, StopPC
    <2>1. StartedBy(p)' = StartedBy(p)
      BY <1>3, <1>b, <2>0 DEF OnStartOk, StartedBy
    <2>2. UNCHANGED startRecords
      BY <1>3 DEF OnStartOk
    <2> QED  BY <2>1, <2>2, SameStartRecords
  <1>4. CASE StartRecord(p)
    <2>1. up = 1..(numStarted + 1) /\ hooks[pos[p]].onStart
      BY <1>4, <1>a DEF StartRecord, StackIsUp, StartBounds, OneUp, AtOnStart
    <2>2. pos[p] \in Nat \ {0} /\ up = 1..pos[p]
      BY <1>a, <1>b, <2>1, SMTT(30) DEF StartBounds, AtStart
    <2>3. /\ startRecords' = Append(startRecords, pos[p]) /\ pc'[p] = "inc"
          /\ pc[p] = "startRecord" /\ UNCHANGED <<hooks, up, pos>>
      BY <1>4 DEF StartRecord
    <2> QED  BY <2>1, <2>2, <2>3, AddsStartRecord
  <1>5. CASE IncLoad(p)
    <2>1. UNCHANGED <<hooks, up, startRecords>> /\ pc[p] # "startRecord"
          /\ pc'[p] # "startRecord"
      BY <1>5 DEF IncLoad
    <2>2. StartedBy(p)' = StartedBy(p)
      BY <2>1 DEF StartedBy
    <2> QED  BY <2>1, <2>2, SameStartRecords
  <1>6. CASE IncStore(p)
    <2>1. UNCHANGED <<hooks, up, startRecords>> /\ pc[p] # "startRecord"
          /\ pc'[p] # "startRecord"
      BY <1>6 DEF IncStore
    <2>2. StartedBy(p)' = StartedBy(p)
      BY <2>1 DEF StartedBy
    <2> QED  BY <2>1, <2>2, SameStartRecords
  <1>7. ~ StartReturn(p) /\ ~ \E e \in Failures : OnStartFails(p, e)
    BY DEF StartReturn, OnStartFails
  <1> QED
    BY <1>1, <1>2, <1>3, <1>4, <1>5, <1>6, <1>7
       DEF Step, OwnStep, HookReturns, StartEnter, StopEnter, StopCheck, StopPick, StopSkip,
           StopPanic, CallOnStop, StopRecord, StopRecordErr, StopLogged, DecLoad,
           DecStore, StopReturn, OnStopReturn

\* Every step keeps the records of a Start in progress exact.
LEMMA StartRecordsKept ==
    ASSUME TypeOK, IInv, TypeOK', IInv', [Next]_vars, StartRecordsExact
    PROVE  StartRecordsExact'
  <1> USE DEF TypeOK
  <1> SUFFICES ASSUME NEW p \in Procs, pc'[p] \in StartPC \ {"startEnter"}
               PROVE  StartRecordsOf(p)'
    BY DEF StartRecordsExact, StartRecordsOf, StartedBy
  <1>1. CASE pc[p] \in StartPC \ {"startEnter"}
    <2>0. StartRecordsOf(p)
      BY <1>1 DEF StartRecordsExact, StartRecordsOf, StartedBy
    <2>1. CASE UNCHANGED vars
      <3>1. UNCHANGED <<hooks, up, pos, pc, startRecords>>
        BY <2>1 DEF vars, shared, frame
      <3>2. StartedBy(p)' = StartedBy(p)
        BY <3>1 DEF StartedBy
      <3> QED  BY <2>0, <3>1, <3>2, SameStartRecords
    <2>2. CASE Step(p)
      BY <1>1, <2>0, <2>2, StartRecordsStep
    <2>3. ASSUME NEW h \in Kinds, AppendHook(h)  PROVE StartRecordsOf(p)'
      <3>1. \A i \in 1..Len(hooks) : hooks'[i] = hooks[i]
        BY <2>3, AppendProperties, KindsAssumption DEF AppendHook
      <3>a. pc[p] # "idle"
        BY <1>1 DEF StartPC
      <3>2. up \subseteq 1..Len(hooks)
        BY <3>a, UpIsHooks, Zenon
      <3>3. StartedBy(p)' = StartedBy(p)
        BY <2>3, <3>1, <3>2 DEF AppendHook, frame, StartedBy
      <3> QED  BY <2>0, <2>3, <3>3, SMTT(30)
               DEF AppendHook, StartRecordsOf, StartHookRecords
    <2> QED  BY <1>1, <2>1, <2>2, <2>3, InsiderSteps DEF StartPC
  <1>2. CASE pc[p] \notin StartPC \ {"startEnter"}
    <2>1. pc'[p] # pc[p]
      BY <1>2
    <2>2. StartEnter(p)
      BY <1>2, <2>1, EnteringALoop DEF vars, frame
    <2>3. pc[p] = "startEnter" /\ startRecords' = <<>> /\ up' = up
      BY <2>2 DEF StartEnter
    <2>4. numStarted = 0 /\ up = 1..numStarted
      BY <2>3 DEF IInv, StackIsUp, OneUp, OneDown, AtStop, StopPC
    <2>5. up' = {}
      BY <2>3, <2>4
    <2> QED  BY <2>3, <2>5 DEF StartRecordsOf, StartedBy, StartHookRecords
  <1> QED  BY <1>1, <1>2

\* The records of a Stop: hooks it has stopped, which lie above the hook it is at.
StoppedBy(p) ==
    LET done == StopHookRecords
        here == pc[p] \in {"inOnStop", "stopRecord", "stopRecordErr"}
    IN  /\ \A i \in done : i \notin up /\ hooks[i].onStop
        /\ \A i \in 1..Len(hooks), j \in done :
              i < j /\ i \notin up /\ hooks[i].onStop =>
                 i \in done \/ (here /\ i = pos[p])
        /\ \A k \in 2..Len(stopRecords) : stopRecords[k - 1] > stopRecords[k]
Passed(p) ==
    \A i \in StopHookRecords :
       /\ i \in 1..Len(hooks)
       /\ pc[p] \in {"inOnStop", "stopRecord", "stopRecordErr"} => i > pos[p]
StopRecordsOf(p) == StoppedBy(p) /\ Passed(p)
StopRecordsInv == \A p \in Procs : pc[p] \in StopPC \ {"stopEnter"} => StopRecordsOf(p)

\* A hook that is stopped and not yet recorded is added to the records.
LEMMA AddsStopRecord ==
    ASSUME stopRecords \in Seq(Nat), NEW p \in Procs,
           pc[p] \in {"stopRecord", "stopRecordErr"},
           pos[p] \in Nat, pos[p] \in 1..Len(hooks), Len(hooks) \in Nat,
           up = 1..(pos[p] - 1), hooks[pos[p]].onStop,
           StopRecordsOf(p), stopRecords' = Append(stopRecords, pos[p]),
           UNCHANGED <<hooks, up, pos>>,
           pc'[p] \in {"stopLog", "dec"}
    PROVE  StopRecordsOf(p)'
  <1>2. /\ pos[p] \in 1..Len(hooks) /\ up = 1..(pos[p] - 1)
        /\ hooks[pos[p]].onStop
    OBVIOUS
  <1>3. StopHookRecords' = StopHookRecords \cup {pos[p]}
    BY AppendRecord DEF StopHookRecords
  <1>4. \A i \in StopHookRecords : i > pos[p] /\ i \in 1..Len(hooks)
    BY DEF StopRecordsOf, Passed
  <1>5. \A k \in 2..Len(stopRecords') : stopRecords'[k - 1] > stopRecords'[k]
    <2>1. /\ Len(stopRecords') = Len(stopRecords) + 1
          /\ \A i \in 1..Len(stopRecords) : stopRecords'[i] = stopRecords[i]
          /\ stopRecords'[Len(stopRecords) + 1] = pos[p]
      BY AppendProperties
    <2>2. Len(stopRecords) \in Nat
      OBVIOUS
    <2>3. \A i \in 1..Len(stopRecords) : stopRecords[i] > pos[p]
      BY <1>4 DEF StopHookRecords
    <2>4. \A k \in 2..Len(stopRecords) : stopRecords[k - 1] > stopRecords[k]
      BY DEF StopRecordsOf, StoppedBy
    <2> QED  BY <2>1, <2>2, <2>3, <2>4, SMTT(30)
  <1>6. \A i \in StopHookRecords' : i \notin up' /\ hooks'[i].onStop
    BY <1>2, <1>3 DEF StopRecordsOf, StoppedBy
  <1>7. \A i \in 1..Len(hooks'), j \in StopHookRecords' :
          i < j /\ i \notin up' /\ hooks'[i].onStop => i \in StopHookRecords'
    BY <1>2, <1>3, <1>4 DEF StopRecordsOf, StoppedBy
  <1>8. Passed(p)'
    BY <1>2, <1>3, <1>4 DEF Passed
  <1>9. StoppedBy(p)'
    BY <1>5, <1>6, <1>7 DEF StoppedBy
  <1> QED  BY <1>8, <1>9 DEF StopRecordsOf

\* A step of a goroutine in the loop of Stop keeps its records exact.
LEMMA StopRecordsStep ==
    ASSUME TypeOK, IInv, TypeOK', IInv', NEW p \in Procs,
           pc[p] \in StopPC \ {"stopEnter"}, StopRecordsOf(p),
           pc'[p] \in StopPC, Step(p)
    PROVE  StopRecordsOf(p)'
  <1> USE DEF TypeOK, Goto, shared, StopPC
  <1>a. StackIsUp(p) /\ numStarted \in 0..Len(hooks)
    BY DEF IInv
  <1>1. CASE StopPick(p)
    <2>1. /\ UNCHANGED <<hooks, StopHookRecords, stopRecords, up>>
          /\ pc'[p] = "stopMark" /\ pc[p] = "stopPick"
      BY <1>1 DEF StopPick, StopHookRecords
    <2> QED  BY <2>1 DEF StopRecordsOf, StoppedBy, Passed
  <1>2. CASE StopSkip(p)
    <2>1. /\ UNCHANGED <<hooks, StopHookRecords, stopRecords>> /\ pc'[p] = "dec"
          /\ pc[p] = "stopPick"
          /\ up' = up \ {numStarted} /\ ~ hooks[numStarted].onStop
      BY <1>2 DEF StopSkip, StopHookRecords
    <2> QED  BY <2>1 DEF StopRecordsOf, StoppedBy, Passed
  <1>3. CASE CallOnStop(p)
    <2>1. /\ UNCHANGED <<hooks, StopHookRecords, stopRecords, pos>>
          /\ pc'[p] = "inOnStop" /\ pc[p] = "stopMark"
          /\ up' = up \ {pos[p]}
      BY <1>3 DEF CallOnStop, StopHookRecords
    <2>2. up = 1..pos[p] /\ pos[p] >= 1 /\ hooks[pos[p]].onStop
      BY <2>1, <1>a DEF StackIsUp, OneUp, OneDown, AtStop, AtOnStop
    <2>3. \A i \in StopHookRecords : i \in 1..Len(hooks) /\ i > pos[p]
      BY <2>2 DEF StopRecordsOf, StoppedBy, Passed
    <2>4. StoppedBy(p)'
      BY <2>1, <2>2, <2>3 DEF StopRecordsOf, StoppedBy
    <2>5. Passed(p)'
      BY <2>1, <2>3 DEF Passed
    <2> QED  BY <2>4, <2>5 DEF StopRecordsOf
  <1>4. CASE \E e \in Failures \cup {"nil"} : OnStopReturn(p, e)
    <2>1. /\ UNCHANGED <<hooks, StopHookRecords, stopRecords, pos, up>>
          /\ pc'[p] \in {"stopRecord", "stopRecordErr"} /\ pc[p] = "inOnStop"
      BY <1>4 DEF OnStopReturn, StopHookRecords
    <2> QED  BY <2>1 DEF StopRecordsOf, StoppedBy, Passed
  <1>5. CASE StopRecord(p)
    <2>1. /\ stopRecords' = Append(stopRecords, pos[p]) /\ pc[p] = "stopRecord"
          /\ pc'[p] \in {"stopLog", "dec"} /\ UNCHANGED <<hooks, up, pos>>
      BY <1>5 DEF StopRecord
    <2>2. /\ pos[p] \in 1..Len(hooks) /\ up = 1..(pos[p] - 1)
          /\ hooks[pos[p]].onStop /\ Len(hooks) \in Nat /\ pos[p] \in Nat
          /\ stopRecords \in Seq(Nat)
      BY <2>1, <1>a DEF StackIsUp, OneDown, AtStop, AtOnStop
    <2> QED  BY <2>1, <2>2, AddsStopRecord
  <1>6. CASE StopRecordErr(p)
    <2>1. /\ stopRecords' = Append(stopRecords, pos[p]) /\ pc[p] = "stopRecordErr"
          /\ pc'[p] \in {"stopLog", "dec"} /\ UNCHANGED <<hooks, up, pos>>
      BY <1>6 DEF StopRecordErr
    <2>2. /\ pos[p] \in 1..Len(hooks) /\ up = 1..(pos[p] - 1)
          /\ hooks[pos[p]].onStop /\ Len(hooks) \in Nat /\ pos[p] \in Nat
          /\ stopRecords \in Seq(Nat)
      BY <2>1, <1>a DEF StackIsUp, OneDown, AtStop, AtOnStop
    <2> QED  BY <2>1, <2>2, AddsStopRecord
  <1>7. CASE StopLogged(p)
    <2>1. /\ UNCHANGED <<hooks, StopHookRecords, stopRecords, up>>
          /\ {pc[p], pc'[p]} \subseteq {"stopLog", "dec", "decStore", "stopLoop"}
      BY <1>7 DEF StopLogged, StopHookRecords
    <2> QED  BY <2>1 DEF StopRecordsOf, StoppedBy, Passed
  <1>8. CASE DecLoad(p)
    <2>1. /\ UNCHANGED <<hooks, StopHookRecords, stopRecords, up>>
          /\ {pc[p], pc'[p]} \subseteq {"stopLog", "dec", "decStore", "stopLoop"}
      BY <1>8 DEF DecLoad, StopHookRecords
    <2> QED  BY <2>1 DEF StopRecordsOf, StoppedBy, Passed
  <1>9. CASE DecStore(p)
    <2>1. /\ UNCHANGED <<hooks, StopHookRecords, stopRecords, up>>
          /\ {pc[p], pc'[p]} \subseteq {"stopLog", "dec", "decStore", "stopLoop"}
      BY <1>9 DEF DecStore, StopHookRecords
    <2> QED  BY <2>1 DEF StopRecordsOf, StoppedBy, Passed
  <1>10. ~ StopReturn(p) /\ ~ StopPanic(p)
    BY DEF StopReturn, StopPanic
  <1>11. CASE StopCheck(p)
    <2>1. /\ UNCHANGED <<hooks, StopHookRecords, stopRecords, up>>
          /\ {pc[p], pc'[p]} \subseteq {"stopLoop", "stopPick"}
      BY <1>11 DEF StopCheck, StopHookRecords
    <2> QED  BY <2>1 DEF StopRecordsOf, StoppedBy, Passed
  <1> QED
    BY <1>1, <1>2, <1>3, <1>4, <1>5, <1>6, <1>7, <1>8, <1>9, <1>10, <1>11
       DEF Step, OwnStep, HookReturns, StopEnter, StartEnter, StartSkip, CallOnStart,
           StartRecord, IncLoad, IncStore, StartReturn, OnStartOk, OnStartFails

\* Every step keeps the records of a Stop in progress exact.
LEMMA StopRecordsKept ==
    ASSUME TypeOK, IInv, TypeOK', IInv', [Next]_vars, StopRecordsInv
    PROVE  StopRecordsInv'
  <1> USE DEF TypeOK
  <1> SUFFICES ASSUME NEW p \in Procs, pc'[p] \in StopPC \ {"stopEnter"}
               PROVE  StopRecordsOf(p)'
    BY DEF StopRecordsInv
  <1>1. CASE pc[p] \in StopPC \ {"stopEnter"}
    <2>0. StopRecordsOf(p)
      BY <1>1 DEF StopRecordsInv
    <2>1. CASE UNCHANGED vars
      <3>1. UNCHANGED <<hooks, up, pos, pc, stopRecords, StopHookRecords>>
        BY <2>1 DEF vars, shared, frame, StopHookRecords
      <3> QED  BY <2>0, <3>1 DEF StopRecordsOf, StoppedBy, Passed
    <2>2. CASE Step(p)
      BY <1>1, <2>0, <2>2, StopRecordsStep
    <2>3. ASSUME NEW h \in Kinds, AppendHook(h)  PROVE StopRecordsOf(p)'
      <3>1. /\ Len(hooks') = Len(hooks) + 1
            /\ \A i \in 1..Len(hooks) : hooks'[i] = hooks[i]
        BY <2>3, AppendProperties, KindsAssumption DEF AppendHook
      <3>2. UNCHANGED <<StopHookRecords, stopRecords, pc, pos, up>>
        BY <2>3 DEF AppendHook, frame, StopHookRecords
      <3>3. \A i \in StopHookRecords : i \in 1..Len(hooks) /\ i < Len(hooks')
        BY <2>0, <3>1, SMTT(30) DEF StopRecordsOf, Passed
      <3>4. Passed(p)'
        BY <2>0, <3>1, <3>2 DEF StopRecordsOf, Passed
      <3>5. StoppedBy(p)'
        <4>1. StoppedBy(p) /\ Len(hooks) \in Nat
          BY <2>0 DEF StopRecordsOf
        <4>2. \A i \in StopHookRecords : i \notin up' /\ hooks'[i].onStop
          BY <4>1, <3>1, <3>2, <3>3 DEF StoppedBy
        <4>3. \A i \in 1..Len(hooks'), j \in StopHookRecords :
                 i < j => i \in 1..Len(hooks)
          BY <4>1, <3>1, <3>3, SMTT(30)
        <4> QED  BY <4>1, <4>2, <4>3, <3>1, <3>2 DEF StoppedBy
      <3> QED  BY <3>4, <3>5 DEF StopRecordsOf
    <2> QED  BY <1>1, <2>1, <2>2, <2>3, InsiderSteps DEF StopPC
  <1>2. CASE pc[p] \notin StopPC \ {"stopEnter"}
    <2>1. StopEnter(p)
      BY <1>2, EnteringALoop DEF vars, frame
    <2>2. stopRecords' = <<>>
      BY <2>1 DEF StopEnter
    <2> QED  BY <2>2 DEF StopRecordsOf, StoppedBy, Passed, StopHookRecords
  <1> QED  BY <1>1, <1>2

\* startRecords lists exactly the hooks a Start in progress has started, in order.
THEOREM StartRecords == SerialSpec => []StartRecordsExact
  <1>1. Init => StartRecordsExact
    BY DEF Init, StartRecordsExact, StartPC
  <1>2. TypeOK /\ IInv /\ TypeOK' /\ IInv' /\ StartRecordsExact /\ [Next]_vars
          => StartRecordsExact'
    BY StartRecordsKept
  <1> QED  BY <1>1, <1>2, TypeCorrect, Inductive, PTL DEF SerialSpec

\* stopRecords lists the hooks a Stop in progress has stopped, in reverse order and
\* without a gap.
THEOREM StopRecords == SerialSpec => []StopRecordsExact
  <1>1. Init => StopRecordsInv
    BY DEF Init, StopRecordsInv, StopPC
  <1>2. TypeOK /\ IInv /\ TypeOK' /\ IInv' /\ StopRecordsInv /\ [Next]_vars
          => StopRecordsInv'
    BY StopRecordsKept
  <1>3. StopRecordsInv => StopRecordsExact
    BY DEF StopRecordsInv, StopRecordsOf, StoppedBy, StopRecordsExact
  <1> QED  BY <1>1, <1>2, <1>3, TypeCorrect, Inductive, PTL DEF SerialSpec

-----------------------------------------------------------------------------
(* Lifecycle implements HookStack. *)

\* What the mapping gives when goroutine p is inside, and when nobody is.
RunAt(p)  == IF pc[p] = "inOnStart" THEN [phase |-> "start", hook |-> pos[p]]
             ELSE IF pc[p] = "inOnStop" THEN [phase |-> "stop", hook |-> pos[p]]
             ELSE [phase |-> "none", hook |-> 0]
ModeAt(p) == IF pc[p] \in StartPC THEN "rising" ELSE "falling"
GoalAt(p) == IF pc[p] \notin StartPC THEN 0
             ELSE IF pc[p] = "startEnter" THEN Len(hooks) ELSE lim[p]
MapAt(p)  == AbsRun = RunAt(p) /\ AbsMode = ModeAt(p) /\ AbsGoal = GoalAt(p)
MapIdle   == /\ AbsRun = [phase |-> "none", hook |-> 0]
             /\ AbsMode = (IF fresh THEN "down" ELSE "settled")
             /\ AbsGoal = 0
Mapping   == /\ \A p \in Procs : pc[p] # "idle" => MapAt(p)
             /\ Quiescent => MapIdle

\* The mapping looks at the one goroutine that is inside.
LEMMA MappingHolds ==
    ASSUME TypeOK, IInv
    PROVE  Mapping
  <1>1. ASSUME NEW p \in Procs, pc[p] # "idle"  PROVE MapAt(p)
    <2>1. \A q \in Procs : q # p => pc[q] = "idle"
      BY <1>1, OnlyOneInside
    <2>2. Busy = p
      BY <1>1, <2>1 DEF Busy
    <2>3. Rising <=> pc[p] \in StartPC
      BY <1>1, <2>1 DEF Rising, StartPC
    <2>4. Falling <=> pc[p] \in StopPC
      BY <1>1, <2>1 DEF Falling, StopPC
    <2>5. pc[p] \notin StartPC <=> pc[p] \in StopPC
      BY <1>1 DEF TypeOK, IInv, Alive, PC, StartPC, StopPC
    <2>6. AbsRun = RunAt(p)
      BY <1>1, <2>1, <2>2 DEF AbsRun, RunAt
    <2>7. AbsMode = ModeAt(p)
      BY <2>3, <2>4, <2>5 DEF AbsMode, ModeAt
    <2>8. AbsGoal = GoalAt(p)
      BY <2>2, <2>3 DEF AbsGoal, GoalAt
    <2> QED  BY <2>6, <2>7, <2>8 DEF MapAt
  <1>2. Quiescent => MapIdle
    BY DEF Quiescent, MapIdle, AbsRun, AbsMode, AbsGoal, Rising, Falling, StartPC,
           StopPC
  <1> QED  BY <1>1, <1>2 DEF Mapping

\* A step of a goroutine inside Start is a HookStack step or changes nothing
\* that HookStack speaks of.
LEMMA StartRefines ==
    ASSUME TypeOK, IInv, Mapping, TypeOK', IInv', Mapping', NEW p \in Procs,
           \/ StartEnter(p)
           \/ StartSkip(p)
           \/ CallOnStart(p)
           \/ OnStartOk(p)
           \/ (\E e \in Failures : OnStartFails(p, e))
           \/ StartRecord(p)
           \/ IncLoad(p)
           \/ IncStore(p)
           \/ StartReturn(p)
    PROVE  [Promise!Next]_(Promise!vars)
  <1> USE DEF TypeOK, Goto, shared
  <1>0. pc[p] # "idle"
    BY DEF StartEnter, StartSkip, CallOnStart, OnStartOk, OnStartFails,
           StartRecord, IncLoad, IncStore, StartReturn
  <1>a. /\ \A q \in Procs : q # p => pc[q] = "idle"
        /\ numStarted \in 0..Len(hooks)
        /\ StackIsUp(p) /\ StartBounds(p)
    BY <1>0, OnlyOneInside
  <1>b. MapAt(p)
    BY <1>0 DEF Mapping
  <1> USE DEF StartPC, StopPC, MapAt, RunAt, ModeAt, GoalAt
  <1>1. CASE StartEnter(p)
    <2>1. MapAt(p)'
      BY <1>1 DEF Mapping, StartEnter
    <2> QED  BY <1>1, <1>b, <2>1 DEF Promise!vars, StartEnter
  <1>2. CASE StartSkip(p)
    <2>1. MapAt(p)'
      BY <1>2 DEF Mapping, StartSkip
    <2>2. /\ UNCHANGED hooks
          /\ pos[p] \in 1..Len(hooks) /\ pos[p] \in 1..lim[p] /\ up = 1..(pos[p] - 1)
      BY <1>2, <1>a DEF StartSkip, StackIsUp, StartBounds, AtStart, AtStop,
                        AtOnStart, AtOnStop, OneUp, OneDown
    <2>3. Promise!StartHook(pos[p])
      BY <1>2, <1>b, <2>1, <2>2 DEF Promise!StartHook, Promise!NoRun, StartSkip
    <2> QED  BY <2>2, <2>3 DEF Promise!Next, Promise!Progress
  <1>3. CASE CallOnStart(p)
    <2>1. MapAt(p)'
      BY <1>3 DEF Mapping, CallOnStart
    <2>2. /\ UNCHANGED hooks
          /\ pos[p] \in 1..Len(hooks) /\ pos[p] \in 1..lim[p] /\ up = 1..(pos[p] - 1)
      BY <1>3, <1>a DEF CallOnStart, StackIsUp, StartBounds, AtStart, AtStop,
                        AtOnStart, AtOnStop, OneUp, OneDown
    <2>3. Promise!StartHook(pos[p])
      BY <1>3, <1>b, <2>1, <2>2 DEF Promise!StartHook, Promise!NoRun, CallOnStart
    <2> QED  BY <2>2, <2>3 DEF Promise!Next, Promise!Progress
  <1>4. CASE OnStartOk(p)
    <2>1. MapAt(p)'
      BY <1>4 DEF Mapping, OnStartOk
    <2>2. /\ UNCHANGED hooks
          /\ up' = up \cup {pos[p]}
      BY <1>4, <1>a DEF OnStartOk, StackIsUp, StartBounds, AtStart, AtStop,
                        AtOnStart, AtOnStop, OneUp, OneDown
    <2>3. Promise!Started
      BY <1>4, <1>b, <2>1, <2>2 DEF Promise!Started, Promise!NoRun, OnStartOk
    <2> QED  BY <2>3 DEF Promise!Next, Promise!Progress
  <1>5. CASE \E e \in Failures : OnStartFails(p, e)
    <2>1. MapIdle'
      BY <1>5, <1>a DEF Mapping, Quiescent, OnStartFails
    <2>2. /\ UNCHANGED hooks
          /\ ~ fresh' /\ up' = up
      BY <1>5, <1>a DEF OnStartFails, StackIsUp, StartBounds, AtStart, AtStop,
                        AtOnStart, AtOnStop, OneUp, OneDown
    <2>3. Promise!StartFailed
      BY <1>5, <1>b, <2>1, <2>2
      DEF Promise!StartFailed, Promise!NoRun, OnStartFails, MapIdle
    <2> QED  BY <2>3 DEF Promise!Next, Promise!Progress
  <1>6. CASE StartRecord(p)
    <2>1. MapAt(p)'
      BY <1>6 DEF Mapping, StartRecord
    <2> QED  BY <1>6, <1>b, <2>1 DEF Promise!vars, StartRecord
  <1>7. CASE IncLoad(p)
    <2>1. MapAt(p)'
      BY <1>7 DEF Mapping, IncLoad
    <2> QED  BY <1>7, <1>b, <2>1 DEF Promise!vars, IncLoad
  <1>8. CASE IncStore(p)
    <2>1. MapAt(p)'
      BY <1>8 DEF Mapping, IncStore
    <2> QED  BY <1>8, <1>b, <2>1 DEF Promise!vars, IncStore
  <1>9. CASE StartReturn(p)
    <2>1. MapIdle'
      BY <1>9, <1>a DEF Mapping, Quiescent, StartReturn
    <2>2. /\ UNCHANGED hooks
          /\ ~ fresh' /\ up' = up /\ up = 1..lim[p]
      BY <1>9, <1>a DEF StartReturn, StackIsUp, StartBounds, AtStart, AtStop,
                        AtOnStart, AtOnStop, OneUp, OneDown
    <2>3. Promise!Risen
      BY <1>9, <1>b, <2>1, <2>2 DEF Promise!Risen, Promise!NoRun, StartReturn, MapIdle
    <2> QED  BY <2>3 DEF Promise!Next, Promise!Progress
  <1> QED  BY <1>1, <1>2, <1>3, <1>4, <1>5, <1>6, <1>7, <1>8, <1>9

\* The same for a step inside Stop.
LEMMA StopRefines ==
    ASSUME TypeOK, IInv, Mapping, TypeOK', IInv', Mapping', NEW p \in Procs,
           \/ StopEnter(p)
           \/ StopCheck(p)
           \/ StopPick(p)
           \/ StopSkip(p)
           \/ StopPanic(p)
           \/ CallOnStop(p)
           \/ (\E e \in Failures \cup {"nil"} : OnStopReturn(p, e))
           \/ StopRecord(p)
           \/ StopRecordErr(p)
           \/ StopLogged(p)
           \/ DecLoad(p)
           \/ DecStore(p)
           \/ StopReturn(p)
    PROVE  [Promise!Next]_(Promise!vars)
  <1> USE DEF TypeOK, Goto, shared
  <1>0. pc[p] # "idle"
    BY DEF StopEnter, StopCheck, StopPick, StopSkip, StopPanic, CallOnStop, OnStopReturn,
           StopRecord, StopRecordErr, StopLogged, DecLoad, DecStore, StopReturn
  <1>a. /\ \A q \in Procs : q # p => pc[q] = "idle"
        /\ numStarted \in 0..Len(hooks)
        /\ StackIsUp(p) /\ StartBounds(p)
    BY <1>0, OnlyOneInside
  <1>b. MapAt(p)
    BY <1>0 DEF Mapping
  <1> USE DEF StartPC, StopPC, MapAt, RunAt, ModeAt, GoalAt
  <1>1. CASE StopEnter(p)
    <2>1. MapAt(p)'
      BY <1>1 DEF Mapping, StopEnter
    <2> QED  BY <1>1, <1>b, <2>1 DEF Promise!vars, StopEnter
  <1>2. CASE StopPick(p)
    <2>1. MapAt(p)'
      BY <1>2 DEF Mapping, StopPick
    <2> QED  BY <1>2, <1>b, <2>1 DEF Promise!vars, StopPick
  <1>3. CASE StopSkip(p)
    <2>1. MapAt(p)'
      BY <1>3 DEF Mapping, StopSkip
    <2>2. /\ UNCHANGED hooks
          /\ numStarted \in 1..Len(hooks) /\ up = 1..numStarted
      BY <1>3, <1>a DEF StopSkip, StackIsUp, StartBounds, AtStart, AtStop,
                        AtOnStart, AtOnStop, OneUp, OneDown
    <2>3. Promise!StopHook(numStarted)
      BY <1>3, <1>b, <2>1, <2>2 DEF Promise!StopHook, Promise!NoRun, StopSkip
    <2> QED  BY <2>2, <2>3 DEF Promise!Next, Promise!Progress
  <1>4. CASE StopPanic(p)
    BY <1>4, <1>0, <1>a DEF StopPanic, StackIsUp
  <1>5. CASE CallOnStop(p)
    <2>1. MapAt(p)'
      BY <1>5 DEF Mapping, CallOnStop
    <2>2. /\ UNCHANGED hooks
          /\ pos[p] \in 1..Len(hooks) /\ up = 1..pos[p] /\ hooks[pos[p]].onStop
      BY <1>5, <1>a DEF CallOnStop, StackIsUp, StartBounds, AtStart, AtStop,
                        AtOnStart, AtOnStop, OneUp, OneDown
    <2>3. Promise!StopHook(pos[p])
      BY <1>5, <1>b, <2>1, <2>2 DEF Promise!StopHook, Promise!NoRun, CallOnStop
    <2> QED  BY <2>2, <2>3 DEF Promise!Next, Promise!Progress
  <1>6. CASE \E e \in Failures \cup {"nil"} : OnStopReturn(p, e)
    <2>1. MapAt(p)'
      BY <1>6 DEF Mapping, OnStopReturn
    <2>2. /\ UNCHANGED hooks
          /\ up' = up
      BY <1>6, <1>a DEF OnStopReturn, StackIsUp, StartBounds, AtStart, AtStop,
                        AtOnStart, AtOnStop, OneUp, OneDown
    <2>3. Promise!Stopped
      BY <1>6, <1>b, <2>1, <2>2 DEF Promise!Stopped, Promise!NoRun, OnStopReturn
    <2> QED  BY <2>3 DEF Promise!Next, Promise!Progress
  <1>7. CASE StopRecord(p)
    <2>1. MapAt(p)'
      BY <1>7 DEF Mapping, StopRecord
    <2> QED  BY <1>7, <1>b, <2>1 DEF Promise!vars, StopRecord
  <1>8. CASE StopRecordErr(p)
    <2>1. MapAt(p)'
      BY <1>8 DEF Mapping, StopRecordErr
    <2> QED  BY <1>8, <1>b, <2>1 DEF Promise!vars, StopRecordErr
  <1>9. CASE StopLogged(p)
    <2>1. MapAt(p)'
      BY <1>9 DEF Mapping, StopLogged
    <2> QED  BY <1>9, <1>b, <2>1 DEF Promise!vars, StopLogged
  <1>10. CASE DecLoad(p)
    <2>1. MapAt(p)'
      BY <1>10 DEF Mapping, DecLoad
    <2> QED  BY <1>10, <1>b, <2>1 DEF Promise!vars, DecLoad
  <1>11. CASE DecStore(p)
    <2>1. MapAt(p)'
      BY <1>11 DEF Mapping, DecStore
    <2> QED  BY <1>11, <1>b, <2>1 DEF Promise!vars, DecStore
  <1>12. CASE StopReturn(p)
    <2>1. MapIdle'
      BY <1>12, <1>a DEF Mapping, Quiescent, StopReturn
    <2>2. /\ UNCHANGED hooks
          /\ fresh' /\ up' = up /\ up = {}
      BY <1>12, <1>a DEF StopReturn, StackIsUp, StartBounds, AtStart, AtStop,
                         AtOnStart, AtOnStop, OneUp, OneDown
    <2>3. Promise!Fallen
      BY <1>12, <1>b, <2>1, <2>2 DEF Promise!Fallen, Promise!NoRun, StopReturn, MapIdle
    <2> QED  BY <2>3 DEF Promise!Next, Promise!Progress
  <1>13. CASE StopCheck(p)
    <2>1. MapAt(p)'
      BY <1>13 DEF Mapping, StopCheck
    <2> QED  BY <1>13, <1>b, <2>1 DEF Promise!vars, StopCheck
  <1> QED  BY <1>1, <1>2, <1>3, <1>4, <1>5, <1>6, <1>7, <1>8, <1>9, <1>10, <1>11, <1>12,
              <1>13

\* A call begins a rise or a fall, and an appended hook is only added.
LEMMA EnvironmentRefines ==
    ASSUME TypeOK, IInv, Mapping, TypeOK', IInv', Mapping',
           \/ \E p \in Procs : SerialCall(p)
           \/ \E h \in Kinds : AppendHook(h)
    PROVE  Promise!Next
  <1>1. ASSUME NEW p \in Procs, SerialCall(p)  PROVE Promise!Next
    <2>1. MapIdle
      BY <1>1 DEF SerialCall, Mapping
    <2>2. CASE fresh /\ CallStart(p)
      <3>1. MapAt(p)'
        BY <2>2 DEF Mapping, CallStart, Goto, TypeOK
      <3>2. Promise!Rise
        BY <2>1, <2>2, <3>1 DEF Promise!Rise, MapIdle, MapAt, RunAt, ModeAt, GoalAt,
             StartPC, CallStart, Goto, TypeOK, shared
      <3> QED  BY <3>2 DEF Promise!Next
    <2>3. CASE CallStop(p)
      <3>1. MapAt(p)'
        BY <2>3 DEF Mapping, CallStop, Goto, TypeOK
      <3>2. Promise!Fall
        BY <2>1, <2>3, <3>1 DEF Promise!Fall, MapIdle, MapAt, RunAt, ModeAt, GoalAt,
             StartPC, CallStop, Goto, TypeOK, shared
      <3> QED  BY <3>2 DEF Promise!Next
    <2> QED  BY <1>1, <2>2, <2>3 DEF SerialCall
  <1>2. ASSUME NEW h \in Kinds, AppendHook(h)  PROVE Promise!Next
    <2>1. CASE Quiescent
      <3>1. MapIdle /\ MapIdle'
        BY <1>2, <2>1 DEF Mapping, Quiescent, AppendHook, frame
      <3>2. Promise!Add(h)
        BY <1>2, <3>1 DEF Promise!Add, MapIdle, AppendHook
      <3> QED  BY <3>2, KindsAssumption DEF Promise!Next, HookKind, Promise!HookKind
    <2>2. CASE \E p \in Procs : pc[p] \in InHook
      <3> PICK p \in Procs : pc[p] \in InHook  BY <2>2
      <3>1. pc[p] # "idle" /\ pc'[p] # "idle" /\ UNCHANGED <<pc, pos, lim, up>>
        BY <1>2 DEF InHook, AppendHook, frame
      <3>2. MapAt(p) /\ MapAt(p)'
        BY <3>1 DEF Mapping
      <3>3. AbsRun # Promise!NoRun /\ UNCHANGED <<AbsRun, AbsMode, AbsGoal>>
        BY <3>1, <3>2 DEF MapAt, RunAt, ModeAt, GoalAt, InHook, Promise!NoRun
      <3>4. Promise!Add(h)
        BY <1>2, <3>1, <3>3 DEF Promise!Add, AppendHook
      <3> QED  BY <3>4, KindsAssumption DEF Promise!Next, HookKind, Promise!HookKind
    <2> QED  BY <1>2, <2>1, <2>2 DEF AppendHook
  <1> QED  BY <1>1, <1>2

\* For a serial client a lifecycle is a HookStack: hooks go up from the bottom
\* until one fails, come down from the top until none is left, one callback at a
\* time.
THEOREM Refinement == SerialSpec => Promise!Spec
  <1>1. Init => Promise!Init
    BY DEF Init, Promise!Init, Promise!NoRun, AbsRun, AbsMode, AbsGoal, Rising,
           Falling, StartPC, StopPC
  <1>2. /\ TypeOK /\ IInv /\ Mapping /\ TypeOK' /\ IInv' /\ Mapping' /\ [Next]_vars
        => [Promise!Next]_(Promise!vars)
    <2> SUFFICES ASSUME TypeOK, IInv, Mapping, TypeOK', IInv', Mapping', [Next]_vars
                 PROVE  [Promise!Next]_(Promise!vars)
      OBVIOUS
    <2>1. CASE UNCHANGED vars
      BY <2>1 DEF vars, shared, frame, Promise!vars, AbsRun, AbsMode, AbsGoal,
                  Rising, Falling, Busy
    <2>2. ASSUME NEW p \in Procs, Step(p)  PROVE [Promise!Next]_(Promise!vars)
      BY <2>2, StartRefines, StopRefines DEF Step, OwnStep, HookReturns
    <2> QED  BY <2>1, <2>2, EnvironmentRefines DEF Next
  <1>3. TypeOK /\ IInv => Mapping
    BY MappingHolds
  <1> QED  BY <1>1, <1>2, <1>3, TypeCorrect, Inductive, PTL
           DEF SerialSpec, Promise!Spec

============================================================================
