--------------------------- MODULE ShutdownProofs ---------------------------
(***************************************************************************)
(* Theorems about Shutdown, for any number of channels and of goroutines    *)
(* that call Shutdown.                                                     *)
(***************************************************************************)
EXTENDS Shutdown, TLAPS

-----------------------------------------------------------------------------
(* Type correctness. *)

LEMMA InitType == Init => TypeOK
  BY DEF Init, TypeOK

LEMMA StepType == TypeOK /\ [Next]_vars => TypeOK'
<1> SUFFICES ASSUME TypeOK, [Next]_vars PROVE TypeOK'
  OBVIOUS
<1> USE DEF TypeOK, doneVars, senderVars, Signal
<1>1. ASSUME NEW c \in Chans, Notify(c) PROVE TypeOK'
  BY <1>1 DEF Notify
<1>2. ASSUME NEW c \in Chans, Register(c) PROVE TypeOK'
  <2>1. dones' \in Seq(Chans)
    BY <1>2 DEF Register
  <2> QED BY <1>2, <2>1 DEF Register
<1>3. ASSUME NEW c \in Chans, Receive(c) PROVE TypeOK'
  <2>1. mail' \in [Chans -> Signal \cup {"empty"}]
    BY <1>3 DEF Receive
  <2>2. heard' \in [Shutters -> SUBSET Chans]
    BY <1>3 DEF Receive
  <2> QED BY <1>3, <2>1, <2>2 DEF Receive
<1>4. ASSUME NEW b \in Shutters, BeginBroadcast(b) PROVE TypeOK'
  BY <1>4 DEF BeginBroadcast
<1>5. ASSUME NEW b \in Shutters, TrySend(b) PROVE TypeOK'
  <2>1. mail' \in [Chans -> Signal \cup {"empty"}]
    BY <1>5 DEF TrySend
  <2>2. unsent' \in [Shutters -> Nat] /\ at' \in [Shutters -> Nat]
    BY <1>5 DEF TrySend
  <2> QED BY <1>5, <2>1, <2>2 DEF TrySend
<1>6. ASSUME NEW b \in Shutters, EndBroadcast(b) PROVE TypeOK'
  BY <1>6 DEF EndBroadcast
<1>7. ASSUME NEW s \in Signal, OsSignal(s) PROVE TypeOK'
  <2>1. mail' \in [Chans -> Signal \cup {"empty"}]
    BY <1>7 DEF OsSignal
  <2> QED BY <1>7, <2>1 DEF OsSignal
<1>8. CASE UNCHANGED vars
  BY <1>8 DEF vars
<1> QED BY <1>1, <1>2, <1>3, <1>4, <1>5, <1>6, <1>7, <1>8 DEF Next, Broadcast

-----------------------------------------------------------------------------
(* The inductive invariant. *)

LEMMA InitInv == Init => IInv
<1> SUFFICES ASSUME Init PROVE DonesStable /\ PassedHaveHeard
  BY InitType DEF IInv
<1>1. DonesStable
  BY DEF Init, DonesStable, Open
<1>2. PassedHaveHeard
  BY DEF Init, PassedHaveHeard
<1> QED BY <1>1, <1>2

\* Only Register changes dones, and it waits for every broadcast to end.
LEMMA StepDones == IInv /\ [Next]_vars => DonesStable'
<1> SUFFICES ASSUME IInv, [Next]_vars PROVE DonesStable'
  OBVIOUS
<1> USE DEF IInv, TypeOK, DonesStable, Open, doneVars, senderVars
<1>1. ASSUME NEW c \in Chans, Notify(c) PROVE DonesStable'
  BY <1>1 DEF Notify
<1>2. ASSUME NEW c \in Chans, Register(c) PROVE DonesStable'
  <2> USE <1>2 DEF Register
  <2>1. /\ Len(dones') = Len(dones) + 1
        /\ \A i \in 1..Len(dones) : dones'[i] = dones[i]
        /\ dones'[Len(dones) + 1] = c
    OBVIOUS
  <2>2. \A i, j \in 1..Len(dones') : dones'[i] = dones'[j] => i = j
    BY <2>1
  <2>3. Open' \subseteq notified'
    BY <2>1
  <2>4. \A b \in Shutters : sender'[b] = "idle"
    OBVIOUS
  <2> QED BY <2>2, <2>3, <2>4
<1>3. ASSUME NEW c \in Chans, Receive(c) PROVE DonesStable'
  BY <1>3 DEF Receive
<1>4. ASSUME NEW b \in Shutters, BeginBroadcast(b) PROVE DonesStable'
  BY <1>4 DEF BeginBroadcast
<1>5. ASSUME NEW b \in Shutters, TrySend(b) PROVE DonesStable'
  BY <1>5 DEF TrySend
<1>6. ASSUME NEW b \in Shutters, EndBroadcast(b) PROVE DonesStable'
  BY <1>6 DEF EndBroadcast
<1>7. ASSUME NEW s \in Signal, OsSignal(s) PROVE DonesStable'
  BY <1>7 DEF OsSignal
<1>8. CASE UNCHANGED vars
  BY <1>8 DEF vars
<1> QED BY <1>1, <1>2, <1>3, <1>4, <1>5, <1>6, <1>7, <1>8 DEF Next, Broadcast

\* A channel a broadcast has passed is emptied only by a receive, which every
\* broadcast in progress remembers.
LEMMA StepPassed == IInv /\ [Next]_vars => PassedHaveHeard'
<1> SUFFICES ASSUME IInv, [Next]_vars,
                    NEW a \in Shutters, sender'[a] = "sending",
                    NEW i \in 1..(at'[a] - 1)
             PROVE  mail'[dones'[i]] # "empty" \/ dones'[i] \in heard'[a]
  BY DEF PassedHaveHeard
<1> DEFINE Goal == mail'[dones'[i]] # "empty" \/ dones'[i] \in heard'[a]
<1> USE DEF IInv, TypeOK, DonesStable, PassedHaveHeard, Open, doneVars,
            senderVars
<1>1. ASSUME NEW c \in Chans, Notify(c) PROVE Goal
  BY <1>1 DEF Notify
<1>2. ASSUME NEW c \in Chans, Register(c) PROVE Goal
  BY <1>2 DEF Register
<1>3. ASSUME NEW c \in Chans, Receive(c) PROVE Goal
  <2> USE <1>3 DEF Receive
  <2>1. dones[i] \in Chans /\ (mail[dones[i]] # "empty" \/ dones[i] \in heard[a])
    OBVIOUS
  <2>2. CASE dones[i] = c
    BY <2>2
  <2>3. CASE dones[i] # c
    BY <2>1, <2>3
  <2> QED BY <2>2, <2>3
<1>4. ASSUME NEW b \in Shutters, BeginBroadcast(b) PROVE Goal
  <2>1. a # b
    BY <1>4 DEF BeginBroadcast
  <2> QED BY <1>4, <2>1 DEF BeginBroadcast
<1>5. ASSUME NEW b \in Shutters, TrySend(b) PROVE Goal
  <2> USE <1>5 DEF TrySend, Signal
  <2> DEFINE c == dones[at[b]]
  <2>1. c \in Chans /\ dones' = dones /\ heard' = heard /\ sender' = sender
    OBVIOUS
  <2>2. mail'[c] # "empty"
    BY <2>1
  <2>3. \A d \in Chans : mail[d] # "empty" => mail'[d] # "empty"
    BY <2>1
  <2>4. CASE a = b /\ i = at[b]
    BY <2>1, <2>2, <2>4
  <2>5. CASE ~ (a = b /\ i = at[b])
    <3>1. i \in 1..(at[a] - 1) /\ dones[i] \in Chans
      BY <2>1, <2>5
    <3> QED BY <2>1, <2>3, <3>1
  <2> QED BY <2>4, <2>5
<1>6. ASSUME NEW b \in Shutters, EndBroadcast(b) PROVE Goal
  BY <1>6 DEF EndBroadcast
<1>7. ASSUME NEW s \in Signal, OsSignal(s) PROVE Goal
  <2>1. dones[i] \in Chans /\ (mail[dones[i]] # "empty" \/ dones[i] \in heard[a])
    BY <1>7 DEF OsSignal
  <2> QED BY <1>7, <2>1 DEF OsSignal, Signal
<1>8. CASE UNCHANGED vars
  BY <1>8 DEF vars
<1> QED BY <1>1, <1>2, <1>3, <1>4, <1>5, <1>6, <1>7, <1>8 DEF Next, Broadcast

\* app.dones never changes under a broadcast, each of its channels is there once,
\* and every channel a broadcast has passed holds a signal or has delivered one.
THEOREM DoneInvariant == Spec => []IInv
<1>1. IInv /\ [Next]_vars => IInv'
  BY StepType, StepDones, StepPassed DEF IInv
<1> QED BY InitInv, <1>1, PTL DEF Spec

-----------------------------------------------------------------------------
\* Shutdown reaches every open Done channel, with or without an error, whatever
\* other broadcasts, signals and receivers do meanwhile.
THEOREM ReachesAll == Spec => ShutdownReachesAll
<1> DEFINE Reached ==
      \A b \in Shutters : sender[b] = "sending" /\ sender'[b] = "idle" =>
         \A c \in Open : mail[c] # "empty" \/ c \in heard[b]
<1>1. IInv /\ [Next]_vars => Reached
  <2> SUFFICES ASSUME IInv, [Next]_vars,
                      NEW b \in Shutters,
                      sender[b] = "sending", sender'[b] = "idle",
                      NEW c \in Open
               PROVE  mail[c] # "empty" \/ c \in heard[b]
    OBVIOUS
  <2>1. at[b] > last[b]
    <3> USE DEF doneVars, senderVars, IInv, TypeOK
    <3>1. EndBroadcast(b) \/ \E d \in Shutters : d # b /\ EndBroadcast(d)
      BY DEF Next, Broadcast, vars, Notify, Register, Receive, BeginBroadcast,
             TrySend, OsSignal
    <3>2. ASSUME NEW d \in Shutters, d # b, EndBroadcast(d) PROVE FALSE
      BY <3>2 DEF EndBroadcast
    <3> QED BY <3>1, <3>2 DEF EndBroadcast
  <2>2. PICK i \in 1..Len(dones) : c = dones[i]
    BY DEF Open
  <2>3. i \in 1..(at[b] - 1)
    BY <2>1, <2>2 DEF IInv, TypeOK, DonesStable
  <2> QED BY <2>2, <2>3 DEF IInv, PassedHaveHeard
<1> QED BY DoneInvariant, <1>1, PTL DEF Spec, ShutdownReachesAll

============================================================================
