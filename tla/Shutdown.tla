------------------------------ MODULE Shutdown ------------------------------
(***************************************************************************)
(* Done channels and the Shutdowner (src/app.go, src/shutdown.go).  Done    *)
(* makes a channel of capacity 1, subscribes it to SIGINT and SIGTERM and   *)
(* then adds it to app.dones.  Shutdown walks app.dones under the read lock *)
(* and sends SIGTERM to each channel that has room; a signal of the         *)
(* operating system reaches each subscribed channel that has room.          *)
(***************************************************************************)
EXTENDS Integers, Sequences

CONSTANTS
    Chans,      \* the channels that Done makes, one for each call
    Shutters    \* the goroutines that call Shutdown

VARIABLES
    notified,   \* the channels subscribed with signal.Notify
    dones,      \* app.dones
    mail,       \* per channel: the signal in its buffer, or "empty"
    sender,     \* per goroutine: "idle", or "sending" with the read lock held
    at,         \* per goroutine: the index in dones it is at
    last,       \* per goroutine: length of the slice that "range" walks
    unsent,     \* per goroutine: how many channels were full
    answer,     \* per goroutine: what its last Shutdown returned
    heard       \* history, per goroutine: the channels a signal was received
                \* from since its Shutdown began

doneVars   == <<notified, dones>>
senderVars == <<sender, at, last, unsent, answer>>
vars       == <<doneVars, mail, senderVars, heard>>

Signal == {"INT", "TERM"}
Open   == {dones[i] : i \in 1..Len(dones)}

Init == /\ notified = {}
        /\ dones = <<>>
        /\ mail = [c \in Chans |-> "empty"]
        /\ sender = [b \in Shutters |-> "idle"]
        /\ at = [b \in Shutters |-> 0]
        /\ last = [b \in Shutters |-> 0]
        /\ unsent = [b \in Shutters |-> 0]
        /\ answer = [b \in Shutters |-> "none"]
        /\ heard = [b \in Shutters |-> {}]

-----------------------------------------------------------------------------
(* Faulty variants of steps below, used by no specification. *)

\* The channel is appended without taking donesMu.
RegisterUnlocked(c) ==
    /\ c \in notified \ Open
    /\ dones' = Append(dones, c)
    /\ UNCHANGED <<notified, mail, senderVars, heard>>

\* The send has no default case: it waits for room.
TrySendBlocks(b) ==
    /\ sender[b] = "sending" /\ at[b] <= last[b]
    /\ mail[dones[at[b]]] = "empty"
    /\ mail' = [mail EXCEPT ![dones[at[b]]] = "TERM"]
    /\ at' = [at EXCEPT ![b] = at[b] + 1]
    /\ UNCHANGED <<doneVars, sender, last, unsent, answer, heard>>

\* The first full channel ends the broadcast.
TrySendGivesUp(b) ==
    /\ sender[b] = "sending" /\ at[b] <= last[b]
    /\ \/ /\ mail[dones[at[b]]] = "empty"
          /\ mail' = [mail EXCEPT ![dones[at[b]]] = "TERM"]
          /\ at' = [at EXCEPT ![b] = at[b] + 1]
          /\ UNCHANGED unsent
       \/ /\ mail[dones[at[b]]] # "empty"
          /\ unsent' = [unsent EXCEPT ![b] = unsent[b] + 1]
          /\ at' = [at EXCEPT ![b] = last[b] + 1]
          /\ UNCHANGED mail
    /\ UNCHANGED <<doneVars, sender, last, answer, heard>>

-----------------------------------------------------------------------------
\* Done, first half: signal.Notify.
Notify(c) ==
    /\ c \notin notified
    /\ notified' = notified \cup {c}
    /\ UNCHANGED <<dones, mail, senderVars, heard>>

\* Done, second half: the append takes the write lock, which waits for every
\* broadcast to end.
Register(c) ==
    /\ c \in notified \ Open
    /\ \A b \in Shutters : sender[b] = "idle"
    /\ dones' = Append(dones, c)
    /\ UNCHANGED <<notified, mail, senderVars, heard>>

\* Shutdown: broadcastSignal takes the read lock.
BeginBroadcast(b) ==
    /\ sender[b] = "idle"
    /\ sender' = [sender EXCEPT ![b] = "sending"]
    /\ at' = [at EXCEPT ![b] = 1]
    /\ last' = [last EXCEPT ![b] = Len(dones)]
    /\ unsent' = [unsent EXCEPT ![b] = 0]
    /\ heard' = [heard EXCEPT ![b] = {}]
    /\ UNCHANGED <<doneVars, mail, answer>>

\* A channel with room takes the signal, a channel that still holds one is
\* counted: select with a default case.
TrySend(b) ==
    /\ sender[b] = "sending" /\ at[b] <= last[b]
    /\ \/ /\ mail[dones[at[b]]] = "empty"
          /\ mail' = [mail EXCEPT ![dones[at[b]]] = "TERM"]
          /\ UNCHANGED unsent
       \/ /\ mail[dones[at[b]]] # "empty"
          /\ unsent' = [unsent EXCEPT ![b] = unsent[b] + 1]
          /\ UNCHANGED mail
    /\ at' = [at EXCEPT ![b] = at[b] + 1]
    /\ UNCHANGED <<doneVars, sender, last, answer, heard>>

\* The read lock is released: an error if some channel was full.
EndBroadcast(b) ==
    /\ sender[b] = "sending" /\ at[b] > last[b]
    /\ sender' = [sender EXCEPT ![b] = "idle"]
    /\ answer' = [answer EXCEPT ![b] = IF unsent[b] = 0 THEN "nil" ELSE "error"]
    /\ UNCHANGED <<doneVars, mail, at, last, unsent, heard>>

\* The operating system signals the process: os/signal sends without blocking.
OsSignal(s) ==
    /\ mail' = [c \in Chans |-> IF c \in notified /\ mail[c] = "empty"
                                   THEN s ELSE mail[c]]
    /\ UNCHANGED <<doneVars, senderVars, heard>>

\* Whoever called Done receives from the channel.
Receive(c) ==
    /\ c \in Open /\ mail[c] # "empty"
    /\ mail' = [mail EXCEPT ![c] = "empty"]
    /\ heard' = [b \in Shutters |-> heard[b] \cup {c}]
    /\ UNCHANGED <<doneVars, senderVars>>

Broadcast(b) == TrySend(b) \/ EndBroadcast(b)

Next ==
    \/ \E c \in Chans : Notify(c) \/ Register(c) \/ Receive(c)
    \/ \E b \in Shutters : BeginBroadcast(b) \/ Broadcast(b)
    \/ \E s \in Signal : OsSignal(s)

Spec == Init /\ [][Next]_vars

\* A Shutdown in progress is ordinary code and goes on.
FairSpec == Spec /\ \A b \in Shutters : WF_vars(Broadcast(b))

-----------------------------------------------------------------------------
TypeOK ==
    /\ notified \subseteq Chans
    /\ dones \in Seq(Chans)
    /\ mail \in [Chans -> Signal \cup {"empty"}]
    /\ sender \in [Shutters -> {"idle", "sending"}]
    /\ at \in [Shutters -> Nat]
    /\ last \in [Shutters -> Nat]
    /\ unsent \in [Shutters -> Nat]
    /\ answer \in [Shutters -> {"none", "nil", "error"}]
    /\ heard \in [Shutters -> SUBSET Chans]

\* Each channel is in dones once, and a broadcast in progress walks all of dones.
DonesStable ==
    /\ \A i, j \in 1..Len(dones) : dones[i] = dones[j] => i = j
    /\ Open \subseteq notified
    /\ \A b \in Shutters : sender[b] = "sending" =>
          last[b] = Len(dones) /\ at[b] \in 1..(last[b] + 1)

\* Every channel a broadcast has passed has a signal waiting, or one was received
\* from it since the broadcast began, whoever else was sending.
PassedHaveHeard ==
    \A b \in Shutters : sender[b] = "sending" =>
        \A i \in 1..(at[b] - 1) : mail[dones[i]] # "empty" \/ dones[i] \in heard[b]

\* The state a broadcast relies on; inductive.
IInv == TypeOK /\ DonesStable /\ PassedHaveHeard

\* When Shutdown returns, with or without an error, every channel that is open
\* holds a signal or has delivered one since the call: "a signal to all of the
\* application's Done channels".
ShutdownReachesAll ==
    [][\A b \in Shutters : sender[b] = "sending" /\ sender'[b] = "idle" =>
         \A c \in Open : mail[c] # "empty" \/ c \in heard[b]]_vars

\* Shutdown returns even if nobody receives from the channels.
ShutdownReturns == \A b \in Shutters : sender[b] = "sending" ~> sender[b] = "idle"

============================================================================
