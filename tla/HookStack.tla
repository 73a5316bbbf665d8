------------------------------ MODULE HookStack ------------------------------
(***************************************************************************)
(* What a lifecycle promises, without goroutines, locks or counters.  The  *)
(* hooks that are up always form a stack over the list of hooks.  A rise    *)
(* starts hooks from the bottom, up to the hooks known when it began; a     *)
(* callback that fails ends it.  A fall stops from the top and ends only   *)
(* when nothing is left up.  At most one callback runs at any time.        *)
(***************************************************************************)
EXTENDS Integers, Sequences

VARIABLES
    hooks,  \* the list of hooks; a hook may lack either callback
    live,   \* the hooks that are up
    run,    \* the callback being executed
    mode,   \* "down", "rising", "settled" or "falling"
    goal    \* while rising: the last hook to start, otherwise 0

vars == <<hooks, live, run, mode, goal>>

HookKind == [onStart : BOOLEAN, onStop : BOOLEAN]
NoRun    == [phase |-> "none", hook |-> 0]

Init == /\ hooks = <<>>
        /\ live = {}
        /\ run = NoRun
        /\ mode = "down"
        /\ goal = 0

Add(h) ==
    /\ run # NoRun \/ mode \in {"down", "settled"}
    /\ hooks' = Append(hooks, h)
    /\ UNCHANGED <<live, run, mode, goal>>

Rise ==
    /\ mode = "down"
    /\ mode' = "rising" /\ goal' = Len(hooks)
    /\ UNCHANGED <<hooks, live, run>>

\* The next hook to start is the one above all that are up.
StartHook(i) ==
    /\ mode = "rising" /\ run = NoRun
    /\ i \in 1..goal /\ live = 1..(i - 1)
    /\ IF hooks[i].onStart
          THEN run' = [phase |-> "start", hook |-> i] /\ UNCHANGED live
          ELSE live' = live \cup {i} /\ UNCHANGED run
    /\ UNCHANGED <<hooks, mode, goal>>

Started ==
    /\ run.phase = "start"
    /\ live' = live \cup {run.hook} /\ run' = NoRun
    /\ UNCHANGED <<hooks, mode, goal>>

StartFailed ==
    /\ run.phase = "start"
    /\ run' = NoRun /\ mode' = "settled" /\ goal' = 0
    /\ UNCHANGED <<hooks, live>>

Risen ==
    /\ mode = "rising" /\ run = NoRun /\ live = 1..goal
    /\ mode' = "settled" /\ goal' = 0
    /\ UNCHANGED <<hooks, live, run>>

Fall ==
    /\ mode \in {"settled", "down"}
    /\ mode' = "falling"
    /\ UNCHANGED <<hooks, live, run, goal>>

\* The next hook to stop is the topmost one.
StopHook(i) ==
    /\ mode = "falling" /\ run = NoRun
    /\ i \in live /\ \A j \in live : j <= i
    /\ live' = live \ {i}
    /\ IF hooks[i].onStop
          THEN run' = [phase |-> "stop", hook |-> i]
          ELSE UNCHANGED run
    /\ UNCHANGED <<hooks, mode, goal>>

\* Whether or not the callback failed.
Stopped ==
    /\ run.phase = "stop"
    /\ run' = NoRun
    /\ UNCHANGED <<hooks, live, mode, goal>>

Fallen ==
    /\ mode = "falling" /\ run = NoRun /\ live = {}
    /\ mode' = "down"
    /\ UNCHANGED <<hooks, live, run, goal>>

Progress ==
    \/ \E i \in 1..Len(hooks) : StartHook(i) \/ StopHook(i)
    \/ Started \/ StartFailed \/ Risen \/ Stopped \/ Fallen

Next == Progress \/ Rise \/ Fall \/ \E h \in HookKind : Add(h)

Spec     == Init /\ [][Next]_vars
FairSpec == Spec /\ WF_vars(Progress)

============================================================================
