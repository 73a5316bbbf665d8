-------------------------------- MODULE Stack --------------------------------
(***************************************************************************)
(* Who appended a hook, or called Provide (src/internal/fxreflect): the     *)
(* call stack is read up to a depth, and the first frame that is not Fx's   *)
(* own names the caller.  runtime.Callers fills pcs; CallersFrames hands    *)
(* out one frame at a time and says whether more follow.                   *)
(*                                                                         *)
(* A frame is a record: owner says what its sanitized function name begins  *)
(* with, and test whether its file is a test file.                         *)
(***************************************************************************)
EXTENDS Integers, Sequences

CONSTANTS
    Stacks,         \* bound: the call stacks, innermost frame first
    Depths,         \* bound: the depths asked for
    DefaultDepth    \* _defaultCallersDepth

VARIABLES
    frames,     \* the frames above the function that wants to know
    depth,      \* the depth asked for, 0 for the default
    spc,        \* where CallerStack and then CallerName is
    next,       \* index of the loop
    pcs,        \* how many program counters runtime.Callers returned
    result,     \* the frames CallerStack keeps, as indices
    caller      \* the frame CallerName names, 0 for "n/a"

\* Names of Fx and of its packages begin with "go.uber.org/fx" and a dot or slash;
\* "go.uber.org/fxfoo" is a client, and so is a copy of Fx below vendor/, whose
\* name sanitize leaves with that prefix.  A frame may have no name at all.
Owner  == {"fx", "vendoredFx", "client", "unnamed"}
Frames == [owner : Owner, test : BOOLEAN]

ASSUME StacksAssumption == \A fs \in Stacks : fs \in Seq(Frames)
ASSUME DepthsAssumption == Depths \subseteq Int /\ DefaultDepth \in Nat

stackVars == <<frames, depth, spc, next, pcs, result, caller>>

StackStart(fs, d) ==
    /\ frames = fs
    /\ depth = d
    /\ spc = "callers"
    /\ next = 1
    /\ pcs = 0
    /\ result = <<>>
    /\ caller = 0

StackInit == \E fs \in Stacks, d \in Depths : StackStart(fs, d)

\* Faulty variant of shouldIgnoreFrame, used by no specification: the tests of Fx count as Fx.
IgnoreTests(f) == f.owner = "fx"

\* Test files are leaves; functions of Fx and its packages are passed over.
shouldIgnoreFrame(f) == f.owner = "fx" /\ ~ f.test

\* The name is looked at unless the file is a test file, and its first letter is
\* read also when it has none: "len(s) > 0 && s[0] == '.' || s[0] == '/'".
shouldIgnorePanics(f) == f.owner = "unnamed" /\ ~ f.test

Least(a, b) == IF a <= b THEN a ELSE b
Asked       == IF depth <= 0 THEN DefaultDepth ELSE depth

Callers ==
    /\ spc = "callers"
    /\ pcs' = Least(Asked, Len(frames))
    /\ spc' = "frames"
    /\ UNCHANGED <<frames, depth, next, result, caller>>

\* The loop runs while more frames follow.
NextFrame ==
    /\ spc = "frames" /\ next < pcs
    /\ result' = Append(result, next)
    /\ next' = next + 1
    /\ UNCHANGED <<frames, depth, spc, pcs, caller>>

\* The last frame comes with more = false and is not kept.
LastFrame ==
    /\ spc = "frames" /\ next >= pcs
    /\ spc' = "name"
    /\ next' = 1
    /\ UNCHANGED <<frames, depth, pcs, result, caller>>

SkipFrame ==
    /\ spc = "name" /\ next <= Len(result)
    /\ shouldIgnoreFrame(frames[result[next]])
    /\ next' = next + 1
    /\ UNCHANGED <<frames, depth, spc, pcs, result, caller>>

NamePanics ==
    /\ spc = "name" /\ next <= Len(result)
    /\ shouldIgnorePanics(frames[result[next]])
    /\ spc' = "panic"
    /\ UNCHANGED <<frames, depth, next, pcs, result, caller>>

NameFrame ==
    /\ spc = "name" /\ next <= Len(result)
    /\ ~ shouldIgnoreFrame(frames[result[next]])
    /\ ~ shouldIgnorePanics(frames[result[next]])
    /\ caller' = result[next]
    /\ spc' = "named"
    /\ UNCHANGED <<frames, depth, next, pcs, result>>

NoCaller ==
    /\ spc = "name" /\ next > Len(result)
    /\ spc' = "named"
    /\ UNCHANGED <<frames, depth, next, pcs, result, caller>>

StackNext ==
    \/ Callers \/ NextFrame \/ LastFrame
    \/ SkipFrame \/ NamePanics \/ NameFrame \/ NoCaller

StackSpec == StackInit /\ [][StackNext]_stackVars

-----------------------------------------------------------------------------
\* A frame of a client: not Fx's, or one of Fx's tests.
Client(i) == frames[i].owner # "fx" \/ frames[i].test

\* The caller named is the innermost client frame.  There is none only if Fx's own
\* frames fill the stack as deep as it was asked for, but for its last frame:
\* runtime.goexit when the stack is shorter than that.  It panics only where that
\* client frame has no name.
CallerIsInnermostClient ==
    LET Innermost(i) == Client(i) /\ \A j \in 1..(i - 1) : ~ Client(j)
        Seen(i)      == i < Asked /\ i < Len(frames)
    IN  /\ spc = "named" /\ caller # 0 => Innermost(caller) /\ Seen(caller)
        /\ spc = "named" /\ caller = 0 => \A i \in 1..Len(frames) :
                                            Client(i) => ~ Seen(i)
        /\ spc = "panic" => \E i \in 1..Len(frames) :
                               Innermost(i) /\ frames[i].owner = "unnamed"

============================================================================
