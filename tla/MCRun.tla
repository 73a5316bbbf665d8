-------------------------------- MODULE MCRun --------------------------------
(* TLC instances of Run and FxTest: the process is a program that calls Run, or a
   test that uses fxtest. *)
EXTENDS Run, FxTest

FullKind == {[onStart |-> TRUE, onStop |-> TRUE]}

\* Neither module's steps are enabled where it is at "none".
MCInit ==
    \/ RunInit /\ test = "none"
    \/ TestInit /\ Sig!Init /\ main = "none"

AsProgram == main # "none" /\ RunNext /\ UNCHANGED test
AsTest    == test # "none" /\ TestNext /\ UNCHANGED <<main, sigVars>>

MCNext == AsProgram \/ AsTest

MCSpec == MCInit /\ [][MCNext]_<<runVars, test>>

\* The fairness of Run, and the test's own steps.
FairMCSpec ==
    /\ MCSpec
    /\ RunFairness
    /\ WF_<<runVars, test>>(Alive /\ TestStep /\ UNCHANGED <<main, sigVars>>)

============================================================================
