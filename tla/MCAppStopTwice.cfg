\* Stop is repeated after it timed out.
\* The run ends when every call has been made: no deadlock check.
CONSTANTS
  c1 = c1
  c2 = c2
  c3 = c3
  Procs = {c1, c2, c3}
  NoProc = NoProc
  MaxHooks = 2
  Kinds <- FullKind
  Failures = {}
  Endings = {"deadline"}
SPECIFICATION StopTwiceSpec
PROPERTIES
  StopOkLeavesNothingUp
CHECK_DEADLOCK FALSE
