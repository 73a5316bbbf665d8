\* Three calls whose goroutines race, two hooks.
\* The run ends when every call has been made: no deadlock check.
CONSTANTS
  c1 = c1
  c2 = c2
  c3 = c3
  Procs = {c1, c2, c3}
  NoProc = NoProc
  MaxHooks = 2
  Kinds <- FullKind
  Failures = {"fail"}
  Endings = {"canceled"}
SPECIFICATION RaceSpec
INVARIANTS
  PanicsNeedTwo
PROPERTIES
  StopsOnlyStarted
CHECK_DEADLOCK FALSE
