\* Two calls that may overlap, one hook; callbacks need not return.
\* The run ends when every call has been made: no deadlock check.
CONSTANTS
  c1 = c1
  c2 = c2
  c3 = c3
  Procs = {c1, c2}
  NoProc = NoProc
  MaxHooks = 1
  Kinds <- FullKind
  Failures = {"fail", "deadline"}
  Endings = {"deadline", "canceled"}
SPECIFICATION FairHastySpec
INVARIANTS
  LockDiscipline
PROPERTIES
  CallerReturns
  GoroutineEnds
CHECK_DEADLOCK FALSE
