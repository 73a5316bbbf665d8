\* A start that fails.
\* The run ends when every call has been made: no deadlock check.
CONSTANTS
  c1 = c1
  c2 = c2
  c3 = c3
  Procs = {c1, c2}
  NoProc = NoProc
  MaxHooks = 1
  Kinds <- FullKind
  Failures = {"fail", "deadline"}
  Endings = {"deadline", "canceled"}
SPECIFICATION EndingPatientSpec
PROPERTIES
  FailedHookIsStopped
CHECK_DEADLOCK FALSE
