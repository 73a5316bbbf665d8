\* Two calls of a patient client, two hooks.
\* The run ends when every call has been made: no deadlock check.
CONSTANTS
  c1 = c1
  c2 = c2
  c3 = c3
  Procs = {c1, c2}
  NoProc = NoProc
  MaxHooks = 2
  Kinds <- FullKind
  Failures = {"fail", "deadline"}
  Endings = {"deadline", "canceled"}
SPECIFICATION FairPatientSpec
INVARIANTS
  AppTypeOK
PROPERTIES
  LifecycleIsSerial
  AnswersAreTrue
  FailedStartIsUndone
  TimeoutReportIsTrue
CHECK_DEADLOCK FALSE
