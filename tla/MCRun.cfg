\* One hook that may hang, fail or return; one goroutine that calls Shutdown;
\* a program that calls Run, or a test.
\* The run ends with the process: no deadlock check.
CONSTANTS
  StartCall = StartCall
  StopCall = StopCall
  Procs = {StartCall, StopCall}
  NoProc = NoProc
  TestStart = StartCall
  TestStop = StopCall
  MainChan = MainChan
  Shutters = {sh}
  MaxHooks = 1
  Kinds <- FullKind
  Failures = {"fail"}
  Endings = {"deadline"}
SPECIFICATION FairMCSpec
INVARIANTS
  ReturnsWhenDown
  PassesWhenDown
PROPERTIES
  RunIsPatient
  ShutdownEndsRun
  TestEnds
CHECK_DEADLOCK FALSE
