\* Three hooks of any kind, two goroutines that take turns.
CONSTANTS
  p1 = p1
  p2 = p2
  Procs = {p1, p2}
  NoProc = NoProc
  MaxHooks = 3
  Kinds <- AllKinds
  Failures = {"fail"}
SPECIFICATION FairSerialSpec
INVARIANTS
  TypeOK
  IInv
  StartRecordsExact
  StopRecordsExact
PROPERTIES
  StartInOrder
  StopInReverse
  NothingLeftUp
  StopErrorsKept
  CallsReturn
  ImplementsHookStack
