\* Up to three fields or targets, stacks of up to four frames read to a depth of 3
\* or 2, packages of one file with three declarations or two with one.
\* The walks end: no deadlock check.
CONSTANTS
  Keys = {"a", "b"}
  Jobs <- SomeJobs
  Stacks <- SomeStacks
  Depths = {0, 2}
  DefaultDepth = 3
  Packages <- SomePackages
  NilSet = NilSet
SPECIFICATION WalksSpec
INVARIANTS
  ExtractFills
  ExtractAllOrNothing
  CallerIsInnermostClient
  ReportsExact
  ShippedLoggersComplete
CHECK_DEADLOCK FALSE
