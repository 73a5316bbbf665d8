\* Every list of two options, and lists of three that mix a provide, a logger and
\* an invoke, each for New and for ValidateApp.
\* New returns: no deadlock check.
CONSTANTS
  NoCtor = NoCtor
  Keys = {"a", "b", "c", "Logger", "none"}
  Errors = {"option"}
  Handlers = {"h1", "h2"}
  Options <- AllOptions
  OptionLists <- SomeLists
  Nesting <- SomeNesting
SPECIFICATION Spec
INVARIANTS
  EventsDelivered
  CleanMeansComplete
  ContainerIsLogged
  HandlersHear
  DryRunCallsNothing
PROPERTIES
  ErrorsKept
  InvokesNeedCleanApp
CHECK_DEADLOCK FALSE
