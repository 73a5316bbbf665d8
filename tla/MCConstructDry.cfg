\* ValidateApp with a custom logger.
\* New returns: no deadlock check.
CONSTANTS
  NoCtor = NoCtor
  Keys = {"a", "b", "c", "Logger", "none"}
  Errors = {"option"}
  Handlers = {"h1", "h2"}
  Options <- AllOptions
  OptionLists <- SomeLists
  Nesting <- SomeNesting
SPECIFICATION Spec
INVARIANTS
  NothingHeldBack
CHECK_DEADLOCK FALSE
