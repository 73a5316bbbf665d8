\* Two Done channels, two goroutines that call Shutdown again and again.
CONSTANTS
  Chans = {d1, d2}
  Shutters = {s1, s2}
SPECIFICATION FairSpec
INVARIANTS
  IInv
PROPERTIES
  ShutdownReachesAll
  ShutdownReturns
