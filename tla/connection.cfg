CONSTANTS
  Goroutines = {main, refresh, other}
  Payloads = {m1, m2}
  NoMessage = NoMessage
  Free = Free
  MaxWire = 6

SPECIFICATION MCSpec

INVARIANTS
  TypeOK
  FramesIntact

PROPERTIES
  WritesAreAtomic
  EveryWriteReturns

CHECK_DEADLOCK FALSE
