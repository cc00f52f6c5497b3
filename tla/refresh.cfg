CONSTANTS
  a = a
  b = b
  URIs = {a, b}
  Texts <- MCTexts
  RunningAt <- MCRunningAt
  Inbound <- RefreshInbound
  NoMessage = NoMessage
  Free = Free
  MaxMessages = 4
  MaxUnread = 1
  MaxTime = 2

SPECIFICATION Spec

INVARIANTS
  TypeOK
  InOrder
  RefreshAfterInitializeResult

PROPERTIES
  ScanIsAtomic
  HandlesOneByOne

CHECK_DEADLOCK FALSE
