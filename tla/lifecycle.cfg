CONSTANTS
  a = a
  b = b
  URIs = {a}
  Texts <- MCTexts
  RunningAt <- MCRunningAt
  Inbound <- LifecycleInbound
  NoMessage = NoMessage
  Free = Free
  MaxMessages = 4
  MaxUnread = 1
  MaxTime = 1

SPECIFICATION Spec

INVARIANTS
  NothingUnasked
  NothingForgotten
  DocumentsMirrorClient
  ExitCodeIsHonest

CHECK_DEADLOCK FALSE
