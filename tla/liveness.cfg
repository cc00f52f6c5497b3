CONSTANTS
  a = a
  b = b
  URIs = {a}
  Texts <- MCTexts
  RunningAt <- MCRunningAt
  Inbound <- LivenessInbound
  NoMessage = NoMessage
  Free = Free
  MaxMessages = 3
  MaxUnread = 2
  MaxTime = 2

SPECIFICATION FairSpec

PROPERTIES
  RequestsAnswered
  RefreshFollowsTick
  ExitEnds

CHECK_DEADLOCK FALSE
