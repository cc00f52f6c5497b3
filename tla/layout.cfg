CONSTANTS
  MaxRun = 9
  MaxEntries = 3

SPECIFICATION LayoutSpec

INVARIANTS
  LayoutTypeOK
  EntriesAgree

PROPERTY
  AcceptedIsParsed

CHECK_DEADLOCK FALSE
