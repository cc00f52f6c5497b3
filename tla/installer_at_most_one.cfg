CONSTANT
  MaxRelease = 2

SPECIFICATION Spec

INVARIANT
  AtMostOneDownloaded
