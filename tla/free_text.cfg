SPECIFICATION Spec
INVARIANT TextIsFree
