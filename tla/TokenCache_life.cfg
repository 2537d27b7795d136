\* Two requests over one instance; lifetimes below, at and above the margin.
CONSTANTS
  Jobs = {j1, j2}
  Instances = {i1}
  ApiKeys = {k1, k2}
  Types = {"DEV"}
  Lifetimes = {0, 1, 2, 3}
  Margin = 1
  DefaultLife = 3
  MaxTime = 5
  None = None
  Deleted = Deleted
SYMMETRY TokenSymmetry
SPECIFICATION TokenSpec
INVARIANT TokenTypeOK
INVARIANT CachedWithinLife
PROPERTY LiveTokenHandedOut
CHECK_DEADLOCK FALSE
