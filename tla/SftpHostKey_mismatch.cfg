\* Key life cycle with every fault: failing statements, crashes on both sides.
CONSTANTS
  Slots = {s1, s2}
  Keys = {k1, k2, k3}
  Settings = {default, changed}
  DefaultSettings = default
  NoSettings = NoSettings
  NoKey = NoKey
  Absent = Absent
  NoFile = NoFile
  Truncated = Truncated
  DbMayFail = TRUE
SYMMETRY HostKeySymmetry
SPECIFICATION Spec
INVARIANT TypeOK
INVARIANT MismatchOnlyFromKeyFile
PROPERTY KeyFileKept
CHECK_DEADLOCK FALSE
