\* The page's fingerprint after the key file and the active key have parted.
CONSTANTS
  Slots = {s1}
  Keys = {k1, k2, k3}
  Settings = {default, changed}
  DefaultSettings = default
  NoSettings = NoSettings
  NoKey = NoKey
  Absent = Absent
  NoFile = NoFile
  Truncated = Truncated
  DbMayFail = FALSE
SPECIFICATION Spec
INVARIANT FingerprintShown
CHECK_DEADLOCK FALSE
