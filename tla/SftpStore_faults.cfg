\* Two overlapping handlers, failing statements and crashes.
CONSTANTS
  Slots = {s1, s2}
  Keys = {k1, k2, k3}
  Settings = {default, changed}
  DefaultSettings = default
  NoSettings = NoSettings
  NoKey = NoKey
  Absent = Absent
  DbMayFail = TRUE
SYMMETRY StoreSymmetry
SPECIFICATION StoreSpec
INVARIANT StoreTypeOK
INVARIANT KeyFingerprintAgree
CHECK_DEADLOCK FALSE
