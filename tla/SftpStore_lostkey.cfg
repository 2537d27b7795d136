\* Two overlapping handlers: a save can undo a regeneration.
CONSTANTS
  Slots = {s1, s2}
  Keys = {k1, k2, k3}
  Settings = {default, changed}
  DefaultSettings = default
  NoSettings = NoSettings
  NoKey = NoKey
  Absent = Absent
  DbMayFail = FALSE
SPECIFICATION StoreSpec
PROPERTY SaveKeepsKey
CHECK_DEADLOCK FALSE
