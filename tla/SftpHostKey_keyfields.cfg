\* A save of the page between the goroutine's GET and its PUT.
CONSTANTS
  Slots = {s1}
  Keys = {k1, k2}
  Settings = {default, changed}
  DefaultSettings = default
  NoSettings = NoSettings
  NoKey = NoKey
  Absent = Absent
  NoFile = NoFile
  Truncated = Truncated
  DbMayFail = FALSE
SPECIFICATION Spec
PROPERTY SyncKeepsSettings
CHECK_DEADLOCK FALSE
