\* One client, one handler at a time over a database that answers.
CONSTANTS
  Slots = {s1}
  Keys = {k1, k2, k3}
  p1 = p1
  p2 = p2
  Secrets = {p1, p2}
  Settings <- MCSettings
  DefaultSettings <- MCDefault
  NoSettings = NoSettings
  NoKey = NoKey
  Absent = Absent
  DbMayFail = FALSE
  Clients = {c1}
SPECIFICATION FairAuthSpec
INVARIANT AuthTypeOK
INVARIANT CompleteWhileServing
INVARIANT VerdictIsCurrent
PROPERTY AttemptsEnd
PROPERTY RegisterSpec
CHECK_DEADLOCK FALSE
