\* One caller and one handler at a time; the adapter comes, changes and goes.
\* Its configs ask for credentials; without them, it is as with the right ones.
CONSTANTS
  Slots = {s1}
  Unassigned = c0
  Scenarios = {c0}
  AdapterIds = {a1}
  Names = {n1}
  Modes = {"success", "failure"}
  Configs = {g1}
  Protected = {g1}
  Keep = Keep
  None = None
  Callers = {k1}
  SftpId = sftp
  HealthId = health
SPECIFICATION MockSpec
INVARIANT MockTypeOK
INVARIANT AnswerIsTheAdapters
INVARIANT ActivityNeedsTraffic
CHECK_DEADLOCK FALSE
