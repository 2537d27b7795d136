\* Two overlapping handlers, an id that can be reused across scenarios.
CONSTANTS
  Slots = {s1, s2}
  Unassigned = c0
  SftpId = sftp
  Scenarios = {c0, c1}
  AdapterIds = {a1}
  Names = {n1, n2}
  Modes = {"success", "failure"}
  Configs = {g1}
  Keep = Keep
  None = None
SYMMETRY CatalogueSymmetry
SPECIFICATION Spec
INVARIANT TypeOK
INVARIANT NoOrphan
PROPERTY CatalogueSpec
CHECK_DEADLOCK FALSE
