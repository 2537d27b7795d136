\* The row is edited between the check of its type and the reading of its key.
CONSTANTS
  Users = {u1}
  Instances = {i1}
  Tenants = {dev, prd}
  Restricted = {prd}
  Packages = {p1}
  IFlows = {f1}
  Designs = {d1}
  None = None
SPECIFICATION Spec
INVARIANT NeverOnRestricted
CHECK_DEADLOCK FALSE
