\* One user, an instance that moves between a development and a restricted system.
CONSTANTS
  Users = {u1}
  Instances = {i1}
  Tenants = {dev, prd}
  Restricted = {prd}
  Packages = {p1}
  IFlows = {f1}
  Designs = {d1, d2}
  None = None
SPECIFICATION FairSpec
INVARIANT TypeOK
INVARIANT RestrictedOnlyByRace
PROPERTY AnswerTellsTheTruth
PROPERTY PageComesBack
CHECK_DEADLOCK FALSE
