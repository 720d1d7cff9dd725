SPECIFICATION Spec
CONSTANTS
  Markets = {m1, m2}
  CmcIds = {c1}
  Syncs = {cron, admin}
  Logos = {1, 2}
  Descriptions = {1, 2}
  MaxSyncs = 2
  MaxChanges = 1
  MaxLoad = 2
INVARIANTS
  IconsFollowLogos

  
SYMMETRY Alike
CHECK_DEADLOCK FALSE
