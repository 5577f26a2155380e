SPECIFICATION FairSpec
CONSTANTS
  Interval = 3
  Timeout = 20
  MaxDelay = 2
  Longest = 4
  Lag = 2
  ParentEnds = {"canceled", "parent"}
INVARIANTS
  TypeOK
  HealthNoticed
PROPERTIES
  Returns
CHECK_DEADLOCK FALSE
