\* Two workflows whose runs overlap or not, with and without names in common.
CONSTANTS
  v = v  w = w  a = a  b = b  c = c  d = d
  Workflows = {v, w}
  Loads <- AllLoads
SPECIFICATION FairSpec
INVARIANTS
  
  MetricsAgree
PROPERTIES
  OrderSurvivesResets
  EveryRunEnds
CHECK_DEADLOCK FALSE
