\* Four tasks: every acyclic graph up to renaming, cycles, and definitions that
\* validate, the parser or build_dag objects to.
CONSTANTS
  a = a  b = b  c = c  d = d
  NoName = NoName
  Definitions <- WrittenDefinitions
SPECIFICATION Spec
INVARIANTS
  ValidationAgrees
  SortDecidesAcyclicity
  OrderIsTopological
  PhasesAreEarliest
  CriticalPathIsLongest
PROPERTIES
  PlanIsMade
CHECK_DEADLOCK FALSE
