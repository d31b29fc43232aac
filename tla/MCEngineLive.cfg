\* Every run ends: retries, timeouts, a failing store, cancellation by the caller.
CONSTANTS
  a = a  b = b  c = c  d = d
  Tasks = {a, b, c}
  Graphs <- AcyclicGraphs
  Conditional = {a}
  RetryCount <- OneRetryForA
  DefaultRetries = 0
  InputMap <- EveryTask
  Priority <- ZeroEach
  HasStore = TRUE
  UsesBreaker = FALSE
  Hanging = {a}
  CondRaises = {}
  HookRaises = {}
  SaveRaises = {a, b}
  FuncCancels = {}
  CallerCancels = TRUE
  Crashes = FALSE
  CallerResets = {"failed", "running"}
  Reexecutes = FALSE
  MaxRuns = 1
SPECIFICATION FairSpec
INVARIANTS
  SchedulerAgreesWithTasks
  SuccessMeansAllFinished
PROPERTIES
  EveryRunEnds
CHECK_DEADLOCK FALSE
