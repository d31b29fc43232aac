\* The caller resumes without making the failed task PENDING again.
CONSTANTS
  a = a  b = b  c = c  d = d
  Tasks = {a, b, c}
  Graphs <- Chain
  Conditional = {}
  RetryCount <- ZeroEach
  DefaultRetries = 0
  InputMap <- EveryTask
  Priority <- ZeroEach
  HasStore = TRUE
  UsesBreaker = FALSE
  Hanging = {}
  CondRaises = {}
  HookRaises = {}
  SaveRaises = {}
  FuncCancels = {}
  CallerCancels = FALSE
  Crashes = FALSE
  CallerResets = {}
  Reexecutes = FALSE
  MaxRuns = 2
SPECIFICATION Spec
INVARIANTS
  ResumeFinishesTheWorkflow
CHECK_DEADLOCK FALSE
