\* Exceptions, cancellations and crashes; up to three runs on every graph on
\* three tasks, cyclic or not, and one with an unknown name.
CONSTANTS
  a = a  b = b  c = c  d = d
  Tasks = {a, b, c}
  Graphs <- PlainOrUnknown
  Conditional = {b}
  RetryCount <- OneRetryForA
  DefaultRetries = 0
  InputMap <- EveryTask
  Priority <- AFirst
  HasStore = TRUE
  UsesBreaker = FALSE
  Hanging = {}
  CondRaises = {b}
  HookRaises = {c}
  SaveRaises = {}
  FuncCancels = {a}
  CallerCancels = TRUE
  Crashes = TRUE
  CallerResets = {"failed", "running"}
  Reexecutes = FALSE
  MaxRuns = 3
SPECIFICATION Spec
INVARIANTS
  IInv
  FailureIsContained
  InputsArrive
  AttemptsAreExhausted
  CheckpointMatchesRun
PROPERTIES
  ResumeNeverReruns
  ResultsAreFinal
CHECK_DEADLOCK FALSE
