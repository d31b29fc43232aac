\* Three requests at a time: workflows meet nowhere but in the event loop.
CONSTANTS
  Workflows = {w1}
  Requests = {h1, h2, h3}
  Jobs = {j1, j2}
  NoJob = NoJob
  Nobody = Nobody
  Backends = {"memory", "sqlite", "remote"}
SPECIFICATION FairSpec
INVARIANTS
  ServiceInv
  RunningIsTrue
PROPERTIES
  CancelMeansStopped
  RequestsAreAnswered
