\* One workflow may be saved, updated and deleted while another is left
\* alone; outputs that are JSON, that are not, and failures.
CONSTANTS
  Clients = {c1, c2}
  Workflows = {w1, w2}
  Tasks = {t1, t2}
  Versions = {1, 2}
  Statuses = {"pending", "success"}
  Outcomes = {"json", "opaque"}
  Backends = {"memory", "sqlite", "redis", "postgres"}
  TakesTurns = {"redis"}
CONSTRAINT OneTorn
SYMMETRY Symmetry
SPECIFICATION Spec
INVARIANTS
  StoreInv
  CreationTimeKept
PROPERTIES
  ImplementsStore
