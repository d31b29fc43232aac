\* Two overlapping publications, two clients that come, break and go.
CONSTANTS
  h = h  Forward = Forward  p1 = p1  p2 = p2  c1 = c1  c2 = c2
  Nobody = Nobody
  Handlers = {h}
  Fragile = {h}
  Publications = {p1, p2}
  Clients = {c1, c2}
  MaxSubscriptions = 2
SPECIFICATION Spec
SYMMETRY Symmetry
CONSTRAINT OneClientIfNameless
INVARIANTS
  NobodyHearsTwice
PROPERTIES
  FailuresStayApart
  OnlyRemovalsHide
CHECK_DEADLOCK FALSE
