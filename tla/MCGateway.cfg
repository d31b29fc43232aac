\* Three requests of two clients, one allowed in any two units of time.
CONSTANTS
  r1 = r1  r2 = r2  r3 = r3
  c1 = c1  c2 = c2  k1 = k1  k2 = k2  t1 = t1
  Requests = {r1, r2, r3}
  Clients = {c1, c2}
  Paths = {"health", "api"}
  Keys = {k1, k2}
  Tokens = {t1}
  Nobody = Nobody
  Unknown = Unknown
  Roles <- RolesHeld
  Needs <- ApiNeedsAdmin
  Stack <- LimitOutside
  Auths = {"key", "jwt", "env"}
  Limit = 1
  Window = 2
  Life = 1
  MaxTime = 4
SPECIFICATION Spec
SYMMETRY Symmetry
INVARIANTS
  WindowBound
  RefusedWhenFull
  HandledIsAuthorized
CHECK_DEADLOCK FALSE
