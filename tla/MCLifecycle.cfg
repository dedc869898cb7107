SPECIFICATION Spec
CONSTANTS
  Pids = {p1, p2, p3}
  None = None
  Empty = Empty
  Stale = Stale
SYMMETRY PidSymmetry
INVARIANTS
  OneInstance
  Reachable
  CleanEnd
  PurgesAlone
