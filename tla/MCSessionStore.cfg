SPECIFICATION Spec
CONSTANTS
  Sessions = {s1, s2}
  Runs = {r1, r2}
  max_sessions = 1
  max_message_bytes = 2
  MaxRecent = 2
  max_recent_bytes = 4
  MaxSummary = 3
  MaxDurable = 1
  PairBytes = {2, 4}
  MaxRevision = 1
  None = None
INVARIANTS LeaseMirrorsHolder MemoryIsRecentHistory AlwaysRoom
SYMMETRY Symmetry
