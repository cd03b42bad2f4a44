SPECIFICATION Spec
CONSTANTS
  RunIds = {r1, r2, r3, r4}
  Resources = {k1, k2}
  MAX_PENDING_CANCELLATIONS = 2
  PENDING_CANCELLATION_TTL = 2
  MAX_LAG = 1
  NoRun = NoRun
INVARIANTS ResourcesMirrorActive PendingSound
PROPERTIES CancellationHonoured
