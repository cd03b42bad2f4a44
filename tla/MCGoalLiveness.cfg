SPECIFICATION FairSpec
CONSTANTS
  Goals = {g1, g2}
  Callers = {c1}
  Execs = {e1}
  Session = k
  Ops = {"create", "cancel"}
  CanFailSave = FALSE
  CanFailLoad = FALSE
  CanCrash = FALSE
  CanStall = TRUE
  MAX_PENDING_CANCELLATIONS = 1
  PENDING_CANCELLATION_TTL = 1
  MAX_LAG = 0
  NoRun = NoRun
  None = None
PROPERTIES CancelStops QueuedIsTakenUp
