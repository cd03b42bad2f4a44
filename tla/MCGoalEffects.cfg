SPECIFICATION Spec
CONSTANTS
  Goals = {g1}
  Callers = {c1}
  Execs = {e1}
  Session = k
  Ops = {"create", "resume", "get", "extend", "steer", "pause", "reset"}
  CanFailSave = TRUE
  CanFailLoad = TRUE
  CanCrash = TRUE
  CanStall = FALSE
  MAX_PENDING_CANCELLATIONS = 1
  PENDING_CANCELLATION_TTL = 1
  MAX_LAG = 1
  NoRun = NoRun
  None = None
INVARIANTS EffectAccounted ReceiptsAreTrue
PROPERTIES CommitHasAuthority CommitLeavesNothingPending
