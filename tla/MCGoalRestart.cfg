SPECIFICATION Spec
CONSTANTS
  Goals = {g1}
  Callers = {c1, c2}
  Execs = {}
  Session = k
  Ops = {"create", "resume"}
  CanFailSave = FALSE
  CanFailLoad = FALSE
  CanCrash = TRUE
  CanStall = FALSE
  MAX_PENDING_CANCELLATIONS = 1
  PENDING_CANCELLATION_TTL = 1
  MAX_LAG = 1
  NoRun = NoRun
  None = None
INVARIANTS OneRunner NoOrphan
PROPERTIES BudgetNeverCommits
SYMMETRY Symmetry
