SPECIFICATION Spec
CONSTANTS
  Path = {1, 2, 3}
  MaxContent = 2
  Area <- AreaOf
  Slug <- SlugOf
  OtherArea = 4
  Sensitive = {1}
  Opaque = {2}
  MAX_GROUPS = 2
  Starts <- MCStarts
  MaxStarts = 3
  MaxOutside = 1
  MaxReads = 1
  MaxFaults = 1
  OldCommits = 2
  MaxCommit = 3
  Touches <- TouchesOf
  PatchBytes <- SizeOf
  Secret = {"s"}
  Terms = 1
  Documents <- MCDocuments
  Damaged <- MCDamaged
  MAX_HISTORY_COMMITS = 2
  BASE_HISTORY_COMMITS = 1
  MAX_HISTORY_PATCH_BYTES = 2
  MAX_FILES_PER_COMMIT = 2
  MAX_PATCHES_PER_COMMIT = 2
  Chunk = 4
  MaxTries = 2
  MaxAsks = 3
  MaxErrors = 1
INVARIANTS DraftIsAnswer CitationsGrounded
PROPERTIES CommitIsReviewed RollbackRestores
CHECK_DEADLOCK FALSE
