SPECIFICATION Spec
CONSTANTS
  Platform = {"github", "gitlab"}
  Page <- Pages
  Commit = {1, 2}
  Key = {"tree", "file"}
  MAX_MODEL_ROUNDS = 2
  MAX_TOOL_CALLS = 1
  MaxCalls = 2
  MaxPush = 2
  MaxLost = 1
  MaxDialogs = 2
  MaxSubmits = 1
INVARIANTS TranscriptPaired CommentsOnReviewedLines ReportsAreTrue
PROPERTIES StalePublishesNothing CommandsEnd
CHECK_DEADLOCK FALSE
