SPECIFICATION Spec
CONSTANTS
  Label = {bug}
  Unknown = Unknown
  PageSize = 2
  StartComments = 1
  MaxForeign = 1
  MaxLost = 2
  MaxPublish = 2
INVARIANT ReportsAreTrue
PROPERTIES CommentsOnce CommandsEnd
CHECK_DEADLOCK FALSE
