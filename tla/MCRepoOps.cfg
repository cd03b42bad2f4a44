SPECIFICATION Spec
CONSTANTS
  main = main
  topic = topic
  origin = origin
  other = other
  Branch = {main, topic}
  Detached = Detached
  Remote = {origin, other}
  NoRemote = NoRemote
  Hunk = {1, 2}
  Val = {0, 1, 2}
  Absent = Absent
  Marked = Marked
  NoConflict = NoConflict
  MaxCommits = 9
  Oid <- CommitId
  NoOid = 0
  Client = {c1}
  Writes <- AllWrites
  Navs = {"undo", "redo", "goto", "peek"}
  Keys = {}
  PageSize = 2
  NCOLORS = 8
  Edits <- OneEdit
  StartRepos <- EveryRepo
  NotCached = NotCached
  MaxRequests = 3
  MaxOutside = 1
INVARIANT NavAligned
PROPERTY WorkIsNeverLost
CHECK_DEADLOCK FALSE
