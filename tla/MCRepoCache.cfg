SPECIFICATION Spec
CONSTANTS
  main = main
  topic = topic
  origin = origin
  other = other
  Branch = {main, topic}
  Detached = Detached
  Remote = {origin, other}
  NoRemote = NoRemote
  Hunk = {1, 2}
  Val = {0, 1, 2}
  Absent = Absent
  Marked = Marked
  NoConflict = NoConflict
  MaxCommits = 9
  Oid <- CommitId
  NoOid = 0
  Client = {c1, c2}
  Writes = {"stage", "commit", "checkout_branch", "pull", "set_upstream"}
  Navs = {"undo"}
  Keys = {"status", "graph", "blame", "ahead_behind", "line_history"}
  PageSize = 2
  NCOLORS = 8
  Edits <- OneEdit
  StartRepos <- WovenRepo
  NotCached = NotCached
  MaxRequests = 3
  MaxOutside = 1
INVARIANTS GraphDrawn CachesFollow
SYMMETRY ClientSymmetry
CHECK_DEADLOCK FALSE
