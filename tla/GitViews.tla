------------------------------ MODULE GitViews ------------------------------
(***************************************************************************)
(* What the read operations of the backends answer, as functions of the    *)
(* repository.  RepoContext caches these answers; whether a cached answer  *)
(* is still the repository's is the question its properties ask.           *)
(***************************************************************************)
EXTENDS GitRepository

\* A path may be listed on both sides: staged against HEAD, unstaged against
\* the index.  A conflict is an entry of its own.
Side(from, to, added, staged) ==
  IF from = to THEN {}
  ELSE {[state |-> IF from = Absent THEN added ELSE IF to = Absent THEN "Deleted" ELSE "Modified",
         staged |-> staged]}
status(g) ==
  IF g.conflict # NoConflict THEN {[state |-> "Conflicted", staged |-> FALSE]}
  ELSE Side(HeadTree(g), g.index, "Added", TRUE) \cup Side(g.index, g.wt, "Untracked", FALSE)
IsDirty(g) == status(g) # {}

working_diff(g, staged) == IF staged THEN <<HeadTree(g), g.index>> ELSE <<g.index, g.wt>>

\* Commits reachable from HEAD, newest first; an unborn HEAD has none.
log(g) == NewestFirst(Reach(g, HeadOid(g)))
Page(seq, skip, take) == SubSeq(seq, skip + 1, Min({skip + take, Len(seq)}))

\* Commits whose file differs from the first parent's (git log -- file), and
\* from what hunk h was (git log -L), searched by content (-S, -G).
Touches(g, c) == Tree(g, c) # Tree(g, FirstParent(g, c))
file_history(g) == NewestFirst({c \in Reach(g, HeadOid(g)) : Touches(g, c)})
HunkOf(c, h) == IF c \in Text THEN c[h] ELSE c
line_history(g, h) ==
  NewestFirst({c \in Reach(g, HeadOid(g)) :
                 HunkOf(Tree(g, c), h) # HunkOf(Tree(g, FirstParent(g, c)), h)})
commit_files(g, c) == <<Tree(g, FirstParent(g, c)), Tree(g, c)>>
compare_files(g, a, b) == <<Tree(g, g.refs[a]), Tree(g, g.refs[b])>>

\* Every hunk of the working file with the newest commit that gave it its
\* value, 0 when the value is not committed.
blame(g) ==
  [h \in Hunk |->
     LET v == HunkOf(g.wt, h)
         since == {c \in Range(line_history(g, h)) : HunkOf(Tree(g, c), h) = v}
     IN  IF HunkOf(HeadTree(g), h) = v /\ since # {} THEN Max(since) ELSE 0]

current_branch(g) == IF HeadOid(g) = 0 THEN 0 ELSE g.head
branches(g) == {[name |-> b, is_head |-> g.head = b] : b \in {x \in Branch : g.refs[x] # 0}}
refs(g) == <<g.refs, g.tracking, g.tag, g.head, HeadOid(g)>>

ahead_behind(g) ==
  LET r == IF g.head = Detached THEN NoRemote ELSE g.upstream[g.head]
      up == IF r = NoRemote THEN 0 ELSE g.tracking[r][g.head]
  IN  IF HeadOid(g) = 0 \/ up = 0 THEN <<>>
      ELSE <<Cardinality(Reach(g, HeadOid(g)) \ Reach(g, up)),
             Cardinality(Reach(g, up) \ Reach(g, HeadOid(g)))>>

\* Not pushed and not pulled; nothing to compare with before the first fetch.
Local(g) == UNION {Reach(g, g.refs[b]) : b \in Branch}
Tracked(g) == UNION {Reach(g, g.tracking[r][b]) : r \in Remote, b \in Branch}
sync_commits(g) ==
  IF Tracked(g) = {} THEN [outgoing |-> {}, incoming |-> {}]
  ELSE [outgoing |-> Local(g) \ Tracked(g), incoming |-> Tracked(g) \ Local(g)]

\* Commits only this branch reaches: what deleting it would lose.
branch_delete_impact(g, b) ==
  Reach(g, g.refs[b]) \
    (UNION {Reach(g, g.refs[x]) : x \in Branch \ {b}} \cup Tracked(g)
       \cup Reach(g, g.tag) \cup Reach(g, HeadOid(g)))

\* The message of the newest reflog entry says whether a reset undoes it.
classify_undoable(kind) ==
  CASE kind = "commit" -> "Uncommit"
    [] kind \in {"cherry-pick", "revert", "merge", "rebase", "reset", "pull"} -> "Restore"
    [] OTHER -> "no"
=============================================================================
