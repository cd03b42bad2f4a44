---------------------------- MODULE GitRepository ----------------------------
(***************************************************************************)
(* A git repository as the two backends of crates/git-engine see it, and   *)
(* what each backend operation does to it.  composite.rs routes local      *)
(* reads and writes to libgit2 (git2_backend.rs), and commits, the network *)
(* and everything that can stop half-way to the git executable             *)
(* (cli_backend.rs).  What git itself does is external: an operator here   *)
(* is the backend's function, and git's effect is the one its arguments    *)
(* ask for.                                                                *)
(*                                                                         *)
(* One path is tracked.  Its content is absent, a text of hunks, or a text *)
(* with conflict markers.  Commits are numbered in the order they are      *)
(* made, which is also the order of their timestamps; 0 is "no commit".    *)
(* A repository is one record, an operation maps it to the set of its      *)
(* outcomes [res, git].                                                    *)
(***************************************************************************)
EXTENDS Integers, Sequences, FiniteSets, SequencesExt, FiniteSetsExt

CONSTANTS Branch,           \* local branch names
          Detached,         \* HEAD is on no branch
          Remote,           \* remote names
          NoRemote,         \* branch without upstream
          Hunk, Val,        \* a text is a value for every hunk
          Absent, Marked,   \* no file; a file with conflict markers
          NoConflict,       \* the index has no conflict entry
          MaxCommits        \* bound on the object store

ASSUME GitAssumption ==
  /\ MaxCommits \in Nat \ {0}
  /\ Detached \notin Branch /\ NoRemote \notin Remote

Text == [Hunk -> Val]
Content == Text \cup {Absent, Marked}
CommitId == 1 .. MaxCommits
MaybeCommit == 0 .. MaxCommits

RepoState == {"Clean", "Merging", "Rebasing", "CherryPicking", "Reverting"}
ReflogKind == {"commit", "merge", "pull", "rebase", "reset", "cherry-pick", "revert", "checkout", "clone"}
TodoAction == {"pick", "fixup", "exec"}
TodoLine == [do : TodoAction, oid : MaybeCommit]

\* A rebase in progress: the branch and commit it started from, the lines
\* still to run, the line it stopped at and why.
Rebase == [branch : Branch \cup {Detached}, orig : MaybeCommit, todo : Seq(TodoLine),
           at : TodoLine, stop : {"none", "conflict", "empty", "exec", "untracked"}]
NoRebase == [branch |-> Detached, orig |-> 0, todo |-> <<>>,
             at |-> [do |-> "pick", oid |-> 0], stop |-> "none"]

Repository ==
  [commits  : Seq([tree : Content, parents : Seq(CommitId)]),
   head     : Branch \cup {Detached},
   at       : MaybeCommit,                    \* HEAD's commit while detached
   refs     : [Branch -> MaybeCommit],
   tag      : MaybeCommit,
   remotes  : SUBSET Remote,
   tracking : [Remote -> [Branch -> MaybeCommit]],
   upstream : [Branch -> Remote \cup {NoRemote}],
   server   : [Branch -> MaybeCommit],        \* what the remote side holds
   index    : Content,
   conflict : {NoConflict} \cup [base : Content, ours : Content, theirs : Content],
   wt       : Content,
   state    : RepoState,
   other    : MaybeCommit,                    \* MERGE_HEAD, CHERRY_PICK_HEAD, REVERT_HEAD
   rebase   : Rebase,
   stash    : Seq([base : Content, wt : Content]),
   reflog   : Seq([oid : MaybeCommit, kind : ReflogKind])]   \* the two newest entries

-----------------------------------------------------------------------------
(* History *)

Newest(g) == Len(g.commits)
Tree(g, c) == IF c = 0 THEN Absent ELSE g.commits[c].tree
Parents(g, c) == g.commits[c].parents
FirstParent(g, c) == IF Parents(g, c) = <<>> THEN 0 ELSE Parents(g, c)[1]
HeadOid(g) == IF g.head = Detached THEN g.at ELSE g.refs[g.head]
HeadTree(g) == Tree(g, HeadOid(g))

\* Names lead to commits there are, parents are older than their children,
\* only a born branch can be in the middle of something, and a merge is of
\* a commit.
Sound(g) ==
  LET n == Newest(g) IN
  /\ \A c \in {g.at, g.tag, g.other, g.rebase.orig, g.rebase.at.oid} : c <= n
  /\ \A b \in Branch : /\ g.refs[b] <= n /\ g.server[b] <= n
                      /\ \A r \in Remote : g.tracking[r][b] <= n
  /\ \A e \in Range(g.reflog) : e.oid <= n
  /\ \A l \in Range(g.rebase.todo) : l.oid <= n /\ (l.do # "exec" => l.oid # 0)
  /\ \A c \in 1 .. n : \A p \in Range(Parents(g, c)) : p < c
  /\ g.state # "Clean" => HeadOid(g) # 0
  /\ g.state = "Merging" => g.other # 0

Reach(g, c) ==
  LET anc[i \in 0 .. Len(g.commits)] ==
        IF i = 0 THEN {} ELSE {i} \cup UNION {anc[p] : p \in Range(Parents(g, i))}
  IN  anc[c]
IsAncestor(g, a, b) == a = 0 \/ a \in Reach(g, b)
MergeBase(g, a, b) == Max({0} \cup (Reach(g, a) \cap Reach(g, b)))
\* The commits of a set from the newest down.
NewestFirst(S) ==
  LET listed[n \in 0 .. Max({0} \cup S)] ==
        IF n = 0 THEN <<>> ELSE IF n \in S THEN <<n>> \o listed[n - 1] ELSE listed[n - 1]
  IN  listed[Max({0} \cup S)]

Room(g, n) == Newest(g) + n <= MaxCommits
NewCommit(g, tree, parents) ==
  [g EXCEPT !.commits = Append(@, [tree |-> tree, parents |-> parents])]

Logged(g, c, kind) ==
  [g EXCEPT !.reflog = <<[oid |-> c, kind |-> kind]>> \o SubSeq(@, 1, Min({1, Len(@)}))]
\* HEAD, or the branch it is on, comes to point at c.
MoveHead(g, c, kind) ==
  LET moved == IF g.head = Detached THEN [g EXCEPT !.at = c] ELSE [g EXCEPT !.refs[g.head] = c]
  IN  Logged(moved, c, kind)
CommitOnHead(g, tree, parents, kind) ==
  LET made == NewCommit(g, tree, parents) IN MoveHead(made, Newest(made), kind)
HeadAsParent(g) == IF HeadOid(g) = 0 THEN <<>> ELSE <<HeadOid(g)>>

Concluded(g) == [g EXCEPT !.state = "Clean", !.other = 0, !.rebase = NoRebase]
WithFiles(g, c) == [g EXCEPT !.index = c, !.wt = c, !.conflict = NoConflict]

Ok(g) == {[res |-> "Ok", git |-> g]}
Err(e, g) == {[res |-> e, git |-> g]}

-----------------------------------------------------------------------------
(* Three-way merge of the file *)

Merge3(base, ours, theirs) ==
  CASE theirs = base \/ theirs = ours -> ours
    [] ours = base -> theirs
    [] /\ theirs # base /\ ours # base /\ theirs # ours
       /\ {base, ours, theirs} \subseteq Text
       /\ \A h \in Hunk : theirs[h] \in {base[h], ours[h]} \/ ours[h] = base[h]
       -> [h \in Hunk |-> IF theirs[h] = base[h] THEN ours[h] ELSE theirs[h]]
    [] OTHER -> Marked
Conflicts(base, ours, theirs) ==
  Merge3(base, ours, theirs) = Marked /\ Marked \notin {ours, theirs}

Unmerged(g, base, ours, theirs) ==
  [g EXCEPT !.wt = Marked, !.conflict = [base |-> base, ours |-> ours, theirs |-> theirs]]

\* git refuses to overwrite a file with changes that are not committed.
TrackedDirty(g) ==
  \/ g.conflict # NoConflict
  \/ g.index # HeadTree(g)
  \/ g.index # Absent /\ g.wt # g.index
MayReplace(g, c) == c = HeadTree(g) \/ (g.index = HeadTree(g) /\ g.wt = HeadTree(g))
Replaced(g, c) == IF c = HeadTree(g) THEN g ELSE WithFiles(g, c)

-----------------------------------------------------------------------------
(* Index and commits *)

\* libgit2's add_path cannot stage a deletion.
stage(g) ==
  IF g.wt = Absent THEN Err("Backend", g)
  ELSE Ok([g EXCEPT !.index = g.wt, !.conflict = NoConflict])

unstage(g) == Ok([g EXCEPT !.index = HeadTree(g), !.conflict = NoConflict])

\* The n-th hunk of the diff at the time of the call.
Hunks(from, to) ==
  IF {from, to} \subseteq Text
  THEN SetToSortSeq({h \in Hunk : from[h] # to[h]}, LAMBDA a, b : a < b)
  ELSE <<>>
stage_hunk(g, n) ==
  LET diff == Hunks(g.index, g.wt)
  IN  IF g.conflict # NoConflict \/ n > Len(diff) THEN Err("Backend", g)
      ELSE Ok([g EXCEPT !.index[diff[n]] = g.wt[diff[n]]])
unstage_hunk(g, n) ==
  LET diff == Hunks(HeadTree(g), g.index)
  IN  IF g.conflict # NoConflict \/ n > Len(diff) THEN Err("Backend", g)
      ELSE Ok([g EXCEPT !.index[diff[n]] = HeadTree(g)[diff[n]]])

\* git commit -m: it concludes a merge, a pick or a revert, not a rebase; a
\* hook may refuse.
commit(g) ==
  LET merging == g.state = "Merging"
      empty == g.index = HeadTree(g) /\ ~merging
      parents == HeadAsParent(g) \o (IF merging THEN <<g.other>> ELSE <<>>)
      made == CommitOnHead(g, g.index, parents, "commit")
  IN  IF g.conflict # NoConflict THEN Err("Backend", g)
      ELSE IF empty THEN Err("NothingToCommit", g)
      ELSE Ok(IF g.state = "Rebasing" THEN made ELSE Concluded(made)) \cup Err("Backend", g)

amend_commit(g) ==
  LET head == HeadOid(g)
      emptied == Len(Parents(g, head)) = 1 /\ g.index = Tree(g, FirstParent(g, head))
  IN  IF head = 0 THEN Err("NoHead", g)
      ELSE IF g.conflict # NoConflict \/ g.state \in {"Merging", "CherryPicking"} \/ emptied
           THEN Err("Backend", g)
      ELSE Ok(CommitOnHead(g, g.index, Parents(g, head), "commit"))

\* Moving the branch leaves the files (soft), the working tree (mixed) or
\* nothing alone; all but a soft reset end an operation in progress.
reset(g, c, mode) ==
  LET moved == MoveHead(g, c, "reset")
  IN  CASE mode = "Soft" ->
             IF g.state = "Merging" \/ g.conflict # NoConflict THEN Err("Backend", g) ELSE Ok(moved)
        [] mode = "Mixed" ->
             Ok(Concluded([moved EXCEPT !.index = Tree(g, c), !.conflict = NoConflict]))
        [] mode = "Hard" ->
             Ok(Concluded([moved EXCEPT !.index = Tree(g, c), !.conflict = NoConflict,
                             !.wt = IF Tree(g, c) = Absent /\ g.index = Absent THEN @ ELSE Tree(g, c)]))

-----------------------------------------------------------------------------
(* Branches, tags, remotes *)

\* A safe checkout of the tree, then HEAD is moved to the branch.  libgit2
\* refuses an index with conflicts; an operation in progress it does not see.
checkout_branch(g, b) ==
  LET tree == Tree(g, g.refs[b])
  IN  IF g.refs[b] = 0 THEN Err("BranchNotFound", g)
      ELSE IF g.conflict # NoConflict \/ ~MayReplace(g, tree) THEN Err("CheckoutConflict", g)
      ELSE Ok(Logged([Replaced(g, tree) EXCEPT !.head = b, !.at = 0], g.refs[b], "checkout"))

create_branch(g, b) ==
  CASE HeadOid(g) = 0 -> Err("NoHead", g)
    [] HeadOid(g) # 0 /\ g.refs[b] # 0 -> Err("BranchAlreadyExists", g)
    [] OTHER -> Ok([g EXCEPT !.refs[b] = HeadOid(g)])

delete_branch(g, b) ==
  CASE g.head = b /\ HeadOid(g) # 0 -> Err("CannotDeleteCurrentBranch", g)
    [] g.refs[b] = 0 -> Err("BranchNotFound", g)
    [] OTHER -> Ok([g EXCEPT !.refs[b] = 0, !.upstream[b] = NoRemote])

create_tag(g, c) == IF g.tag # 0 THEN Err("TagAlreadyExists", g) ELSE Ok([g EXCEPT !.tag = c])
delete_tag(g) == IF g.tag = 0 THEN Err("Backend", g) ELSE Ok([g EXCEPT !.tag = 0])

NoTracking == [b \in Branch |-> 0]
add_remote(g, r) ==
  IF r \in g.remotes THEN Err("RemoteAlreadyExists", g) ELSE Ok([g EXCEPT !.remotes = @ \cup {r}])
remove_remote(g, r) ==
  IF r \notin g.remotes THEN Err("RemoteNotFound", g)
  ELSE Ok([g EXCEPT !.remotes = @ \ {r}, !.tracking[r] = NoTracking,
             !.upstream = [b \in Branch |-> IF @[b] = r THEN NoRemote ELSE @[b]]])
rename_remote(g, old, new) ==
  IF old \notin g.remotes THEN Err("RemoteNotFound", g)
  ELSE IF old # new /\ new \in g.remotes THEN Err("RemoteAlreadyExists", g)
  ELSE IF old = new THEN Ok(g)
  ELSE Ok([g EXCEPT !.remotes = (@ \ {old}) \cup {new},
             !.tracking = [@ EXCEPT ![new] = g.tracking[old], ![old] = NoTracking],
             !.upstream = [b \in Branch |-> IF @[b] = old THEN new ELSE @[b]]])
set_upstream(g, r) ==
  CASE HeadOid(g) = 0 -> Err("NoHead", g)
    [] HeadOid(g) # 0 /\ (g.head = Detached \/ r \notin g.remotes) -> Err("Backend", g)
    [] OTHER -> IF g.tracking[r][g.head] = 0 THEN Err("Backend", g)
                ELSE Ok([g EXCEPT !.upstream[g.head] = r])

-----------------------------------------------------------------------------
(* Merge, cherry-pick, revert *)

\* Merging commit c into HEAD: nothing to do, a fast-forward, a merge commit,
\* or a stop with conflict markers.
Merged(g, c, kind) ==
  LET head == HeadOid(g)
      base == Tree(g, MergeBase(g, head, c))
      tree == Merge3(base, HeadTree(g), Tree(g, c))
  IN  IF g.state # "Clean" \/ g.conflict # NoConflict THEN Err("Backend", g)
      ELSE IF IsAncestor(g, c, head) THEN Ok(g)
      ELSE IF IsAncestor(g, head, c)
           THEN IF MayReplace(g, Tree(g, c))
                THEN Ok(MoveHead(Replaced(g, Tree(g, c)), c, kind))
                ELSE Err("Backend", g)
      ELSE IF g.index # HeadTree(g) \/ ~MayReplace(g, tree) THEN Err("Backend", g)
      ELSE IF Conflicts(base, HeadTree(g), Tree(g, c))
           THEN Err("MergeConflict", [Unmerged(g, base, HeadTree(g), Tree(g, c))
                                        EXCEPT !.state = "Merging", !.other = c])
      ELSE Ok(CommitOnHead(Replaced(g, tree), tree, <<head, c>>, kind))

merge_branch(g, b) == IF g.refs[b] = 0 THEN Err("BranchNotFound", g) ELSE Merged(g, g.refs[b], "merge")

\* Applying the change base -> theirs on HEAD as a new commit.  An empty
\* result stops like a conflict does.
Picked(g, c, base, theirs, state, kind) ==
  LET tree == Merge3(base, HeadTree(g), theirs)
      stopped == [g EXCEPT !.state = state, !.other = c]
  IN  IF g.state # "Clean" \/ g.conflict # NoConflict \/ HeadOid(g) = 0
         \/ g.index # HeadTree(g) \/ ~MayReplace(g, tree) \/ Len(Parents(g, c)) > 1
      THEN Err("Backend", g)
      ELSE IF Conflicts(base, HeadTree(g), theirs)
           THEN Err("MergeConflict", Unmerged(stopped, base, HeadTree(g), theirs))
      ELSE IF tree = HeadTree(g) THEN Err("MergeConflict", stopped)
      ELSE Ok(CommitOnHead(Replaced(g, tree), tree, <<HeadOid(g)>>, kind))
cherry_pick(g, c) ==
  Picked(g, c, Tree(g, FirstParent(g, c)), Tree(g, c), "CherryPicking", "cherry-pick")
revert(g, c) ==
  Picked(g, c, Tree(g, c), Tree(g, FirstParent(g, c)), "Reverting", "revert")

-----------------------------------------------------------------------------
(* Rebase: the todo list runs line by line until it is empty or stops *)

Amended(g, tree, kind) == CommitOnHead(g, tree, Parents(g, HeadOid(g)), kind)

\* `files`: the message files the exec lines read still exist.  A line that
\* would overwrite an untracked file stays on the list.
TodoStep(g, files) ==
  LET line == Head(g.rebase.todo)
      next == [g EXCEPT !.rebase.todo = Tail(@), !.rebase.at = line]
      base == Tree(g, FirstParent(g, line.oid))
      theirs == Tree(g, line.oid)
      tree == Merge3(base, HeadTree(g), theirs)
      stop(why) == [next EXCEPT !.rebase.stop = why]
  IN  IF line.do = "exec"
      THEN IF files THEN Amended(next, HeadTree(g), "commit") ELSE stop("exec")
      ELSE IF ~MayReplace(g, tree) THEN [g EXCEPT !.rebase.stop = "untracked"]
      ELSE IF Conflicts(base, HeadTree(g), theirs)
      THEN Unmerged(stop("conflict"), base, HeadTree(g), theirs)
      ELSE IF line.do = "fixup" THEN Amended(Replaced(next, tree), tree, "rebase")
      ELSE IF FirstParent(g, line.oid) = HeadOid(g)
      THEN MoveHead(Replaced(next, tree), line.oid, "rebase")
      ELSE IF tree = HeadTree(g) THEN stop("empty")
      ELSE CommitOnHead(Replaced(next, tree), tree, HeadAsParent(g), "rebase")

\* The branch follows HEAD once the list is done; if it moved meanwhile git
\* leaves HEAD where it is.
Finished(g) ==
  LET b == g.rebase.branch
  IN  IF b = Detached THEN Concluded(g)
      ELSE IF g.refs[b] # g.rebase.orig THEN g
      ELSE Logged(Concluded([g EXCEPT !.refs[b] = HeadOid(g), !.head = b, !.at = 0]),
                  HeadOid(g), "rebase")

Worked(g, files) ==
  LET after[n \in 0 .. Len(g.rebase.todo)] ==
        IF n = 0 THEN g
        ELSE IF after[n - 1].rebase.stop # "none" THEN after[n - 1]
        ELSE TodoStep(after[n - 1], files)
  IN  after[Len(g.rebase.todo)]
RunTodo(g, files) ==
  LET ran == Worked(g, files)
      done == Finished(ran)
  IN  IF ran.rebase.stop # "none"
      THEN Err(IF ran.rebase.stop \in {"exec", "untracked"} THEN "Backend" ELSE "MergeConflict", ran)
      ELSE IF done.state = "Clean" THEN Ok(done) ELSE Err("Backend", done)

Started(g, onto, todo) ==
  Logged([Replaced(g, Tree(g, onto)) EXCEPT
            !.state = "Rebasing", !.head = Detached, !.at = onto,
            !.rebase = [NoRebase EXCEPT !.branch = g.head, !.orig = HeadOid(g), !.todo = todo]],
         onto, "rebase")
CanStart(g) == g.state = "Clean" /\ ~TrackedDirty(g) /\ HeadOid(g) # 0

\* A step is [oid, action]; reword and squash set their message with an exec
\* line that reads a temporary file, drop leaves no line.
TodoLines(step) ==
  LET line(do) == [do |-> do, oid |-> step.oid]
      exec == [do |-> "exec", oid |-> 0]
  IN  CASE step.action = "Pick"   -> <<line("pick")>>
        [] step.action = "Reword" -> <<line("pick"), exec>>
        [] step.action = "Fixup"  -> <<line("fixup")>>
        [] step.action = "Squash" -> <<line("fixup"), exec>>
        [] step.action = "Drop"   -> <<>>
Todo(steps) == FlattenSeq([i \in 1 .. Len(steps) |-> TodoLines(steps[i])])

\* Nothing to merge a first fixup into; nothing kept at all.
ValidSteps(steps) ==
  LET kept == SelectSeq(steps, LAMBDA s : s.action # "Drop")
  IN  kept # <<>> /\ kept[1].action \in {"Pick", "Reword"}

\* The message files are removed when git returns, stopped or not.
interactive_rebase(g, onto, steps) ==
  IF ~ValidSteps(steps) \/ ~CanStart(g) \/ ~MayReplace(g, Tree(g, onto)) THEN Err("Backend", g)
  ELSE RunTodo(Started(g, onto, Todo(steps)), TRUE)

\* The commits of HEAD that `c` does not have, oldest first; merges are left out.
Picks(g, mine) ==
  LET todo[n \in 0 .. Newest(g)] ==
        IF n = 0 THEN <<>>
        ELSE IF n \in mine /\ Len(Parents(g, n)) < 2
             THEN Append(todo[n - 1], [do |-> "pick", oid |-> n]) ELSE todo[n - 1]
  IN  todo[Newest(g)]
Rebased(g, c) ==
  LET todo == Picks(g, Reach(g, HeadOid(g)) \ Reach(g, c))
  IN  IF ~CanStart(g) THEN Err("Backend", g)
      ELSE IF IsAncestor(g, c, HeadOid(g)) THEN Ok(g)
      ELSE IF ~MayReplace(g, Tree(g, c)) THEN Err("Backend", g)
      ELSE RunTodo(Started(g, c, todo), TRUE)

-----------------------------------------------------------------------------
(* Operations in progress *)

resolve_side(g, side) ==
  IF g.conflict = NoConflict
  THEN IF g.index = Absent THEN Err("Backend", g) ELSE Ok([g EXCEPT !.wt = g.index])
  ELSE LET c == IF side = "ours" THEN g.conflict.ours ELSE g.conflict.theirs
       IN  IF c = Absent THEN Err("Backend", g) ELSE Ok(WithFiles(g, c))

\* The rebase's next commit is the resolved line's; a resolved line that
\* changes nothing is skipped.
ResumeRebase(g) ==
  LET go == [g EXCEPT !.rebase.stop = "none"]
  IN  IF g.index = HeadTree(g) THEN RunTodo(go, FALSE)
      ELSE RunTodo(IF g.rebase.at.do = "fixup" THEN Amended(go, g.index, "rebase")
                   ELSE CommitOnHead(go, g.index, HeadAsParent(g), "rebase"), FALSE)

continue_op(g) ==
  CASE g.state = "Clean" -> Err("Backend", g)
    [] g.state # "Clean" /\ g.conflict # NoConflict -> Err("MergeConflict", g)
    [] g.state = "Merging" /\ g.conflict = NoConflict -> commit(g)
    [] g.state = "Rebasing" /\ g.conflict = NoConflict ->
         IF g.index # Absent /\ g.wt # g.index THEN Err("Backend", g) ELSE ResumeRebase(g)
    [] g.state \in {"CherryPicking", "Reverting"} /\ g.conflict = NoConflict ->
         IF g.index = HeadTree(g) THEN Err("MergeConflict", g)
         ELSE Ok(Concluded(CommitOnHead(g, g.index, <<HeadOid(g)>>,
                             IF g.state = "Reverting" THEN "revert" ELSE "cherry-pick")))

abort_op(g) ==
  CASE g.state = "Clean" -> Err("Backend", g)
    [] g.state = "Rebasing" ->
         LET b == g.rebase.branch
             orig == g.rebase.orig
             back == IF b = Detached THEN [g EXCEPT !.head = b, !.at = orig]
                     ELSE [g EXCEPT !.refs[b] = orig, !.head = b, !.at = 0]
         IN  Ok(Logged(WithFiles(Concluded(back), Tree(g, orig)), orig, "rebase"))
    [] OTHER -> Ok(Logged(WithFiles(Concluded(g), HeadTree(g)), HeadOid(g), "reset"))

-----------------------------------------------------------------------------
(* Stash *)

stash_save(g) ==
  IF HeadOid(g) = 0 \/ g.conflict # NoConflict THEN Err("Backend", g)
  ELSE IF ~TrackedDirty(g) THEN Err("NothingToStash", g)
  ELSE Ok(WithFiles([g EXCEPT !.stash = <<[base |-> HeadTree(g), wt |-> g.wt]>> \o @], HeadTree(g)))

StashDropped(g, n) == [g EXCEPT !.stash = RemoveAt(@, n)]
StashApplied(g, n, drop) ==
  LET s == g.stash[n]
      tree == Merge3(s.base, HeadTree(g), s.wt)
      applied == IF tree = HeadTree(g) THEN g
                 ELSE [g EXCEPT !.wt = tree, !.index = IF @ = Absent THEN tree ELSE @]
  IN  IF n > Len(g.stash) THEN Err("Backend", g)
      ELSE IF g.conflict # NoConflict \/ ~MayReplace(g, tree) THEN Err("Backend", g)
      ELSE IF Conflicts(s.base, HeadTree(g), s.wt)
           THEN Err("MergeConflict", Unmerged(g, s.base, HeadTree(g), s.wt))
      ELSE Ok(IF drop THEN StashDropped(applied, n) ELSE applied)
stash_apply(g, n) == StashApplied(g, n, FALSE)
stash_pop(g, n) == StashApplied(g, n, TRUE)
stash_drop(g, n) == IF n > Len(g.stash) THEN Err("Backend", g) ELSE Ok(StashDropped(g, n))

-----------------------------------------------------------------------------
(* Network: any call may fail before it has an effect *)

Fetched(g, r) == [g EXCEPT !.tracking[r] = g.server]
fetch(g) ==
  IF g.remotes = {} THEN Err("NoRemote", g)
  ELSE Err("NetworkError", g) \cup UNION {Ok(Fetched(g, r)) : r \in g.remotes}

\* Fetch and then merge or rebase: the second half may fail after the first.
pull(g, rebase) ==
  LET r == IF g.head = Detached THEN NoRemote ELSE g.upstream[g.head]
      got == Fetched(g, r)
      theirs == got.tracking[r][g.head]
  IN  IF r = NoRemote THEN Err("NoUpstream", g)
      ELSE Err("NetworkError", g) \cup
           (IF theirs = 0 THEN Err("Backend", got)
            ELSE IF rebase THEN Rebased(got, theirs) ELSE Merged(got, theirs, "pull"))

\* Without an upstream the push is repeated with -u, which sets one.
push(g) ==
  LET r == IF g.head = Detached THEN NoRemote ELSE g.upstream[g.head]
      to == IF r # NoRemote THEN r ELSE CHOOSE x \in g.remotes : TRUE
      sent == [g EXCEPT !.server[g.head] = HeadOid(g), !.tracking[to][g.head] = HeadOid(g),
                        !.upstream[g.head] = to]
  IN  IF g.head = Detached \/ HeadOid(g) = 0 THEN Err("NoUpstream", g)
      ELSE IF r = NoRemote /\ g.remotes = {} THEN Err("NoRemote", g)
      ELSE Err("NetworkError", g) \cup
           (IF IsAncestor(g, g.server[g.head], HeadOid(g)) THEN Ok(sent) ELSE Err("PushRejected", g))
=============================================================================
