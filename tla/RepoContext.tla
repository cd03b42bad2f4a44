----------------------------- MODULE RepoContext -----------------------------
(***************************************************************************)
(* crates/app-service/src/repo_context.rs: the long-lived context of one   *)
(* open repository.  It answers reads from caches, runs writes and then    *)
(* drops the caches they made stale, and keeps the undo timeline.  The     *)
(* desktop shell runs every command on a blocking thread of its own, so    *)
(* calls interleave wherever no lock is held: between the look in a cache, *)
(* the read of the repository and the store of the answer; between a write,*)
(* its invalidation and its record in the timeline; between the check for  *)
(* uncommitted changes and the hard reset of an undo.  Outside the program *)
(* the user edits the file and runs git, colleagues push, and the file     *)
(* watcher reports changes late and in batches.                            *)
(***************************************************************************)
EXTENDS GitViews, UndoNav, CommitGraph

CONSTANTS Client,        \* command threads
          Writes,        \* the write operations this instance exercises
          Navs,          \* the timeline operations it exercises
          Keys,          \* the caches it exercises
          PageSize,      \* rows a graph request adds
          Edits,         \* the texts the user writes
          StartRepos,    \* the repositories the context may be opened on
          NotCached,     \* an empty cache entry
          MaxRequests,   \* bound on commands
          MaxOutside     \* bound on changes from outside

VARIABLES git,      \* the repository
          cache,    \* key |-> answer or NotCached, all caches but the graph
          accum,    \* the graph accumulator: rows laid out so far, the lanes after them
          nav,      \* the undo timeline
          task,     \* what each command thread is doing
          pending,  \* change kinds the watcher has not delivered yet
          watched,  \* the watcher is on this repository
          requests, outside,   \* commands and outside changes so far
          \* history, for the properties
          unreported,   \* kinds in `pending` that no write of ours will clear
          excused,      \* keys whose answer was stored in a race, or went unwatched
          swallowed,    \* keys left alone by a report that was about them too
          tracked       \* HEAD's last move is one the timeline was told of

ghosts == <<unreported, excused, swallowed, tracked>>
vars == <<git, cache, accum, nav, task, pending, watched, requests, outside, ghosts>>

\* Operations whose result is put on the timeline, with their undo semantics.
Recorded ==
  [commit |-> "Uncommit", amend_commit |-> "Uncommit", merge_branch |-> "Restore",
   pull |-> "Restore", cherry_pick |-> "Restore", revert |-> "Restore", reset |-> "Restore",
   interactive_rebase |-> "Restore"]
IsRecorded(op) == op \in DOMAIN Recorded

\* What after_write drops: the answers about files, the answers about refs.
IndexWrites ==
  {"stage", "unstage", "stage_hunk", "unstage_hunk"}
ConflictWrites == {"resolve_ours", "resolve_theirs"}
StashWrites == {"stash_save", "stash_apply", "stash_pop"}
RefWrites ==
  {"set_upstream", "create_branch", "delete_branch", "fetch", "push", "create_tag", "delete_tag",
   "add_remote", "remove_remote", "rename_remote"}
TreeWrites ==
  {"commit", "amend_commit", "checkout_branch", "create_and_checkout", "merge_branch", "pull",
   "continue_op", "abort_op", "cherry_pick", "revert", "reset", "interactive_rebase"}
NavMoves == {"undo", "redo", "goto"}
Operations ==
  IndexWrites \cup ConflictWrites \cup StashWrites \cup RefWrites \cup TreeWrites \cup {"stash_drop"}
ASSUME ContextAssumption ==
  /\ \A g \in StartRepos : g \in Repository /\ Sound(g)
  /\ Writes \subseteq Operations /\ Navs \subseteq NavMoves \cup {"peek"} /\ NoOid = 0 /\ PageSize \in Nat

\* Mutant: a commit is taken to leave the answers about refs alone.
CommitDropsFilesOnly(op) ==
  (IF op \in IndexWrites \cup ConflictWrites \cup StashWrites \cup TreeWrites \cup NavMoves
   THEN {"WorkingTree"} ELSE {})
  \cup (IF op \in (RefWrites \cup TreeWrites \cup NavMoves) \ {"commit"} THEN {"GitRef"} ELSE {})
Drops(op) ==
  (IF op \in IndexWrites \cup ConflictWrites \cup StashWrites \cup TreeWrites \cup NavMoves
   THEN {"WorkingTree"} ELSE {})
  \cup (IF op \in RefWrites \cup TreeWrites \cup NavMoves THEN {"GitRef"} ELSE {})

\* Requests refused by the service before they reach a backend (an empty
\* name or message, a first step to squash) end there and are not listed.
Idle == [pc |-> "idle"]
IsIdle(c) == task[c].pc = "idle"
AllIdle == \A c \in Client : IsIdle(c)

-----------------------------------------------------------------------------
(* Reads *)

WorktreeKeys == {"status", "working_diff"}
RefKeys == {"log", "refs", "branches", "current_branch", "ahead_behind", "compare",
            "file_history", "line_history"}
GenKeys == {"log", "blame", "graph"}      \* a newer read cancels an older one

View(g, k) ==
  CASE k = "status" -> status(g)
    [] k = "working_diff" -> <<working_diff(g, TRUE), working_diff(g, FALSE)>>
    [] k = "log" -> log(g)
    [] k = "refs" -> refs(g)
    [] k = "branches" -> branches(g)
    [] k = "current_branch" -> current_branch(g)
    [] k = "ahead_behind" -> ahead_behind(g)
    [] k = "compare" -> [ab \in Branch \X Branch |-> compare_files(g, ab[1], ab[2])]
    [] k = "file_history" -> file_history(g)
    [] k = "line_history" -> [h \in Hunk |-> line_history(g, h)]
    [] k = "blame" -> blame(g)
    [] k = "commit_files" -> [c \in 1 .. Len(g.commits) |-> commit_files(g, c)]

\* A row of the layout gets the refs on its commit and whether it is to push.
GraphRow(g, row, outgoing) ==
  [row |-> row,
   refs |-> {b \in Branch : g.refs[b] = row.commit} \cup (IF g.tag = row.commit THEN {"tag"} ELSE {}),
   head |-> HeadOid(g) = row.commit,
   outgoing |-> row.commit \in outgoing]
History(g) == [c \in 1 .. Newest(g) |-> Parents(g, c)]
commit_graph_page(g, skip, take, lanes) ==
  LET page == layout_into(Page(log(g), skip, take), History(g), lanes)
      outgoing == sync_commits(g).outgoing
  IN  [lanes |-> page.lanes,
       rows |-> [i \in DOMAIN page.rows |-> GraphRow(g, page.rows[i], outgoing)]]
EmptyAccum == [rows |-> <<>>, lanes |-> <<>>, complete |-> FALSE]

\* Dropping the answers of one domain.  A read that already has its answer
\* in hand will store it all the same.

Cleared(kind) ==
  {"blame"} \cup (IF kind = "GitRef" THEN RefKeys \cup {"graph"} ELSE WorktreeKeys)
Dropped(kinds) == UNION {Cleared(k) : k \in kinds}
invalidate(kinds) ==
  /\ cache' = [k \in DOMAIN cache |-> IF k \in Dropped(kinds) THEN NotCached ELSE cache[k]]
  /\ accum' = IF "graph" \in Dropped(kinds) THEN EmptyAccum ELSE accum
Fresh(kinds) ==
  /\ excused' = excused \ Dropped(kinds)
  /\ swallowed' = swallowed \ Dropped(kinds)
Raced(kinds, t) ==
  IF (t.pc = "fill" \/ (t.pc = "read" /\ t.key = "graph")) /\ t.key \in Dropped(kinds)
  THEN [t EXCEPT !.raced = TRUE] ELSE t

\* A hit returns at once.  A miss on a key with generations cancels the
\* older reads of that key.
Reading(k, skip, lanes) ==
  [pc |-> "read", key |-> k, cancelled |-> FALSE, raced |-> FALSE, skip |-> skip, lanes |-> lanes]
ReadMiss(c, k, t) ==
  /\ requests' = requests + 1
  /\ task' = [d \in Client |->
       IF d = c THEN t
       ELSE IF task[d].pc = "read" /\ task[d].key = k /\ k \in GenKeys
            THEN [task[d] EXCEPT !.cancelled = TRUE] ELSE task[d]]
  /\ UNCHANGED <<git, cache, accum, nav, pending, watched, outside, ghosts>>
ReadBegin(c, k) ==
  /\ IsIdle(c) /\ requests < MaxRequests /\ k \in Keys \ {"graph"} /\ cache[k] = NotCached
  /\ ReadMiss(c, k, Reading(k, 0, <<>>))
\* Mutant: the next page is laid out as if nothing came before it.
GraphBeginAfresh(c) ==
  /\ IsIdle(c) /\ requests < MaxRequests /\ "graph" \in Keys /\ ~accum.complete
  /\ ReadMiss(c, "graph", Reading("graph", Len(accum.rows), <<>>))
GraphBegin(c) ==
  /\ IsIdle(c) /\ requests < MaxRequests /\ "graph" \in Keys /\ ~accum.complete
  /\ ReadMiss(c, "graph", Reading("graph", Len(accum.rows), accum.lanes))

ReadRepository(c) ==
  /\ task[c].pc = "read"
  /\ LET t == task[c]
         answer == IF t.key = "graph" THEN commit_graph_page(git, t.skip, PageSize, t.lanes) ELSE View(git, t.key)
     IN  task' = [task EXCEPT ![c] =
           IF t.cancelled THEN Idle
           ELSE [pc |-> "fill", key |-> t.key, val |-> answer, skip |-> t.skip, raced |-> t.raced]]
  /\ UNCHANGED <<git, cache, accum, nav, pending, watched, requests, outside, ghosts>>

Marks(k, raced) == excused' = IF raced THEN excused \cup {k} ELSE excused \ {k}
Fill(c) ==
  /\ task[c].pc = "fill" /\ task[c].key # "graph"
  /\ cache' = [cache EXCEPT ![task[c].key] = task[c].val]
  /\ Marks(task[c].key, task[c].raced)
  /\ swallowed' = swallowed \ {task[c].key}
  /\ task' = [task EXCEPT ![c] = Idle]
  /\ UNCHANGED <<git, accum, nav, pending, watched, requests, outside, unreported, tracked>>

\* A page is dropped when the accumulator no longer has the length it had.
GraphFits(t) == Len(accum.rows) = t.skip
GraphFill(c) ==
  /\ task[c].pc = "fill" /\ task[c].key = "graph"
  /\ LET t == task[c]
     IN  IF GraphFits(t)
         THEN /\ accum' = [rows |-> accum.rows \o t.val.rows, lanes |-> t.val.lanes,
                           complete |-> accum.complete \/ Len(t.val.rows) < PageSize]
              /\ excused' = IF t.raced THEN excused \cup {"graph"} ELSE excused
         ELSE UNCHANGED <<accum, excused>>
  /\ task' = [task EXCEPT ![c] = Idle]
  /\ UNCHANGED <<git, cache, nav, pending, watched, requests, outside, unreported, swallowed, tracked>>

-----------------------------------------------------------------------------
(* Writes *)

\* The kinds of change the watcher sees between two repositories.
Touched(g, h) ==
  (IF g.wt # h.wt THEN {"WorkingTree"} ELSE {})
  \cup (IF <<g.index, g.conflict>> # <<h.index, h.conflict>> THEN {"Index"} ELSE {})
  \cup (IF <<g.head, g.at, g.refs, g.tag, g.tracking>> # <<h.head, h.at, h.refs, h.tag, h.tracking>>
        THEN {"GitRef"} ELSE {})

\* The repository becomes h.  `own`: a write of ours that will invalidate.
Becomes(h, own) ==
  LET kinds == IF watched THEN Touched(git, h) ELSE {}
  IN  /\ git' = h
      /\ pending' = pending \cup kinds
      /\ unreported' = IF own THEN unreported ELSE unreported \cup kinds

Outcomes(g, op, arg) ==
  CASE op = "stage" -> stage(g)
    [] op = "unstage" -> unstage(g)
    [] op = "stage_hunk" -> stage_hunk(g, arg)
    [] op = "unstage_hunk" -> unstage_hunk(g, arg)
    [] op = "commit" -> commit(g)
    [] op = "amend_commit" -> amend_commit(g)
    [] op = "checkout_branch" -> checkout_branch(g, arg)
    [] op \in {"create_branch", "create_and_checkout"} -> create_branch(g, arg)
    [] op = "delete_branch" -> delete_branch(g, arg)
    [] op = "merge_branch" -> merge_branch(g, arg)
    [] op = "fetch" -> fetch(g)
    [] op = "pull" -> pull(g, arg)
    [] op = "push" -> push(g)
    [] op = "resolve_ours" -> resolve_side(g, "ours")
    [] op = "resolve_theirs" -> resolve_side(g, "theirs")
    [] op = "continue_op" -> continue_op(g)
    [] op = "abort_op" -> abort_op(g)
    [] op = "cherry_pick" -> cherry_pick(g, arg)
    [] op = "revert" -> revert(g, arg)
    [] op = "reset" -> reset(g, arg.to, arg.mode)
    [] op = "interactive_rebase" -> interactive_rebase(g, arg.onto, arg.steps)
    [] op = "stash_save" -> stash_save(g)
    [] op = "stash_apply" -> stash_apply(g, arg)
    [] op = "stash_pop" -> stash_pop(g, arg)
    [] op = "stash_drop" -> stash_drop(g, arg)
    [] op = "create_tag" -> create_tag(g, arg)
    [] op = "delete_tag" -> delete_tag(g)
    [] op = "add_remote" -> add_remote(g, arg)
    [] op = "remove_remote" -> remove_remote(g, arg)
    [] op = "rename_remote" -> rename_remote(g, arg.old, arg.new)
    [] op = "set_upstream" -> set_upstream(g, arg)

\* The commits a rebase of the newest one or two would rewrite, oldest first.
Chain(g) ==
  LET top == HeadOid(g) IN
  IF top = 0 \/ Len(Parents(g, top)) # 1 THEN <<>>
  ELSE IF Len(Parents(g, FirstParent(g, top))) # 1 THEN <<top>>
  ELSE <<FirstParent(g, top), top>>
RebaseActions == {"Pick", "Reword", "Fixup", "Squash", "Drop"}
RebaseArgs(g) ==
  {[onto |-> FirstParent(g, Chain(g)[1]),
    steps |-> [i \in 1 .. Len(Chain(g)) |-> [oid |-> Chain(g)[i], action |-> a[i]]]]
     : a \in [1 .. Len(Chain(g)) -> RebaseActions]}
\* Room for the commits an operation may make, one for most.
CommitsMade(op) == IF op \in {"interactive_rebase", "continue_op", "pull"} THEN 4 ELSE 1

Args(op) ==
  LET born == 1 .. Len(git.commits) IN
  CASE op \in {"stage_hunk", "unstage_hunk"} -> 1 .. Cardinality(Hunk)
    [] op \in {"checkout_branch", "create_branch", "create_and_checkout", "delete_branch",
               "merge_branch"} -> Branch
    [] op = "pull" -> BOOLEAN
    [] op \in {"cherry_pick", "revert"} -> born
    [] op = "create_tag" -> {HeadOid(git)} \ {0}   \* where the tag is tells nothing apart
    [] op = "reset" -> [to : born, mode : {"Soft", "Mixed", "Hard"}]
    [] op = "interactive_rebase" -> IF Chain(git) = <<>> THEN {} ELSE RebaseArgs(git)
    [] op \in {"stash_apply", "stash_pop", "stash_drop"} -> 1 .. (Len(git.stash) + 1)
    [] op \in {"add_remote", "remove_remote", "set_upstream"} -> Remote
    [] op = "rename_remote" -> [old : Remote, new : Remote]
    [] OTHER -> {0}

\* A recorded operation notes HEAD before it runs.
WriteBegin(c, op) ==
  /\ IsIdle(c) /\ requests < MaxRequests
  /\ Room(git, CommitsMade(op))
  /\ \E arg \in Args(op) :
       task' = [task EXCEPT ![c] = [pc |-> "run", op |-> op, arg |-> arg, before |-> HeadOid(git)]]
  /\ requests' = requests + 1
  /\ UNCHANGED <<git, cache, accum, nav, pending, watched, outside, ghosts>>

\* An error returns as it is, whatever it left behind: nothing is dropped
\* and nothing recorded.
AfterRun(op) ==
  CASE op = "create_and_checkout" -> "checkout"
    [] op \in {"stash_drop"} -> "idle"
    [] OTHER -> "drop"
RunWrite(c) ==
  /\ task[c].pc = "run" /\ Room(git, CommitsMade(task[c].op))
  /\ \E out \in Outcomes(git, task[c].op, task[c].arg) :
       LET ok == out.res = "Ok" IN
       /\ Becomes(out.git, ok /\ Drops(task[c].op) # {})
       /\ task' = [task EXCEPT ![c] =
            IF ok /\ AfterRun(task[c].op) # "idle" THEN [@ EXCEPT !.pc = AfterRun(task[c].op)] ELSE Idle]
       /\ tracked' = (tracked /\ (HeadOid(out.git) = HeadOid(git)))
  /\ UNCHANGED <<cache, accum, nav, watched, requests, outside, excused, swallowed>>

\* create_branch with checkout: the branch stays when the checkout is refused.
CheckoutCreated(c) ==
  /\ task[c].pc = "checkout"
  /\ \E out \in checkout_branch(git, task[c].arg) :
       LET ok == out.res = "Ok" IN
       /\ git' = out.git
       /\ LET seen == IF watched THEN Touched(git, out.git) ELSE {}
          IN  /\ pending' = pending \cup seen
              /\ unreported' = IF ok THEN unreported
                               ELSE unreported \cup (pending \cap {"GitRef"})
       /\ task' = [task EXCEPT ![c] = IF ok THEN [@ EXCEPT !.pc = "drop"] ELSE Idle]
       /\ tracked' = (tracked /\ (HeadOid(out.git) = HeadOid(git)))
  /\ UNCHANGED <<cache, accum, nav, watched, requests, outside, excused, swallowed>>

after_write(c) ==
  /\ task[c].pc = "drop"
  /\ LET op == task[c].op IN
     /\ invalidate(Drops(op))
     /\ Fresh(Drops(op))
     /\ task' = [d \in Client |->
          IF d # c THEN Raced(Drops(op), task[d])
          ELSE IF IsRecorded(op) THEN [task[c] EXCEPT !.pc = "record"] ELSE Idle]
  /\ UNCHANGED <<git, nav, pending, watched, requests, outside, unreported, tracked>>

record_nav(c) ==
  /\ task[c].pc = "record"
  /\ LET t == task[c] after == HeadOid(git) IN
     /\ nav' = IF after = 0 THEN nav ELSE record(nav, t.before, after, Recorded[t.op])
     /\ tracked' = (tracked \/ (after # 0 /\ t.before # after))
  /\ task' = [task EXCEPT ![c] = Idle]
  /\ UNCHANGED <<git, cache, accum, pending, watched, requests, outside, unreported, excused, swallowed>>

-----------------------------------------------------------------------------
(* Undo, redo, go to a point of the operation log; looking at the log *)

\* `peek` is undo_state or op_log: they only bring the timeline up to date.
NavBegin(c, op) ==
  /\ IsIdle(c) /\ requests < MaxRequests
  /\ \E index \in (IF op = "goto" THEN 0 .. Len(nav.timeline) ELSE {0}) :
       task' = [task EXCEPT ![c] =
         IF HeadOid(git) = 0 THEN Idle
         ELSE [pc |-> "hint", op |-> op, index |-> index, head |-> HeadOid(git)]]
  /\ requests' = requests + 1
  /\ UNCHANGED <<git, cache, accum, nav, pending, watched, outside, ghosts>>

NoHint == [oid |-> 0, kind |-> "Restore"]
bootstrap_hint(g) ==
  IF Len(g.reflog) < 2 \/ classify_undoable(g.reflog[1].kind) = "no" THEN NoHint
  ELSE [oid |-> g.reflog[2].oid, kind |-> classify_undoable(g.reflog[1].kind)]
NavHint(c) ==
  /\ task[c].pc = "hint"
  /\ LET t == task[c]
         skip == t.op = "peek" /\ is_aligned(nav, t.head)
     IN  task' = [task EXCEPT ![c] =
           [pc |-> "pick", op |-> t.op, index |-> t.index, head |-> t.head,
            boot |-> IF skip THEN NoHint ELSE bootstrap_hint(git)]]
  /\ UNCHANGED <<git, cache, accum, nav, pending, watched, requests, outside, ghosts>>

\* Under the timeline's lock: align it with the HEAD read before, choose the
\* point.  A jump over several points restores the files whatever its kind.
NavPick(c) ==
  /\ task[c].pc = "pick"
  /\ LET t == task[c]
         line == sync(nav, t.head, t.boot)
         i == CASE t.op = "undo" -> line.cursor - 1
                [] t.op = "redo" -> line.cursor + 1
                [] OTHER -> t.index
         far == i > line.cursor + 1 \/ i < line.cursor - 1
         to == point_at(line, i)
         hard == far \/ to.kind = "Restore"
     IN  /\ nav' = line
         /\ tracked' = (t.head = HeadOid(git))
         /\ task' = [task EXCEPT ![c] =
              IF t.op = "peek" \/ ~can_goto(line, i) THEN Idle
              ELSE [pc |-> IF hard THEN "check" ELSE "reset", op |-> t.op, index |-> i,
                    target |-> to.oid, hard |-> hard, edited |-> FALSE]]
  /\ UNCHANGED <<git, cache, accum, pending, watched, requests, outside, unreported, excused, swallowed>>

\* Mutant: the hard reset is made without looking.
ApplyNavUnchecked(c) ==
  /\ task[c].pc = "check"
  /\ task' = [task EXCEPT ![c] = [@ EXCEPT !.pc = "reset"]]
  /\ UNCHANGED <<git, cache, accum, nav, pending, watched, requests, outside, ghosts>>

\* Nothing uncommitted may be overwritten.
apply_nav_check(c) ==
  /\ task[c].pc = "check"
  /\ task' = [task EXCEPT ![c] = IF IsDirty(git) THEN Idle ELSE [@ EXCEPT !.pc = "reset"]]
  /\ UNCHANGED <<git, cache, accum, nav, pending, watched, requests, outside, ghosts>>

apply_nav_reset(c) ==
  /\ task[c].pc = "reset"
  /\ \E out \in reset(git, task[c].target, IF task[c].hard THEN "Hard" ELSE "Soft") :
       LET ok == out.res = "Ok" IN
       /\ Becomes(out.git, ok)
       /\ task' = [task EXCEPT ![c] = IF ok THEN [@ EXCEPT !.pc = "moved"] ELSE Idle]
       /\ tracked' = (tracked /\ HeadOid(out.git) = HeadOid(git))
  /\ UNCHANGED <<cache, accum, nav, watched, requests, outside, excused, swallowed>>

NavMoved(c) ==
  /\ task[c].pc = "moved"
  /\ LET t == task[c]
     IN  nav' = CASE t.op = "undo" -> commit_undo(nav)
                  [] t.op = "redo" -> commit_redo(nav)
                  [] t.op = "goto" -> commit_goto(nav, t.index)
  /\ tracked' = (HeadOid(git) = task[c].target)
  /\ task' = [task EXCEPT ![c] = [@ EXCEPT !.pc = "drop"]]
  /\ UNCHANGED <<git, cache, accum, pending, watched, requests, outside, unreported, excused, swallowed>>

\* The user's refresh does not trust the watcher.
refresh_status(c) ==
  /\ IsIdle(c) /\ requests < MaxRequests /\ "status" \in Keys
  /\ invalidate({"WorkingTree"})
  /\ Fresh({"WorkingTree"})
  /\ requests' = requests + 1
  /\ task' = [d \in Client |->
       IF d = c THEN Reading("status", 0, <<>>)
       ELSE Raced({"WorkingTree"}, task[d])]
  /\ UNCHANGED <<git, nav, pending, watched, outside, unreported, tracked>>

-----------------------------------------------------------------------------
(* Outside the program *)

\* A change from outside: `edit` when it is to the working file.
Outside(h) ==
  /\ outside < MaxOutside /\ h # git
  /\ Becomes(h, FALSE)
  /\ outside' = outside + 1
  /\ tracked' = (tracked /\ HeadOid(h) = HeadOid(git))
  /\ task' = [c \in Client |->
       IF task[c].pc = "reset" /\ h.wt # git.wt THEN [task[c] EXCEPT !.edited = TRUE] ELSE task[c]]
  /\ UNCHANGED <<cache, accum, nav, watched, requests, excused, swallowed>>

EditFile == \E c \in Edits : Outside([git EXCEPT !.wt = c])
\* git in a terminal: add, commit, take the last commit back.
TerminalAdd == git.conflict = NoConflict /\ \E out \in stage(git) : Outside(out.git)
TerminalCommit == Room(git, 1) /\ \E out \in commit(git) : Outside(out.git)
TerminalReset ==
  /\ git.state = "Clean" /\ HeadOid(git) # 0 /\ Parents(git, HeadOid(git)) # <<>>
  /\ \E out \in reset(git, FirstParent(git, HeadOid(git)), "Mixed") : Outside(out.git)
OthersPush ==
  /\ Room(git, 1) /\ git.remotes # {}
  /\ \E b \in Branch, c \in Edits :
       LET tip == git.server[b]
           made == NewCommit(git, c, IF tip = 0 THEN <<>> ELSE <<tip>>)
       IN  tip # 0 /\ Tree(git, tip) # c /\ Outside([made EXCEPT !.server[b] = Newest(made)])

-----------------------------------------------------------------------------
(* The file watcher *)

\* One report per debounce window, for the widest kind seen in it.
coalesce(kinds) ==
  IF "GitRef" \in kinds THEN "GitRef" ELSE IF "Index" \in kinds THEN "Index" ELSE "WorkingTree"
WatcherFires ==
  \E batch \in (SUBSET pending) \ {{}} :
    LET kind == coalesce(batch)
        about == IF kind = "GitRef" THEN {"GitRef", "WorkingTree"} ELSE {kind}
    IN  /\ pending' = pending \ batch
        /\ unreported' = unreported \ batch
        /\ invalidate({kind})
        /\ excused' = excused \ Cleared(kind)
        /\ swallowed' = (swallowed \ Cleared(kind)) \cup (Dropped(about) \ Cleared(kind))
        /\ task' = [c \in Client |-> Raced(about, task[c])]
        /\ UNCHANGED <<git, nav, watched, requests, outside, tracked>>

\* There is one watcher; opening another repository takes it away, coming
\* back starts one that knows nothing of what happened meanwhile.
Stale(k) == IF k = "graph"
            THEN [lanes |-> accum.lanes, rows |-> accum.rows] # commit_graph_page(git, 0, Len(accum.rows), <<>>)
            ELSE cache[k] \notin {NotCached, View(git, k)}
\* The accumulated graph may also miss that there is more of it now.
Outdated(k) == Stale(k) \/ (k = "graph" /\ accum.complete /\ Len(accum.rows) # Len(log(git)))
OpenOther ==
  /\ watched /\ outside < MaxOutside
  /\ watched' = FALSE /\ pending' = {} /\ unreported' = {}
  /\ outside' = outside + 1
  /\ UNCHANGED <<git, cache, accum, nav, task, requests, excused, swallowed, tracked>>
watch_repo ==
  /\ ~watched /\ Keys # {}
  /\ watched' = TRUE
  /\ excused' = excused \cup {k \in Keys : Outdated(k)}
  /\ task' = [c \in Client |-> Raced({"GitRef", "WorkingTree"}, task[c])]
  /\ UNCHANGED <<git, cache, accum, nav, pending, requests, outside, unreported, swallowed, tracked>>

-----------------------------------------------------------------------------
Init ==
  /\ git \in StartRepos
  /\ cache = [k \in Keys \ {"graph"} |-> NotCached]
  /\ accum = EmptyAccum
  /\ nav = EmptyNav
  /\ task = [c \in Client |-> Idle]
  /\ pending = {} /\ watched = (Keys # {})   \* no caches, no watcher
  /\ requests = 0 /\ outside = 0
  /\ unreported = {} /\ excused = {} /\ swallowed = {} /\ tracked = FALSE

Reads(c) ==
  \/ \E k \in Keys : ReadBegin(c, k)
  \/ GraphBegin(c)
  \/ refresh_status(c)
  \/ ReadRepository(c)
  \/ Fill(c)
  \/ GraphFill(c)
WriteCommands(c) ==
  \/ \E op \in Writes : WriteBegin(c, op)
  \/ RunWrite(c)
  \/ CheckoutCreated(c)
  \/ after_write(c)
  \/ record_nav(c)
NavCommands(c) ==
  \/ \E op \in Navs : NavBegin(c, op)
  \/ NavHint(c)
  \/ NavPick(c)
  \/ apply_nav_check(c)
  \/ apply_nav_reset(c)
  \/ NavMoved(c)
Environment == EditFile \/ TerminalAdd \/ TerminalCommit \/ TerminalReset \/ OthersPush
Watching == WatcherFires \/ OpenOther \/ watch_repo
Next ==
  \/ \E c \in Client : Reads(c) \/ WriteCommands(c) \/ NavCommands(c)
  \/ Environment
  \/ Watching
Spec == Init /\ [][Next]_vars

-----------------------------------------------------------------------------
(* Properties *)

\* A write of ours changed the repository and has not dropped the caches yet.
Settling(kind) ==
  \E c \in Client : task[c].pc \in {"checkout", "moved", "drop"} /\ kind \in Drops(task[c].op)

RefCachesFollow ==
  \A k \in Keys \cap (RefKeys \cup {"graph"}) :
    Outdated(k) => "GitRef" \in unreported \/ Settling("GitRef") \/ k \in excused \/ ~watched
FileCachesFollow ==
  \A k \in Keys \cap (WorktreeKeys \cup {"blame"}) :
    Stale(k) => \/ unreported # {} \/ Settling("WorkingTree") \/ ~watched
                \/ k \in excused \cup (swallowed \ {"blame"})
\* An answer in the cache that no longer is the repository's is one a report
\* or an invalidation is still due for, one stored by a read that an
\* invalidation overtook, or one that changed while another repository was
\* watched; an answer about files, also one whose report held a change of
\* refs, which drops the answers about refs only.  (invalidate, after_write
\* and the watcher of repo_context.rs and watcher.rs.)
CachesFollow == RefCachesFollow /\ FileCachesFollow

\* The graph, laid out page by page by several requests with the lanes kept
\* in between, is one drawing: no line hangs in the air at the seam of two
\* pages, and every commit is joined to its parents (graph.rs, and "never
\* splice wrongly" of commit_graph), with the exceptions of CachesFollow.
GraphDrawn ==
  \/ LinesMeet([i \in DOMAIN accum.rows |-> accum.rows[i].row], History(git))
  \/ "GitRef" \in unreported \/ Settling("GitRef") \/ "graph" \in excused \/ ~watched

\* Between commands the timeline's cursor stands on HEAD, unless HEAD was
\* moved by something the timeline is not told of.
NavAligned == AllIdle /\ tracked => is_aligned(nav, HeadOid(git))

\* Everything the repository holds the file's text in.
Held(g) == {g.wt, g.index} \cup {g.commits[i].tree : i \in 1 .. Newest(g)}
             \cup {g.stash[i].wt : i \in 1 .. Len(g.stash)}
Discarding(c) ==
  \/ task[c].pc = "run" /\ task[c].op \in {"resolve_ours", "resolve_theirs", "abort_op", "stash_drop"}
  \/ task[c].pc = "run" /\ task[c].op = "reset" /\ task[c].arg.mode = "Hard"
  \/ task[c].pc = "reset" /\ task[c].edited
\* The text in the working tree is lost only by an operation that says so:
\* a hard reset, taking one side of a conflict, an abort, dropping a stash.
\* No other write and no undo, redo or jump overwrites a text that is in no
\* commit, index or stash, but for an edit that slips in after apply_nav's
\* check for uncommitted changes.
WorkIsNeverLost ==
  [][ \/ git.wt \in {Absent, Marked} \cup Held(git')
      \/ outside' # outside
      \/ \E c \in Client : task'[c] # task[c] /\ Discarding(c) ]_vars
=============================================================================
