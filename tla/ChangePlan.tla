----------------------------- MODULE ChangePlan -----------------------------
(***************************************************************************)
(* The local change planner: the grouping of crates/review-agent/src/      *)
(* change_plan.rs, the commands of app/src-tauri/src/change_commands.rs,   *)
(* driven by app/src/components/ChangePlanWorkspace.tsx.                   *)
(*                                                                         *)
(* A file has a content in HEAD, in the index and in the working tree: a   *)
(* number, 0 where it does not exist.  A diff is the pair of contents it   *)
(* is between; of a binary or oversized file it says only that there is    *)
(* one.  Editors, terminals and the rest of the application change the     *)
(* repository at any time.                                                 *)
(***************************************************************************)
EXTENDS Integers, Sequences, FiniteSets, SequencesExt

CONSTANTS Path,              \* 1 .. n, in the order of their names
          MaxContent,        \* contents are 0 .. MaxContent
          Area,              \* change_area: a number, in the order of names
          Slug,              \* what of an area's name goes into the id of its group
          OtherArea,         \* the area called "other"
          Sensitive, Opaque, \* paths that look like secrets; binary or oversized files
          MAX_GROUPS,
          Starts,            \* index, working tree and conflicts at first
          MaxStarts, MaxOutside, MaxFaults, MaxReads      \* bounds

Tree == [Path -> 0 .. MaxContent]

ASSUME PlanAssumption ==
  /\ Path = 1 .. Cardinality(Path) /\ MaxContent \in Nat \ {0}
  /\ Area \in [Path -> Nat] /\ OtherArea \in Nat
  /\ \A p \in Path : Slug[Area[p]] \in Nat
  /\ Sensitive \subseteq Path /\ Opaque \subseteq Path
  /\ Starts \subseteq [index : Tree, wt : Tree, conflicts : SUBSET Path]
  /\ {MAX_GROUPS, MaxStarts, MaxOutside, MaxFaults, MaxReads} \subseteq Nat

VARIABLES head, head_id,     \* the tree and the name of the commit at HEAD
          index, wt, conflicts,
          diff_cache,        \* RepoContext::cache.working_diff
          log_cache,         \* RepoContext::cache.log: the newest commit, 0 if not cached
          reading,           \* a diff the application is reading for something else
          panel,             \* ChangePlanWorkspace
          orphan,            \* a panel that was left still has a plan to run after its commit
          cmd,               \* the command that holds the repository's resource
          starts, outside, faults

repo == <<head, head_id, index, wt, conflicts>>
caches == <<diff_cache, log_cache, reading>>
bounds == <<starts, outside, faults>>
planVars == <<repo, caches, panel, orphan, cmd, bounds>>

-----------------------------------------------------------------------------
(* What the repository and its caches answer *)

State(old, new) == CASE old = 0 -> "added" [] new = 0 -> "deleted" [] OTHER -> "modified"
Entry(p, staged, state) == [path |-> p, staged |-> staged, state |-> state]
EntriesOf(p) ==
  IF p \in conflicts THEN <<Entry(p, FALSE, "conflicted")>>
  ELSE (IF index[p] = head[p] THEN <<>> ELSE <<Entry(p, TRUE, State(head[p], index[p]))>>)
       \o (IF wt[p] = index[p] THEN <<>> ELSE <<Entry(p, FALSE, State(index[p], wt[p]))>>)
\* Sorted by path, the staged side first.
status == FlattenSeq([p \in Path |-> EntriesOf(p)])

\* A diff without hunks is empty whatever the content.
Unreadable == <<0, 0>>
Hunks(p, old, new) == IF old = new THEN <<>> ELSE IF p \in Opaque THEN Unreadable ELSE <<old, new>>
working_diff(p, staged) ==
  IF staged THEN Hunks(p, head[p], index[p]) ELSE Hunks(p, index[p], wt[p])

DiffKey == Path \X BOOLEAN
NoDiff == <<-1, -1>>
NoReading == [key |-> <<1, FALSE>>, diff |-> NoDiff, n |-> 0]
NoDiffs == [k \in DiffKey |-> NoDiff]
Cached(k) == IF diff_cache[k] = NoDiff THEN working_diff(k[1], k[2]) ELSE diff_cache[k]

-----------------------------------------------------------------------------
(* build_local_change_plan *)

Staged(files) == SelectSeq(files, LAMBDA f : f.staged)
Plannable(files) == SelectSeq(files, LAMBDA f : ~f.staged /\ f.state # "conflicted")
HasConflicts(files) == \E f \in Range(files) : f.state = "conflicted"
HasSensitive(files) == \E f \in Range(files) : f.path \in Sensitive

Group(id, files, executable) == [id |-> id, files |-> files, executable |-> executable]
StagedId == 0
UnknownId == -1

Areas(files) == {Area[f.path] : f \in Range(files)}
InAreas(files, areas) == SelectSeq(files, LAMBDA f : Area[f.path] \in areas)
\* More areas than groups: the last ones become the area called "other",
\* in the place of the one that has this name.
by_area(files) ==
  LET areas == SetToSortSeq(Areas(files), <)
      kept == Range(SubSeq(areas, 1, MAX_GROUPS - 1))
  IN  IF Len(areas) <= MAX_GROUPS THEN [a \in Areas(files) |-> InAreas(files, {a})]
      ELSE [a \in kept \cup {OtherArea} |->
              InAreas(files, IF a = OtherArea THEN Areas(files) \ kept ELSE {a})]

AreaGroups(files) ==
  LET areas == by_area(Plannable(files))
      open == ~HasConflicts(files) /\ Staged(files) = <<>>
      order == SetToSortSeq(DOMAIN areas, <)
  IN  [i \in DOMAIN order |->
         Group(Slug[order[i]], areas[order[i]], open /\ ~HasSensitive(areas[order[i]]))]
\* Everything that is staged is one group, and blocks the others.
build_local_change_plan(files) ==
  (IF Staged(files) = <<>> THEN <<>>
   ELSE <<Group(StagedId, Staged(files), ~HasConflicts(files) /\ ~HasSensitive(Staged(files)))>>)
  \o AreaGroups(files)

Ids(groups) == {g.id : g \in Range(groups)}
\* The model writes messages for groups it was given, each at most once;
\* everything else of the plan stays.
apply_enhancement(groups, renamed) == IsInjective(renamed) /\ Range(renamed) \subseteq Ids(groups)

-----------------------------------------------------------------------------
(* Commands *)

NoPlan == [snapshot |-> <<0, <<>>>>, groups |-> <<>>]
Idle == [pc |-> "idle", kind |-> "plan", dialog |-> 0, cancelled |-> FALSE, head |-> 0, files |-> <<>>, todo |-> <<>>,
         plan |-> NoPlan, group |-> 0, staged |-> <<>>,
         chosen |-> Group(StagedId, <<>>, FALSE), before |-> <<>>, raced |-> FALSE, stuck |-> FALSE]
\* History of a command: the group the user confirmed, of which it is told the
\* id, the index it found, whether others interfered, whether a roll-back step
\* failed.
Begin(kind, dialog) == [Idle EXCEPT !.pc = "status", !.kind = kind, !.dialog = dialog, !.before = index]
Snapshot == <<cmd.head, cmd.files>>

\* runs.finish, and the answer, if the panel that asked is still there.
PlanAnswer(plan, ok) ==
  /\ cmd' = Idle
  /\ panel' = IF cmd.dialog # panel.dialog THEN panel
              ELSE [panel EXCEPT !.phase = "results", !.plan = IF ok THEN plan ELSE @]
  /\ UNCHANGED orphan
\* A commit that succeeded plans again, even for a panel that was left.
CommitAnswer(ok) ==
  /\ cmd' = Idle
  /\ panel' = IF cmd.dialog # panel.dialog THEN panel
              ELSE [panel EXCEPT !.phase = IF ok THEN "loading" ELSE "results"]
  /\ orphan' = (orphan \/ (ok /\ cmd.dialog # panel.dialog))

Fault == faults < MaxFaults /\ faults' = faults + 1

\* AGENT_RESOURCE_BUSY while another command holds the resource.
Register(kind) ==
  IF cmd.pc = "idle" THEN cmd' = Begin(kind, panel.dialog) /\ UNCHANGED panel
  ELSE panel' = [panel EXCEPT !.phase = "results"] /\ UNCHANGED cmd
runPlan ==
  /\ panel.phase = "loading" /\ (cmd.pc = "idle" \/ cmd.dialog # panel.dialog)
  /\ Register("plan")
  /\ UNCHANGED <<repo, caches, orphan, bounds>>
runEnhancement ==
  /\ panel.phase = "results" /\ panel.plan # NoPlan
  /\ starts < MaxStarts /\ starts' = starts + 1
  /\ IF cmd.pc = "idle" THEN /\ cmd' = Begin("enhance", panel.dialog)
                             /\ panel' = [panel EXCEPT !.phase = "loading"]
     ELSE UNCHANGED <<cmd, panel>>
  /\ UNCHANGED <<repo, caches, orphan, outside, faults>>
runOrphanPlan ==
  /\ orphan /\ orphan' = FALSE
  /\ cmd' = IF cmd.pc = "idle" THEN Begin("plan", 0) ELSE cmd
  /\ UNCHANGED <<repo, caches, panel, bounds>>
\* A message that is empty or too long is refused before anything is read.
executeGroup ==
  /\ panel.phase = "results"
  /\ starts < MaxStarts /\ starts' = starts + 1
  /\ \E g \in Range(panel.plan.groups) :
       /\ g.executable
       /\ IF cmd.pc = "idle"
          THEN /\ cmd' = [Begin("commit", panel.dialog) EXCEPT !.plan = panel.plan, !.group = g.id, !.chosen = g]
               /\ panel' = [panel EXCEPT !.phase = "committing"]
          ELSE UNCHANGED <<cmd, panel>>
  /\ UNCHANGED <<repo, caches, orphan, outside, faults>>
\* Leaving the panel, or opening it again, cancels its plan, not its commit.
leavePanel ==
  /\ starts < MaxStarts /\ starts' = starts + 1
  /\ panel' = [phase |-> "loading", plan |-> NoPlan, dialog |-> panel.dialog + 1]
  /\ cmd' = IF cmd.dialog = panel.dialog /\ cmd.kind # "commit" THEN [cmd EXCEPT !.cancelled = TRUE] ELSE cmd
  /\ UNCHANGED <<repo, caches, orphan, outside, faults>>

-----------------------------------------------------------------------------
(* collect_change_evidence *)

\* refresh_status drops the caches of the working tree first.
refresh_status ==
  /\ cmd.pc = "status"
  /\ diff_cache' = NoDiffs
  /\ cmd' = [cmd EXCEPT !.pc = "log", !.todo = status]
  /\ UNCHANGED <<repo, log_cache, reading, panel, orphan, bounds>>
read_log ==
  /\ cmd.pc = "log"
  /\ LET id == IF log_cache = 0 THEN head_id ELSE log_cache IN
     /\ log_cache' = id
     /\ cmd' = [cmd EXCEPT !.pc = "diffs", !.head = id]
  /\ UNCHANGED <<repo, diff_cache, reading, panel, orphan, bounds>>
read_diff ==
  /\ cmd.pc = "diffs" /\ cmd.todo # <<>>
  /\ LET e == Head(cmd.todo)
         k == <<e.path, e.staged>>
     IN  /\ diff_cache' = [diff_cache EXCEPT ![k] = Cached(k)]
         /\ cmd' = [cmd EXCEPT !.todo = Tail(@),
                               !.files = Append(@, [path |-> e.path, staged |-> e.staged, state |-> e.state,
                                                    diff |-> Cached(k)])]
  /\ UNCHANGED <<repo, log_cache, reading, panel, orphan, bounds>>
\* A read fails, or there are more files than MAX_CHANGE_FILES.
EvidenceFails ==
  /\ cmd.pc \in {"status", "log", "diffs"} /\ Fault
  /\ IF cmd.kind = "commit" THEN CommitAnswer(FALSE) ELSE PlanAnswer(NoPlan, FALSE)
  /\ UNCHANGED <<repo, caches, starts, outside>>
EvidenceRead == cmd.pc = "diffs" /\ cmd.todo = <<>>

-----------------------------------------------------------------------------
(* analyze_change_plan *)

PlanBuilt ==
  /\ EvidenceRead /\ cmd.kind # "commit"
  /\ LET plan == [snapshot |-> Snapshot, groups |-> build_local_change_plan(cmd.files)] IN
     IF cmd.kind = "plan" THEN PlanAnswer(plan, TRUE)
     ELSE cmd' = [cmd EXCEPT !.pc = "model", !.plan = plan] /\ UNCHANGED <<panel, orphan>>
  /\ UNCHANGED <<repo, caches, bounds>>
\* The answer may rename groups that are not there, or one twice; it may not
\* come at all, and is not waited for once the run is cancelled.
enhance_change_plan ==
  /\ cmd.pc = "model"
  /\ \/ PlanAnswer(NoPlan, FALSE)
     \/ /\ ~cmd.cancelled
        /\ \E renamed \in SeqOf(Ids(cmd.plan.groups) \cup {UnknownId}, 2) :
             PlanAnswer(cmd.plan, apply_enhancement(cmd.plan.groups, renamed))
  /\ UNCHANGED <<repo, caches, bounds>>

-----------------------------------------------------------------------------
(* commit_change_group *)

\* find takes the first group of this id.
Found == SelectSeq(build_local_change_plan(cmd.files), LAMBDA g : g.id = cmd.group)
StagedPaths(files) == {f.path : f \in Range(Staged(files))}
\* Mutant: the working tree is not compared with the plan's.
MayCommitStale == Found # <<>> /\ Found[1].executable
MayCommit == Snapshot = cmd.plan.snapshot /\ Found # <<>> /\ Found[1].executable
CommitDecided ==
  /\ EvidenceRead /\ cmd.kind = "commit"
  /\ IF ~MayCommit THEN CommitAnswer(FALSE)
     ELSE LET files == Found[1].files IN
          IF Staged(files) # <<>>
          THEN IF files = Staged(files) /\ StagedPaths(files) = StagedPaths(cmd.files)
               THEN cmd' = [cmd EXCEPT !.pc = "commit"] /\ UNCHANGED <<panel, orphan>>
               ELSE CommitAnswer(FALSE)
          ELSE /\ cmd' = [cmd EXCEPT !.pc = "stage", !.todo = files]
               /\ UNCHANGED <<panel, orphan>>
  /\ UNCHANGED <<repo, caches, bounds>>

DropFileCaches == diff_cache' = NoDiffs
\* add_path cannot stage a file that is gone, nor write an index that is locked.
\* Mutant: what was staged so far stays in the index.
StageFailsNoRollback == CommitAnswer(FALSE)
StageFails == cmd' = [cmd EXCEPT !.pc = "rollback"] /\ UNCHANGED <<panel, orphan>>
stage ==
  /\ cmd.pc = "stage" /\ cmd.todo # <<>>
  /\ LET p == Head(cmd.todo).path IN
     \/ /\ wt[p] # 0
        /\ index' = [index EXCEPT ![p] = wt[p]] /\ DropFileCaches
        /\ cmd' = [cmd EXCEPT !.todo = Tail(@), !.staged = Append(@, p)]
        /\ UNCHANGED <<panel, orphan, faults>>
     \/ wt[p] = 0 /\ StageFails /\ UNCHANGED <<index, diff_cache, faults>>
     \/ Fault /\ StageFails /\ UNCHANGED <<index, diff_cache>>
  /\ UNCHANGED <<head, head_id, wt, conflicts, log_cache, reading, starts, outside>>
AllStaged ==
  /\ cmd.pc = "stage" /\ cmd.todo = <<>>
  /\ cmd' = [cmd EXCEPT !.pc = "commit"]
  /\ UNCHANGED <<repo, caches, panel, orphan, bounds>>

\* `git commit` takes the whole index.  A hook may refuse.
CommitIndex == head' = index /\ head_id' = head_id + 1
commit ==
  /\ cmd.pc = "commit"
  /\ \/ /\ conflicts = {} /\ index # head
        /\ CommitIndex /\ CommitAnswer(TRUE)
        /\ diff_cache' = NoDiffs /\ log_cache' = 0
        /\ UNCHANGED faults
     \/ /\ conflicts # {} \/ index = head \/ faults < MaxFaults
        /\ faults' = IF conflicts = {} /\ index # head THEN faults + 1 ELSE faults
        /\ IF cmd.staged = <<>> THEN CommitAnswer(FALSE)
           ELSE cmd' = [cmd EXCEPT !.pc = "rollback"] /\ UNCHANGED <<panel, orphan>>
        /\ UNCHANGED <<head, head_id, diff_cache, log_cache>>
  /\ UNCHANGED <<index, wt, conflicts, reading, starts, outside>>

\* rollback_staged, last path first; errors are ignored.
unstage ==
  /\ cmd.pc = "rollback" /\ cmd.staged # <<>>
  /\ LET p == Last(cmd.staged) IN
     \/ /\ index' = [index EXCEPT ![p] = head[p]] /\ DropFileCaches
        /\ cmd' = [cmd EXCEPT !.staged = Front(@)]
        /\ UNCHANGED faults
     \/ /\ Fault
        /\ cmd' = [cmd EXCEPT !.staged = Front(@), !.stuck = TRUE]
        /\ UNCHANGED <<index, diff_cache>>
  /\ UNCHANGED <<head, head_id, wt, conflicts, log_cache, reading, panel, orphan, starts, outside>>
RolledBack ==
  /\ cmd.pc = "rollback" /\ cmd.staged = <<>>
  /\ CommitAnswer(FALSE)
  /\ UNCHANGED <<repo, caches, bounds>>

-----------------------------------------------------------------------------
(* Everyone else: editors, terminals, the staging list beside the panel *)

Interfere ==
  /\ outside < MaxOutside /\ outside' = outside + 1
  /\ cmd' = IF cmd.pc = "idle" THEN cmd ELSE [cmd EXCEPT !.raced = TRUE]
  /\ UNCHANGED <<panel, orphan, starts, faults>>
Edit ==
  /\ Interfere
  /\ \E p \in Path, v \in 0 .. MaxContent : v # wt[p] /\ wt' = [wt EXCEPT ![p] = v]
  /\ UNCHANGED <<head, head_id, index, conflicts, caches>>
\* Through the application: it drops its caches.
StageOther ==
  /\ Interfere
  /\ \E p \in Path :
       /\ wt[p] # 0 /\ (wt[p] # index[p] \/ p \in conflicts)
       /\ index' = [index EXCEPT ![p] = wt[p]] /\ conflicts' = conflicts \ {p}
  /\ DropFileCaches
  /\ UNCHANGED <<head, head_id, wt, log_cache, reading>>
UnstageOther ==
  /\ Interfere
  /\ \E p \in Path : index[p] # head[p] /\ index' = [index EXCEPT ![p] = head[p]]
  /\ DropFileCaches
  /\ UNCHANGED <<head, head_id, wt, conflicts, log_cache, reading>>
\* In a terminal: the caches wait for the watcher.
CommitOther ==
  /\ Interfere
  /\ conflicts = {} /\ index # head
  /\ CommitIndex
  /\ UNCHANGED <<index, wt, conflicts, caches>>
Watcher ==
  /\ diff_cache # NoDiffs \/ log_cache # 0
  /\ diff_cache' = NoDiffs /\ log_cache' = 0
  /\ UNCHANGED <<repo, reading, panel, orphan, cmd, bounds>>

\* The diff of a file is read, and put into the cache later.
ReadOther ==
  /\ reading.diff = NoDiff /\ reading.n < MaxReads
  /\ \E k \in DiffKey :
       /\ diff_cache[k] = NoDiff /\ working_diff(k[1], k[2]) # <<>>
       /\ reading' = [key |-> k, diff |-> working_diff(k[1], k[2]), n |-> reading.n + 1]
  /\ UNCHANGED <<repo, diff_cache, log_cache, panel, orphan, cmd, bounds>>
PutOther ==
  /\ reading.diff # NoDiff
  /\ diff_cache' = [diff_cache EXCEPT ![reading.key] = reading.diff]
  /\ reading' = [NoReading EXCEPT !.n = reading.n]
  /\ cmd' = IF cmd.pc # "idle" /\ reading.diff # working_diff(reading.key[1], reading.key[2])
            THEN [cmd EXCEPT !.raced = TRUE] ELSE cmd
  /\ UNCHANGED <<repo, log_cache, panel, orphan, bounds>>

-----------------------------------------------------------------------------
PlanInit ==
  /\ head = [p \in Path |-> 1] /\ head_id = 1
  /\ \E s \in Starts : index = s.index /\ wt = s.wt /\ conflicts = s.conflicts
  /\ diff_cache = NoDiffs /\ log_cache = 0 /\ reading = NoReading
  /\ panel = [phase |-> "loading", plan |-> NoPlan, dialog |-> 1]
  /\ orphan = FALSE /\ cmd = Idle
  /\ starts = 0 /\ outside = 0 /\ faults = 0

User == runEnhancement \/ executeGroup \/ leavePanel
Command ==
  \/ runPlan \/ runOrphanPlan \/ refresh_status \/ read_log \/ read_diff \/ EvidenceFails \/ PlanBuilt \/ enhance_change_plan
  \/ CommitDecided \/ stage \/ AllStaged \/ commit \/ unstage \/ RolledBack
World == Edit \/ StageOther \/ UnstageOther \/ CommitOther \/ Watcher \/ ReadOther \/ PutOther
PlanNext == User \/ Command \/ World
=============================================================================
