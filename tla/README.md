# A TLA+ model of git-client

git-client is a desktop Git client (a Rust workspace behind a Tauri shell, with a
React frontend) that carries an agent platform: agents that review pull requests,
triage issues, plan commits and investigate history, one-shot agent turns, and
long-running *goals* that survive restarts, edit files under approval, and end in
a verified result. This directory models both halves: the repository context
with its caches, undo timeline and git operations, and the agents with their
runs, models, tools, approvals and publications.

* `*.tla` are the modules, `MC*.tla` and `*.cfg` the instances TLC checks,
  `*Proofs.tla` what TLAPS proves.
* `PROJECT.json` lists components, runs, mutants, hazards and theorems, and maps
  every definition to the lines it stands for.

## 1. Inventory

| component | state it keeps | operations | how it interacts |
|---|---|---|---|
| run registry (`review_commands.rs`) | `active` runs with token and resource, `active_resources`, a bounded queue of early cancellations | register_resource, cancel, finish | every agent task registers before it works and finishes afterwards; cancels arrive on other threads, possibly before the registration |
| session store (`agent-session/session.rs`) | per session: revision, summary, recent messages, the run that holds the lease | create, reset, begin_turn, commit_turn, abort_turn | leased by one-shot turns, by every slice of a goal, by the commit of a goal's result and by the restore after a restart |
| session engine (`agent-session/engine.rs`, `context.rs`, `compaction.rs`) | the locals of one turn or slice: rounds, tokens, transcript, finalization | run_turn, run_goal_slice, run_leased | plans a request, calls the model with retries, runs a batch of tools, checkpoints or finalizes |
| tool runtime (`agent-runtime/tool_runtime`), approvals (`agent_events.rs`) | counters of one run; the waiting requests | reserve_call, evaluate, execute; resolve, deny | the executor waits for the user; the answer comes from another thread |
| goal repository (`agent-session/goal.rs`), checkpoint store (`agent_store.rs`) | per session: the active goal and the durable conversation, in memory and in one encrypted file | load_or_create, create_goal, mutate_goal, steer, commit_goal_result, reset_session; load, save | one mutex; each mutation is saved before the lock is released, with rollback on a failed save |
| goal run loop and commands (`agent_run_manager.rs`, `agent_session_commands.rs`) | the set `initialized`; one task per running goal | ensure, reconcile_pending, run_goal; create, get, resume, extend, steer, pause, cancel, reset | read snapshots, await the model, the tools and the verifier, and mutate the repository in between |
| file tools (`agent-tools/filesystem.rs`) | the files | atomic writes in `spawn_blocking` | a write may outlive the future that awaits it |
| provider adapters (`review-agent/{deepseek,openai,anthropic,sse,provider_retry,provider_http}.rs`) | what has been collected of one stream | respond_stream; retry | stream events to the frontend (`agentStream.ts`) while the answer is not yet known to be good |
| PR review (`orchestrator.rs`, `github.rs`, `gitlab.rs`, `review_commands.rs`) | one pinned head, the diff, a transcript; the dialog's result | preflight, run, submit | the branch moves on the host while pages are read and comments posted |
| issue triage (`issue.rs`, `review_commands.rs`) | a snapshot of the issue; a publish id | triage, publish | GitHub may carry out what it did not answer |
| change planner (`change_plan.rs`, `change_commands.rs`) | a snapshot id, the plan in the panel | plan, enhance, commit_change_group | stages and commits while other programs edit, stage and commit |
| history agent (`history.rs`, `history_stream.rs`, `history_commands.rs`) | evidence; the reader of the streamed answer | investigate | the draft on screen is made from the stream, the result from the whole answer |
| application service (`app-service`) | caches per kind of answer, generation counters, the graph accumulator with its lanes, the undo timeline, one watcher | reads, writes, undo, redo, jump, invalidate, watch | commands run on threads of their own; the watcher reports later |
| git backends (`git-engine`) | none; the repository is git's | stage to push, log to blame | libgit2 for local reads and writes, the git executable for commits, network and what can stop half-way |

What is hard here:

* *Stale reads.* Almost every operation reads under a lock, awaits something (a
  model, a host, a user, a file, another lock), and then writes.
* *Crash points.* A write passes through intent saved, effect, receipt saved.
* *Partial failure.* Saves, loads, stagings and posts fail after earlier ones
  succeeded; commands do two things of which the second is refused.
* *Unreliable hosts and models.* A request is refused, carried out without an
  answer, or carried out late; a stream breaks off anywhere, or says something
  the parser later refuses.
* *Several authorities.* Whether a session is busy is known to the registry, to
  the lease and to the goal's status; what a repository looks like is known to
  git, to seven caches, to the timeline and to the watcher's queue.
* *Cancellation and limits.* Cancellation may come before the run, during any
  wait, and during a write nothing interrupts; rounds, calls, bytes, tokens, time
  and queues each have a boundary.

What makes each part correct, in a sentence: the registry admits one run per
resource and loses no cancellation; a lease is current as long as its holder
needs it and memory is what was last said; a goal has one worker, is never
forgotten while it claims to run, commits only what it may, and every file it
changed is on record; the engine keeps room for its answer and runs no tool
without permission; what the user saw streamed is the answer; comments are about
the lines they stand at and are not posted twice; a commit is what the user
confirmed; a cached answer that is stale is about to be dropped, and no text is
overwritten that exists nowhere else.

## 2. Modules and how they follow the code

One action is one lock section, or one stretch between two awaits. What code
remembers across them is a field of the actor's record, so it can be stale when
it is used.

**RunRegistry** — `ReviewRunRegistry`: `active`, `active_resources` and the queue
`pending`; `Register`, `Cancel` and `Finish`, each with its `prune_pending`. The
callers read the clock before they take the lock (`register_resource`, `cancel`),
so the time they judge and stamp entries by is up to `MAX_LAG` ticks old: entries
of two cancels may be queued in the wrong order. An entry's age counts ticks, not
past the time to live and two such waits.

**SessionStore** — the store (`Created`, `begin_turn`, `commit_turn`,
`abort_turn`, `reset` as operators) and everyone who uses it: the one-shot turn
(`Start`, `Ensure`, `Register`, `BeginTurn`, `RunLeased`, `CommitTurn` or
`AbortTurn`, `Finish`), the goal (`Visit` with `Restore`, `RestoreCreate`,
`RestorePair`, `RestoreCommit`; `Launch`, `BeginSlice`/`SliceEnds`, `LeaveLoop`,
`CommitGoal`, `BeginLegacy`, `CommitLegacy`; `CancelGoal`), the reset
(`ResetDurable`, `ResetStore`) and `Restart`. A turn is its two messages with a
size; a turn that truncation cuts from the summary counts as gone. The restore
and legacy leases carry ids of their own in the code; in the model they carry the
task's, which is as unique.

**GoalRuntime** — goal repository, checkpoint store, run loop, commands, tool
executor, write tool, verifier and compaction of one session, over an INSTANCE of
RunRegistry (goals as runs, the session as the resource). `goal` is the record in
memory and `disk` the file. The runner's program counter follows `run_goal_inner`
from await to await, the callers' those of the commands; `Crash` loses memory and
tasks and keeps `disk` and files. Pause and block reason share one field; the
revision is the set of callers whose remembered one is out of date; a budget is
whether it is exceeded, for the current and one other model; the transcript is
how far back the verifier's note lies, in tool batches (0..3, which is all
compaction and the repair fuse read); an execution id is used once and names one
file. Superseded receipts stay in `receipts`, which allows a verifier to be
required once too often but never too seldom.

**SessionLoop** — `run_leased` in both modes with the planner (`plan`), the fuses
(`ModelRoundFuse`, `check_active`), the reserves (`ReserveReason`,
`start_finalization`), retries (`AttemptFails`, `WakeUp`), the batch
(`ToolCalls`, `validate_calls`, `Request`, `Ask`, `Prepare`, `Exec`,
`BatchDone`), the two policies (`evaluate`, `restrict_decision`), the approval
registry (`Ask`, `UserAnswers`, `ApprovalTimeout`, with `Awaited` for the
request an answer is for), and for goals the slice boundaries, the progress
tracker (`observe`), compaction and `NextSlice`. A text is its size in tokens,
which are also bytes; time has three stages (before the final reserve, inside
it, past the deadline). Approval ids are numbered per try of a slice, and repeat
when a failed slice is tried again, as in the code.

**ModelStream** — one model call: `StartAttempt`, `SendTimeout`, the status
mapping, the stream piece by piece (`OutputText`, `ToolCallStarted`,
`ToolArgumentsDelta`, `Completed`), its failures (`ServiceFails`, `ReadFails`),
`parse_response` with the recovery of DeepSeek's own tool protocol, retries, and
the frontend's reducer. A piece of text is one of five kinds, as far as the
content filter tells them apart: it holds back blanks and open brackets at the
start of a line. DeepSeek's and Anthropic's answers are put together from the
stream; OpenAI's is read from its last event, which need not say what was
streamed (`Answers`).

**ReviewRun** — the review of one request: preflight, run (`RunHead`, `RunPage`,
`RunLoaded`, `ToolCalls`, `execute_tool`, `FinalText`), the dialog with its
cached result, and the publication on both hosts (`SubmitHead` twice,
`SubmitDiffs`, `PostReview` or one `PostDiscussion` per finding). A finding is a
page of the diff and the head whose lines it is about; the dialog remembers which
were `selected`, for what the report says is compared with them. `Push` moves the
head at any time, also back.

**IssueTriage** — triage (`TriageContext`, `TriageAnswer`, `TriageFails`), the
dialog, and the publication: labels with `RecoverLabel`, the look for the marker
on the last page (`CountComments`, `comment_marker_exists`), `PostComment`.
`LateDelivery` carries out a request that was given up.

**ChangePlan**, **HistoryStream**, **HistoryRun**, composed in **LocalAgents** —
the two agents on the open repository. ChangePlan has the tree, index and files
of a few paths, the two caches the evidence is read through, the panel, and the
commands with every read and every staging a step of its own; `Edit`,
`StageOther`, `UnstageOther`, `CommitOther` and the watcher interfere anywhere.
HistoryStream is the push-down reader as a function of one character, with JSON
values, their text (`Write`) and the decoder's view of them as the reference.
HistoryRun collects evidence within its limits, streams a document in chunks,
validates it, retries once on a broken contract, and shows drafts and results.
What a commit touches is fixed and no file is ever renamed (the code follows
renames); the findings of an answer share one set of citations, where the code
validates each by itself.

**GitRepository**, **GitViews** — a repository as one record over one tracked
path whose content is absent, a text of hunks, or marked with conflicts; each
backend operation maps it to the set of its outcomes `[res, git]`. `Merge3`,
rebases line by line with stops (a conflict, an empty commit, a failed message, an
untracked file in the way), stashes, the reflog's newest entries, remotes
with what a server has. What git itself does is external, and is what the
arguments ask for. GitViews is what the cached reads answer.

**UndoNav** — `undo_nav.rs` as operators on `[timeline, cursor]`. **CommitGraph**
— `graph.rs`: lanes, colours, rows, and `LinesMeet`, what a drawing has to
satisfy.

**RepoContext** — composes the last four: command threads that read through the
caches (`ReadBegin`, `ReadRepository`, `Fill`; `GraphBegin`, `GraphFill`), write
(`WriteBegin`, `RunWrite`, `CheckoutCreated`, `after_write`, `record_nav`) and
navigate (`NavBegin`, `NavHint`, `NavPick`, `apply_nav_check`,
`apply_nav_reset`, `NavMoved`); the environment edits, runs git in a terminal and
pushes; the watcher classifies, coalesces and delivers, and moves to another
repository and back. Four history variables say which stale answers have an
excuse, and whether the timeline was told of HEAD's last move.

Modules do not share variables where the code shares none: the model call that
SessionLoop, ReviewRun and HistoryRun make is its outcome there, and ModelStream
shows that there always is one; the lease a slice holds is SessionStore's.

## 3. Runs

Every run passes. The mutants in `PROJECT.json` show for each property a change of
the code under which it fails.

| run | instance | what it shows |
|---|---|---|
| `registry` | 4 runs, 2 resources, cap 2, time to live 2, waits of at most 1 | the two tables are one relation (`ResourcesMirrorActive`), the queue is capped, unambiguous and, up to the wait, ordered (`PendingSound`), a run starts cancelled exactly when a fresh cancellation waited (`CancellationHonoured`) |
| `session_memory` | 2 sessions, room for 1, 2 runs, turns of 2 or 4 bytes, 4 bytes of recent memory, 3 of summary | a lease is current while held and held by somebody who will release it (`LeaseMirrorsHolder`), memory is an unbroken end of what was committed (`MemoryIsRecentHistory`), there is room for any next turn (`AlwaysRoom`) |
| `goal_effects` | 1 goal, 1 write, 1 caller, all commands but cancel, failing loads and saves, crashes | every write that reached its file is on record (`EffectAccounted`), every receipt is of one that did (`ReceiptsAreTrue`); only an authorised candidate without pending intents is committed (`CommitHasAuthority`, `CommitLeavesNothingPending`) |
| `goal_restart` | 1 goal, 2 callers creating and resuming, crashes | one worker at a time (`OneRunner`), none missing (`NoOrphan`), no commit over the budget (`BudgetNeverCommits`) |
| `goal_liveness` | 2 goals, 1 caller creating and cancelling, stalling writes | a cancelled runner ends (`CancelStops`), a queued goal is taken up (`QueuedIsTakenUp`) |
| `session_loop` | 4 rounds, 3 calls, 3 result bytes, token limits that 2 to 4 requests exhaust, goals with a small and a large budget, fresh or four equal batches in, 3 further slices | `FusesHold`, `ReserveKept`, `PermissionHeld`, `SlicesGoOn`, `StallsEnd` |
| `model_stream` | 3 providers, 3 attempts, 7 pieces per stream, of which a call takes two | `DraftIsAnswer`, `CallsAreWhole`, `NoSecondBill`, `CallEnds` |
| `pr_review` | both hosts, 2 pages, 2 heads, 2 pushes, 1 lost answer, 2 rounds, 2 dialogs | `TranscriptPaired`, `CommentsOnReviewedLines`, `StalePublishesNothing`, `ReportsAreTrue`, `CommandsEnd` |
| `issue_triage` | 1 label and an unknown one, pages of 2 comments, 1 foreign change, 2 lost answers, 2 publications | `ReportsAreTrue`, `CommentsOnce`, `CommandsEnd` |
| `local_agents` | 3 files in 8 starting states, 3 commands, 1 change from outside, 1 fault; 3 commits, 9 documents and 6 damaged ones that arrive four characters at a time, 3 questions | `CommitIsReviewed`, `RollbackRestores`, `DraftIsAnswer`, `CitationsGrounded` |
| `repo_ops` | 1 thread, every operation, 3 commands and 1 change from outside, from 6 repositories | `NavAligned`, `WorkIsNeverLost` |
| `repo_cache` | 2 threads, 5 cached reads, 5 writes and undo, 3 commands and 1 change from outside, a repository with a merge, graph pages of 2 rows | `CachesFollow`, `GraphDrawn` |

Why the bounds suffice. *registry*: the cap must be reached with one more run to
evict, a second registration has to meet a busy resource while another is free,
and an entry has to live through fresh, expiring and expired; a wait of one tick
is what puts two entries in the wrong order. *session_memory*:
two runs are what every conflict takes (turn against slice, reset against holder,
two first visitors); the second session exists to meet the capacity; sizes are
chosen so that a pair may fill the recent memory alone, two small ones may just
fill it, and two drained ones exceed the summary. A session past revision
`MaxRevision` = 1 starts no new task, which still admits three commits; a restore
of several pairs is left to the proof, which has no bounds. *goal_**: one write
with its own file is enough because one batch runs its calls in order; a second
caller is needed for two commands to race, a second goal for succession. Each run
switches on the failures its question is about; all of them together are beyond
what can be enumerated. *session_loop*: each limit is reached by some behaviour
before every other; a goal may start four equal batches into its progress window
so that recovery (five) and block (seven) are reached within four slices.
*model_stream*: seven pieces are the shortest stream in which a tag is quoted in
the middle of a line, one that is open swallows another or blank lines stand
before a block, and the block itself comes after it. *pr_review*:
two heads and two pushes are a head that leaves and comes back between two pages.
*issue_triage*: a page of two comments can be filled by one's own and one foreign
comment, so the marker leaves the last page; one loss may hide a success and a
second the retry's. *local_agents*: three areas share a slug, one group overflows,
one path is sensitive and one opaque; the documents hold each field before, after,
twice and nested, and where a document is cut between two chunks makes no difference to a reader of characters. *repo_ops*: an operation, its undo and its redo, or an
operation, another and a jump, are three commands. *repo_cache*: a read
overtaken by a write of the other thread, and a third request that finds what it
left; three pages are needed to draw a history of six commits, with a merge, a
branch left behind and a remote one that a pull brings in.

Bounds that are not about size: `CanStall` is FALSE and cancel is absent in
`goal_effects`, failing loads and extend are absent from `goal_restart`, because
with them the property fails (section 5). The exceptions written into
`CachesFollow`, `GraphDrawn`, `CommentsOnce`, `CommentsOnReviewedLines`,
`WorkIsNeverLost`, `CommitIsReviewed` and `PermissionHeld` are races the code
leaves open; each is named in the property and described in section 5.

Deadlock is checked in the registry, session-store and goal runs. The other
models come to rest when their bounded work is done, and say so. Symmetry is used
where the permuted identifiers are interchangeable and no liveness is checked.

### Fairness

* `goal_liveness`: weak fairness of each runner's steps, of the cancellation
  branch of its slice, of each blocking write and of each command: the tokio
  runtime polls every task that is ready, every await the runner meets ends (model
  calls, approvals and tools have timeouts), and the operating system finishes a
  write. The cancellation branch has its own fairness because the code's `select!`
  is `biased` towards it. Nothing is assumed of clients.
* `model_stream`: weak fairness of the retry loop's own steps and of the timeouts
  (`send` and read timeouts are set on the client). Nothing is assumed of the
  service or of the user.
* `pr_review`: weak fairness of the run's and the submission's steps: each is an
  HTTP request with a timeout, or a model call, which ends by `CallEnds`.
* `issue_triage`: weak fairness of the publication's requests and of the branch
  that sees the cancellation (`biased`). An analysis that is not cancelled may
  wait as long as its model does.

No other run assumes fairness.

## 4. Proofs

All theorems hold for every value of the constants under the named assumptions.

**RunRegistryProofs.** `RegistryInvariant` proves `TypeOK`,
`ResourcesMirrorActive` and `PendingSound` together. `ResourcesMirrorActive`
needs only the types. The order by age in `PendingSound`, up to the wait for the
lock, is what makes `prune_pending`, which stops at the first fresh entry, leave
none that has been expired for longer than two such waits; that no run is queued twice, and none that is active, is what makes removing the
one entry of a run remove its cancellation. `CancellationHonouredAlways`, an
action property, rests on both; `ResourcesMirrorActiveAlways` and
`PendingSoundAlways` are the corollaries a user of the registry relies on.
Assumed: the cap and the time to live are positive, the wait (`MAX_LAG`) is a
natural number, `NoRun` is no run.

**SessionStoreProofs.** The inductive invariant `IInv` is
`TypeOK /\ TaskSound /\ LeaseMirrorsHolder /\ MemorySound`:

* `TaskSound`: a task at work is on a session, and one about to commit a pair has
  it;
* `LeaseMirrorsHolder` is inductive with it: `Acquire`, `Keep` and `Release` are
  the three ways a step can touch a lease, `Quiet` and `Fresh` the two in which
  it touches none, and every action is one of the five;
* `MemorySound` says of each record that its history ends in summary and recent
  turns (`EndOf`), which, unlike the formulation with `Suffix` in the property,
  composes under Append; `AppendTurnMemory` shows it for a commit with
  compaction, and `SuffixOfConcat` turns it back into `MemoryIsRecentHistory`.

`AlwaysRoomHolds` needs only the types and `max_recent_bytes >= 2 *
max_message_bytes`, the condition `with_compactor` insists on (`Room`). Together
with `LeaseMirrorsHolderAlways` it shows that the error branches of `commit_turn`
and `abort_turn` are unreachable from the program as it stands, which is why the
missing `abort_turn` in `commit_legacy` and in the restore does no harm. Assumed:
`LimitsAssumption` (what `with_compactor` checks, and that turns have the sizes
`validate_content` admits) and that `None` is no record.

**GoalRuntimeProofs.** Three invariants, each on top of the one before, and two
that stand on them.

* `RuntimeInv` is about who works: `HoldsAlone` (a runner that holds the session,
  a finished one that has not released it, and a command between register and
  finish exclude each other), `RunnerHolds` and `CallerHolds` (each holder is the
  run the registry has for the session). `RegistryFacts` is an instance of
  RunRegistryProofs, so a step of the registry needs no second proof. `TypeOK`
  (`TypesAlways`) and `OneRunner` (`OneRunnerAlways`) follow.
* `Places` says, for each place of the runner's loop, what it has already seen
  about the record and what may have changed since. `ClearHere`: from the head of
  the loop to the commit no intent is pending. `VerdictHere`, `WithinHere`: the
  verdict and the budget a commit relies on still are the record's.
  `LoadedFirst` and `Recoverable` are about restarts.
* `GoalInv` joins them. Each action of the runner is shown to tend it
  (`RunnerTends`), each step of a command to leave it to the runner
  (`CallerSteers`): a command writes `goal` between any two steps of the loop.

`NothingPendingIsCommitted` and `RefusedIsNeverCommitted` hold for any number of
commands. The other half of `CommitHasAuthority` is proved for one command in
flight (`AuthorityWithOneCommand`, the bound of the run that checks it): with two,
a recovery that was classified before another command changed the record is
applied after it (`ApplyRecovery` does not compare revisions), and can put a
candidate back that the verifier has not seen. `BudgetNeverCommits` is proved
without `extend` (`BudgetWithoutExtension`), which is how `goal_restart` checks
it; with it the property is false (section 5).

Two more invariants stand on `GoalInv`, each under the restrictions of the run
that checks its property, stated as the hypothesis of the theorem; without them the
properties are false, in the ways section 5 describes.

* `AttendInv`, for `NoOrphanWithoutFailure` (`NothingFails`: loads and saves
  succeed, no `extend`). `Attended`: a goal that says it is at work is about to be
  looked at by the first visit, or its own runner works on it and has not come to
  the end. `Own`: a runner that works, works on the goal of the record; `Resting`:
  before the first visit nobody works. Commands never leave a status at work
  behind without one of the two, and a crash makes the next visit the first.
* `EffectInv`, for `EffectAccountedWhenAwaited` (`Waited`: one command at a time,
  none of them a cancel, no write outliving the slice that waits for it).
  `OnRecord`: memory and disk agree on intents and receipts, these account for
  what has landed, and what is under way has its intent. It is not inductive
  alone. `Awaited` (a write under way has a runner that waits for it) makes a
  runner that moves on find its file settled; `Quiet` and `Applying` (while a goal
  waits for recovery nobody works on it, and the classification knows every write
  that landed) allow a recovery to drop intents; `FirstVisit` says that the
  restart preparation finds no runner; `NeverCancelled` that no token is set,
  pending cancellations of the registry included. A step of a runner is shown to
  do one of four things to the writes (`Acts`: nothing, a tidy change, an intent
  begun, a receipt for one that landed), a step of a command one of two (`Plain`
  changes and `RecoveredKeeps`).

Assumed: what the configuration of the registry guarantees, that `NoRun` is
neither a goal nor the session, and that `None` is no goal (`NoneIsNoGoal`).

**SessionLoopProofs.** `LoopInv` explains why the fuses of the tool runtime do not
blow (`FusesAlwaysHold`):

* `RoundsLeft`: the runtime's count of rounds is the engine's; once tools are off,
  each further round is counted as a finalization round too, so the rounds made
  are at most those allowed less the ones reserved for the end plus the ones of
  the end already made, and one more while a request is being planned;
* `CallsLeft`: calls reserved and calls left in the batch are together what the
  engine let through, which is at most the limit;
* `IdsLeft`: no call left in the batch has an id that was reserved.

For `PermissionAlwaysHeld`: `RequestsSound` (a request waits only while its run
asks, and no answer on its way is for a request that does not exist yet) and
`CallsPermitted` (a call being executed passed both policies). One lemma per action.

`CountInv` joins what is counted. `SpendInv` is why the answer can be afforded
(`ReserveAlwaysKept`): a turn that has not yet asked for its answer has the reserve
left over (`ReserveLeft`), a request on its way leaves it over too unless it is
that of the answer, and a slice with tools has charged nothing before its one
request, which the goal's budget allows (`BudgetLeft`). `StallInv` is why a goal
that learns nothing stops (`StallsAlwaysEnd`): the tracker that is carried from
slice to slice is a function of how many equal batches it has seen (`Paced`), so
the fifth turns it to recovery and the seventh ends it. Estimates only have to be
natural numbers (`PlanIsNatural`); how they are added up does not matter.

`HandInv` follows the transcripts (`SlicesAlwaysGoOn`). What a run has is paired
once the results of the calls still in its batch are appended
(`current \o Results(batch)`), which every call that returns leaves so
(`ResultAppended`); headers come before everything else (`HeadersFirst`), so that
the filter of a resumed slice takes away a prefix (`RetainsTheRest`) and not an
item between calls and their results. One lemma, `PrefixExchanged`, serves both
this and the cut of a compaction, which falls on the calls of a batch
(`KeepsFromBatch`): a prefix may go if no result behind it answers a call in it.

Assumed: what `AgentLoopPolicy::validate` and the runtime's limits guarantee, and
that `None` is neither a request nor a reason.

**ReviewRunProofs.** `ReadingInv` follows what a run has read: `PreflightSound`,
`RunningSound`, `ShownSound` say that the pinned head, the pages and each finding
belong together, unless the branch left the head and came back (`HeadSeen`).
`SubSound` follows a submission: between its two looks at the head and after each
request, what it believes to have posted is what is on the host but for one
request without an answer, and what is left to post and what was posted are
together what the user selected. `ReviewInv` joins them, for both hosts, any pages,
pushes and losses, and gives all four safety properties of `pr_review`:
`TranscriptAlwaysPaired`, `CommentsAlwaysOnReviewedLines`, `StaleNeverPublishes`,
`ReportsAlwaysTrue`. Assumed: `ReviewAssumption`, the pages are a finite non-empty
set.

**IssueTriageProofs.** `TriageInv` is `Types`, `DialogWaits` (a command is under
way exactly when the dialog shows it), `WorkLeft` (each chosen action is reported
or still to do, never both), `Looked` and the property. `Looked` is the argument
for `NeverCommentsTwice`: while a look is under way the marker is not behind the
comments that were counted, and when it found nothing the marker is off the last
page, or a request given up was carried out in between. `PagesBefore`,
`PagesGrow` and `PageIsLast` are the arithmetic of pages it takes. Assumed:
`TriageAssumption`, pages have room, labels are finitely many.

**ModelStreamProofs.** `StreamInv` is `Types`, `Streams`, `Unanswered` and the two
state properties. `Streams` (`Faithful`, `Filtered`) says at every piece what has
been shown against what has been collected: the calls on screen are those
collected, the text is what the content filter has let through, and what the
filter holds back is the beginning of a tag or everything after one. `TagAdded`
and `PushSound` show it for one more piece, `ResponseParsed` for the parser at the
end of the stream. `DraftIsAlwaysAnswer` and `CallsAreAlwaysWhole` follow,
`NeverBilledTwice` from the order of events in one attempt. Two things the proof
had to settle: shown text may look like the protocol, where the model quotes a tag
in the middle of a line before it opens a block, so `CallsAreWhole` says that what
was shown is the text before the block; and blank lines before the block are held
back with it and never shown (`PushSound`). Where OpenAI's last event is not what
it streamed (`AnsweredAsStreamed`) nothing is claimed of its draft.

**RepoContextProofs.** The largest proof, about the git operations and the context
that issues them, for any branches, remotes, texts, stashes, todo lists and any
repositories to start from that satisfy `Sound`.

* `Whole` says what every repository of a behaviour is: names lead to commits
  there are, the first parent of a commit is one, and only a born branch is in the
  middle of something. `After` adds that no commit was lost or changed, and `Safe`
  that the text in the working tree is still there or in a commit. `Safe` composes
  (`SafeTrans`), so each operation is taken apart into the steps git makes of it;
  `OutcomesKept` is the sum: every operation is `After`, and leaves the text
  somewhere or is one that says it discards.
* A rebase runs its todo list by a recursive function. `WorkedExists`,
  `FlattenExists` and `ListedExists` prove by induction over the list that such
  functions exist, `WorkedSafe` that running one is `Safe`. `NatSetInduction`, the
  induction theorem over a set of numbers in place of a predicate, is proved from
  well-foundedness.
* `Valid` is inductive for any number of commands (`RepositoryAlwaysWhole`):
  repository whole, timeline of its commits, and each command's remembered
  operation, target and argument still meaningful, because repositories only grow.
* With one command at a time `Single` is inductive on top: the timeline is on HEAD
  while `tracked`; a move is `Aimed` (its target is the point the cursor will be
  put on); what a hard reset is about to overwrite is `Swept` (nothing, or in a
  commit) unless it was edited behind the check. `TimelineAlwaysOnHead` and
  `WorkNeverLost` follow.

For the caches there is no bound on the commands. `Follows` is inductive on top of
`Valid` and gives `CachesAlwaysFollow`:

* `CacheFollows` is the property for what is stored, in terms of what is due:
  `RefDue` and `FileDue` say that a report or an invalidation still has to come.
* `Hand` says it of an answer between the read and the store (it is the
  repository's, or was overtaken, or will be dropped), and of a page of the graph
  also where it belongs (`InPlace`).
* `AccumFollows`: what the accumulator holds is what one layout from the top would
  draw (`Accumulated`), rows and lanes. That needs `GraphPages`: drawing n rows
  and then m more with the lanes kept in between draws n + m; the layout is a
  recursive function over the rows (`DrawingExists`, `LayoutIs`).
* Every step either keeps what an answer is made of or makes it due
  (`RepositoryStep`), or clears the answer (`ClearStep`). Which answers a step can
  change is the larger half: two repositories with the same names (`SameRefs`), of
  which one has grown out of the other, have the same log, counts, comparisons and
  graph (`ReachSame`: new commits change no older commit's ancestry;
  `RefViewsSame`, `GraphSame`), and with the same files the same status, diff and
  blame (`FileViewsSame`). `RefWritesKeepFiles` and `FileWritesKeepRefs` are what
  `after_write` takes for granted when it drops one kind of answer only.
* The watcher does not look at upstreams, which `ahead_behind` depends on. A failed
  operation drops no cache, so it must not have changed one:
  `FailureKeepsUpstream`, for every operation, rebases included.

The attempt showed that the graph was compared by its rows alone: lanes of another
history would have gone unnoticed until the next page. `Stale` now compares both.

`GraphAlwaysDrawn` stands on `Follows`: unless a report or an invalidation is due,
the accumulator is one layout from the top (`Accumulated`), so what is left is that
such a layout draws no line to nowhere, for any history.

* The log is `Drawable`: it names each commit once. That is `LogDrawable`, from the
  order `LogType` gives to it (newest first, strictly).
* One row is followed parent by parent. `Bent` says after n parents that the lanes
  of the lines that pass by are as they were, that each of the n lines drawn from
  the commit ends in a lane that waits for its parent, and that no other lane has
  begun to wait. `SpawnBent` keeps it, `AllBent` is the induction over the parents
  and `RowThreaded` gives the whole row (`Threaded`).
* `RowsThreaded` is the induction over the rows; `LaneWaits` says that a lane opened
  for a parent waits in its column through every row until that parent's, where it
  ends in the column of the commit. That is the third clause of `LinesMeet`.
* Colours: a lane is opened in a colour no other has if there is one
  (`pick_color`). While fewer lanes than `NCOLORS` are taken there is one
  (`ColorLeft`, by counting); `ColorsKept` is the induction (`Told`). Beyond
  `NCOLORS` lines side by side the code reuses a colour, and `graph.rs` says so, so
  `LinesMeet` asks for different colours only while there are no more.
* When the graph is not among the cached reads nothing is drawn (`Undrawn`).

`OneClient` is needed for the timeline and no artefact. With two commands
`NavAligned` fails when a
look at the log brings the timeline up to date between the reset of an undo and
the move of its cursor, and `WorkIsNeverLost` when one command stashes or applies
a stash between the check of an undo and its reset (section 5). The attempt to
prove `Safe` of the rebases showed that an earlier form of the model let a rebase
overwrite an untracked file, which git refuses to do; a rebase now refuses to
start, or stops, there. Assumed: `ContextAssumption` (where a behaviour starts,
and that operations are those listed), `GitAssumption` and `ColorAssumption`
(`NCOLORS` is a number). A repository to start from satisfies `Sound`, which asks
of one in the middle of a merge that it names the commit merged: git keeps it in
`MERGE_HEAD`.

### Only model-checked

* All liveness: `CancelStops`, `QueuedIsTakenUp`, `CallEnds`, `CommandsEnd`.
  Reasoning under fairness is outside this prover.
* `CitationsGrounded` and `DraftIsAnswer` of the history agent: the reader of the
  stream and its reference are recursive over the document.
* `CommitIsReviewed`, `RollbackRestores`: stated of LocalAgents, which composes the
  planner with the history agent's recursive reader.

## 5. Known divergences

Behaviour the models contain, or that reading the code for them showed, and that
a property is weakened for, that a run leaves out, or that no document forbids.

Goals:

* The run loop checks the status on a snapshot, awaits the workspace digest and
  then sets Running on whatever it finds (`agent_run_manager.rs:387`): a cancel
  or a pause in between is overwritten. The durable-goal design says of
  completed, failed and cancelled: "Only the last three are terminal."
* The repair fuse counts notes in a transcript that compaction shortens
  (`completion.rs:63`), so a second repair may start; the design says "at most one
  candidate-repair cycle".
* The runner a cancel stops clears all pending intents
  (`agent_run_manager.rs:261`), also that of a write that has reached its file,
  which `cancel_agent_goal` itself refuses to do. This is why `goal_effects`
  leaves cancel out.
* A write that times out may still be running when recovery reads the file, finds
  the old content and drops the intent.
* A session is marked as visited before it is loaded (`agent_run_manager.rs:74`):
  if that load fails, the restart preparation never happens.
* `extend_agent_budget` saves Queued and is then refused by the registry
  (`agent_session_commands.rs:498`); it also requeues without checking that the
  new limit suffices, and a waiting candidate is then committed over it.
* `create_agent_goal` returns early after registering when the digest fails
  (`agent_session_commands.rs:154`): the session is busy until the process ends.
* Steering accepted while the verifier works is never injected. A mutation closure
  that fails half-way keeps its first assignments in memory. A failed save of a
  new goal rolls back to no goal, although the file holds the previous one.
  `reset_agent_session` ignores the store's `Busy`. The restore after a restart is
  skipped when a one-shot turn creates the session first.

Session engine:

* Approval and execution ids repeat when a failed slice is resumed
  (`run_limits.rs:126`, `engine.rs:441`): a late "allow" for the failed try
  approves another call of the next, whose tool and arguments the user was not
  shown. The tool-runtime design has "run-unique" approval ids that apply "to
  exactly one `(run_id, call_id, approval_id)`" and "cannot be replayed"
  (`2026-08-18-agent-platform-v2-tool-runtime-design.md:111` and `:194`).
  `PermissionHeld` excepts it; without the exception TLC finds a write that times
  out waiting for approval, the slice failing and tried again, and the answer to
  the first request letting the second write run.
* Resuming a goal that is blocked by a workspace conflict resets its progress
  tracker (`agent_session_commands.rs:400`), so `StallsEnd` counts afresh from
  there; `NextSlice` does not model that resume.
* The usage of a slice that fails is never charged. The request budget is read
  once per slice, so a provider without tool calling, whose slices may make
  several requests, can overspend; such a slice runs on until the runaway guard.
* A batch whose first results fill `max_result_bytes` fails the slice after its
  effects. Repeated identical writes never count as no progress. Several tool-free
  rounds may together exceed the single reserve.

Models and streams:

* OpenAI and Anthropic read errors after the stream has started are retried, while
  DeepSeek's become `StreamInterrupted`, which is not; DeepSeek's `content_filter`
  and `insufficient_system_resource` are retried as network errors.
  `NoSecondBill` speaks of DeepSeek and excepts the latter two. Of these the
  content filter is no transient error, and `docs/AGENT-ROADMAP.md:115` has only
  "网络、限流等瞬时错误" (transient errors like network and rate limits) retried.
* OpenAI's draft is put together from the deltas and its answer from the last
  event; nothing compares them.
* A bracket the model leaves open in its prose swallows everything up to the next
  ">" (`normalize_dsml_tags`), the opening tag of a tool block included: the answer
  is then refused as invalid.
* What the content filter shows depends on how the text was cut. Ids of calls
  recovered from DeepSeek's protocol repeat between rounds, and
  `validate_call_ids` then fails the run. An Anthropic tool block without a
  `content_block_stop` runs with empty input.

Review and triage:

* The head may move between the second check and the POST. A branch that is
  forced back to the reviewed commit while the diff is read mixes two versions
  (`CommentsOnReviewedLines` excepts it).
* A network error in the middle of a publication on GitLab reports no count, and
  a new submission repeats what was posted.
* An issue's comment can be posted twice when the marker has left the last page
  or a request is carried out after it was given up, although `AGENT-ROADMAP.md`
  says comments must not be repeated ("不得重复评论"). `updated_at` has the
  granularity of a second; a retry's fresh snapshot absorbs others' changes.

Change planner and history agent:

* The snapshot id omits the content of binary, oversized and LFS files. Edits
  between the re-read and the staging are committed unseen; the rollback unstages
  what another command staged meanwhile. A diff read for another view may be put
  into the cache after `refresh_status`.
* Two areas with one slug ("foo-bar" and "foo_bar", or two names without ASCII
  letters) share a group id, and `commit_change_group` takes the first group of
  the id it is given (`change_commands.rs:289`): confirming the second group
  stages and commits the files of the first under the message of the second,
  though the plan of the planner says "Stage only the selected group's paths"
  (`2026-08-08-local-change-planning-agent.md:40`). `CommitIsReviewed` names it as
  its exception; without that, TLC finds the second of two groups confirmed and
  the first committed.
* An overflow group replaces an area called "other"; a deleted file makes its
  group uncommittable; a panel that was left may still start its plan after the
  commit.
* A repeated `findings` key concatenates drafts, and findings that are one object
  show none (`FindingsOnce` excepts both). The patch budget is measured before
  JSON escaping. The contract retry starts with a fresh provider retry budget.

Repository context:

* A read that an invalidation overtakes stores the old answer after it; the graph
  is spliced by its number of rows, so a history of equal length that was
  rewritten meanwhile is continued with rows of another ("绝不错拼" in the
  comment). Both are `excused` in `CachesFollow` and `GraphDrawn`.
* A report that holds a change of refs drops the answers about refs only
  (`watcher.rs:22-23`, `repo_context.rs:186-200`), though files changed too.
* There is one watcher: what changes while another repository is open is not
  reported (`src-tauri/src/lib.rs:614`). `packed-refs` is not watched.
* The dirty check of an undo and its hard reset are two steps, in which an edit or
  another command may change the files. The reset and the move of the cursor are
  two steps as well: a look at the log in between aligns the timeline with the new
  HEAD, and the move then takes the cursor off it, until the next look. `repo_ops`
  therefore has one thread. Hunk and stash
  indices may be stale. A refused checkout after a successful create_branch drops
  no cache.
* A checkout in the middle of a merge or rebase lets the operation conclude on
  another branch. An undo after the checkout of a new branch at the same commit
  moves that branch, against the comment in `undo.rs`. Message files of a rebase
  are deleted when git returns, so a continued rebase fails at its next reword.
  The undo of a rebase that `continue_op` finished does nothing; that of a merge
  concluded before the start is soft. `current_branch` is "HEAD" when detached.
* In `graph.rs` no commit is ever waited for by two lanes, so the code that
  merges lanes is never needed.

## 6. Hazards

`PROJECT.json` lists each hazard at its line, with the properties that would
catch it, or a note where none does.

## 7. Not modelled, and the plan

Left: line-wise staging, submodules, worktrees, sparse checkout, signatures,
clone and init (adapters that keep no state), diff rendering and the other text
algorithms of backend and frontend, `graphGeometry.ts`, retrieval scoring,
evidence from blame, renames in the history of a file, prompts and parsing of model output beyond what decides the
control flow, the frontend's query caches, credentials (keyring), IPC types
(generated contracts), tool argument schemas (stateless), shell, search and web
tools (stateless, hidden from goals by policy), the fake backend.

Plan for the proofs that are left:

1. **ChangePlan**: `RollbackRestores` (before the staging the index is the head on
   every planned path), then `CommitIsReviewed`, which needs what grouping by area
   does to the set of paths.
