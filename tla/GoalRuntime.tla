----------------------------- MODULE GoalRuntime -----------------------------
(****************************************************************************)
(* The durable Goal runtime of one repository session: the goal record that *)
(* GoalRepository keeps in memory and on disk (agent-session/src/goal.rs),  *)
(* the run loop that works on it (agent_run_manager.rs), the IPC commands   *)
(* that steer it from outside (agent_session_commands.rs), and the run      *)
(* registry that admits one runner at a time (RunRegistry).                 *)
(*                                                                          *)
(* Every lock section is one atomic action.  What the code remembers across *)
(* two lock sections or an await is kept in the runner's or the caller's    *)
(* own record, so it may be stale when it is used.                          *)
(*                                                                          *)
(* The revision of the goal is only ever compared for equality with one     *)
(* read earlier, and every saved mutation increments it; the model keeps    *)
(* the set of callers whose remembered revision is out of date.             *)
(****************************************************************************)
EXTENDS Integers, Sequences, FiniteSets

CONSTANTS Goals,         \* goal ids; the client uses a fresh one per create
          Callers,       \* IPC commands that may be in flight at once
          Execs,         \* execution ids of approved writes; each names its own file
          Session,       \* the resource key "agent-goal:<session>"
          Ops,           \* the commands this instance lets the client issue
          CanFailSave,   \* may GoalPersistence::save return an error?
          CanFailLoad,   \* may GoalPersistence::load return an error?
          CanCrash,      \* may the process stop and be started again?
          CanStall,      \* may a spawn_blocking write outlive the future that awaits it?
          MAX_PENDING_CANCELLATIONS, PENDING_CANCELLATION_TTL, MAX_LAG, NoRun,   \* RunRegistry
          None           \* no goal in the session / nothing remembered

ASSUME RuntimeAssumption ==
    /\ CanFailSave \in BOOLEAN /\ CanFailLoad \in BOOLEAN /\ CanCrash \in BOOLEAN /\ CanStall \in BOOLEAN
    /\ None \notin Goals \cup Execs
    /\ {MAX_PENDING_CANCELLATIONS, PENDING_CANCELLATION_TTL} \subseteq Nat \ {0}
    /\ MAX_LAG \in Nat
    /\ NoRun \notin Goals \cup {Session}

VARIABLES
    goal,         \* memory: the active_goal of the session, or None
    loaded,       \* GoalRepository::sessions holds the session
    disk,         \* what the checkpoint file holds: None or a goal
    initialized,  \* AgentRunManager::initialized holds the session
    runner,       \* goal id -> the task spawned by launch_goal
    caller,       \* caller -> the command it executes
    stale,        \* callers whose remembered revision is out of date
    made,         \* goal ids already used by a create
    spent,        \* execution ids already used
    inflight,     \* writes whose blocking task is still running
    applied,      \* writes of the current goal that reached their file
    active, cancelled, active_resources, pending    \* RunRegistry

Registry == INSTANCE RunRegistry WITH RunIds <- Goals, Resources <- {Session}

repository == <<goal, loaded, disk, stale>>
registry == <<active, cancelled, active_resources, pending>>
files == <<spent, inflight, applied>>
vars == <<repository, initialized, runner, caller, made, files, registry>>

----------------------------------------------------------------------------
(* AgentGoalStatus and its reasons.  A reason is only read together with    *)
(* the status it belongs to, so one field holds it; the block reasons that  *)
(* no code path tells apart are all "Other".                                *)
Terminal == {"Completed", "Failed", "Cancelled"}
Status == Terminal \cup {"Queued", "Running", "AwaitingApproval", "Pausing", "Paused", "Blocked"}
PauseReason == {"User", "AppRestarted", "Budget", "ProviderUnavailable"}
BlockReason == {"WorkspaceConflict", "AmbiguousToolEffect", "Other"}
Candidate == {"none", "unverified", "accepted", "continue", "blocked"}

AgentGoal ==
    [ id       : Goals,
      status   : Status,
      why      : PauseReason \cup BlockReason \cup {"none"},
      cand     : Candidate,          \* completion_candidate and its verification
      reads    : BOOLEAN,            \* a read-only pending intent
      writes   : SUBSET Execs,       \* pending intents of writes
      receipts : SUBSET Execs,       \* mutation receipts
      steering : {"none", "waiting", "injected"},
      used     : BOOLEAN,            \* used_tools, model_responses > 0 or slice_index > 0
      feedback : 0..3,               \* 0, or 1 + the tool batches (at most 2) that follow
                                     \* the verifier feedback in recent_transcript
      over     : BOOLEAN,            \* active_budget().is_exceeded()
      spare    : BOOLEAN ]           \* the same of the other model's account

NewGoal(g) ==
    [ id |-> g, status |-> "Queued", why |-> "none", cand |-> "none", reads |-> FALSE,
      writes |-> {}, receipts |-> {}, steering |-> "none", used |-> FALSE,
      feedback |-> 0, over |-> FALSE, spare |-> FALSE ]

(* Option::None is no goal.                                                 *)
ASSUME NoneIsNoGoal == None \notin AgentGoal

HasGoal == goal # None
is_terminal(g) == g.status \in Terminal
Stopped(g) == g.status \in {"Paused", "Blocked"}
(* Mutant: the loop head overlooks the intents of writes.                   *)
OnlyReadsPending(g) == g.reads

HasPending(g) == g.reads \/ g.writes # {}

Paused(g, why) == [g EXCEPT !.status = "Paused", !.why = why]
Blocked(g, why) == [g EXCEPT !.status = "Blocked", !.why = why]

clear_active_working_data(g) ==
    [g EXCEPT !.cand = "none", !.reads = FALSE, !.writes = {}, !.feedback = 0,
              !.steering = IF @ = "none" THEN @ ELSE "injected"]

Cancelled(g) == clear_active_working_data([g EXCEPT !.status = "Cancelled", !.why = "none"])

prepare_for_restart(g) ==
    IF is_terminal(g) \/ g.status = "Blocked" THEN g ELSE Paused(g, "AppRestarted")

(* Mutant: the mutation receipts are not looked at.                         *)
VerifierOverlooksReceipts(g) == g.used \/ g.steering # "none"

requires_independent_verifier(g) ==
    g.used \/ g.steering # "none" \/ g.receipts # {}

(* mutate_goal / mutate_goal_current after a closure that returned Ok: the  *)
(* revision moves on and the session is saved, or the save fails and the    *)
(* session is put back as it was.                                           *)
Saved(g) == goal' = g /\ disk' = g /\ stale' = Callers /\ UNCHANGED loaded
SaveFails == CanFailSave /\ UNCHANGED repository

(* A closure that fails half way leaves what it has changed in memory:      *)
(* nothing is put back, nothing is saved and the revision stays.            *)
Unsaved(g) == goal' = g /\ UNCHANGED <<loaded, disk, stale>>

----------------------------------------------------------------------------
(* The runner: the task of launch_goal, from spawn to registry.finish.      *)
RunnerPC ==
    { "idle", "top", "ambiguous", "digest", "conflict", "refresh", "start", "begin",
      "model", "tools", "asking", "approved", "reading", "writing",
      "checkpoint", "candidate", "overdrawn", "complete", "verify", "verified",
      "decide", "legacy", "failed", "finish" }

RunError == {"ProviderUnavailable", "Cancelled", "Other"}
Boundary == {"AtomicStep", "Envelope", "NoProgressRecovery", "NoProgressBlocked", "RunawayGuard", "Budget"}

(* pc, the error of run_goal_inner, the boundary of the last slice, whether *)
(* its charge crossed the limit, the verifier's decision, the effect        *)
(* receipts and the verifier feedback of the goal snapshot, and the         *)
(* execution in flight.                                                     *)
Runner ==
    [ pc : RunnerPC, err : RunError \cup {None}, boundary : Boundary \cup {None},
      over : BOOLEAN, dec : Candidate, effects : BOOLEAN, feedback : BOOLEAN,
      exec : Execs \cup {None} ]

IdleRunner ==
    [ pc |-> "idle", err |-> None, boundary |-> None, over |-> FALSE,
      dec |-> "none", effects |-> FALSE, feedback |-> FALSE, exec |-> None ]

At(g, pc) == runner[g].pc = pc
Goto(g, pc) == runner' = [runner EXCEPT ![g].pc = pc]
Fail(g, err) == runner' = [runner EXCEPT ![g] = [IdleRunner EXCEPT !.pc = "failed", !.err = err]]
Return(g) == runner' = [runner EXCEPT ![g] = [IdleRunner EXCEPT !.pc = "finish"]]
LoopTop(g) == runner' = [runner EXCEPT ![g] = [IdleRunner EXCEPT !.pc = "top"]]

RunnerOnly == UNCHANGED <<initialized, caller, made, registry>>

(* A mutate_goal_current of the runner: whatever goal the session holds now *)
(* is the one it changes.                                                   *)
Mutate(g, new, Then) ==
    \/ HasGoal /\ Saved(new) /\ Then
    \/ HasGoal /\ SaveFails /\ Fail(g, "Other")
    \/ ~HasGoal /\ Fail(g, "Other") /\ UNCHANGED repository

(* The head of the loop: the token, then a snapshot of the goal.            *)
LoopHead(g) ==
    /\ At(g, "top")
    /\ IF cancelled[g] THEN Fail(g, "Cancelled")
       ELSE IF ~HasGoal THEN Fail(g, "Other")
       ELSE IF goal.id # g \/ is_terminal(goal) \/ Stopped(goal) THEN Return(g)
       ELSE runner' = [runner EXCEPT ![g].pc = IF HasPending(goal) THEN "ambiguous" ELSE "digest",
                                     ![g].effects = goal.receipts # {}]
    /\ UNCHANGED <<repository, files>> /\ RunnerOnly

BlockAmbiguous(g) ==
    /\ At(g, "ambiguous")
    /\ Mutate(g, Blocked(goal, "AmbiguousToolEffect"), Return(g))
    /\ UNCHANGED files /\ RunnerOnly

(* workspace_digest and receipts_match_repository, after the snapshot: the  *)
(* workspace may have changed, or the receipts' files, or a read may fail.  *)
WorkspaceDigest(g) ==
    /\ At(g, "digest")
    /\ \/ runner[g].effects /\ Goto(g, "conflict")
       \/ ~runner[g].effects /\ Goto(g, "refresh")
       \/ Goto(g, "start")
       \/ Fail(g, "Other")
    /\ UNCHANGED <<repository, files>> /\ RunnerOnly

BlockConflict(g) ==
    /\ At(g, "conflict")
    /\ Mutate(g, Blocked(goal, "WorkspaceConflict"), Return(g))
    /\ UNCHANGED files /\ RunnerOnly

(* The digest drifted under a goal without effects: only it and the         *)
(* evidence are replaced.                                                   *)
RefreshDigest(g) ==
    /\ At(g, "refresh")
    /\ Mutate(g, goal, Goto(g, "start"))
    /\ UNCHANGED files /\ RunnerOnly

inject_steering(g) == [g EXCEPT !.steering = IF @ = "waiting" THEN "injected" ELSE @]

(* Mutant: a queued goal is worked on without becoming Running.             *)
StartSliceKeepsStatus(g) ==
    /\ At(g, "start")
    /\ Mutate(g, inject_steering(goal), Goto(g, "begin"))
    /\ UNCHANGED files /\ RunnerOnly

StartSlice(g) ==
    /\ At(g, "start")
    /\ Mutate(g, inject_steering([goal EXCEPT !.status = "Running", !.why = "none"]),
              Goto(g, "begin"))
    /\ UNCHANGED files /\ RunnerOnly

(* The snapshot after it, then the credential and the provider.             *)
BeginSlice(g) ==
    /\ At(g, "begin")
    /\ \/ /\ HasGoal
          /\ runner' = [runner EXCEPT ![g].pc = IF goal.cand # "none" THEN "complete" ELSE "model",
                                      ![g].over = goal.over]
       \/ HasGoal /\ Fail(g, "ProviderUnavailable")
       \/ ~HasGoal /\ Fail(g, "Other")
    /\ UNCHANGED <<repository, files>> /\ RunnerOnly

----------------------------------------------------------------------------
(* run_goal_slice.  Its select drops the slice at any await once the token  *)
(* is cancelled, wherever the tool executor stands.                         *)
InSlice(g) == runner[g].pc \in {"model", "tools", "asking", "approved", "reading", "writing"}

Settled(g) == CanStall \/ runner[g].exec \notin inflight

SliceCancelled(g) ==
    /\ InSlice(g)
    /\ cancelled[g]
    /\ Settled(g)
    /\ Fail(g, "Cancelled")
    /\ UNCHANGED <<repository, files>> /\ RunnerOnly

(* The provider answers, fails after its retries, asks for more calls than  *)
(* the fuse allows, or is not asked because the request does not fit what   *)
(* the snapshot's budget has left; or the slice fails around it (the lease  *)
(* of the session is taken, the context does not fit, the answer is bad).   *)
ModelResponds(g) ==
    /\ At(g, "model")
    /\ \/ /\ ~runner[g].over
          /\ \/ Goto(g, "tools")
             \/ Goto(g, "candidate")
             \/ runner' = [runner EXCEPT ![g].pc = "checkpoint", ![g].boundary = "RunawayGuard"]
             \/ Fail(g, "ProviderUnavailable")
       \/ runner' = [runner EXCEPT ![g].pc = "checkpoint", ![g].boundary = "Budget"]
       \/ Fail(g, "Other")
    /\ UNCHANGED <<repository, files>> /\ RunnerOnly

(* The batch is through, or a call of it is refused: a reused call id, the  *)
(* call fuse, no result bytes left.                                         *)
BatchDone(g) ==
    /\ At(g, "tools")
    /\ \/ \E b \in Boundary \ {"RunawayGuard", "Budget"} :
             runner' = [runner EXCEPT ![g].pc = "checkpoint", ![g].boundary = b]
       \/ Fail(g, "Other")
    /\ UNCHANGED <<repository, files>> /\ RunnerOnly

(* GoalToolJournal: the three records refuse a terminal goal, and the       *)
(* refusal ends the slice with RunGoalError::Storage.                       *)
Journal(g, new, Then) ==
    \/ HasGoal /\ ~is_terminal(goal) /\ Saved(new) /\ Then
    \/ HasGoal /\ ~is_terminal(goal) /\ SaveFails /\ Fail(g, "Other") /\ UNCHANGED files
    \/ (HasGoal => is_terminal(goal)) /\ Fail(g, "Other") /\ UNCHANGED <<repository, files>>

ReadIntent(g) ==
    /\ At(g, "tools")
    /\ Journal(g, [goal EXCEPT !.reads = TRUE], Goto(g, "reading") /\ UNCHANGED files)
    /\ RunnerOnly

(* A read succeeds or fails: either way its intent is resolved.             *)
ReadDone(g) ==
    /\ At(g, "reading")
    /\ Journal(g, [goal EXCEPT !.reads = FALSE], Goto(g, "tools") /\ UNCHANGED files)
    /\ RunnerOnly

(* A timeout resolves the intent too, unless the slice's deadline passed    *)
(* between the record of the intent and the start of the handler.           *)
ReadTimesOut(g) ==
    /\ At(g, "reading")
    /\ \/ Journal(g, [goal EXCEPT !.reads = FALSE], Fail(g, "Other") /\ UNCHANGED files)
       \/ Fail(g, "Other") /\ UNCHANGED <<repository, files>>
    /\ RunnerOnly

(* GoalApprovalResolver.resolve ignores a failed save.                      *)
Tried(new, Then) ==
    \/ HasGoal /\ Saved(new) /\ Then
    \/ (~HasGoal \/ CanFailSave) /\ Then /\ UNCHANGED repository

AskApproval(g) ==
    /\ At(g, "tools")
    /\ Tried(IF is_terminal(goal) THEN goal ELSE [goal EXCEPT !.status = "AwaitingApproval"],
             Goto(g, "asking"))
    /\ UNCHANGED files /\ RunnerOnly

AfterApproval(g) == IF g.status = "AwaitingApproval" THEN [g EXCEPT !.status = "Running"] ELSE g

ApprovalResolved(g) ==
    /\ At(g, "asking")
    /\ \E allowed \in BOOLEAN :
          Tried(AfterApproval(goal), Goto(g, IF allowed THEN "approved" ELSE "tools"))
    /\ UNCHANGED files /\ RunnerOnly

(* The timeout drops resolve() before its second mutation.                  *)
ApprovalTimesOut(g) ==
    /\ At(g, "asking")
    /\ Fail(g, "Other")
    /\ UNCHANGED <<repository, files>> /\ RunnerOnly

(* check_active or prepare_intent refuses before anything is recorded.      *)
NotStarted(g) ==
    /\ At(g, "approved")
    /\ Goto(g, "tools") \/ Fail(g, "Other")
    /\ UNCHANGED <<repository, files>> /\ RunnerOnly

WriteIntent(g) ==
    /\ At(g, "approved")
    /\ \E e \in Execs \ spent :
          Journal(g, [goal EXCEPT !.writes = @ \cup {e}],
                  /\ runner' = [runner EXCEPT ![g].pc = "writing", ![g].exec = e]
                  /\ spent' = spent \cup {e}
                  /\ inflight' = inflight \cup {e})
    /\ UNCHANGED applied /\ RunnerOnly

(* The blocking task replaces the file atomically, or gives up.             *)
WriteSettles(e) ==
    /\ e \in inflight
    /\ inflight' = inflight \ {e}
    /\ applied' = applied \cup {e} \/ UNCHANGED applied
    /\ UNCHANGED <<repository, spent, runner>> /\ RunnerOnly

WriteReceipt(g) ==
    LET e == runner[g].exec IN
    /\ At(g, "writing")
    /\ e \in applied
    /\ Journal(g, [goal EXCEPT !.writes = @ \ {e}, !.receipts = @ \cup {e}],
               /\ runner' = [runner EXCEPT ![g].pc = "tools", ![g].exec = None]
               /\ UNCHANGED files)
    /\ RunnerOnly

(* The handler reports that it changed nothing: the intent stays pending    *)
(* all the same, only read-only intents are resolved without a receipt.     *)
WriteFails(g) ==
    /\ At(g, "writing")
    /\ runner[g].exec \notin inflight \cup applied
    /\ runner' = [runner EXCEPT ![g].pc = "tools", ![g].exec = None]
    /\ UNCHANGED <<repository, files>> /\ RunnerOnly

WriteTimesOut(g) ==
    /\ At(g, "writing")
    /\ Settled(g)
    /\ Fail(g, "Other")
    /\ UNCHANGED <<repository, files>> /\ RunnerOnly

----------------------------------------------------------------------------
(* The checkpoint after a slice.  The charge may cross the limit.  When the *)
(* digest of the workspace cannot be read nothing of the slice is recorded. *)
AfterBoundary(g, b) ==
    CASE b \in {"NoProgressBlocked", "RunawayGuard"} -> Blocked(g, "Other")
      [] b = "Budget"                                -> Paused(g, "Budget")
      [] OTHER                                       -> g

AfterCharge(g, exceeded) ==
    IF exceeded /\ g.status # "Blocked" THEN Paused(g, "Budget")
    ELSE IF g.status = "Pausing" THEN Paused(g, "User") ELSE g

Charged(g, exceeded) == [g EXCEPT !.over = exceeded]
ChargeOutcomes == IF HasGoal THEN {TRUE, goal.over} ELSE {TRUE}

(* Nothing was asked of the provider when the budget refused the request.   *)
SliceCharge(b) == IF HasGoal /\ b = "Budget" THEN {goal.over} ELSE ChargeOutcomes

(* The slice's tool batch is appended to the transcript.                    *)
Appended(g, b) ==
    IF b \in {"RunawayGuard", "Budget"} THEN g
    ELSE [g EXCEPT !.feedback = IF @ \in {1, 2} THEN @ + 1 ELSE @]

(* compact_working_set runs at a logical slice boundary and, if it works,   *)
(* keeps the transcript from the second-last tool batch on: a feedback note *)
(* that two batches follow is dropped.                                      *)
Compacted(g, b) ==
    IF b \in {"AtomicStep", "Budget"} \/ g.feedback # 3 THEN {g} ELSE {g, [g EXCEPT !.feedback = 0]}

SliceLost(g) ==
    /\ runner[g].pc \in {"checkpoint", "candidate"}
    /\ Fail(g, "Other")
    /\ UNCHANGED <<repository, files>> /\ RunnerOnly

SaveCheckpoint(g) ==
    LET b == runner[g].boundary IN
    /\ At(g, "checkpoint")
    /\ \E exceeded \in SliceCharge(b) :
       \E kept \in IF HasGoal THEN Compacted(Appended(goal, b), b) ELSE {None} :
          LET new == AfterCharge(AfterBoundary([Charged(kept, exceeded) EXCEPT !.used = TRUE], b),
                                 exceeded)
          IN  Mutate(g, new, IF exceeded \/ Stopped(new) THEN Return(g) ELSE LoopTop(g))
    /\ UNCHANGED files /\ RunnerOnly

SaveCandidate(g) ==
    /\ At(g, "candidate")
    /\ \E exceeded \in ChargeOutcomes :
          LET pause_requested == goal.status = "Pausing"
              new == [Charged(goal, exceeded) EXCEPT
                        !.cand = "unverified",
                        !.status = IF pause_requested THEN "Paused" ELSE @,
                        !.why = IF pause_requested THEN "User" ELSE @]
          IN  Mutate(g, new,
                     runner' = [runner EXCEPT
                        ![g].pc = IF exceeded \/ pause_requested THEN "overdrawn" ELSE "complete",
                        ![g].over = exceeded])
    /\ UNCHANGED files /\ RunnerOnly

(* Mutant: the early return after the pause is missing.                     *)
PauseOverdrawnFallsThrough(g) ==
    /\ At(g, "overdrawn")
    /\ Mutate(g, IF runner[g].over THEN Paused(goal, "Budget") ELSE goal, Goto(g, "complete"))
    /\ UNCHANGED files /\ RunnerOnly

(* The second mutation, when the charge crossed the limit or a pause was    *)
(* requested; also the one after the verifier's charge.                     *)
PauseOverdrawn(g) ==
    /\ At(g, "overdrawn")
    /\ Mutate(g, IF runner[g].over THEN Paused(goal, "Budget") ELSE goal, Return(g))
    /\ UNCHANGED files /\ RunnerOnly

(* handle_completion_candidate: the snapshot it decides on.                 *)
BeginCompletion(g) ==
    /\ At(g, "complete")
    /\ IF ~HasGoal \/ goal.cand = "none" THEN Fail(g, "Other")
       ELSE \/ Fail(g, "Other")                          \* invalid candidate, unreadable file
            \/ goal.receipts # {} /\ Goto(g, "conflict")
            \/ IF goal.cand = "unverified" /\ requires_independent_verifier(goal)
               THEN \/ /\ ~goal.over
                       /\ runner' = [runner EXCEPT ![g].pc = "verify", ![g].feedback = goal.feedback # 0]
                    \/ runner' = [runner EXCEPT ![g].pc = "overdrawn", ![g].over = TRUE]
               ELSE runner' = [runner EXCEPT ![g].pc = "decide", ![g].dec = goal.cand,
                                             ![g].feedback = goal.feedback # 0]
    /\ UNCHANGED <<repository, files>> /\ RunnerOnly

(* An answer that is no such verdict, or cites nothing, is asked for again  *)
(* once and is then an error.                                               *)
Decision == {"accepted", "continue", "blocked"}

(* The verifier's answer arrives after an await no token interrupts.        *)
VerifierAnswers(g) ==
    /\ At(g, "verify")
    /\ \/ \E d \in Decision :
             runner' = [runner EXCEPT ![g].pc = "verified", ![g].dec = d]
       \/ \E e \in {"ProviderUnavailable", "Other"} : Fail(g, e)
    /\ UNCHANGED <<repository, files>> /\ RunnerOnly

RecordVerification(g) ==
    /\ At(g, "verified")
    /\ \E exceeded \in ChargeOutcomes :
          IF HasGoal /\ goal.cand = "none"       \* charged, then InvalidContent
          THEN Unsaved(Charged(goal, exceeded)) /\ Fail(g, "Other")
          ELSE Mutate(g, [Charged(goal, exceeded) EXCEPT !.cand = runner[g].dec],
                      runner' = [runner EXCEPT ![g].pc = IF exceeded THEN "overdrawn" ELSE "decide",
                                               ![g].over = exceeded])
    /\ UNCHANGED files /\ RunnerOnly

(* The decision: repair once, block, or commit.  A refused `continue` has   *)
(* its gaps stored, and the same gaps block again: from now on the cached   *)
(* verdict is as good as `blocked`.                                         *)
Reject(g) ==
    /\ At(g, "decide")
    /\ runner[g].dec \in {"continue", "blocked"}
    /\ Mutate(g, [Blocked(goal, "Other") EXCEPT !.cand = IF @ = "continue" THEN "blocked" ELSE @],
              Return(g))
    /\ UNCHANGED files /\ RunnerOnly

(* verifier_continuation_action counts the feedback notes in the transcript *)
(* of the snapshot handle_completion_candidate began with.                  *)
Repair(g) ==
    /\ At(g, "decide")
    /\ runner[g].dec = "continue"
    /\ ~runner[g].feedback
    /\ \/ /\ HasGoal
          /\ Saved([goal EXCEPT !.cand = "none", !.feedback = 1])
          /\ LoopTop(g)
       \/ /\ ~HasGoal \/ CanFailSave
          /\ Fail(g, "Other")
          /\ UNCHANGED repository
    /\ UNCHANGED <<files, initialized, caller, made, registry>>

Committed(g) == clear_active_working_data([g EXCEPT !.status = "Completed", !.why = "none"])

Commit(g) ==
    /\ At(g, "decide")
    /\ runner[g].dec \in {"unverified", "accepted"}
    /\ IF HasGoal /\ is_terminal(goal)
       THEN Fail(g, "Other") /\ UNCHANGED repository
       ELSE Mutate(g, Committed(goal), Goto(g, "legacy"))
    /\ UNCHANGED files /\ RunnerOnly

(* commit_legacy: the in-memory session may be leased to another turn.      *)
CommitLegacy(g) ==
    /\ At(g, "legacy")
    /\ Return(g) \/ Fail(g, "Other")
    /\ UNCHANGED <<repository, files>> /\ RunnerOnly

----------------------------------------------------------------------------
(* run_goal after an error, then launch_goal's registry.finish.             *)
AfterError(g, err) ==
    IF is_terminal(g) \/ Stopped(g) THEN g
    ELSE CASE err = "ProviderUnavailable" -> Paused(g, "ProviderUnavailable")
           [] err = "Cancelled"           -> Cancelled(g)
           [] OTHER                       -> Blocked(g, "Other")

(* Mutant: the run loop is entered again after an error.                    *)
RecordErrorRetries(g) ==
    /\ At(g, "failed")
    /\ Tried(goal, LoopTop(g))
    /\ UNCHANGED files /\ RunnerOnly

RecordError(g) ==
    /\ At(g, "failed")
    /\ Tried(AfterError(goal, runner[g].err), Return(g))
    /\ UNCHANGED files /\ RunnerOnly

FinishRun(g) ==
    /\ At(g, "finish")
    /\ runner' = [runner EXCEPT ![g] = IdleRunner]
    /\ Registry!Finish(g)
    /\ UNCHANGED <<repository, initialized, caller, made, files>>

RunnerStep(g) ==
    \/ LoopHead(g) \/ BlockAmbiguous(g) \/ WorkspaceDigest(g) \/ BlockConflict(g)
    \/ RefreshDigest(g) \/ StartSlice(g) \/ BeginSlice(g)
    \/ SliceCancelled(g) \/ ModelResponds(g) \/ BatchDone(g)
    \/ ReadIntent(g) \/ ReadDone(g) \/ ReadTimesOut(g)
    \/ AskApproval(g) \/ ApprovalResolved(g) \/ ApprovalTimesOut(g)
    \/ NotStarted(g) \/ WriteIntent(g) \/ WriteReceipt(g) \/ WriteFails(g) \/ WriteTimesOut(g)
    \/ SliceLost(g) \/ SaveCheckpoint(g) \/ SaveCandidate(g) \/ PauseOverdrawn(g)
    \/ BeginCompletion(g) \/ VerifierAnswers(g) \/ RecordVerification(g)
    \/ Reject(g) \/ Repair(g) \/ Commit(g) \/ CommitLegacy(g)
    \/ RecordError(g) \/ FinishRun(g)

----------------------------------------------------------------------------
(* The IPC commands.  A caller executes one command at a time; op, the goal *)
(* id it names, its pc, whether its ensure() was the first, and the         *)
(* classification its reconcile_pending computed.                           *)
CallerPC ==
    { "idle", "ensure", "load", "prepare", "body", "steer", "reconcile",
      "apply", "reread", "register", "requeue", "digest", "create", "launch", "cancel" }

NoRecovery ==
    [reads |-> FALSE, resolved |-> {}, recovered |-> {}, ambiguous |-> FALSE, mode |-> "none"]
Recovery ==
    [ reads : BOOLEAN, resolved : SUBSET Execs, recovered : SUBSET Execs, ambiguous : BOOLEAN,
      mode : {"none", "restart", "ambiguity"} ]

Caller ==
    [ op : Ops \cup {None}, id : Goals \cup {None}, pc : CallerPC, first : BOOLEAN,
      rec : Recovery ]

IdleCaller == [op |-> None, id |-> None, pc |-> "idle", first |-> FALSE, rec |-> NoRecovery]

Is(c, op, pc) == caller[c].op = op /\ caller[c].pc = pc
CallerGoto(c, pc) == caller' = [caller EXCEPT ![c].pc = pc]
Done(c) == caller' = [caller EXCEPT ![c] = IdleCaller]
Named(c) == HasGoal /\ goal.id = caller[c].id       \* ensure_goal_id

CallerOnly == UNCHANGED <<initialized, runner, made, files, registry>>

Invoke(c, op, g) ==
    /\ caller[c].pc = "idle"
    /\ op \in Ops
    /\ op = "create" => g \notin made
    /\ caller' = [caller EXCEPT ![c] = [IdleCaller EXCEPT !.op = op, !.id = g, !.pc = "ensure"]]
    /\ made' = IF op = "create" THEN made \cup {g} ELSE made
    /\ UNCHANGED <<repository, initialized, runner, files, registry>>

(* AgentRunManager::ensure: note the session, load it, and on the first     *)
(* visit prepare a goal that was running when the process stopped.          *)
EnsureMark(c) ==
    /\ caller[c].pc = "ensure"
    /\ caller' = [caller EXCEPT ![c].pc = "load", ![c].first = ~initialized]
    /\ initialized' = TRUE
    /\ UNCHANGED <<repository, runner, made, files, registry>>

(* Mutant: a goal that waits for an approval is taken for a paused one.     *)
NeedsPrepareForgetsApproval(g) ==
    ~is_terminal(g) /\ ~Stopped(g) /\ g.status # "AwaitingApproval"

NeedsPrepare(g) == ~is_terminal(g) /\ ~Stopped(g)

(* restore_legacy_session, on the first visit, may fail.                    *)
Ensured(c) == CallerGoto(c, "body") \/ (caller[c].first /\ Done(c))

EnsureLoad(c) ==
    /\ caller[c].pc = "load"
    /\ \/ LET g == IF loaded THEN goal ELSE disk IN
          /\ goal' = g /\ loaded' = TRUE
          /\ UNCHANGED <<disk, stale>>
          /\ IF caller[c].first /\ g # None /\ NeedsPrepare(g)
             THEN CallerGoto(c, "prepare") ELSE Ensured(c)
       \/ /\ ~loaded /\ CanFailLoad        \* the checkpoint is locked or unreadable
          /\ Done(c)
          /\ UNCHANGED repository
    /\ CallerOnly

EnsurePrepare(c) ==
    /\ caller[c].pc = "prepare"
    /\ \/ HasGoal /\ Saved(prepare_for_restart(goal)) /\ Ensured(c)
       \/ (~HasGoal \/ CanFailSave) /\ Done(c) /\ UNCHANGED repository
    /\ CallerOnly

(* steer, pause, reset, cancel.  The expected_revision of the client is the *)
(* current one, or the command is refused without a trace.  steer looks at  *)
(* the goal id in a lock section of its own.                                *)
Steer(c) ==
    /\ Is(c, "steer", "body")
    /\ IF Named(c) THEN CallerGoto(c, "steer") ELSE Done(c)
    /\ UNCHANGED repository
    /\ CallerOnly

SteerApply(c) ==
    /\ caller[c].pc = "steer"
    /\ \/ HasGoal /\ ~is_terminal(goal) /\ Saved([goal EXCEPT !.steering = "waiting"])
       \/ UNCHANGED repository
    /\ Done(c)
    /\ CallerOnly

Pause(c) ==
    /\ Is(c, "pause", "body")
    /\ \/ Named(c) /\ ~is_terminal(goal)
             /\ Saved([goal EXCEPT !.status = "Pausing", !.why = "User"])
       \/ UNCHANGED repository
    /\ Done(c)
    /\ CallerOnly

Reset(c) ==
    /\ Is(c, "reset", "body")
    /\ \/ HasGoal /\ is_terminal(goal) /\ Saved(None) /\ applied' = {}
       \/ UNCHANGED <<repository, applied>>
    /\ Done(c)
    /\ UNCHANGED <<initialized, runner, made, spent, inflight, registry>>

(* cancel_agent_goal: the goal first, the token afterwards.                 *)
CancelGoal(c) ==
    /\ Is(c, "cancel", "body")
    /\ \/ /\ Named(c) /\ ~is_terminal(goal)
          /\ Saved(IF goal.writes = {} THEN Cancelled(goal)
                   ELSE Blocked(goal, "AmbiguousToolEffect"))
          /\ CallerGoto(c, "cancel")
       \/ UNCHANGED repository /\ Done(c)
    /\ CallerOnly

CancelToken(c) ==
    /\ caller[c].pc = "cancel"
    /\ Registry!Cancel(caller[c].id)
    /\ Done(c)
    /\ UNCHANGED <<repository, initialized, runner, made, files>>

(* reconcile_pending, first half: a snapshot, and the digest of every file  *)
(* a pending write names.  A file may also have been changed from outside.  *)
Mode(g) ==
    IF g.status = "Paused" /\ g.why = "AppRestarted" THEN "restart"
    ELSE IF g.status = "Blocked" /\ g.why = "AmbiguousToolEffect" THEN "ambiguity" ELSE "none"

Classifications(g) ==
    { [ reads |-> g.reads, resolved |-> g.writes \ foreign,
        recovered |-> (g.writes \ foreign) \cap applied,
        ambiguous |-> foreign # {}, mode |-> Mode(g) ] : foreign \in SUBSET g.writes }

AfterReconcile(c) == IF caller[c].op = "resume" THEN CallerGoto(c, "reread") ELSE Done(c)

(* resume first checks the id and the revision; get goes straight on.       *)
ResumeCheck(c) ==
    /\ Is(c, "resume", "body")
    /\ (Named(c) /\ CallerGoto(c, "reconcile")) \/ Done(c)
    /\ UNCHANGED repository
    /\ CallerOnly

Reconcile(c) ==
    /\ Is(c, "get", "body") \/ caller[c].pc = "reconcile"
    /\ IF HasGoal /\ (Mode(goal) = "ambiguity" \/ (Mode(goal) = "restart" /\ HasPending(goal)))
       THEN \/ \E r \in Classifications(goal) :
                  caller' = [caller EXCEPT ![c].pc = "apply", ![c].rec = r]
            \/ HasPending(goal) /\ Done(c)          \* a file cannot be read
       ELSE AfterReconcile(c)
    /\ UNCHANGED repository
    /\ CallerOnly

(* Mutant: a recovered write leaves the intents without its receipt.        *)
RecoveredWithoutReceipts(g, r) ==
    LET kept == [g EXCEPT !.writes = @ \ r.resolved]
    IN  IF r.ambiguous THEN Blocked(kept, "AmbiguousToolEffect")
        ELSE IF r.mode = "ambiguity" THEN Paused(kept, "User") ELSE kept

(* Mutant: a write that never reached its file is taken for one that did.   *)
RecoveredUnseen(g, r) ==
    LET kept == [g EXCEPT !.writes = @ \ r.resolved, !.receipts = @ \cup r.resolved]
    IN  IF r.ambiguous THEN Blocked(kept, "AmbiguousToolEffect")
        ELSE IF r.mode = "ambiguity" THEN Paused(kept, "User") ELSE kept

(* Second half: the classification is applied to the goal of that moment.   *)
(* Intents go by execution id, so a read begun since then stays.            *)
Recovered(g, r) ==
    LET kept == [g EXCEPT !.writes = @ \ r.resolved, !.receipts = @ \cup r.recovered]
    IN  IF r.ambiguous THEN Blocked(kept, "AmbiguousToolEffect")
        ELSE IF r.mode = "ambiguity" THEN Paused(kept, "User") ELSE kept

ApplyRecovery(c) ==
    LET r == caller[c].rec IN
    /\ caller[c].pc = "apply"
    /\ \/ /\ HasGoal
          /\ \E reads \in IF r.reads THEN {FALSE, goal.reads} ELSE {goal.reads} :
                Saved([Recovered(goal, r) EXCEPT !.reads = reads])
          /\ IF r.ambiguous THEN Done(c) ELSE AfterReconcile(c)
       \/ (~HasGoal \/ CanFailSave) /\ Done(c) /\ UNCHANGED repository
    /\ CallerOnly

(* resume_agent_goal after it: remember the revision, await the digest,     *)
(* register, and requeue only if the revision is still the same.            *)
ResumeReread(c) ==
    /\ caller[c].pc = "reread"
    /\ \/ HasGoal /\ stale' = stale \ {c} /\ CallerGoto(c, "register")
       \/ UNCHANGED stale /\ Done(c)
    /\ UNCHANGED <<goal, loaded, disk>>
    /\ CallerOnly

(* Mutant: resume goes on although the registry refused it.                 *)
ResumeRegisterIgnoresBusy(c) ==
    /\ Is(c, "resume", "register")
    /\ Registry!Register(caller[c].id, Session)
    /\ CallerGoto(c, "requeue")
    /\ UNCHANGED <<repository, initialized, runner, made, files>>

ResumeRegister(c) ==
    /\ Is(c, "resume", "register")
    /\ \/ Registry!Registered(caller[c].id, Session) /\ CallerGoto(c, "requeue")
       \/ Registry!RegisterRefused(caller[c].id, Session) /\ Done(c)
    /\ UNCHANGED <<repository, initialized, runner, made, files>>

Requeueable(c) == Named(c) /\ c \notin stale /\ ~is_terminal(goal)

Requeued(g) == [g EXCEPT !.status = "Queued", !.why = "none"]

(* The client may name the other model.  An exhausted account is refused    *)
(* only after the switch.                                                   *)
Switched(g) == [g EXCEPT !.over = g.spare, !.spare = g.over]

ResumeRequeue(c) ==
    /\ caller[c].pc = "requeue"
    /\ Done(c)
    /\ \/ /\ Requeueable(c)
          /\ \E g \in {goal, Switched(goal)} :
                IF g.over
                THEN Unsaved(g) /\ Registry!Finish(caller[c].id) /\ UNCHANGED runner
                ELSE Saved(Requeued(g)) /\ LoopTop(caller[c].id) /\ UNCHANGED registry
       \/ /\ ~Requeueable(c) \/ CanFailSave
          /\ Registry!Finish(caller[c].id)
          /\ UNCHANGED <<repository, runner>>
    /\ UNCHANGED <<initialized, made, files>>

(* extend_agent_budget raises the limit of either account, perhaps not      *)
(* enough; the goal is queued before the registry is asked.                 *)
Extensions(g) == { [g EXCEPT !.over = FALSE], [g EXCEPT !.spare = FALSE], g }

Extend(c) ==
    /\ Is(c, "extend", "body")
    /\ \/ /\ Named(c)
          /\ \E g \in Extensions(goal) :
                IF g.status = "Paused" /\ g.why = "Budget"
                THEN Saved(Requeued(g)) /\ CallerGoto(c, "launch")
                ELSE Saved(g) /\ Done(c)
       \/ UNCHANGED repository /\ Done(c)
    /\ CallerOnly

ExtendLaunch(c) ==
    /\ caller[c].pc = "launch"
    /\ \/ Registry!Registered(caller[c].id, Session) /\ LoopTop(caller[c].id)
       \/ Registry!RegisterRefused(caller[c].id, Session) /\ UNCHANGED runner
    /\ Done(c)
    /\ UNCHANGED <<repository, initialized, made, files>>

(* create_agent_goal: register, await the digest, create, launch.           *)
CreateRegister(c) ==
    /\ Is(c, "create", "body")
    /\ \/ Registry!Registered(caller[c].id, Session) /\ CallerGoto(c, "digest")
       \/ Registry!RegisterRefused(caller[c].id, Session) /\ Done(c)
    /\ UNCHANGED <<repository, initialized, runner, made, files>>

CreateDigest(c) ==
    /\ caller[c].pc = "digest"
    /\ CallerGoto(c, "create") \/ Done(c)        \* a digest error returns without finish
    /\ UNCHANGED repository
    /\ CallerOnly

CreateGoal(c) ==
    /\ caller[c].pc = "create"
    /\ Done(c)
    /\ \/ /\ HasGoal => is_terminal(goal)
          /\ Saved(NewGoal(caller[c].id)) /\ applied' = {}
          /\ LoopTop(caller[c].id)
          /\ UNCHANGED registry
       \/ /\ HasGoal /\ ~is_terminal(goal)
          /\ Registry!Finish(caller[c].id)
          /\ UNCHANGED <<repository, runner, applied>>
       \/ /\ (HasGoal => is_terminal(goal)) /\ CanFailSave
          /\ Unsaved(None) /\ applied' = {}               \* persist_rollback
          /\ Registry!Finish(caller[c].id)
          /\ UNCHANGED runner
    /\ UNCHANGED <<initialized, made, spent, inflight>>

CallerStep(c) ==
    \/ EnsureMark(c) \/ EnsureLoad(c) \/ EnsurePrepare(c)
    \/ Steer(c) \/ SteerApply(c) \/ Pause(c) \/ Reset(c) \/ CancelGoal(c) \/ CancelToken(c)
    \/ ResumeCheck(c) \/ Reconcile(c) \/ ApplyRecovery(c)
    \/ ResumeReread(c) \/ ResumeRegister(c) \/ ResumeRequeue(c)
    \/ Extend(c) \/ ExtendLaunch(c)
    \/ CreateRegister(c) \/ CreateDigest(c) \/ CreateGoal(c)

----------------------------------------------------------------------------
(* The process stops at any moment: memory is gone, the file stays.  A      *)
(* blocking write has landed or never will.                                 *)
Crash ==
    /\ CanCrash /\ initialized
    /\ goal' = None /\ loaded' = FALSE
    /\ initialized' = FALSE
    /\ runner' = [g \in Goals |-> IdleRunner]
    /\ caller' = [c \in Callers |-> IdleCaller]
    /\ stale' = Callers
    /\ active' = [g \in Goals |-> NoRun]
    /\ cancelled' = [g \in Goals |-> FALSE]
    /\ active_resources' = [k \in {Session} |-> NoRun]
    /\ pending' = <<>>
    /\ \E landed \in SUBSET inflight : applied' = applied \cup landed
    /\ inflight' = {}
    /\ UNCHANGED <<disk, made, spent>>

Tick == Registry!Tick /\ UNCHANGED <<repository, initialized, runner, caller, made, files>>

Init ==
    /\ goal = None /\ loaded = FALSE /\ disk = None /\ initialized = FALSE
    /\ runner = [g \in Goals |-> IdleRunner]
    /\ caller = [c \in Callers |-> IdleCaller]
    /\ stale = Callers
    /\ made = {} /\ spent = {} /\ inflight = {} /\ applied = {}
    /\ Registry!Init

Next ==
    \/ \E g \in Goals : RunnerStep(g)
    \/ \E e \in Execs : WriteSettles(e)
    \/ \E c \in Callers : CallerStep(c)
    \/ \E c \in Callers, op \in Ops, g \in Goals : Invoke(c, op, g)
    \/ Tick
    \/ Crash

Spec == Init /\ [][Next]_vars

(* tokio keeps polling a ready task, a provider call and an approval end by *)
(* a timeout, and a biased select polls the token first: the slice is       *)
(* dropped even if its other branch is always ready.  The client is not     *)
(* obliged to call anything, and time need not advance.                     *)
Fairness ==
    /\ \A g \in Goals : WF_vars(RunnerStep(g)) /\ WF_vars(SliceCancelled(g))
    /\ \A e \in Execs : WF_vars(WriteSettles(e))
    /\ \A c \in Callers : WF_vars(CallerStep(c))

FairSpec == Spec /\ Fairness

----------------------------------------------------------------------------
(* Types of everything the runtime keeps.                                   *)
TypeOK ==
    /\ goal \in AgentGoal \cup {None}
    /\ disk \in AgentGoal \cup {None}
    /\ loaded \in BOOLEAN /\ initialized \in BOOLEAN
    /\ runner \in [Goals -> Runner]
    /\ caller \in [Callers -> Caller]
    /\ stale \subseteq Callers
    /\ made \subseteq Goals
    /\ spent \subseteq Execs /\ inflight \subseteq spent /\ applied \subseteq spent
    /\ Registry!TypeOK

(* The tasks that may act on the session's goal as its one worker: a        *)
(* spawned runner, or a create or resume between its registration and its   *)
(* launch or finish.                                                        *)
Holders ==
    { <<g, g>> : g \in {h \in Goals : runner[h].pc # "idle"} }
        \cup { <<c, caller[c].id>> : c \in {d \in Callers : caller[d].pc \in {"digest", "create", "requeue"}} }

(* There is at most one worker per session, and the registry names it:      *)
(* whatever commands race, no two runners write checkpoints of one goal and *)
(* no finish() of one takes away the registration of another.               *)
OneRunner ==
    /\ \A h \in Holders : active_resources[Session] = h[2]
    /\ \A h, k \in Holders : h = k

(* Every write that reached a file is on record: the goal in memory, or the *)
(* checkpoint when memory is gone, holds its intent or its receipt.  This   *)
(* is what the intent is saved for before the effect starts.                *)
EffectAccounted ==
    LET g == IF loaded THEN goal ELSE disk
    IN  applied \subseteq IF g = None THEN {} ELSE g.writes \cup g.receipts

(* And nothing else is: a receipt, which the goal's evidence and its commit *)
(* rest on, is of a write that did reach its file, whether the runner saw   *)
(* it through or a recovery after a crash or a timeout told it from the     *)
(* file (classify_pending_intents).                                         *)
ReceiptsAreTrue ==
    LET g == IF loaded THEN goal ELSE disk
    IN  g # None /\ ~is_terminal(g) => g.receipts \subseteq applied

(* A goal that says it is queued, running or waiting for approval has a     *)
(* task that works on it, or a command that is about to start or to pause   *)
(* it: a restart and a lost launch never leave it so for ever.              *)
NoOrphan ==
    (loaded /\ HasGoal /\ goal.status \in {"Queued", "Running", "AwaitingApproval"})
        => \/ \E h \in Holders : h[2] = goal.id
           \/ \E c \in Callers : /\ caller[c].pc \in {"load", "prepare", "launch"}
                                 /\ caller[c].pc = "load" => caller[c].first

SameGoal == HasGoal /\ goal' # None /\ goal'.id = goal.id
Commits == SameGoal /\ goal.status # "Completed" /\ goal'.status = "Completed"

(* A candidate the verifier refused is never committed, nor one it has not  *)
(* seen once the goal has used tools or changed files, however often the    *)
(* goal was paused, restarted or resumed with its verdict cached.           *)
CommitHasAuthority ==
    [][Commits => /\ goal.cand \notin {"continue", "blocked"}
                  /\ (goal.used \/ goal.receipts # {}) => goal.cand # "unverified"]_vars

(* A goal is never committed over an unresolved tool intent: committing     *)
(* clears the intents, and the effect would be forgotten.                   *)
CommitLeavesNothingPending == [][Commits => ~goal.reads /\ goal.writes = {}]_vars

(* Crossing the budget limit never ends in a commit while the account is    *)
(* still exceeded.                                                          *)
BudgetNeverCommits == [][Commits => ~goal.over]_vars

(* Once its token is cancelled a runner comes to its end and releases the   *)
(* session, wherever it stood: model call, approval, write or verifier.     *)
CancelStops ==
    \A g \in Goals : (cancelled[g] /\ runner[g].pc # "idle") ~> (runner[g].pc = "idle")

(* A queued goal is taken up: it starts, or it is paused, blocked or ended. *)
QueuedIsTakenUp ==
    \A g \in Goals : (HasGoal /\ goal.id = g /\ goal.status = "Queued")
                         ~> ~(HasGoal /\ goal.id = g /\ goal.status = "Queued")

=============================================================================
