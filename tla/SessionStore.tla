---------------------------- MODULE SessionStore ----------------------------
(***************************************************************************)
(* The in-memory conversation of a session: SessionStore with its turn     *)
(* leases and its compaction (crates/agent-session/src/session.rs), and    *)
(* everyone who uses it: the one-shot turn (SessionEngine::run_turn), the  *)
(* slices of a goal and the commit of its result, the restore on the first *)
(* visit after a restart, and reset.  One action is one lock section of    *)
(* the store or of the goal repository.                                    *)
(*                                                                         *)
(* A turn stands for the user and the assistant message it commits; what   *)
(* they say is left out, their size is kept.                               *)
(***************************************************************************)
EXTENDS Naturals, Sequences, FiniteSets

CONSTANTS
    Sessions,          \* session ids
    Runs,              \* runs, goals and commands by the id they hold a lease under
    max_sessions,
    max_message_bytes,
    MaxRecent,         \* max_recent_messages, in pairs
    max_recent_bytes,
    MaxSummary,        \* max_summary_bytes, in bytes of the turns it holds
    MaxDurable,        \* the 16 messages of commit_goal_result, in pairs
    PairBytes,         \* sizes of the turns that occur, two messages each
    MaxRevision,       \* bound: no task starts on a session past this revision
    None

(* What with_compactor insists on. *)
ASSUME LimitsAssumption ==
    /\ max_sessions \in Nat \ {0} /\ max_message_bytes \in Nat \ {0}
    /\ MaxRecent \in Nat \ {0} /\ MaxDurable \in Nat \ {0}
    /\ max_recent_bytes \in Nat /\ max_recent_bytes >= 2 * max_message_bytes
    /\ PairBytes \subseteq 2..(2 * max_message_bytes)
    /\ MaxSummary \in Nat /\ MaxRevision \in Nat
    /\ None \notin Runs \cup Sessions

VARIABLES
    sessions,      \* the store: session id -> record, or None
    durable,       \* recent_messages of the goal repository, on disk as well
    initialized,   \* AgentRunManager::initialized
    tasks,         \* where each run stands and the lease it holds
    committed      \* history: the turns committed to the store since it was reset

vars == <<sessions, durable, initialized, tasks, committed>>

Turn == [run : Runs, bytes : PairBytes]

Record == [revision : Nat, active_run : Runs \cup {None}, summary : Seq(Turn), recent : Seq(Turn)]
ASSUME NoneAssumption == None \notin Record
NewRecord == [revision |-> 0, active_run |-> None, summary |-> <<>>, recent |-> <<>>]

Kinds == {"turn", "create", "resume", "reset"}
PCs == {"idle", "ensure", "visit", "restore", "create", "pair", "pairCommit", "register", "launch", "begin",
        "run", "commit", "abort", "slice", "inslice", "durable", "legacy", "legacyCommit", "finish",
        "resetDurable", "resetStore"}
Task == [pc : PCs, kind : Kinds, session : Sessions \cup {None}, base : Nat, todo : Seq(Turn), open : BOOLEAN]

IdleTask == [pc |-> "idle", kind |-> "turn", session |-> None, base |-> 0, todo |-> <<>>, open |-> FALSE]

(* A task that ended: only a goal that is not terminal stays, to be resumed. *)
Ended(t) == IF t.open THEN [IdleTask EXCEPT !.kind = "resume", !.session = t.session, !.open = TRUE] ELSE IdleTask

Goto(r, pc) == tasks' = [tasks EXCEPT ![r].pc = pc]
Done(r) == tasks' = [tasks EXCEPT ![r] = Ended(@)]
Live == {s \in Sessions : sessions[s] # None}

(* The tasks that hold a lease, and those ReviewRunRegistry counts as active. *)
Leased == {"pairCommit", "run", "commit", "abort", "inslice", "legacyCommit"}
Registered == {"launch", "begin", "run", "commit", "abort", "slice", "inslice", "durable", "legacy", "legacyCommit", "finish"}

Init ==
    /\ sessions = [s \in Sessions |-> None]
    /\ durable = [s \in Sessions |-> <<>>]
    /\ initialized = [s \in Sessions |-> FALSE]
    /\ tasks = [r \in Runs |-> IdleTask]
    /\ committed = [s \in Sessions |-> <<>>]

----------------------------------------------------------------------------
(* The store's operations on one record.                                    *)
Created(s) ==
    /\ sessions' = [sessions EXCEPT ![s] = NewRecord]
    /\ committed' = [committed EXCEPT ![s] = <<>>]

message_bytes(seq) ==
    LET sum[i \in 0..Len(seq)] == IF i = 0 THEN 0 ELSE sum[i - 1] + seq[i].bytes
    IN  sum[Len(seq)]

Suffix(seq, k) == SubSeq(seq, k + 1, Len(seq))

(* Mutant: the byte limit counts as exceeded when it is just reached. *)
FitsStrictly(seq) == Len(seq) <= MaxRecent /\ message_bytes(seq) < max_recent_bytes

Fits(seq) == Len(seq) <= MaxRecent /\ message_bytes(seq) <= max_recent_bytes

(* How many of the oldest pairs may be drained: never the last one. *)
Drains(seq) == {k \in 0..(Len(seq) - 1) : Fits(Suffix(seq, k))}
Least(S) == CHOOSE k \in S : \A j \in S : k <= j

(* compact: the summary keeps the end of what it is given; a turn that is   *)
(* cut counts as lost.                                                      *)
compact(summary, drained) ==
    LET all == summary \o drained
    IN  Suffix(all, Least({k \in 0..Len(all) : message_bytes(Suffix(all, k)) <= MaxSummary}))

AppendTurn(rec, t) ==
    LET next == Append(rec.recent, t)
        k == Least(Drains(next))
    IN  [revision |-> rec.revision + 1, active_run |-> None,
         summary |-> IF k = 0 THEN rec.summary ELSE compact(rec.summary, SubSeq(next, 1, k)),
         recent |-> Suffix(next, k)]

ensure_lease(r) ==
    LET rec == sessions[tasks[r].session]
    IN  rec # None /\ rec.active_run = r /\ rec.revision = tasks[r].base

(* begin_turn: the lease, or NotFound or Busy. *)
begin_turn(r, granted, Refused) ==
    LET s == tasks[r].session
        free == sessions[s] # None /\ sessions[s].active_run = None
    IN  \/ /\ free
           /\ sessions' = [sessions EXCEPT ![s].active_run = r]
           /\ tasks' = [tasks EXCEPT ![r].pc = granted, ![r].base = sessions[s].revision]
        \/ /\ ~free
           /\ Refused
           /\ UNCHANGED sessions

(* commit_turn of turn t: StaleLease and Compaction leave the record alone. *)
CommitSucceeds(r, t) ==
    ensure_lease(r) /\ Drains(Append(sessions[tasks[r].session].recent, t)) # {}

commit_turn(r, t) ==
    LET s == tasks[r].session
    IN  IF CommitSucceeds(r, t)
        THEN /\ sessions' = [sessions EXCEPT ![s] = AppendTurn(@, t)]
             /\ committed' = [committed EXCEPT ![s] = Append(@, t)]
        ELSE UNCHANGED <<sessions, committed>>

abort_turn(r) ==
    sessions' = IF ensure_lease(r) THEN [sessions EXCEPT ![tasks[r].session].active_run = None] ELSE sessions

----------------------------------------------------------------------------
(* A client starts a one-shot turn, creates or resumes a goal, or resets.   *)
Start(r, kind, s) ==
    /\ tasks[r].pc = "idle"
    /\ sessions[s] # None => sessions[s].revision < MaxRevision
    /\ IF tasks[r].open THEN kind = "resume" /\ s = tasks[r].session ELSE kind # "resume"
    /\ tasks' = [tasks EXCEPT ![r] = [pc |-> IF kind = "turn" THEN "ensure" ELSE "visit", kind |-> kind,
                                      session |-> s, base |-> 0, todo |-> <<>>, open |-> tasks[r].open]]
    /\ UNCHANGED <<sessions, durable, initialized, committed>>

(* AgentSessionState::ensure: get, or create within the capacity. *)
Ensure(r) ==
    LET s == tasks[r].session
    IN  /\ tasks[r].pc = "ensure"
        /\ \/ sessions[s] # None /\ Goto(r, "register") /\ UNCHANGED <<sessions, committed>>
           \/ sessions[s] = None /\ Cardinality(Live) < max_sessions /\ Created(s) /\ Goto(r, "register")
           \/ sessions[s] = None /\ Cardinality(Live) >= max_sessions /\ Done(r) /\ UNCHANGED <<sessions, committed>>
        /\ UNCHANGED <<durable, initialized>>

AfterVisit(r) == IF tasks[r].kind = "reset" THEN "resetDurable" ELSE "register"

(* AgentRunManager::ensure: only the first visit restores, and it is over   *)
(* when the checkpoint cannot be loaded or saved.                           *)
Visit(r) ==
    LET s == tasks[r].session
    IN  /\ tasks[r].pc = "visit"
        /\ initialized' = [initialized EXCEPT ![s] = TRUE]
        /\ \/ initialized[s] /\ Goto(r, AfterVisit(r))
           \/ ~initialized[s] /\ (Goto(r, "restore") \/ Done(r))
        /\ UNCHANGED <<sessions, durable, committed>>

(* restore_legacy_session: a session that exists is left as it is; one that *)
(* appears between get and create, or finds no room, is an error.           *)
Restore(r) ==
    LET s == tasks[r].session
    IN  /\ tasks[r].pc = "restore"
        /\ \/ sessions[s] # None /\ Goto(r, AfterVisit(r))
           \/ sessions[s] = None /\ tasks' = [tasks EXCEPT ![r].pc = "create", ![r].todo = durable[s]]
        /\ UNCHANGED <<sessions, durable, initialized, committed>>

RestoreCreate(r) ==
    LET s == tasks[r].session
    IN  /\ tasks[r].pc = "create"
        /\ IF sessions[s] = None /\ Cardinality(Live) < max_sessions
           THEN Created(s) /\ Goto(r, "pair")
           ELSE Done(r) /\ UNCHANGED <<sessions, committed>>
        /\ UNCHANGED <<durable, initialized>>

RestorePair(r) ==
    /\ tasks[r].pc = "pair"
    /\ \/ tasks[r].todo = <<>> /\ Goto(r, AfterVisit(r)) /\ UNCHANGED sessions
       \/ tasks[r].todo # <<>> /\ begin_turn(r, "pairCommit", Done(r))
    /\ UNCHANGED <<durable, initialized, committed>>

RestoreCommit(r) ==
    /\ tasks[r].pc = "pairCommit"
    /\ commit_turn(r, Head(tasks[r].todo))
    /\ IF CommitSucceeds(r, Head(tasks[r].todo))
       THEN tasks' = [tasks EXCEPT ![r].pc = "pair", ![r].todo = Tail(@)]
       ELSE Done(r)
    /\ UNCHANGED <<durable, initialized>>

(* register_resource: one turn and one goal at a time, under a key each. *)
SameKey(q, r) == tasks[q].session = tasks[r].session /\ (tasks[q].kind = "turn" <=> tasks[r].kind = "turn")

Register(r) ==
    LET free == \A q \in Runs : SameKey(q, r) => tasks[q].pc \notin Registered
    IN  /\ tasks[r].pc = "register"
        /\ IF free THEN Goto(r, IF tasks[r].kind = "turn" THEN "begin" ELSE "launch") ELSE Done(r)
        /\ UNCHANGED <<sessions, durable, initialized, committed>>

(* create_goal, or the requeue of resume: refused beside another goal or    *)
(* after a cancel; the budget or the save may fail as well.                 *)
Launch(r) ==
    LET s == tasks[r].session
        allowed == IF tasks[r].kind = "resume" THEN tasks[r].open
                   ELSE \A q \in Runs : tasks[q].session = s => ~tasks[q].open
    IN  /\ tasks[r].pc = "launch"
        /\ \/ allowed /\ tasks' = [tasks EXCEPT ![r].pc = "slice", ![r].open = TRUE]
           \/ Goto(r, "finish")
        /\ UNCHANGED <<sessions, durable, initialized, committed>>

Finish(r) ==
    /\ tasks[r].pc = "finish"
    /\ Done(r)
    /\ UNCHANGED <<sessions, durable, initialized, committed>>

----------------------------------------------------------------------------
(* run_turn: an answer is committed; an error, a timeout, a cancellation    *)
(* and an answer that redaction made invalid are aborted.                   *)
BeginTurn(r) ==
    /\ tasks[r].pc = "begin"
    /\ begin_turn(r, "run", Goto(r, "finish"))
    /\ UNCHANGED <<durable, initialized, committed>>

RunLeased(r) ==
    /\ tasks[r].pc = "run"
    /\ Goto(r, "commit") \/ Goto(r, "abort")
    /\ UNCHANGED <<sessions, durable, initialized, committed>>

CommitTurn(r) ==
    /\ tasks[r].pc = "commit"
    /\ \/ \E b \in PairBytes :
              LET t == [run |-> r, bytes |-> b]
              IN  commit_turn(r, t) /\ Goto(r, IF CommitSucceeds(r, t) THEN "finish" ELSE "abort")
       \/ Goto(r, "abort") /\ UNCHANGED <<sessions, committed>>     \* InvalidContent
    /\ UNCHANGED <<durable, initialized>>

AbortTurn(r) ==
    /\ tasks[r].pc = "abort"
    /\ abort_turn(r)
    /\ Goto(r, "finish")
    /\ UNCHANGED <<durable, initialized, committed>>

(* run_goal_slice: the lease is given back whatever the slice came to. *)
BeginSlice(r) ==
    /\ tasks[r].pc = "slice"
    /\ begin_turn(r, "inslice", Goto(r, "finish"))
    /\ UNCHANGED <<durable, initialized, committed>>

SliceEnds(r) ==
    /\ tasks[r].pc = "inslice"
    /\ abort_turn(r)
    /\ Goto(r, "slice")
    /\ UNCHANGED <<durable, initialized, committed>>

(* run_goal_inner between two slices: there is a candidate to commit, from  *)
(* the last slice or an earlier run, or the runner stops.                   *)
LeaveLoop(r) ==
    /\ tasks[r].pc = "slice"
    /\ Goto(r, "durable") \/ Goto(r, "finish")
    /\ UNCHANGED <<sessions, durable, initialized, committed>>

(* commit_goal_result: the repository's own memory, the last 16 messages;   *)
(* a goal that was cancelled is refused, and the save may fail.             *)
CommitGoal(r) ==
    LET s == tasks[r].session
    IN  /\ tasks[r].pc = "durable"
        /\ \/ /\ tasks[r].open
              /\ \E b \in PairBytes :
                    LET t == [run |-> r, bytes |-> b]
                        all == Append(durable[s], t)
                    IN  /\ durable' = [durable EXCEPT ![s] = Suffix(all, IF Len(all) > MaxDurable THEN Len(all) - MaxDurable ELSE 0)]
                        /\ tasks' = [tasks EXCEPT ![r].pc = "legacy", ![r].open = FALSE, ![r].todo = <<t>>]
           \/ Goto(r, "finish") /\ UNCHANGED durable
        /\ UNCHANGED <<sessions, initialized, committed>>

(* commit_legacy: the same pair into the store, under a lease of its own. *)
BeginLegacy(r) ==
    /\ tasks[r].pc = "legacy"
    /\ begin_turn(r, "legacyCommit", Goto(r, "finish"))
    /\ UNCHANGED <<durable, initialized, committed>>

CommitLegacy(r) ==
    /\ tasks[r].pc = "legacyCommit"
    /\ commit_turn(r, Head(tasks[r].todo))
    /\ tasks' = [tasks EXCEPT ![r].pc = "finish", ![r].todo = <<>>]
    /\ UNCHANGED <<durable, initialized>>

(* cancel_agent_goal ends the goal at once; its runner may still be there. *)
CancelGoal(r) ==
    /\ tasks[r].open
    /\ tasks' = [tasks EXCEPT ![r] = IF @.pc = "idle" THEN IdleTask ELSE [@ EXCEPT !.open = FALSE]]
    /\ UNCHANGED <<sessions, durable, initialized, committed>>

(* reset_agent_session: the repository refuses while a goal is not terminal *)
(* and may fail to save; the store refuses while it is leased, and that     *)
(* refusal is ignored.                                                      *)
ResetDurable(r) ==
    LET s == tasks[r].session
        busy == \E q \in Runs : tasks[q].session = s /\ tasks[q].open
    IN  /\ tasks[r].pc = "resetDurable"
        /\ \/ ~busy /\ durable' = [durable EXCEPT ![s] = <<>>] /\ Goto(r, "resetStore")
           \/ Done(r) /\ UNCHANGED durable
        /\ UNCHANGED <<sessions, initialized, committed>>

(* Mutants: reset without the look at active_run; with the summary kept.    *)
ResetUnderLease(s) ==
    IF sessions[s] # None
    THEN /\ sessions' = [sessions EXCEPT ![s] = [@ EXCEPT !.summary = <<>>, !.recent = <<>>, !.revision = @ + 1]]
         /\ committed' = [committed EXCEPT ![s] = <<>>]
    ELSE UNCHANGED <<sessions, committed>>
ResetKeepsSummary(s) ==
    IF sessions[s] # None /\ sessions[s].active_run = None
    THEN /\ sessions' = [sessions EXCEPT ![s] = [@ EXCEPT !.recent = <<>>, !.revision = @ + 1]]
         /\ committed' = [committed EXCEPT ![s] = <<>>]
    ELSE UNCHANGED <<sessions, committed>>

reset(s) ==
    IF sessions[s] # None /\ sessions[s].active_run = None
    THEN /\ sessions' = [sessions EXCEPT ![s] = [NewRecord EXCEPT !.revision = sessions[s].revision + 1]]
         /\ committed' = [committed EXCEPT ![s] = <<>>]
    ELSE UNCHANGED <<sessions, committed>>

ResetStore(r) ==
    /\ tasks[r].pc = "resetStore"
    /\ reset(tasks[r].session)
    /\ Done(r)
    /\ UNCHANGED <<durable, initialized>>

(* The process restarts: the store is empty, goals and durable memory stay. *)
Restart ==
    /\ \E s \in Sessions : initialized[s] \/ sessions[s] # None
    /\ sessions' = [s \in Sessions |-> None]
    /\ committed' = [s \in Sessions |-> <<>>]
    /\ initialized' = [s \in Sessions |-> FALSE]
    /\ tasks' = [r \in Runs |-> Ended(tasks[r])]
    /\ UNCHANGED durable

TaskStep(r) ==
    \/ Ensure(r) \/ Visit(r) \/ Restore(r) \/ RestoreCreate(r) \/ RestorePair(r) \/ RestoreCommit(r)
    \/ Register(r) \/ Launch(r) \/ Finish(r)
    \/ BeginTurn(r) \/ RunLeased(r) \/ CommitTurn(r) \/ AbortTurn(r)
    \/ BeginSlice(r) \/ SliceEnds(r) \/ LeaveLoop(r) \/ CommitGoal(r) \/ BeginLegacy(r) \/ CommitLegacy(r)
    \/ ResetDurable(r) \/ ResetStore(r)

Next ==
    \/ \E r \in Runs : TaskStep(r) \/ CancelGoal(r)
    \/ \E r \in Runs, kind \in Kinds, s \in Sessions : Start(r, kind, s)
    \/ Restart

Spec == Init /\ [][Next]_vars

----------------------------------------------------------------------------
(* Types of the store, the repository's memory and the tasks. *)
TypeOK ==
    /\ sessions \in [Sessions -> Record \cup {None}]
    /\ durable \in [Sessions -> Seq(Turn)]
    /\ initialized \in [Sessions -> BOOLEAN]
    /\ tasks \in [Runs -> Task]
    /\ committed \in [Sessions -> Seq(Turn)]

(* A task that stands between its begin_turn and its end has the session's  *)
(* lease at the revision it began with, and a session is leased only to     *)
(* such a task: no commit or abort finds its lease stale, and no failure    *)
(* path leaves a session busy.                                              *)
LeaseMirrorsHolder ==
    /\ \A r \in Runs : tasks[r].pc \in Leased => ensure_lease(r)
    /\ \A s \in Sessions : (sessions[s] # None /\ sessions[s].active_run # None)
            => LET h == sessions[s].active_run
               IN  tasks[h].pc \in Leased /\ tasks[h].session = s

(* The memory a model is shown, summary then recent turns, is an unbroken   *)
(* end of what was committed, in its order, and the last turn is there      *)
(* verbatim, within the limits.                                             *)
MemoryIsRecentHistory ==
    \A s \in Live :
        LET memory == sessions[s].summary \o sessions[s].recent
        IN  /\ Len(memory) <= Len(committed[s])
            /\ memory = Suffix(committed[s], Len(committed[s]) - Len(memory))
            /\ committed[s] # <<>> => sessions[s].recent # <<>>
            /\ Fits(sessions[s].recent)

(* Whatever valid turn comes next, compaction can make room for it without  *)
(* dropping the turn itself: the Compaction error is never met.             *)
AlwaysRoom ==
    \A s \in Live, r \in Runs, b \in PairBytes :
        Drains(Append(sessions[s].recent, [run |-> r, bytes |-> b])) # {}
=============================================================================
