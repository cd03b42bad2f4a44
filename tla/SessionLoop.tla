----------------------------- MODULE SessionLoop -----------------------------
(***************************************************************************)
(* The loop of the session engine (crates/agent-session/src/engine.rs,     *)
(* run_leased) as a one-shot turn and as the slices of a goal run it, with *)
(* the context planner (context.rs), the limits, the policy and the        *)
(* executor of the tool runtime (crates/agent-runtime/src/tool_runtime),   *)
(* and the registry of approvals the user answers (agent_events.rs).       *)
(*                                                                         *)
(* Text is its size in tokens, which are also bytes.  Time has three       *)
(* stages: 0, 1 inside final_time_reserve, 2 past max_run_duration.  The   *)
(* lease is SessionStore's, the durable goal GoalRuntime's: here a goal is *)
(* what one slice hands to the next.                                       *)
(***************************************************************************)
EXTENDS Integers, Sequences, FiniteSets, FiniteSetsExt, SequencesExt

CONSTANTS
  max_model_rounds, max_tool_calls, max_result_bytes,
  final_synthesis_rounds, max_repeated_tool_batches,
  max_total_input_tokens, final_input_token_reserve,
  max_total_output_tokens, final_output_token_reserve,
  max_output_tokens, max_attempts,
  InputBudget,     \* the window less what the planner reserves
  Sessions,        \* what the session and the retriever give: [pairs, memory, chunks]
  ToolCalling,     \* may the provider call tools?
  Limits,          \* budgets a goal may have, in tokens
  Stalls,          \* checkpoints a goal may begin with, all of them alike
  MaxTries,        \* bound: further slices of a goal, failed ones included
  MaxItems,        \* bound: items in the transcript a slice begins with
  None

\* SessionEngine::new refuses any other configuration.
ValidConfig ==
  /\ {max_model_rounds, max_tool_calls, final_synthesis_rounds, max_repeated_tool_batches,
      final_input_token_reserve, final_output_token_reserve, max_attempts} \subseteq Nat \ {0}
  /\ final_synthesis_rounds <= max_model_rounds
  /\ final_input_token_reserve < max_total_input_tokens
  /\ final_output_token_reserve < max_total_output_tokens
ASSUME ConfigAssumption ==
  /\ ValidConfig
  /\ {max_total_input_tokens, max_total_output_tokens, max_output_tokens, InputBudget} \subseteq Nat
  /\ ToolCalling \subseteq BOOLEAN /\ Stalls \subseteq Nat /\ Limits \subseteq Nat

VARIABLES
  mode, pc, outcome,
  clock, cancelled,
  engine,      \* the locals of run_leased
  counters,    \* ToolRunCounters
  current,     \* the transcript of this turn
  batch,       \* the calls still to be executed
  digest,      \* of the batch so far: [calls, evidence]
  progress,    \* ProgressTracker
  waiting,     \* ToolApprovalRegistry: the request that waits
  prompts,     \* requests the user was shown and has not answered
  permit,      \* the answer that allowed the call at hand
  goal,        \* what the next slice begins with
  over         \* history: has the provider charged more than was estimated?

vars == <<mode, pc, outcome, clock, cancelled, engine, counters, current, batch, digest,
          progress, waiting, prompts, permit, goal, over>>
toolVars == <<counters, batch, digest, waiting, prompts, permit>>

-----------------------------------------------------------------------------
(* Tools and permissions *)

\* The first rule that matches decides; without one the tool is denied.
Tool == {"read", "write", "shell"}
BuiltinPolicy == [read |-> "Allow", write |-> "Ask", shell |-> "Ask"]
local_agent_policy == [read |-> "Allow", write |-> "Ask", shell |-> "Deny"]
evaluate(policy, tool) == IF tool \in DOMAIN policy THEN policy[tool] ELSE "Deny"
restrict_decision(application, run) ==
  IF "Deny" \in {application, run} THEN "Deny"
  ELSE IF "Ask" \in {application, run} THEN "Ask" ELSE "Allow"
Decision(tool) == restrict_decision(evaluate(BuiltinPolicy, tool), evaluate(local_agent_policy, tool))

\* The model may call a tool there is not.  A request names its execution and
\* is numbered within it.
ToolCall == [id : Nat, tool : Tool \cup {"unknown"}]
ApprovalRequest == [id : Nat \X Nat, call : ToolCall, tries : Nat]
FinalizationReason == {"ModelRoundFuse", "ToolCallFuse", "TimeReserve", "InputTokenReserve", "OutputTokenReserve", "NoProgress"}
\* What a call shows: what it returned and, of a write, the receipt.
Evidence == (Tool \cup {"unknown"}) \X {"no", "a", "b", "written"} \X ({None} \cup (Nat \X Nat))
ASSUME NoneAssumption == None \notin FinalizationReason \cup ApprovalRequest \cup Int \cup Seq(Evidence)

-----------------------------------------------------------------------------
(* The transcript and its plan *)

User == [kind |-> "user", ids |-> <<>>, size |-> 1]
\* The goal's objective, or the summary of what was compacted.
Header == [kind |-> "header", ids |-> <<>>, size |-> 1]
System == [kind |-> "system", ids |-> <<>>, size |-> 1]
AssistantToolCalls(calls) ==
  [kind |-> "calls", ids |-> [i \in DOMAIN calls |-> calls[i].id], size |-> 1]
ToolResult(id, size) == [kind |-> "result", ids |-> <<id>>, size |-> size]
Calls(t) == {i \in DOMAIN t : t[i].kind = "calls"}

estimate_request_tokens(raw) == (130 * raw + 99) \div 100
Sizes(t) == MapThenSumSet(LAMBDA i : t[i].size, DOMAIN t)
Large(t) == {i \in DOMAIN t : t[i].kind = "result" /\ t[i].size > 1}

\* The k-th attempt to fit: first the oldest pairs are folded into the memory,
\* then retrieval is dropped, then the oldest results become markers.
Compacted(session, t, k) ==
  LET pairs == Min({k, session.pairs})
      chunks == Min({k - pairs, session.chunks})
  IN  1 + (IF pairs > 0 THEN 1 ELSE session.memory) + 2 * (session.pairs - pairs)
        + (session.chunks - chunks) + Sizes(t) - (k - pairs - chunks)
\* ContextPlanner::plan: the estimate of the first that fits, or None.
plan(session, t, tools) ==
  LET estimate(k) == estimate_request_tokens(Compacted(session, t, k) + tools)
      fits == {k \in 0 .. session.pairs + session.chunks + Cardinality(Large(t)) :
                 estimate(k) \in 0 .. InputBudget}
  IN  IF fits = {} THEN None ELSE estimate(Min(fits))

-----------------------------------------------------------------------------
(* ProgressTracker *)

FreshProgress == [last |-> None, idle |-> 0, recovery |-> FALSE]
\* Mutant: the recovery slice is offered again and again.
ObserveForgets(p, evidence) ==
  IF evidence # p.last THEN [p |-> [last |-> evidence, idle |-> 0, recovery |-> FALSE], action |-> "Continue"]
  ELSE IF p.idle + 1 >= 4 THEN [p |-> [p EXCEPT !.idle = 0], action |-> "RecoverySlice"]
  ELSE [p |-> [p EXCEPT !.idle = @ + 1], action |-> "Continue"]
observe(p, evidence) ==
  LET n == p.idle + 1
      still == [p EXCEPT !.idle = n]
  IN  CASE evidence # p.last ->
             [p |-> [last |-> evidence, idle |-> 0, recovery |-> FALSE], action |-> "Continue"]
        [] evidence = p.last /\ ~p.recovery /\ n >= 4 ->
             [p |-> [p EXCEPT !.idle = 0, !.recovery = TRUE], action |-> "RecoverySlice"]
        [] evidence = p.last /\ p.recovery /\ n >= 2 -> [p |-> still, action |-> "Block"]
        [] OTHER -> [p |-> still, action |-> "Continue"]

-----------------------------------------------------------------------------
(* How a run ends *)

NewEngine(session, tools, tries) ==
  [session |-> session, tools |-> tools, tries |-> tries, rounds |-> 0, finalization |-> None,
   fin_rounds |-> 0, tool_calls |-> 0, seen |-> {}, last |-> None, repeated |-> 0, bytes |-> 0,
   input |-> 0, output |-> 0, estimate |-> 0, attempt |-> 1]
NewCounters == [rounds |-> 0, calls |-> 0, ids |-> {}, bytes |-> 0, approvals |-> 0]
NoDigest == [calls |-> <<>>, evidence |-> <<>>]
Ended(kind, error, boundary, same) == [kind |-> kind, error |-> error, boundary |-> boundary, same |-> same]
\* The locals of run_leased are gone, but for what the outcome holds.
Leave(e) ==
  /\ pc' = "end" /\ clock' = 0 /\ cancelled' = FALSE /\ counters' = NewCounters
  /\ batch' = <<>> /\ digest' = NoDigest /\ permit' = None
  /\ engine' = [NewEngine(e.session, e.tools, e.tries) EXCEPT !.input = e.input, !.output = e.output]
\* The future is dropped, and with it the guard of a request that waits.
DropRequest == waiting' = None
FailCharged(error, o) ==
  /\ Leave(NewEngine(engine.session, engine.tools, engine.tries)) /\ DropRequest
  /\ outcome' = Ended("error", error, None, 0) /\ over' = o /\ current' = <<>>
  /\ UNCHANGED <<mode, progress, prompts, goal>>
Fail(error) == FailCharged(error, over)
Checkpoint(boundary, e, o) ==
  /\ Leave(e)
  /\ outcome' = Ended("checkpoint", None, boundary, 0) /\ over' = o
  /\ UNCHANGED <<mode, current, progress, goal, waiting, prompts>>

start_finalization(e, reason) == IF e.finalization = None THEN [e EXCEPT !.finalization = reason] ELSE e

-----------------------------------------------------------------------------
(* A run begins *)

\* limit is None without request_budget; sequence names the executions.
NewGoal(limit) == [current |-> <<>>, summary |-> FALSE, progress |-> FreshProgress, same |-> 0,
                   sequence |-> 0, remaining |-> limit, blocked |-> None]
\* A goal that is resumed: in n slices it read the same once each, and the
\* last two are left of its transcript.
ReadOnce == <<AssistantToolCalls(<<[id |-> 1, tool |-> "read"]>>), ToolResult(1, 2)>>
Stalled(n, limit) ==
  LET tracker[i \in 0 .. n] ==
        IF i = 0 THEN FreshProgress ELSE observe(tracker[i - 1], <<<<"read", "a", None>>>>).p
  IN  [current |-> ReadOnce \o ReadOnce, summary |-> TRUE, progress |-> tracker[n], same |-> n,
       sequence |-> n, remaining |-> limit, blocked |-> None]
GoalsAt(n, limit) == IF n = 0 THEN NewGoal(limit) ELSE Stalled(n, limit)

\* The transcript a slice begins with: the headers come first again.
retain(t) ==
  LET kept[i \in 0 .. Len(t)] ==
        IF i = 0 THEN <<>>
        ELSE IF t[i].kind = "header" THEN kept[i - 1] ELSE Append(kept[i - 1], t[i])
  IN  kept[Len(t)]
Resumed(g) ==
  IF g.current = <<>> THEN <<User>>
  ELSE (IF g.summary THEN <<Header, Header>> ELSE <<Header>>) \o retain(g.current)
Init ==
  /\ \E session \in Sessions, tools \in ToolCalling : engine = NewEngine(session, tools, 1)
  /\ \/ mode = "Legacy" /\ goal = NewGoal(None)
     \/ mode = "DurableSlice" /\ \E n \in Stalls, limit \in Limits : goal = GoalsAt(n, limit)
  /\ pc = "retrieve" /\ outcome = None /\ clock = 0 /\ cancelled = FALSE /\ over = FALSE
  /\ counters = NewCounters /\ current = Resumed(goal)
  /\ batch = <<>> /\ digest = NoDigest /\ progress = goal.progress
  /\ waiting = None /\ prompts = {} /\ permit = None

Retrieve ==
  /\ pc = "retrieve"
  /\ \/ Fail("Retrieval")
     \/ /\ pc' = "top"
        /\ UNCHANGED <<mode, outcome, clock, cancelled, engine, current, progress, goal, over, toolVars>>

Tick ==
  /\ pc \notin {"end", "saved"} /\ clock < 2
  /\ clock' = IF mode = "Legacy" THEN clock + 1 ELSE 2
  /\ UNCHANGED <<mode, pc, outcome, cancelled, engine, current, progress, goal, over, toolVars>>

Cancel ==
  /\ pc # "end" /\ pc # "saved" /\ ~cancelled
  /\ cancelled' = TRUE
  /\ UNCHANGED <<mode, pc, outcome, clock, engine, current, progress, goal, over, toolVars>>

\* Only a wait is interrupted; a turn has a timeout around it, a slice none.
Waits == {"retrieve", "request", "delay", "ask", "exec"}
SeeCancel == pc \in Waits /\ cancelled /\ Fail("Cancelled")
TurnTimeout == pc \in Waits /\ mode = "Legacy" /\ clock = 2 /\ Fail("Timeout")

-----------------------------------------------------------------------------
(* A round *)

\* Mutant: the last round but one may still use tools.
FuseLate == max_model_rounds - engine.rounds < final_synthesis_rounds
ModelRoundFuse == max_model_rounds - engine.rounds <= final_synthesis_rounds
Reason ==
  CASE ModelRoundFuse -> "ModelRoundFuse"
    [] ~ModelRoundFuse /\ engine.tool_calls >= max_tool_calls -> "ToolCallFuse"
    [] ~ModelRoundFuse /\ engine.tool_calls < max_tool_calls /\ clock > 0 -> "TimeReserve"
    [] OTHER -> None
Finalized == IF mode = "Legacy" THEN start_finalization(engine, Reason) ELSE engine

check_active == CASE cancelled -> "Cancelled" [] ~cancelled /\ clock = 2 -> "ToolTimeout" [] OTHER -> None
TimeBoundary == mode = "DurableSlice" /\ engine.rounds > 0 /\ clock = 2

\* begin_model_round
BeginRound ==
  /\ pc = "top"
  /\ \/ TimeBoundary /\ Checkpoint("Time", engine, over)
     \/ ~TimeBoundary /\ check_active # None /\ Fail(check_active)
     \/ /\ ~TimeBoundary /\ check_active = None /\ counters.rounds >= max_model_rounds
        /\ IF mode = "DurableSlice" THEN Checkpoint("RunawayGuard", engine, over) ELSE Fail("model_rounds")
     \/ /\ ~TimeBoundary /\ check_active = None /\ counters.rounds < max_model_rounds
        /\ pc' = "plan"
        /\ counters' = [counters EXCEPT !.rounds = @ + 1]
        /\ engine' = [Finalized EXCEPT !.rounds = @ + 1]
        /\ UNCHANGED <<mode, outcome, clock, cancelled, current, batch, digest, progress, waiting, prompts, permit, goal, over>>

ToolsEnabled == engine.tools /\ engine.finalization = None
Estimate == plan(engine.session, IF engine.finalization = None THEN current ELSE Append(current, System),
                 IF ToolsEnabled THEN 1 ELSE 0)

\* A slice stops before a request that would pass its totals, but not before
\* its first one; a turn keeps a reserve for its answer.
SliceBoundary(estimate) ==
  IF mode = "Legacy" \/ engine.rounds <= 1 THEN None
  ELSE IF engine.input + estimate > max_total_input_tokens THEN "InputTokens"
  ELSE IF engine.output + max_output_tokens > max_total_output_tokens THEN "OutputTokens"
  ELSE None
\* Mutant: no reserve is set aside.
NoReserve(estimate) ==
  IF mode = "DurableSlice" \/ engine.finalization # None THEN None
  ELSE IF engine.input + estimate > max_total_input_tokens THEN "InputTokenReserve"
  ELSE IF engine.output + max_output_tokens > max_total_output_tokens THEN "OutputTokenReserve"
  ELSE None
ReserveReason(estimate) ==
  IF mode = "DurableSlice" \/ engine.finalization # None THEN None
  ELSE IF engine.input + estimate + final_input_token_reserve > max_total_input_tokens THEN "InputTokenReserve"
  ELSE IF engine.output + max_output_tokens + final_output_token_reserve > max_total_output_tokens
       THEN "OutputTokenReserve"
  ELSE None
\* ModelRequestBudget::allows
allows(estimate) == goal.remaining # None => estimate + max_output_tokens <= goal.remaining

Plan ==
  LET estimate == Estimate
      planned == estimate # None /\ SliceBoundary(estimate) = None
      settled == planned /\ ReserveReason(estimate) = None
  IN
  /\ pc = "plan"
  /\ \/ estimate = None /\ Fail("Context")
     \/ estimate # None /\ SliceBoundary(estimate) # None /\ Checkpoint(SliceBoundary(estimate), engine, over)
     \/ /\ planned /\ ReserveReason(estimate) # None
        /\ engine' = start_finalization(engine, ReserveReason(estimate))
        /\ UNCHANGED <<mode, pc, outcome, clock, cancelled, current, progress, goal, over, toolVars>>
     \/ settled /\ ~allows(estimate) /\ Checkpoint("Budget", engine, over)
     \/ /\ settled /\ allows(estimate)
        /\ pc' = "request"
        /\ engine' = [engine EXCEPT !.estimate = estimate, !.attempt = 1,
                                    !.fin_rounds = IF engine.finalization = None THEN @ ELSE @ + 1]
        /\ UNCHANGED <<mode, outcome, clock, cancelled, current, progress, goal, over, toolVars>>

\* respond_with_retry; ModelStream is what happens inside an attempt.
AttemptFails ==
  /\ pc = "request"
  /\ \/ engine.attempt < max_attempts /\ pc' = "delay"
        /\ UNCHANGED <<mode, outcome, clock, cancelled, engine, current, progress, goal, over, toolVars>>
     \/ Fail("Provider")
WakeUp ==
  /\ pc = "delay" /\ pc' = "request"
  /\ engine' = [engine EXCEPT !.attempt = @ + 1]
  /\ UNCHANGED <<mode, outcome, clock, cancelled, current, progress, goal, over, toolVars>>

-----------------------------------------------------------------------------
(* The answer *)

\* What an answer may be charged: little, what was planned for, or, once, more.
Charges ==
  {<<1, 1>>, <<engine.estimate, max_output_tokens>>}
    \cup IF over THEN {} ELSE {<<engine.estimate + 1, max_output_tokens + 1>>}
Charged(c) == [engine EXCEPT !.input = @ + c[1], !.output = @ + c[2]]
Exceeds(c) == over \/ c[1] > engine.estimate \/ c[2] > max_output_tokens
\* accumulate_usage
Affordable(e) == e.input <= max_total_input_tokens /\ e.output <= max_total_output_tokens

Overspends ==
  /\ pc = "request" /\ ~cancelled
  /\ \E c \in Charges : ~Affordable(Charged(c)) /\ FailCharged("tokens", Exceeds(c))

\* validate_final
FinalText ==
  /\ pc = "request" /\ ~cancelled
  /\ \E c \in Charges :
       /\ Affordable(Charged(c))
       /\ \/ FailCharged("InvalidFinal", Exceeds(c))
          \/ /\ Leave(Charged(c)) /\ outcome' = Ended("candidate", None, None, 0) /\ over' = Exceeds(c)
             /\ UNCHANGED <<mode, current, progress, goal, waiting, prompts>>

\* No call at all, one or two with new ids, an id used before or one twice, or
\* more than a run may make.
Call(id, tool) == [id |-> id, tool |-> tool]
Batches ==
  LET new == Cardinality(engine.seen) + 1
  IN  {<<>>, [i \in 1 .. max_tool_calls + 1 |-> Call(new + i, "read")], <<Call(1, "read")>>}
        \cup {<<Call(new, t)>> : t \in Tool \cup {"unknown"}}
        \cup {<<Call(new, t), Call(id, "write")>> : id \in {new, new + 1}, t \in {"read", "write"}}
Ids(calls) == {calls[i].id : i \in DOMAIN calls}
validate_calls(calls) ==
  calls # <<>> /\ Cardinality(Ids(calls)) = Len(calls) /\ Ids(calls) \cap engine.seen = {}

\* Calls although no tool was offered: another try, while rounds are left.
ToolFree(e, o) ==
  IF e.fin_rounds >= final_synthesis_rounds THEN FailCharged("LoopExhausted", o)
  ELSE /\ pc' = "top" /\ engine' = e /\ over' = o /\ current' = Append(current, System)
       /\ UNCHANGED <<mode, outcome, clock, cancelled, progress, goal, toolVars>>
\* More calls than are left: nothing of the batch is executed.
TooMany(e, o) ==
  IF mode = "DurableSlice" THEN Checkpoint("RunawayGuard", e, o)
  ELSE /\ pc' = "top" /\ engine' = start_finalization(e, "ToolCallFuse") /\ over' = o
       /\ UNCHANGED <<mode, outcome, clock, cancelled, current, progress, goal, toolVars>>
TakeBatch(e, o, calls) ==
  /\ pc' = "batch" /\ engine' = [e EXCEPT !.tool_calls = @ + Len(calls)] /\ over' = o
  /\ current' = Append(current, AssistantToolCalls(calls))
  /\ batch' = calls
  /\ UNCHANGED <<mode, outcome, clock, cancelled, progress, goal, counters, digest, waiting, prompts, permit>>

ToolCalls ==
  /\ pc = "request" /\ ~cancelled
  /\ \E c \in Charges, calls \in Batches :
       LET e == [Charged(c) EXCEPT !.seen = @ \cup Ids(calls)]
           o == Exceeds(c)
           fits == engine.tool_calls + Len(calls) <= max_tool_calls
       IN  /\ Affordable(e)
           /\ \/ ~ToolsEnabled /\ ToolFree(Charged(c), o)
              \/ ToolsEnabled /\ ~validate_calls(calls) /\ FailCharged("InvalidToolCall", o)
              \/ ToolsEnabled /\ validate_calls(calls) /\ ~fits /\ TooMany(e, o)
              \/ ToolsEnabled /\ validate_calls(calls) /\ fits /\ TakeBatch(e, o, calls)

-----------------------------------------------------------------------------
(* ToolExecutor::execute *)

This == Head(batch)
\* The result of a call and what it adds to the fingerprints.  The receipt of
\* a write names its execution, so it never repeats between checkpoints.  The
\* texts of refusals and failures are one.
Returned(c, content, receipt, size) ==
  /\ pc' = "batch" /\ batch' = Tail(batch) /\ permit' = None /\ waiting' = None
  /\ counters' = c
  /\ current' = Append(current, ToolResult(This.id, size))
  /\ engine' = [engine EXCEPT !.bytes = @ + size]
  /\ digest' = [calls |-> Append(digest.calls, <<This.tool, content>>),
                evidence |-> Append(digest.evidence, <<This.tool, content, receipt>>)]
  /\ UNCHANGED <<mode, outcome, clock, cancelled, progress, goal, over>>

\* reserve_call
Refusal ==
  CASE check_active # None -> check_active
    [] check_active = None /\ counters.calls >= max_tool_calls -> "tool_calls"
    [] check_active = None /\ counters.calls < max_tool_calls /\ This.id \in counters.ids -> "duplicate_call_id"
    [] OTHER -> None
Reserved == [counters EXCEPT !.calls = @ + 1, !.ids = @ \cup {This.id}]

\* next_approval_id: numbered within the run and its checkpoint
Request == [id |-> <<goal.sequence, counters.approvals + 1>>, call |-> This, tries |-> engine.tries]
Numbered == [Reserved EXCEPT !.approvals = @ + 1]
\* The registry holds no request here (PermissionHeld), so the refusal of an
\* id that is waiting already does not arise.
Ask ==
  /\ pc' = "ask" /\ waiting' = Request /\ prompts' = prompts \cup {Request}
  /\ counters' = Numbered
  /\ UNCHANGED <<mode, outcome, clock, cancelled, engine, current, batch, digest, progress, permit, goal, over>>

Execute ==
  /\ pc = "batch" /\ batch # <<>>
  /\ \/ This.tool \notin Tool /\ Returned(counters, "no", None, 1)
        /\ UNCHANGED prompts
     \/ This.tool \in Tool /\ Refusal # None /\ Fail(Refusal)
     \/ /\ This.tool \in Tool /\ Refusal = None
        /\ \/ Returned(Reserved, "no", None, 1) /\ UNCHANGED prompts     \* the schema
           \/ Decision(This.tool) = "Deny" /\ Returned(Reserved, "no", None, 1) /\ UNCHANGED prompts
           \/ Decision(This.tool) = "Ask" /\ Ask
           \/ /\ Decision(This.tool) = "Allow"
              /\ pc' = "prepare" /\ counters' = Reserved
              /\ UNCHANGED <<mode, outcome, clock, cancelled, engine, current, batch, digest, progress,
                             waiting, prompts, permit, goal, over>>

\* resolve_tool_approval: an answer to a request that waits, or one too late.
\* Mutant: an answer is not matched with its request.
AnyRequest(p) == waiting # None
Awaited(p) == waiting # None /\ waiting.id = p.id
UserAnswers ==
  \E p \in prompts, allow \in BOOLEAN :
    /\ prompts' = prompts \ {p}
    /\ \/ /\ ~Awaited(p)
          /\ UNCHANGED <<mode, pc, outcome, clock, cancelled, engine, counters, current, batch, digest,
                         progress, waiting, permit, goal, over>>
       \/ Awaited(p) /\ ~allow /\ Returned(counters, "no", None, 1)
       \/ /\ Awaited(p) /\ allow
          /\ pc' = "prepare" /\ waiting' = None /\ permit' = p
          /\ UNCHANGED <<mode, outcome, clock, cancelled, engine, counters, current, batch, digest,
                         progress, goal, over>>
ApprovalTimeout == pc = "ask" /\ Fail("ToolTimeout")

\* commit_result_bytes
WithBytes(n) == [counters EXCEPT !.bytes = @ + n]
\* A turn keeps no journal; the one of a goal is on disk.
Prepare ==
  /\ pc = "prepare"
  /\ \/ check_active # None /\ Fail(check_active)
     \/ /\ check_active = None                                       \* prepare_intent fails
        /\ IF counters.bytes + 1 > max_result_bytes THEN Fail("result_bytes")
           ELSE Returned(WithBytes(1), "no", None, 1) /\ UNCHANGED prompts
     \/ check_active = None /\ mode = "DurableSlice" /\ Fail("persistence")
     \/ /\ check_active = None /\ pc' = "exec"
        /\ UNCHANGED <<mode, outcome, clock, cancelled, engine, current, progress, goal, over, toolVars>>

\* The handler's output is cut to what is left for the run.
Output(content, receipt, size) ==
  LET cap == max_result_bytes - counters.bytes
      n == Min({size, cap})
  IN  IF cap = 0 THEN Fail("result_bytes")
      ELSE Returned(WithBytes(n), content, receipt, n) /\ UNCHANGED prompts
Exec ==
  /\ pc = "exec" /\ ~cancelled
  /\ \/ This.tool = "read" /\ \E content \in {"a", "b"} : Output(content, None, 2)
     \/ This.tool # "read" /\ Output("written", <<goal.sequence, This.id>>, 1)
     \/ Output("no", None, 1)
     \/ mode = "DurableSlice" /\ Fail("persistence")
ToolTimeout == pc = "exec" /\ Fail("ToolTimeout")

\* The batch is done: has the run learned anything?
Repeated(e) ==
  IF e.last = digest.calls THEN [e EXCEPT !.repeated = @ + 1]
  ELSE [e EXCEPT !.last = digest.calls, !.repeated = 1]
ProgressBoundary(action) ==
  IF action = "RecoverySlice" THEN "NoProgressRecovery"
  ELSE IF action = "Block" THEN "NoProgressBlocked"
  ELSE IF clock = 2 THEN "Time"
  ELSE IF engine.input >= max_total_input_tokens THEN "InputTokens"
  ELSE IF engine.output >= max_total_output_tokens THEN "OutputTokens"
  ELSE IF engine.bytes >= max_result_bytes THEN "ToolResultBytes"
  ELSE "AtomicStep"
BatchDone ==
  /\ pc = "batch" /\ batch = <<>>
  /\ LET seen == observe(progress, digest.evidence)
         same == IF digest.evidence = progress.last THEN goal.same + 1 ELSE 1
         e == Repeated(engine)
     IN  IF mode = "DurableSlice"
         THEN /\ Leave(engine) /\ progress' = seen.p
              /\ outcome' = Ended("checkpoint", None, ProgressBoundary(seen.action), same)
         ELSE /\ pc' = "top" /\ digest' = NoDigest
              /\ engine' = IF e.repeated >= max_repeated_tool_batches THEN start_finalization(e, "NoProgress") ELSE e
              /\ UNCHANGED <<outcome, progress, clock, cancelled, counters, batch, permit>>
  /\ UNCHANGED <<mode, current, goal, over, waiting, prompts>>

-----------------------------------------------------------------------------
(* From slice to slice: run_goal_inner *)

\* compact_working_set keeps the last two batches.  The request is made if it
\* fits what is left of the budget; its answer may be no use, or charge nothing.
\* Mutant: the cut falls between calls and their results.
KeepPast(t) == 1 + CHOOSE i \in Calls(t) : Cardinality({j \in Calls(t) : j >= i}) = 2
KeepFrom(t) == CHOOSE i \in Calls(t) : Cardinality({j \in Calls(t) : j >= i}) = 2
Kept(t, cost, summary) == [current |-> t, cost |-> cost, summary |-> summary]
CompactionQuote == 3
Compactions(t, left) ==
  {Kept(t, 0, FALSE)} \cup
  IF Cardinality(Calls(t)) > 2 /\ CompactionQuote <= left
  THEN {Kept(t, 2, FALSE), Kept(SubSeq(t, KeepFrom(t), Len(t)), 2, TRUE)} ELSE {}
\* Totals kept over several steps may end a slice that did not end itself.
Promoted(boundary) == IF boundary = "AtomicStep" THEN {"AtomicStep", "InputTokens"} ELSE {boundary}
Blocks == {"NoProgressBlocked", "RunawayGuard"}
\* What the budget leaves after the slice, below 0 when it was overspent.
request_budget == goal.remaining - engine.input - engine.output
Save ==
  LET left == request_budget IN
  /\ pc = "end" /\ outcome.kind = "checkpoint"
  /\ \E boundary \in Promoted(outcome.boundary) :
     \E kept \in IF boundary \in {"AtomicStep", "Budget"} THEN {Kept(current, 0, FALSE)} ELSE Compactions(current, left) :
       goal' = [current |-> IF boundary = "NoProgressRecovery" THEN Append(kept.current, System) ELSE kept.current,
                summary |-> goal.summary \/ kept.summary,
                progress |-> progress, same |-> IF outcome.same = 0 THEN goal.same ELSE outcome.same,
                sequence |-> goal.sequence + 1, remaining |-> left - kept.cost,
                blocked |-> IF boundary \in Blocks THEN boundary ELSE None]
  /\ pc' = "saved" /\ engine' = NewEngine(engine.session, engine.tools, engine.tries)
  /\ UNCHANGED <<mode, outcome, clock, cancelled, current, progress, over, toolVars>>

\* The next slice begins from what was saved last: the loop goes on, or the
\* user resumes a goal that failed or was blocked, unless its budget is spent
\* (extend_agent_budget is GoalRuntime's).  A request of an earlier checkpoint
\* has an id no later one can have, so its late answer is left out: it is
\* refused.
NextSlice ==
  /\ mode = "DurableSlice"
  /\ goal.remaining > 0 /\ engine.tries < MaxTries /\ Len(goal.current) <= MaxItems
  /\ \/ pc = "saved" /\ prompts' = {}
     \/ pc = "end" /\ outcome.kind = "error" /\ outcome.error # "Cancelled" /\ UNCHANGED prompts
  /\ engine' = NewEngine(engine.session, engine.tools, engine.tries + 1)
  /\ pc' = "retrieve" /\ outcome' = None
  /\ current' = Resumed(goal) /\ progress' = goal.progress
  /\ UNCHANGED <<mode, clock, cancelled, counters, batch, digest, waiting, permit, goal, over>>

-----------------------------------------------------------------------------
Round == BeginRound \/ Plan \/ AttemptFails \/ WakeUp \/ Overspends \/ FinalText \/ ToolCalls
Batch == Execute \/ UserAnswers \/ ApprovalTimeout \/ Prepare \/ Exec \/ ToolTimeout \/ BatchDone
Next == Retrieve \/ Tick \/ Cancel \/ SeeCancel \/ TurnTimeout \/ Round \/ Batch \/ Save \/ NextSlice

Spec == Init /\ [][Next]_vars

-----------------------------------------------------------------------------
(* Properties *)

\* The counts of the engine stop a run before the fuses of the tool runtime
\* blow: a turn always reaches its tool-free rounds ("kept free for a clean,
\* tool-free final answer before the emergency model-round fuse is reached",
\* AgentLoopPolicy), and no call the engine let through is refused as one too
\* many or as known (validate_calls, reserve_call).
FusesHold ==
  outcome # None /\ outcome.kind = "error" =>
    outcome.error \notin {"tool_calls", "duplicate_call_id", "model_rounds"}

\* As long as the provider charges no more than was estimated, a turn that
\* turns to its answer still has the reserve "kept available for final
\* synthesis" (AgentLoopPolicy), and a goal is not charged past its budget
\* (ModelRequestBudget::allows).  The latter for a provider with tools, whose
\* slices make one request: the budget is not read again within a slice.
ReserveKept ==
  ~over =>
    /\ mode = "Legacy" /\ engine.finalization # None /\ engine.fin_rounds = 0 =>
         /\ engine.input + final_input_token_reserve <= max_total_input_tokens
         /\ engine.output + final_output_token_reserve <= max_total_output_tokens
    /\ mode = "DurableSlice" /\ engine.tools => goal.remaining >= 0

\* The id of the last request of this try.
AskedAs == <<goal.sequence, counters.approvals>>
Asks(tool) == "Ask" \in {BuiltinPolicy[tool], local_agent_policy[tool]}
\* A tool runs only if neither policy denies it and, where one asks, the user
\* allowed the id this call was asked under, for this very call.  "Approval
\* applies to exactly one (run_id, call_id, approval_id)", says the design
\* (docs/superpowers/specs/2026-08-18-agent-platform-v2-tool-runtime-design.md,
\* line 111), and the code deviates in one case, the exception: ids repeat when
\* a slice is tried again, so what was allowed may be the call that a failed
\* try had asked for under this id.  A request waits only while its run waits
\* for it (restrict_decision, ToolApprovalRegistry, PendingGuard).
PermissionHeld ==
  /\ pc = "exec" =>
       /\ "Deny" \notin {BuiltinPolicy[This.tool], local_agent_policy[This.tool]}
       /\ Asks(This.tool) =>
            /\ permit # None /\ permit.id = AskedAs
            /\ permit.call = This \/ permit.tries < engine.tries
  /\ waiting # None =>
       pc = "ask" /\ waiting.id = AskedAs /\ waiting.call = This /\ waiting.tries = engine.tries

\* Every call in a transcript is followed by its results, in order, and every
\* result is one of those.
Paired(t) ==
  /\ \A i \in Calls(t) : \A j \in DOMAIN t[i].ids :
       i + j <= Len(t) /\ t[i + j].kind = "result" /\ t[i + j].ids = <<t[i].ids[j]>>
  /\ \A r \in DOMAIN t : t[r].kind = "result" => \E i \in Calls(t) : r - i \in DOMAIN t[i].ids

\* What a slice hands on can be gone on with: a transcript the model is sent
\* or a checkpoint keeps has a result for every call, compacted or not
\* (compact_working_set).
SlicesGoOn == pc \in {"request", "saved"} => Paired(current) /\ Paired(goal.current)

\* A goal that learns nothing, over whatever slices, failures and resumptions,
\* gets its recovery slice after five equal batches and is blocked after seven
\* (ProgressTracker, saved with every checkpoint).
StallsEnd ==
  outcome # None /\ outcome.kind = "checkpoint" =>
    /\ outcome.boundary = "NoProgressRecovery" <=> outcome.same = 5
    /\ outcome.boundary = "NoProgressBlocked" <=> outcome.same >= 7

=============================================================================
