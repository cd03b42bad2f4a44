-------------------------- MODULE SessionLoopProofs --------------------------
(***************************************************************************)
(* Proofs about SessionLoop for any configuration of the engine, sessions  *)
(* and budgets: no tool runs that the policies deny or the user was not    *)
(* asked for, the counts of the engine stop a run before the fuses of the  *)
(* tool runtime blow, reserves and budgets are kept, a goal that learns    *)
(* nothing is blocked, and transcripts that are handed on are paired.      *)
(***************************************************************************)
EXTENDS SessionLoop, FiniteSetTheorems, SequenceTheorems, WellFoundedInduction, TLAPS

-----------------------------------------------------------------------------
(* The invariant *)

EngineFields ==
    {"session", "tools", "tries", "rounds", "finalization", "fin_rounds", "tool_calls", "seen", "last",
     "repeated", "bytes", "input", "output", "estimate", "attempt"}
CounterFields == {"rounds", "calls", "ids", "bytes", "approvals"}

EngineOk(e) ==
    /\ DOMAIN e = EngineFields
    /\ e.tries \in Nat /\ e.rounds \in Nat /\ e.fin_rounds \in Nat /\ e.tool_calls \in Nat
    /\ e.seen \subseteq Nat /\ IsFiniteSet(e.seen)
CountersOk(c) ==
    /\ DOMAIN c = CounterFields
    /\ c.rounds \in Nat /\ c.calls \in Nat /\ c.approvals \in Nat

(* The types of what the properties need: what is charged and the            *)
(* transcript are left open.                                                 *)
Types ==
    /\ mode \in {"Legacy", "DurableSlice"}
    /\ EngineOk(engine) /\ CountersOk(counters)
    /\ batch \in Seq(ToolCall) /\ prompts \subseteq ApprovalRequest
    /\ goal.sequence \in Nat

(* Where a run asks the model, and where it executes what was asked for; the *)
(* first call of a batch is reserved while it waits for an answer, is        *)
(* prepared or executed.                                                     *)
Asking == {"retrieve", "top", "plan", "request", "delay"}
Holding == {"ask", "prepare", "exec"}
Executing == {"batch"} \cup Holding
InRun == pc \in Asking \cup Executing

(* The rounds of the tool runtime are the engine's, and once the tools are   *)
(* off they are counted twice: there are as many as there are answers to try.*)
RoundsLeft ==
    /\ InRun \/ pc \in {"end", "saved"}
    /\ ~InRun => counters = NewCounters
    /\ InRun => counters.rounds = engine.rounds
    /\ mode = "Legacy" /\ InRun =>
         /\ engine.finalization = None =>
              engine.fin_rounds = 0 /\ engine.rounds <= max_model_rounds - final_synthesis_rounds
         /\ engine.finalization # None =>
              /\ pc \in Asking \ {"retrieve"}
              /\ pc = "top" => engine.fin_rounds < final_synthesis_rounds
              /\ pc = "plan" => engine.rounds <= max_model_rounds - final_synthesis_rounds + engine.fin_rounds + 1
              /\ pc # "plan" => engine.rounds <= max_model_rounds - final_synthesis_rounds + engine.fin_rounds

(* The calls the tool runtime has reserved and those that are left are no    *)
(* more than the engine let through.                                         *)
CallsLeft ==
    /\ engine.tool_calls <= max_tool_calls
    /\ InRun => counters.calls <= engine.tool_calls
    /\ pc \in Holding => batch # <<>> /\ counters.calls + Len(batch) <= engine.tool_calls + 1
    /\ pc = "batch" => counters.calls + Len(batch) <= engine.tool_calls

(* No call that is left has an id that is known.                             *)
IdsLeft ==
    /\ InRun => counters.ids \subseteq engine.seen
    /\ pc \in Executing =>
         /\ \A i \in DOMAIN batch : batch[i].id \in engine.seen
         /\ \A i, j \in DOMAIN batch : batch[i].id = batch[j].id => i = j
    /\ pc \in Holding => \A i \in DOMAIN batch : i > 1 => batch[i].id \notin counters.ids
    /\ pc = "batch" => \A i \in DOMAIN batch : batch[i].id \notin counters.ids

(* A request waits only while its run waits for it; among the requests that  *)
(* were shown, those of this try are numbered.                               *)
RequestsSound ==
    /\ waiting # None =>
         /\ pc = "ask" /\ waiting.id = AskedAs /\ waiting.call = This /\ waiting.tries = engine.tries
         /\ \A p \in prompts : p.id = waiting.id /\ p.tries = engine.tries => p.call = This
    /\ \A p \in prompts : p.tries <= engine.tries
    /\ InRun => \A p \in prompts : p.tries = engine.tries => p.id[2] <= counters.approvals

(* A call that waits is one to ask for, and one that is executed is allowed  *)
(* by the policies or by an answer.                                          *)
Allowed(tool, p) ==
    /\ Decision(tool) # "Deny"
    /\ Decision(tool) = "Ask" =>
         p # None /\ p.id = AskedAs /\ (p.call = This \/ p.tries < engine.tries)
CallsPermitted ==
    /\ pc = "ask" => This.tool \in Tool /\ Decision(This.tool) = "Ask"
    /\ pc \in {"prepare", "exec"} => This.tool \in Tool /\ Allowed(This.tool, permit)

LoopInv == Types /\ RoundsLeft /\ CallsLeft /\ IdsLeft /\ RequestsSound /\ CallsPermitted /\ FusesHold
-----------------------------------------------------------------------------
(* The operators *)

(* A number of rounds, of calls and of slices.                               *)
LEMMA Bounds ==
    /\ max_model_rounds \in Nat /\ max_tool_calls \in Nat
    /\ final_synthesis_rounds \in Nat \ {0} /\ final_synthesis_rounds <= max_model_rounds
  BY ConfigAssumption DEF ValidConfig

(* A tool that is not denied is denied by neither policy, and one that       *)
(* neither denies and one asks for is asked for.                             *)
LEMMA Restricts ==
    ASSUME NEW tool \in Tool, Decision(tool) # "Deny"
    PROVE  /\ "Deny" \notin {BuiltinPolicy[tool], local_agent_policy[tool]}
           /\ "Ask" \in {BuiltinPolicy[tool], local_agent_policy[tool]} => Decision(tool) = "Ask"
<1>1. evaluate(BuiltinPolicy, tool) = BuiltinPolicy[tool] /\ evaluate(local_agent_policy, tool) = local_agent_policy[tool]
  BY DEF Tool, evaluate, BuiltinPolicy, local_agent_policy
<1>2. ASSUME NEW a, NEW b, restrict_decision(a, b) # "Deny"
      PROVE  "Deny" \notin {a, b} /\ ("Ask" \in {a, b} => restrict_decision(a, b) = "Ask")
  <2>1. CASE "Deny" \in {a, b}
    BY <1>2, <2>1 DEF restrict_decision
  <2>2. CASE "Deny" \notin {a, b} /\ "Ask" \in {a, b}
    BY <2>2 DEF restrict_decision
  <2> QED BY <2>1, <2>2
<1> QED BY <1>1, <1>2 DEF Decision

(* The run begins with nothing counted, whatever it begins with.             *)
LEMMA NewEngineOk ==
    ASSUME NEW session, NEW tools, NEW tries \in Nat
    PROVE  LET e == NewEngine(session, tools, tries)
           IN  /\ EngineOk(e) /\ e.tries = tries /\ e.rounds = 0 /\ e.finalization = None
               /\ e.fin_rounds = 0 /\ e.tool_calls = 0 /\ e.seen = {}
               /\ e.session = session /\ e.tools = tools
<1>1. DOMAIN NewEngine(session, tools, tries) = EngineFields
  BY DEF NewEngine, EngineFields
<1> QED BY <1>1, FS_EmptySet DEF NewEngine, EngineOk

LEMMA NewCountersOk ==
    /\ CountersOk(NewCounters) /\ NewCounters.rounds = 0 /\ NewCounters.calls = 0
    /\ NewCounters.ids = {} /\ NewCounters.approvals = 0
  BY DEF NewCounters, CountersOk, CounterFields

(* A reason turns the run to its answer, unless it is turned already.        *)
LEMMA Finalizes ==
    ASSUME NEW e, EngineOk(e), NEW reason
    PROVE  LET f == start_finalization(e, reason)
           IN  /\ EngineOk(f) /\ f.tries = e.tries /\ f.rounds = e.rounds /\ f.fin_rounds = e.fin_rounds
               /\ f.tool_calls = e.tool_calls /\ f.seen = e.seen
               /\ f.finalization = IF e.finalization = None THEN reason ELSE e.finalization
  BY DEF start_finalization, EngineOk, EngineFields

(* What is charged is no count of the engine.                                *)
LEMMA ChargedKeeps ==
    ASSUME EngineOk(engine), NEW c
    PROVE  /\ EngineOk(Charged(c)) /\ Charged(c).tries = engine.tries /\ Charged(c).rounds = engine.rounds
           /\ Charged(c).fin_rounds = engine.fin_rounds /\ Charged(c).tool_calls = engine.tool_calls
           /\ Charged(c).seen = engine.seen /\ Charged(c).finalization = engine.finalization
  BY DEF Charged, EngineOk, EngineFields

(* The calls of an answer, and their ids.                                    *)
LEMMA BatchesAreCalls == EngineOk(engine) => Batches \subseteq Seq(ToolCall)
<1> SUFFICES ASSUME EngineOk(engine) PROVE Batches \subseteq Seq(ToolCall)
  OBVIOUS
<1> DEFINE new == Cardinality(engine.seen) + 1
<1>1. new \in Nat
  BY FS_CardinalityType DEF EngineOk
<1> HIDE DEF new
<1>2. \A id \in Nat, t \in Tool \cup {"unknown"} : Call(id, t) \in ToolCall
  BY DEF Call, ToolCall
<1>3. "read" \in Tool /\ "write" \in Tool
  BY DEF Tool
<1>4. [i \in 1 .. max_tool_calls + 1 |-> Call(new + i, "read")] \in Seq(ToolCall)
  <2>1. max_tool_calls + 1 \in Nat /\ \A i \in 1 .. max_tool_calls + 1 : Call(new + i, "read") \in ToolCall
    BY <1>1, <1>2, <1>3, Bounds
  <2> QED BY <2>1, IsASeq
<1>5. <<>> \in Seq(ToolCall) /\ <<Call(1, "read")>> \in Seq(ToolCall)
  BY <1>2, <1>3
<1>6. \A t \in Tool \cup {"unknown"} : <<Call(new, t)>> \in Seq(ToolCall)
  BY <1>1, <1>2
<1>7. \A id \in {new, new + 1}, t \in {"read", "write"} : <<Call(new, t), Call(id, "write")>> \in Seq(ToolCall)
  BY <1>1, <1>2, <1>3
<1> DEFINE most == [i \in 1 .. max_tool_calls + 1 |-> Call(new + i, "read")]
           S == Seq(ToolCall)
<1>8. \A calls \in Batches :
         \/ calls \in {<<>>, most, <<Call(1, "read")>>}
         \/ \E t \in Tool \cup {"unknown"} : calls = <<Call(new, t)>>
         \/ \E id \in {new, new + 1}, t \in {"read", "write"} : calls = <<Call(new, t), Call(id, "write")>>
  BY DEF Batches, new
<1>9. most \in S /\ <<>> \in S /\ <<Call(1, "read")>> \in S
  BY <1>4, <1>5
<1>10. /\ \A t \in Tool \cup {"unknown"} : <<Call(new, t)>> \in S
       /\ \A id \in {new, new + 1}, t \in {"read", "write"} : <<Call(new, t), Call(id, "write")>> \in S
  BY <1>6, <1>7
<1> HIDE DEF most, S
<1>11. \A calls \in Batches : calls \in S
  BY <1>8, <1>9, <1>10
<1> QED BY <1>11 DEF S

LEMMA IdsAreFinite ==
    ASSUME NEW calls \in Seq(ToolCall)
    PROVE  Ids(calls) \subseteq Nat /\ IsFiniteSet(Ids(calls))
<1>1. DOMAIN calls = 1 .. Len(calls) /\ Len(calls) \in Nat
  BY LenProperties
<1>2. \A i \in DOMAIN calls : calls[i].id \in Nat
  <2> TAKE i \in DOMAIN calls
  <2>1. calls[i] \in ToolCall
    BY <1>1, ElementOfSeq
  <2> QED BY <2>1 DEF ToolCall
<1> DEFINE f == [i \in 1 .. Len(calls) |-> calls[i].id]
<1>3. f \in Surjection(1 .. Len(calls), Ids(calls))
  BY <1>1 DEF Surjection, Ids
<1>4. IsFiniteSet(1 .. Len(calls))
  BY <1>1, FS_Interval
<1>5. IsFiniteSet(Ids(calls))
  BY <1>3, <1>4, FS_Surjection
<1> QED BY <1>2, <1>5 DEF Ids

(* validate_calls: as many ids as calls are ids of their own.                *)
LEMMA ValidatedAreDistinct ==
    ASSUME NEW calls \in Seq(ToolCall), validate_calls(calls)
    PROVE  /\ calls # <<>> /\ Ids(calls) \cap engine.seen = {}
           /\ \A i, j \in DOMAIN calls : calls[i].id = calls[j].id => i = j
<1>1. DOMAIN calls = 1 .. Len(calls) /\ Len(calls) \in Nat
  BY LenProperties
<1> DEFINE f == [i \in 1 .. Len(calls) |-> calls[i].id]
<1>2. f \in Surjection(1 .. Len(calls), Ids(calls))
  BY <1>1 DEF Surjection, Ids
<1>3. IsFiniteSet(1 .. Len(calls)) /\ Cardinality(1 .. Len(calls)) = Len(calls)
  BY <1>1, FS_Interval
<1>4. Cardinality(Ids(calls)) = Cardinality(1 .. Len(calls))
  BY <1>3 DEF validate_calls
<1>5. f \in Injection(1 .. Len(calls), Ids(calls))
  BY <1>2, <1>3, <1>4, FS_SurjSameCardinalityImpliesInj
<1>6. \A i, j \in DOMAIN calls : calls[i].id = calls[j].id => i = j
  BY <1>1, <1>5 DEF Injection, IsInjective
<1> QED BY <1>6 DEF validate_calls

-----------------------------------------------------------------------------
(* How a run moves *)

(* Nothing of this changes when time passes, the user cancels or drops a     *)
(* request that is no longer waited for.                                     *)
LEMMA LoopStays ==
    ASSUME LoopInv, prompts' \subseteq prompts,
           UNCHANGED <<mode, pc, outcome, engine, counters, batch, waiting, permit, goal>>
    PROVE  LoopInv'
<1>1. Types'
  BY DEF LoopInv, Types
<1>2. RequestsSound'
  BY DEF LoopInv, RequestsSound, InRun, This, AskedAs
<1>3. RoundsLeft' /\ CallsLeft' /\ IdsLeft'
  BY DEF LoopInv, RoundsLeft, CallsLeft, IdsLeft, InRun
<1>4. CallsPermitted'
  BY DEF LoopInv, CallsPermitted, Allowed, This, AskedAs
<1>5. FusesHold'
  BY DEF LoopInv, FusesHold
<1> QED BY <1>1, <1>2, <1>3, <1>4, <1>5 DEF LoopInv

(* A run that is over, however it ends, leaves no count, no call and no      *)
(* request behind.                                                           *)
LEMMA RunEnds ==
    ASSUME LoopInv, NEW e, e.tries = engine.tries, Leave(e), waiting' = None,
           prompts' = prompts, mode' = mode, goal' = goal, FusesHold'
    PROVE  LoopInv'
<1> DEFINE n == NewEngine(e.session, e.tools, e.tries)
<1>1. engine.tries \in Nat
  BY DEF LoopInv, Types, EngineOk
<1>2. /\ EngineOk(n) /\ n.tries = engine.tries /\ n.tool_calls = 0
  BY <1>1, NewEngineOk
<1>3. engine' = [n EXCEPT !.input = e.input, !.output = e.output]
  BY DEF Leave
<1> HIDE DEF n
<1>4. EngineOk(engine') /\ engine'.tries = engine.tries /\ engine'.tool_calls = 0
  BY <1>2, <1>3 DEF EngineOk, EngineFields
<1>5. pc' = "end" /\ counters' = NewCounters /\ batch' = <<>>
  BY DEF Leave
<1>6. Types'
  BY <1>4, <1>5, NewCountersOk DEF LoopInv, Types
<1>7. ~InRun' /\ pc' \notin Executing /\ pc' \notin Holding
  BY <1>5 DEF InRun, Asking, Executing, Holding
<1>8. RoundsLeft' /\ CallsLeft' /\ IdsLeft'
  BY <1>4, <1>5, <1>7, Bounds DEF RoundsLeft, CallsLeft, IdsLeft, Holding
<1>9. RequestsSound' /\ CallsPermitted'
  BY <1>4, <1>5, <1>7 DEF LoopInv, RequestsSound, CallsPermitted
<1> QED BY <1>6, <1>8, <1>9 DEF LoopInv

(* An error that is none of the fuses.                                       *)
LEMMA FailKeeps ==
    ASSUME LoopInv, NEW error, NEW o, error \notin {"tool_calls", "duplicate_call_id", "model_rounds"},
           FailCharged(error, o)
    PROVE  LoopInv'
<1> DEFINE e == NewEngine(engine.session, engine.tools, engine.tries)
<1>1. engine.tries \in Nat
  BY DEF LoopInv, Types, EngineOk
<1>2. e.tries = engine.tries
  BY <1>1, NewEngineOk
<1>3. Leave(e) /\ waiting' = None /\ prompts' = prompts /\ mode' = mode /\ goal' = goal
  BY DEF FailCharged, DropRequest
<1>4. outcome' = Ended("error", error, None, 0)
  BY DEF FailCharged
<1>5. FusesHold'
  BY <1>4 DEF FusesHold, Ended
<1> HIDE DEF e
<1> QED BY <1>2, <1>3, <1>5, RunEnds

(* A checkpoint, where no request waits.                                     *)
LEMMA CheckpointKeeps ==
    ASSUME LoopInv, NEW boundary, NEW e, NEW o, e.tries = engine.tries, waiting = None,
           Checkpoint(boundary, e, o)
    PROVE  LoopInv'
<1>1. Leave(e) /\ waiting' = None /\ prompts' = prompts /\ mode' = mode /\ goal' = goal
  BY DEF Checkpoint
<1>2. outcome' = Ended("checkpoint", None, boundary, 0)
  BY DEF Checkpoint
<1>3. FusesHold'
  BY <1>2 DEF FusesHold, Ended
<1> QED BY <1>1, <1>3, RunEnds

(* A run that goes on asking the model has nothing to execute.               *)
LEMMA AskingGoesOn ==
    ASSUME LoopInv, pc \in Asking \cup {"batch"}, pc' \in Asking, EngineOk(engine'), CountersOk(counters'), RoundsLeft',
           engine'.tries = engine.tries, engine'.tool_calls = engine.tool_calls,
           engine.seen \subseteq engine'.seen,
           counters'.calls = counters.calls, counters'.ids = counters.ids,
           counters'.approvals = counters.approvals,
           UNCHANGED <<mode, outcome, batch, waiting, prompts, permit, goal>>
    PROVE  LoopInv'
<1>1. InRun /\ InRun' /\ pc' \notin Executing /\ pc' \notin Holding /\ pc' \notin {"ask", "prepare", "exec", "batch"} /\ pc # "ask"
  BY DEF InRun, Asking, Executing, Holding
<1>2. Types'
  BY DEF LoopInv, Types
<1>3. CallsLeft'
  BY <1>1 DEF LoopInv, CallsLeft
<1>4. IdsLeft'
  BY <1>1 DEF LoopInv, IdsLeft
<1>5. RequestsSound'
  BY <1>1 DEF LoopInv, RequestsSound
<1>6. CallsPermitted'
  BY <1>1 DEF CallsPermitted
<1>7. FusesHold'
  BY DEF LoopInv, FusesHold
<1> QED BY <1>2, <1>3, <1>4, <1>5, <1>6, <1>7 DEF LoopInv

-----------------------------------------------------------------------------
(* The rounds *)

(* The limits of the tool runtime that every step of it looks at first.      *)
LEMMA ActiveErrors == check_active \in {None, "Cancelled", "ToolTimeout"}
  BY DEF check_active

(* No request waits but for the run that waits for its answer.               *)
LEMMA NothingWaits == LoopInv /\ pc # "ask" => waiting = None
  BY DEF LoopInv, RequestsSound

LEMMA InitSound == Init => LoopInv
<1> SUFFICES ASSUME Init PROVE LoopInv
  OBVIOUS
<1>1. PICK session, tools : engine = NewEngine(session, tools, 1)
  BY DEF Init
<1>2. /\ EngineOk(engine) /\ engine.tries = 1 /\ engine.rounds = 0 /\ engine.finalization = None
      /\ engine.fin_rounds = 0 /\ engine.tool_calls = 0 /\ engine.seen = {}
  BY <1>1, NewEngineOk
<1>3. /\ pc = "retrieve" /\ outcome = None /\ counters = NewCounters /\ batch = <<>>
      /\ waiting = None /\ prompts = {} /\ mode \in {"Legacy", "DurableSlice"}
  BY DEF Init
<1>4. goal.sequence \in Nat
  <2>1. CASE goal = NewGoal(None)
    BY <2>1 DEF NewGoal
  <2>2. CASE \E n \in Stalls, limit \in Limits : goal = GoalsAt(n, limit)
    <3>1. PICK n \in Stalls, limit \in Limits : goal = GoalsAt(n, limit)
      BY <2>2
    <3>2. n \in Nat
      BY ConfigAssumption
    <3>3. CASE n = 0
      BY <3>1, <3>3 DEF GoalsAt, NewGoal
    <3>4. CASE n # 0
      BY <3>1, <3>2, <3>4 DEF GoalsAt, Stalled
    <3> QED BY <3>3, <3>4
  <2> QED BY <2>1, <2>2 DEF Init
<1>5. InRun /\ pc \notin Executing /\ pc \notin Holding
  BY <1>3 DEF InRun, Asking, Executing, Holding
<1>6. Types
  BY <1>2, <1>3, <1>4, NewCountersOk DEF Types
<1>7. RoundsLeft
  BY <1>2, <1>3, <1>5, NewCountersOk, Bounds DEF RoundsLeft
<1>8. CallsLeft /\ IdsLeft
  BY <1>2, <1>3, <1>5, NewCountersOk, Bounds DEF CallsLeft, IdsLeft
<1>9. RequestsSound /\ CallsPermitted /\ FusesHold
  BY <1>3 DEF RequestsSound, CallsPermitted, FusesHold
<1> QED BY <1>6, <1>7, <1>8, <1>9 DEF LoopInv

LEMMA RetrieveKeeps == LoopInv /\ Retrieve => LoopInv'
<1> SUFFICES ASSUME LoopInv, Retrieve PROVE LoopInv'
  OBVIOUS
<1>1. CASE Fail("Retrieval")
  BY <1>1, FailKeeps DEF Fail
<1>2. CASE pc' = "top" /\ UNCHANGED <<mode, outcome, clock, cancelled, engine, current, progress, goal, over, toolVars>>
  <2>1. pc = "retrieve"
    BY DEF Retrieve
  <2>2. UNCHANGED <<mode, outcome, engine, goal, counters, batch, waiting, prompts, permit>>
    BY <1>2 DEF toolVars
  <2>3. pc \in Asking /\ pc' \in Asking /\ InRun /\ InRun'
    BY <1>2, <2>1 DEF Asking, InRun
  <2>4. EngineOk(engine') /\ CountersOk(counters')
    BY <2>2 DEF LoopInv, Types
  <2>5. RoundsLeft'
    BY <1>2, <2>1, <2>2, <2>3 DEF LoopInv, RoundsLeft
  <2> QED BY <2>2, <2>3, <2>4, <2>5, AskingGoesOn
<1> QED BY <1>1, <1>2 DEF Retrieve

(* A round is begun as long as there is one: those of the turn that is       *)
(* turned to its answer are counted with the rounds it had left.             *)
LEMMA BeginRoundKeeps == LoopInv /\ BeginRound => LoopInv'
<1> SUFFICES ASSUME LoopInv, BeginRound PROVE LoopInv'
  OBVIOUS
<1>1. pc = "top" /\ waiting = None /\ InRun /\ pc \in Asking
  BY NothingWaits DEF BeginRound, InRun, Asking
<1>2. EngineOk(engine) /\ CountersOk(counters) /\ counters.rounds = engine.rounds /\ mode \in {"Legacy", "DurableSlice"}
  BY <1>1 DEF LoopInv, Types, RoundsLeft
<1>3. engine.rounds \in Nat /\ engine.fin_rounds \in Nat
  BY <1>2 DEF EngineOk
<1>4. CASE Checkpoint("Time", engine, over)
  BY <1>1, <1>4, CheckpointKeeps
<1>5. CASE check_active # None /\ Fail(check_active)
  <2>1. check_active \notin {"tool_calls", "duplicate_call_id", "model_rounds"}
    BY <1>5, ActiveErrors
  <2> QED BY <1>5, <2>1, FailKeeps DEF Fail
<1>6. CASE /\ counters.rounds >= max_model_rounds
           /\ IF mode = "DurableSlice" THEN Checkpoint("RunawayGuard", engine, over) ELSE Fail("model_rounds")
  <2>1. CASE mode = "DurableSlice"
    BY <1>1, <1>6, <2>1, CheckpointKeeps
  <2>2. CASE mode = "Legacy"
    <3>1. engine.rounds < max_model_rounds
      <4>1. CASE engine.finalization = None
        BY <1>1, <1>3, <2>2, <4>1, Bounds DEF LoopInv, RoundsLeft
      <4>2. CASE engine.finalization # None
        <5>1. /\ engine.fin_rounds < final_synthesis_rounds
              /\ engine.rounds <= max_model_rounds - final_synthesis_rounds + engine.fin_rounds
          BY <1>1, <1>3, <2>2, <4>2 DEF LoopInv, RoundsLeft
        <5> QED BY <1>3, <5>1, Bounds
      <4> QED BY <4>1, <4>2
    <3> QED BY <1>2, <1>3, <1>6, <3>1, Bounds
  <2> QED BY <1>2, <2>1, <2>2
<1>7. CASE /\ pc' = "plan"
           /\ counters' = [counters EXCEPT !.rounds = @ + 1]
           /\ engine' = [Finalized EXCEPT !.rounds = @ + 1]
           /\ UNCHANGED <<mode, outcome, batch, waiting, prompts, permit, goal>>
  <2>1. /\ EngineOk(Finalized) /\ Finalized.tries = engine.tries /\ Finalized.rounds = engine.rounds
        /\ Finalized.fin_rounds = engine.fin_rounds /\ Finalized.tool_calls = engine.tool_calls
        /\ Finalized.seen = engine.seen
    BY <1>2, Finalizes DEF Finalized
  <2>2. mode = "Legacy" => Finalized.finalization = IF engine.finalization = None THEN Reason ELSE engine.finalization
    BY <1>2, Finalizes DEF Finalized
  <2> HIDE DEF Finalized
  <2>3. /\ EngineOk(engine') /\ engine'.tries = engine.tries /\ engine'.rounds = engine.rounds + 1
        /\ engine'.fin_rounds = engine.fin_rounds /\ engine'.tool_calls = engine.tool_calls
        /\ engine'.seen = engine.seen /\ engine'.finalization = Finalized.finalization
    BY <1>3, <1>7, <2>1 DEF EngineOk, EngineFields
  <2>4. /\ CountersOk(counters') /\ counters'.rounds = counters.rounds + 1 /\ counters'.calls = counters.calls
        /\ counters'.ids = counters.ids /\ counters'.approvals = counters.approvals
    BY <1>2, <1>7 DEF CountersOk, CounterFields
  <2>5. pc' \in Asking \ {"retrieve"} /\ InRun'
    BY <1>7 DEF Asking, InRun
  <2>6. Reason = None => engine.rounds + 1 <= max_model_rounds - final_synthesis_rounds
    <3>1. ASSUME Reason = None PROVE ~ModelRoundFuse
      <4>1. ModelRoundFuse => Reason = "ModelRoundFuse"
        BY DEF Reason
      <4>2. "ModelRoundFuse" # None
        BY NoneAssumption DEF FinalizationReason
      <4> QED BY <3>1, <4>1, <4>2
    <3> QED BY <1>3, <3>1, Bounds DEF ModelRoundFuse
  <2>7. RoundsLeft'
    <3>1. ASSUME mode = "Legacy", engine'.finalization = None
          PROVE  engine'.fin_rounds = 0 /\ engine'.rounds <= max_model_rounds - final_synthesis_rounds
      <4>1. engine.finalization = None /\ Reason = None
        BY <2>2, <2>3, <3>1
      <4> QED BY <1>1, <2>3, <2>6, <3>1, <4>1 DEF LoopInv, RoundsLeft
    <3>2. ASSUME mode = "Legacy", engine'.finalization # None
          PROVE  engine'.rounds <= max_model_rounds - final_synthesis_rounds + engine'.fin_rounds + 1
      <4>1. CASE engine.finalization = None
        BY <1>1, <1>3, <2>3, <3>2, <4>1, Bounds DEF LoopInv, RoundsLeft
      <4>2. CASE engine.finalization # None
        BY <1>1, <1>3, <2>3, <3>2, <4>2, Bounds DEF LoopInv, RoundsLeft
      <4> QED BY <4>1, <4>2
    <3> QED BY <1>2, <1>7, <2>3, <2>4, <2>5, <3>1, <3>2 DEF RoundsLeft
  <2> QED BY <1>1, <1>7, <2>3, <2>4, <2>5, <2>7, AskingGoesOn
<1> QED BY <1>4, <1>5, <1>6, <1>7 DEF BeginRound

(* Nothing of what is counted moves while the model is waited for.           *)
LEMMA AskingWaits ==
    ASSUME LoopInv, pc \in {"plan", "request", "delay"}, pc' \in {"plan", "request", "delay"}, EngineOk(engine'),
           engine'.tries = engine.tries, engine'.tool_calls = engine.tool_calls, engine'.seen = engine.seen,
           engine'.rounds = engine.rounds, engine'.finalization = None => engine.finalization = None,
           engine'.finalization = None \/ pc' # "plan" => engine'.finalization = engine.finalization,
           pc = "plan" /\ pc' # "plan" /\ engine'.finalization # None => engine'.fin_rounds = engine.fin_rounds + 1,
           ~(pc = "plan" /\ pc' # "plan" /\ engine'.finalization # None) => engine'.fin_rounds = engine.fin_rounds,
           pc' = "plan" => pc = "plan",
           UNCHANGED <<mode, outcome, counters, batch, waiting, prompts, permit, goal>>
    PROVE  LoopInv'
<1>1. pc \in Asking /\ pc' \in Asking \ {"retrieve"} /\ InRun /\ InRun'
  BY DEF Asking, InRun
<1>2. CountersOk(counters') /\ engine.rounds \in Nat /\ engine.fin_rounds \in Nat /\ counters.rounds = engine.rounds
  BY <1>1 DEF LoopInv, Types, EngineOk, RoundsLeft
<1>3. ASSUME mode = "Legacy", engine'.finalization = None
      PROVE  engine'.fin_rounds = 0 /\ engine'.rounds <= max_model_rounds - final_synthesis_rounds
  BY <1>1, <1>3 DEF LoopInv, RoundsLeft
<1>4. ASSUME mode = "Legacy", engine'.finalization # None
      PROVE  /\ pc' = "plan" => engine'.rounds <= max_model_rounds - final_synthesis_rounds + engine'.fin_rounds + 1
             /\ pc' # "plan" => engine'.rounds <= max_model_rounds - final_synthesis_rounds + engine'.fin_rounds
  <2>1. CASE engine.finalization = None
    <3>1. pc = "plan" /\ pc' = "plan"
      BY <1>4, <2>1
    <3>2. engine.rounds <= max_model_rounds - final_synthesis_rounds /\ engine.fin_rounds = 0
      BY <1>1, <1>4, <2>1 DEF LoopInv, RoundsLeft
    <3> QED BY <1>2, <3>1, <3>2, Bounds
  <2>2. CASE engine.finalization # None
    <3>1. /\ pc = "plan" => engine.rounds <= max_model_rounds - final_synthesis_rounds + engine.fin_rounds + 1
          /\ pc # "plan" => engine.rounds <= max_model_rounds - final_synthesis_rounds + engine.fin_rounds
      BY <1>1, <1>4, <2>2 DEF LoopInv, RoundsLeft
    <3> QED BY <1>2, <1>4, <3>1, Bounds
  <2> QED BY <2>1, <2>2
<1>5. RoundsLeft'
  BY <1>1, <1>2, <1>3, <1>4 DEF RoundsLeft
<1> QED BY <1>1, <1>2, <1>5, AskingGoesOn

(* A request that is planned for the answer of a turn is counted.            *)
LEMMA PlanKeeps == LoopInv /\ Plan => LoopInv'
<1> SUFFICES ASSUME LoopInv, Plan PROVE LoopInv'
  OBVIOUS
<1> DEFINE estimate == Estimate
           reason == ReserveReason(estimate)
<1>1. pc = "plan" /\ waiting = None /\ EngineOk(engine) /\ InRun
  BY NothingWaits DEF Plan, LoopInv, Types, InRun, Asking
<1>2. engine.fin_rounds \in Nat
  BY <1>1 DEF EngineOk
<1> HIDE DEF estimate
<1>3. CASE Fail("Context")
  BY <1>3, FailKeeps DEF Fail
<1>4. CASE Checkpoint(SliceBoundary(estimate), engine, over)
  BY <1>1, <1>4, CheckpointKeeps
<1>5. CASE /\ reason # None
           /\ engine' = start_finalization(engine, reason)
           /\ UNCHANGED <<mode, pc, outcome, clock, cancelled, current, progress, goal, over, toolVars>>
  <2> HIDE DEF reason
  <2>1. /\ EngineOk(engine') /\ engine'.tries = engine.tries /\ engine'.rounds = engine.rounds
        /\ engine'.fin_rounds = engine.fin_rounds /\ engine'.tool_calls = engine.tool_calls
        /\ engine'.seen = engine.seen
        /\ engine'.finalization = IF engine.finalization = None THEN reason ELSE engine.finalization
    BY <1>1, <1>5, Finalizes
  <2>2. pc' = "plan" /\ UNCHANGED <<mode, outcome, counters, batch, waiting, prompts, permit, goal>>
    BY <1>1, <1>5 DEF toolVars
  <2>3. engine'.finalization # None
    BY <1>5, <2>1
  <2> QED BY <1>1, <2>1, <2>2, <2>3, AskingWaits
<1>6. CASE Checkpoint("Budget", engine, over)
  BY <1>1, <1>6, CheckpointKeeps
<1>7. CASE /\ pc' = "request"
           /\ engine' = [engine EXCEPT !.estimate = estimate, !.attempt = 1,
                                       !.fin_rounds = IF engine.finalization = None THEN @ ELSE @ + 1]
           /\ UNCHANGED <<mode, outcome, clock, cancelled, current, progress, goal, over, toolVars>>
  <2> DEFINE n == IF engine.finalization = None THEN engine.fin_rounds ELSE engine.fin_rounds + 1
  <2>1. n \in Nat
    BY <1>2
  <2>2. engine' = [engine EXCEPT !.estimate = estimate, !.attempt = 1, !.fin_rounds = n]
    BY <1>1, <1>7 DEF EngineOk, EngineFields
  <2> HIDE DEF n
  <2>3. /\ EngineOk(engine') /\ engine'.tries = engine.tries /\ engine'.rounds = engine.rounds
        /\ engine'.fin_rounds = n /\ engine'.tool_calls = engine.tool_calls
        /\ engine'.seen = engine.seen /\ engine'.finalization = engine.finalization
    BY <1>1, <2>1, <2>2 DEF EngineOk, EngineFields
  <2>4. pc' = "request" /\ UNCHANGED <<mode, outcome, counters, batch, waiting, prompts, permit, goal>>
    BY <1>7 DEF toolVars
  <2>5. /\ engine.finalization = None => engine'.fin_rounds = engine.fin_rounds
        /\ engine.finalization # None => engine'.fin_rounds = engine.fin_rounds + 1
    BY <2>3 DEF n
  <2> QED BY <1>1, <2>3, <2>4, <2>5, AskingWaits
<1> QED BY <1>3, <1>4, <1>5, <1>6, <1>7 DEF Plan, estimate

LEMMA AttemptFailsKeeps == LoopInv /\ AttemptFails => LoopInv'
<1> SUFFICES ASSUME LoopInv, AttemptFails PROVE LoopInv'
  OBVIOUS
<1>1. CASE Fail("Provider")
  BY <1>1, FailKeeps DEF Fail
<1>2. CASE pc' = "delay" /\ UNCHANGED <<mode, outcome, clock, cancelled, engine, current, progress, goal, over, toolVars>>
  <2>1. UNCHANGED <<mode, outcome, engine, counters, batch, waiting, prompts, permit, goal>>
    BY <1>2 DEF toolVars
  <2>2. pc = "request" /\ pc' = "delay" /\ EngineOk(engine')
    BY <1>2, <2>1 DEF AttemptFails, LoopInv, Types
  <2> QED BY <2>1, <2>2, AskingWaits
<1> QED BY <1>1, <1>2 DEF AttemptFails

LEMMA WakeUpKeeps == LoopInv /\ WakeUp => LoopInv'
<1> SUFFICES ASSUME LoopInv, WakeUp PROVE LoopInv'
  OBVIOUS
<1>1. EngineOk(engine)
  BY DEF LoopInv, Types
<1>2. /\ pc = "delay" /\ pc' = "request" /\ engine' = [engine EXCEPT !.attempt = @ + 1]
      /\ UNCHANGED <<mode, outcome, counters, batch, waiting, prompts, permit, goal>>
  BY DEF WakeUp, toolVars
<1>3. /\ EngineOk(engine') /\ engine'.tries = engine.tries /\ engine'.rounds = engine.rounds
      /\ engine'.fin_rounds = engine.fin_rounds /\ engine'.tool_calls = engine.tool_calls
      /\ engine'.seen = engine.seen /\ engine'.finalization = engine.finalization
  BY <1>1, <1>2 DEF EngineOk, EngineFields
<1> QED BY <1>2, <1>3, AskingWaits

-----------------------------------------------------------------------------
(* The answers *)

(* An answer that ends the run.                                              *)
LEMMA OverspendsKeeps == LoopInv /\ Overspends => LoopInv'
<1> SUFFICES ASSUME LoopInv, Overspends PROVE LoopInv'
  OBVIOUS
<1>1. PICK c \in Charges : FailCharged("tokens", Exceeds(c))
  BY DEF Overspends
<1> QED BY <1>1, FailKeeps

LEMMA FinalTextKeeps == LoopInv /\ FinalText => LoopInv'
<1> SUFFICES ASSUME LoopInv, FinalText PROVE LoopInv'
  OBVIOUS
<1>1. pc = "request" /\ waiting = None /\ EngineOk(engine)
  BY NothingWaits DEF FinalText, LoopInv, Types
<1>2. PICK c \in Charges :
        \/ FailCharged("InvalidFinal", Exceeds(c))
        \/ /\ Leave(Charged(c)) /\ outcome' = Ended("candidate", None, None, 0) /\ over' = Exceeds(c)
           /\ UNCHANGED <<mode, current, progress, goal, waiting, prompts>>
  BY DEF FinalText
<1>3. CASE FailCharged("InvalidFinal", Exceeds(c))
  BY <1>3, FailKeeps
<1>4. CASE /\ Leave(Charged(c)) /\ outcome' = Ended("candidate", None, None, 0)
           /\ UNCHANGED <<mode, goal, waiting, prompts>>
  <2>1. Charged(c).tries = engine.tries
    BY <1>1, ChargedKeeps
  <2>2. FusesHold'
    BY <1>4 DEF FusesHold, Ended
  <2> QED BY <1>1, <1>4, <2>1, <2>2, RunEnds
<1> QED BY <1>2, <1>3, <1>4

(* The batch that is taken is one the limits of the engine let through.      *)
LEMMA BatchTaken ==
    ASSUME LoopInv, NEW e, NEW o, NEW calls \in Seq(ToolCall), pc = "request", engine.finalization = None,
           EngineOk(e), e.tries = engine.tries, e.rounds = engine.rounds, e.fin_rounds = engine.fin_rounds,
           e.finalization = engine.finalization, e.tool_calls = engine.tool_calls,
           e.seen = engine.seen \cup Ids(calls), validate_calls(calls),
           engine.tool_calls + Len(calls) <= max_tool_calls, TakeBatch(e, o, calls)
    PROVE  LoopInv'
<1>1. /\ pc' = "batch" /\ engine' = [e EXCEPT !.tool_calls = @ + Len(calls)] /\ batch' = calls
      /\ UNCHANGED <<mode, outcome, goal, counters, waiting, prompts, permit>>
  BY DEF TakeBatch
<1>2. InRun /\ InRun' /\ pc' \in Executing /\ pc' \notin Holding /\ pc' \notin Asking /\ pc \in Asking
  BY <1>1 DEF InRun, Asking, Executing, Holding
<1>3. Len(calls) \in Nat /\ DOMAIN calls = 1 .. Len(calls)
  BY LenProperties
<1>4. engine.tool_calls \in Nat /\ CountersOk(counters) /\ counters.calls \in Nat /\ engine.seen \subseteq Nat
  BY DEF LoopInv, Types, EngineOk, CountersOk
<1>5. /\ EngineOk(engine') /\ engine'.tries = engine.tries /\ engine'.rounds = engine.rounds
      /\ engine'.fin_rounds = engine.fin_rounds /\ engine'.tool_calls = engine.tool_calls + Len(calls)
      /\ engine'.seen = engine.seen \cup Ids(calls) /\ engine'.finalization = None
  <2> DEFINE n == engine.tool_calls + Len(calls)
  <2>1. n \in Nat
    BY <1>3, <1>4
  <2>2. engine' = [e EXCEPT !.tool_calls = n]
    BY <1>1 DEF EngineOk, EngineFields
  <2>3. n = engine.tool_calls + Len(calls)
    OBVIOUS
  <2> HIDE DEF n
  <2> QED BY <2>1, <2>2, <2>3 DEF EngineOk, EngineFields
<1>6. Types'
  BY <1>1, <1>5 DEF LoopInv, Types
<1>7. RoundsLeft'
  BY <1>1, <1>2, <1>5 DEF LoopInv, RoundsLeft
<1>8. CallsLeft'
  BY <1>1, <1>2, <1>3, <1>4, <1>5 DEF LoopInv, CallsLeft
<1>9. counters.ids \subseteq engine.seen
  BY <1>2 DEF LoopInv, IdsLeft
<1>10. \A i \in DOMAIN calls : calls[i].id \in Ids(calls) /\ calls[i].id \notin engine.seen
  BY ValidatedAreDistinct DEF Ids
<1>11. IdsLeft'
  BY <1>1, <1>2, <1>5, <1>9, <1>10, ValidatedAreDistinct DEF IdsLeft
<1>12. waiting = None
  BY NothingWaits
<1>13. RequestsSound'
  BY <1>1, <1>2, <1>5, <1>12 DEF LoopInv, RequestsSound
<1>14. CallsPermitted' /\ FusesHold'
  BY <1>1 DEF LoopInv, CallsPermitted, FusesHold
<1> QED BY <1>6, <1>7, <1>8, <1>11, <1>13, <1>14 DEF LoopInv

LEMMA ToolCallsKeeps == LoopInv /\ ToolCalls => LoopInv'
<1> SUFFICES ASSUME LoopInv, ToolCalls PROVE LoopInv'
  OBVIOUS
<1>1. pc = "request" /\ waiting = None /\ EngineOk(engine) /\ InRun /\ mode \in {"Legacy", "DurableSlice"}
  BY NothingWaits DEF ToolCalls, LoopInv, Types, InRun, Asking
<1>2. PICK c \in Charges, calls \in Batches :
        LET e == [Charged(c) EXCEPT !.seen = @ \cup Ids(calls)]
            o == Exceeds(c)
            fits == engine.tool_calls + Len(calls) <= max_tool_calls
        IN  \/ ~ToolsEnabled /\ ToolFree(Charged(c), o)
            \/ FailCharged("InvalidToolCall", o)
            \/ ToolsEnabled /\ TooMany(e, o)
            \/ ToolsEnabled /\ validate_calls(calls) /\ fits /\ TakeBatch(e, o, calls)
  BY DEF ToolCalls
<1> DEFINE e == [Charged(c) EXCEPT !.seen = @ \cup Ids(calls)]
           o == Exceeds(c)
           f == Charged(c)
<1>3. /\ EngineOk(f) /\ f.tries = engine.tries /\ f.rounds = engine.rounds
      /\ f.fin_rounds = engine.fin_rounds /\ f.tool_calls = engine.tool_calls
      /\ f.seen = engine.seen /\ f.finalization = engine.finalization
  BY <1>1, ChargedKeeps
<1>4. calls \in Seq(ToolCall)
  BY <1>1, BatchesAreCalls
<1>5. Ids(calls) \subseteq Nat /\ IsFiniteSet(Ids(calls))
  BY <1>4, IdsAreFinite
<1>6. /\ EngineOk(e) /\ e.tries = engine.tries /\ e.rounds = engine.rounds
      /\ e.fin_rounds = engine.fin_rounds /\ e.tool_calls = engine.tool_calls
      /\ e.seen = engine.seen \cup Ids(calls) /\ e.finalization = engine.finalization
  <2> DEFINE seen == engine.seen \cup Ids(calls)
  <2>1. seen \subseteq Nat /\ IsFiniteSet(seen)
    BY <1>3, <1>5, FS_Union DEF EngineOk
  <2> HIDE DEF f
  <2>2. e = [f EXCEPT !.seen = seen]
    BY <1>3 DEF EngineOk, EngineFields, f
  <2>3. seen = engine.seen \cup Ids(calls)
    OBVIOUS
  <2> HIDE DEF e, seen
  <2> QED BY <1>3, <2>1, <2>2, <2>3 DEF EngineOk, EngineFields
<1> HIDE DEF f, e, o
<1>7. CASE ~ToolsEnabled /\ ToolFree(f, o)
  <2>1. CASE FailCharged("LoopExhausted", o)
    BY <2>1, FailKeeps
  <2>2. CASE /\ f.fin_rounds < final_synthesis_rounds
             /\ pc' = "top" /\ engine' = f
             /\ UNCHANGED <<mode, outcome, clock, cancelled, progress, goal, toolVars>>
    <3>1. UNCHANGED <<mode, outcome, goal, counters, batch, waiting, prompts, permit>>
      BY <2>2 DEF toolVars
    <3>2. CountersOk(counters') /\ pc' \in Asking \ {"retrieve"} /\ InRun' /\ pc \in Asking
      BY <1>1, <2>2, <3>1 DEF LoopInv, Types, Asking, InRun
    <3>3. RoundsLeft'
      BY <1>1, <1>3, <2>2, <3>1, <3>2 DEF LoopInv, RoundsLeft
    <3> QED BY <1>1, <1>3, <2>2, <3>1, <3>2, <3>3, AskingGoesOn
  <2>3. f.fin_rounds \in Nat
    BY <1>3 DEF EngineOk
  <2> QED BY <1>7, <2>1, <2>2, <2>3, Bounds DEF ToolFree
<1>8. CASE FailCharged("InvalidToolCall", o)
  BY <1>8, FailKeeps
<1>9. CASE ToolsEnabled /\ TooMany(e, o)
  <2>1. CASE Checkpoint("RunawayGuard", e, o)
    BY <1>1, <1>6, <2>1, CheckpointKeeps
  <2>2. CASE /\ mode = "Legacy" /\ pc' = "top" /\ engine' = start_finalization(e, "ToolCallFuse")
             /\ UNCHANGED <<mode, outcome, clock, cancelled, current, progress, goal, toolVars>>
    <3>1. UNCHANGED <<mode, outcome, goal, counters, batch, waiting, prompts, permit>>
      BY <2>2 DEF toolVars
    <3>2. /\ EngineOk(engine') /\ engine'.tries = engine.tries /\ engine'.rounds = engine.rounds
          /\ engine'.fin_rounds = engine.fin_rounds /\ engine'.tool_calls = engine.tool_calls
          /\ engine'.seen = engine.seen \cup Ids(calls)
      BY <1>6, <2>2, Finalizes
    <3>3. engine.finalization = None
      BY <1>9 DEF ToolsEnabled
    <3>4. CountersOk(counters') /\ pc' \in Asking \ {"retrieve"} /\ InRun' /\ pc \in Asking
      BY <1>1, <2>2, <3>1 DEF LoopInv, Types, Asking, InRun
    <3>5. engine.fin_rounds = 0 /\ engine.rounds <= max_model_rounds - final_synthesis_rounds /\ engine.rounds = counters.rounds
      BY <1>1, <2>2, <3>3 DEF LoopInv, RoundsLeft
    <3>6. engine.rounds <= max_model_rounds - final_synthesis_rounds + 0
      BY <1>1, <3>5, Bounds DEF EngineOk
    <3>7. RoundsLeft'
      BY <2>2, <3>1, <3>2, <3>4, <3>5, <3>6, Bounds DEF RoundsLeft
    <3> QED BY <1>1, <3>1, <3>2, <3>4, <3>7, AskingGoesOn
  <2> QED BY <1>1, <1>9, <2>1, <2>2 DEF TooMany
<1>10. CASE /\ ToolsEnabled /\ validate_calls(calls)
            /\ engine.tool_calls + Len(calls) <= max_tool_calls /\ TakeBatch(e, o, calls)
  <2>1. engine.finalization = None
    BY <1>10 DEF ToolsEnabled
  <2> QED BY <1>1, <1>4, <1>6, <1>10, <2>1, BatchTaken
<1> QED BY <1>2, <1>7, <1>8, <1>9, <1>10 DEF e, f, o

-----------------------------------------------------------------------------
(* The execution of a batch *)

(* The first call of a batch and those behind it.                            *)
LEMMA BatchParts ==
    ASSUME batch \in Seq(ToolCall), batch # <<>>
    PROVE  /\ DOMAIN batch = 1 .. Len(batch) /\ Len(batch) \in Nat \ {0} /\ 1 \in DOMAIN batch
           /\ This = batch[1] /\ This \in ToolCall
           /\ Tail(batch) \in Seq(ToolCall) /\ Len(Tail(batch)) = Len(batch) - 1
           /\ DOMAIN Tail(batch) = 1 .. Len(batch) - 1
           /\ \A i \in DOMAIN Tail(batch) : i + 1 \in DOMAIN batch /\ Tail(batch)[i] = batch[i + 1]
<1>1. DOMAIN batch = 1 .. Len(batch) /\ Len(batch) \in Nat \ {0}
  BY LenProperties, EmptySeq
<1>2. /\ Head(batch) = batch[1] /\ Head(batch) \in ToolCall
      /\ Tail(batch) \in Seq(ToolCall) /\ Len(Tail(batch)) = Len(batch) - 1
      /\ \A i \in 1 .. Len(Tail(batch)) : Tail(batch)[i] = batch[i + 1]
  BY HeadTailProperties
<1>3. DOMAIN Tail(batch) = 1 .. Len(batch) - 1
  BY <1>2, LenProperties
<1> QED BY <1>1, <1>2, <1>3 DEF This

(* A run that executes holds the counts that its calls were let in with.     *)
LEMMA Executes ==
    ASSUME LoopInv, pc \in Executing, batch # <<>>
    PROVE  /\ InRun /\ pc \notin Asking /\ mode \in {"Legacy", "DurableSlice"}
           /\ EngineOk(engine) /\ CountersOk(counters) /\ batch \in Seq(ToolCall) /\ engine.tool_calls <= max_tool_calls
           /\ counters.rounds = engine.rounds /\ counters.calls <= engine.tool_calls
           /\ counters.calls + Len(batch) <= engine.tool_calls + 1
           /\ counters.ids \subseteq engine.seen
           /\ \A i \in DOMAIN batch : batch[i].id \in engine.seen
           /\ \A i, j \in DOMAIN batch : batch[i].id = batch[j].id => i = j
           /\ \A i \in DOMAIN batch : i > 1 => batch[i].id \notin counters.ids
<1>1. InRun /\ pc \notin Asking /\ (pc = "batch" \/ pc \in Holding)
  BY DEF InRun, Asking, Executing, Holding
<1>2. /\ mode \in {"Legacy", "DurableSlice"} /\ EngineOk(engine) /\ CountersOk(counters)
      /\ batch \in Seq(ToolCall) /\ engine.tool_calls \in Nat /\ counters.calls \in Nat /\ Len(batch) \in Nat
  BY LenProperties DEF LoopInv, Types, EngineOk, CountersOk
<1>3. counters.calls + Len(batch) <= engine.tool_calls + 1
  BY <1>1, <1>2 DEF LoopInv, CallsLeft
<1>4. \A i \in DOMAIN batch : i > 1 => batch[i].id \notin counters.ids
  BY <1>1 DEF LoopInv, IdsLeft
<1>5. /\ counters.rounds = engine.rounds /\ counters.calls <= engine.tool_calls /\ engine.tool_calls <= max_tool_calls
      /\ counters.ids \subseteq engine.seen
  BY <1>1 DEF LoopInv, RoundsLeft, CallsLeft, IdsLeft
<1>6. /\ \A i \in DOMAIN batch : batch[i].id \in engine.seen
      /\ \A i, j \in DOMAIN batch : batch[i].id = batch[j].id => i = j
  BY DEF LoopInv, IdsLeft
<1> QED BY <1>1, <1>2, <1>3, <1>4, <1>5, <1>6

(* The result of a call, and the next one.                                   *)
LEMMA ReturnedKeeps ==
    ASSUME LoopInv, pc \in Executing, batch # <<>>,
           NEW c, NEW content, NEW receipt, NEW size,
           CountersOk(c), c.rounds = counters.rounds, c.approvals = counters.approvals,
           c.calls + Len(batch) <= engine.tool_calls + 1, c.ids \subseteq engine.seen,
           \A i \in DOMAIN batch : i > 1 => batch[i].id \notin c.ids,
           Returned(c, content, receipt, size), prompts' \subseteq prompts
    PROVE  LoopInv'
<1> USE Executes
<1>1. /\ pc' = "batch" /\ batch' = Tail(batch) /\ permit' = None /\ waiting' = None /\ counters' = c
      /\ engine' = [engine EXCEPT !.bytes = @ + size]
      /\ UNCHANGED <<mode, outcome, goal>>
  BY DEF Returned
<1>2. InRun' /\ pc' \notin Holding /\ pc' \notin Asking /\ InRun /\ pc \notin Asking
  BY <1>1 DEF InRun, Asking, Executing, Holding
<1>3. /\ EngineOk(engine') /\ engine'.tries = engine.tries /\ engine'.rounds = engine.rounds
      /\ engine'.fin_rounds = engine.fin_rounds /\ engine'.tool_calls = engine.tool_calls
      /\ engine'.seen = engine.seen /\ engine'.finalization = engine.finalization
  BY <1>1 DEF EngineOk, EngineFields
<1>4. batch \in Seq(ToolCall)
  OBVIOUS
<1>5. Types'
  BY <1>1, <1>3, <1>4, BatchParts DEF LoopInv, Types
<1>6. RoundsLeft'
  BY <1>1, <1>2, <1>3 DEF LoopInv, RoundsLeft
<1>7. c.calls \in Nat /\ engine.tool_calls \in Nat /\ Len(batch) \in Nat \ {0} /\ Len(batch') = Len(batch) - 1
  BY <1>1, <1>4, BatchParts DEF CountersOk, EngineOk
<1>8. c.calls + Len(batch') <= engine.tool_calls /\ c.calls <= engine.tool_calls
  BY <1>7
<1>9. CallsLeft'
  BY <1>1, <1>2, <1>3, <1>8 DEF CallsLeft
<1>10. /\ DOMAIN batch' = 1 .. Len(batch) - 1
       /\ \A i \in DOMAIN batch' : i + 1 \in DOMAIN batch /\ batch'[i] = batch[i + 1]
  BY <1>1, <1>4, BatchParts
<1>11. IdsLeft'
  <2>1. \A i, j \in DOMAIN batch' : batch'[i].id = batch'[j].id => i = j
    <3> SUFFICES ASSUME NEW i \in DOMAIN batch', NEW j \in DOMAIN batch', batch'[i].id = batch'[j].id PROVE i = j
      OBVIOUS
    <3>1. i + 1 = j + 1 /\ i \in Int /\ j \in Int
      BY <1>7, <1>10
    <3> QED BY <3>1
  <2>2. \A i \in DOMAIN batch' : batch'[i].id \in engine.seen /\ batch'[i].id \notin c.ids
    <3> TAKE i \in DOMAIN batch'
    <3>1. i + 1 \in DOMAIN batch /\ i + 1 > 1 /\ batch'[i] = batch[i + 1]
      BY <1>7, <1>10
    <3> QED BY <3>1
  <2> QED BY <1>1, <1>2, <1>3, <2>1, <2>2 DEF IdsLeft
<1>12. RequestsSound'
  BY <1>1, <1>2, <1>3 DEF LoopInv, RequestsSound
<1>13. CallsPermitted' /\ FusesHold'
  BY <1>1 DEF LoopInv, CallsPermitted, FusesHold
<1> QED BY <1>5, <1>6, <1>9, <1>11, <1>12, <1>13 DEF LoopInv

(* ... that counts no further call.                                          *)
LEMMA ReturnedWithout ==
    ASSUME LoopInv, pc \in Executing, batch # <<>>,
           NEW c, NEW content, NEW receipt, NEW size,
           c = counters \/ \E n : c = WithBytes(n),
           Returned(c, content, receipt, size), prompts' \subseteq prompts
    PROVE  LoopInv'
<1>1. CountersOk(counters)
  BY Executes
<1>2. /\ CountersOk(c) /\ c.rounds = counters.rounds /\ c.approvals = counters.approvals
      /\ c.calls = counters.calls /\ c.ids = counters.ids
  BY <1>1 DEF WithBytes, CountersOk, CounterFields
<1> QED BY <1>2, Executes, ReturnedKeeps

(* A call that is reserved is one of those the engine let through, and has   *)
(* an id of its own.                                                         *)
LEMMA Reserves ==
    ASSUME LoopInv, pc = "batch", batch # <<>>
    PROVE  /\ Refusal # None => Refusal \notin {"tool_calls", "duplicate_call_id", "model_rounds"}
           /\ CountersOk(Reserved) /\ Reserved.rounds = counters.rounds /\ Reserved.approvals = counters.approvals
           /\ Reserved.calls = counters.calls + 1 /\ Reserved.ids = counters.ids \cup {This.id}
           /\ Reserved.calls + Len(batch) <= engine.tool_calls + 1
           /\ Reserved.ids \subseteq engine.seen
           /\ \A i \in DOMAIN batch : i > 1 => batch[i].id \notin Reserved.ids
<1>1. pc \in Executing
  BY DEF Executing
<1>2. /\ EngineOk(engine) /\ CountersOk(counters) /\ batch \in Seq(ToolCall) /\ engine.tool_calls <= max_tool_calls
      /\ counters.ids \subseteq engine.seen
  BY <1>1, Executes
<1>3. /\ Len(batch) \in Nat \ {0} /\ This = batch[1] /\ 1 \in DOMAIN batch
  BY <1>2, BatchParts
<1>4. engine.tool_calls \in Nat /\ counters.calls \in Nat
  BY <1>2 DEF EngineOk, CountersOk
<1>5. counters.calls + Len(batch) <= engine.tool_calls
  BY DEF LoopInv, CallsLeft
<1>6. counters.calls < max_tool_calls /\ counters.calls + 1 + Len(batch) <= engine.tool_calls + 1
  BY <1>2, <1>3, <1>4, <1>5, Bounds
<1>7. This.id \notin counters.ids /\ This.id \in engine.seen
  BY <1>1, <1>3 DEF LoopInv, IdsLeft
<1>8. Refusal # None => Refusal \notin {"tool_calls", "duplicate_call_id", "model_rounds"}
  <2>1. CASE check_active # None
    <3>1. Refusal = check_active
      BY <2>1 DEF Refusal
    <3> QED BY <2>1, <3>1, ActiveErrors
  <2>2. CASE check_active = None
    <3>1. Refusal = None
      BY <1>4, <1>6, <1>7, <2>2, Bounds DEF Refusal
    <3> QED BY <3>1
  <2> QED BY <2>1, <2>2
<1>9. /\ CountersOk(Reserved) /\ Reserved.rounds = counters.rounds /\ Reserved.approvals = counters.approvals
      /\ Reserved.calls = counters.calls + 1 /\ Reserved.ids = counters.ids \cup {This.id}
  <2>1. counters.calls + 1 \in Nat
    BY <1>4
  <2> QED BY <1>2, <2>1 DEF Reserved, CountersOk, CounterFields
<1>10. \A i \in DOMAIN batch : i > 1 => batch[i].id \notin Reserved.ids
  <2> SUFFICES ASSUME NEW i \in DOMAIN batch, i > 1 PROVE batch[i].id \notin Reserved.ids
    OBVIOUS
  <2>1. batch[i].id \notin counters.ids
    BY <1>1, Executes
  <2>2. batch[i].id # batch[1].id
    BY <1>1, <1>3, Executes
  <2> QED BY <1>3, <1>9, <2>1, <2>2
<1> QED BY <1>2, <1>6, <1>7, <1>8, <1>9, <1>10

(* The runtime goes on with the call at hand: it asks for it, prepares or    *)
(* executes it.                                                              *)
LEMMA HoldsOn ==
    ASSUME LoopInv, pc \in Executing, batch # <<>>, pc' \in Holding,
           CountersOk(counters'), counters'.rounds = counters.rounds,
           counters'.calls + Len(batch) <= engine.tool_calls + 1, counters'.ids \subseteq engine.seen,
           \A i \in DOMAIN batch : i > 1 => batch[i].id \notin counters'.ids,
           prompts' \subseteq ApprovalRequest, RequestsSound', CallsPermitted',
           UNCHANGED <<mode, outcome, engine, batch, goal>>
    PROVE  LoopInv'
<1> USE Executes
<1>1. InRun /\ InRun' /\ pc' # "batch" /\ pc' \notin Asking /\ pc \notin Asking /\ pc' \in Executing
  BY DEF InRun, Asking, Executing, Holding
<1>2. batch \in Seq(ToolCall) /\ counters'.calls \in Nat /\ engine.tool_calls \in Nat
  BY DEF CountersOk, EngineOk
<1>3. Len(batch) \in Nat \ {0}
  BY <1>2, BatchParts
<1>4. counters'.calls <= engine.tool_calls
  BY <1>2, <1>3
<1>5. Types'
  BY DEF LoopInv, Types
<1>6. RoundsLeft'
  BY <1>1 DEF LoopInv, RoundsLeft
<1>7. CallsLeft'
  BY <1>1, <1>4 DEF CallsLeft
<1>8. IdsLeft'
  BY <1>1 DEF IdsLeft
<1>9. FusesHold'
  BY DEF LoopInv, FusesHold
<1> QED BY <1>5, <1>6, <1>7, <1>8, <1>9 DEF LoopInv

(* A request has a number of its own in its run.                             *)
LEMMA AskKeeps ==
    ASSUME LoopInv, pc = "batch", batch # <<>>, This.tool \in Tool, Decision(This.tool) = "Ask", Ask
    PROVE  LoopInv'
<1> DEFINE n == counters.approvals + 1
<1>1. pc \in Executing /\ pc \notin Asking /\ waiting = None /\ InRun
  BY NothingWaits DEF Executing, Holding, Asking, InRun
<1>2. /\ pc' = "ask" /\ waiting' = Request /\ prompts' = prompts \cup {Request} /\ counters' = Numbered
      /\ UNCHANGED <<mode, outcome, engine, batch, goal>>
  BY DEF Ask
<1>3. /\ CountersOk(Reserved) /\ Reserved.rounds = counters.rounds /\ Reserved.approvals = counters.approvals
      /\ Reserved.calls + Len(batch) <= engine.tool_calls + 1
      /\ Reserved.ids \subseteq engine.seen
      /\ \A i \in DOMAIN batch : i > 1 => batch[i].id \notin Reserved.ids
  BY Reserves
<1>4. counters.approvals \in Nat /\ engine.tries \in Nat /\ goal.sequence \in Nat /\ batch \in Seq(ToolCall)
  BY DEF LoopInv, Types, CountersOk, EngineOk
<1>5. n \in Nat
  BY <1>4
<1>6. Numbered = [Reserved EXCEPT !.approvals = n]
  BY <1>3 DEF Numbered, CountersOk, CounterFields
<1> HIDE DEF n
<1>7. /\ CountersOk(Numbered) /\ Numbered.rounds = Reserved.rounds /\ Numbered.calls = Reserved.calls
      /\ Numbered.ids = Reserved.ids /\ Numbered.approvals = n
  BY <1>3, <1>5, <1>6 DEF CountersOk, CounterFields
<1>8. This \in ToolCall /\ This' = This
  BY <1>2, <1>4, BatchParts DEF This
<1>9. /\ Request \in ApprovalRequest /\ Request.call = This /\ Request.tries = engine.tries
      /\ Request.id[2] = n /\ Request.id = AskedAs'
  BY <1>2, <1>4, <1>5, <1>7, <1>8 DEF Request, ApprovalRequest, AskedAs, n
<1>10. \A p \in prompts : p.tries <= engine.tries /\ (p.tries = engine.tries => p.id[2] <= counters.approvals)
  BY <1>1 DEF LoopInv, RequestsSound
<1>11. prompts \subseteq ApprovalRequest
  BY DEF LoopInv, Types
<1>12. \A p \in prompts : p.tries = engine.tries => p.id[2] < n /\ p.id # Request.id
  <2> SUFFICES ASSUME NEW p \in prompts, p.tries = engine.tries PROVE p.id[2] < n /\ p.id # Request.id
    OBVIOUS
  <2>1. p.id[2] \in Nat /\ p.id[2] <= counters.approvals
    BY <1>10, <1>11 DEF ApprovalRequest
  <2> QED BY <1>4, <1>9, <2>1 DEF n
<1>13. RequestsSound'
  <2>1. \A p \in prompts' : p.tries <= engine.tries
    BY <1>2, <1>4, <1>9, <1>10
  <2>2. \A p \in prompts' : p.tries = engine.tries => p.id[2] <= n
    BY <1>2, <1>4, <1>5, <1>9, <1>11, <1>12 DEF ApprovalRequest
  <2>3. \A p \in prompts' : p.id = Request.id /\ p.tries = engine.tries => p.call = This
    BY <1>2, <1>9, <1>12
  <2> QED BY <1>2, <1>7, <1>8, <1>9, <2>1, <2>2, <2>3 DEF RequestsSound
<1>14. CallsPermitted'
  BY <1>2, <1>8 DEF CallsPermitted
<1>15. prompts' \subseteq ApprovalRequest /\ pc' \in Holding
  BY <1>2, <1>9, <1>11 DEF Holding
<1> QED BY <1>1, <1>2, <1>3, <1>7, <1>13, <1>14, <1>15, HoldsOn

LEMMA ExecuteKeeps == LoopInv /\ Execute => LoopInv'
<1> SUFFICES ASSUME LoopInv, Execute PROVE LoopInv'
  OBVIOUS
<1>1. pc = "batch" /\ batch # <<>> /\ pc \in Executing /\ waiting = None /\ InRun
  BY NothingWaits DEF Execute, Executing, InRun
<1>2. CASE Returned(counters, "no", None, 1) /\ UNCHANGED prompts
  BY <1>1, <1>2, ReturnedWithout
<1>3. CASE Refusal # None /\ Fail(Refusal)
  BY <1>1, <1>3, Reserves, FailKeeps DEF Fail
<1>4. CASE Returned(Reserved, "no", None, 1) /\ UNCHANGED prompts
  BY <1>1, <1>4, Reserves, ReturnedKeeps
<1>5. CASE This.tool \in Tool /\ Decision(This.tool) = "Ask" /\ Ask
  BY <1>1, <1>5, AskKeeps
<1>6. CASE /\ This.tool \in Tool /\ Decision(This.tool) = "Allow"
           /\ pc' = "prepare" /\ counters' = Reserved
           /\ UNCHANGED <<mode, outcome, clock, cancelled, engine, current, batch, digest, progress,
                          waiting, prompts, permit, goal, over>>
  <2>1. /\ CountersOk(counters') /\ counters'.rounds = counters.rounds /\ counters'.approvals = counters.approvals
        /\ counters'.calls + Len(batch) <= engine.tool_calls + 1
        /\ counters'.ids \subseteq engine.seen
        /\ \A i \in DOMAIN batch : i > 1 => batch[i].id \notin counters'.ids
    BY <1>1, <1>6, Reserves
  <2>2. pc' \in Holding /\ prompts' \subseteq ApprovalRequest
    BY <1>6 DEF Holding, LoopInv, Types
  <2>3. RequestsSound'
    BY <1>1, <1>6, <2>1 DEF LoopInv, RequestsSound
  <2>4. CallsPermitted'
    BY <1>6 DEF CallsPermitted, Allowed, This
  <2> QED BY <1>1, <1>6, <2>1, <2>2, <2>3, <2>4, HoldsOn
<1> QED BY <1>2, <1>3, <1>4, <1>5, <1>6 DEF Execute

(* An answer is to the request that waits, or it changes nothing; the call   *)
(* it allows is the one at hand, unless it was shown for an earlier try.     *)
LEMMA UserAnswersKeeps == LoopInv /\ UserAnswers => LoopInv'
<1> SUFFICES ASSUME LoopInv, UserAnswers PROVE LoopInv'
  OBVIOUS
<1>1. PICK p \in prompts, allow \in BOOLEAN :
        /\ prompts' = prompts \ {p}
        /\ \/ UNCHANGED <<mode, pc, outcome, clock, cancelled, engine, counters, current, batch, digest,
                          progress, waiting, permit, goal, over>>
           \/ Awaited(p) /\ Returned(counters, "no", None, 1)
           \/ /\ Awaited(p) /\ pc' = "prepare" /\ waiting' = None /\ permit' = p
              /\ UNCHANGED <<mode, outcome, clock, cancelled, engine, counters, current, batch, digest,
                             progress, goal, over>>
  BY DEF UserAnswers
<1>2. CASE UNCHANGED <<mode, pc, outcome, engine, counters, batch, waiting, permit, goal>>
  BY <1>1, <1>2, LoopStays
<1>3. ASSUME Awaited(p)
      PROVE  /\ pc = "ask" /\ pc \in Executing /\ batch # <<>> /\ This.tool \in Tool /\ Decision(This.tool) = "Ask"
             /\ p.id = AskedAs /\ (p.call = This \/ p.tries < engine.tries)
             /\ p \in ApprovalRequest
  <2>1. waiting # None /\ pc = "ask" /\ p.id = waiting.id /\ p.id = AskedAs
    BY <1>3 DEF Awaited, LoopInv, RequestsSound
  <2>2. p \in ApprovalRequest /\ p.tries \in Nat /\ engine.tries \in Nat /\ p.tries <= engine.tries
    BY DEF LoopInv, Types, RequestsSound, EngineOk, ApprovalRequest
  <2>3. p.tries = engine.tries => p.call = This
    BY <2>1 DEF LoopInv, RequestsSound
  <2>4. pc \in Executing /\ pc \in Holding
    BY <2>1 DEF Executing, Holding
  <2>5. batch # <<>>
    BY <2>4 DEF LoopInv, CallsLeft
  <2>6. This.tool \in Tool /\ Decision(This.tool) = "Ask"
    BY <2>1 DEF LoopInv, CallsPermitted
  <2> QED BY <2>1, <2>2, <2>3, <2>4, <2>5, <2>6
<1>4. CASE Awaited(p) /\ Returned(counters, "no", None, 1)
  BY <1>1, <1>3, <1>4, ReturnedWithout
<1>5. CASE /\ Awaited(p) /\ pc' = "prepare" /\ waiting' = None /\ permit' = p
           /\ UNCHANGED <<mode, outcome, clock, cancelled, engine, counters, current, batch, digest,
                          progress, goal, over>>
  <2>1. pc' \in Holding /\ prompts' \subseteq ApprovalRequest /\ InRun
    BY <1>1, <1>3, <1>5 DEF Holding, InRun, LoopInv, Types
  <2>2. RequestsSound'
    BY <1>1, <1>5, <2>1 DEF LoopInv, RequestsSound
  <2>3. p # None
    BY <1>3, <1>5, NoneAssumption
  <2>4. CallsPermitted'
    BY <1>3, <1>5, <2>3 DEF CallsPermitted, Allowed, This, AskedAs
  <2>5. /\ CountersOk(counters) /\ counters.calls + Len(batch) <= engine.tool_calls + 1
        /\ counters.ids \subseteq engine.seen
        /\ \A i \in DOMAIN batch : i > 1 => batch[i].id \notin counters.ids
    BY <1>3, <1>5, Executes
  <2> QED BY <1>3, <1>5, <2>1, <2>2, <2>4, <2>5, HoldsOn
<1> QED BY <1>1, <1>2, <1>4, <1>5

LEMMA PrepareKeeps == LoopInv /\ Prepare => LoopInv'
<1> SUFFICES ASSUME LoopInv, Prepare PROVE LoopInv'
  OBVIOUS
<1>1. pc = "prepare" /\ pc \in Executing /\ pc \in Holding /\ waiting = None /\ InRun
  BY NothingWaits DEF Prepare, Executing, Holding, InRun
<1>2. batch # <<>>
  BY <1>1 DEF LoopInv, CallsLeft
<1>3. CASE check_active # None /\ Fail(check_active)
  <2>1. check_active \notin {"tool_calls", "duplicate_call_id", "model_rounds"}
    BY <1>3, ActiveErrors
  <2> QED BY <1>3, <2>1, FailKeeps DEF Fail
<1>4. CASE Fail("result_bytes")
  BY <1>4, FailKeeps DEF Fail
<1>5. CASE Returned(WithBytes(1), "no", None, 1) /\ UNCHANGED prompts
  BY <1>1, <1>2, <1>5, ReturnedWithout
<1>6. CASE Fail("persistence")
  BY <1>6, FailKeeps DEF Fail
<1>7. CASE pc' = "exec" /\ UNCHANGED <<mode, outcome, clock, cancelled, engine, current, progress, goal, over, toolVars>>
  <2>1. UNCHANGED <<mode, outcome, engine, goal, counters, batch, waiting, prompts, permit>>
    BY <1>7 DEF toolVars
  <2>2. pc' \in Holding /\ prompts' \subseteq ApprovalRequest
    BY <1>7, <2>1 DEF Holding, LoopInv, Types
  <2>3. RequestsSound'
    BY <1>1, <2>1 DEF LoopInv, RequestsSound
  <2>4. CallsPermitted'
    BY <1>1, <1>7, <2>1 DEF LoopInv, CallsPermitted, Allowed, This, AskedAs
  <2>5. /\ CountersOk(counters) /\ counters.calls + Len(batch) <= engine.tool_calls + 1
        /\ counters.ids \subseteq engine.seen
        /\ \A i \in DOMAIN batch : i > 1 => batch[i].id \notin counters.ids
    BY <1>1, <1>2, Executes
  <2> QED BY <1>1, <1>2, <2>1, <2>2, <2>3, <2>4, <2>5, HoldsOn
<1> QED BY <1>3, <1>4, <1>5, <1>6, <1>7 DEF Prepare

LEMMA OutputKeeps ==
    ASSUME LoopInv, pc = "exec", NEW content, NEW receipt, NEW size, Output(content, receipt, size)
    PROVE  LoopInv'
<1>1. pc \in Executing /\ pc \in Holding
  BY DEF Executing, Holding
<1>2. batch # <<>>
  BY <1>1 DEF LoopInv, CallsLeft
<1> DEFINE n == Min({size, max_result_bytes - counters.bytes})
<1>3. Fail("result_bytes") \/ (Returned(WithBytes(n), content, receipt, n) /\ UNCHANGED prompts)
  BY DEF Output
<1> HIDE DEF n
<1>4. CASE Fail("result_bytes")
  BY <1>4, FailKeeps DEF Fail
<1>5. CASE Returned(WithBytes(n), content, receipt, n) /\ UNCHANGED prompts
  BY <1>1, <1>2, <1>5, ReturnedWithout
<1> QED BY <1>3, <1>4, <1>5

LEMMA ExecKeeps == LoopInv /\ Exec => LoopInv'
<1> SUFFICES ASSUME LoopInv, Exec PROVE LoopInv'
  OBVIOUS
<1>1. pc = "exec"
  BY DEF Exec
<1>2. CASE \E content \in {"a", "b"} : Output(content, None, 2)
  BY <1>1, <1>2, OutputKeeps
<1>3. CASE Output("written", <<goal.sequence, This.id>>, 1)
  BY <1>1, <1>3, OutputKeeps
<1>4. CASE Output("no", None, 1)
  BY <1>1, <1>4, OutputKeeps
<1>5. CASE Fail("persistence")
  BY <1>5, FailKeeps DEF Fail
<1> QED BY <1>2, <1>3, <1>4, <1>5 DEF Exec

(* The batch is done: a slice ends, a turn goes on.                          *)
LEMMA BatchDoneKeeps == LoopInv /\ BatchDone => LoopInv'
<1> SUFFICES ASSUME LoopInv, BatchDone PROVE LoopInv'
  OBVIOUS
<1> DEFINE e == Repeated(engine)
<1>1. /\ pc = "batch" /\ waiting = None /\ EngineOk(engine) /\ CountersOk(counters) /\ InRun /\ pc \notin Asking
      /\ mode \in {"Legacy", "DurableSlice"}
  BY NothingWaits DEF BatchDone, LoopInv, Types, InRun, Asking, Executing
<1>2. UNCHANGED <<mode, goal, waiting, prompts>>
  BY DEF BatchDone
<1>3. CASE mode = "DurableSlice"
  <2>1. Leave(engine) /\ \E boundary, same : outcome' = Ended("checkpoint", None, boundary, same)
    BY <1>3 DEF BatchDone
  <2>2. FusesHold'
    BY <2>1 DEF FusesHold, Ended
  <2> QED BY <1>1, <1>2, <2>1, <2>2, RunEnds
<1>4. CASE mode = "Legacy"
  <2>1. /\ pc' = "top" /\ UNCHANGED <<outcome, counters, batch, permit>>
        /\ engine' = IF e.repeated >= max_repeated_tool_batches THEN start_finalization(e, "NoProgress") ELSE e
    BY <1>4 DEF BatchDone
  <2>2. /\ EngineOk(e) /\ e.tries = engine.tries /\ e.rounds = engine.rounds /\ e.fin_rounds = engine.fin_rounds
        /\ e.tool_calls = engine.tool_calls /\ e.seen = engine.seen /\ e.finalization = engine.finalization
    BY <1>1 DEF Repeated, EngineOk, EngineFields
  <2> HIDE DEF e
  <2>3. /\ EngineOk(engine') /\ engine'.tries = engine.tries /\ engine'.rounds = engine.rounds
        /\ engine'.fin_rounds = engine.fin_rounds /\ engine'.tool_calls = engine.tool_calls
        /\ engine'.seen = engine.seen
    BY <2>1, <2>2, Finalizes
  <2>4. engine.finalization = None /\ engine.fin_rounds = 0 /\ engine.rounds \in Nat
        /\ engine.rounds <= max_model_rounds - final_synthesis_rounds /\ engine.rounds = counters.rounds
    BY <1>1, <1>4 DEF LoopInv, RoundsLeft, EngineOk
  <2>5. pc' \in Asking \ {"retrieve"} /\ InRun'
    BY <2>1 DEF Asking, InRun
  <2>6. engine.rounds <= max_model_rounds - final_synthesis_rounds + 0
    BY <2>4, Bounds
  <2>7. RoundsLeft'
    BY <1>2, <2>1, <2>3, <2>4, <2>5, <2>6, Bounds DEF RoundsLeft
  <2>8. pc \in Asking \cup {"batch"}
    BY <1>1
  <2> QED BY <1>1, <1>2, <2>1, <2>3, <2>5, <2>7, <2>8, AskingGoesOn
<1> QED BY <1>1, <1>3, <1>4

-----------------------------------------------------------------------------
(* From slice to slice *)

LEMMA SaveKeeps == LoopInv /\ Save => LoopInv'
<1> SUFFICES ASSUME LoopInv, Save PROVE LoopInv'
  OBVIOUS
<1>1. pc = "end" /\ pc' = "saved" /\ waiting = None
  BY NothingWaits DEF Save
<1>2. /\ engine' = NewEngine(engine.session, engine.tools, engine.tries)
      /\ UNCHANGED <<mode, outcome, counters, batch, waiting, prompts, permit>>
  BY DEF Save, toolVars
<1>3. engine.tries \in Nat /\ goal.sequence \in Nat
  BY DEF LoopInv, Types, EngineOk
<1>4. EngineOk(engine') /\ engine'.tries = engine.tries /\ engine'.tool_calls = 0
  BY <1>2, <1>3, NewEngineOk
<1>5. goal'.sequence = goal.sequence + 1
  BY DEF Save
<1>6. ~InRun /\ ~InRun' /\ pc' \notin Executing /\ pc' \notin Holding
  BY <1>1 DEF InRun, Asking, Executing, Holding
<1>7. Types'
  BY <1>2, <1>3, <1>4, <1>5 DEF LoopInv, Types
<1>8. RoundsLeft' /\ CallsLeft' /\ IdsLeft'
  BY <1>1, <1>2, <1>4, <1>6, Bounds DEF LoopInv, RoundsLeft, CallsLeft, IdsLeft, Holding
<1>9. RequestsSound' /\ CallsPermitted' /\ FusesHold'
  BY <1>1, <1>2, <1>4, <1>6 DEF LoopInv, RequestsSound, CallsPermitted, FusesHold
<1> QED BY <1>7, <1>8, <1>9 DEF LoopInv

(* A slice begins with nothing counted, and the requests that were shown are *)
(* those of earlier tries.                                                   *)
LEMMA NextSliceKeeps == LoopInv /\ NextSlice => LoopInv'
<1> SUFFICES ASSUME LoopInv, NextSlice PROVE LoopInv'
  OBVIOUS
<1>1. pc \in {"saved", "end"} /\ pc' = "retrieve" /\ outcome' = None /\ waiting = None /\ prompts' \subseteq prompts
  BY NothingWaits DEF NextSlice
<1>2. /\ engine' = NewEngine(engine.session, engine.tools, engine.tries + 1)
      /\ UNCHANGED <<mode, counters, batch, waiting, permit, goal>>
  BY DEF NextSlice
<1>3. engine.tries \in Nat /\ prompts \subseteq ApprovalRequest
  BY DEF LoopInv, Types, EngineOk
<1>4. /\ EngineOk(engine') /\ engine'.tries = engine.tries + 1 /\ engine'.rounds = 0 /\ engine'.finalization = None
      /\ engine'.fin_rounds = 0 /\ engine'.tool_calls = 0 /\ engine'.seen = {}
  BY <1>2, <1>3, NewEngineOk
<1>5. ~InRun /\ InRun' /\ pc' \notin Executing /\ pc' \notin Holding
  BY <1>1 DEF InRun, Asking, Executing, Holding
<1>6. counters = NewCounters
  BY <1>5 DEF LoopInv, RoundsLeft
<1>7. Types'
  BY <1>1, <1>2, <1>3, <1>4 DEF LoopInv, Types
<1>8. RoundsLeft'
  BY <1>1, <1>2, <1>4, <1>5, <1>6, NewCountersOk, Bounds DEF RoundsLeft
<1>9. CallsLeft' /\ IdsLeft'
  BY <1>1, <1>2, <1>4, <1>5, <1>6, NewCountersOk, Bounds DEF CallsLeft, IdsLeft
<1>10. RequestsSound'
  <2>1. \A p \in prompts' : p.tries < engine'.tries
    <3> TAKE p \in prompts'
    <3>1. p \in prompts /\ p.tries \in Nat /\ p.tries <= engine.tries
      BY <1>1, <1>3 DEF LoopInv, RequestsSound, ApprovalRequest
    <3> QED BY <1>3, <1>4, <3>1
  <2>2. \A p \in prompts' : p.tries <= engine'.tries /\ p.tries # engine'.tries
    BY <1>1, <1>3, <1>4, <2>1 DEF ApprovalRequest
  <2> QED BY <1>1, <1>2, <2>2 DEF RequestsSound
<1>11. CallsPermitted' /\ FusesHold'
  BY <1>1 DEF CallsPermitted, FusesHold
<1> QED BY <1>7, <1>8, <1>9, <1>10, <1>11 DEF LoopInv

-----------------------------------------------------------------------------
(* The invariant of the whole specification *)

LEMMA LoopInvariant == Spec => []LoopInv
<1>1. LoopInv /\ [Next]_vars => LoopInv'
  <2> SUFFICES ASSUME LoopInv, [Next]_vars PROVE LoopInv'
    OBVIOUS
  <2>1. CASE Tick \/ Cancel
    BY <2>1, LoopStays DEF Tick, Cancel, toolVars
  <2>2. CASE SeeCancel \/ TurnTimeout \/ ApprovalTimeout \/ ToolTimeout
    <3>1. \E error \in {"Cancelled", "Timeout", "ToolTimeout"} : FailCharged(error, over)
      BY <2>2 DEF SeeCancel, TurnTimeout, ApprovalTimeout, ToolTimeout, Fail
    <3> QED BY <3>1, FailKeeps
  <2>3. CASE Retrieve
    BY <2>3, RetrieveKeeps
  <2>4. CASE Round
    BY <2>4, BeginRoundKeeps, PlanKeeps, AttemptFailsKeeps, WakeUpKeeps, OverspendsKeeps, FinalTextKeeps,
       ToolCallsKeeps DEF Round
  <2>5. CASE Execute \/ UserAnswers \/ Prepare \/ Exec \/ BatchDone
    BY <2>5, ExecuteKeeps, UserAnswersKeeps, PrepareKeeps, ExecKeeps, BatchDoneKeeps
  <2>6. CASE Save \/ NextSlice
    BY <2>6, SaveKeeps, NextSliceKeeps
  <2>7. CASE UNCHANGED vars
    BY <2>7, LoopStays DEF vars
  <2> QED BY <2>1, <2>2, <2>3, <2>4, <2>5, <2>6, <2>7 DEF Next, Batch
<1> QED BY <1>1, InitSound, PTL DEF Spec

(* Whatever the model asks for, no run ends by a fuse of the tool runtime:   *)
(* the counts of the engine end it before, a turn with the rounds it keeps   *)
(* for its answer.                                                           *)
THEOREM FusesAlwaysHold == Spec => []FusesHold
<1>1. LoopInv => FusesHold
  BY DEF LoopInv
<1> QED BY <1>1, LoopInvariant, PTL

(* No tool is executed that a policy denies, and none that one asks for      *)
(* without an answer to the id it was asked under, for this very call or for *)
(* the one a failed try of the same slice asked for under that id, which the *)
(* design excludes (ApprovalAppliesOnce); a request waits only while its run *)
(* does.                                                                     *)
THEOREM PermissionAlwaysHeld == Spec => []PermissionHeld
<1>1. LoopInv => PermissionHeld
  <2> SUFFICES ASSUME LoopInv PROVE PermissionHeld
    OBVIOUS
  <2>1. ASSUME pc = "exec"
        PROVE  /\ "Deny" \notin {BuiltinPolicy[This.tool], local_agent_policy[This.tool]}
               /\ Asks(This.tool) =>
                    permit # None /\ permit.id = AskedAs /\ (permit.call = This \/ permit.tries < engine.tries)
    <3>1. This.tool \in Tool /\ Allowed(This.tool, permit)
      BY <2>1 DEF LoopInv, CallsPermitted
    <3> QED BY <3>1, Restricts DEF Allowed, Asks
  <2>2. waiting # None => pc = "ask" /\ waiting.id = AskedAs /\ waiting.call = This /\ waiting.tries = engine.tries
    BY DEF LoopInv, RequestsSound
  <2> QED BY <2>1, <2>2 DEF PermissionHeld
<1> QED BY <1>1, LoopInvariant, PTL

-----------------------------------------------------------------------------
(* Induction: a set of numbers has a least one, and holds them all if it     *)
(* holds 0 and with every number the next.                                   *)

LEMMA LeastNat ==
    ASSUME NEW T, T \subseteq Nat, T # {}
    PROVE  \E x \in T : \A y \in T : x <= y
<1> DEFINE F == FiniteSubsetsOf(Nat)  U == {0 .. x : x \in T}
<1>1. \A x \in T : IsFiniteSet(0 .. x)
  BY FS_Interval
<1>2. U \subseteq F /\ U # {}
  <2>1. \A x \in T : 0 .. x \in SUBSET Nat
    OBVIOUS
  <2> QED
    BY <1>1, <2>1 DEF FiniteSubsetsOf
<1>3. IsWellFoundedOn(StrictSubsetOrdering(Nat), F)
  BY FS_StrictSubsetOrderingWellFounded
<1>4. PICK u \in U : \A v \in U : <<v, u>> \notin StrictSubsetOrdering(Nat)
  <2> HIDE DEF F, U
  <2> QED BY <1>2, <1>3, WFMin
<1>5. PICK x \in T : u = 0 .. x
  BY <1>4
<1>6. ASSUME NEW y \in T, ~ (x <= y)
      PROVE  FALSE
  <2>1. x \in Nat /\ y \in Nat
    OBVIOUS
  <2>2. 0 .. y \subseteq 0 .. x /\ x \in 0 .. x /\ x \notin 0 .. y
    BY <1>6, <2>1
  <2>3. 0 .. y \in U
    OBVIOUS
  <2>4. <<0 .. y, 0 .. x>> \in (SUBSET Nat) \X (SUBSET Nat)
    BY <2>1
  <2>5. <<0 .. y, 0 .. x>> \in StrictSubsetOrdering(Nat)
    BY <2>2, <2>4 DEF StrictSubsetOrdering
  <2> QED
    BY <1>4, <1>5, <2>3, <2>5
<1> QED
  BY <1>6

LEMMA NatSetInduction ==
    ASSUME NEW T, 0 \in T, \A n \in Nat : n \in T => n + 1 \in T
    PROVE  Nat \subseteq T
<1> SUFFICES ASSUME Nat \ T # {}
             PROVE  FALSE
  OBVIOUS
<1>1. PICK x \in Nat \ T : \A y \in Nat \ T : x <= y
  BY LeastNat
<1>2. x # 0 /\ x - 1 \in Nat /\ ~ (x <= x - 1) /\ (x - 1) + 1 = x
  BY <1>1
<1>3. x - 1 \in T
  BY <1>1, <1>2
<1> QED
  BY <1>1, <1>2, <1>3

-----------------------------------------------------------------------------
(* What is charged and what is left of it *)

(* The types of what is charged; a goal has a budget, a turn has none, and   *)
(* only a slice ends with a checkpoint.                                      *)
Money ==
    /\ engine.input \in Int /\ engine.output \in Int /\ engine.estimate \in Int
    /\ mode = "Legacy" => goal.remaining = None
    /\ mode = "DurableSlice" => goal.remaining \in Int /\ engine.finalization = None
    /\ ~InRun => engine.finalization = None
    /\ mode = "Legacy" /\ pc = "end" => outcome.kind # "checkpoint"

(* Until a turn has asked for its answer it keeps the reserve, and a request *)
(* of a turn that is not turned to its answer leaves it.                     *)
Answered == engine.finalization # None /\ engine.fin_rounds # 0
Spending == pc \in {"request", "delay"}
ReserveLeft ==
    mode = "Legacy" /\ ~over /\ InRun =>
      /\ ~Answered =>
           /\ engine.input + final_input_token_reserve <= max_total_input_tokens
           /\ engine.output + final_output_token_reserve <= max_total_output_tokens
      /\ Spending /\ ~Answered =>
           /\ engine.finalization = None
           /\ engine.input + engine.estimate + final_input_token_reserve <= max_total_input_tokens
           /\ engine.output + max_output_tokens + final_output_token_reserve <= max_total_output_tokens

(* A slice with tools has charged nothing before its one request, which the  *)
(* budget allows.                                                            *)
BudgetLeft ==
    mode = "DurableSlice" /\ ~over /\ engine.tools =>
      /\ goal.remaining >= 0 /\ engine.input + engine.output <= goal.remaining
      /\ pc \in Asking => engine.input = 0 /\ engine.output = 0
      /\ Spending => engine.estimate + max_output_tokens <= goal.remaining

SpendInv == Money /\ ReserveLeft /\ BudgetLeft
-----------------------------------------------------------------------------
(* How long a goal has learned nothing *)

(* A tracker that has seen n equal batches in a row.                         *)
Paced(p, n) ==
    /\ DOMAIN p = {"last", "idle", "recovery"}
    /\ n = 0 => p = FreshProgress
    /\ n \in 1 .. 4 => p.idle = n - 1 /\ p.recovery = FALSE
    /\ n >= 5 => p.idle = n - 5 /\ p.recovery = TRUE

(* What the tracker of the run, once it is over, has seen.                   *)
ByNow == IF ~InRun /\ outcome.kind = "checkpoint" /\ outcome.same # 0 THEN outcome.same ELSE goal.same
StallInv ==
    /\ goal.same \in Nat /\ Paced(goal.progress, goal.same)
    /\ ByNow \in Nat /\ Paced(progress, ByNow)
    /\ InRun => outcome = None
    /\ pc = "saved" => goal.progress = progress /\ goal.same = ByNow
    /\ InRun => goal.progress = progress
    /\ digest.evidence \in Seq(Evidence)
    /\ StallsEnd
CountInv == SpendInv /\ StallInv

-----------------------------------------------------------------------------
(* Steps that charge nothing, and ends *)

(* The engine as far as money goes.                                          *)
SameMoney(e, f) ==
    /\ f.input = e.input /\ f.output = e.output /\ f.estimate = e.estimate /\ f.tools = e.tools
    /\ f.finalization = e.finalization /\ f.fin_rounds = e.fin_rounds

(* A run that goes on without a charge and asks nothing new.                 *)
LEMMA GoingOnCounts ==
    ASSUME LoopInv, CountInv, InRun, InRun', SameMoney(engine, engine'),
           pc' \in Asking => pc \in Asking, Spending' => Spending,
           digest'.evidence \in Seq(Evidence),
           UNCHANGED <<mode, outcome, progress, goal, over>>
    PROVE  CountInv'
<1>1. pc # "end" /\ pc' # "end" /\ pc' # "saved"
  BY DEF InRun, Asking, Executing, Holding
<1>2. SpendInv'
  BY <1>1 DEF CountInv, SpendInv, Money, ReserveLeft, Answered, BudgetLeft, SameMoney
<1>3. StallInv'
  BY <1>1 DEF CountInv, StallInv, ByNow, StallsEnd
<1> QED BY <1>2, <1>3 DEF CountInv

(* A step that none of the counts can tell.                                  *)
LEMMA StandingCounts ==
    ASSUME CountInv, UNCHANGED <<mode, pc, outcome, engine, digest, progress, goal, over>>
    PROVE  CountInv'
  BY DEF CountInv, SpendInv, Money, ReserveLeft, Answered, BudgetLeft, Spending, InRun,
         StallInv, ByNow, StallsEnd

(* The locals of a run that ends: what it charged is kept.                   *)
LEMMA LeaveMoney ==
    ASSUME NEW e, Leave(e)
    PROVE  /\ engine'.input = e.input /\ engine'.output = e.output /\ engine'.estimate = 0
           /\ engine'.tools = e.tools /\ engine'.finalization = None
           /\ pc' = "end" /\ digest' = NoDigest
  BY DEF Leave, NewEngine

(* A run ends: what it charged is within the budget, the tracker is the one  *)
(* its outcome tells of, and only a slice ends with a checkpoint.            *)
LEMMA EndCounts ==
    ASSUME LoopInv, CountInv, InRun, NEW e, Leave(e), e.tools = engine.tools,
           e.input \in Int, e.output \in Int,
           mode = "DurableSlice" /\ ~over' /\ engine.tools =>
              goal.remaining >= 0 /\ e.input + e.output <= goal.remaining,
           NEW kind, NEW error, NEW boundary, NEW same \in Nat,
           outcome' = Ended(kind, error, boundary, same),
           mode = "Legacy" => kind # "checkpoint",
           kind = "checkpoint" =>
              /\ boundary = "NoProgressRecovery" <=> same = 5
              /\ boundary = "NoProgressBlocked" <=> same >= 7,
           Paced(progress', IF kind # "checkpoint" \/ same = 0 THEN goal.same ELSE same),
           UNCHANGED <<mode, goal>>
    PROVE  CountInv'
<1>1. /\ engine'.input = e.input /\ engine'.output = e.output /\ engine'.estimate = 0
      /\ engine'.tools = e.tools /\ engine'.finalization = None
      /\ pc' = "end" /\ digest' = NoDigest
  BY LeaveMoney
<1>2. ~InRun' /\ pc' \notin Asking /\ ~Spending'
  BY <1>1 DEF InRun, Asking, Executing, Holding, Spending
<1>3. outcome'.kind = kind /\ outcome'.boundary = boundary /\ outcome'.same = same
  BY DEF Ended
<1>4. SpendInv'
  BY <1>1, <1>2, <1>3 DEF CountInv, SpendInv, Money, ReserveLeft, BudgetLeft
<1>5. digest'.evidence \in Seq(Evidence)
  BY <1>1, EmptySeq DEF NoDigest
<1>6. StallInv'
  BY <1>1, <1>2, <1>3, <1>5 DEF CountInv, StallInv, ByNow, StallsEnd
<1> QED BY <1>4, <1>6 DEF CountInv


(* An error charges nothing to the goal.                                     *)
LEMMA FailCounts ==
    ASSUME LoopInv, CountInv, InRun, NEW error, NEW o, ~o => ~over, FailCharged(error, o)
    PROVE  CountInv'
<1> DEFINE e == NewEngine(engine.session, engine.tools, engine.tries)
<1>1. Leave(e) /\ outcome' = Ended("error", error, None, 0) /\ over' = o /\ UNCHANGED <<mode, progress, goal>>
  BY DEF FailCharged
<1>2. e.tools = engine.tools /\ e.input = 0 /\ e.output = 0
  BY DEF NewEngine
<1> HIDE DEF e
<1>3. mode = "DurableSlice" /\ ~over' /\ engine.tools => goal.remaining >= 0 /\ e.input + e.output <= goal.remaining
  BY <1>1, <1>2 DEF CountInv, SpendInv, Money, BudgetLeft
<1>4. Paced(progress', goal.same)
  BY <1>1 DEF CountInv, StallInv, ByNow
<1> QED BY <1>1, <1>2, <1>3, <1>4, EndCounts

(* A checkpoint but for the one of a batch.                                  *)
LEMMA CheckpointCounts ==
    ASSUME LoopInv, CountInv, InRun, mode = "DurableSlice", NEW e, NEW o, NEW boundary,
           e.input \in Int, e.output \in Int, e.tools = engine.tools,
           ~o /\ engine.tools => goal.remaining >= 0 /\ e.input + e.output <= goal.remaining,
           boundary \notin {"NoProgressRecovery", "NoProgressBlocked"},
           Checkpoint(boundary, e, o)
    PROVE  CountInv'
<1>1. Leave(e) /\ outcome' = Ended("checkpoint", None, boundary, 0) /\ over' = o /\ UNCHANGED <<mode, progress, goal>>
  BY DEF Checkpoint
<1>2. Paced(progress', goal.same)
  BY <1>1 DEF CountInv, StallInv, ByNow
<1> QED BY <1>1, <1>2, EndCounts

-----------------------------------------------------------------------------
(* The tracker of progress *)

(* One more batch: equal to the last one or not.                             *)
LEMMA Observes ==
    ASSUME NEW p, NEW n \in Nat, Paced(p, n), NEW evidence \in Seq(Evidence)
    PROVE  LET q == observe(p, evidence)
               m == IF evidence = p.last THEN n + 1 ELSE 1
           IN  /\ Paced(q.p, m) /\ (evidence = p.last => n > 0)
               /\ (evidence # p.last => q.p.last = evidence)
               /\ (evidence = p.last => q.p.last = p.last)
               /\ q.action = "RecoverySlice" <=> m = 5
               /\ q.action = "Block" <=> m >= 7
<1> DEFINE still == [p EXCEPT !.idle = p.idle + 1]
           offered == [p EXCEPT !.idle = 0, !.recovery = TRUE]
           fresh == [last |-> evidence, idle |-> 0, recovery |-> FALSE]
<1>1. evidence = p.last => n # 0
  <2>1. evidence # None
    BY NoneAssumption
  <2> QED BY <2>1 DEF Paced, FreshProgress
<1>2. CASE evidence # p.last
  <2>1. observe(p, evidence) = [p |-> fresh, action |-> "Continue"]
    BY <1>2 DEF observe
  <2>2. Paced(fresh, 1) /\ fresh.last = evidence
    BY DEF Paced
  <2> HIDE DEF fresh
  <2> QED BY <1>2, <2>1, <2>2
<1>3. ASSUME evidence = p.last, p.idle \in Nat
      PROVE  /\ p.recovery = FALSE /\ p.idle >= 3 =>
                   observe(p, evidence) = [p |-> offered, action |-> "RecoverySlice"]
             /\ p.recovery = TRUE /\ p.idle >= 1 => observe(p, evidence) = [p |-> still, action |-> "Block"]
             /\ (p.recovery = FALSE /\ p.idle < 3) \/ (p.recovery = TRUE /\ p.idle < 1) =>
                   observe(p, evidence) = [p |-> still, action |-> "Continue"]
  <2>1. CASE p.recovery = FALSE /\ p.idle >= 3
    <3>1. p.idle + 1 >= 4
      BY <1>3, <2>1
    <3> QED BY <1>3, <2>1, <3>1 DEF observe
  <2>2. CASE p.recovery = TRUE /\ p.idle >= 1
    <3>1. p.idle + 1 >= 2
      BY <1>3, <2>2
    <3> QED BY <1>3, <2>2, <3>1 DEF observe
  <2>3. CASE (p.recovery = FALSE /\ p.idle < 3) \/ (p.recovery = TRUE /\ p.idle < 1)
    <3>1. (p.recovery = FALSE /\ ~(p.idle + 1 >= 4)) \/ (p.recovery = TRUE /\ ~(p.idle + 1 >= 2))
      BY <1>3, <2>3
    <3> QED BY <1>3, <2>3, <3>1 DEF observe
  <2> QED BY <1>3, <2>1, <2>2, <2>3
<1>4. /\ n = 4 => Paced(offered, n + 1) /\ offered.last = p.last
      /\ n \in 1 .. 3 \/ n >= 5 => Paced(still, n + 1) /\ still.last = p.last
      /\ n > 0 => p.idle \in Nat
      /\ n \in 1 .. 4 => p.idle = n - 1 /\ p.recovery = FALSE
      /\ n >= 5 => p.idle = n - 5 /\ p.recovery = TRUE
  BY DEF Paced
<1> HIDE DEF still, offered
<1>5. CASE evidence = p.last
  <2>0. n > 0 /\ p.idle \in Nat
    BY <1>1, <1>4, <1>5
  <2>1. CASE n = 4
    <3>1. p.idle >= 3 /\ p.recovery = FALSE
      BY <1>4, <2>1
    <3>2. observe(p, evidence) = [p |-> offered, action |-> "RecoverySlice"]
      BY <1>3, <1>5, <2>0, <3>1
    <3> QED BY <1>4, <1>5, <2>1, <3>2
  <2>2. CASE n \in 1 .. 3 \/ n = 5
    <3>1. (p.recovery = FALSE /\ p.idle < 3) \/ (p.recovery = TRUE /\ p.idle < 1)
      BY <1>4, <2>2
    <3>2. observe(p, evidence) = [p |-> still, action |-> "Continue"]
      BY <1>3, <1>5, <2>0, <3>1
    <3> QED BY <1>4, <1>5, <2>2, <3>2
  <2>3. CASE n >= 6
    <3>1. p.recovery = TRUE /\ p.idle >= 1
      BY <1>4, <2>3
    <3>2. observe(p, evidence) = [p |-> still, action |-> "Block"]
      BY <1>3, <1>5, <2>0, <3>1
    <3> QED BY <1>4, <1>5, <2>3, <3>2
  <2> QED BY <2>0, <2>1, <2>2, <2>3
<1> QED BY <1>2, <1>5

LEMMA FreshIsPaced == Paced(FreshProgress, 0)
  BY DEF Paced, FreshProgress

(* What a goal of equal batches has seen, after each of them.                *)
Track(n, tracker) ==
    [i \in 0 .. n |-> IF i = 0 THEN FreshProgress ELSE observe(tracker[i - 1], <<<<"read", "a", None>>>>).p]
LEMMA TrackExists ==
    ASSUME NEW n \in Nat
    PROVE  \E tracker : tracker = Track(n, tracker)
<1> DEFINE More(x) == observe(x, <<<<"read", "a", None>>>>).p
           Run(f, m) == f = [i \in 0 .. m |-> IF i = 0 THEN FreshProgress ELSE More(f[i - 1])]
           T == {m \in Nat : \E f : Run(f, m)}
<1> HIDE DEF More
<1>1. 0 \in T
  <2>1. Run([i \in 0 .. 0 |-> FreshProgress], 0)
    OBVIOUS
  <2> QED BY <2>1
<1>2. ASSUME NEW m \in Nat, m \in T
      PROVE  m + 1 \in T
  <2>1. PICK f : Run(f, m)
    BY <1>2
  <2> DEFINE f2 == [i \in 0 .. m + 1 |-> IF i = m + 1 THEN More(f[m]) ELSE f[i]]
  <2>2. \A i \in 0 .. m + 1 : f2[i] = IF i = 0 THEN FreshProgress ELSE More(f2[i - 1])
    <3> TAKE i \in 0 .. m + 1
    <3>1. CASE i = m + 1
      <4>1. i # 0 /\ i - 1 = m /\ m \in 0 .. m + 1 /\ m # m + 1
        BY <3>1
      <4>2. f2[m] = f[m] /\ f2[i] = More(f[m])
        BY <3>1, <4>1
      <4> QED BY <4>1, <4>2
    <3>2. CASE i \in 1 .. m
      <4>1. i \in 0 .. m /\ i # 0 /\ i - 1 \in 0 .. m + 1 /\ i - 1 # m + 1 /\ i # m + 1
        BY <3>2
      <4>2. f2[i] = f[i] /\ f2[i - 1] = f[i - 1]
        BY <4>1
      <4>3. f[i] = More(f[i - 1])
        BY <2>1, <4>1
      <4> QED BY <4>1, <4>2, <4>3
    <3>3. CASE i = 0
      BY <2>1, <3>3
    <3> QED BY <3>1, <3>2, <3>3
  <2>3. Run(f2, m + 1)
    BY <2>2
  <2> HIDE DEF f2, Run
  <2> QED BY <2>3
<1>3. n \in T
  <2> HIDE DEF T
  <2> QED BY <1>1, <1>2, NatSetInduction
<1> QED BY <1>3 DEF More, Track

LEMMA StalledIsPaced ==
    ASSUME NEW n \in Nat, NEW limit
    PROVE  Paced(Stalled(n, limit).progress, n)
<1> DEFINE tracker == CHOOSE f : f = Track(n, f)
           seen == <<<<"read", "a", None>>>>
           T == {i \in Nat : i <= n => Paced(tracker[i], i) /\ (i > 0 => tracker[i].last = seen)}
<1>1. tracker = Track(n, tracker)
  BY TrackExists
<1>2. Stalled(n, limit).progress = tracker[n]
  BY DEF Stalled, Track
<1>3. seen \in Seq(Evidence)
  <2>1. <<"read", "a", None>> \in Evidence
    BY DEF Evidence, Tool
  <2> QED BY <2>1
<1> HIDE DEF tracker, seen
<1>4. \A i \in 0 .. n : tracker[i] = IF i = 0 THEN FreshProgress ELSE observe(tracker[i - 1], seen).p
  BY <1>1 DEF Track, seen
<1>5. 0 \in T
  BY <1>4, FreshIsPaced
<1>6. ASSUME NEW i \in Nat, i \in T
      PROVE  i + 1 \in T
  <2> SUFFICES ASSUME i + 1 <= n
               PROVE  Paced(tracker[i + 1], i + 1) /\ tracker[i + 1].last = seen
    OBVIOUS
  <2>1. i <= n /\ i + 1 \in 0 .. n /\ i + 1 # 0 /\ (i + 1) - 1 = i
    OBVIOUS
  <2>2. Paced(tracker[i], i) /\ (i > 0 => tracker[i].last = seen)
    BY <1>6, <2>1
  <2>3. tracker[i + 1] = observe(tracker[i], seen).p
    BY <1>4, <2>1
  <2> HIDE DEF T
  <2>4. CASE seen = tracker[i].last
    BY <1>3, <2>2, <2>3, <2>4, Observes
  <2>5. CASE seen # tracker[i].last
    <3>1. i = 0
      BY <2>2, <2>5
    <3> QED BY <1>3, <2>2, <2>3, <2>5, <3>1, Observes
  <2> QED BY <2>4, <2>5
<1>7. n \in T
  <2> HIDE DEF T
  <2> QED BY <1>5, <1>6, NatSetInduction
<1> QED BY <1>2, <1>7

-----------------------------------------------------------------------------
(* Nothing is counted too low *)

(* A plan that fits is a number of tokens.                                   *)
LEMMA PlanIsNatural ==
    ASSUME NEW session, NEW t, NEW tools, plan(session, t, tools) # None
    PROVE  plan(session, t, tools) \in Nat
<1> DEFINE estimate(k) == estimate_request_tokens(Compacted(session, t, k) + tools)
           fits == {k \in 0 .. session.pairs + session.chunks + Cardinality(Large(t)) :
                      estimate(k) \in 0 .. InputBudget}
<1>1. plan(session, t, tools) = IF fits = {} THEN None ELSE estimate(Min(fits))
  BY DEF plan
<1>2. \A k \in fits : k \in Nat /\ estimate(k) \in Nat
  <2> HIDE DEF estimate
  <2>1. InputBudget \in Nat
    BY ConfigAssumption
  <2> QED BY <2>1
<1> HIDE DEF estimate, fits
<1>3. fits # {} /\ fits \subseteq Nat
  BY <1>1, <1>2
<1>4. \E k \in fits : \A l \in fits : k <= l
  BY <1>3, LeastNat
<1>5. Min(fits) \in fits
  BY <1>4 DEF Min
<1> QED BY <1>1, <1>2, <1>3, <1>5

LEMMA Totals ==
    /\ max_total_input_tokens \in Nat /\ max_total_output_tokens \in Nat /\ max_output_tokens \in Nat
    /\ final_input_token_reserve \in Nat /\ final_output_token_reserve \in Nat
    /\ final_input_token_reserve < max_total_input_tokens
    /\ final_output_token_reserve < max_total_output_tokens
  BY ConfigAssumption DEF ValidConfig

LEMMA InitCounts == Init => CountInv
<1> SUFFICES ASSUME Init PROVE CountInv
  OBVIOUS
<1>1. PICK session, tools : engine = NewEngine(session, tools, 1)
  BY DEF Init
<1>2. /\ engine.input = 0 /\ engine.output = 0 /\ engine.estimate = 0 /\ engine.finalization = None
      /\ engine.fin_rounds = 0
  BY <1>1 DEF NewEngine
<1>3. pc = "retrieve" /\ outcome = None /\ digest = NoDigest /\ progress = goal.progress /\ over = FALSE
  BY DEF Init
<1>4. InRun /\ ~Spending /\ pc # "end" /\ pc # "saved"
  BY <1>3 DEF InRun, Asking, Spending
<1>5. \/ mode = "Legacy" /\ goal = NewGoal(None)
      \/ mode = "DurableSlice" /\ \E n \in Nat, limit \in Nat : goal = GoalsAt(n, limit)
  BY ConfigAssumption DEF Init
<1>6. /\ goal.same \in Nat /\ Paced(goal.progress, goal.same)
      /\ mode = "Legacy" => goal.remaining = None
      /\ mode = "DurableSlice" => goal.remaining \in Nat
  <2>1. ASSUME NEW limit
        PROVE  LET new == NewGoal(limit)
               IN  new.same = 0 /\ new.progress = FreshProgress /\ new.remaining = limit
    BY DEF NewGoal
  <2>2. ASSUME NEW n, NEW limit
        PROVE  LET stalled == Stalled(n, limit) IN stalled.same = n /\ stalled.remaining = limit
    BY DEF Stalled
  <2>3. CASE mode = "Legacy" /\ goal = NewGoal(None)
    BY <2>1, <2>3, FreshIsPaced
  <2>4. CASE mode = "DurableSlice" /\ \E n \in Nat, limit \in Nat : goal = GoalsAt(n, limit)
    <3>1. PICK n \in Nat, limit \in Nat : goal = GoalsAt(n, limit)
      BY <2>4
    <3>2. goal = NewGoal(limit) \/ goal = Stalled(n, limit)
      BY <3>1 DEF GoalsAt
    <3>3. CASE goal = NewGoal(limit)
      BY <2>1, <2>4, <3>3, FreshIsPaced
    <3>4. CASE goal = Stalled(n, limit)
      BY <2>2, <2>4, <3>4, StalledIsPaced
    <3> QED BY <3>2, <3>3, <3>4
  <2> QED BY <1>5, <2>3, <2>4
<1>7. SpendInv
  BY <1>2, <1>3, <1>4, <1>6, Totals DEF SpendInv, Money, ReserveLeft, Answered, BudgetLeft
<1>8. digest.evidence \in Seq(Evidence)
  BY <1>3, EmptySeq DEF NoDigest
<1>9. StallInv
  BY <1>3, <1>4, <1>6, <1>8 DEF StallInv, ByNow, StallsEnd
<1> QED BY <1>7, <1>9 DEF CountInv

(* A round that is begun may turn to the answer, which charges nothing.      *)
LEMMA BeginRoundCounts == LoopInv /\ CountInv /\ BeginRound => CountInv'
<1> SUFFICES ASSUME LoopInv, CountInv, BeginRound PROVE CountInv'
  OBVIOUS
<1>1. pc = "top" /\ InRun /\ mode \in {"Legacy", "DurableSlice"} /\ EngineOk(engine)
  BY DEF BeginRound, InRun, Asking, LoopInv, Types
<1>2. CASE (mode = "DurableSlice" /\ \E b \in {"Time", "RunawayGuard"} : Checkpoint(b, engine, over))
  <2>1. /\ engine.input \in Int /\ engine.output \in Int
        /\ ~over /\ engine.tools => goal.remaining >= 0 /\ engine.input + engine.output <= goal.remaining
    BY <1>2 DEF CountInv, SpendInv, Money, BudgetLeft
  <2> QED BY <1>1, <1>2, <2>1, CheckpointCounts
<1>3. CASE \E error : Fail(error)
  BY <1>1, <1>3, FailCounts DEF Fail
<1>4. CASE /\ pc' = "plan" /\ engine' = [Finalized EXCEPT !.rounds = @ + 1]
           /\ UNCHANGED <<mode, outcome, clock, cancelled, current, batch, digest, progress, waiting, prompts, permit, goal, over>>
  <2>1. /\ InRun' /\ ~Spending' /\ pc' \in Asking /\ pc \in Asking /\ pc' # "end" /\ pc' # "saved"
    BY <1>1, <1>4 DEF InRun, Asking, Spending
  <2>2. /\ EngineOk(Finalized)
        /\ Finalized.fin_rounds = engine.fin_rounds
        /\ Finalized.input = engine.input /\ Finalized.output = engine.output
        /\ Finalized.estimate = engine.estimate /\ Finalized.tools = engine.tools
        /\ mode = "DurableSlice" => Finalized.finalization = engine.finalization
        /\ engine.finalization # None => Finalized.finalization # None
    BY <1>1 DEF Finalized, start_finalization, EngineOk, EngineFields
  <2>3. /\ engine'.fin_rounds = engine.fin_rounds
        /\ engine'.input = engine.input /\ engine'.output = engine.output
        /\ engine'.estimate = engine.estimate /\ engine'.tools = engine.tools
        /\ mode = "DurableSlice" => engine'.finalization = engine.finalization
        /\ engine.finalization # None => engine'.finalization # None
    BY <1>4, <2>2 DEF EngineOk, EngineFields
  <2>4. ~Answered' => ~Answered
    BY <2>3 DEF Answered
  <2>5. SpendInv'
    BY <1>1, <1>4, <2>1, <2>3, <2>4 DEF CountInv, SpendInv, Money, ReserveLeft, BudgetLeft
  <2>6. StallInv'
    BY <1>1, <1>4, <2>1 DEF CountInv, StallInv, ByNow, StallsEnd
  <2> QED BY <2>5, <2>6 DEF CountInv
<1> QED BY <1>2, <1>3, <1>4 DEF BeginRound, TimeBoundary

(* A request is made within the reserve and the budget, or not at all.       *)
LEMMA PlanCounts == LoopInv /\ CountInv /\ Plan => CountInv'
<1> SUFFICES ASSUME LoopInv, CountInv, Plan PROVE CountInv'
  OBVIOUS
<1> DEFINE estimate == Estimate
<1>1. /\ pc = "plan" /\ InRun /\ pc \in Asking /\ mode \in {"Legacy", "DurableSlice"} /\ EngineOk(engine)
      /\ pc \notin {"end", "saved"} /\ ~Spending
  BY DEF Plan, InRun, Asking, LoopInv, Types, Spending
<1>2. /\ engine.input \in Int /\ engine.output \in Int
      /\ ~over /\ engine.tools /\ mode = "DurableSlice" =>
           goal.remaining >= 0 /\ engine.input + engine.output <= goal.remaining
  BY <1>1 DEF CountInv, SpendInv, Money, BudgetLeft
<1>3. ASSUME NEW b, SliceBoundary(estimate) = b, b # None
      PROVE  mode = "DurableSlice" /\ b \in {"InputTokens", "OutputTokens"}
  BY <1>1, <1>3 DEF SliceBoundary
<1>4. ~allows(estimate) => mode = "DurableSlice"
  BY <1>1 DEF allows, CountInv, SpendInv, Money
<1>5. ASSUME NEW r, ReserveReason(estimate) = r, r # None
      PROVE  mode = "Legacy" /\ engine.finalization = None
  BY <1>1, <1>5 DEF ReserveReason
<1>6. estimate # None => estimate \in Nat
  BY PlanIsNatural DEF Estimate
<1>7. ASSUME ReserveReason(estimate) = None, mode = "Legacy", engine.finalization = None
      PROVE  /\ ~(engine.input + estimate + final_input_token_reserve > max_total_input_tokens)
             /\ ~(engine.output + max_output_tokens + final_output_token_reserve > max_total_output_tokens)
  <2>1. "InputTokenReserve" # None /\ "OutputTokenReserve" # None
    BY NoneAssumption DEF FinalizationReason
  <2> QED BY <1>7, <2>1 DEF ReserveReason
<1>8. /\ allows(estimate) /\ goal.remaining # None => estimate + max_output_tokens <= goal.remaining
      /\ mode = "DurableSlice" => goal.remaining # None
  <2>1. mode = "DurableSlice" => goal.remaining \in Int
    BY DEF CountInv, SpendInv, Money
  <2> QED BY <2>1, NoneAssumption DEF allows
<1>9. \/ Fail("Context")
      \/ SliceBoundary(estimate) # None /\ Checkpoint(SliceBoundary(estimate), engine, over)
      \/ /\ ReserveReason(estimate) # None
         /\ engine' = start_finalization(engine, ReserveReason(estimate))
         /\ UNCHANGED <<mode, pc, outcome, clock, cancelled, current, progress, goal, over, toolVars>>
      \/ ~allows(estimate) /\ Checkpoint("Budget", engine, over)
      \/ /\ estimate # None /\ ReserveReason(estimate) = None /\ allows(estimate)
         /\ pc' = "request"
         /\ engine' = [engine EXCEPT !.estimate = estimate, !.attempt = 1,
                                     !.fin_rounds = IF engine.finalization = None THEN @ ELSE @ + 1]
         /\ UNCHANGED <<mode, outcome, clock, cancelled, current, progress, goal, over, toolVars>>
  BY DEF Plan
<1> HIDE DEF estimate
<1>10. CASE Fail("Context")
  BY <1>1, <1>10, FailCounts DEF Fail
<1>11. CASE SliceBoundary(estimate) # None /\ Checkpoint(SliceBoundary(estimate), engine, over)
  <2>1. PICK b : b = SliceBoundary(estimate)
    OBVIOUS
  <2> QED BY <1>1, <1>2, <1>3, <1>11, <2>1, CheckpointCounts
<1>12. CASE ~allows(estimate) /\ Checkpoint("Budget", engine, over)
  BY <1>1, <1>2, <1>4, <1>12, CheckpointCounts
<1>13. CASE /\ ReserveReason(estimate) # None
            /\ engine' = start_finalization(engine, ReserveReason(estimate))
            /\ UNCHANGED <<mode, pc, outcome, clock, cancelled, current, progress, goal, over, toolVars>>
  <2>1. mode = "Legacy" /\ engine.finalization = None
    BY <1>5, <1>13
  <2>2. /\ engine'.input = engine.input /\ engine'.output = engine.output /\ engine'.estimate = engine.estimate
        /\ engine'.fin_rounds = engine.fin_rounds
    BY <1>1, <1>13 DEF start_finalization, EngineOk, EngineFields
  <2>3. /\ InRun' /\ ~Spending' /\ pc' \notin {"end", "saved"}
        /\ UNCHANGED <<mode, pc, outcome, digest, progress, goal, over>>
    BY <1>1, <1>13 DEF InRun, Asking, Spending, toolVars
  <2>4. ~Answered
    BY <2>1 DEF Answered
  <2>5. SpendInv'
    BY <1>1, <2>1, <2>2, <2>3, <2>4 DEF CountInv, SpendInv, Money, ReserveLeft, BudgetLeft
  <2>6. StallInv'
    BY <1>1, <2>3 DEF CountInv, StallInv, ByNow, StallsEnd
  <2> QED BY <2>5, <2>6 DEF CountInv
<1>14. CASE /\ estimate # None /\ ReserveReason(estimate) = None /\ allows(estimate)
            /\ pc' = "request"
            /\ engine' = [engine EXCEPT !.estimate = estimate, !.attempt = 1,
                                        !.fin_rounds = IF engine.finalization = None THEN @ ELSE @ + 1]
            /\ UNCHANGED <<mode, outcome, clock, cancelled, current, progress, goal, over, toolVars>>
  <2>1. /\ engine'.input = engine.input /\ engine'.output = engine.output /\ engine'.estimate = estimate
        /\ engine'.tools = engine.tools /\ engine'.finalization = engine.finalization
        /\ engine'.fin_rounds = IF engine.finalization = None THEN engine.fin_rounds ELSE engine.fin_rounds + 1
    BY <1>1, <1>14 DEF EngineOk, EngineFields
  <2>2. /\ InRun' /\ pc' \in Asking /\ pc' \notin {"end", "saved"}
        /\ UNCHANGED <<mode, outcome, digest, progress, goal, over>>
    BY <1>1, <1>14 DEF InRun, Asking, toolVars
  <2>3. estimate \in Nat /\ engine.fin_rounds \in Nat
    BY <1>1, <1>6, <1>14 DEF EngineOk
  <2>4. Money'
    BY <1>1, <2>1, <2>2, <2>3 DEF CountInv, SpendInv, Money
  <2>5. ReserveLeft'
    <3>1. SUFFICES ASSUME mode = "Legacy", ~over, ~Answered'
                   PROVE  /\ engine.finalization = None
                          /\ engine.input + final_input_token_reserve <= max_total_input_tokens
                          /\ engine.output + final_output_token_reserve <= max_total_output_tokens
                          /\ engine.input + estimate + final_input_token_reserve <= max_total_input_tokens
                          /\ engine.output + max_output_tokens + final_output_token_reserve <= max_total_output_tokens
      BY <2>1, <2>2 DEF ReserveLeft
    <3>2. engine.finalization = None
      BY <2>1, <2>3, <3>1 DEF Answered
    <3>3. ~Answered
      BY <3>2 DEF Answered
    <3>4. /\ engine.input + final_input_token_reserve <= max_total_input_tokens
          /\ engine.output + final_output_token_reserve <= max_total_output_tokens
      BY <1>1, <3>1, <3>3 DEF CountInv, SpendInv, ReserveLeft
    <3> QED BY <1>2, <1>7, <1>14, <2>3, <3>1, <3>2, <3>4, Totals
  <2>6. BudgetLeft'
    BY <1>1, <1>8, <1>14, <2>1, <2>2 DEF CountInv, SpendInv, BudgetLeft
  <2>7. StallInv'
    BY <1>1, <2>2 DEF CountInv, StallInv, ByNow, StallsEnd
  <2> QED BY <2>4, <2>5, <2>6, <2>7 DEF CountInv, SpendInv
<1> QED BY <1>9, <1>10, <1>11, <1>12, <1>13, <1>14

(* A try that fails is tried again for the same money.                       *)
LEMMA RetryCounts == LoopInv /\ CountInv /\ (AttemptFails \/ WakeUp) => CountInv'
<1> SUFFICES ASSUME LoopInv, CountInv, AttemptFails \/ WakeUp PROVE CountInv'
  OBVIOUS
<1>1. pc \in {"request", "delay"} /\ InRun /\ EngineOk(engine)
  BY DEF AttemptFails, WakeUp, InRun, Asking, LoopInv, Types
<1>2. CASE Fail("Provider")
  BY <1>1, <1>2, FailCounts DEF Fail
<1>3. CASE /\ pc' \in {"request", "delay"}
           /\ engine' = engine \/ engine' = [engine EXCEPT !.attempt = @ + 1]
           /\ UNCHANGED <<mode, outcome, clock, cancelled, current, progress, goal, over, toolVars>>
  <2>1. InRun' /\ pc \in Asking /\ Spending
    BY <1>1, <1>3 DEF InRun, Asking, Spending
  <2>2. SameMoney(engine, engine')
    BY <1>1, <1>3 DEF SameMoney, EngineOk, EngineFields
  <2>3. digest'.evidence \in Seq(Evidence)
    BY <1>3 DEF CountInv, StallInv, toolVars
  <2> QED BY <1>1, <1>3, <2>1, <2>2, <2>3, GoingOnCounts
<1> QED BY <1>2, <1>3 DEF AttemptFails, WakeUp

(* What an answer may be charged, and what is left if it is charged no more  *)
(* than was planned for.                                                     *)
LEMMA ChargesCount ==
    ASSUME LoopInv, CountInv, pc = "request", NEW c \in Charges
    PROVE  LET e == Charged(c) IN
           /\ e.input \in Int /\ e.output \in Int /\ e.estimate = engine.estimate /\ e.tools = engine.tools
           /\ e.finalization = engine.finalization /\ e.fin_rounds = engine.fin_rounds /\ EngineOk(e)
           /\ ~Exceeds(c) => ~over
           /\ ~Exceeds(c) /\ mode = "DurableSlice" /\ engine.tools =>
                goal.remaining >= 0 /\ e.input + e.output <= goal.remaining
           /\ ~Exceeds(c) /\ mode = "Legacy" /\ ~Answered =>
                /\ engine.finalization = None
                /\ e.input + final_input_token_reserve <= max_total_input_tokens
                /\ e.output + final_output_token_reserve <= max_total_output_tokens
<1> DEFINE e == Charged(c)
<1>1. EngineOk(engine) /\ InRun /\ Spending /\ pc \in Asking
  BY DEF LoopInv, Types, InRun, Asking, Spending
<1>2. /\ e.input = engine.input + c[1] /\ e.output = engine.output + c[2]
      /\ e.estimate = engine.estimate /\ e.tools = engine.tools
      /\ e.finalization = engine.finalization /\ e.fin_rounds = engine.fin_rounds /\ EngineOk(e)
  BY <1>1 DEF Charged, EngineOk, EngineFields
<1> HIDE DEF e
<1>3. engine.input \in Int /\ engine.output \in Int /\ engine.estimate \in Int
  BY DEF CountInv, SpendInv, Money
<1>4. c[1] \in Int /\ c[2] \in Int
  <2>1. c \in {<<1, 1>>, <<engine.estimate, max_output_tokens>>, <<engine.estimate + 1, max_output_tokens + 1>>}
    BY DEF Charges
  <2> QED BY <1>3, <2>1, Totals
<1>5. e.input \in Int /\ e.output \in Int
  BY <1>2, <1>3, <1>4
<1>6. ~Exceeds(c) => ~over /\ c[1] <= engine.estimate /\ c[2] <= max_output_tokens
  BY <1>3, <1>4, Totals DEF Exceeds
<1>7. ASSUME ~Exceeds(c), mode = "DurableSlice", engine.tools
      PROVE  goal.remaining >= 0 /\ e.input + e.output <= goal.remaining
  <2>1. /\ goal.remaining >= 0 /\ engine.input = 0 /\ engine.output = 0
        /\ engine.estimate + max_output_tokens <= goal.remaining /\ goal.remaining \in Int
    BY <1>1, <1>6, <1>7 DEF CountInv, SpendInv, Money, BudgetLeft
  <2> QED BY <1>2, <1>3, <1>4, <1>6, <1>7, <2>1, Totals
<1>8. ASSUME ~Exceeds(c), mode = "Legacy", ~Answered
      PROVE  /\ engine.finalization = None
             /\ e.input + final_input_token_reserve <= max_total_input_tokens
             /\ e.output + final_output_token_reserve <= max_total_output_tokens
  <2>1. /\ engine.finalization = None
        /\ engine.input + engine.estimate + final_input_token_reserve <= max_total_input_tokens
        /\ engine.output + max_output_tokens + final_output_token_reserve <= max_total_output_tokens
    BY <1>1, <1>6, <1>8 DEF CountInv, SpendInv, ReserveLeft
  <2> QED BY <1>2, <1>3, <1>4, <1>6, <1>8, <2>1, Totals
<1> QED BY <1>2, <1>5, <1>6, <1>7, <1>8 DEF e

(* An answer is charged and the run goes on: a slice with tools to execute   *)
(* them.                                                                     *)
LEMMA ChargedGoesOn ==
    ASSUME LoopInv, CountInv, pc = "request", NEW c \in Charges,
           engine'.input = Charged(c).input, engine'.output = Charged(c).output,
           engine'.estimate = engine.estimate, engine'.tools = engine.tools,
           engine'.fin_rounds = engine.fin_rounds,
           engine'.finalization = engine.finalization \/ (mode = "Legacy" /\ engine'.finalization # None),
           pc' \in {"top", "batch"}, mode = "DurableSlice" /\ engine.tools => pc' = "batch",
           over' = Exceeds(c), UNCHANGED <<mode, outcome, digest, progress, goal>>
    PROVE  CountInv'
<1> DEFINE e == Charged(c)
<1>1. /\ e.input \in Int /\ e.output \in Int
      /\ ~over' => ~over
      /\ ~over' /\ mode = "DurableSlice" /\ engine.tools =>
           goal.remaining >= 0 /\ e.input + e.output <= goal.remaining
      /\ ~over' /\ mode = "Legacy" /\ ~Answered =>
           /\ e.input + final_input_token_reserve <= max_total_input_tokens
           /\ e.output + final_output_token_reserve <= max_total_output_tokens
  BY ChargesCount
<1>2. engine'.input = e.input /\ engine'.output = e.output
  OBVIOUS
<1> HIDE DEF e
<1>3. InRun /\ InRun' /\ ~Spending' /\ pc' \notin {"end", "saved"} /\ pc \notin {"end", "saved"}
      /\ (pc' \in Asking => pc' = "top") /\ mode \in {"Legacy", "DurableSlice"}
  BY DEF InRun, Asking, Executing, Holding, Spending, LoopInv, Types
<1>4. ~Answered' => ~Answered
  BY DEF Answered
<1>5. Money'
  BY <1>1, <1>2, <1>3 DEF CountInv, SpendInv, Money
<1>6. ReserveLeft'
  BY <1>1, <1>2, <1>3, <1>4 DEF ReserveLeft
<1>7. BudgetLeft'
  BY <1>1, <1>2, <1>3 DEF BudgetLeft
<1>8. StallInv'
  BY <1>3 DEF CountInv, StallInv, ByNow, StallsEnd
<1> QED BY <1>5, <1>6, <1>7, <1>8 DEF CountInv, SpendInv

LEMMA AnswerCounts == LoopInv /\ CountInv /\ (Overspends \/ FinalText) => CountInv'
<1> SUFFICES ASSUME LoopInv, CountInv, Overspends \/ FinalText PROVE CountInv'
  OBVIOUS
<1>1. pc = "request" /\ InRun
  BY DEF Overspends, FinalText, InRun, Asking
<1>2. PICK c \in Charges :
         \/ \E error : FailCharged(error, Exceeds(c))
         \/ /\ Leave(Charged(c)) /\ outcome' = Ended("candidate", None, None, 0) /\ over' = Exceeds(c)
            /\ UNCHANGED <<mode, current, progress, goal, waiting, prompts>>
  BY DEF Overspends, FinalText
<1>3. /\ Charged(c).input \in Int /\ Charged(c).output \in Int /\ Charged(c).tools = engine.tools
      /\ ~Exceeds(c) => ~over
      /\ ~Exceeds(c) /\ mode = "DurableSlice" /\ engine.tools =>
           goal.remaining >= 0 /\ Charged(c).input + Charged(c).output <= goal.remaining
  BY <1>1, ChargesCount
<1>4. CASE \E error : FailCharged(error, Exceeds(c))
  BY <1>1, <1>3, <1>4, FailCounts
<1>5. CASE /\ Leave(Charged(c)) /\ outcome' = Ended("candidate", None, None, 0) /\ over' = Exceeds(c)
           /\ UNCHANGED <<mode, current, progress, goal, waiting, prompts>>
  <2>1. Paced(progress', goal.same)
    BY <1>1, <1>5 DEF CountInv, StallInv, ByNow
  <2> QED BY <1>1, <1>3, <1>5, <2>1, EndCounts
<1> QED BY <1>2, <1>4, <1>5

(* Calls are charged whether they are executed or not.                       *)
LEMMA ToolCallsCounts == LoopInv /\ CountInv /\ ToolCalls => CountInv'
<1> SUFFICES ASSUME LoopInv, CountInv, ToolCalls PROVE CountInv'
  OBVIOUS
<1>1. pc = "request" /\ InRun /\ mode \in {"Legacy", "DurableSlice"}
  BY DEF ToolCalls, InRun, Asking, LoopInv, Types
<1>2. PICK c \in Charges, calls \in Batches :
         LET e == [Charged(c) EXCEPT !.seen = @ \cup Ids(calls)]
         IN  \/ ~ToolsEnabled /\ ToolFree(Charged(c), Exceeds(c))
             \/ FailCharged("InvalidToolCall", Exceeds(c))
             \/ TooMany(e, Exceeds(c))
             \/ TakeBatch(e, Exceeds(c), calls)
  BY DEF ToolCalls
<1> DEFINE p == Charged(c)
           e == [p EXCEPT !.seen = @ \cup Ids(calls)]
<1>3. /\ p.input \in Int /\ p.output \in Int /\ p.estimate = engine.estimate /\ p.tools = engine.tools
      /\ p.finalization = engine.finalization /\ p.fin_rounds = engine.fin_rounds /\ EngineOk(p)
      /\ ~Exceeds(c) => ~over
      /\ ~Exceeds(c) /\ mode = "DurableSlice" /\ engine.tools =>
           goal.remaining >= 0 /\ p.input + p.output <= goal.remaining
  BY <1>1, ChargesCount
<1>4. /\ e.input = p.input /\ e.output = p.output /\ e.estimate = p.estimate /\ e.tools = p.tools
      /\ e.finalization = p.finalization /\ e.fin_rounds = p.fin_rounds /\ DOMAIN e = EngineFields
  BY <1>3 DEF EngineOk, EngineFields
<1>5. mode = "DurableSlice" /\ engine.tools => ToolsEnabled
  BY DEF ToolsEnabled, CountInv, SpendInv, Money
<1>6. CASE ~ToolsEnabled /\ ToolFree(p, Exceeds(c))
  <2>1. CASE FailCharged("LoopExhausted", Exceeds(c))
    BY <1>1, <1>3, <2>1, FailCounts
  <2>2. CASE /\ pc' = "top" /\ engine' = p /\ over' = Exceeds(c)
             /\ UNCHANGED <<mode, outcome, clock, cancelled, progress, goal, toolVars>>
    <3>1. ~(mode = "DurableSlice" /\ engine.tools) /\ UNCHANGED digest
      BY <1>5, <1>6, <2>2 DEF toolVars
    <3> QED BY <1>1, <1>3, <2>2, <3>1, ChargedGoesOn
  <2> QED BY <1>6, <2>1, <2>2 DEF ToolFree
<1>7. CASE FailCharged("InvalidToolCall", Exceeds(c))
  BY <1>1, <1>3, <1>7, FailCounts
<1>8. CASE TooMany(e, Exceeds(c))
  <2>1. CASE mode = "DurableSlice" /\ Checkpoint("RunawayGuard", e, Exceeds(c))
    <3> HIDE DEF e, p
    <3> QED BY <1>1, <1>3, <1>4, <2>1, CheckpointCounts
  <2>2. CASE /\ mode = "Legacy" /\ pc' = "top" /\ engine' = start_finalization(e, "ToolCallFuse") /\ over' = Exceeds(c)
             /\ UNCHANGED <<mode, outcome, clock, cancelled, current, progress, goal, toolVars>>
    <3> HIDE DEF e
    <3>1. /\ engine'.input = e.input /\ engine'.output = e.output /\ engine'.estimate = e.estimate
          /\ engine'.tools = e.tools /\ engine'.fin_rounds = e.fin_rounds
          /\ engine'.finalization = IF e.finalization = None THEN "ToolCallFuse" ELSE e.finalization
      BY <1>4, <2>2 DEF start_finalization, EngineFields
    <3>2. "ToolCallFuse" # None
      BY NoneAssumption DEF FinalizationReason
    <3>3. engine'.finalization # None
      BY <3>1, <3>2
    <3>4. UNCHANGED <<mode, outcome, digest, progress, goal>>
      BY <2>2 DEF toolVars
    <3>5. /\ engine'.input = Charged(c).input /\ engine'.output = Charged(c).output
          /\ engine'.estimate = engine.estimate /\ engine'.tools = engine.tools
          /\ engine'.fin_rounds = engine.fin_rounds
      BY <1>3, <1>4, <3>1
    <3> HIDE DEF p
    <3> QED BY <1>1, <2>2, <3>3, <3>4, <3>5, ChargedGoesOn
  <2> QED BY <1>1, <1>8, <2>1, <2>2 DEF TooMany
<1>9. CASE TakeBatch(e, Exceeds(c), calls)
  <2>1. /\ pc' = "batch" /\ engine' = [e EXCEPT !.tool_calls = @ + Len(calls)] /\ over' = Exceeds(c)
        /\ UNCHANGED <<mode, outcome, digest, progress, goal>>
    BY <1>9 DEF TakeBatch
  <2> HIDE DEF e
  <2>2. /\ engine'.input = e.input /\ engine'.output = e.output /\ engine'.estimate = e.estimate
        /\ engine'.tools = e.tools /\ engine'.fin_rounds = e.fin_rounds /\ engine'.finalization = e.finalization
    BY <1>4, <2>1 DEF EngineFields
  <2>3. /\ engine'.input = Charged(c).input /\ engine'.output = Charged(c).output
        /\ engine'.estimate = engine.estimate /\ engine'.tools = engine.tools
        /\ engine'.fin_rounds = engine.fin_rounds /\ engine'.finalization = engine.finalization
    BY <1>3, <1>4, <2>2
  <2> HIDE DEF p
  <2> QED BY <1>1, <2>1, <2>3, ChargedGoesOn
<1> QED BY <1>2, <1>6, <1>7, <1>8, <1>9

(* Execution charges nothing.                                                *)
LEMMA ExecutesInRun ==
    ASSUME LoopInv, pc \in Executing, pc' \in Executing
    PROVE  InRun /\ InRun' /\ pc' \notin Asking /\ ~Spending'
  BY DEF InRun, Asking, Executing, Holding, Spending

LEMMA ExecutingCounts ==
    ASSUME LoopInv, CountInv, pc \in Executing, pc' \in Executing, UNCHANGED <<mode, outcome, engine, digest, progress, goal, over>>
    PROVE  CountInv'
<1>1. InRun /\ InRun' /\ pc' \notin Asking /\ ~Spending'
  BY ExecutesInRun
<1>2. SameMoney(engine, engine')
  BY DEF SameMoney
<1>3. digest'.evidence \in Seq(Evidence)
  BY DEF CountInv, StallInv
<1> QED BY <1>1, <1>2, <1>3, GoingOnCounts

LEMMA ReturnedCounts ==
    ASSUME LoopInv, CountInv, pc \in Executing, batch # <<>>, NEW c,
           NEW content \in {"no", "a", "b", "written"}, NEW receipt \in {None} \cup (Nat \X Nat), NEW size,
           Returned(c, content, receipt, size)
    PROVE  CountInv'
<1>1. /\ pc' = "batch" /\ UNCHANGED <<mode, outcome, progress, goal, over>>
      /\ engine' = [engine EXCEPT !.bytes = @ + size]
      /\ digest'.evidence = Append(digest.evidence, <<This.tool, content, receipt>>)
  BY DEF Returned
<1>2. InRun /\ InRun' /\ pc' \notin Asking /\ ~Spending'
  BY <1>1, ExecutesInRun DEF Executing
<1>3. SameMoney(engine, engine')
  BY <1>1 DEF SameMoney, LoopInv, Types, EngineOk, EngineFields
<1>4. This.tool \in Tool \cup {"unknown"}
  <2>1. This \in ToolCall
    BY BatchParts DEF LoopInv, Types
  <2> QED BY <2>1 DEF ToolCall
<1>5. <<This.tool, content, receipt>> \in Evidence
  BY <1>4 DEF Evidence
<1>6. digest.evidence \in Seq(Evidence)
  BY DEF CountInv, StallInv
<1>7. digest'.evidence \in Seq(Evidence)
  BY <1>1, <1>5, <1>6, AppendProperties
<1> QED BY <1>1, <1>2, <1>3, <1>7, GoingOnCounts

LEMMA ExecuteCounts == LoopInv /\ CountInv /\ Execute => CountInv'
<1> SUFFICES ASSUME LoopInv, CountInv, Execute PROVE CountInv'
  OBVIOUS
<1>1. pc \in Executing /\ batch # <<>> /\ InRun
  BY DEF Execute, Executing, InRun
<1>2. CASE \E c : Returned(c, "no", None, 1)
  BY <1>1, <1>2, ReturnedCounts
<1>3. CASE \E error : Fail(error)
  BY <1>1, <1>3, FailCounts DEF Fail
<1>4. CASE pc' \in {"ask", "prepare"} /\ UNCHANGED <<mode, outcome, engine, digest, progress, goal, over>>
  <2>1. pc' \in Executing
    BY <1>4 DEF Executing, Holding
  <2> QED BY <1>1, <1>4, <2>1, ExecutingCounts
<1> QED BY <1>2, <1>3, <1>4 DEF Execute, Ask

LEMMA UserAnswersCounts == LoopInv /\ CountInv /\ UserAnswers => CountInv'
<1> SUFFICES ASSUME LoopInv, CountInv, UserAnswers PROVE CountInv'
  OBVIOUS
<1>1. CASE UNCHANGED <<mode, pc, outcome, engine, digest, progress, goal, over>>
  BY <1>1, StandingCounts
<1>2. ASSUME waiting # None PROVE pc \in Executing /\ pc \in Holding /\ batch # <<>>
  BY <1>2 DEF LoopInv, RequestsSound, CallsLeft, Executing, Holding
<1>3. CASE waiting # None /\ Returned(counters, "no", None, 1)
  BY <1>2, <1>3, ReturnedCounts
<1>4. CASE waiting # None /\ pc' = "prepare" /\ UNCHANGED <<mode, outcome, engine, digest, progress, goal, over>>
  <2>1. pc' \in Executing
    BY <1>4 DEF Executing, Holding
  <2> QED BY <1>2, <1>4, <2>1, ExecutingCounts
<1> QED BY <1>1, <1>3, <1>4 DEF UserAnswers, Awaited

LEMMA PrepareCounts == LoopInv /\ CountInv /\ Prepare => CountInv'
<1> SUFFICES ASSUME LoopInv, CountInv, Prepare PROVE CountInv'
  OBVIOUS
<1>1. pc = "prepare" /\ pc \in Executing /\ pc \in Holding /\ InRun
  BY DEF Prepare, Executing, Holding, InRun
<1>2. batch # <<>>
  BY <1>1 DEF LoopInv, CallsLeft
<1>3. CASE \E error : Fail(error)
  BY <1>1, <1>3, FailCounts DEF Fail
<1>4. CASE Returned(WithBytes(1), "no", None, 1)
  BY <1>1, <1>2, <1>4, ReturnedCounts
<1>5. CASE /\ pc' = "exec"
           /\ UNCHANGED <<mode, outcome, clock, cancelled, engine, current, progress, goal, over, toolVars>>
  <2>1. pc' \in Executing /\ UNCHANGED digest
    BY <1>5 DEF Executing, Holding, toolVars
  <2> QED BY <1>1, <1>5, <2>1, ExecutingCounts
<1> QED BY <1>3, <1>4, <1>5 DEF Prepare

LEMMA ExecCounts == LoopInv /\ CountInv /\ Exec => CountInv'
<1> SUFFICES ASSUME LoopInv, CountInv, Exec PROVE CountInv'
  OBVIOUS
<1>1. pc = "exec" /\ pc \in Executing /\ pc \in Holding /\ InRun
  BY DEF Exec, Executing, Holding, InRun
<1>2. batch # <<>>
  BY <1>1 DEF LoopInv, CallsLeft
<1>3. This.id \in Nat /\ goal.sequence \in Nat
  <2>1. This \in ToolCall
    BY <1>2, BatchParts DEF LoopInv, Types
  <2> QED BY <2>1 DEF ToolCall, LoopInv, Types
<1>4. ASSUME NEW content \in {"no", "a", "b", "written"}, NEW receipt \in {None} \cup (Nat \X Nat), NEW size,
             Output(content, receipt, size)
      PROVE  CountInv'
  <2>1. Fail("result_bytes") \/ \E c, n : Returned(c, content, receipt, n)
    BY <1>4 DEF Output
  <2>2. CASE Fail("result_bytes")
    BY <1>1, <2>2, FailCounts DEF Fail
  <2> QED BY <1>1, <1>2, <1>4, <2>1, <2>2, ReturnedCounts
<1>5. CASE Fail("persistence")
  BY <1>1, <1>5, FailCounts DEF Fail
<1>6. CASE \E content \in {"a", "b"} : Output(content, None, 2)
  BY <1>4, <1>6
<1>7. CASE Output("written", <<goal.sequence, This.id>>, 1)
  BY <1>3, <1>4, <1>7
<1>8. CASE Output("no", None, 1)
  BY <1>4, <1>8
<1> QED BY <1>5, <1>6, <1>7, <1>8 DEF Exec

(* The batch of a slice is judged; a turn that repeats itself turns to its   *)
(* answer.                                                                   *)
LEMMA BatchDoneCounts == LoopInv /\ CountInv /\ BatchDone => CountInv'
<1> SUFFICES ASSUME LoopInv, CountInv, BatchDone PROVE CountInv'
  OBVIOUS
<1> DEFINE e == Repeated(engine)
<1>1. /\ pc = "batch" /\ InRun /\ EngineOk(engine) /\ mode \in {"Legacy", "DurableSlice"} /\ pc \notin Asking
      /\ pc \notin {"end", "saved"}
      /\ UNCHANGED <<mode, goal, over>>
  BY DEF BatchDone, LoopInv, Types, InRun, Asking, Executing
<1>2. CASE mode = "DurableSlice"
  <2> DEFINE seen == observe(progress, digest.evidence)
             same == IF digest.evidence = progress.last THEN goal.same + 1 ELSE 1
  <2>1. Leave(engine) /\ progress' = seen.p
        /\ outcome' = Ended("checkpoint", None, ProgressBoundary(seen.action), same)
    BY <1>2 DEF BatchDone
  <2>2. /\ goal.same \in Nat /\ Paced(progress, goal.same) /\ digest.evidence \in Seq(Evidence)
    BY <1>1 DEF CountInv, StallInv, ByNow
  <2>3. /\ Paced(seen.p, same)
        /\ seen.action = "RecoverySlice" <=> same = 5
        /\ seen.action = "Block" <=> same >= 7
    BY <2>2, Observes
  <2>4. same \in Nat /\ same # 0
    BY <2>2
  <2> HIDE DEF seen, same
  <2>5. /\ ProgressBoundary(seen.action) = "NoProgressRecovery" <=> same = 5
        /\ ProgressBoundary(seen.action) = "NoProgressBlocked" <=> same >= 7
    <3>1. ProgressBoundary(seen.action) = "NoProgressRecovery" <=> seen.action = "RecoverySlice"
      BY DEF ProgressBoundary
    <3>2. ProgressBoundary(seen.action) = "NoProgressBlocked" <=> seen.action = "Block"
      BY DEF ProgressBoundary
    <3> QED BY <2>3, <3>1, <3>2
  <2>6. /\ engine.input \in Int /\ engine.output \in Int
        /\ ~over' /\ engine.tools => goal.remaining >= 0 /\ engine.input + engine.output <= goal.remaining
    BY <1>1, <1>2 DEF CountInv, SpendInv, Money, BudgetLeft
  <2> QED BY <1>1, <1>2, <2>1, <2>3, <2>4, <2>5, <2>6, EndCounts
<1>3. CASE mode = "Legacy"
  <2>1. /\ pc' = "top" /\ digest' = NoDigest /\ UNCHANGED <<outcome, progress>>
        /\ engine' = IF e.repeated >= max_repeated_tool_batches THEN start_finalization(e, "NoProgress") ELSE e
    BY <1>3 DEF BatchDone
  <2>2. /\ SameMoney(engine, e) /\ DOMAIN e = EngineFields
    BY <1>1 DEF Repeated, SameMoney, EngineOk, EngineFields
  <2> HIDE DEF e
  <2>3. /\ engine'.input = engine.input /\ engine'.output = engine.output /\ engine'.estimate = engine.estimate
        /\ engine'.fin_rounds = engine.fin_rounds
        /\ engine.finalization # None => engine'.finalization # None
    BY <2>1, <2>2 DEF start_finalization, SameMoney, EngineFields
  <2>4. /\ InRun' /\ ~Spending' /\ pc' \notin {"end", "saved"}
    BY <2>1 DEF InRun, Asking, Spending
  <2>5. ~Answered' => ~Answered
    BY <2>3 DEF Answered
  <2>6. SpendInv'
    BY <1>1, <1>3, <2>1, <2>3, <2>4, <2>5 DEF CountInv, SpendInv, Money, ReserveLeft, BudgetLeft
  <2>7. digest'.evidence \in Seq(Evidence)
    BY <2>1, EmptySeq DEF NoDigest
  <2>8. StallInv'
    BY <1>1, <2>1, <2>4, <2>7 DEF CountInv, StallInv, ByNow, StallsEnd
  <2> QED BY <2>6, <2>8 DEF CountInv
<1> QED BY <1>1, <1>2, <1>3

(* What a slice has charged is taken from the budget, and the compaction is  *)
(* paid from what is left.                                                   *)
LEMMA CompactionsCost ==
    ASSUME NEW t, NEW left \in Int, NEW kept \in Compactions(t, left)
    PROVE  kept.cost \in Nat /\ (kept.cost = 0 \/ left - kept.cost >= 0)
<1>1. \A s, cost, summary : Kept(s, cost, summary).cost = cost
  BY DEF Kept
<1>2. \/ kept = Kept(t, 0, FALSE)
      \/ CompactionQuote <= left /\ \E s, summary : kept = Kept(s, 2, summary)
  BY DEF Compactions
<1>3. CASE kept = Kept(t, 0, FALSE)
  BY <1>3 DEF Kept
<1>4. CASE CompactionQuote <= left /\ \E s, summary : kept = Kept(s, 2, summary)
  <2>1. kept.cost = 2
    BY <1>1, <1>4
  <2> QED BY <1>4, <2>1 DEF CompactionQuote
<1> QED BY <1>2, <1>3, <1>4

LEMMA SaveCounts == LoopInv /\ CountInv /\ Save => CountInv'
<1> SUFFICES ASSUME LoopInv, CountInv, Save PROVE CountInv'
  OBVIOUS
<1>1. /\ pc = "end" /\ pc' = "saved" /\ outcome.kind = "checkpoint"
      /\ engine' = NewEngine(engine.session, engine.tools, engine.tries)
      /\ UNCHANGED <<mode, outcome, progress, over, digest>>
  BY DEF Save, toolVars
<1>2. ~InRun /\ ~InRun' /\ ~Spending' /\ pc' \notin Asking /\ pc' # "end"
  BY <1>1 DEF InRun, Asking, Executing, Holding, Spending
<1>3. mode = "DurableSlice" /\ goal.remaining \in Int
  BY <1>1 DEF CountInv, SpendInv, Money, LoopInv, Types
<1>4. /\ engine.input \in Int /\ engine.output \in Int /\ request_budget \in Int
      /\ ~over /\ engine.tools => request_budget >= 0
  BY <1>3 DEF CountInv, SpendInv, Money, BudgetLeft, request_budget
<1>5. PICK cost : /\ cost \in Nat /\ (cost = 0 \/ request_budget - cost >= 0)
                  /\ goal'.remaining = request_budget - cost
                  /\ goal'.progress = progress
                  /\ goal'.same = IF outcome.same = 0 THEN goal.same ELSE outcome.same
  <2>1. PICK boundary \in Promoted(outcome.boundary) :
        \E kept \in IF boundary \in {"AtomicStep", "Budget"} THEN {Kept(current, 0, FALSE)}
                    ELSE Compactions(current, request_budget) :
          goal' = [current |-> IF boundary = "NoProgressRecovery" THEN Append(kept.current, System) ELSE kept.current,
                   summary |-> goal.summary \/ kept.summary,
                   progress |-> progress, same |-> IF outcome.same = 0 THEN goal.same ELSE outcome.same,
                   sequence |-> goal.sequence + 1, remaining |-> request_budget - kept.cost,
                   blocked |-> IF boundary \in Blocks THEN boundary ELSE None]
    BY DEF Save
  <2>2. PICK kept \in IF boundary \in {"AtomicStep", "Budget"} THEN {Kept(current, 0, FALSE)}
                      ELSE Compactions(current, request_budget) :
          goal' = [current |-> IF boundary = "NoProgressRecovery" THEN Append(kept.current, System) ELSE kept.current,
                   summary |-> goal.summary \/ kept.summary,
                   progress |-> progress, same |-> IF outcome.same = 0 THEN goal.same ELSE outcome.same,
                   sequence |-> goal.sequence + 1, remaining |-> request_budget - kept.cost,
                   blocked |-> IF boundary \in Blocks THEN boundary ELSE None]
    BY <2>1
  <2>3. kept = Kept(current, 0, FALSE) \/ kept \in Compactions(current, request_budget)
    BY <2>2
  <2>4. kept.cost \in Nat /\ (kept.cost = 0 \/ request_budget - kept.cost >= 0)
    <3>1. CASE kept = Kept(current, 0, FALSE)
      BY <3>1 DEF Kept
    <3>2. CASE kept \in Compactions(current, request_budget)
      BY <1>4, <3>2, CompactionsCost
    <3> QED BY <2>3, <3>1, <3>2
  <2>5. /\ goal'.remaining = request_budget - kept.cost /\ goal'.progress = progress
        /\ goal'.same = IF outcome.same = 0 THEN goal.same ELSE outcome.same
    BY <2>2
  <2> QED BY <2>4, <2>5
<1>6. engine'.input = 0 /\ engine'.output = 0 /\ engine'.estimate = 0 /\ engine'.tools = engine.tools
      /\ engine'.finalization = None
  BY <1>1 DEF NewEngine
<1>7. goal'.remaining \in Int /\ (~over /\ engine.tools => goal'.remaining >= 0)
  BY <1>4, <1>5
<1>8. SpendInv'
  BY <1>1, <1>2, <1>3, <1>6, <1>7 DEF SpendInv, Money, ReserveLeft, BudgetLeft
<1>9. goal'.same = ByNow /\ ByNow \in Nat /\ Paced(progress, ByNow)
  BY <1>1, <1>2, <1>5 DEF CountInv, StallInv, ByNow
<1>10. ByNow' = goal'.same
  BY <1>1, <1>2, <1>5 DEF ByNow
<1>11. StallInv'
  BY <1>1, <1>2, <1>5, <1>9, <1>10 DEF CountInv, StallInv, StallsEnd
<1> QED BY <1>8, <1>11 DEF CountInv

LEMMA NextSliceCounts == LoopInv /\ CountInv /\ NextSlice => CountInv'
<1> SUFFICES ASSUME LoopInv, CountInv, NextSlice PROVE CountInv'
  OBVIOUS
<1>1. /\ mode = "DurableSlice" /\ pc' = "retrieve" /\ outcome' = None /\ progress' = goal.progress
      /\ engine' = NewEngine(engine.session, engine.tools, engine.tries + 1)
      /\ UNCHANGED <<mode, goal, over, digest>>
  BY DEF NextSlice
<1>2. InRun' /\ ~Spending' /\ pc' \notin {"end", "saved"}
  BY <1>1 DEF InRun, Asking, Spending
<1>3. engine'.input = 0 /\ engine'.output = 0 /\ engine'.estimate = 0 /\ engine'.tools = engine.tools
      /\ engine'.finalization = None
  BY <1>1 DEF NewEngine
<1>4. SpendInv'
  BY <1>1, <1>2, <1>3 DEF CountInv, SpendInv, Money, ReserveLeft, BudgetLeft
<1>5. StallInv'
  BY <1>1, <1>2 DEF CountInv, StallInv, ByNow, StallsEnd
<1> QED BY <1>4, <1>5 DEF CountInv

LEMMA CountInvariant == Spec => []CountInv
<1>1. LoopInv /\ CountInv /\ [Next]_vars => CountInv'
  <2> SUFFICES ASSUME LoopInv, CountInv, [Next]_vars PROVE CountInv'
    OBVIOUS
  <2>1. CASE UNCHANGED <<mode, pc, outcome, engine, digest, progress, goal, over>>
    BY <2>1, StandingCounts
  <2>2. CASE Tick \/ Cancel \/ UNCHANGED vars
    BY <2>1, <2>2 DEF Tick, Cancel, toolVars, vars
  <2>3. CASE SeeCancel \/ TurnTimeout \/ ApprovalTimeout \/ ToolTimeout
    <3>1. InRun
      BY <2>3 DEF SeeCancel, TurnTimeout, ApprovalTimeout, ToolTimeout, Waits, InRun, Asking, Executing, Holding
    <3>2. \E error : FailCharged(error, over)
      BY <2>3 DEF SeeCancel, TurnTimeout, ApprovalTimeout, ToolTimeout, Fail
    <3> QED BY <3>1, <3>2, FailCounts
  <2>4. CASE Retrieve
    <3>1. pc = "retrieve" /\ InRun /\ pc \in Asking
      BY <2>4 DEF Retrieve, InRun, Asking
    <3>2. CASE Fail("Retrieval")
      BY <3>1, <3>2, FailCounts DEF Fail
    <3>3. CASE /\ pc' = "top"
               /\ UNCHANGED <<mode, outcome, clock, cancelled, engine, current, progress, goal, over, toolVars>>
      <4>1. InRun' /\ ~Spending' /\ SameMoney(engine, engine') /\ digest' = digest
        BY <3>3 DEF InRun, Asking, Spending, SameMoney, toolVars
      <4>2. digest'.evidence \in Seq(Evidence)
        BY <4>1 DEF CountInv, StallInv
      <4> QED BY <3>1, <3>3, <4>1, <4>2, GoingOnCounts
    <3> QED BY <2>4, <3>2, <3>3 DEF Retrieve
  <2>5. CASE Round
    BY <2>5, BeginRoundCounts, PlanCounts, RetryCounts, AnswerCounts, ToolCallsCounts DEF Round
  <2>6. CASE Execute \/ UserAnswers \/ Prepare \/ Exec \/ BatchDone
    BY <2>6, ExecuteCounts, UserAnswersCounts, PrepareCounts, ExecCounts, BatchDoneCounts
  <2>7. CASE Save \/ NextSlice
    BY <2>7, SaveCounts, NextSliceCounts
  <2> QED BY <2>2, <2>3, <2>4, <2>5, <2>6, <2>7 DEF Next, Batch
<1> QED BY <1>1, InitCounts, LoopInvariant, PTL DEF Spec

(* As long as no answer is charged more than was planned for, a turn that    *)
(* turns to its answer has its reserve, and no goal of a provider with tools *)
(* is charged past its budget, in whatever slice.                            *)
THEOREM ReserveAlwaysKept == Spec => []ReserveKept
<1>1. LoopInv /\ CountInv => ReserveKept
  <2> SUFFICES ASSUME LoopInv, CountInv, ~over PROVE ReserveKept
    BY DEF ReserveKept
  <2>1. ASSUME mode = "Legacy", engine.finalization # None, engine.fin_rounds = 0
        PROVE  /\ engine.input + final_input_token_reserve <= max_total_input_tokens
               /\ engine.output + final_output_token_reserve <= max_total_output_tokens
    <3>1. CASE InRun
      BY <2>1, <3>1 DEF CountInv, SpendInv, ReserveLeft, Answered
    <3>2. CASE ~InRun
      BY <2>1, <3>2 DEF CountInv, SpendInv, Money, LoopInv, RoundsLeft
    <3> QED BY <3>1, <3>2
  <2>2. mode = "DurableSlice" /\ engine.tools => goal.remaining >= 0
    BY DEF CountInv, SpendInv, BudgetLeft
  <2> QED BY <2>1, <2>2 DEF ReserveKept
<1> QED BY <1>1, LoopInvariant, CountInvariant, PTL

(* A goal that learns nothing gets its recovery slice after five equal       *)
(* batches and is blocked from the seventh on, whatever fails in between.    *)
THEOREM StallsAlwaysEnd == Spec => []StallsEnd
<1>1. CountInv => StallsEnd
  BY DEF CountInv, StallInv
<1> QED BY <1>1, CountInvariant, PTL

-----------------------------------------------------------------------------
(* The transcripts that are handed on *)

(* A transcript: a sequence of items with the ids they name, whose headers   *)
(* come first.                                                               *)
Entries(t) == (\E S : t \in Seq(S)) /\ \A i \in DOMAIN t : t[i].ids \in Seq(Nat)
HeadersFirst(t) == \A i \in DOMAIN t : t[i].kind = "header" => \A j \in 1 .. i : t[j].kind = "header"
(* The results that are still to come.                                       *)
Results(calls) == [k \in DOMAIN calls |-> ToolResult(calls[k].id, 1)]

(* With the results that are still to come every call of the run has its     *)
(* results; what is handed on has them already.                              *)
HandInv ==
    /\ pc \notin Executing => batch = <<>>
    /\ Entries(current) /\ HeadersFirst(current) /\ Paired(current \o Results(batch))
    /\ Entries(goal.current) /\ HeadersFirst(goal.current) /\ Paired(goal.current)
(* What is appended stands at the end.                                       *)
LEMMA Appended ==
    ASSUME NEW t, NEW x, Entries(t), x.ids \in Seq(Nat)
    PROVE  /\ Entries(Append(t, x)) /\ Len(t) \in Nat /\ Len(Append(t, x)) = Len(t) + 1
           /\ DOMAIN t = 1 .. Len(t) /\ DOMAIN Append(t, x) = 1 .. Len(t) + 1
           /\ Append(t, x)[Len(t) + 1] = x
           /\ \A i \in 1 .. Len(t) : Append(t, x)[i] = t[i]
<1>1. PICK S : t \in Seq(S)
  BY DEF Entries
<1> DEFINE U == S \cup {x}
<1>2. t \in Seq(U) /\ x \in U
  BY <1>1
<1> HIDE DEF U
<1>3. Append(t, x) \in Seq(U) /\ Len(t) \in Nat /\ Len(Append(t, x)) = Len(t) + 1 /\ DOMAIN t = 1 .. Len(t)
  BY <1>2
<1>4. DOMAIN Append(t, x) = 1 .. Len(t) + 1
  BY <1>3
<1>5. Append(t, x)[Len(t) + 1] = x /\ \A i \in 1 .. Len(t) : Append(t, x)[i] = t[i]
  BY <1>2
<1>6. \A i \in DOMAIN Append(t, x) : Append(t, x)[i].ids \in Seq(Nat)
  BY <1>3, <1>4, <1>5 DEF Entries
<1> QED BY <1>3, <1>4, <1>5, <1>6 DEF Entries

(* So does what is concatenated, and what is cut off is gone.                *)
LEMMA Joined ==
    ASSUME NEW t, NEW u, Entries(t), Entries(u)
    PROVE  /\ Entries(t \o u) /\ Len(t) \in Nat /\ Len(u) \in Nat /\ Len(t \o u) = Len(t) + Len(u)
           /\ DOMAIN t = 1 .. Len(t) /\ DOMAIN u = 1 .. Len(u) /\ DOMAIN (t \o u) = 1 .. Len(t) + Len(u)
           /\ \A i \in 1 .. Len(t) : (t \o u)[i] = t[i]
           /\ \A i \in Len(t) + 1 .. Len(t) + Len(u) : (t \o u)[i] = u[i - Len(t)]
<1>1. PICK S : t \in Seq(S)
  BY DEF Entries
<1>2. PICK R : u \in Seq(R)
  BY DEF Entries
<1> DEFINE U == S \cup R
<1>3. t \in Seq(U) /\ u \in Seq(U)
  BY <1>1, <1>2
<1> HIDE DEF U
<1>4. /\ t \o u \in Seq(U) /\ Len(t) \in Nat /\ Len(u) \in Nat /\ Len(t \o u) = Len(t) + Len(u)
      /\ DOMAIN t = 1 .. Len(t) /\ DOMAIN u = 1 .. Len(u)
  BY <1>3
<1>5. DOMAIN (t \o u) = 1 .. Len(t) + Len(u)
  BY <1>4
<1>6. /\ \A i \in 1 .. Len(t) : (t \o u)[i] = t[i]
      /\ \A i \in Len(t) + 1 .. Len(t) + Len(u) : (t \o u)[i] = u[i - Len(t)]
  BY <1>3
<1>7. ASSUME NEW i \in 1 .. Len(t) + Len(u)
      PROVE  (t \o u)[i].ids \in Seq(Nat)
  <2>1. CASE i \in 1 .. Len(t)
    BY <1>4, <1>6, <2>1 DEF Entries
  <2>2. CASE i \in Len(t) + 1 .. Len(t) + Len(u)
    <3>1. i - Len(t) \in 1 .. Len(u)
      BY <1>4, <2>2
    <3> QED BY <1>4, <1>6, <2>2, <3>1 DEF Entries
  <2> QED BY <1>4, <2>1, <2>2
<1> QED BY <1>4, <1>5, <1>6, <1>7 DEF Entries
LEMMA CutOff ==
    ASSUME NEW t, Entries(t), NEW k \in 1 .. Len(t) + 1
    PROVE  LET u == SubSeq(t, k, Len(t))
           IN  /\ Entries(u) /\ Len(t) \in Nat /\ Len(u) = Len(t) - k + 1 /\ DOMAIN u = 1 .. Len(t) - k + 1
               /\ \A i \in 1 .. Len(t) - k + 1 : u[i] = t[i + k - 1]
<1> DEFINE u == SubSeq(t, k, Len(t))
<1>1. PICK S : t \in Seq(S)
  BY DEF Entries
<1>2. Len(t) \in Nat /\ DOMAIN t = 1 .. Len(t) /\ k \in Nat /\ k <= Len(t) + 1
  BY <1>1
<1>3. u = [i \in 1 .. Len(t) - k + 1 |-> t[i + k - 1]]
  BY <1>1, <1>2
<1>4. \A i \in 1 .. Len(t) - k + 1 : i + k - 1 \in 1 .. Len(t)
  BY <1>2
<1>5. Len(t) - k + 1 \in Nat
  BY <1>2
<1>6. \A i \in 1 .. Len(t) - k + 1 : t[i + k - 1] \in S
  BY <1>1, <1>2, <1>4
<1> DEFINE m == Len(t) - k + 1
<1>7. u \in Seq(S) /\ Len(u) = m
  <2>1. m \in Nat /\ \A i \in 1 .. m : t[i + k - 1] \in S
    BY <1>5, <1>6
  <2>2. u = [i \in 1 .. m |-> t[i + k - 1]]
    BY <1>3
  <2> HIDE DEF m, u
  <2>3. u \in [1 .. m -> S]
    BY <2>1, <2>2
  <2> QED BY <2>1, <2>3
<1>8. DOMAIN u = 1 .. Len(t) - k + 1 /\ \A i \in 1 .. Len(t) - k + 1 : u[i] = t[i + k - 1]
  BY <1>3
<1>9. \A i \in DOMAIN u : u[i].ids \in Seq(Nat)
  BY <1>2, <1>4, <1>8 DEF Entries
<1>10. Entries(u)
  <2> HIDE DEF u
  <2> QED BY <1>7, <1>9 DEF Entries
<1> QED BY <1>2, <1>7, <1>8, <1>10

(* The results to come of a batch, and that none is to come of an empty one. *)
LEMMA ResultsToCome ==
    ASSUME NEW calls \in Seq(ToolCall)
    PROVE  /\ Entries(Results(calls)) /\ Len(Results(calls)) = Len(calls) /\ Len(calls) \in Nat
           /\ DOMAIN Results(calls) = 1 .. Len(calls)
           /\ \A i \in 1 .. Len(calls) :
                Results(calls)[i].kind = "result" /\ Results(calls)[i].ids = <<calls[i].id>>
<1>1. Len(calls) \in Nat /\ DOMAIN calls = 1 .. Len(calls)
  OBVIOUS
<1>2. \A i \in 1 .. Len(calls) : calls[i].id \in Nat
  <2>1. \A i \in 1 .. Len(calls) : calls[i] \in ToolCall
    OBVIOUS
  <2> QED BY <2>1 DEF ToolCall
<1> DEFINE r == Results(calls)
<1>3. DOMAIN r = 1 .. Len(calls) /\ \A i \in 1 .. Len(calls) : r[i] = ToolResult(calls[i].id, 1)
  BY <1>1 DEF Results
<1>4. \A i \in 1 .. Len(calls) : r[i].kind = "result" /\ r[i].ids = <<calls[i].id>> /\ r[i].ids \in Seq(Nat)
  <2> TAKE i \in 1 .. Len(calls)
  <2>1. r[i] = ToolResult(calls[i].id, 1) /\ calls[i].id \in Nat
    BY <1>2, <1>3
  <2> HIDE DEF r
  <2>2. r[i].kind = "result" /\ r[i].ids = <<calls[i].id>>
    BY <2>1 DEF ToolResult
  <2>3. <<calls[i].id>> \in Seq(Nat)
    BY <2>1
  <2> QED BY <2>2, <2>3
<1>5. r \in Seq({r[i] : i \in 1 .. Len(calls)}) /\ Len(r) = Len(calls)
  <2> DEFINE m == Len(calls)  R == {r[i] : i \in 1 .. m}
  <2>1. r = [i \in 1 .. m |-> r[i]]
    BY <1>3 DEF Results
  <2>2. m \in Nat /\ \A i \in 1 .. m : r[i] \in R
    BY <1>1
  <2> HIDE DEF R
  <2>3. r \in [1 .. m -> R]
    <3> HIDE DEF r, m
    <3> QED BY <2>1, <2>2
  <2>4. r \in Seq(R) /\ Len(r) = m
    <3> HIDE DEF r, m
    <3> QED BY <2>2, <2>3
  <2> QED BY <2>4 DEF R
<1> HIDE DEF r
<1>6. Entries(r)
  BY <1>3, <1>4, <1>5 DEF Entries
<1> QED BY <1>1, <1>3, <1>4, <1>5, <1>6 DEF r
LEMMA NoneToCome ==
    ASSUME NEW t, Entries(t)
    PROVE  t \o Results(<<>>) = t
<1>1. PICK S : t \in Seq(S)
  BY DEF Entries
<1>2. Entries(Results(<<>>)) /\ Len(Results(<<>>)) = 0
  <2>1. <<>> \in Seq(ToolCall) /\ Len(<<>>) = 0
    OBVIOUS
  <2> QED BY <2>1, ResultsToCome
<1>3. Results(<<>>) = <<>>
  <2> DEFINE r == Results(<<>>)
  <2>1. PICK R : r \in Seq(R)
    BY <1>2 DEF Entries
  <2>2. Len(r) = 0
    BY <1>2
  <2> HIDE DEF r
  <2>3. r = <<>>
    BY <2>1, <2>2
  <2> QED BY <2>3 DEF r
<1> QED BY <1>1, <1>3

(* A transcript stays paired when a prefix that no later result answers is   *)
(* exchanged for items that are neither calls nor results.                   *)
LEMMA PrefixExchanged ==
    ASSUME NEW t, NEW u, Entries(t), Entries(u), Paired(t),
           NEW h \in Nat, NEW n \in Nat, h <= Len(t), Len(u) = Len(t) - h + n,
           \A i \in Calls(t) : i <= h => \A j \in DOMAIN t[i].ids : i + j <= h,
           \A i \in 1 .. n : u[i].kind \notin {"calls", "result"},
           \A i \in n + 1 .. Len(u) : u[i].kind = t[i - n + h].kind /\ u[i].ids = t[i - n + h].ids
    PROVE  Paired(u)
<1>1. /\ Len(t) \in Nat /\ Len(u) \in Nat /\ DOMAIN t = 1 .. Len(t) /\ DOMAIN u = 1 .. Len(u)
  BY DEF Entries
<1>2. /\ \A i : i \in Calls(t) <=> i \in 1 .. Len(t) /\ t[i].kind = "calls"
      /\ \A i : i \in Calls(u) <=> i \in 1 .. Len(u) /\ u[i].kind = "calls"
  BY <1>1, SMTT(30) DEF Calls
<1>3. \A i \in 1 .. Len(t) : DOMAIN t[i].ids \subseteq Nat \ {0}
  BY <1>1 DEF Entries
<1>4. ASSUME NEW i \in 1 .. Len(u), u[i].kind \in {"calls", "result"}
      PROVE  i \in n + 1 .. Len(u)
  BY <1>1, <1>4
<1>5. ASSUME NEW i \in Calls(u), NEW j \in DOMAIN u[i].ids
      PROVE  i + j <= Len(u) /\ u[i + j].kind = "result" /\ u[i + j].ids = <<u[i].ids[j]>>
  <2>1. i \in 1 .. Len(u) /\ u[i].kind = "calls"
    BY <1>2
  <2>2. i \in n + 1 .. Len(u)
    BY <1>4, <2>1
  <2>3. PICK p : p = i - n + h
    OBVIOUS
  <2>4. p \in 1 .. Len(t) /\ p + n - h = i /\ p \in Int /\ i \in Int
    BY <1>1, <2>2, <2>3
  <2>5. u[i].kind = t[p].kind /\ u[i].ids = t[p].ids
    BY <2>2, <2>3
  <2>6. p \in Calls(t)
    BY <1>2, <2>1, <2>4, <2>5
  <2>7. p + j <= Len(t) /\ t[p + j].kind = "result" /\ t[p + j].ids = <<t[p].ids[j]>>
    BY <2>5, <2>6 DEF Paired
  <2>8. j \in Nat /\ j > 0
    BY <1>3, <2>4, <2>5
  <2>9. i + j \in n + 1 .. Len(u) /\ (i + j) - n + h = p + j
    BY <1>1, <2>2, <2>3, <2>4, <2>7, <2>8
  <2>10. u[i + j].kind = t[p + j].kind /\ u[i + j].ids = t[p + j].ids
    BY <2>9
  <2> QED BY <1>1, <2>5, <2>7, <2>9, <2>10
<1>6. ASSUME NEW r \in DOMAIN u, u[r].kind = "result"
      PROVE  \E i \in Calls(u) : r - i \in DOMAIN u[i].ids
  <2>1. r \in n + 1 .. Len(u) /\ r \in Int
    BY <1>1, <1>4, <1>6
  <2>2. PICK q : q = r - n + h
    OBVIOUS
  <2>3. q \in 1 .. Len(t) /\ q \in Int /\ q + n - h = r /\ q > h
    BY <1>1, <2>1, <2>2
  <2>4. t[q].kind = "result"
    BY <1>6, <2>1, <2>2
  <2>5. PICK p \in Calls(t) : q - p \in DOMAIN t[p].ids
    BY <1>1, <2>3, <2>4 DEF Paired
  <2>6. p \in 1 .. Len(t) /\ t[p].kind = "calls" /\ p \in Int /\ p + (q - p) = q
    BY <1>1, <1>2, <2>3
  <2>7. p > h
    <3>1. ASSUME p <= h
          PROVE  FALSE
      <4>1. p + (q - p) <= h
        BY <2>5, <3>1
      <4> QED BY <2>3, <2>6, <4>1
    <3> QED BY <2>6, <3>1
  <2>8. PICK i : i = p + n - h
    OBVIOUS
  <2>9. i \in n + 1 .. Len(u) /\ i \in 1 .. Len(u) /\ i - n + h = p /\ r - i = q - p
    BY <1>1, <2>3, <2>6, <2>7, <2>8
  <2>10. u[i].kind = t[p].kind /\ u[i].ids = t[p].ids
    BY <2>9
  <2>11. i \in Calls(u)
    BY <1>2, <2>6, <2>9, <2>10
  <2> QED BY <2>5, <2>9, <2>10, <2>11
<1> QED BY <1>5, <1>6 DEF Paired

(* An item that is neither calls nor a result leaves a transcript paired.    *)
LEMMA ItemAppended ==
    ASSUME NEW t, NEW x, Entries(t), HeadersFirst(t), Paired(t), x.ids \in Seq(Nat),
           x.kind \notin {"calls", "result", "header"}
    PROVE  Entries(Append(t, x)) /\ HeadersFirst(Append(t, x)) /\ Paired(Append(t, x))
<1> DEFINE u == Append(t, x)  n == Len(t)
<1>1. /\ Entries(u) /\ n \in Nat /\ DOMAIN t = 1 .. n /\ DOMAIN u = 1 .. n + 1 /\ Len(u) = n + 1
      /\ u[n + 1] = x /\ \A i \in 1 .. n : u[i] = t[i]
  BY Appended
<1> HIDE DEF u, n
<1>2. \A i \in 1 .. n + 1 : i \in 1 .. n \/ i = n + 1
  BY <1>1
<1>3. ASSUME NEW i \in DOMAIN u, u[i].kind = "header", NEW j \in 1 .. i
      PROVE  u[j].kind = "header"
  <2>1. i \in 1 .. n /\ j \in 1 .. n
    BY <1>1, <1>2, <1>3
  <2> QED BY <1>1, <1>3, <2>1 DEF HeadersFirst
<1>4. ASSUME NEW i \in Calls(u), NEW j \in DOMAIN u[i].ids
      PROVE  i + j <= n + 1 /\ u[i + j].kind = "result" /\ u[i + j].ids = <<u[i].ids[j]>>
  <2>1. i \in 1 .. n /\ i \in Calls(t) /\ u[i] = t[i]
    BY <1>1, <1>2 DEF Calls
  <2>2. i + j <= n /\ t[i + j].kind = "result" /\ t[i + j].ids = <<t[i].ids[j]>>
    BY <2>1 DEF Paired, n
  <2>3. j \in Nat \ {0}
    BY <1>1, <2>1 DEF Entries
  <2>4. i + j \in 1 .. n
    BY <1>1, <2>1, <2>2, <2>3
  <2> QED BY <1>1, <2>1, <2>2, <2>4
<1>5. ASSUME NEW r \in DOMAIN u, u[r].kind = "result"
      PROVE  \E i \in Calls(u) : r - i \in DOMAIN u[i].ids
  <2>1. r \in 1 .. n /\ t[r].kind = "result"
    BY <1>1, <1>2, <1>5
  <2>2. PICK i \in Calls(t) : r - i \in DOMAIN t[i].ids
    BY <1>1, <2>1 DEF Paired
  <2>3. i \in 1 .. n /\ u[i] = t[i] /\ i \in DOMAIN u /\ t[i].kind = "calls"
    BY <1>1 DEF Calls
  <2>4. i \in Calls(u)
    BY <2>3 DEF Calls
  <2> QED BY <2>2, <2>3, <2>4
<1>6. Paired(u)
  BY <1>1, <1>4, <1>5 DEF Paired
<1>7. HeadersFirst(u)
  BY <1>3 DEF HeadersFirst
<1> QED BY <1>1, <1>6, <1>7 DEF u

(* So do the calls of a batch once its results have come.                    *)
LEMMA BatchAppended ==
    ASSUME NEW t, Entries(t), HeadersFirst(t), Paired(t), NEW calls \in Seq(ToolCall)
    PROVE  LET u == Append(t, AssistantToolCalls(calls))
           IN  Entries(u) /\ HeadersFirst(u) /\ Paired(u \o Results(calls))
<1> DEFINE x == AssistantToolCalls(calls)  u == Append(t, x)  n == Len(t)  m == Len(calls)
           r == Results(calls)  w == u \o r
<1>1. m \in Nat /\ DOMAIN calls = 1 .. m /\ \A i \in 1 .. m : calls[i] \in ToolCall
  OBVIOUS
<1>2. \A i \in 1 .. m : calls[i].id \in Nat
  BY <1>1 DEF ToolCall
<1>3. x.kind = "calls" /\ x.ids = [i \in 1 .. m |-> calls[i].id]
  BY <1>1 DEF AssistantToolCalls
<1>4. x.ids \in Seq(Nat) /\ DOMAIN x.ids = 1 .. m /\ \A i \in 1 .. m : x.ids[i] = calls[i].id
  <2> DEFINE y == x.ids
  <2>1. y = [i \in 1 .. m |-> calls[i].id]
    BY <1>3
  <2> HIDE DEF x, m, y
  <2>2. y \in [1 .. m -> Nat]
    BY <1>2, <2>1
  <2>3. y \in Seq(Nat)
    BY <1>1, <2>2
  <2> QED BY <2>1, <2>3 DEF y
<1>5. /\ Entries(u) /\ n \in Nat /\ DOMAIN t = 1 .. n /\ DOMAIN u = 1 .. n + 1 /\ Len(u) = n + 1
      /\ u[n + 1] = x /\ \A i \in 1 .. n : u[i] = t[i]
  <2> HIDE DEF x
  <2> QED BY <1>4, Appended
<1>6. /\ Entries(r) /\ Len(r) = m /\ \A i \in 1 .. m : r[i].kind = "result" /\ r[i].ids = <<calls[i].id>>
  BY ResultsToCome
<1> HIDE DEF x, u, n, m, r
<1>7. /\ Len(w) = n + 1 + m /\ DOMAIN w = 1 .. n + 1 + m
      /\ \A i \in 1 .. n + 1 : w[i] = u[i]
      /\ \A i \in n + 2 .. n + 1 + m : w[i] = r[i - (n + 1)]
  <2>1. /\ Len(w) = Len(u) + Len(r) /\ DOMAIN w = 1 .. Len(u) + Len(r)
        /\ \A i \in 1 .. Len(u) : w[i] = u[i]
        /\ \A i \in Len(u) + 1 .. Len(u) + Len(r) : w[i] = r[i - Len(u)]
    BY <1>5, <1>6, Joined
  <2>2. n + 1 + 1 = n + 2
    BY <1>5
  <2> QED BY <1>5, <1>6, <2>1, <2>2
<1> HIDE DEF w
<1>8. /\ \A i \in 1 .. n : w[i] = t[i]
      /\ w[n + 1] = x
      /\ \A i \in 1 .. m : w[n + 1 + i].kind = "result" /\ w[n + 1 + i].ids = <<calls[i].id>>
  <2>1. \A i \in 1 .. n : w[i] = t[i]
    BY <1>5, <1>7
  <2>2. w[n + 1] = x
    BY <1>5, <1>7
  <2>3. ASSUME NEW i \in 1 .. m
        PROVE  w[n + 1 + i].kind = "result" /\ w[n + 1 + i].ids = <<calls[i].id>>
    <3>1. n + 1 + i \in n + 2 .. n + 1 + m /\ (n + 1 + i) - (n + 1) = i
      BY <1>1, <1>5 DEF m
    <3>2. w[n + 1 + i] = r[i]
      BY <1>7, <3>1
    <3> QED BY <1>6, <3>2
  <2> QED BY <2>1, <2>2, <2>3
<1>9. m \in Nat
  BY <1>1 DEF m
<1>10. ASSUME NEW i \in Calls(w), NEW j \in DOMAIN w[i].ids
       PROVE  i + j <= Len(w) /\ w[i + j].kind = "result" /\ w[i + j].ids = <<w[i].ids[j]>>
  <2>1. i \in 1 .. n + 1 + m /\ w[i].kind = "calls"
    BY <1>7 DEF Calls
  <2>2. CASE i \in 1 .. n
    <3>1. w[i] = t[i] /\ i \in Calls(t)
      BY <1>5, <1>8, <2>1, <2>2 DEF Calls
    <3>2. i + j <= n /\ t[i + j].kind = "result" /\ t[i + j].ids = <<t[i].ids[j]>>
      BY <3>1 DEF Paired, n
    <3>3. j \in Nat \ {0}
      BY <1>5, <2>2, <3>1 DEF Entries
    <3>4. i + j \in 1 .. n /\ i + j <= n + 1 + m
      BY <1>5, <1>9, <2>2, <3>2, <3>3
    <3> QED BY <1>7, <1>8, <3>1, <3>2, <3>4
  <2>3. CASE i = n + 1
    <3>1. j \in 1 .. m /\ w[i].ids[j] = calls[j].id
      BY <1>4, <1>8, <2>3
    <3>2. n + 1 + j <= n + 1 + m
      BY <1>5, <1>9, <3>1
    <3> QED BY <1>7, <1>8, <2>3, <3>1, <3>2
  <2>4. CASE i \in n + 2 .. n + 1 + m
    <3>1. i - (n + 1) \in 1 .. m
      BY <1>5, <1>9, <2>4
    <3>2. w[i].kind = "result"
      BY <1>6, <1>7, <2>4, <3>1
    <3> QED BY <2>1, <3>2
  <2>5. i \in 1 .. n \/ i = n + 1 \/ i \in n + 2 .. n + 1 + m
    BY <1>5, <1>9, <2>1
  <2> QED BY <2>2, <2>3, <2>4, <2>5
<1>11. ASSUME NEW q \in DOMAIN w, w[q].kind = "result"
       PROVE  \E i \in Calls(w) : q - i \in DOMAIN w[i].ids
  <2>1. CASE q \in 1 .. n
    <3>1. w[q] = t[q]
      BY <1>8, <2>1
    <3>2. PICK i \in Calls(t) : q - i \in DOMAIN t[i].ids
      BY <1>5, <1>11, <2>1, <3>1 DEF Paired
    <3>3. i \in 1 .. n /\ t[i].kind = "calls"
      BY <1>5 DEF Calls
    <3>4. w[i] = t[i] /\ i \in DOMAIN w
      BY <1>5, <1>7, <1>8, <1>9, <3>3
    <3>5. i \in Calls(w)
      BY <3>3, <3>4 DEF Calls
    <3> QED BY <3>2, <3>4, <3>5
  <2>2. CASE q = n + 1
    BY <1>3, <1>8, <1>11, <2>2
  <2>3. CASE q \in n + 2 .. n + 1 + m
    <3>1. q - (n + 1) \in 1 .. m
      BY <1>5, <1>9, <2>3
    <3>2. n + 1 \in DOMAIN w /\ w[n + 1].kind = "calls" /\ DOMAIN w[n + 1].ids = 1 .. m
      BY <1>3, <1>4, <1>5, <1>7, <1>8, <1>9
    <3>3. n + 1 \in Calls(w)
      BY <3>2 DEF Calls
    <3> QED BY <3>1, <3>2, <3>3
  <2>4. q \in 1 .. n \/ q = n + 1 \/ q \in n + 2 .. n + 1 + m
    BY <1>5, <1>7, <1>9
  <2> QED BY <2>1, <2>2, <2>3, <2>4
<1>12. Paired(w)
  BY <1>10, <1>11 DEF Paired
<1>13. HeadersFirst(u)
  <2>1. ASSUME NEW i \in DOMAIN u, u[i].kind = "header", NEW j \in 1 .. i
        PROVE  u[j].kind = "header"
    <3>1. i # n + 1
      BY <1>3, <1>5, <2>1
    <3>2. i \in 1 .. n /\ j \in 1 .. n
      BY <1>5, <2>1, <3>1
    <3> QED BY <1>5, <2>1, <3>2 DEF HeadersFirst
  <2> QED BY <2>1 DEF HeadersFirst
<1> QED BY <1>5, <1>12, <1>13 DEF u, w, x, r

(* A result that comes is the next of those to come, whatever its size.      *)
LEMMA ResultAppended ==
    ASSUME NEW t, NEW calls \in Seq(ToolCall), calls # <<>>, NEW size, Entries(t), HeadersFirst(t),
           Paired(t \o Results(calls))
    PROVE  LET u == Append(t, ToolResult(Head(calls).id, size))
           IN  Entries(u) /\ HeadersFirst(u) /\ Paired(u \o Results(Tail(calls)))
<1> DEFINE x == ToolResult(Head(calls).id, size)  u == Append(t, x)  n == Len(t)  m == Len(calls)
           v == t \o Results(calls)  w == u \o Results(Tail(calls))
<1>1. /\ m \in Nat \ {0} /\ Head(calls) = calls[1] /\ calls[1] \in ToolCall
      /\ Tail(calls) \in Seq(ToolCall) /\ Len(Tail(calls)) = m - 1
      /\ \A i \in 1 .. m - 1 : Tail(calls)[i] = calls[i + 1]
  OBVIOUS
<1>2. calls[1].id \in Nat
  BY <1>1 DEF ToolCall
<1>3. x.kind = "result" /\ x.ids = <<calls[1].id>>
  BY <1>1 DEF ToolResult
<1>4. <<calls[1].id>> \in Seq(Nat)
  BY <1>2
<1>5. /\ Entries(u) /\ n \in Nat /\ DOMAIN t = 1 .. n /\ DOMAIN u = 1 .. n + 1 /\ Len(u) = n + 1
      /\ u[n + 1] = x /\ \A i \in 1 .. n : u[i] = t[i]
  <2> HIDE DEF x
  <2>1. x.ids \in Seq(Nat)
    BY <1>3, <1>4
  <2> QED BY <2>1, Appended
<1>6. /\ Entries(Results(calls)) /\ Len(Results(calls)) = m
      /\ \A i \in 1 .. m : Results(calls)[i].kind = "result" /\ Results(calls)[i].ids = <<calls[i].id>>
  BY ResultsToCome
<1>7. /\ Entries(Results(Tail(calls))) /\ Len(Results(Tail(calls))) = m - 1
      /\ \A i \in 1 .. m - 1 : /\ Results(Tail(calls))[i].kind = "result"
                               /\ Results(Tail(calls))[i].ids = <<Tail(calls)[i].id>>
  BY <1>1, ResultsToCome
<1> HIDE DEF x, n, m
<1>8. /\ Entries(v) /\ Len(v) = n + m /\ \A i \in 1 .. n : v[i] = t[i]
      /\ \A i \in n + 1 .. n + m : v[i] = Results(calls)[i - n]
  BY <1>6, Joined DEF n
<1>9. /\ Entries(w) /\ Len(w) = n + 1 + (m - 1) /\ \A i \in 1 .. n + 1 : w[i] = u[i]
      /\ \A i \in n + 1 + 1 .. n + 1 + (m - 1) : w[i] = Results(Tail(calls))[i - (n + 1)]
  <2> DEFINE s == Results(Tail(calls))
  <2> HIDE DEF u, s
  <2>1. Entries(u) /\ Entries(s) /\ Len(u) = n + 1 /\ Len(s) = m - 1
    BY <1>5, <1>7 DEF s
  <2>2. /\ Entries(u \o s) /\ Len(u \o s) = Len(u) + Len(s) /\ \A i \in 1 .. Len(u) : (u \o s)[i] = u[i]
        /\ \A i \in Len(u) + 1 .. Len(u) + Len(s) : (u \o s)[i] = s[i - Len(u)]
    BY <2>1, Joined
  <2> QED BY <2>1, <2>2 DEF s
<1> HIDE DEF u, v, w
<1>10. ASSUME NEW i \in 1 .. n + m
       PROVE  w[i].kind = v[i].kind /\ w[i].ids = v[i].ids
  <2>1. CASE i \in 1 .. n
    BY <1>5, <1>8, <1>9, <2>1
  <2>2. CASE i = n + 1
    <3>1. w[i] = x
      BY <1>5, <1>9, <2>2
    <3>2. i \in n + 1 .. n + m /\ i - n = 1 /\ 1 \in 1 .. m
      BY <1>1, <1>5, <2>2 DEF m
    <3>3. v[i] = Results(calls)[1]
      BY <1>8, <3>2
    <3> QED BY <1>3, <1>6, <3>1, <3>2, <3>3
  <2>3. CASE i \in n + 2 .. n + m
    <3>1. /\ i \in n + 1 .. n + m /\ i - n \in 1 .. m
          /\ i \in n + 1 + 1 .. n + 1 + (m - 1) /\ i - (n + 1) \in 1 .. m - 1 /\ (i - (n + 1)) + 1 = i - n
      BY <1>1, <1>5, <2>3 DEF m
    <3>2. v[i] = Results(calls)[i - n] /\ w[i] = Results(Tail(calls))[i - (n + 1)]
      BY <1>8, <1>9, <3>1
    <3>3. Tail(calls)[i - (n + 1)] = calls[i - n]
      <4>1. Tail(calls)[i - (n + 1)] = calls[(i - (n + 1)) + 1]
        BY <1>1, <3>1 DEF m
      <4> QED BY <3>1, <4>1
    <3> QED BY <1>6, <1>7, <3>1, <3>2, <3>3
  <2>4. i \in 1 .. n \/ i = n + 1 \/ i \in n + 2 .. n + m
    BY <1>1, <1>5 DEF m
  <2> QED BY <2>1, <2>2, <2>3, <2>4
<1>11. Paired(w)
  <2>1. n \in Nat /\ m \in Nat /\ n + 1 + (m - 1) = n + m
    BY <1>1, <1>5 DEF m
  <2>2. \A i \in Calls(v) : ~(i <= 0)
    BY <1>8 DEF Entries, Calls
  <2>3. Len(w) = Len(v) - 0 + 0 /\ 0 <= Len(v)
    BY <1>8, <1>9, <2>1
  <2>4. \A i \in 0 + 1 .. Len(w) : i - 0 + 0 = i /\ i \in 1 .. n + m
    BY <1>9, <2>1
  <2>5. \A i \in 0 + 1 .. Len(w) : w[i].kind = v[i - 0 + 0].kind /\ w[i].ids = v[i - 0 + 0].ids
    BY <1>10, <2>4
  <2>6. Paired(v)
    BY DEF v
  <2>7. 1 .. 0 = {}
    OBVIOUS
  <2> QED BY <1>8, <1>9, <2>2, <2>3, <2>5, <2>6, <2>7, PrefixExchanged
<1>12. HeadersFirst(u)
  <2>1. ASSUME NEW i \in DOMAIN u, u[i].kind = "header", NEW j \in 1 .. i
        PROVE  u[j].kind = "header"
    <3>1. i # n + 1
      BY <1>3, <1>5, <2>1
    <3>2. i \in 1 .. n /\ j \in 1 .. n
      BY <1>5, <2>1, <3>1
    <3> QED BY <1>5, <2>1, <3>2 DEF HeadersFirst
  <2> QED BY <2>1 DEF HeadersFirst
<1> QED BY <1>5, <1>11, <1>12 DEF u, w, x

LEMMA TwoAreTwo ==
    ASSUME NEW a, NEW b, a # b
    PROVE  Cardinality({a, b}) = 2
<1>1. IsFiniteSet({a}) /\ Cardinality({a}) = 1
  BY FS_Singleton
<1>2. b \notin {a}
  OBVIOUS
<1>3. Cardinality({a} \cup {b}) = IF b \in {a} THEN Cardinality({a}) ELSE Cardinality({a}) + 1
  BY <1>1, FS_AddElement, ZenonT(60)
<1>4. {a} \cup {b} = {a, b}
  OBVIOUS
<1> QED BY <1>1, <1>2, <1>3, <1>4

(* The cut of a compaction falls on the calls of a batch.                    *)
LEMMA KeepsFromBatch ==
    ASSUME NEW t, Entries(t), Cardinality(Calls(t)) > 2
    PROVE  KeepFrom(t) \in Calls(t)
<1>1. Len(t) \in Nat /\ DOMAIN t = 1 .. Len(t)
  BY DEF Entries
<1> DEFINE T == Calls(t)
<1>2. T \subseteq 1 .. Len(t)
  BY <1>1 DEF Calls
<1>3. IsFiniteSet(T)
  <2> HIDE DEF T
  <2>1. IsFiniteSet(1 .. Len(t))
    BY <1>1, FS_Interval
  <2> QED BY <1>2, <2>1, FS_Subset
<1>4. Cardinality(T) > 2
  OBVIOUS
<1> HIDE DEF T
<1>5. ASSUME NEW R, R \subseteq T, R # {}
      PROVE  \E x \in R : \A y \in R : y <= x
  <2> DEFINE D == {Len(t) - x : x \in R}
  <2>1. D \subseteq Nat /\ D # {}
    <3>1. \A x \in R : x \in 1 .. Len(t)
      BY <1>2, <1>5
    <3>2. \A x \in R : Len(t) - x \in Nat
      BY <1>1, <3>1
    <3> QED BY <1>5, <3>2
  <2>2. PICK d \in D : \A e \in D : d <= e
    <3> HIDE DEF D
    <3> QED BY <2>1, LeastNat
  <2>3. PICK x \in R : d = Len(t) - x
    BY <2>2
  <2>4. \A y \in R : d <= Len(t) - y
    BY <2>2
  <2>5. \A y \in R : y \in Int
    BY <1>2, <1>5
  <2>6. \A y \in R : y <= x
    BY <1>1, <2>3, <2>4, <2>5
  <2> QED BY <2>6
<1>6. Cardinality({}) = 0 /\ IsFiniteSet({})
  BY FS_EmptySet
<1>7. PICK a \in T : \A y \in T : y <= a
  <2>1. T # {}
    BY <1>4, <1>6
  <2> QED BY <1>5, <2>1
<1>8. PICK b \in T \ {a} : \A y \in T \ {a} : y <= b
  <2>1. T # {a}
    <3>1. Cardinality({a}) = 1
      BY FS_Singleton
    <3> QED BY <1>4, <3>1
  <2>2. T \ {a} # {} /\ T \ {a} \subseteq T
    BY <1>7, <2>1
  <2> QED BY <1>5, <2>2
<1>9. a \in Int /\ b \in Int /\ b <= a /\ a # b
  BY <1>1, <1>2, <1>7, <1>8
<1>10. {j \in T : j >= b} = {a, b}
  <2>1. \A j \in T : j \in Int
    BY <1>2
  <2>2. \A j \in T : j >= b => j = a \/ j = b
    <3> TAKE j \in T
    <3>1. j # a => j <= b
      BY <1>8
    <3> QED BY <1>9, <2>1, <3>1
  <2> QED BY <1>7, <1>8, <1>9, <2>2
<1>11. Cardinality({a, b}) = 2
  BY <1>9, TwoAreTwo
<1>12. \E i \in Calls(t) : Cardinality({j \in Calls(t) : j >= i}) = 2
  BY <1>8, <1>10, <1>11 DEF T
<1> QED BY <1>12 DEF KeepFrom

(* What is kept is paired, and has no header.                                *)
LEMMA CutStaysPaired ==
    ASSUME NEW t, Entries(t), HeadersFirst(t), Paired(t), NEW k \in Calls(t)
    PROVE  LET u == SubSeq(t, k, Len(t))
           IN  Entries(u) /\ HeadersFirst(u) /\ Paired(u)
<1> DEFINE u == SubSeq(t, k, Len(t))  n == Len(t)
<1>1. n \in Nat /\ DOMAIN t = 1 .. n /\ k \in 1 .. n /\ t[k].kind = "calls"
  BY DEF Entries, Calls
<1>2. k \in 1 .. n + 1
  BY <1>1
<1>3. Entries(u) /\ Len(u) = n - k + 1 /\ DOMAIN u = 1 .. n - k + 1 /\ \A i \in 1 .. n - k + 1 : u[i] = t[i + k - 1]
  BY <1>2, CutOff
<1> HIDE DEF u, n
<1>4. HeadersFirst(u)
  <2>1. ASSUME NEW i \in DOMAIN u, u[i].kind = "header"
        PROVE  FALSE
    <3>1. i \in 1 .. n - k + 1 /\ i + k - 1 \in 1 .. n /\ k \in 1 .. (i + k - 1)
      BY <1>1, <1>3
    <3>2. t[i + k - 1].kind = "header"
      BY <1>3, <2>1, <3>1
    <3> QED BY <1>1, <3>1, <3>2 DEF HeadersFirst
  <2> QED BY <2>1 DEF HeadersFirst
<1>5. ASSUME NEW i \in Calls(t), i <= k - 1, NEW j \in DOMAIN t[i].ids
      PROVE  i + j <= k - 1
  <2>1. i \in 1 .. n /\ i \in DOMAIN t
    BY <1>1 DEF Calls
  <2>2. \A l \in DOMAIN t[i].ids : t[i + l].kind = "result"
    BY DEF Paired
  <2>3. DOMAIN t[i].ids = 1 .. Len(t[i].ids) /\ Len(t[i].ids) \in Nat
    BY <2>1 DEF Entries
  <2>4. ASSUME i + j >= k
        PROVE  FALSE
    <3>1. k - i \in DOMAIN t[i].ids /\ i + (k - i) = k
      BY <1>1, <1>5, <2>1, <2>3, <2>4
    <3>2. t[i + (k - i)].kind = "result"
      BY <2>2, <3>1
    <3> QED BY <1>1, <3>1, <3>2
  <2> QED BY <1>1, <2>1, <2>3, <2>4
<1>6. Paired(u)
  <2>1. k - 1 \in Nat /\ k - 1 <= n /\ n - (k - 1) + 0 = n - k + 1
    BY <1>1
  <2>2. \A i \in 0 + 1 .. Len(u) : i - 0 + (k - 1) = i + k - 1 /\ i \in 1 .. n - k + 1
    BY <1>1, <1>3
  <2>3. \A i \in 0 + 1 .. Len(u) : u[i].kind = t[i - 0 + (k - 1)].kind /\ u[i].ids = t[i - 0 + (k - 1)].ids
    BY <1>3, <2>2
  <2>4. 1 .. 0 = {}
    OBVIOUS
  <2>5. Len(u) = Len(t) - (k - 1) + 0 /\ k - 1 <= Len(t)
    BY <1>3, <2>1 DEF n
  <2>6. 0 \in Nat
    OBVIOUS
  <2> QED BY <1>3, <1>5, <2>1, <2>3, <2>4, <2>5, <2>6, PrefixExchanged
<1> QED BY <1>3, <1>4, <1>6 DEF u

(* What is left of a transcript without its headers: what follows the last   *)
(* of them.                                                                  *)
LEMMA HeadersEnd ==
    ASSUME NEW t, Entries(t), HeadersFirst(t)
    PROVE  \E h \in 0 .. Len(t) : \A i \in 1 .. Len(t) : t[i].kind = "header" <=> i <= h
<1> DEFINE n == Len(t)  D == {i \in 1 .. n + 1 : i = n + 1 \/ t[i].kind # "header"}
<1>1. n \in Nat /\ DOMAIN t = 1 .. n
  BY DEF Entries
<1>2. D \subseteq Nat /\ n + 1 \in D
  <2> HIDE DEF n
  <2> QED BY <1>1
<1>3. PICK d \in D : \A i \in D : d <= i
  <2> HIDE DEF D
  <2> QED BY <1>2, LeastNat
<1>4. d \in 1 .. n + 1 /\ (d = n + 1 \/ t[d].kind # "header")
  OBVIOUS
<1>5. ASSUME NEW i \in 1 .. n
      PROVE  t[i].kind = "header" <=> i <= d - 1
  <2> HIDE DEF n
  <2>1. ASSUME i <= d - 1
        PROVE  t[i].kind = "header"
    <3>1. i \notin D
      <4> HIDE DEF D
      <4> QED BY <1>1, <1>3, <1>4, <2>1
    <3>2. i \in 1 .. n + 1
      BY <1>1
    <3> QED BY <3>1, <3>2
  <2>2. ASSUME t[i].kind = "header", ~(i <= d - 1)
        PROVE  FALSE
    <3>1. d \in 1 .. i /\ d # n + 1
      BY <1>1, <1>4, <2>2
    <3> QED BY <1>1, <1>4, <2>2, <3>1 DEF HeadersFirst
  <2> QED BY <2>1, <2>2
<1>6. d - 1 \in 0 .. n
  <2> HIDE DEF n, D
  <2> QED BY <1>1, <1>4
<1> QED BY <1>5, <1>6

LEMMA RetainsTheRest ==
    ASSUME NEW t, Entries(t), NEW h \in 0 .. Len(t),
           \A i \in 1 .. Len(t) : t[i].kind = "header" <=> i <= h
    PROVE  retain(t) = SubSeq(t, h + 1, Len(t))
<1> DEFINE Keeps(f) == f = [i \in 0 .. Len(t) |->
                              IF i = 0 THEN <<>>
                              ELSE IF t[i].kind = "header" THEN f[i - 1] ELSE Append(f[i - 1], t[i])]
           kept == CHOOSE f : Keeps(f)
           n == Len(t)
           rest == [i \in 0 .. n |-> SubSeq(t, h + 1, i)]
           T == {i \in Nat : i <= n => kept[i] = rest[i]}
<1>1. PICK S : t \in Seq(S)
  BY DEF Entries
<1>2. n \in Nat /\ DOMAIN t = 1 .. n /\ h \in Nat /\ h <= n
  BY <1>1
<1>3. \A i \in 1 .. n : t[i] \in S
  BY <1>1
<1>4. ASSUME NEW i \in 1 .. n
      PROVE  SubSeq(t, h + 1, i) = IF i <= h THEN <<>> ELSE Append(SubSeq(t, h + 1, i - 1), t[i])
  <2> HIDE DEF n
  <2>1. CASE i <= h
    <3>1. SubSeq(t, h + 1, i) = <<>>
      BY <1>1, <1>2, <2>1
    <3> QED BY <2>1, <3>1
  <2>2. CASE i > h
    <3> DEFINE a == SubSeq(t, h + 1, i)  b == SubSeq(t, h + 1, i - 1)
    <3>1. a = [j \in 1 .. i - h |-> t[j + h]] /\ b = [j \in 1 .. (i - 1) - h |-> t[j + h]]
      <4>1. PICK k \in Nat : k = h + 1 /\ h \in Nat /\ i \in Nat /\ i - 1 \in Nat
        BY <1>2, <2>2
      <4>2. /\ SubSeq(t, k, i) = [j \in 1 .. i - k + 1 |-> t[j + k - 1]]
            /\ SubSeq(t, k, i - 1) = [j \in 1 .. (i - 1) - k + 1 |-> t[j + k - 1]]
        BY <1>1, <4>1
      <4>3. i - k + 1 = i - h /\ (i - 1) - k + 1 = (i - 1) - h /\ \A j \in Int : j + k - 1 = j + h
        BY <4>1
      <4>4. \A c \in Int : \A j \in 1 .. c : t[j + k - 1] = t[j + h]
        BY <4>3
      <4>5. \A c \in Int : [j \in 1 .. c |-> t[j + k - 1]] = [j \in 1 .. c |-> t[j + h]]
        BY <4>4, Zenon
      <4>6. i - h \in Int /\ (i - 1) - h \in Int
        BY <4>1
      <4>7. /\ [j \in 1 .. i - h |-> t[j + k - 1]] = [j \in 1 .. i - h |-> t[j + h]]
            /\ [j \in 1 .. (i - 1) - h |-> t[j + k - 1]] = [j \in 1 .. (i - 1) - h |-> t[j + h]]
        BY <4>5, <4>6
      <4>8. /\ SubSeq(t, k, i) = [j \in 1 .. i - h |-> t[j + k - 1]]
            /\ SubSeq(t, k, i - 1) = [j \in 1 .. (i - 1) - h |-> t[j + k - 1]]
        BY <4>2, <4>3
      <4> QED BY <4>1, <4>7, <4>8
    <3>2. (i - 1) - h \in Nat /\ i - h = ((i - 1) - h) + 1 /\ (i - h) + h = i
      BY <1>2, <2>2
    <3>3. PICK m \in Nat : m = (i - 1) - h
      BY <3>2
    <3>4. \A j \in 1 .. m + 1 : j + h \in 1 .. n
      BY <1>2, <3>3
    <3>5. \A j \in 1 .. m + 1 : t[j + h] \in S
      BY <1>3, <3>4
    <3> HIDE DEF a, b
    <3>6. b = [j \in 1 .. m |-> t[j + h]] /\ a = [j \in 1 .. m + 1 |-> t[j + h]] /\ (m + 1) + h = i
      BY <3>1, <3>2, <3>3
    <3>7. b \in [1 .. m -> S] /\ a \in [1 .. m + 1 -> S]
      <4>1. \A j \in 1 .. m : t[j + h] \in S
        BY <3>3, <3>5
      <4>2. b \in [1 .. m -> S]
        BY <3>6, <4>1, Zenon
      <4>3. a \in [1 .. m + 1 -> S]
        BY <3>5, <3>6, Zenon
      <4> QED BY <4>2, <4>3
    <3>8. b \in Seq(S) /\ Len(b) = m /\ a \in Seq(S) /\ Len(a) = m + 1
      BY <3>7
    <3>9. t[i] \in S
      BY <1>3
    <3>10. /\ Append(b, t[i]) \in Seq(S) /\ Len(Append(b, t[i])) = m + 1
           /\ Append(b, t[i])[m + 1] = t[i] /\ \A j \in 1 .. m : Append(b, t[i])[j] = b[j]
      BY <3>8, <3>9
    <3>11. \A j \in 1 .. m + 1 : a[j] = Append(b, t[i])[j]
      <4> TAKE j \in 1 .. m + 1
      <4>1. j \in 1 .. m \/ j = m + 1
        OBVIOUS
      <4> QED BY <3>6, <3>10, <4>1
    <3>12. a = Append(b, t[i])
      BY <3>8, <3>10, <3>11, SeqEqual
    <3> QED BY <2>2, <3>12, <1>2 DEF a, b
  <2> QED BY <1>2, <2>1, <2>2
<1>5. Keeps(rest)
  <2> HIDE DEF n
  <2>1. ASSUME NEW i \in 0 .. n
        PROVE  rest[i] = IF i = 0 THEN <<>>
                         ELSE IF t[i].kind = "header" THEN rest[i - 1] ELSE Append(rest[i - 1], t[i])
    <3>1. CASE i = 0
      <4>1. SubSeq(t, h + 1, 0) = <<>>
        BY <1>1, <1>2
      <4> QED BY <3>1, <4>1
    <3>2. CASE i \in 1 .. n
      <4>1. i # 0 /\ i - 1 \in 0 .. n /\ i \in 0 .. n
        BY <1>2, <3>2
      <4>2. rest[i] = SubSeq(t, h + 1, i) /\ rest[i - 1] = SubSeq(t, h + 1, i - 1)
        BY <4>1
      <4> HIDE DEF rest
      <4>3. CASE i <= h
        <5>1. i - 1 = 0 \/ (i - 1 \in 1 .. n /\ i - 1 <= h)
          BY <1>2, <3>2, <4>3
        <5>2. SubSeq(t, h + 1, i - 1) = <<>>
          <6>1. CASE i - 1 = 0
            BY <1>1, <1>2, <6>1
          <6>2. CASE i - 1 \in 1 .. n /\ i - 1 <= h
            BY <1>4, <6>2
          <6> QED BY <5>1, <6>1, <6>2
        <5>3. SubSeq(t, h + 1, i) = <<>> /\ t[i].kind = "header"
          BY <1>4, <3>2, <4>3 DEF n
        <5> QED BY <4>1, <4>2, <5>2, <5>3
      <4>4. CASE ~(i <= h)
        <5>1. SubSeq(t, h + 1, i) = Append(SubSeq(t, h + 1, i - 1), t[i])
          BY <1>4, <3>2, <4>4
        <5>2. t[i].kind # "header"
          BY <3>2, <4>4 DEF n
        <5> QED BY <4>1, <4>2, <5>1, <5>2
      <4> QED BY <4>3, <4>4
    <3>3. i = 0 \/ i \in 1 .. n
      BY <1>2
    <3> QED BY <3>1, <3>2, <3>3
  <2>2. rest = [i \in 0 .. n |-> rest[i]]
    OBVIOUS
  <2> HIDE DEF rest
  <2>3. rest = [i \in 0 .. n |-> IF i = 0 THEN <<>>
                                 ELSE IF t[i].kind = "header" THEN rest[i - 1] ELSE Append(rest[i - 1], t[i])]
    BY <2>1, <2>2
  <2> QED BY <2>3 DEF n
<1>6. Keeps(kept)
  <2> HIDE DEF Keeps, rest
  <2> QED BY <1>5
<1>7. retain(t) = kept[n]
  BY DEF retain
<1> HIDE DEF kept
<1>8. \A i \in 0 .. n : kept[i] = IF i = 0 THEN <<>>
                                  ELSE IF t[i].kind = "header" THEN kept[i - 1] ELSE Append(kept[i - 1], t[i])
  BY <1>6
<1>9. \A i \in 0 .. n : rest[i] = IF i = 0 THEN <<>>
                                  ELSE IF t[i].kind = "header" THEN rest[i - 1] ELSE Append(rest[i - 1], t[i])
  <2> HIDE DEF rest
  <2> QED BY <1>5
<1> HIDE DEF rest, Keeps, n
<1>10. 0 \in T
  <2>1. 0 \in 0 .. n
    BY <1>2
  <2>2. kept[0] = <<>> /\ rest[0] = <<>>
    BY <1>8, <1>9, <2>1
  <2> QED BY <2>2
<1>11. ASSUME NEW i \in Nat, i \in T
       PROVE  i + 1 \in T
  <2> SUFFICES ASSUME i + 1 <= n
               PROVE  kept[i + 1] = rest[i + 1]
    OBVIOUS
  <2>1. i <= n /\ i + 1 \in 0 .. n /\ i + 1 # 0 /\ (i + 1) - 1 = i
    BY <1>2
  <2>2. kept[i] = rest[i]
    BY <1>11, <2>1
  <2> HIDE DEF T
  <2>3. kept[i + 1] = IF t[i + 1].kind = "header" THEN kept[i] ELSE Append(kept[i], t[i + 1])
    BY <1>8, <2>1
  <2>4. rest[i + 1] = IF t[i + 1].kind = "header" THEN rest[i] ELSE Append(rest[i], t[i + 1])
    BY <1>9, <2>1
  <2> QED BY <2>2, <2>3, <2>4
<1>12. n \in T
  <2> HIDE DEF T
  <2> QED BY <1>2, <1>10, <1>11, NatSetInduction
<1>13. kept[n] = rest[n]
  BY <1>2, <1>12
<1>14. rest[n] = SubSeq(t, h + 1, n)
  BY <1>2 DEF rest
<1> QED BY <1>7, <1>13, <1>14 DEF n

(* A slice begins with what was handed on to it, behind new headers.         *)
LEMMA ResumedIsPaired ==
    ASSUME NEW g, Entries(g.current), HeadersFirst(g.current), Paired(g.current)
    PROVE  Entries(Resumed(g)) /\ HeadersFirst(Resumed(g)) /\ Paired(Resumed(g))
<1>1. CASE g.current = <<>>
  <2> DEFINE u == <<User>>
  <2>1. Resumed(g) = u
    BY <1>1 DEF Resumed
  <2>2. User.kind = "user" /\ User.ids = <<>>
    BY DEF User
  <2>3. u \in Seq({User}) /\ Len(u) = 1 /\ DOMAIN u = 1 .. 1 /\ u[1] = User
    OBVIOUS
  <2>4. <<>> \in Seq(Nat)
    OBVIOUS
  <2> HIDE DEF u
  <2>5. \A i \in DOMAIN u : u[i] = User
    BY <2>3
  <2>6. Entries(u)
    BY <2>2, <2>3, <2>4, <2>5 DEF Entries
  <2>7. HeadersFirst(u) /\ Paired(u)
    BY <2>2, <2>5 DEF HeadersFirst, Paired, Calls
  <2> QED BY <2>1, <2>6, <2>7
<1>2. CASE g.current # <<>>
  <2> DEFINE t == g.current  hs == IF g.summary THEN <<Header, Header>> ELSE <<Header>>  u == hs \o retain(t)
  <2>1. Resumed(g) = u
    BY <1>2 DEF Resumed
  <2>2. Header.kind = "header" /\ Header.ids = <<>>
    BY DEF Header
  <2>3. PICK n \in Nat : hs \in Seq({Header}) /\ Len(hs) = n /\ DOMAIN hs = 1 .. n /\ \A i \in 1 .. n : hs[i] = Header
    <3>1. CASE g.summary
      <4>1. <<Header, Header>> \in Seq({Header}) /\ Len(<<Header, Header>>) = 2 /\ DOMAIN <<Header, Header>> = 1 .. 2
        OBVIOUS
      <4>2. \A i \in 1 .. 2 : <<Header, Header>>[i] = Header
        OBVIOUS
      <4> QED BY <3>1, <4>1, <4>2
    <3>2. CASE ~g.summary
      <4>1. <<Header>> \in Seq({Header}) /\ Len(<<Header>>) = 1 /\ DOMAIN <<Header>> = 1 .. 1
        OBVIOUS
      <4>2. \A i \in 1 .. 1 : <<Header>>[i] = Header
        OBVIOUS
      <4> QED BY <3>2, <4>1, <4>2
    <3> QED BY <3>1, <3>2
  <2> HIDE DEF hs
  <2>4. Entries(hs)
    <3>1. <<>> \in Seq(Nat)
      OBVIOUS
    <3>2. \A i \in DOMAIN hs : hs[i].ids \in Seq(Nat)
      BY <2>2, <2>3, <3>1
    <3> QED BY <2>3, <3>2 DEF Entries
  <2>5. PICK h \in 0 .. Len(t) : \A i \in 1 .. Len(t) : t[i].kind = "header" <=> i <= h
    BY HeadersEnd
  <2> DEFINE r == retain(t)  m == Len(t)
  <2>6. r = SubSeq(t, h + 1, m)
    BY <2>5, RetainsTheRest
  <2>7. m \in Nat /\ DOMAIN t = 1 .. m /\ h \in Nat /\ h <= m /\ h + 1 \in 1 .. m + 1
    <3>1. m \in Nat /\ DOMAIN t = 1 .. m
      BY DEF Entries
    <3> HIDE DEF m
    <3> QED BY <2>5, <3>1 DEF m
  <2>8. /\ Entries(r) /\ Len(r) = m - h /\ \A i \in 1 .. m - h : r[i] = t[i + h]
    <3> HIDE DEF t, r
    <3>1. PICK k : k = h + 1
      OBVIOUS
    <3>2. k \in 1 .. Len(t) + 1 /\ Entries(t)
      BY <2>7, <3>1 DEF t
    <3>3. /\ Entries(SubSeq(t, k, Len(t))) /\ Len(SubSeq(t, k, Len(t))) = m - k + 1
          /\ \A i \in 1 .. m - k + 1 : SubSeq(t, k, Len(t))[i] = t[i + k - 1]
      BY <3>2, CutOff
    <3>4. m - k + 1 = m - h /\ \A i \in Int : i + k - 1 = i + h
      BY <2>7, <3>1
    <3>5. m - h \in Int
      BY <2>7
    <3>6. r = SubSeq(t, k, Len(t))
      BY <2>6, <3>1
    <3> HIDE DEF m
    <3>7. \A i \in 1 .. m - h : r[i] = t[i + h]
      <4> TAKE i \in 1 .. m - h
      <4>1. i \in 1 .. m - k + 1 /\ i \in Int /\ i + k - 1 = i + h
        BY <3>4, <3>5
      <4>2. SubSeq(t, k, Len(t))[i] = t[i + k - 1]
        BY <3>3, <4>1
      <4> QED BY <3>6, <4>1, <4>2
    <3> QED BY <3>3, <3>4, <3>6, <3>7
  <2> HIDE DEF r, m
  <2>9. /\ Entries(u) /\ Len(u) = n + (m - h) /\ DOMAIN u = 1 .. n + (m - h)
        /\ \A i \in 1 .. n : u[i] = Header
        /\ \A i \in n + 1 .. n + (m - h) : u[i] = r[i - n]
    <3>1. /\ Entries(hs \o r) /\ Len(hs \o r) = Len(hs) + Len(r) /\ DOMAIN (hs \o r) = 1 .. Len(hs) + Len(r)
          /\ \A i \in 1 .. Len(hs) : (hs \o r)[i] = hs[i]
          /\ \A i \in Len(hs) + 1 .. Len(hs) + Len(r) : (hs \o r)[i] = r[i - Len(hs)]
      BY <2>4, <2>8, Joined
    <3>2. u = hs \o r
      BY DEF r
    <3> HIDE DEF u
    <3> QED BY <2>3, <2>8, <3>1, <3>2
  <2> HIDE DEF u
  <2>10. \A i \in n + 1 .. n + (m - h) : i - n \in 1 .. m - h /\ (i - n) + h = i - n + h /\ i - n + h \in 1 .. m
    BY <2>3, <2>7
  <2>11. \A i \in n + 1 .. n + (m - h) : u[i] = t[i - n + h]
    BY <2>8, <2>9, <2>10
  <2>12. HeadersFirst(u)
    <3>1. ASSUME NEW i \in DOMAIN u, u[i].kind = "header", NEW j \in 1 .. i
          PROVE  u[j].kind = "header"
      <4>1. ASSUME i \in n + 1 .. n + (m - h)
            PROVE  FALSE
        <5>1. t[i - n + h].kind = "header" /\ i - n + h \in 1 .. m
          BY <2>10, <2>11, <3>1, <4>1
        <5>2. i - n + h <= h
          BY <2>5, <5>1 DEF m
        <5> QED BY <2>3, <2>7, <4>1, <5>2
      <4>2. j \in 1 .. n
        BY <2>3, <2>7, <2>9, <3>1, <4>1
      <4> QED BY <2>2, <2>9, <4>2
    <3> QED BY <3>1 DEF HeadersFirst
  <2>13. Paired(u)
    <3>1. Len(u) = m - h + n
      BY <2>3, <2>7, <2>9
    <3>2. \A i \in Calls(t) : i \in 1 .. m /\ t[i].kind # "header"
      BY <2>7 DEF Calls
    <3>3. \A i \in Calls(t) : ~(i <= h)
      BY <2>5, <3>2 DEF m
    <3>4. \A i \in 1 .. n : u[i].kind \notin {"calls", "result"}
      BY <2>2, <2>9
    <3>5. \A i \in n + 1 .. Len(u) : u[i].kind = t[i - n + h].kind /\ u[i].ids = t[i - n + h].ids
      BY <2>9, <2>11
    <3>6. h <= Len(t) /\ Len(u) = Len(t) - h + n
      BY <2>7, <3>1 DEF m
    <3>7. Entries(t) /\ Paired(t)
      OBVIOUS
    <3> HIDE DEF t
    <3> QED BY <2>7, <2>9, <3>3, <3>4, <3>5, <3>6, <3>7, PrefixExchanged
  <2> QED BY <2>1, <2>9, <2>12, <2>13
<1> QED BY <1>1, <1>2

-----------------------------------------------------------------------------
(* The steps *)

(* A step that leaves the transcripts and the batch alone.                   *)
LEMMA HandStands ==
    ASSUME HandInv, UNCHANGED <<current, batch, goal>>,
           pc \notin Executing \/ pc' \in Executing \/ batch = <<>>
    PROVE  HandInv'
  BY DEF HandInv

(* A run that fails keeps nothing.                                           *)
LEMMA HandDropped ==
    ASSUME HandInv, NEW error, NEW o, FailCharged(error, o)
    PROVE  HandInv'
<1>1. pc' = "end" /\ current' = <<>> /\ batch' = <<>> /\ goal' = goal
  BY DEF FailCharged, Leave
<1>2. Entries(<<>>) /\ HeadersFirst(<<>>) /\ Paired(<<>>)
  <2>1. <<>> \in Seq({}) /\ DOMAIN <<>> = {}
    OBVIOUS
  <2> QED BY <2>1 DEF Entries, HeadersFirst, Paired, Calls
<1>3. Paired(<<>> \o Results(<<>>))
  BY <1>2, NoneToCome
<1> QED BY <1>1, <1>2, <1>3 DEF HandInv, Executing, Holding

(* Where nothing is to be executed the transcript is paired.                 *)
LEMMA NothingDue ==
    ASSUME HandInv, batch = <<>>
    PROVE  Paired(current)
  BY NoneToCome DEF HandInv

(* One that ends otherwise has nothing left to execute.                      *)
LEMMA HandLeft ==
    ASSUME HandInv, batch = <<>>, NEW e, Leave(e), UNCHANGED <<current, goal>>
    PROVE  HandInv'
<1>1. batch' = batch /\ pc' = "end"
  BY DEF Leave
<1> QED BY <1>1, HandStands DEF Executing, Holding

LEMMA HandChecked ==
    ASSUME HandInv, pc \notin Executing, NEW boundary, NEW e, NEW o, Checkpoint(boundary, e, o)
    PROVE  HandInv'
<1>1. batch = <<>>
  BY DEF HandInv
<1>2. Leave(e) /\ UNCHANGED <<current, goal>>
  BY DEF Checkpoint
<1> QED BY <1>1, <1>2, HandLeft

LEMMA HandReturned ==
    ASSUME LoopInv, HandInv, pc \in Executing, batch # <<>>,
           NEW c, NEW content, NEW receipt, NEW size, Returned(c, content, receipt, size)
    PROVE  HandInv'
<1>1. pc' = "batch" /\ batch' = Tail(batch) /\ goal' = goal /\ current' = Append(current, ToolResult(Head(batch).id, size))
  BY DEF Returned, This
<1>2. batch \in Seq(ToolCall)
  BY DEF LoopInv, Types
<1>3. Entries(current') /\ HeadersFirst(current') /\ Paired(current' \o Results(batch'))
  BY <1>1, <1>2, ResultAppended DEF HandInv
<1> QED BY <1>1, <1>3 DEF HandInv, Executing

LEMMA HandFromInit == Init => HandInv
<1> SUFFICES ASSUME Init PROVE HandInv
  OBVIOUS
<1>1. pc = "retrieve" /\ batch = <<>> /\ current = Resumed(goal)
  BY DEF Init
<1>2. Entries(goal.current) /\ HeadersFirst(goal.current) /\ Paired(goal.current)
  <2>1. CASE goal.current = <<>>
    <3>1. <<>> \in Seq({}) /\ DOMAIN <<>> = {}
      OBVIOUS
    <3> QED BY <2>1, <3>1 DEF Entries, HeadersFirst, Paired, Calls
  <2>2. CASE goal.current = ReadOnce \o ReadOnce
    <3> DEFINE c == AssistantToolCalls(<<[id |-> 1, tool |-> "read"]>>)  r == ToolResult(1, 2)  d == <<c, r>>  t == d \o d
    <3>1. goal.current = t
      BY <2>2 DEF ReadOnce
    <3>2. c.kind = "calls" /\ c.ids = <<1>> /\ r.kind = "result" /\ r.ids = <<1>>
      BY DEF AssistantToolCalls, ToolResult
    <3> HIDE DEF c, r
    <3>3. t \in Seq({c, r}) /\ DOMAIN t = 1 .. 4 /\ Len(t) = 4 /\ t[1] = c /\ t[2] = r /\ t[3] = c /\ t[4] = r
      <4>1. d \in Seq({c, r}) /\ Len(d) = 2 /\ d[1] = c /\ d[2] = r
        OBVIOUS
      <4> HIDE DEF d
      <4>2. /\ t \in Seq({c, r}) /\ Len(t) = Len(d) + Len(d)
            /\ \A i \in 1 .. Len(d) + Len(d) : t[i] = IF i <= Len(d) THEN d[i] ELSE d[i - Len(d)]
        BY <4>1, ConcatProperties, ZenonT(60)
      <4> HIDE DEF t
      <4>3. Len(t) = 4 /\ DOMAIN t = 1 .. 4 /\ \A i \in 1 .. 4 : t[i] = IF i <= 2 THEN d[i] ELSE d[i - 2]
        BY <4>1, <4>2
      <4>4. 3 - 2 = 1 /\ 4 - 2 = 2 /\ {1, 2, 3, 4} \subseteq 1 .. 4
        OBVIOUS
      <4>5. t[1] = d[1] /\ t[2] = d[2] /\ t[3] = d[1] /\ t[4] = d[2]
        BY <4>3, <4>4
      <4> QED BY <4>1, <4>2, <4>3, <4>5
    <3>4. <<1>> \in Seq(Nat) /\ DOMAIN <<1>> = {1} /\ <<1>>[1] = 1
      OBVIOUS
    <3> HIDE DEF t
    <3>5. \A i \in DOMAIN t : i = 1 \/ i = 2 \/ i = 3 \/ i = 4
      BY <3>3
    <3>6. Entries(t)
      BY <3>2, <3>3, <3>4, <3>5 DEF Entries
    <3>7. HeadersFirst(t)
      BY <3>2, <3>3, <3>5 DEF HeadersFirst
    <3>8. Calls(t) = {1, 3}
      BY <3>2, <3>3, <3>5 DEF Calls
    <3>9. \A i \in Calls(t) : \A j \in DOMAIN t[i].ids :
            i + j <= Len(t) /\ t[i + j].kind = "result" /\ t[i + j].ids = <<t[i].ids[j]>>
      BY <3>2, <3>3, <3>4, <3>8
    <3>10. \A q \in DOMAIN t : t[q].kind = "result" => \E i \in Calls(t) : q - i \in DOMAIN t[i].ids
      <4> SUFFICES ASSUME NEW q \in DOMAIN t, t[q].kind = "result"
                   PROVE  \E i \in Calls(t) : q - i \in DOMAIN t[i].ids
        OBVIOUS
      <4>1. q = 2 \/ q = 4
        BY <3>2, <3>3, <3>5
      <4>2. 2 - 1 = 1 /\ 4 - 3 = 1 /\ 1 \in DOMAIN t[1].ids /\ 1 \in DOMAIN t[3].ids /\ 1 \in Calls(t) /\ 3 \in Calls(t)
        BY <3>2, <3>3, <3>4, <3>8
      <4> QED BY <4>1, <4>2
    <3> QED BY <3>1, <3>6, <3>7, <3>9, <3>10 DEF Paired
  <2> QED BY <2>1, <2>2 DEF Init, GoalsAt, NewGoal, Stalled
<1>3. Entries(current) /\ HeadersFirst(current) /\ Paired(current)
  BY <1>1, <1>2, ResumedIsPaired
<1>4. current \o Results(batch) = current
  BY <1>1, <1>3, NoneToCome
<1> QED BY <1>1, <1>2, <1>3, <1>4 DEF HandInv

LEMMA ToolCallsHand == LoopInv /\ HandInv /\ ToolCalls => HandInv'
<1> SUFFICES ASSUME LoopInv, HandInv, ToolCalls PROVE HandInv'
  OBVIOUS
<1>1. pc = "request" /\ pc \notin Executing
  BY DEF ToolCalls, Executing, Holding
<1>2. batch = <<>> /\ Paired(current) /\ Entries(current) /\ HeadersFirst(current)
  BY <1>1, NothingDue DEF HandInv
<1>3. PICK c \in Charges, calls \in Batches :
        LET e == [Charged(c) EXCEPT !.seen = @ \cup Ids(calls)]
        IN  \/ ToolFree(Charged(c), Exceeds(c))
            \/ FailCharged("InvalidToolCall", Exceeds(c))
            \/ TooMany(e, Exceeds(c))
            \/ TakeBatch(e, Exceeds(c), calls)
  BY DEF ToolCalls
<1>4. calls \in Seq(ToolCall)
  BY BatchesAreCalls DEF LoopInv, Types
<1> DEFINE e == [Charged(c) EXCEPT !.seen = @ \cup Ids(calls)]
<1>5. CASE ToolFree(Charged(c), Exceeds(c))
  <2>1. CASE FailCharged("LoopExhausted", Exceeds(c))
    BY <2>1, HandDropped
  <2>2. CASE pc' = "top" /\ current' = Append(current, System) /\ goal' = goal /\ batch' = batch
    <3>1. System.kind = "system" /\ System.ids = <<>>
      BY DEF System
    <3>2. System.ids \in Seq(Nat)
      BY <3>1
    <3>3. Entries(current') /\ HeadersFirst(current') /\ Paired(current')
      BY <1>2, <2>2, <3>1, <3>2, ItemAppended
    <3>4. current' \o Results(batch') = current'
      BY <1>2, <2>2, <3>3, NoneToCome
    <3> QED BY <1>2, <2>2, <3>3, <3>4 DEF HandInv
  <2> QED BY <1>5, <2>1, <2>2 DEF ToolFree, toolVars
<1>6. CASE FailCharged("InvalidToolCall", Exceeds(c))
  BY <1>6, HandDropped
<1>7. CASE TooMany(e, Exceeds(c))
  <2>1. CASE Checkpoint("RunawayGuard", e, Exceeds(c))
    <3> HIDE DEF e
    <3> QED BY <1>1, <2>1, HandChecked
  <2>2. CASE pc' = "top" /\ UNCHANGED <<current, batch, goal>>
    BY <1>2, <2>2, HandStands
  <2> QED BY <1>7, <2>1, <2>2 DEF TooMany, toolVars
<1>8. CASE TakeBatch(e, Exceeds(c), calls)
  <2>1. pc' = "batch" /\ batch' = calls /\ goal' = goal /\ current' = Append(current, AssistantToolCalls(calls))
    BY <1>8 DEF TakeBatch
  <2>2. Entries(current') /\ HeadersFirst(current') /\ Paired(current' \o Results(batch'))
    BY <1>2, <1>4, <2>1, BatchAppended
  <2> QED BY <2>1, <2>2 DEF HandInv, Executing
<1> QED BY <1>3, <1>5, <1>6, <1>7, <1>8

LEMMA SaveHands == HandInv /\ Save => HandInv'
<1> SUFFICES ASSUME HandInv, Save PROVE HandInv'
  OBVIOUS
<1>1. pc = "end" /\ pc' = "saved" /\ current' = current /\ batch' = batch
  BY DEF Save, toolVars
<1>2. batch = <<>> /\ Paired(current) /\ Entries(current) /\ HeadersFirst(current)
  BY <1>1, NothingDue DEF HandInv, Executing, Holding
<1>3. PICK boundary, kept :
        /\ kept = Kept(current, 0, FALSE) \/ kept \in Compactions(current, request_budget)
        /\ goal'.current = IF boundary = "NoProgressRecovery" THEN Append(kept.current, System) ELSE kept.current
  <2>1. PICK boundary \in Promoted(outcome.boundary) :
        \E kept \in IF boundary \in {"AtomicStep", "Budget"} THEN {Kept(current, 0, FALSE)}
                   ELSE Compactions(current, request_budget) :
          goal' = [current |-> IF boundary = "NoProgressRecovery" THEN Append(kept.current, System) ELSE kept.current,
                   summary |-> goal.summary \/ kept.summary,
                   progress |-> progress, same |-> IF outcome.same = 0 THEN goal.same ELSE outcome.same,
                   sequence |-> goal.sequence + 1, remaining |-> request_budget - kept.cost,
                   blocked |-> IF boundary \in Blocks THEN boundary ELSE None]
    BY DEF Save
  <2>2. PICK kept \in IF boundary \in {"AtomicStep", "Budget"} THEN {Kept(current, 0, FALSE)}
                     ELSE Compactions(current, request_budget) :
          goal' = [current |-> IF boundary = "NoProgressRecovery" THEN Append(kept.current, System) ELSE kept.current,
                   summary |-> goal.summary \/ kept.summary,
                   progress |-> progress, same |-> IF outcome.same = 0 THEN goal.same ELSE outcome.same,
                   sequence |-> goal.sequence + 1, remaining |-> request_budget - kept.cost,
                   blocked |-> IF boundary \in Blocks THEN boundary ELSE None]
    BY <2>1
  <2>3. kept = Kept(current, 0, FALSE) \/ kept \in Compactions(current, request_budget)
    BY <2>2
  <2>4. goal'.current = IF boundary = "NoProgressRecovery" THEN Append(kept.current, System) ELSE kept.current
    BY <2>2
  <2> QED BY <2>3, <2>4
<1>4. Entries(kept.current) /\ HeadersFirst(kept.current) /\ Paired(kept.current)
  <2>1. CASE kept.current = current
    BY <1>2, <2>1
  <2>2. CASE Cardinality(Calls(current)) > 2 /\ kept.current = SubSeq(current, KeepFrom(current), Len(current))
    <3>1. KeepFrom(current) \in Calls(current)
      BY <1>2, <2>2, KeepsFromBatch
    <3> QED BY <1>2, <2>2, <3>1, CutStaysPaired
  <2> QED BY <1>3, <2>1, <2>2 DEF Compactions, Kept
<1>5. Entries(goal'.current) /\ HeadersFirst(goal'.current) /\ Paired(goal'.current)
  <2>1. System.kind = "system" /\ System.ids = <<>>
    BY DEF System
  <2>2. System.ids \in Seq(Nat)
    BY <2>1
  <2>3. Entries(Append(kept.current, System)) /\ HeadersFirst(Append(kept.current, System)) /\ Paired(Append(kept.current, System))
    BY <1>4, <2>1, <2>2, ItemAppended
  <2> QED BY <1>3, <1>4, <2>3
<1>6. Paired(current' \o Results(batch'))
  BY <1>1, <1>2, NoneToCome
<1> QED BY <1>1, <1>2, <1>5, <1>6 DEF HandInv, Executing, Holding

LEMMA NextSliceHands == HandInv /\ NextSlice => HandInv'
<1> SUFFICES ASSUME HandInv, NextSlice PROVE HandInv'
  OBVIOUS
<1>1. pc \in {"saved", "end"} /\ pc' = "retrieve" /\ current' = Resumed(goal) /\ batch' = batch /\ goal' = goal
  BY DEF NextSlice
<1>2. batch = <<>>
  BY <1>1 DEF HandInv, Executing, Holding
<1>3. Entries(current') /\ HeadersFirst(current') /\ Paired(current')
  BY <1>1, ResumedIsPaired DEF HandInv
<1>4. current' \o Results(batch') = current'
  BY <1>1, <1>2, <1>3, NoneToCome
<1> QED BY <1>1, <1>2, <1>3, <1>4 DEF HandInv

LEMMA HandInvariant == Spec => []HandInv
<1>1. LoopInv /\ HandInv /\ [Next]_vars => HandInv'
  <2> SUFFICES ASSUME LoopInv, HandInv, [Next]_vars PROVE HandInv'
    OBVIOUS
  <2>1. CASE UNCHANGED <<pc, current, batch, goal>>
    BY <2>1, HandStands
  <2>2. CASE Tick \/ Cancel \/ UNCHANGED vars
    BY <2>1, <2>2 DEF Tick, Cancel, toolVars, vars
  <2>3. CASE \E error, o : FailCharged(error, o)
    BY <2>3, HandDropped
  <2>4. CASE pc \notin Executing /\ pc' \notin Executing /\ UNCHANGED <<current, batch, goal>>
    BY <2>4, HandStands
  <2>5. CASE pc' \in Executing /\ UNCHANGED <<current, batch, goal>>
    BY <2>5, HandStands
  <2>6. ASSUME pc \notin Executing, NEW boundary, NEW e, NEW o, Checkpoint(boundary, e, o)
        PROVE  HandInv'
    BY <2>6, HandChecked
  <2>7. ASSUME pc \in Executing, batch # <<>>, NEW c, NEW content, NEW receipt, NEW size,
               Returned(c, content, receipt, size)
        PROVE  HandInv'
    BY <2>7, HandReturned
  <2>8. CASE SeeCancel \/ TurnTimeout \/ ApprovalTimeout \/ ToolTimeout
    BY <2>3, <2>8 DEF SeeCancel, TurnTimeout, ApprovalTimeout, ToolTimeout, Fail
  <2>9. CASE Retrieve
    BY <2>3, <2>4, <2>9 DEF Retrieve, Fail, toolVars, Executing, Holding
  <2>10. CASE BeginRound
    <3>1. pc \notin Executing
      BY <2>10 DEF BeginRound, Executing, Holding
    <3>2. \/ \E boundary, e, o : Checkpoint(boundary, e, o)
          \/ \E error, o : FailCharged(error, o)
          \/ pc' = "plan" /\ UNCHANGED <<current, batch, goal>>
      BY <2>10 DEF BeginRound, Fail
    <3> QED BY <2>3, <2>4, <2>6, <3>1, <3>2 DEF Executing, Holding
  <2>11. CASE Plan
    <3>1. pc = "plan" /\ pc \notin Executing
      BY <2>11 DEF Plan, Executing, Holding
    <3>2. \/ \E boundary, e, o : Checkpoint(boundary, e, o)
          \/ \E error, o : FailCharged(error, o)
          \/ pc' \in {"plan", "request"} /\ UNCHANGED <<current, batch, goal>>
      BY <2>11, <3>1 DEF Plan, Fail, toolVars
    <3> QED BY <2>3, <2>4, <2>6, <3>1, <3>2 DEF Executing, Holding
  <2>12. CASE AttemptFails \/ WakeUp
    BY <2>3, <2>4, <2>12 DEF AttemptFails, WakeUp, Fail, toolVars, Executing, Holding
  <2>13. CASE Overspends
    BY <2>3, <2>13 DEF Overspends
  <2>14. CASE FinalText
    <3>1. pc \notin Executing
      BY <2>14 DEF FinalText, Executing, Holding
    <3>2. PICK c : FailCharged("InvalidFinal", Exceeds(c)) \/ (Leave(Charged(c)) /\ UNCHANGED <<current, goal>>)
      BY <2>14 DEF FinalText
    <3>3. batch = <<>>
      BY <3>1 DEF HandInv
    <3> QED BY <2>3, <3>2, <3>3, HandLeft
  <2>15. CASE ToolCalls
    BY <2>15, ToolCallsHand
  <2>16. CASE Execute
    <3>1. pc \in Executing /\ batch # <<>>
      BY <2>16 DEF Execute, Executing
    <3>2. \/ \E c, content, receipt, size : Returned(c, content, receipt, size)
          \/ \E error, o : FailCharged(error, o)
          \/ pc' \in {"ask", "prepare"} /\ UNCHANGED <<current, batch, goal>>
      BY <2>16 DEF Execute, Fail, Ask
    <3> QED BY <2>3, <2>5, <2>7, <3>1, <3>2 DEF Executing, Holding
  <2>17. CASE UserAnswers
    <3>1. PICK p \in prompts, allow \in BOOLEAN :
            \/ UNCHANGED <<pc, current, batch, goal>>
            \/ Awaited(p) /\ Returned(counters, "no", None, 1)
            \/ Awaited(p) /\ pc' = "prepare" /\ UNCHANGED <<current, batch, goal>>
      BY <2>17 DEF UserAnswers
    <3>2. Awaited(p) => pc = "ask" /\ pc \in Executing /\ batch # <<>>
      BY DEF LoopInv, RequestsSound, CallsLeft, Awaited, Executing, Holding
    <3> QED BY <2>1, <2>5, <2>7, <3>1, <3>2 DEF Executing, Holding
  <2>18. CASE Prepare \/ Exec
    <3>1. pc \in Executing /\ batch # <<>>
      BY <2>18 DEF Prepare, Exec, Executing, Holding, LoopInv, CallsLeft
    <3>2. \/ \E c, content, receipt, size : Returned(c, content, receipt, size)
          \/ \E error, o : FailCharged(error, o)
          \/ pc' = "exec" /\ UNCHANGED <<current, batch, goal>>
      <4>1. CASE Prepare
        BY <4>1 DEF Prepare, Fail, toolVars
      <4>2. CASE Exec
        <5>1. ASSUME NEW content, NEW receipt, NEW size, Output(content, receipt, size)
              PROVE  \/ \E c, size2 : Returned(c, content, receipt, size2)
                     \/ \E error, o : FailCharged(error, o)
          BY <5>1 DEF Output, Fail
        <5> QED BY <4>2, <5>1 DEF Exec, Fail
      <4> QED BY <2>18, <4>1, <4>2
    <3> QED BY <2>3, <2>5, <2>7, <3>1, <3>2 DEF Executing, Holding
  <2>19. CASE BatchDone
    <3>1. pc = "batch" /\ batch = <<>> /\ UNCHANGED <<current, goal>>
      BY <2>19 DEF BatchDone
    <3>2. Leave(engine) \/ batch' = batch
      BY <2>19 DEF BatchDone
    <3> QED BY <3>1, <3>2, HandLeft, HandStands
  <2>20. CASE Save \/ NextSlice
    BY <2>20, SaveHands, NextSliceHands
  <2> QED BY <2>2, <2>8, <2>9, <2>10, <2>11, <2>12, <2>13, <2>14, <2>15, <2>16, <2>17, <2>18, <2>19, <2>20
          DEF Next, Round, Batch
<1> QED BY <1>1, HandFromInit, LoopInvariant, PTL DEF Spec

(* Every transcript that is sent to the model or saved has a result for each *)
(* call and no other, wherever it was cut (compact_working_set) and however  *)
(* often it was handed on behind new headers.                                *)
THEOREM SlicesAlwaysGoOn == Spec => []SlicesGoOn
<1>1. LoopInv /\ HandInv => SlicesGoOn
  <2> SUFFICES ASSUME HandInv, pc \in {"request", "saved"} PROVE Paired(current) /\ Paired(goal.current)
    BY DEF SlicesGoOn
  <2>1. batch = <<>>
    BY DEF HandInv, Executing, Holding
  <2> QED BY <2>1, NothingDue DEF HandInv
<1> QED BY <1>1, LoopInvariant, HandInvariant, PTL
=============================================================================
