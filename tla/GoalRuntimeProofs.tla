--------------------------- MODULE GoalRuntimeProofs ---------------------------
(****************************************************************************)
(* What TLAPS proves of GoalRuntime: for every set of goals, callers,       *)
(* executions and commands, whatever fails, stalls or crashes.              *)
(****************************************************************************)
EXTENDS GoalRuntime, TLAPS

RegistryFacts == INSTANCE RunRegistryProofs WITH RunIds <- Goals, Resources <- {Session}

----------------------------------------------------------------------------
(* Records.                                                                 *)
Why == PauseReason \cup BlockReason \cup {"none"}
Steering == {"none", "waiting", "injected"}

(* Any one field of a goal may be replaced by a value of its type.          *)
LEMMA GoalWith ==
    ASSUME NEW g \in AgentGoal
    PROVE  /\ \A x \in Status : [g EXCEPT !.status = x] \in AgentGoal
           /\ \A x \in Why : [g EXCEPT !.why = x] \in AgentGoal
           /\ \A x \in Candidate : [g EXCEPT !.cand = x] \in AgentGoal
           /\ \A x \in BOOLEAN : [g EXCEPT !.reads = x] \in AgentGoal
           /\ \A x \in SUBSET Execs : [g EXCEPT !.writes = x] \in AgentGoal
           /\ \A x \in SUBSET Execs : [g EXCEPT !.receipts = x] \in AgentGoal
           /\ \A x \in Steering : [g EXCEPT !.steering = x] \in AgentGoal
           /\ \A x \in BOOLEAN : [g EXCEPT !.used = x] \in AgentGoal
           /\ \A x \in 0..3 : [g EXCEPT !.feedback = x] \in AgentGoal
           /\ \A x \in BOOLEAN : [g EXCEPT !.over = x] \in AgentGoal
           /\ \A x \in BOOLEAN : [g EXCEPT !.spare = x] \in AgentGoal
BY DEF AgentGoal, Why, Steering

(* The fields of a goal are of their types.                                  *)
LEMMA GoalFields ==
    ASSUME NEW g \in AgentGoal
    PROVE  /\ g.id \in Goals /\ g.status \in Status /\ g.why \in Why /\ g.cand \in Candidate
           /\ g.reads \in BOOLEAN /\ g.writes \in SUBSET Execs /\ g.receipts \in SUBSET Execs
           /\ g.steering \in Steering /\ g.used \in BOOLEAN /\ g.feedback \in 0..3
           /\ g.over \in BOOLEAN /\ g.spare \in BOOLEAN
BY DEF AgentGoal, Why, Steering

(* What the runtime makes of a goal is a goal.                              *)
LEMMA GoalOperators ==
    ASSUME NEW g \in AgentGoal
    PROVE  /\ \A why \in Why : Paused(g, why) \in AgentGoal /\ Blocked(g, why) \in AgentGoal
           /\ clear_active_working_data(g) \in AgentGoal
           /\ Cancelled(g) \in AgentGoal /\ Committed(g) \in AgentGoal
           /\ prepare_for_restart(g) \in AgentGoal
           /\ inject_steering(g) \in AgentGoal
           /\ AfterApproval(g) \in AgentGoal
           /\ Requeued(g) \in AgentGoal /\ Switched(g) \in AgentGoal
           /\ \A err : AfterError(g, err) \in AgentGoal
<1>0. /\ 0 \in 0..3 /\ "none" \in Candidate /\ "none" \in Why /\ "injected" \in Steering
      /\ {"Queued", "Running", "Paused", "Blocked", "Cancelled", "Completed"} \subseteq Status
      /\ {"AppRestarted", "ProviderUnavailable", "Other"} \subseteq Why
  BY DEF Candidate, Why, Steering, Status, Terminal, PauseReason, BlockReason
<1>1. \A why \in Why : Paused(g, why) \in AgentGoal /\ Blocked(g, why) \in AgentGoal
  BY <1>0, GoalWith DEF Paused, Blocked
<1>2. \A h \in AgentGoal : clear_active_working_data(h) \in AgentGoal
  BY <1>0, GoalWith, GoalFields DEF clear_active_working_data
<1>3. Cancelled(g) \in AgentGoal /\ Committed(g) \in AgentGoal
  BY <1>0, <1>2, GoalWith DEF Cancelled, Committed
<1>4. prepare_for_restart(g) \in AgentGoal
  BY <1>0, <1>1 DEF prepare_for_restart
<1>5. inject_steering(g) \in AgentGoal
  BY <1>0, GoalWith, GoalFields DEF inject_steering
<1>6. AfterApproval(g) \in AgentGoal
  BY <1>0, GoalWith DEF AfterApproval
<1>7. Requeued(g) \in AgentGoal
  BY <1>0, GoalWith DEF Requeued
<1>8. Switched(g) \in AgentGoal
  BY GoalWith, GoalFields DEF Switched
<1>9. \A err : AfterError(g, err) \in AgentGoal
  BY <1>0, <1>1, <1>3 DEF AfterError
<1> QED BY <1>1, <1>2, <1>3, <1>4, <1>5, <1>6, <1>7, <1>8, <1>9

(* A goal that is created is a goal.                                         *)
LEMMA NewGoalType == \A g \in Goals : NewGoal(g) \in AgentGoal
BY DEF AgentGoal, NewGoal, Candidate, Status, Terminal

(* The states of a task that is alive.                                      *)
LiveRunner == {r \in Runner : r.pc # "idle"}

(* A loop with one of its fields changed is still one.                       *)
LEMMA RunnerWith ==
    /\ \A r \in Runner : \A x \in RunnerPC \ {"idle"} : [r EXCEPT !.pc = x] \in LiveRunner
    /\ \A r \in LiveRunner :
          /\ \A x \in RunError : [r EXCEPT !.err = x] \in LiveRunner
          /\ \A x \in Boundary : [r EXCEPT !.boundary = x] \in LiveRunner
          /\ \A x \in BOOLEAN : [r EXCEPT !.over = x] \in LiveRunner
          /\ \A x \in Candidate : [r EXCEPT !.dec = x] \in LiveRunner
          /\ \A x \in BOOLEAN : [r EXCEPT !.effects = x] \in LiveRunner
          /\ \A x \in BOOLEAN : [r EXCEPT !.feedback = x] \in LiveRunner
          /\ \A x \in Execs \cup {None} : [r EXCEPT !.exec = x] \in LiveRunner
BY DEF Runner, LiveRunner

(* No loop is a loop that is idle.                                           *)
LEMMA IdleRunnerType == IdleRunner \in Runner /\ IdleRunner.pc = "idle"
BY DEF IdleRunner, Runner, RunnerPC, Candidate

(* No command is a command that is idle.                                     *)
LEMMA IdleCallerType == IdleCaller \in Caller /\ IdleCaller.pc = "idle"
BY DEF IdleCaller, Caller, CallerPC, NoRecovery, Recovery

(* A command with one of its fields changed is still one.                    *)
LEMMA CallerWith ==
    ASSUME NEW k \in Caller
    PROVE  /\ \A x \in CallerPC : [k EXCEPT !.pc = x] \in Caller
           /\ \A x \in Goals : [k EXCEPT !.id = x] \in Caller
           /\ \A x \in Ops : [k EXCEPT !.op = x] \in Caller
           /\ \A x \in BOOLEAN : [k EXCEPT !.first = x] \in Caller
           /\ \A x \in Recovery : [k EXCEPT !.rec = x] \in Caller
BY DEF Caller

----------------------------------------------------------------------------
(* The registry as the runtime instantiates it.                             *)
LEMMA SamePrune ==
    ASSUME NEW q
    PROVE  /\ \A lag : RegistryFacts!prune_pending(q, lag) = Registry!prune_pending(q, lag)
           /\ \A g : RegistryFacts!RemoveEntry(q, g) = Registry!RemoveEntry(q, g)
           /\ \A g : RegistryFacts!IsPending(q, g) <=> Registry!IsPending(q, g)
<1>1. \A r : RegistryFacts!OverCap(r) = Registry!OverCap(r)
  BY DEF RegistryFacts!OverCap, Registry!OverCap
<1>2. \A r, lag : RegistryFacts!ExpiredPrefix(r, lag) = Registry!ExpiredPrefix(r, lag)
  BY DEF RegistryFacts!ExpiredPrefix, Registry!ExpiredPrefix, RegistryFacts!Expired, Registry!Expired
<1>3. \A lag : RegistryFacts!prune_pending(q, lag) = Registry!prune_pending(q, lag)
  BY <1>1, <1>2 DEF RegistryFacts!prune_pending, Registry!prune_pending, RegistryFacts!DropFirst,
     Registry!DropFirst
<1>4. \A g : RegistryFacts!Position(q, g) = Registry!Position(q, g)
  BY DEF RegistryFacts!Position, Registry!Position
<1>5. \A g : RegistryFacts!RemoveEntry(q, g) = Registry!RemoveEntry(q, g)
  BY <1>4 DEF RegistryFacts!RemoveEntry, Registry!RemoveEntry
<1> QED BY <1>3, <1>5 DEF RegistryFacts!IsPending, Registry!IsPending

(* The operations of the registry are those the registry proofs speak of.    *)
LEMMA SameRegistry ==
    /\ Registry!Init => RegistryFacts!Init
    /\ \A g : Registry!Registered(g, Session) => RegistryFacts!Registered(g, Session)
    /\ \A g : Registry!RegisterRefused(g, Session) => RegistryFacts!RegisterRefused(g, Session)
    /\ \A g : Registry!Finish(g) => RegistryFacts!Finish(g)
    /\ \A g : Registry!Cancel(g) => RegistryFacts!Cancel(g)
    /\ Registry!Tick => RegistryFacts!Tick
<1>1. Registry!Init => RegistryFacts!Init
  BY DEF Registry!Init, RegistryFacts!Init
<1>2. ASSUME NEW g, Registry!Registered(g, Session) PROVE RegistryFacts!Registered(g, Session)
  <2>1. PICK lag \in RegistryFacts!Lags : Registry!RegisteredAt(g, Session, lag)
    BY <1>2 DEF Registry!Registered, Registry!Lags, RegistryFacts!Lags
  <2>2. \A q, h : RegistryFacts!IsPending(q, h) = Registry!IsPending(q, h)
    BY DEF RegistryFacts!IsPending, Registry!IsPending
  <2>3. RegistryFacts!RegisteredAt(g, Session, lag)
    BY <2>1, <2>2, SamePrune DEF Registry!RegisteredAt, RegistryFacts!RegisteredAt, Registry!IsActive,
       RegistryFacts!IsActive
  <2> QED BY <2>3 DEF RegistryFacts!Registered
<1>3. ASSUME NEW g, Registry!RegisterRefused(g, Session) PROVE RegistryFacts!RegisterRefused(g, Session)
  BY <1>3, SamePrune DEF Registry!RegisterRefused, RegistryFacts!RegisterRefused, Registry!Lags,
     RegistryFacts!Lags, Registry!IsActive, RegistryFacts!IsActive
<1>4. ASSUME NEW g, Registry!Finish(g) PROVE RegistryFacts!Finish(g)
  BY <1>4 DEF Registry!Finish, RegistryFacts!Finish, Registry!IsActive, RegistryFacts!IsActive
<1>5. ASSUME NEW g, Registry!Cancel(g) PROVE RegistryFacts!Cancel(g)
  BY <1>5, SamePrune DEF Registry!Cancel, RegistryFacts!Cancel, Registry!CancelAt, RegistryFacts!CancelAt,
     Registry!Queued, RegistryFacts!Queued, Registry!Lags, RegistryFacts!Lags, Registry!IsActive, RegistryFacts!IsActive
<1>6. Registry!Tick => RegistryFacts!Tick
  BY DEF Registry!Tick, RegistryFacts!Tick, Registry!MAX_AGE, RegistryFacts!MAX_AGE
<1> QED BY <1>1, <1>2, <1>3, <1>4, <1>5, <1>6

(* Its invariant, and what each of its operations does to the one resource. *)
Admission == RegistryFacts!Inv

(* What the registry keeps has its types.                                    *)
LEMMA AdmissionTypes ==
    ASSUME Admission
    PROVE  /\ Registry!TypeOK
           /\ active \in [Goals -> {Session, NoRun}]
           /\ cancelled \in [Goals -> BOOLEAN]
           /\ active_resources \in [{Session} -> Goals \cup {NoRun}]
           /\ \A g \in Goals : active[g] # NoRun => active_resources[Session] = g
           /\ active_resources[Session] # NoRun => active[active_resources[Session]] = Session
<1>1. RegistryFacts!TypeOK /\ RegistryFacts!ResourcesMirrorActive
  BY DEF Admission, RegistryFacts!Inv
<1>2. Registry!TypeOK
  BY <1>1 DEF Registry!TypeOK, RegistryFacts!TypeOK, Registry!Entry, RegistryFacts!Entry,
     Registry!MAX_AGE, RegistryFacts!MAX_AGE
<1>3. /\ active \in [Goals -> {Session, NoRun}]
      /\ cancelled \in [Goals -> BOOLEAN]
      /\ active_resources \in [{Session} -> Goals \cup {NoRun}]
  BY <1>2 DEF Registry!TypeOK
<1>4. \A g \in Goals : active[g] # NoRun => active_resources[Session] = g
  BY <1>1, <1>3 DEF RegistryFacts!ResourcesMirrorActive, RegistryFacts!IsActive
<1>5. active_resources[Session] # NoRun => active[active_resources[Session]] = Session
  BY <1>1 DEF RegistryFacts!ResourcesMirrorActive
<1> QED BY <1>2, <1>3, <1>4, <1>5

(* An empty registry admits soundly.                                         *)
LEMMA AdmissionInit == Registry!Init => Admission
<1> SUFFICES ASSUME RegistryFacts!Init PROVE RegistryFacts!Inv
  BY SameRegistry DEF Admission
<1>0. NoRun \notin Goals \cup {Session} /\ MAX_PENDING_CANCELLATIONS \in Nat
  BY RuntimeAssumption
<1>1. RegistryFacts!TypeOK /\ RegistryFacts!ResourcesMirrorActive
  BY <1>0 DEF RegistryFacts!Init, RegistryFacts!TypeOK, RegistryFacts!ResourcesMirrorActive,
     RegistryFacts!IsActive
<1>2. Len(pending) = 0
  BY DEF RegistryFacts!Init
<1>3. RegistryFacts!PendingSound
  BY <1>0, <1>2 DEF RegistryFacts!Init, RegistryFacts!PendingSound, RegistryFacts!Distinct,
     RegistryFacts!OldestFirst, RegistryFacts!IsActive
<1> QED BY <1>1, <1>3 DEF RegistryFacts!Inv

(* Every operation of the registry keeps it.                                 *)
LEMMA AdmissionSteps ==
    ASSUME Admission, NEW g \in Goals
    PROVE  /\ Registry!Registered(g, Session) =>
                 /\ Admission' /\ active_resources[Session] = NoRun /\ active_resources'[Session] = g
           /\ Registry!RegisterRefused(g, Session) =>
                 Admission' /\ active_resources' = active_resources
           /\ Registry!Cancel(g) => Admission' /\ active_resources' = active_resources
           /\ Registry!Finish(g) =>
                 /\ Admission'
                 /\ active_resources'[Session] \in {NoRun, active_resources[Session]}
                 /\ active_resources[Session] = g => active_resources'[Session] = NoRun
                 /\ active_resources[Session] # g => active_resources' = active_resources
<1>0. RegistryFacts!RegistryAssumption
  BY RuntimeAssumption DEF RegistryFacts!RegistryAssumption
<1>00. RegistryFacts!Inv /\ Session \in {Session}
  BY DEF Admission
<1>1. ASSUME Registry!Registered(g, Session)
      PROVE  /\ Admission' /\ active_resources[Session] = NoRun /\ active_resources'[Session] = g
  <2>1. Admission'
    BY <1>0, <1>00, <1>1, SameRegistry, RegistryFacts!RegisteredKeeps DEF Admission
  <2> QED BY <2>1, <1>1, AdmissionTypes DEF Registry!Registered, Registry!RegisteredAt
<1>2. ASSUME Registry!RegisterRefused(g, Session)
      PROVE  Admission' /\ active_resources' = active_resources
  <2>1. Admission'
    BY <1>0, <1>00, <1>2, SameRegistry, RegistryFacts!RefusedKeeps DEF Admission
  <2> QED BY <2>1, <1>2 DEF Registry!RegisterRefused
<1>3. ASSUME Registry!Cancel(g) PROVE Admission' /\ active_resources' = active_resources
  <2>1. Admission'
    BY <1>0, <1>00, <1>3, SameRegistry, RegistryFacts!CancelKeeps DEF Admission
  <2> QED BY <2>1, <1>3 DEF Registry!Cancel, Registry!CancelAt
<1>4. ASSUME Registry!Finish(g)
      PROVE  /\ Admission'
             /\ active_resources'[Session] \in {NoRun, active_resources[Session]}
             /\ active_resources[Session] = g => active_resources'[Session] = NoRun
             /\ active_resources[Session] # g => active_resources' = active_resources
  <2>1. Admission'
    BY <1>0, <1>00, <1>4, SameRegistry, RegistryFacts!FinishKeeps DEF Admission
  <2>2. g \in Goals /\ NoRun # g /\ NoRun # Session
    BY RuntimeAssumption
  <2>3. /\ active_resources' = IF active[g] # NoRun
                               THEN [active_resources EXCEPT ![active[g]] = NoRun]
                               ELSE active_resources
    BY <1>4 DEF Registry!Finish, Registry!IsActive
  <2>4. active[g] = Session <=> active_resources[Session] = g
    BY <2>2, AdmissionTypes
  <2>5. active[g] \in {Session, NoRun}
    BY AdmissionTypes
  <2>6. CASE active[g] = Session
    BY <2>1, <2>2, <2>3, <2>4, <2>6, AdmissionTypes
  <2>7. CASE active[g] = NoRun
    BY <2>1, <2>2, <2>3, <2>4, <2>7, AdmissionTypes
  <2> QED BY <2>5, <2>6, <2>7
<1> QED BY <1>1, <1>2, <1>3, <1>4

(* ... and so does the passing of time,                                      *)
LEMMA AdmissionTick ==
    ASSUME Admission, Registry!Tick
    PROVE  Admission' /\ active_resources' = active_resources
<1>1. RegistryFacts!RegistryAssumption
  BY RuntimeAssumption DEF RegistryFacts!RegistryAssumption
<1>2. Admission'
  BY <1>1, SameRegistry, RegistryFacts!TickKeeps DEF Admission
<1> QED BY <1>2 DEF Registry!Tick

(* ... and a step that leaves the registry.                                  *)
LEMMA AdmissionStutters == Admission /\ UNCHANGED registry => Admission'
BY DEF Admission, registry, RegistryFacts!Inv, RegistryFacts!TypeOK, RegistryFacts!ResourcesMirrorActive,
   RegistryFacts!PendingSound, RegistryFacts!Distinct, RegistryFacts!OldestFirst, RegistryFacts!IsPending,
   RegistryFacts!IsActive

----------------------------------------------------------------------------
(* Types.                                                                   *)
RepositoryTypes ==
    /\ goal \in AgentGoal \cup {None} /\ disk \in AgentGoal \cup {None}
    /\ loaded \in BOOLEAN /\ stale \subseteq Callers
FileTypes == spent \subseteq Execs /\ inflight \subseteq spent /\ applied \subseteq spent

(* A command that is under way names a goal.                                *)
CallersNamed == \A c \in Callers : caller[c].pc # "idle" => caller[c].id \in Goals /\ caller[c].op \in Ops

(* A step of a task that stays alive.                                       *)
Alive(g) ==
    /\ runner[g].pc # "idle" /\ runner'[g] \in LiveRunner
    /\ runner' \in [Goals -> Runner] /\ \A h \in Goals \ {g} : runner'[h] = runner[h]

(* Moving a loop on, failing it or ending it leaves it a loop that runs.     *)
LEMMA Movements ==
    ASSUME runner \in [Goals -> Runner], NEW g \in Goals, runner[g].pc # "idle"
    PROVE  /\ \A x \in RunnerPC \ {"idle"} : Goto(g, x) => Alive(g)
           /\ \A err \in RunError : Fail(g, err) => Alive(g)
           /\ Return(g) => Alive(g)
           /\ LoopTop(g) => Alive(g)
           /\ \A x \in RunnerPC \ {"idle"}, y \in BOOLEAN :
                 /\ runner' = [runner EXCEPT ![g].pc = x, ![g].over = y] => Alive(g)
                 /\ runner' = [runner EXCEPT ![g].pc = x, ![g].effects = y] => Alive(g)
                 /\ runner' = [runner EXCEPT ![g].pc = x, ![g].feedback = y] => Alive(g)
           /\ \A x \in RunnerPC \ {"idle"}, y \in Boundary :
                 runner' = [runner EXCEPT ![g].pc = x, ![g].boundary = y] => Alive(g)
           /\ \A x \in RunnerPC \ {"idle"}, y \in Execs \cup {None} :
                 runner' = [runner EXCEPT ![g].pc = x, ![g].exec = y] => Alive(g)
           /\ \A x \in RunnerPC \ {"idle"}, y \in Candidate :
                 runner' = [runner EXCEPT ![g].pc = x, ![g].dec = y] => Alive(g)
           /\ \A x \in RunnerPC \ {"idle"}, y \in Candidate, z \in BOOLEAN :
                 runner' = [runner EXCEPT ![g].pc = x, ![g].dec = y, ![g].feedback = z] => Alive(g)
<1> DEFINE at(x) == [runner[g] EXCEPT !.pc = x]
<1>0. runner[g] \in Runner /\ IdleRunner \in Runner /\ {"failed", "finish", "top"} \subseteq RunnerPC \ {"idle"}
  BY IdleRunnerType DEF RunnerPC
<1>1. ASSUME NEW s \in LiveRunner, runner' = [runner EXCEPT ![g] = s] PROVE Alive(g)
  BY <1>1 DEF Alive, LiveRunner
<1>2. \A x \in RunnerPC \ {"idle"} : at(x) \in LiveRunner
  BY <1>0, RunnerWith
<1>3. ASSUME NEW x \in RunnerPC \ {"idle"}, Goto(g, x) PROVE Alive(g)
  BY <1>1, <1>2, <1>3 DEF Goto
<1>4. ASSUME NEW err \in RunError, Fail(g, err) PROVE Alive(g)
  <2> DEFINE s == [IdleRunner EXCEPT !.pc = "failed"]
  <2>1. s \in LiveRunner /\ runner' = [runner EXCEPT ![g] = [s EXCEPT !.err = err]]
    BY <1>0, <1>4, RunnerWith DEF Fail
  <2> HIDE DEF s
  <2>2. [s EXCEPT !.err = err] \in LiveRunner
    BY <2>1, RunnerWith
  <2> QED BY <2>1, <2>2, <1>1
<1>5. Return(g) => Alive(g)
  BY <1>0, <1>1, RunnerWith DEF Return
<1>6. LoopTop(g) => Alive(g)
  BY <1>0, <1>1, RunnerWith DEF LoopTop
<1>7. ASSUME NEW x \in RunnerPC \ {"idle"}, NEW y \in BOOLEAN,
             runner' = [runner EXCEPT ![g].pc = x, ![g].over = y]
      PROVE  Alive(g)
  <2>1. runner' = [runner EXCEPT ![g] = [at(x) EXCEPT !.over = y]]
    BY <1>7
  <2> HIDE DEF at
  <2> QED BY <2>1, <1>1, <1>2, RunnerWith
<1>8. ASSUME NEW x \in RunnerPC \ {"idle"}, NEW y \in BOOLEAN,
             runner' = [runner EXCEPT ![g].pc = x, ![g].effects = y]
      PROVE  Alive(g)
  <2>1. runner' = [runner EXCEPT ![g] = [at(x) EXCEPT !.effects = y]]
    BY <1>8
  <2> HIDE DEF at
  <2> QED BY <2>1, <1>1, <1>2, RunnerWith
<1>9. ASSUME NEW x \in RunnerPC \ {"idle"}, NEW y \in BOOLEAN,
             runner' = [runner EXCEPT ![g].pc = x, ![g].feedback = y]
      PROVE  Alive(g)
  <2>1. runner' = [runner EXCEPT ![g] = [at(x) EXCEPT !.feedback = y]]
    BY <1>9
  <2> HIDE DEF at
  <2> QED BY <2>1, <1>1, <1>2, RunnerWith
<1>10. ASSUME NEW x \in RunnerPC \ {"idle"}, NEW y \in Boundary,
             runner' = [runner EXCEPT ![g].pc = x, ![g].boundary = y]
      PROVE  Alive(g)
  <2>1. runner' = [runner EXCEPT ![g] = [at(x) EXCEPT !.boundary = y]]
    BY <1>10
  <2> HIDE DEF at
  <2> QED BY <2>1, <1>1, <1>2, RunnerWith
<1>11. ASSUME NEW x \in RunnerPC \ {"idle"}, NEW y \in Execs \cup {None},
             runner' = [runner EXCEPT ![g].pc = x, ![g].exec = y]
      PROVE  Alive(g)
  <2>1. runner' = [runner EXCEPT ![g] = [at(x) EXCEPT !.exec = y]]
    BY <1>11
  <2> HIDE DEF at
  <2> QED BY <2>1, <1>1, <1>2, RunnerWith
<1>12. ASSUME NEW x \in RunnerPC \ {"idle"}, NEW y \in Candidate,
             runner' = [runner EXCEPT ![g].pc = x, ![g].dec = y]
      PROVE  Alive(g)
  <2>1. runner' = [runner EXCEPT ![g] = [at(x) EXCEPT !.dec = y]]
    BY <1>12
  <2> HIDE DEF at
  <2> QED BY <2>1, <1>1, <1>2, RunnerWith
<1>13. ASSUME NEW x \in RunnerPC \ {"idle"}, NEW y \in Candidate, NEW z \in BOOLEAN,
             runner' = [runner EXCEPT ![g].pc = x, ![g].dec = y, ![g].feedback = z]
      PROVE  Alive(g)
  <2>1. runner' = [runner EXCEPT ![g] = [[at(x) EXCEPT !.dec = y] EXCEPT !.feedback = z]]
    BY <1>13
  <2> HIDE DEF at
  <2> QED BY <2>1, <1>1, <1>2, RunnerWith
<1> QED BY <1>3, <1>4, <1>5, <1>6, <1>7, <1>8, <1>9, <1>10, <1>11, <1>12, <1>13

(* A step of the loaded, or not loaded, repository.                         *)
Persisted == RepositoryTypes' /\ loaded' = loaded

(* A goal that is saved, or is not, leaves the types of the repository.      *)
LEMMA Mutations ==
    ASSUME RepositoryTypes
    PROVE  /\ \A new \in AgentGoal \cup {None} : Saved(new) \/ Unsaved(new) => Persisted
           /\ SaveFails => Persisted
           /\ UNCHANGED repository => Persisted
BY DEF RepositoryTypes, Saved, Unsaved, SaveFails, repository, Persisted

Types ==
    /\ RepositoryTypes /\ FileTypes
    /\ runner \in [Goals -> Runner] /\ caller \in [Callers -> Caller]
    /\ initialized \in BOOLEAN /\ made \subseteq Goals

(* What every step of a runner, but its last one, has in common.            *)
Works(g) ==
    /\ Alive(g) /\ Persisted /\ FileTypes'
    /\ UNCHANGED <<initialized, caller, made, registry>>

(* One step per action.                                                     *)
LEMMA RunnerWorks ==
    ASSUME Types, NEW g \in Goals, RunnerStep(g)
    PROVE  FinishRun(g) \/ Works(g)
<1> USE DEF At, HasGoal
<1>0. /\ HasGoal => goal \in AgentGoal
      /\ FileTypes /\ RepositoryTypes /\ runner \in [Goals -> Runner] /\ runner[g] \in Runner
  BY DEF Types, RepositoryTypes
<1>1. UNCHANGED files => FileTypes'
  BY <1>0 DEF FileTypes, files
<1>2. RunnerOnly => UNCHANGED <<initialized, caller, made, registry>>
  BY DEF RunnerOnly
<1>3. /\ \A x \in { "top", "ambiguous", "digest", "conflict", "refresh", "start", "begin",
                    "model", "tools", "asking", "approved", "reading", "writing",
                    "checkpoint", "candidate", "overdrawn", "complete", "verify", "verified",
                    "decide", "legacy", "failed", "finish" } : x \in RunnerPC \ {"idle"}
      /\ {"ProviderUnavailable", "Cancelled", "Other"} \subseteq RunError
      /\ {"none", "User", "AppRestarted", "Budget", "ProviderUnavailable", "WorkspaceConflict",
          "AmbiguousToolEffect", "Other"} \subseteq Why
      /\ {"Running", "Paused", "AwaitingApproval"} \subseteq Status
      /\ {"none", "unverified", "accepted", "continue", "blocked"} \subseteq Candidate
      /\ 0 \in 0..3 /\ 1 \in 0..3
  BY DEF RunnerPC, RunError, Why, PauseReason, BlockReason, Status, Terminal, Candidate
<1>4. ASSUME LoopHead(g) PROVE Works(g)
  <2>1. (goal.receipts # {}) \in BOOLEAN
    OBVIOUS
  <2>2. Alive(g)
    BY <1>0, <1>3, <1>4, <2>1, Movements DEF LoopHead
  <2> QED BY <1>0, <1>1, <1>2, <1>4, <2>2, Mutations DEF LoopHead, Works, files
<1>5. ASSUME BlockAmbiguous(g) PROVE Works(g)
  <2>1. HasGoal => Blocked(goal, "AmbiguousToolEffect") \in AgentGoal
    BY <1>0, <1>3, GoalOperators
  <2> QED BY <1>0, <1>1, <1>2, <1>3, <1>5, <2>1, Movements, Mutations DEF BlockAmbiguous, Mutate, Works
<1>6. ASSUME WorkspaceDigest(g) PROVE Works(g)
  BY <1>0, <1>1, <1>2, <1>3, <1>6, Movements, Mutations DEF WorkspaceDigest, Works, files
<1>7. ASSUME BlockConflict(g) PROVE Works(g)
  <2>1. HasGoal => Blocked(goal, "WorkspaceConflict") \in AgentGoal
    BY <1>0, <1>3, GoalOperators
  <2> QED BY <1>0, <1>1, <1>2, <1>3, <1>7, <2>1, Movements, Mutations DEF BlockConflict, Mutate, Works
<1>8. ASSUME RefreshDigest(g) PROVE Works(g)
  BY <1>0, <1>1, <1>2, <1>3, <1>8, Movements, Mutations DEF RefreshDigest, Mutate, Works
<1>9. ASSUME StartSlice(g) PROVE Works(g)
  <2>1. HasGoal => inject_steering([goal EXCEPT !.status = "Running", !.why = "none"]) \in AgentGoal
    BY <1>0, <1>3, GoalWith, GoalOperators
  <2> QED BY <1>0, <1>1, <1>2, <1>3, <1>9, <2>1, Movements, Mutations DEF StartSlice, Mutate, Works
<1>10. ASSUME BeginSlice(g) PROVE Works(g)
  <2>1. HasGoal => goal.over \in BOOLEAN
    BY <1>0, GoalFields
  <2> QED BY <1>0, <1>1, <1>2, <1>3, <1>10, <2>1, Movements, Mutations DEF BeginSlice, Works, files
<1>11. ASSUME SliceCancelled(g) PROVE Works(g)
  BY <1>0, <1>1, <1>2, <1>3, <1>11, Movements, Mutations DEF SliceCancelled, InSlice, Works, files
<1>12. ASSUME ModelResponds(g) PROVE Works(g)
  BY <1>0, <1>1, <1>2, <1>3, <1>12, Movements, Mutations DEF ModelResponds, Works, files, Boundary
<1>13. ASSUME BatchDone(g) PROVE Works(g)
  BY <1>0, <1>1, <1>2, <1>3, <1>13, Movements, Mutations DEF BatchDone, Works, files
<1>14. ASSUME ReadIntent(g) PROVE Works(g)
  <2>1. HasGoal => [goal EXCEPT !.reads = TRUE] \in AgentGoal
    BY <1>0, GoalWith
  <2> QED BY <1>0, <1>1, <1>2, <1>3, <1>14, <2>1, Movements, Mutations DEF ReadIntent, Journal, Works, files
<1>15. ASSUME ReadDone(g) PROVE Works(g)
  <2>1. HasGoal => [goal EXCEPT !.reads = FALSE] \in AgentGoal
    BY <1>0, GoalWith
  <2> QED BY <1>0, <1>1, <1>2, <1>3, <1>15, <2>1, Movements, Mutations DEF ReadDone, Journal, Works, files
<1>16. ASSUME ReadTimesOut(g) PROVE Works(g)
  <2>1. HasGoal => [goal EXCEPT !.reads = FALSE] \in AgentGoal
    BY <1>0, GoalWith
  <2> QED BY <1>0, <1>1, <1>2, <1>3, <1>16, <2>1, Movements, Mutations DEF ReadTimesOut, Journal, Works, files
<1>17. ASSUME AskApproval(g) PROVE Works(g)
  <2>1. HasGoal => [goal EXCEPT !.status = "AwaitingApproval"] \in AgentGoal
    BY <1>0, <1>3, GoalWith
  <2> QED BY <1>0, <1>1, <1>2, <1>3, <1>17, <2>1, Movements, Mutations DEF AskApproval, Tried, Works
<1>18. ASSUME ApprovalResolved(g) PROVE Works(g)
  <2>1. HasGoal => AfterApproval(goal) \in AgentGoal
    BY <1>0, GoalOperators
  <2> QED BY <1>0, <1>1, <1>2, <1>3, <1>18, <2>1, Movements, Mutations DEF ApprovalResolved, Tried, Works
<1>19. ASSUME ApprovalTimesOut(g) PROVE Works(g)
  BY <1>0, <1>1, <1>2, <1>3, <1>19, Movements, Mutations DEF ApprovalTimesOut, Works, files
<1>20. ASSUME NotStarted(g) PROVE Works(g)
  BY <1>0, <1>1, <1>2, <1>3, <1>20, Movements, Mutations DEF NotStarted, Works, files
<1>21. ASSUME WriteIntent(g) PROVE Works(g)
  <2>1. PICK e \in Execs \ spent :
           Journal(g, [goal EXCEPT !.writes = @ \cup {e}],
                   /\ runner' = [runner EXCEPT ![g].pc = "writing", ![g].exec = e]
                   /\ spent' = spent \cup {e}
                   /\ inflight' = inflight \cup {e})
    BY <1>21 DEF WriteIntent
  <2>2. HasGoal => [goal EXCEPT !.writes = @ \cup {e}] \in AgentGoal
    <3>1. HasGoal => goal.writes \cup {e} \in SUBSET Execs
      BY <1>0, GoalFields
    <3> QED BY <1>0, <3>1, GoalWith
  <2>3. Alive(g) /\ Persisted
    BY <1>0, <1>3, <1>21, <2>1, <2>2, Movements, Mutations DEF WriteIntent, Journal
  <2>4. FileTypes'
    BY <1>0, <1>1, <1>21, <2>1 DEF WriteIntent, Journal, FileTypes, files
  <2> QED BY <1>2, <1>21, <2>3, <2>4 DEF WriteIntent, Works
<1>22. ASSUME WriteReceipt(g) PROVE Works(g)
  <2> DEFINE e == runner[g].exec
  <2>1. HasGoal => [goal EXCEPT !.writes = @ \ {e}, !.receipts = @ \cup {e}] \in AgentGoal
    <3>1. HasGoal => goal.writes \ {e} \in SUBSET Execs /\ goal.receipts \cup {e} \in SUBSET Execs
      BY <1>0, <1>22, GoalFields DEF WriteReceipt, FileTypes
    <3> QED BY <1>0, <3>1, GoalWith, GoalFields
  <2> QED BY <1>0, <1>1, <1>2, <1>3, <1>22, <2>1, Movements, Mutations DEF WriteReceipt, Journal, Works, files
<1>23. ASSUME WriteFails(g) PROVE Works(g)
  BY <1>0, <1>1, <1>2, <1>3, <1>23, Movements, Mutations DEF WriteFails, Works, files
<1>24. ASSUME WriteTimesOut(g) PROVE Works(g)
  BY <1>0, <1>1, <1>2, <1>3, <1>24, Movements, Mutations DEF WriteTimesOut, Works, files
<1>25. ASSUME SliceLost(g) PROVE Works(g)
  BY <1>0, <1>1, <1>2, <1>3, <1>25, Movements, Mutations DEF SliceLost, Works, files
<1>26. ASSUME SaveCheckpoint(g) PROVE Works(g)
  <2> DEFINE b == runner[g].boundary
             new(kept, exceeded) == AfterCharge(AfterBoundary([Charged(kept, exceeded) EXCEPT !.used = TRUE], b), exceeded)
  <2>1. PICK exceeded \in SliceCharge(b) : \E kept \in IF HasGoal THEN Compacted(Appended(goal, b), b) ELSE {None} :
           Mutate(g, new(kept, exceeded), IF exceeded \/ Stopped(new(kept, exceeded)) THEN Return(g) ELSE LoopTop(g))
    BY <1>26 DEF SaveCheckpoint
  <2>2. exceeded \in BOOLEAN
    BY <1>0, GoalFields DEF SliceCharge, ChargeOutcomes
  <2>3. PICK kept \in IF HasGoal THEN Compacted(Appended(goal, b), b) ELSE {None} :
           Mutate(g, new(kept, exceeded), IF exceeded \/ Stopped(new(kept, exceeded)) THEN Return(g) ELSE LoopTop(g))
    BY <2>1
  <2> DEFINE grown == Appended(goal, b)
  <2>4. HasGoal => kept \in AgentGoal
    <3>1. HasGoal => (IF goal.feedback \in {1, 2} THEN goal.feedback + 1 ELSE goal.feedback) \in 0..3
      BY <1>0, GoalFields
    <3>2. HasGoal => grown \in AgentGoal
      BY <1>0, <3>1, GoalWith DEF Appended
    <3>3. \A h \in AgentGoal : [h EXCEPT !.feedback = 0] \in AgentGoal
      BY <1>3, GoalWith
    <3> HIDE DEF grown
    <3>4. HasGoal => Compacted(grown, b) \subseteq AgentGoal
      BY <3>2, <3>3 DEF Compacted
    <3> QED BY <2>3, <3>4 DEF grown
  <2>5. HasGoal => new(kept, exceeded) \in AgentGoal
    <3>1. HasGoal => [Charged(kept, exceeded) EXCEPT !.used = TRUE] \in AgentGoal
      BY <2>2, <2>4, GoalWith DEF Charged
    <3>2. \A h \in AgentGoal : AfterBoundary(h, b) \in AgentGoal
      BY <1>3, GoalOperators DEF AfterBoundary
    <3>3. \A h \in AgentGoal : AfterCharge(h, exceeded) \in AgentGoal
      BY <1>3, GoalOperators DEF AfterCharge
    <3> QED BY <3>1, <3>2, <3>3
  <2> HIDE DEF new
  <2> QED BY <1>0, <1>1, <1>2, <1>3, <1>26, <2>3, <2>5, Movements, Mutations DEF SaveCheckpoint, Mutate, Works
<1>27. ASSUME SaveCandidate(g) PROVE Works(g)
  <2> DEFINE p == goal.status = "Pausing"
             new(exceeded) == [Charged(goal, exceeded) EXCEPT
                                 !.cand = "unverified",
                                 !.status = IF p THEN "Paused" ELSE @,
                                 !.why = IF p THEN "User" ELSE @]
  <2>1. PICK exceeded \in ChargeOutcomes :
           Mutate(g, new(exceeded), runner' = [runner EXCEPT ![g].pc = IF exceeded \/ p THEN "overdrawn" ELSE "complete",
                                                            ![g].over = exceeded])
    BY <1>27 DEF SaveCandidate
  <2>2. exceeded \in BOOLEAN
    BY <1>0, GoalFields DEF ChargeOutcomes
  <2>3. HasGoal => new(exceeded) \in AgentGoal
    <3> DEFINE charged == [Charged(goal, exceeded) EXCEPT !.cand = "unverified"]
               status == IF p THEN "Paused" ELSE charged.status
    <3>1. HasGoal => charged \in AgentGoal
      BY <1>0, <1>3, <2>2, GoalWith DEF Charged
    <3>2. HasGoal => new(exceeded) = [[charged EXCEPT !.status = status] EXCEPT
                                         !.why = IF p THEN "User" ELSE charged.why]
      BY <1>0 DEF AgentGoal, Charged
    <3>3. HasGoal => /\ status \in Status
                     /\ (IF p THEN "User" ELSE charged.why) \in Why
      BY <1>3, <3>1, GoalFields
    <3> DEFINE why == IF p THEN "User" ELSE charged.why
               paused == [charged EXCEPT !.status = status]
    <3> HIDE DEF charged, status, why, p, new
    <3>4. HasGoal => paused \in AgentGoal
      BY <3>1, <3>3, GoalWith
    <3> HIDE DEF paused
    <3>5. HasGoal => [paused EXCEPT !.why = why] \in AgentGoal
      BY <3>3, <3>4, GoalWith DEF why
    <3> QED BY <3>2, <3>5 DEF paused, why
  <2> HIDE DEF new
  <2> QED BY <1>0, <1>1, <1>2, <1>3, <1>27, <2>1, <2>2, <2>3, Movements, Mutations DEF SaveCandidate, Mutate, Works
<1>28. ASSUME PauseOverdrawn(g) PROVE Works(g)
  <2>1. HasGoal => (IF runner[g].over THEN Paused(goal, "Budget") ELSE goal) \in AgentGoal
    BY <1>0, <1>3, GoalOperators
  <2> QED BY <1>0, <1>1, <1>2, <1>3, <1>28, <2>1, Movements, Mutations DEF PauseOverdrawn, Mutate, Works
<1>29. ASSUME BeginCompletion(g) PROVE Works(g)
  <2>1. HasGoal => goal.cand \in Candidate /\ (goal.feedback # 0) \in BOOLEAN
    BY <1>0, GoalFields
  <2>2. Alive(g)
    BY <1>0, <1>3, <1>29, <2>1, Movements DEF BeginCompletion
  <2> QED BY <1>0, <1>1, <1>2, <1>29, <2>2, Mutations DEF BeginCompletion, Works, files
<1>30. ASSUME VerifierAnswers(g) PROVE Works(g)
  BY ZenonT(60), <1>0, <1>1, <1>2, <1>3, <1>30, Movements, Mutations DEF VerifierAnswers, Works, files, Decision
<1>31. ASSUME RecordVerification(g) PROVE Works(g)
  <2>1. PICK exceeded \in ChargeOutcomes :
          IF HasGoal /\ goal.cand = "none"
          THEN Unsaved(Charged(goal, exceeded)) /\ Fail(g, "Other")
          ELSE Mutate(g, [Charged(goal, exceeded) EXCEPT !.cand = runner[g].dec],
                      runner' = [runner EXCEPT ![g].pc = IF exceeded THEN "overdrawn" ELSE "decide",
                                               ![g].over = exceeded])
    BY <1>31 DEF RecordVerification
  <2>2. exceeded \in BOOLEAN
    BY <1>0, GoalFields DEF ChargeOutcomes
  <2>3. HasGoal => /\ Charged(goal, exceeded) \in AgentGoal
                   /\ [Charged(goal, exceeded) EXCEPT !.cand = runner[g].dec] \in AgentGoal
    <3>1. runner[g].dec \in Candidate
      BY <1>0 DEF Runner
    <3> QED BY <1>0, <2>2, <3>1, GoalWith DEF Charged
  <2> QED BY <1>0, <1>1, <1>2, <1>3, <1>31, <2>1, <2>2, <2>3, Movements, Mutations DEF RecordVerification, Mutate, Works
<1>32. ASSUME Reject(g) PROVE Works(g)
  <2>1. HasGoal => [Blocked(goal, "Other") EXCEPT !.cand = IF @ = "continue" THEN "blocked" ELSE @] \in AgentGoal
    BY <1>0, <1>3, GoalOperators, GoalWith, GoalFields
  <2> QED BY <1>0, <1>1, <1>2, <1>3, <1>32, <2>1, Movements, Mutations DEF Reject, Mutate, Works
<1>33. ASSUME Repair(g) PROVE Works(g)
  <2>1. HasGoal => [goal EXCEPT !.cand = "none", !.feedback = 1] \in AgentGoal
    BY <1>0, <1>3, GoalWith
  <2> QED BY <1>0, <1>1, <1>3, <1>33, <2>1, Movements, Mutations DEF Repair, Works
<1>34. ASSUME Commit(g) PROVE Works(g)
  <2>1. HasGoal => Committed(goal) \in AgentGoal
    BY <1>0, GoalOperators
  <2> QED BY <1>0, <1>1, <1>2, <1>3, <1>34, <2>1, Movements, Mutations DEF Commit, Mutate, Works
<1>35. ASSUME CommitLegacy(g) PROVE Works(g)
  BY <1>0, <1>1, <1>2, <1>3, <1>35, Movements, Mutations DEF CommitLegacy, Works, files
<1>36. ASSUME RecordError(g) PROVE Works(g)
  <2>1. HasGoal => AfterError(goal, runner[g].err) \in AgentGoal
    BY <1>0, GoalOperators
  <2> QED BY <1>0, <1>1, <1>2, <1>3, <1>36, <2>1, Movements, Mutations DEF RecordError, Tried, Works
<1> QED
  BY <1>4, <1>5, <1>6, <1>7, <1>8, <1>9, <1>10, <1>11, <1>12, <1>13, <1>14, <1>15, <1>16, <1>17, <1>18, <1>19,
     <1>20, <1>21, <1>22, <1>23, <1>24, <1>25, <1>26, <1>27, <1>28, <1>29, <1>30, <1>31, <1>32, <1>33, <1>34,
     <1>35, <1>36 DEF RunnerStep

----------------------------------------------------------------------------
(* The commands.                                                            *)
Holding == {"digest", "create", "requeue"}

(* A command moves to one of the places pcs, and names the goal it named.   *)
Moves(c, pcs) ==
    /\ caller' \in [Callers -> Caller] /\ \A d \in Callers \ {c} : caller'[d] = caller[d]
    /\ caller'[c].pc \in pcs
    /\ caller'[c].pc # "idle" => caller'[c].id = caller[c].id /\ caller'[c].op = caller[c].op

(* Moving a command on leaves it a command at the place it moved to.         *)
LEMMA CallerMovements ==
    ASSUME caller \in [Callers -> Caller], NEW c \in Callers
    PROVE  /\ \A x \in CallerPC : CallerGoto(c, x) => Moves(c, {x})
           /\ Done(c) => Moves(c, {"idle"})
           /\ \A x \in CallerPC, y \in BOOLEAN :
                 caller' = [caller EXCEPT ![c].pc = x, ![c].first = y] => Moves(c, {x})
           /\ \A x \in CallerPC, y \in Recovery :
                 caller' = [caller EXCEPT ![c].pc = x, ![c].rec = y] => Moves(c, {x})
<1> DEFINE at(x) == [caller[c] EXCEPT !.pc = x]
<1>0. caller[c] \in Caller /\ IdleCaller \in Caller /\ IdleCaller.pc = "idle"
  BY IdleCallerType
<1>1. \A x \in CallerPC : at(x) \in Caller /\ at(x).pc = x /\ at(x).id = caller[c].id /\ at(x).op = caller[c].op
  BY <1>0, CallerWith DEF Caller
<1>2. ASSUME NEW x \in CallerPC, CallerGoto(c, x) PROVE Moves(c, {x})
  BY <1>1, <1>2 DEF CallerGoto, Moves
<1>3. ASSUME Done(c) PROVE Moves(c, {"idle"})
  BY <1>0, <1>3 DEF Done, Moves
<1>4. ASSUME NEW x \in CallerPC, NEW y \in BOOLEAN, caller' = [caller EXCEPT ![c].pc = x, ![c].first = y]
      PROVE  Moves(c, {x})
  <2>1. caller' = [caller EXCEPT ![c] = [at(x) EXCEPT !.first = y]]
    BY <1>4
  <2>2. /\ [at(x) EXCEPT !.first = y].pc = at(x).pc /\ [at(x) EXCEPT !.first = y].id = at(x).id
        /\ [at(x) EXCEPT !.first = y].op = at(x).op
    BY <1>0 DEF Caller
  <2> HIDE DEF at
  <2>3. [at(x) EXCEPT !.first = y] \in Caller
    BY <1>1, CallerWith
  <2> QED BY <1>1, <2>1, <2>2, <2>3 DEF Moves
<1>5. ASSUME NEW x \in CallerPC, NEW y \in Recovery, caller' = [caller EXCEPT ![c].pc = x, ![c].rec = y]
      PROVE  Moves(c, {x})
  <2>1. caller' = [caller EXCEPT ![c] = [at(x) EXCEPT !.rec = y]]
    BY <1>5
  <2>2. /\ [at(x) EXCEPT !.rec = y].pc = at(x).pc /\ [at(x) EXCEPT !.rec = y].id = at(x).id
        /\ [at(x) EXCEPT !.rec = y].op = at(x).op
    BY <1>0 DEF Caller
  <2> HIDE DEF at
  <2>3. [at(x) EXCEPT !.rec = y] \in Caller
    BY <1>1, CallerWith
  <2> QED BY <1>1, <2>1, <2>2, <2>3 DEF Moves
<1> QED BY <1>2, <1>3, <1>4, <1>5

(* What recovery finds out of a goal, and makes of it, has its types.        *)
LEMMA RecoveryTypes ==
    ASSUME NEW g \in AgentGoal
    PROVE  /\ \A r \in Classifications(g) : r \in Recovery
           /\ \A r \in Recovery : Recovered(g, r) \in AgentGoal
           /\ Extensions(g) \subseteq AgentGoal
<1>1. ASSUME NEW r \in Classifications(g) PROVE r \in Recovery
  <2>1. PICK foreign \in SUBSET g.writes :
           r = [ reads |-> g.reads, resolved |-> g.writes \ foreign,
                 recovered |-> (g.writes \ foreign) \cap applied,
                 ambiguous |-> foreign # {}, mode |-> Mode(g) ]
    BY <1>1 DEF Classifications
  <2>2. Mode(g) \in {"none", "restart", "ambiguity"}
    BY DEF Mode
  <2>3. g.reads \in BOOLEAN /\ g.writes \subseteq Execs /\ (foreign # {}) \in BOOLEAN
    BY GoalFields
  <2> QED BY <2>1, <2>2, <2>3 DEF Recovery
<1>2. ASSUME NEW r \in Recovery PROVE Recovered(g, r) \in AgentGoal
  <2> DEFINE settled == [g EXCEPT !.writes = @ \ r.resolved]
             kept == [settled EXCEPT !.receipts = @ \cup r.recovered]
  <2>1. settled \in AgentGoal
    <3>1. g.writes \ r.resolved \in SUBSET Execs
      BY GoalFields
    <3> QED BY <3>1, GoalWith
  <2>2. kept \in AgentGoal
    <3>1. settled.receipts \cup r.recovered \in SUBSET Execs
      BY <1>2, <2>1, GoalFields DEF Recovery
    <3> HIDE DEF settled
    <3> QED BY <2>1, <3>1, GoalWith
  <2>3. Recovered(g, r) = IF r.ambiguous THEN Blocked(kept, "AmbiguousToolEffect")
                          ELSE IF r.mode = "ambiguity" THEN Paused(kept, "User") ELSE kept
    BY DEF Recovered
  <2>4. {"AmbiguousToolEffect", "User"} \subseteq Why
    BY DEF Why, BlockReason, PauseReason
  <2> HIDE DEF kept
  <2> QED BY <2>2, <2>3, <2>4, GoalOperators
<1>3. Extensions(g) \subseteq AgentGoal
  BY GoalWith DEF Extensions
<1> QED BY <1>1, <1>2, <1>3

(* What a command may do to the admission, seen from the registry: nothing  *)
(* but a refusal or a cancellation; take the session and hold it; take or   *)
(* hold it and leave it to a runner; give it back.                          *)
Passes(c) ==
    /\ UNCHANGED runner
    /\ UNCHANGED registry \/ Registry!Cancel(caller[c].id) \/ Registry!RegisterRefused(caller[c].id, Session)
    /\ caller'[c].pc \in Holding => caller[c].pc \in Holding
Takes(c) == UNCHANGED runner /\ Registry!Registered(caller[c].id, Session)
Spawns(c) ==
    /\ LoopTop(caller[c].id) /\ caller'[c].pc = "idle"
    /\ Registry!Registered(caller[c].id, Session) \/ (caller[c].pc \in Holding /\ UNCHANGED registry)
Gives(c) ==
    /\ UNCHANGED runner /\ caller[c].pc \in Holding /\ caller'[c].pc = "idle"
    /\ Registry!Finish(caller[c].id)

Serves(c) ==
    /\ Moves(c, CallerPC) /\ RepositoryTypes' /\ FileTypes'
    /\ initialized' \in BOOLEAN /\ UNCHANGED made
    /\ Passes(c) \/ Takes(c) \/ Spawns(c) \/ Gives(c)

(* Every step of a command keeps the types and serves what it was called for. *)
LEMMA CallerServes ==
    ASSUME Types, CallersNamed, NEW c \in Callers, CallerStep(c)
    PROVE  Serves(c) /\ caller[c].pc # "idle"
<1> USE DEF HasGoal, Is
<1>0. /\ goal # None => goal \in AgentGoal
      /\ disk # None => disk \in AgentGoal
      /\ FileTypes /\ RepositoryTypes /\ caller \in [Callers -> Caller] /\ caller[c] \in Caller
      /\ initialized \in BOOLEAN
  BY DEF Types, RepositoryTypes
<1>1. /\ UNCHANGED files => FileTypes'
      /\ UNCHANGED <<spent, inflight>> /\ applied' \in {{}, applied} => FileTypes'
  BY <1>0 DEF FileTypes, files
<1>2. /\ CallerOnly => UNCHANGED <<runner, made, initialized, registry>> /\ FileTypes'
      /\ UNCHANGED initialized => initialized' \in BOOLEAN
  BY <1>0, <1>1 DEF CallerOnly
<1>3. /\ \A x \in CallerPC : \A pcs : x \in pcs /\ Moves(c, {x}) => Moves(c, pcs)
      /\ {"idle", "load", "prepare", "body", "steer", "reconcile", "apply", "reread", "register",
          "requeue", "digest", "create", "launch", "cancel"} \subseteq CallerPC
  BY DEF Moves, CallerPC
<1>4. \A x \in CallerPC : Moves(c, {x}) => caller'[c].pc = x /\ Moves(c, CallerPC)
  BY <1>3 DEF Moves
<1>5. "idle" \in CallerPC /\ "User" \in Why /\ "AmbiguousToolEffect" \in Why /\ "waiting" \in Steering
      /\ "Pausing" \in Status
  BY <1>3 DEF Why, PauseReason, BlockReason, Steering, Status
<1>6. AfterReconcile(c) => Moves(c, {"reread"}) \/ Moves(c, {"idle"})
  BY <1>0, <1>3, CallerMovements DEF AfterReconcile
<1>7. Ensured(c) => Moves(c, {"body"}) \/ Moves(c, {"idle"})
  BY <1>0, <1>3, CallerMovements DEF Ensured
<1>8. ASSUME RepositoryTypes', CallerOnly, NEW x \in CallerPC, Moves(c, {x}),
             x \in Holding => caller[c].pc \in Holding
      PROVE  Serves(c)
  BY <1>2, <1>4, <1>8 DEF Serves, Passes
<1>9. {"idle", "load", "prepare", "body", "steer", "reconcile", "apply", "reread", "register",
       "launch", "cancel"} \cap Holding = {}
  BY DEF Holding
<1>p. Persisted => RepositoryTypes'
  BY DEF Persisted
<1>10. caller[c].pc # "idle"
  BY DEF CallerStep, EnsureMark, EnsureLoad, EnsurePrepare, Steer, SteerApply, Pause, Reset, CancelGoal,
     CancelToken, ResumeCheck, Reconcile, ApplyRecovery, ResumeReread, ResumeRegister, ResumeRequeue,
     Extend, ExtendLaunch, CreateRegister, CreateDigest, CreateGoal
<1>11. ASSUME EnsureMark(c) PROVE Serves(c)
  <2>1. Moves(c, {"load"})
    <3>1. (~initialized) \in BOOLEAN
      OBVIOUS
    <3> QED BY <1>0, <1>3, <1>11, <3>1, CallerMovements DEF EnsureMark
  <2> QED BY <1>0, <1>1, <1>3, <1>4, <1>9, <1>11, <2>1, <1>p, Mutations DEF EnsureMark, Serves, Passes
<1>12. ASSUME EnsureLoad(c) PROVE Serves(c)
  <2>1. RepositoryTypes'
    BY <1>0, <1>12, <1>p, Mutations DEF EnsureLoad, RepositoryTypes
  <2>2. Moves(c, {"prepare"}) \/ Moves(c, {"body"}) \/ Moves(c, {"idle"})
    BY <1>0, <1>3, <1>7, <1>12, CallerMovements DEF EnsureLoad
  <2>3. CallerOnly
    BY <1>12 DEF EnsureLoad
  <2> QED BY <1>3, <1>8, <1>9, <2>1, <2>2, <2>3
<1>13. ASSUME EnsurePrepare(c) PROVE Serves(c)
  <2>1. RepositoryTypes'
    BY <1>0, <1>13, <1>p, Mutations, GoalOperators DEF EnsurePrepare
  <2>2. Moves(c, {"body"}) \/ Moves(c, {"idle"})
    BY <1>0, <1>3, <1>7, <1>13, CallerMovements DEF EnsurePrepare
  <2>3. CallerOnly
    BY <1>13 DEF EnsurePrepare
  <2> QED BY <1>3, <1>8, <1>9, <2>1, <2>2, <2>3
<1>14. ASSUME Steer(c) PROVE Serves(c)
  <2>1. Moves(c, {"steer"}) \/ Moves(c, {"idle"})
    BY <1>0, <1>3, <1>14, CallerMovements DEF Steer
  <2> QED BY <1>0, <1>3, <1>8, <1>9, <1>14, <2>1, <1>p, Mutations DEF Steer
<1>15. ASSUME SteerApply(c) PROVE Serves(c)
  <2>1. goal # None => [goal EXCEPT !.steering = "waiting"] \in AgentGoal
    BY <1>0, <1>5, GoalWith
  <2> QED BY <1>0, <1>3, <1>8, <1>9, <1>15, <2>1, CallerMovements, <1>p, Mutations DEF SteerApply
<1>16. ASSUME Pause(c) PROVE Serves(c)
  <2>1. goal # None => [goal EXCEPT !.status = "Pausing", !.why = "User"] \in AgentGoal
    BY <1>0, <1>5, GoalWith
  <2> QED BY <1>0, <1>3, <1>8, <1>9, <1>16, <2>1, CallerMovements, <1>p, Mutations DEF Pause, Named
<1>17. ASSUME Reset(c) PROVE Serves(c)
  <2>1. RepositoryTypes'
    BY <1>0, <1>17, <1>p, Mutations DEF Reset
  <2>2. Moves(c, {"idle"}) /\ FileTypes'
    BY <1>0, <1>1, <1>17, CallerMovements DEF Reset
  <2> QED BY <1>0, <1>2, <1>3, <1>4, <1>9, <1>17, <2>1, <2>2 DEF Reset, Serves, Passes
<1>18. ASSUME CancelGoal(c) PROVE Serves(c)
  <2>1. RepositoryTypes'
    BY <1>0, <1>5, <1>18, <1>p, Mutations, GoalOperators DEF CancelGoal, Named
  <2>2. Moves(c, {"cancel"}) \/ Moves(c, {"idle"})
    BY <1>0, <1>3, <1>18, CallerMovements DEF CancelGoal
  <2> QED BY <1>3, <1>8, <1>9, <1>18, <2>1, <2>2 DEF CancelGoal
<1>19. ASSUME CancelToken(c) PROVE Serves(c)
  BY <1>0, <1>1, <1>2, <1>3, <1>4, <1>9, <1>19, CallerMovements, <1>p, Mutations DEF CancelToken, Serves, Passes
<1>20. ASSUME ResumeCheck(c) PROVE Serves(c)
  <2>1. Moves(c, {"reconcile"}) \/ Moves(c, {"idle"})
    BY <1>0, <1>3, <1>20, CallerMovements DEF ResumeCheck
  <2> QED BY <1>0, <1>3, <1>8, <1>9, <1>20, <2>1, <1>p, Mutations DEF ResumeCheck
<1>21. ASSUME Reconcile(c) PROVE Serves(c)
  <2>1. Moves(c, {"apply"}) \/ Moves(c, {"reread"}) \/ Moves(c, {"idle"})
    BY <1>0, <1>3, <1>6, <1>21, CallerMovements, RecoveryTypes DEF Reconcile
  <2> QED BY <1>0, <1>3, <1>8, <1>9, <1>21, <2>1, <1>p, Mutations DEF Reconcile
<1>22. ASSUME ApplyRecovery(c) PROVE Serves(c)
  <2> DEFINE r == caller[c].rec
  <2>1. r \in Recovery
    BY <1>0 DEF Caller
  <2>2. ASSUME goal # None, NEW reads \in {FALSE, goal.reads}
        PROVE  [Recovered(goal, r) EXCEPT !.reads = reads] \in AgentGoal
    BY <1>0, <2>1, <2>2, RecoveryTypes, GoalWith, GoalFields
  <2>3. RepositoryTypes'
    BY <1>0, <1>22, <2>2, <1>p, Mutations DEF ApplyRecovery
  <2>4. Moves(c, {"reread"}) \/ Moves(c, {"idle"})
    BY <1>0, <1>6, <1>22, CallerMovements DEF ApplyRecovery
  <2> QED BY <1>3, <1>8, <1>9, <1>22, <2>3, <2>4 DEF ApplyRecovery
<1>23. ASSUME ResumeReread(c) PROVE Serves(c)
  <2>1. Moves(c, {"register"}) \/ Moves(c, {"idle"})
    BY <1>0, <1>3, <1>23, CallerMovements DEF ResumeReread
  <2>2. RepositoryTypes'
    BY <1>0, <1>23 DEF ResumeReread, RepositoryTypes
  <2> QED BY <1>3, <1>8, <1>9, <1>23, <2>1, <2>2 DEF ResumeReread
<1>24. ASSUME ResumeRegister(c) PROVE Serves(c)
  <2>1. Moves(c, {"requeue"}) \/ Moves(c, {"idle"})
    BY <1>0, <1>3, <1>24, CallerMovements DEF ResumeRegister
  <2>2. RepositoryTypes' /\ FileTypes' /\ initialized' \in BOOLEAN /\ UNCHANGED <<runner, made>>
    BY <1>0, <1>1, <1>2, <1>24, <1>p, Mutations DEF ResumeRegister
  <2>3. CASE Registry!Registered(caller[c].id, Session)
    BY <1>3, <1>4, <2>1, <2>2, <2>3 DEF Serves, Takes
  <2>4. CASE Registry!RegisterRefused(caller[c].id, Session) /\ Done(c)
    BY <1>0, <1>3, <1>4, <1>9, <2>2, <2>4, CallerMovements DEF Serves, Passes
  <2> QED BY <1>24, <2>3, <2>4 DEF ResumeRegister
<1>25. ASSUME ResumeRequeue(c) PROVE Serves(c)
  <2>1. Moves(c, {"idle"}) /\ caller[c].pc \in Holding
    BY <1>0, <1>25, CallerMovements DEF ResumeRequeue, Holding
  <2>2. FileTypes' /\ initialized' \in BOOLEAN /\ UNCHANGED made
    BY <1>0, <1>1, <1>2, <1>25 DEF ResumeRequeue
  <2>3. Moves(c, CallerPC) /\ caller'[c].pc = "idle"
    BY <1>3, <1>4, <2>1
  <2>4. ASSUME Requeueable(c), NEW g \in {goal, Switched(goal)}
        PROVE  g \in AgentGoal /\ Requeued(g) \in AgentGoal
    BY <1>0, <2>4, GoalOperators DEF Requeueable, Named
  <2>5. RepositoryTypes'
    BY <1>0, <1>25, <2>4, <1>p, Mutations DEF ResumeRequeue
  <2>6. Spawns(c) \/ Gives(c)
    BY <1>25, <2>1, <2>3 DEF ResumeRequeue, Spawns, Gives
  <2> QED BY <2>2, <2>3, <2>5, <2>6 DEF Serves
<1>26. ASSUME Extend(c) PROVE Serves(c)
  <2>1. ASSUME Named(c), NEW g \in Extensions(goal)
        PROVE  g \in AgentGoal /\ Requeued(g) \in AgentGoal
    BY <1>0, <2>1, RecoveryTypes, GoalOperators DEF Named
  <2>2. RepositoryTypes'
    BY <1>0, <1>26, <2>1, <1>p, Mutations DEF Extend
  <2>3. Moves(c, {"launch"}) \/ Moves(c, {"idle"})
    BY <1>0, <1>3, <1>26, CallerMovements DEF Extend
  <2> QED BY <1>3, <1>8, <1>9, <1>26, <2>2, <2>3 DEF Extend
<1>27. ASSUME ExtendLaunch(c) PROVE Serves(c)
  <2>1. Moves(c, CallerPC) /\ caller'[c].pc = "idle"
    BY <1>0, <1>3, <1>4, <1>27, CallerMovements DEF ExtendLaunch
  <2>2. RepositoryTypes' /\ FileTypes' /\ initialized' \in BOOLEAN /\ UNCHANGED made
    BY <1>0, <1>1, <1>2, <1>27, <1>p, Mutations DEF ExtendLaunch
  <2>3. Spawns(c) \/ Passes(c)
    BY <1>9, <1>27, <2>1 DEF ExtendLaunch, Spawns, Passes
  <2> QED BY <2>1, <2>2, <2>3 DEF Serves
<1>28. ASSUME CreateRegister(c) PROVE Serves(c)
  <2>1. RepositoryTypes' /\ FileTypes' /\ initialized' \in BOOLEAN /\ UNCHANGED <<runner, made>>
    BY <1>0, <1>1, <1>2, <1>28, <1>p, Mutations DEF CreateRegister
  <2>2. CASE Registry!Registered(caller[c].id, Session) /\ CallerGoto(c, "digest")
    BY <1>0, <1>3, <1>4, <2>1, <2>2, CallerMovements DEF Serves, Takes
  <2>3. CASE Registry!RegisterRefused(caller[c].id, Session) /\ Done(c)
    BY <1>0, <1>3, <1>4, <1>9, <2>1, <2>3, CallerMovements DEF Serves, Passes
  <2> QED BY <1>28, <2>2, <2>3 DEF CreateRegister
<1>29. ASSUME CreateDigest(c) PROVE Serves(c)
  <2>1. (Moves(c, {"create"}) \/ Moves(c, {"idle"})) /\ caller[c].pc \in Holding
    BY <1>0, <1>3, <1>29, CallerMovements DEF CreateDigest, Holding
  <2> QED BY <1>0, <1>3, <1>8, <1>29, <2>1, <1>p, Mutations DEF CreateDigest
<1>30. ASSUME CreateGoal(c) PROVE Serves(c)
  <2>1. Moves(c, CallerPC) /\ caller'[c].pc = "idle" /\ caller[c].pc \in Holding
    BY <1>0, <1>3, <1>4, <1>30, CallerMovements DEF CreateGoal, Holding
  <2>2. FileTypes' /\ initialized' \in BOOLEAN /\ UNCHANGED made
    BY <1>0, <1>1, <1>2, <1>30 DEF CreateGoal
  <2>3. NewGoal(caller[c].id) \in AgentGoal
    BY <1>10, NewGoalType DEF CallersNamed
  <2>4. RepositoryTypes'
    BY <1>0, <1>30, <2>3, <1>p, Mutations DEF CreateGoal
  <2>5. Spawns(c) \/ Gives(c)
    BY <1>30, <2>1 DEF CreateGoal, Spawns, Gives
  <2> QED BY <2>1, <2>2, <2>4, <2>5 DEF Serves
<1> QED
  BY <1>10, <1>11, <1>12, <1>13, <1>14, <1>15, <1>16, <1>17, <1>18, <1>19, <1>20, <1>21, <1>22, <1>23, <1>24,
     <1>25, <1>26, <1>27, <1>28, <1>29, <1>30 DEF CallerStep

----------------------------------------------------------------------------
(* One worker per session.                                                  *)
RunnerHolds == \A g \in Goals : runner[g].pc # "idle" => active_resources[Session] = g

(* A command that holds the session has no runner beside it.                *)
CallerHolds ==
    \A c \in Callers : caller[c].pc \in Holding =>
        active_resources[Session] = caller[c].id /\ runner[caller[c].id].pc = "idle"

HoldsAlone == \A c, d \in Callers : caller[c].pc \in Holding /\ caller[d].pc \in Holding => c = d

RuntimeInv == Admission /\ Types /\ CallersNamed /\ RunnerHolds /\ CallerHolds /\ HoldsAlone

(* At the start nothing runs and nothing is registered.                      *)
LEMMA RuntimeInit == Init => RuntimeInv
<1> SUFFICES ASSUME Init PROVE RuntimeInv
  OBVIOUS
<1>1. /\ runner \in [Goals -> Runner] /\ \A g \in Goals : runner[g].pc = "idle"
      /\ caller \in [Callers -> Caller] /\ \A c \in Callers : caller[c].pc = "idle"
  BY IdleRunnerType, IdleCallerType DEF Init
<1>2. Admission
  BY AdmissionInit DEF Init
<1>3. Types
  BY <1>1 DEF Init, Types, RepositoryTypes, FileTypes
<1>4. "idle" \notin Holding
  BY DEF Holding
<1> QED BY <1>1, <1>2, <1>3, <1>4 DEF RuntimeInv, CallersNamed, RunnerHolds, CallerHolds, HoldsAlone

(* A runner's step, or its end.                                             *)
LEMMA RunnerKeepsAlone ==
    ASSUME RuntimeInv, NEW g \in Goals, RunnerStep(g)
    PROVE  RuntimeInv'
<1>0. Types /\ Admission /\ CallersNamed /\ RunnerHolds /\ CallerHolds /\ HoldsAlone
  BY DEF RuntimeInv
<1>1. CASE Works(g)
  <2>1. Types' /\ CallersNamed' /\ HoldsAlone'
    BY <1>0, <1>1 DEF Works, Persisted, Alive, Types, CallersNamed, HoldsAlone
  <2>2. Admission' /\ UNCHANGED active_resources
    BY <1>0, <1>1, AdmissionStutters DEF Works, registry
  <2>3. RunnerHolds' /\ CallerHolds'
    <3>1. runner[g].pc # "idle" /\ active_resources[Session] = g
      BY <1>0, <1>1 DEF Works, Alive, RunnerHolds
    <3> QED BY <1>0, <1>1, <2>2, <3>1 DEF Works, Alive, RunnerHolds, CallerHolds, CallersNamed, Holding
  <2> QED BY <2>1, <2>2, <2>3 DEF RuntimeInv
<1>2. CASE FinishRun(g)
  <2>1. /\ runner' \in [Goals -> Runner] /\ runner'[g].pc = "idle" /\ runner[g].pc # "idle"
        /\ \A h \in Goals \ {g} : runner'[h] = runner[h]
    BY <1>0, <1>2, IdleRunnerType DEF FinishRun, Types, At
  <2>2. Types' /\ CallersNamed' /\ HoldsAlone'
    BY <1>0, <1>2, <2>1 DEF FinishRun, Types, CallersNamed, HoldsAlone, RepositoryTypes, FileTypes,
       repository, files
  <2>3. Admission' /\ active_resources[Session] = g
    BY <1>0, <1>2, <2>1, AdmissionSteps DEF FinishRun, RunnerHolds
  <2>4. /\ \A h \in Goals : runner'[h].pc = "idle"
        /\ \A c \in Callers : caller'[c].pc \notin Holding
    <3>1. \A h \in Goals \ {g} : runner[h].pc = "idle"
      BY <1>0, <2>3 DEF RunnerHolds
    <3>2. \A c \in Callers : caller[c].pc \notin Holding
      BY <1>0, <2>1, <2>3 DEF CallerHolds
    <3> QED BY <1>2, <2>1, <3>1, <3>2 DEF FinishRun
  <2> QED BY <2>2, <2>3, <2>4 DEF RuntimeInv, RunnerHolds, CallerHolds
<1> QED BY <1>0, <1>1, <1>2, RunnerWorks

(* A command leaves at most one loop to a goal.                              *)
LEMMA CallerKeepsAlone ==
    ASSUME RuntimeInv, NEW c \in Callers, CallerStep(c)
    PROVE  RuntimeInv'
<1> DEFINE i == caller[c].id
<1>0. Types /\ Admission /\ CallersNamed /\ RunnerHolds /\ CallerHolds /\ HoldsAlone
  BY DEF RuntimeInv
<1>1. Serves(c) /\ i \in Goals /\ caller[c].op \in Ops
  BY <1>0, CallerServes DEF CallersNamed
<1>2. Moves(c, CallerPC) /\ RepositoryTypes' /\ FileTypes' /\ initialized' \in BOOLEAN /\ UNCHANGED made
  BY <1>1 DEF Serves
<1>3. CallersNamed'
  BY <1>0, <1>1, <1>2 DEF Moves, CallersNamed
<1>4. i # NoRun /\ "idle" \notin Holding
  BY <1>1, RuntimeAssumption DEF Holding
<1> SUFFICES /\ runner' \in [Goals -> Runner] /\ Admission'
             /\ RunnerHolds' /\ CallerHolds' /\ HoldsAlone'
  BY <1>0, <1>2, <1>3 DEF RuntimeInv, Types, Moves
<1>5. /\ \A d \in Callers \ {c} : caller'[d] = caller[d]
      /\ caller'[c].pc \in Holding => caller'[c].id = i
      /\ runner \in [Goals -> Runner]
  BY <1>0, <1>2, <1>4 DEF Moves, Types
<1>6. CASE Passes(c)
  <2>1. Admission' /\ UNCHANGED active_resources
    BY <1>0, <1>1, <1>6, AdmissionStutters, AdmissionSteps DEF Passes, registry
  <2>2. UNCHANGED runner /\ (caller'[c].pc \in Holding => caller[c].pc \in Holding)
    BY <1>6 DEF Passes
  <2>3. \A d \in Callers : caller'[d].pc \in Holding => caller[d].pc \in Holding /\ caller'[d].id = caller[d].id
    BY <1>5, <2>2
  <2> QED BY <1>0, <1>5, <2>1, <2>2, <2>3 DEF RunnerHolds, CallerHolds, HoldsAlone
<1>7. ASSUME Registry!Registered(i, Session)
      PROVE  /\ Admission' /\ active_resources'[Session] = i
             /\ \A g \in Goals : runner[g].pc = "idle"
             /\ \A d \in Callers : caller[d].pc \notin Holding
  <2>1. Admission' /\ active_resources[Session] = NoRun /\ active_resources'[Session] = i
    BY <1>0, <1>1, <1>7, AdmissionSteps
  <2>2. NoRun \notin Goals
    BY RuntimeAssumption
  <2>3. \A d \in Callers : caller[d].pc \in Holding => caller[d].id \in Goals
    BY <1>0, <1>4 DEF CallersNamed
  <2> QED BY <1>0, <2>1, <2>2, <2>3 DEF RunnerHolds, CallerHolds
<1>8. CASE Takes(c)
  <2>1. UNCHANGED runner
    BY <1>8 DEF Takes
  <2> QED BY <1>1, <1>5, <1>7, <1>8, <2>1 DEF Takes, RunnerHolds, CallerHolds, HoldsAlone
<1>9. CASE Spawns(c)
  <2>1. /\ runner' \in [Goals -> Runner] /\ \A h \in Goals \ {i} : runner'[h] = runner[h]
    <3>1. [IdleRunner EXCEPT !.pc = "top"] \in Runner
      BY IdleRunnerType, RunnerWith DEF RunnerPC, LiveRunner
    <3> QED BY <1>1, <1>5, <1>9, <3>1 DEF Spawns, LoopTop
  <2>2. /\ Admission' /\ active_resources'[Session] = i
        /\ \A g \in Goals : runner[g].pc = "idle"
        /\ \A d \in Callers \ {c} : caller[d].pc \notin Holding
    <3>1. CASE Registry!Registered(i, Session)
      BY <1>7, <3>1
    <3>2. CASE caller[c].pc \in Holding /\ UNCHANGED registry
      <4>1. Admission' /\ active_resources'[Session] = i
        BY <1>0, <3>2, AdmissionStutters DEF registry, CallerHolds
      <4>2. \A g \in Goals : runner[g].pc = "idle"
        BY <1>0, <3>2 DEF RunnerHolds, CallerHolds
      <4> QED BY <1>0, <3>2, <4>1, <4>2 DEF HoldsAlone
    <3> QED BY <1>9, <3>1, <3>2 DEF Spawns
  <2>3. \A d \in Callers : caller'[d].pc \notin Holding
    BY <1>4, <1>5, <1>9, <2>2 DEF Spawns
  <2> QED BY <2>1, <2>2, <2>3 DEF RunnerHolds, CallerHolds, HoldsAlone
<1>10. CASE Gives(c)
  <2>1. Admission' /\ UNCHANGED runner
    BY <1>0, <1>1, <1>10, AdmissionSteps DEF Gives
  <2>2. \A g \in Goals : runner[g].pc = "idle"
    BY <1>0, <1>10 DEF RunnerHolds, CallerHolds, Gives
  <2>3. \A d \in Callers : caller'[d].pc \notin Holding
    BY <1>0, <1>4, <1>5, <1>10 DEF Gives, HoldsAlone
  <2> QED BY <1>5, <2>1, <2>2, <2>3 DEF RunnerHolds, CallerHolds, HoldsAlone
<1> QED BY <1>1, <1>6, <1>8, <1>9, <1>10 DEF Serves

(* A new command leaves at most one loop to a goal.                          *)
LEMMA ClientKeepsAlone ==
    ASSUME RuntimeInv, NEW c \in Callers, NEW op \in Ops, NEW g \in Goals, Invoke(c, op, g)
    PROVE  RuntimeInv'
<1> DEFINE k == [[[IdleCaller EXCEPT !.op = op] EXCEPT !.id = g] EXCEPT !.pc = "ensure"]
<1>0. Types /\ Admission /\ CallersNamed /\ RunnerHolds /\ CallerHolds /\ HoldsAlone
  BY DEF RuntimeInv
<1>1. k \in Caller /\ k.pc = "ensure" /\ k.id = g /\ k.op = op
  BY DEF Caller, CallerPC, IdleCaller, NoRecovery, Recovery
<1>2. caller' = [caller EXCEPT ![c] = k]
  BY DEF Invoke
<1> HIDE DEF k
<1>3. Types' /\ CallersNamed'
  BY <1>0, <1>1, <1>2 DEF Invoke, Types, CallersNamed, RepositoryTypes, FileTypes, repository, files
<1>4. Admission'
  BY <1>0, AdmissionStutters DEF Invoke
<1>5. "ensure" \notin Holding
  BY DEF Holding
<1>6. RunnerHolds' /\ CallerHolds' /\ HoldsAlone'
  BY <1>0, <1>1, <1>2, <1>5 DEF Types, Invoke, RunnerHolds, CallerHolds, HoldsAlone, registry
<1> QED BY <1>3, <1>4, <1>6 DEF RuntimeInv

(* A crash leaves no loop at all.                                            *)
LEMMA CrashKeepsAlone == RuntimeInv /\ Crash => RuntimeInv'
<1> SUFFICES ASSUME RuntimeInv, Crash PROVE RuntimeInv'
  OBVIOUS
<1>1. /\ runner' \in [Goals -> Runner] /\ \A g \in Goals : runner'[g].pc = "idle"
      /\ caller' \in [Callers -> Caller] /\ \A c \in Callers : caller'[c].pc = "idle"
  BY IdleRunnerType, IdleCallerType DEF Crash
<1>2. Admission'
  <2>1. Registry!Init'
    BY DEF Crash, Registry!Init
  <2> QED BY <2>1, AdmissionInit, PTL
<1>3. Types'
  <2>1. RepositoryTypes' /\ initialized' \in BOOLEAN /\ made' \subseteq Goals
    BY DEF RuntimeInv, Types, Crash, RepositoryTypes
  <2>2. FileTypes'
    BY DEF RuntimeInv, Types, Crash, FileTypes
  <2> QED BY <1>1, <2>1, <2>2 DEF Types
<1>4. "idle" \notin Holding
  BY DEF Holding
<1> QED BY <1>1, <1>2, <1>3, <1>4 DEF RuntimeInv, CallersNamed, RunnerHolds, CallerHolds, HoldsAlone

(* Every step keeps the invariant of the runtime.                            *)
LEMMA RuntimeKeeps == RuntimeInv /\ [Next]_vars => RuntimeInv'
<1> SUFFICES ASSUME RuntimeInv, [Next]_vars PROVE RuntimeInv'
  OBVIOUS
<1>1. CASE \E g \in Goals : RunnerStep(g)
  BY <1>1, RunnerKeepsAlone
<1>2. CASE \E e \in Execs : WriteSettles(e)
  BY <1>2, AdmissionStutters DEF WriteSettles, RunnerOnly, repository, RuntimeInv, Types, RepositoryTypes,
     FileTypes, CallersNamed, RunnerHolds, CallerHolds, HoldsAlone, registry
<1>3. CASE \E c \in Callers : CallerStep(c)
  BY <1>3, CallerKeepsAlone
<1>4. CASE \E c \in Callers, op \in Ops, g \in Goals : Invoke(c, op, g)
  BY <1>4, ClientKeepsAlone
<1>5. CASE Tick
  <2>1. Admission' /\ UNCHANGED active_resources
    BY <1>5, AdmissionTick DEF RuntimeInv, Tick
  <2> QED BY <1>5, <2>1 DEF Tick, repository, files, RuntimeInv, Types, RepositoryTypes, FileTypes,
             CallersNamed, RunnerHolds, CallerHolds, HoldsAlone
<1>6. CASE Crash
  BY <1>6, CrashKeepsAlone
<1>7. CASE UNCHANGED vars
  BY <1>7, AdmissionStutters DEF vars, repository, files, registry, RuntimeInv, Types, RepositoryTypes,
     FileTypes, CallersNamed, RunnerHolds, CallerHolds, HoldsAlone
<1> QED BY <1>1, <1>2, <1>3, <1>4, <1>5, <1>6, <1>7 DEF Next

(* The invariant of the runtime holds always.                                *)
LEMMA RuntimeInvariant == Spec => []RuntimeInv
BY RuntimeInit, RuntimeKeeps, PTL DEF Spec

(* Every value the runtime keeps has its type, for any number of goals,     *)
(* commands and writes, whatever fails, stalls or crashes.                  *)
THEOREM TypesAlways == Spec => []TypeOK
<1>1. RuntimeInv => TypeOK
  BY AdmissionTypes DEF RuntimeInv, Types, RepositoryTypes, FileTypes, TypeOK
<1> QED BY <1>1, RuntimeInvariant, PTL

(* The session never has two workers, and the registry always names the one *)
(* it has: however creates, resumes, extensions, cancellations, runner ends *)
(* and restarts interleave, RunRegistry admits one run_goal task, and no    *)
(* finish() releases the registration of another.                           *)
THEOREM OneRunnerAlways == Spec => []OneRunner
<1>1. ASSUME RuntimeInv PROVE OneRunner
  <2>1. RunnerHolds /\ CallerHolds /\ HoldsAlone
    BY <1>1 DEF RuntimeInv
  <2>2. \A h \in Holders :
           \/ \E g \in Goals : h = <<g, g>> /\ runner[g].pc # "idle"
           \/ \E c \in Callers : h = <<c, caller[c].id>> /\ caller[c].pc \in Holding
    BY DEF Holders, Holding
  <2>3. \A h \in Holders : active_resources[Session] = h[2]
    BY <2>1, <2>2 DEF RunnerHolds, CallerHolds
  <2>4. ASSUME NEW h \in Holders, NEW k \in Holders PROVE h = k
    <3>1. CASE \E g \in Goals : h = <<g, g>> /\ runner[g].pc # "idle"
      <4>1. PICK g \in Goals : h = <<g, g>> /\ runner[g].pc # "idle"
        BY <3>1
      <4>2. active_resources[Session] = g
        BY <2>1, <4>1 DEF RunnerHolds
      <4>3. \A c \in Callers : caller[c].pc \notin Holding
        BY <2>1, <4>1, <4>2 DEF CallerHolds
      <4> QED BY <2>1, <2>2, <4>1, <4>2, <4>3 DEF RunnerHolds
    <3>2. CASE \E c \in Callers : h = <<c, caller[c].id>> /\ caller[c].pc \in Holding
      <4>1. PICK c \in Callers : h = <<c, caller[c].id>> /\ caller[c].pc \in Holding
        BY <3>2
      <4>2. \A g \in Goals : runner[g].pc = "idle"
        BY <2>1, <4>1 DEF RunnerHolds, CallerHolds
      <4> QED BY <2>1, <2>2, <4>1, <4>2 DEF HoldsAlone
    <3> QED BY <2>2, <3>1, <3>2
  <2> QED BY <2>3, <2>4 DEF OneRunner
<1> QED BY <1>1, RuntimeInvariant, PTL

----------------------------------------------------------------------------
(* What a runner knows of the goal at each place of its loop.               *)

(* From the snapshot of the loop head to the commit there is no tool call:  *)
(* what was not pending then is not pending at any of these places.         *)
ClearPlaces ==
    { "digest", "refresh", "start", "begin", "model", "candidate", "complete", "verify", "verified", "decide" }
ClearHere(g) == HasGoal /\ runner[g].pc \in ClearPlaces => ~goal.reads /\ goal.writes = {}

(* The decision is the verdict the goal holds, or the goal lost its         *)
(* candidate meanwhile.                                                     *)
VerdictHere(g) ==
    /\ runner[g].pc = "verified" => runner[g].dec \in Decision
    /\ HasGoal /\ runner[g].pc = "decide" => goal.cand \in {runner[g].dec, "none"}

(* A candidate nobody verified is decided on only when the goal has neither *)
(* used tools nor changed files.  Another command may bring a receipt in    *)
(* between: a recovery that classified the writes before the runner began.  *)
OneCommand == \A c, d \in Callers : c = d
UnseenHere(g) ==
    OneCommand /\ HasGoal /\ runner[g].pc = "decide" /\ runner[g].dec = "unverified" /\ goal.cand = "unverified"
        => ~goal.used /\ goal.receipts = {}

(* The loop goes on only within the budget; only an extension that does not *)
(* suffice starts it beyond.                                                *)
NoExtension == "extend" \notin Ops
BeyondBudget == {"idle", "overdrawn", "failed", "finish"}
WithinHere(g) == NoExtension /\ HasGoal /\ runner[g].pc \notin BeyondBudget => ~goal.over

Places(g) == ClearHere(g) /\ VerdictHere(g) /\ UnseenHere(g) /\ WithinHere(g)

(* A runner that has stopped deciding.                                      *)
Leaving == {"legacy", "failed", "finish"}

(* What a step of a runner does to the goal: it never makes one, it commits *)
(* only where it decides, and it forgets a write only on its way out.       *)
Tends(g) ==
    /\ Places(g)'
    /\ Commits => Commit(g)
    /\ goal' # None => HasGoal
    /\ goal' # None => \/ goal.writes \cup goal.receipts \subseteq goal'.writes \cup goal'.receipts
                       \/ runner'[g].pc \in Leaving

(* The same goal but for its status, its candidate and its steering.        *)
Alike(g, h) ==
    /\ h.id = g.id /\ h.reads = g.reads /\ h.writes = g.writes /\ h.receipts = g.receipts
    /\ h.over = g.over /\ h.used = g.used
    /\ h.status = "Completed" => g.status = "Completed"

(* What the loop does with a goal between two effects leaves it alike.       *)
LEMMA AlikeOperators ==
    ASSUME NEW g \in AgentGoal
    PROVE  /\ Alike(g, g)
           /\ \A why \in Why : Alike(g, Paused(g, why)) /\ Alike(g, Blocked(g, why))
           /\ Alike(g, inject_steering(g)) /\ Alike(g, AfterApproval(g)) /\ Alike(g, Requeued(g))
           /\ Alike(g, prepare_for_restart(g))
           /\ \A x \in Status \ {"Completed"} : Alike(g, [g EXCEPT !.status = x])
           /\ \A x \in Why : Alike(g, [g EXCEPT !.why = x])
           /\ \A x \in Candidate : Alike(g, [g EXCEPT !.cand = x])
           /\ \A x \in Steering : Alike(g, [g EXCEPT !.steering = x])
           /\ \A x \in 0..3 : Alike(g, [g EXCEPT !.feedback = x])
<1>1. \A why \in Why : Alike(g, Paused(g, why)) /\ Alike(g, Blocked(g, why))
  BY DEF Alike, Paused, Blocked, AgentGoal
<1>2. Alike(g, inject_steering(g)) /\ Alike(g, AfterApproval(g)) /\ Alike(g, Requeued(g))
  BY DEF Alike, inject_steering, AfterApproval, Requeued, AgentGoal
<1>3. "AppRestarted" \in Why /\ Alike(g, g)
  BY DEF Why, PauseReason, Alike
<1>4. Alike(g, prepare_for_restart(g))
  BY <1>1, <1>3 DEF prepare_for_restart
<1>5. /\ \A x \in Status \ {"Completed"} : Alike(g, [g EXCEPT !.status = x])
      /\ \A x \in Why : Alike(g, [g EXCEPT !.why = x])
  BY DEF Alike, AgentGoal
<1>6. /\ \A x \in Candidate : Alike(g, [g EXCEPT !.cand = x])
      /\ \A x \in Steering : Alike(g, [g EXCEPT !.steering = x])
      /\ \A x \in 0..3 : Alike(g, [g EXCEPT !.feedback = x])
  BY DEF Alike, AgentGoal
<1> QED BY <1>1, <1>2, <1>3, <1>4, <1>5, <1>6

(* Steps that leave them alike may follow one another.                       *)
LEMMA AlikeTransitive ==
    ASSUME NEW g, NEW h, NEW k, Alike(g, h), Alike(h, k) PROVE Alike(g, k)
BY DEF Alike

(* A step that ends the loop, or leaves the goal as good as it was.         *)
LEMMA AlikeTends ==
    ASSUME NEW g \in Goals, goal' = goal \/ (HasGoal /\ Alike(goal, goal')),
           Places(g), goal # None => goal \in AgentGoal
    PROVE  /\ runner'[g].pc \in {"failed", "finish", "idle"} => Tends(g)
           /\ runner[g].pc \notin BeyondBudget /\ runner[g].pc \in ClearPlaces
                /\ runner'[g].pc \notin {"verified", "decide"} => Tends(g)
           /\ runner[g].pc \notin BeyondBudget /\ runner'[g].pc \notin ClearPlaces => Tends(g)
<1>1. /\ Commits => Commit(g)
      /\ goal' # None => HasGoal
      /\ goal' # None => goal.writes \cup goal.receipts \subseteq goal'.writes \cup goal'.receipts
  BY DEF Alike, Commits, SameGoal, HasGoal
<1>2. ASSUME runner'[g].pc \in {"failed", "finish", "idle"} PROVE Places(g)'
  BY <1>2 DEF Places, ClearHere, VerdictHere, UnseenHere, WithinHere, ClearPlaces, BeyondBudget
<1>3. ASSUME runner[g].pc \notin BeyondBudget, runner[g].pc \in ClearPlaces,
             runner'[g].pc \notin {"verified", "decide"}
      PROVE  Places(g)'
  BY <1>3 DEF Places, ClearHere, VerdictHere, UnseenHere, WithinHere, Alike, HasGoal
<1>4. ASSUME runner[g].pc \notin BeyondBudget, runner'[g].pc \notin ClearPlaces PROVE Places(g)'
  BY <1>4 DEF Places, ClearHere, VerdictHere, UnseenHere, WithinHere, Alike, HasGoal, ClearPlaces
<1> QED BY <1>1, <1>2, <1>3, <1>4 DEF Tends

(* Where a step of the loop may arrive, from where it is.                    *)
LEMMA Arrivals ==
    ASSUME runner \in [Goals -> Runner], NEW g \in Goals
    PROVE  /\ \A x : Goto(g, x) => runner'[g].pc = x
           /\ \A err : Fail(g, err) => runner'[g].pc = "failed"
           /\ Return(g) => runner'[g].pc = "finish"
           /\ LoopTop(g) => runner'[g].pc = "top"
           /\ \A x, y : runner' = [runner EXCEPT ![g].pc = x, ![g].over = y] => runner'[g].pc = x
           /\ \A x, y : runner' = [runner EXCEPT ![g].pc = x, ![g].effects = y] => runner'[g].pc = x
           /\ \A x, y : runner' = [runner EXCEPT ![g].pc = x, ![g].feedback = y] => runner'[g].pc = x
           /\ \A x, y : runner' = [runner EXCEPT ![g].pc = x, ![g].boundary = y] => runner'[g].pc = x
           /\ \A x, y : runner' = [runner EXCEPT ![g].pc = x, ![g].exec = y] => runner'[g].pc = x
           /\ \A x, y : runner' = [runner EXCEPT ![g].pc = x, ![g].dec = y] =>
                 runner'[g].pc = x /\ runner'[g].dec = y
           /\ \A x, y, z : runner' = [runner EXCEPT ![g].pc = x, ![g].dec = y, ![g].feedback = z] =>
                 runner'[g].pc = x /\ runner'[g].dec = y
<1>1. runner[g] \in Runner
  OBVIOUS
<1>2. \A new : runner' = [runner EXCEPT ![g] = new] => runner'[g] = new
  OBVIOUS
<1>3. \A x : Goto(g, x) => runner'[g].pc = x
  BY <1>1, <1>2 DEF Runner, IdleRunner, Goto
<1>4. \A err : Fail(g, err) => runner'[g].pc = "failed"
  BY <1>1, <1>2 DEF Runner, IdleRunner, Fail
<1>5. (Return(g) => runner'[g].pc = "finish") /\ (LoopTop(g) => runner'[g].pc = "top")
  BY <1>1, <1>2, <1>3 DEF Runner, IdleRunner, Return, LoopTop
<1>6. /\ \A x, y : runner' = [runner EXCEPT ![g].pc = x, ![g].over = y] => runner'[g].pc = x
      /\ \A x, y : runner' = [runner EXCEPT ![g].pc = x, ![g].effects = y] => runner'[g].pc = x
      /\ \A x, y : runner' = [runner EXCEPT ![g].pc = x, ![g].feedback = y] => runner'[g].pc = x
  BY <1>1 DEF Runner, IdleRunner
<1>7. /\ \A x, y : runner' = [runner EXCEPT ![g].pc = x, ![g].boundary = y] => runner'[g].pc = x
      /\ \A x, y : runner' = [runner EXCEPT ![g].pc = x, ![g].exec = y] => runner'[g].pc = x
  BY <1>1 DEF Runner, IdleRunner
<1>8. \A x, y : runner' = [runner EXCEPT ![g].pc = x, ![g].dec = y] => runner'[g].pc = x /\ runner'[g].dec = y
  BY <1>1 DEF Runner, IdleRunner
<1>9. \A x, y, z : runner' = [runner EXCEPT ![g].pc = x, ![g].dec = y, ![g].feedback = z] =>
                      runner'[g].pc = x /\ runner'[g].dec = y
  BY <1>1 DEF Runner, IdleRunner
<1> QED BY <1>3, <1>4, <1>5, <1>6, <1>7, <1>8, <1>9

(* Every step of the loop keeps what is known of its place.                  *)
LEMMA RunnerTends ==
    ASSUME Types, NEW g \in Goals, Places(g), RunnerStep(g)
    PROVE  Tends(g)
<1> USE DEF At, HasGoal
<1> DEFINE p == runner[g].pc
           q == runner'[g].pc
           Same == goal' = goal \/ (goal # None /\ Alike(goal, goal'))
<1>0. /\ goal # None => goal \in AgentGoal
      /\ runner \in [Goals -> Runner] /\ runner[g] \in Runner
  BY DEF Types, RepositoryTypes
<1>r. runner \in [Goals -> Runner]
  BY <1>0
<1>1. UNCHANGED repository => goal' = goal
  BY DEF repository
<1>2. Same /\ q \in {"failed", "finish", "idle"} => Tends(g)
  BY <1>0, AlikeTends
<1>3. Same /\ p \in ClearPlaces /\ q \notin {"verified", "decide"} => Tends(g)
  BY <1>0, AlikeTends DEF ClearPlaces, BeyondBudget
<1>4. Same /\ p \notin BeyondBudget /\ q \notin ClearPlaces => Tends(g)
  BY <1>0, AlikeTends
<1>5. /\ {"none", "User", "Budget", "ProviderUnavailable", "WorkspaceConflict", "AmbiguousToolEffect", "Other"}
            \subseteq Why
      /\ {"Running", "Paused", "AwaitingApproval"} \subseteq Status \ {"Completed"}
      /\ {"none", "unverified", "accepted", "continue", "blocked"} \subseteq Candidate
      /\ 0 \in 0..3 /\ 1 \in 0..3
  BY DEF Why, PauseReason, BlockReason, Status, Terminal, Candidate
<1>6. /\ {"digest", "refresh", "start", "begin", "model", "candidate", "complete", "verify", "verified", "decide"}
            \subseteq ClearPlaces
      /\ {"top", "ambiguous", "conflict", "tools", "asking", "approved", "reading", "writing", "checkpoint",
          "overdrawn", "legacy", "failed", "finish", "idle"} \cap ClearPlaces = {}
      /\ {"top", "ambiguous", "conflict", "tools", "asking", "approved", "reading", "writing", "checkpoint",
          "legacy"} \cap BeyondBudget = {}
  BY DEF ClearPlaces, BeyondBudget
<1>7. ASSUME LoopHead(g) PROVE Tends(g)
  <2>1. goal' = goal
    BY <1>7, <1>1 DEF LoopHead
  <2>2. \/ q \in {"failed", "finish"}
        \/ p = "top" /\ q = "ambiguous"
        \/ p = "top" /\ q = "digest" /\ goal # None /\ ~HasPending(goal)
    <3> DEFINE on == [runner EXCEPT ![g].pc = IF HasPending(goal) THEN "ambiguous" ELSE "digest",
                                    ![g].effects = goal.receipts # {}]
    <3>1. runner' = on => q = IF HasPending(goal) THEN "ambiguous" ELSE "digest"
      BY <1>r DEF Runner
    <3>2. p = "top" /\ (Fail(g, "Cancelled") \/ Fail(g, "Other") \/ Return(g) \/ (goal # None /\ runner' = on))
      BY <1>7 DEF LoopHead
    <3> HIDE DEF on
    <3> QED BY <1>0, <3>1, <3>2, Arrivals
  <2>3. CASE p = "top" /\ q = "digest" /\ goal # None /\ ~HasPending(goal)
    <3>1. Places(g)'
      BY <1>6, <2>1, <2>3 DEF HasPending, Places, ClearHere, VerdictHere, UnseenHere, WithinHere
    <3> QED BY <2>1, <3>1 DEF Tends, Commits, SameGoal
  <2> QED BY <1>2, <1>4, <1>6, <2>1, <2>2, <2>3
<1>8. ASSUME BlockAmbiguous(g) PROVE Tends(g)
  <2>1. goal # None => Alike(goal, Blocked(goal, "AmbiguousToolEffect"))
    BY <1>0, <1>5, AlikeOperators, AlikeTransitive
  <2>2. Same
    BY <1>8, <1>1, <2>1 DEF BlockAmbiguous, Mutate, Saved, SaveFails
  <2>3. q \in {"failed", "finish"}
    BY <1>8, <1>0, Arrivals DEF BlockAmbiguous, Mutate, Saved, SaveFails
  <2> QED BY <1>2, <1>6, <2>2, <2>3
<1>9. ASSUME WorkspaceDigest(g) PROVE Tends(g)
  <2>1. Same
    BY <1>9, <1>1 DEF WorkspaceDigest
  <2>2. p = "digest" /\ q \in {"conflict", "refresh", "start", "failed"}
    BY <1>9, <1>0, Arrivals DEF WorkspaceDigest
  <2> QED BY <1>3, <1>6, <2>1, <2>2
<1>10. ASSUME BlockConflict(g) PROVE Tends(g)
  <2>1. goal # None => Alike(goal, Blocked(goal, "WorkspaceConflict"))
    BY <1>0, <1>5, AlikeOperators, AlikeTransitive
  <2>2. Same
    BY <1>10, <1>1, <2>1 DEF BlockConflict, Mutate, Saved, SaveFails
  <2>3. q \in {"failed", "finish"}
    BY <1>10, <1>0, Arrivals DEF BlockConflict, Mutate, Saved, SaveFails
  <2> QED BY <1>2, <1>6, <2>2, <2>3
<1>11. ASSUME RefreshDigest(g) PROVE Tends(g)
  <2>1. goal # None => Alike(goal, goal)
    BY <1>0, <1>5, AlikeOperators, AlikeTransitive
  <2>2. Same
    BY <1>11, <1>1, <2>1 DEF RefreshDigest, Mutate, Saved, SaveFails
  <2>3. p = "refresh" /\ q \in {"start", "failed"}
    BY <1>11, <1>0, Arrivals DEF RefreshDigest, Mutate, Saved, SaveFails
  <2> QED BY <1>3, <1>6, <2>2, <2>3
<1>12. ASSUME StartSlice(g) PROVE Tends(g)
  <2> DEFINE begun == [[goal EXCEPT !.status = "Running"] EXCEPT !.why = "none"]
  <2>1. goal # None => Alike(goal, begun) /\ begun \in AgentGoal
    <3> DEFINE running == [goal EXCEPT !.status = "Running"]
    <3>1. goal # None => Alike(goal, running) /\ running \in AgentGoal
      BY <1>0, <1>5, AlikeOperators, GoalWith
    <3> HIDE DEF running
    <3>2. goal # None => Alike(running, [running EXCEPT !.why = "none"])
                           /\ [running EXCEPT !.why = "none"] \in AgentGoal
      BY <1>5, <3>1, AlikeOperators, GoalWith
    <3>3. begun = [running EXCEPT !.why = "none"]
      BY DEF running
    <3> QED BY <3>1, <3>2, <3>3, AlikeTransitive
  <2>2. inject_steering([goal EXCEPT !.status = "Running", !.why = "none"]) = inject_steering(begun)
    OBVIOUS
  <2> HIDE DEF begun
  <2>3. goal # None => Alike(goal, inject_steering(begun))
    BY <2>1, AlikeOperators, AlikeTransitive
  <2>4. Same
    BY <1>12, <1>1, <2>2, <2>3 DEF StartSlice, Mutate, Saved, SaveFails
  <2>5. p = "start" /\ q \in {"begin", "failed"}
    BY <1>12, <1>0, Arrivals DEF StartSlice, Mutate
  <2> QED BY <1>3, <1>6, <2>4, <2>5
<1>13. ASSUME BeginSlice(g) PROVE Tends(g)
  <2>1. Same
    BY <1>13, <1>1 DEF BeginSlice, Goto, Fail, Return, LoopTop, Runner, IdleRunner
  <2>2. p = "begin" /\ q \in {"complete", "model", "failed"}
    BY ZenonT(60), <1>13, <1>r DEF BeginSlice, Goto, Fail, Return, LoopTop, Runner, IdleRunner
  <2> QED BY <1>3, <1>6, <2>1, <2>2
<1>14. ASSUME SliceCancelled(g) PROVE Tends(g)
  <2>1. Same
    BY <1>14, <1>1 DEF SliceCancelled
  <2>2. q \in {"failed", "finish"}
    BY <1>14, <1>0, Arrivals DEF SliceCancelled
  <2> QED BY <1>2, <1>6, <2>1, <2>2
<1>15. ASSUME ModelResponds(g) PROVE Tends(g)
  <2>1. Same
    BY <1>15, <1>1 DEF ModelResponds, Goto, Fail, Return, LoopTop, Runner, IdleRunner
  <2>2. p = "model" /\ q \in {"tools", "candidate", "checkpoint", "failed"}
    BY <1>15, <1>r DEF ModelResponds, Goto, Fail, Return, LoopTop, Runner, IdleRunner
  <2> QED BY <1>3, <1>6, <2>1, <2>2
<1>16. ASSUME BatchDone(g) PROVE Tends(g)
  <2>1. Same
    BY <1>16, <1>1 DEF BatchDone, Goto, Fail, Return, LoopTop, Runner, IdleRunner
  <2>2. p = "tools" /\ q \in {"checkpoint", "failed"}
    BY <1>16, <1>r DEF BatchDone, Goto, Fail, Return, LoopTop, Runner, IdleRunner
  <2> QED BY <1>2, <1>4, <1>6, <2>1, <2>2
<1>17. ASSUME ReadIntent(g) PROVE Tends(g)
  <2>1. \/ q = "failed" /\ goal' = goal
        \/ p = "tools" /\ q = "reading" /\ goal # None /\ goal' = [goal EXCEPT !.reads = TRUE]
    BY <1>17, <1>0, <1>1, Arrivals DEF ReadIntent, Journal, Saved, SaveFails
  <2>2. CASE p = "tools" /\ q = "reading" /\ goal # None /\ goal' = [goal EXCEPT !.reads = TRUE]
    <3>1. /\ goal'.status = goal.status /\ goal'.over = goal.over
          /\ goal.writes \cup goal.receipts \subseteq goal'.writes \cup goal'.receipts
      BY <1>0, <2>2 DEF AgentGoal
    <3>2. Places(g)'
      BY <1>6, <2>2, <3>1 DEF Places, ClearHere, VerdictHere, UnseenHere, WithinHere
    <3> QED BY <2>2, <3>1, <3>2 DEF Tends, Commits, SameGoal
  <2> QED BY <1>2, <2>1, <2>2
<1>18. ASSUME ReadDone(g) PROVE Tends(g)
  <2>1. \/ q = "failed" /\ goal' = goal
        \/ p = "reading" /\ q = "tools" /\ goal # None /\ goal' = [goal EXCEPT !.reads = FALSE]
    BY <1>18, <1>0, <1>1, Arrivals DEF ReadDone, Journal, Saved, SaveFails
  <2>2. CASE p = "reading" /\ q = "tools" /\ goal # None /\ goal' = [goal EXCEPT !.reads = FALSE]
    <3>1. /\ goal'.status = goal.status /\ goal'.over = goal.over
          /\ goal.writes \cup goal.receipts \subseteq goal'.writes \cup goal'.receipts
      BY <1>0, <2>2 DEF AgentGoal
    <3>2. Places(g)'
      BY <1>6, <2>2, <3>1 DEF Places, ClearHere, VerdictHere, UnseenHere, WithinHere
    <3> QED BY <2>2, <3>1, <3>2 DEF Tends, Commits, SameGoal
  <2> QED BY <1>2, <2>1, <2>2
<1>19. ASSUME ReadTimesOut(g) PROVE Tends(g)
  <2>1. q = "failed" /\ (goal' = goal \/ (goal # None /\ goal' = [goal EXCEPT !.reads = FALSE]))
    BY <1>19, <1>0, <1>1, Arrivals DEF ReadTimesOut, Journal, Saved, SaveFails
  <2>2. CASE goal # None /\ goal' = [goal EXCEPT !.reads = FALSE]
    <3>1. /\ goal'.status = goal.status
          /\ goal.writes \cup goal.receipts \subseteq goal'.writes \cup goal'.receipts
      BY <1>0, <2>2 DEF AgentGoal
    <3>2. Places(g)'
      BY <2>1, <1>6 DEF Places, ClearHere, VerdictHere, UnseenHere, WithinHere, BeyondBudget
    <3> QED BY <2>2, <3>1, <3>2 DEF Tends, Commits, SameGoal
  <2> QED BY <1>2, <2>1, <2>2
<1>20. ASSUME AskApproval(g) PROVE Tends(g)
  <2>1. goal # None => Alike(goal, goal) /\ Alike(goal, [goal EXCEPT !.status = "AwaitingApproval"])
    BY <1>0, <1>5, AlikeOperators, AlikeTransitive
  <2>2. Same
    BY <1>20, <1>1, <2>1 DEF AskApproval, Tried, Saved
  <2>3. p = "tools" /\ q = "asking"
    BY <1>20, <1>0, Arrivals DEF AskApproval, Tried, Saved
  <2> QED BY <1>4, <1>6, <2>2, <2>3
<1>21. ASSUME ApprovalResolved(g) PROVE Tends(g)
  <2>1. goal # None => Alike(goal, AfterApproval(goal))
    BY <1>0, AlikeOperators
  <2>2. Same
    BY <1>21, <1>1, <2>1 DEF ApprovalResolved, Tried, Saved
  <2>3. p = "asking" /\ q \in {"approved", "tools"}
    BY <1>21, <1>0, Arrivals DEF ApprovalResolved, Tried
  <2> QED BY <1>4, <1>6, <2>2, <2>3
<1>22. ASSUME ApprovalTimesOut(g) PROVE Tends(g)
  <2>1. Same
    BY <1>22, <1>1 DEF ApprovalTimesOut
  <2>2. q \in {"failed", "finish"}
    BY <1>22, <1>0, Arrivals DEF ApprovalTimesOut
  <2> QED BY <1>2, <1>6, <2>1, <2>2
<1>23. ASSUME NotStarted(g) PROVE Tends(g)
  <2>1. Same
    BY <1>23, <1>1 DEF NotStarted
  <2>2. p = "approved" /\ q \in {"tools", "failed"}
    BY <1>23, <1>0, Arrivals DEF NotStarted
  <2> QED BY <1>2, <1>4, <1>6, <2>1, <2>2
<1>24. ASSUME WriteIntent(g) PROVE Tends(g)
  <2>1. PICK e \in Execs \ spent :
           Journal(g, [goal EXCEPT !.writes = @ \cup {e}],
                   /\ runner' = [runner EXCEPT ![g].pc = "writing", ![g].exec = e]
                   /\ spent' = spent \cup {e}
                   /\ inflight' = inflight \cup {e})
    BY <1>24 DEF WriteIntent
  <2>3. runner' = [runner EXCEPT ![g].pc = "writing", ![g].exec = e] => q = "writing"
    BY <1>r DEF Runner
  <2>4. \/ q = "failed" /\ goal' = goal
        \/ p = "approved" /\ q = "writing" /\ goal # None /\ goal' = [goal EXCEPT !.writes = @ \cup {e}]
    BY <1>24, <1>0, <1>1, <2>1, <2>3, Arrivals DEF WriteIntent, Journal, Saved, SaveFails
  <2>2. CASE p = "approved" /\ q = "writing" /\ goal # None /\ goal' = [goal EXCEPT !.writes = @ \cup {e}]
    <3>1. /\ goal'.status = goal.status /\ goal'.over = goal.over
          /\ goal.writes \cup goal.receipts \subseteq goal'.writes \cup goal'.receipts
      BY <1>0, <2>2 DEF AgentGoal
    <3>2. Places(g)'
      BY <1>6, <2>2, <3>1 DEF Places, ClearHere, VerdictHere, UnseenHere, WithinHere
    <3> QED BY <2>2, <3>1, <3>2 DEF Tends, Commits, SameGoal
  <2> QED BY <1>2, <2>4, <2>2
<1>25. ASSUME WriteReceipt(g) PROVE Tends(g)
  <2> DEFINE e == runner[g].exec
  <2>1. \/ q = "failed" /\ goal' = goal
        \/ /\ p = "writing" /\ q = "tools" /\ goal # None
           /\ goal' = [goal EXCEPT !.writes = @ \ {e}, !.receipts = @ \cup {e}]
    BY <1>25, <1>r, <1>1, ZenonT(40) DEF WriteReceipt, Journal, Saved, SaveFails, Goto, Fail, Return, LoopTop, Runner, IdleRunner
  <2>2. CASE p = "writing" /\ q = "tools" /\ goal # None
               /\ goal' = [goal EXCEPT !.writes = @ \ {e}, !.receipts = @ \cup {e}]
    <3>1. /\ goal'.status = goal.status /\ goal'.over = goal.over
          /\ goal.writes \cup goal.receipts \subseteq goal'.writes \cup goal'.receipts
      BY <1>0, <2>2 DEF AgentGoal
    <3>2. Places(g)'
      BY <1>6, <2>2, <3>1 DEF Places, ClearHere, VerdictHere, UnseenHere, WithinHere
    <3> QED BY <2>2, <3>1, <3>2 DEF Tends, Commits, SameGoal
  <2> QED BY <1>2, <2>1, <2>2
<1>26. ASSUME WriteFails(g) PROVE Tends(g)
  <2>1. Same
    BY <1>26, <1>1 DEF WriteFails, Goto, Fail, Return, LoopTop, Runner, IdleRunner
  <2>2. p = "writing" /\ q = "tools"
    BY <1>26, <1>r DEF WriteFails, Goto, Fail, Return, LoopTop, Runner, IdleRunner
  <2> QED BY <1>4, <1>6, <2>1, <2>2
<1>27. ASSUME WriteTimesOut(g) PROVE Tends(g)
  <2>1. Same
    BY <1>27, <1>1 DEF WriteTimesOut
  <2>2. q \in {"failed", "finish"}
    BY <1>27, <1>0, Arrivals DEF WriteTimesOut
  <2> QED BY <1>2, <1>6, <2>1, <2>2
<1>28. ASSUME SliceLost(g) PROVE Tends(g)
  <2>1. Same
    BY <1>28, <1>1 DEF SliceLost
  <2>2. q \in {"failed", "finish"}
    BY <1>28, <1>0, Arrivals DEF SliceLost
  <2> QED BY <1>2, <1>6, <2>1, <2>2
<1>29. ASSUME SaveCheckpoint(g) PROVE Tends(g)
  <2> DEFINE b == runner[g].boundary
             base(kept, exceeded) == [Charged(kept, exceeded) EXCEPT !.used = TRUE]
             new(kept, exceeded) == AfterCharge(AfterBoundary(base(kept, exceeded), b), exceeded)
  <2>1. PICK exceeded \in SliceCharge(b) : \E kept \in IF HasGoal THEN Compacted(Appended(goal, b), b) ELSE {None} :
           Mutate(g, new(kept, exceeded), IF exceeded \/ Stopped(new(kept, exceeded)) THEN Return(g) ELSE LoopTop(g))
    BY <1>29 DEF SaveCheckpoint
  <2>2. PICK kept \in IF HasGoal THEN Compacted(Appended(goal, b), b) ELSE {None} :
           Mutate(g, new(kept, exceeded), IF exceeded \/ Stopped(new(kept, exceeded)) THEN Return(g) ELSE LoopTop(g))
    BY <2>1
  <2>3. p = "checkpoint"
    BY <1>29 DEF SaveCheckpoint
  <2>4. goal # None => /\ kept \in AgentGoal /\ Alike(goal, kept)
                       /\ exceeded \in BOOLEAN
    <3> DEFINE grown == Appended(goal, b)
    <3>1. goal # None => (IF goal.feedback \in {1, 2} THEN goal.feedback + 1 ELSE goal.feedback) \in 0..3
      BY <1>0, GoalFields
    <3>2. goal # None => grown \in AgentGoal /\ Alike(goal, grown)
      BY <1>0, <3>1, GoalWith, AlikeOperators DEF Appended
    <3>3. \A h \in AgentGoal : [h EXCEPT !.feedback = 0] \in AgentGoal /\ Alike(h, [h EXCEPT !.feedback = 0])
      BY <1>5, GoalWith, AlikeOperators
    <3> HIDE DEF grown
    <3>4. goal # None => \A k \in Compacted(grown, b) : k \in AgentGoal /\ Alike(goal, k)
      BY <3>2, <3>3, AlikeTransitive DEF Compacted
    <3>5. goal # None => exceeded \in BOOLEAN
      BY <1>0, <2>1, GoalFields DEF SliceCharge, ChargeOutcomes
    <3> QED BY <2>2, <3>4, <3>5 DEF grown
  <2>5. ASSUME goal # None
        PROVE  LET h == new(kept, exceeded) IN
                 /\ h.over = exceeded /\ h.writes = goal.writes /\ h.receipts = goal.receipts
                 /\ h.id = goal.id /\ (h.status = "Completed" => goal.status = "Completed")
    <3>1. base(kept, exceeded) \in AgentGoal
      BY <2>4, <2>5, GoalWith DEF Charged
    <3>2. /\ base(kept, exceeded).over = exceeded /\ base(kept, exceeded).writes = goal.writes
          /\ base(kept, exceeded).receipts = goal.receipts /\ base(kept, exceeded).id = goal.id
          /\ (base(kept, exceeded).status = "Completed" => goal.status = "Completed")
      BY <2>4, <2>5 DEF Charged, Alike, AgentGoal
    <3> HIDE DEF base
    <3>3. \A h \in AgentGoal : AfterBoundary(h, b) \in AgentGoal /\ Alike(h, AfterBoundary(h, b))
      BY <1>5, AlikeOperators, GoalOperators DEF AfterBoundary
    <3>4. \A h \in AgentGoal : Alike(h, AfterCharge(h, exceeded))
      BY <1>5, AlikeOperators DEF AfterCharge
    <3>5. Alike(base(kept, exceeded), new(kept, exceeded))
      BY <3>1, <3>3, <3>4, AlikeTransitive
    <3> QED BY <3>2, <3>5 DEF Alike
  <2> HIDE DEF new
  <2>6. \/ q = "failed" /\ goal' = goal
        \/ goal # None /\ goal' = new(kept, exceeded) /\ (q = "finish" \/ (q = "top" /\ ~exceeded))
    BY <1>0, <1>1, <2>2, Arrivals DEF Mutate, Saved, SaveFails
  <2>7. CASE goal # None /\ goal' = new(kept, exceeded) /\ (q = "finish" \/ (q = "top" /\ ~exceeded))
    <3>1. Places(g)'
      BY <1>6, <2>5, <2>7 DEF Places, ClearHere, VerdictHere, UnseenHere, WithinHere, BeyondBudget
    <3> QED BY <2>5, <2>7, <3>1 DEF Tends, Commits, SameGoal
  <2> QED BY <1>2, <2>6, <2>7
<1>30. ASSUME SaveCandidate(g) PROVE Tends(g)
  <2> DEFINE paused == goal.status = "Pausing"
             new(exceeded) == [Charged(goal, exceeded) EXCEPT
                                 !.cand = "unverified",
                                 !.status = IF paused THEN "Paused" ELSE @,
                                 !.why = IF paused THEN "User" ELSE @]
  <2>1. PICK exceeded \in ChargeOutcomes :
           Mutate(g, new(exceeded), runner' = [runner EXCEPT ![g].pc = IF exceeded \/ paused THEN "overdrawn" ELSE "complete",
                                                            ![g].over = exceeded])
    BY <1>30 DEF SaveCandidate
  <2>2. p = "candidate"
    BY <1>30 DEF SaveCandidate
  <2>3. goal # None => /\ new(exceeded).over = exceeded /\ new(exceeded).writes = goal.writes
                       /\ new(exceeded).receipts = goal.receipts /\ new(exceeded).reads = goal.reads
                       /\ (new(exceeded).status = "Completed" => goal.status = "Completed")
    BY <1>0 DEF AgentGoal, Charged
  <2> HIDE DEF new
  <2>4. \/ q = "failed" /\ goal' = goal
        \/ goal # None /\ goal' = new(exceeded) /\ (q = "overdrawn" \/ (q = "complete" /\ ~exceeded))
    BY ZenonT(60), <1>r, <1>1, <2>1 DEF Mutate, Saved, SaveFails, Goto, Fail, Return, LoopTop, Runner, IdleRunner
  <2>5. CASE goal # None /\ goal' = new(exceeded) /\ (q = "overdrawn" \/ (q = "complete" /\ ~exceeded))
    <3>1. Places(g)'
      BY <1>6, <2>2, <2>3, <2>5 DEF Places, ClearHere, VerdictHere, UnseenHere, WithinHere, BeyondBudget
    <3> QED BY <2>3, <2>5, <3>1 DEF Tends, Commits, SameGoal
  <2> QED BY <1>2, <2>4, <2>5
<1>31. ASSUME PauseOverdrawn(g) PROVE Tends(g)
  <2>1. goal # None => Alike(goal, IF runner[g].over THEN Paused(goal, "Budget") ELSE goal)
    BY <1>0, <1>5, AlikeOperators, AlikeTransitive
  <2>2. Same
    BY <1>31, <1>1, <2>1 DEF PauseOverdrawn, Mutate, Saved, SaveFails
  <2>3. q \in {"failed", "finish"}
    BY <1>31, <1>0, Arrivals DEF PauseOverdrawn, Mutate, Saved, SaveFails
  <2> QED BY <1>2, <1>6, <2>2, <2>3
<1>32. ASSUME BeginCompletion(g) PROVE Tends(g)
  <2>1. goal' = goal
    BY <1>32, <1>1 DEF BeginCompletion
  <2>2. p = "complete"
    BY <1>32 DEF BeginCompletion
  <2>3. \/ q \in {"failed", "conflict", "verify", "overdrawn"}
        \/ /\ q = "decide" /\ goal # None /\ runner'[g].dec = goal.cand
           /\ ~(goal.cand = "unverified" /\ requires_independent_verifier(goal))
    <3> DEFINE ask == [runner EXCEPT ![g].pc = "verify", ![g].feedback = goal.feedback # 0]
               over == [runner EXCEPT ![g].pc = "overdrawn", ![g].over = TRUE]
               decide == [runner EXCEPT ![g].pc = "decide", ![g].dec = goal.cand, ![g].feedback = goal.feedback # 0]
    <3>1. /\ runner' = ask => q = "verify"
          /\ runner' = over => q = "overdrawn"
      BY <1>r DEF Runner
    <3>2. runner' = decide => q = "decide" /\ runner'[g].dec = goal.cand
      BY <1>r DEF Runner
    <3>3. \/ Fail(g, "Other") \/ Goto(g, "conflict") \/ runner' = ask \/ runner' = over
          \/ /\ runner' = decide /\ goal # None
             /\ ~(goal.cand = "unverified" /\ requires_independent_verifier(goal))
      BY <1>32 DEF BeginCompletion
    <3> HIDE DEF ask, over, decide
    <3> QED BY <1>0, <3>1, <3>2, <3>3, Arrivals
  <2>4. CASE /\ q = "decide" /\ goal # None /\ runner'[g].dec = goal.cand
             /\ ~(goal.cand = "unverified" /\ requires_independent_verifier(goal))
    <3>1. Places(g)'
      BY <1>6, <2>1, <2>2, <2>4 DEF requires_independent_verifier, Places, ClearHere, VerdictHere, UnseenHere,
         WithinHere, BeyondBudget
    <3> QED BY <2>1, <3>1 DEF Tends, Commits, SameGoal
  <2> QED BY <1>3, <1>6, <2>1, <2>2, <2>3, <2>4
<1>33. ASSUME VerifierAnswers(g) PROVE Tends(g)
  <2>1. goal' = goal
    BY <1>33, <1>1 DEF VerifierAnswers
  <2>2. p = "verify" /\ (q = "failed" \/ (q = "verified" /\ runner'[g].dec \in Decision))
    BY <1>33, <1>r DEF VerifierAnswers, Goto, Fail, Return, LoopTop, Runner, IdleRunner
  <2>3. CASE q = "verified" /\ runner'[g].dec \in Decision
    <3>1. Places(g)'
      BY <1>6, <2>1, <2>2, <2>3 DEF Places, ClearHere, VerdictHere, UnseenHere, WithinHere, BeyondBudget
    <3> QED BY <2>1, <3>1 DEF Tends, Commits, SameGoal
  <2> QED BY <1>2, <2>1, <2>2, <2>3
<1>34. ASSUME RecordVerification(g) PROVE Tends(g)
  <2>1. PICK exceeded \in ChargeOutcomes :
          IF HasGoal /\ goal.cand = "none"
          THEN Unsaved(Charged(goal, exceeded)) /\ Fail(g, "Other")
          ELSE Mutate(g, [Charged(goal, exceeded) EXCEPT !.cand = runner[g].dec],
                      runner' = [runner EXCEPT ![g].pc = IF exceeded THEN "overdrawn" ELSE "decide",
                                               ![g].over = exceeded])
    BY <1>34 DEF RecordVerification
  <2>2. p = "verified" /\ runner[g].dec \in Decision
    BY <1>34 DEF RecordVerification, Places, VerdictHere
  <2> DEFINE charged == Charged(goal, exceeded)
             new == [charged EXCEPT !.cand = runner[g].dec]
             on == [runner EXCEPT ![g].pc = IF exceeded THEN "overdrawn" ELSE "decide", ![g].over = exceeded]
  <2>3. \/ q = "failed" /\ (goal' = goal \/ (goal # None /\ goal' = charged))
        \/ /\ goal # None /\ goal' = new
           /\ q = "overdrawn" \/ (q = "decide" /\ ~exceeded /\ runner'[g].dec = runner[g].dec)
    <3>1. runner' = on => q = (IF exceeded THEN "overdrawn" ELSE "decide") /\ runner'[g].dec = runner[g].dec
      BY <1>r DEF Runner
    <3>2. \/ goal # None /\ Unsaved(charged) /\ Fail(g, "Other")
          \/ Mutate(g, new, runner' = on)
      BY <2>1
    <3> HIDE DEF on, new, charged
    <3> QED BY <1>0, <1>1, <3>1, <3>2, Arrivals DEF Mutate, Saved, SaveFails, Unsaved
  <2>4. goal # None => /\ charged.status = goal.status /\ charged.writes = goal.writes
                       /\ charged.receipts = goal.receipts
                       /\ new.status = goal.status /\ new.writes = goal.writes /\ new.reads = goal.reads
                       /\ new.receipts = goal.receipts /\ new.over = exceeded /\ new.cand = runner[g].dec
    BY <1>0 DEF AgentGoal, Charged
  <2>5. CASE /\ goal # None /\ goal' = new
             /\ q = "overdrawn" \/ (q = "decide" /\ ~exceeded /\ runner'[g].dec = runner[g].dec)
    <3> HIDE DEF new, charged
    <3>1. Places(g)'
      BY <1>6, <2>2, <2>4, <2>5 DEF Places, ClearHere, VerdictHere, UnseenHere, WithinHere, BeyondBudget, Decision
    <3> QED BY <2>4, <2>5, <3>1 DEF Tends, Commits, SameGoal
  <2>6. CASE q = "failed" /\ goal' = charged /\ goal # None
    <3> HIDE DEF new, charged
    <3>1. Places(g)'
      BY <1>6, <2>6 DEF Places, ClearHere, VerdictHere, UnseenHere, WithinHere, BeyondBudget
    <3> QED BY <2>4, <2>6, <3>1 DEF Tends, Commits, SameGoal
  <2> QED BY <1>2, <2>3, <2>5, <2>6
<1>35. ASSUME Reject(g) PROVE Tends(g)
  <2> DEFINE blocked == Blocked(goal, "Other")
             spent_verdict == [blocked EXCEPT !.cand = IF @ = "continue" THEN "blocked" ELSE @]
  <2>1. goal # None => Alike(goal, blocked) /\ blocked \in AgentGoal
    BY <1>0, <1>5, AlikeOperators, GoalOperators
  <2>2. goal # None => (IF blocked.cand = "continue" THEN "blocked" ELSE blocked.cand) \in Candidate
    BY <1>5, <2>1, GoalFields
  <2>3. goal # None => Alike(goal, spent_verdict)
    <3> HIDE DEF blocked
    <3> QED BY <2>1, <2>2, AlikeOperators, AlikeTransitive
  <2>4. Same
    BY <1>35, <1>1, <2>3 DEF Reject, Mutate, Saved, SaveFails
  <2>5. q \in {"failed", "finish"}
    BY <1>35, <1>0, Arrivals DEF Reject, Mutate
  <2> QED BY <1>2, <2>4, <2>5
<1>36. ASSUME Repair(g) PROVE Tends(g)
  <2> DEFINE cleared == [goal EXCEPT !.cand = "none"]
             new == [cleared EXCEPT !.feedback = 1]
  <2>1. goal # None => Alike(goal, cleared) /\ cleared \in AgentGoal
    BY <1>0, <1>5, AlikeOperators, GoalWith
  <2>2. new = [goal EXCEPT !.cand = "none", !.feedback = 1]
    OBVIOUS
  <2> HIDE DEF cleared
  <2>3. goal # None => Alike(goal, new)
    BY <1>5, <2>1, AlikeOperators, AlikeTransitive
  <2> HIDE DEF new
  <2>4. Same
    BY <1>36, <1>1, <2>2, <2>3 DEF Repair, Saved
  <2>5. p = "decide" /\ q \in {"failed", "top"}
    BY <1>36, <1>0, Arrivals DEF Repair
  <2> QED BY <1>3, <1>6, <2>4, <2>5
<1>37. ASSUME Commit(g) PROVE Tends(g)
  <2>1. /\ p = "decide"
        /\ \/ q = "failed" /\ goal' = goal
           \/ q = "legacy" /\ goal # None /\ goal' = Committed(goal)
    BY <1>37, <1>0, <1>1, Arrivals DEF Commit, Mutate, Saved, SaveFails
  <2>2. CASE q = "legacy" /\ goal # None /\ goal' = Committed(goal)
    <3>1. goal'.over = goal.over
      BY <1>0, <2>2 DEF Committed, clear_active_working_data, AgentGoal
    <3>2. Places(g)'
      BY <1>6, <2>1, <2>2, <3>1 DEF Places, ClearHere, VerdictHere, UnseenHere, WithinHere, BeyondBudget
    <3> QED BY <1>37, <2>2, <3>2 DEF Tends, Leaving
  <2> QED BY <1>2, <2>1, <2>2
<1>38. ASSUME CommitLegacy(g) PROVE Tends(g)
  <2>1. Same
    BY <1>38, <1>1 DEF CommitLegacy
  <2>2. q \in {"failed", "finish"}
    BY <1>38, <1>0, Arrivals DEF CommitLegacy
  <2> QED BY <1>2, <1>6, <2>1, <2>2
<1>39. ASSUME RecordError(g) PROVE Tends(g)
  <2>1. q = "finish" /\ (goal' = goal \/ (goal # None /\ goal' = AfterError(goal, runner[g].err)))
    BY <1>39, <1>0, <1>1, Arrivals DEF RecordError, Tried, Saved
  <2>2. goal # None => (AfterError(goal, runner[g].err).status = "Completed" => goal.status = "Completed")
    BY <1>0 DEF AfterError, Paused, Blocked, Cancelled, clear_active_working_data, AgentGoal
  <2>3. Places(g)'
    BY <1>6, <2>1 DEF Places, ClearHere, VerdictHere, UnseenHere, WithinHere, BeyondBudget
  <2> QED BY <1>2, <2>1, <2>2, <2>3 DEF Tends, Commits, SameGoal, Leaving
<1>40. ASSUME FinishRun(g) PROVE Tends(g)
  <2>1. q = "idle" /\ goal' = goal
    BY <1>40, <1>0, <1>1, IdleRunnerType DEF FinishRun
  <2> QED BY <1>2, <2>1
<1> QED
  BY <1>7, <1>8, <1>9, <1>10, <1>11, <1>12, <1>13, <1>14, <1>15, <1>16, <1>17, <1>18, <1>19, <1>20,
     <1>21, <1>22, <1>23, <1>24, <1>25, <1>26, <1>27, <1>28, <1>29, <1>30, <1>31, <1>32, <1>33, <1>34,
     <1>35, <1>36, <1>37, <1>38, <1>39, <1>40 DEF RunnerStep

(* Once a runner is on its way out it stays on it.                          *)
LEMMA LeavingLeaves ==
    ASSUME runner \in [Goals -> Runner], NEW g \in Goals, RunnerStep(g), runner[g].pc \in Leaving
    PROVE  runner'[g].pc \in Leaving \cup {"idle"}
<1>1. CommitLegacy(g) \/ RecordError(g) \/ FinishRun(g)
  BY DEF Leaving, RunnerStep, At, InSlice, LoopHead, BlockAmbiguous, WorkspaceDigest, BlockConflict, RefreshDigest,
     StartSlice, BeginSlice, SliceCancelled, ModelResponds, BatchDone, ReadIntent, ReadDone, ReadTimesOut,
     AskApproval, ApprovalResolved, ApprovalTimesOut, NotStarted, WriteIntent, WriteReceipt, WriteFails,
     WriteTimesOut, SliceLost, SaveCheckpoint, SaveCandidate, PauseOverdrawn, BeginCompletion,
     VerifierAnswers, RecordVerification, Reject, Repair, Commit
<1>2. CommitLegacy(g) => runner'[g].pc \in Leaving
  BY Arrivals DEF CommitLegacy, Leaving
<1>3. RecordError(g) => runner'[g].pc \in Leaving
  BY Arrivals DEF RecordError, Tried, Leaving
<1>4. FinishRun(g) => runner'[g].pc = "idle"
  BY IdleRunnerType DEF FinishRun
<1> QED BY <1>1, <1>2, <1>3, <1>4

----------------------------------------------------------------------------
(* What a command may do to the goal of a runner.                           *)

(* Memory is loaded before anything works on it, and stays so.              *)
LoadedFirst ==
    /\ goal # None => loaded
    /\ \A g \in Goals : runner[g].pc # "idle" => loaded
    /\ \A c \in Callers : caller[c].pc \notin {"idle", "ensure", "load"} => loaded
    /\ NoExtension => \A c \in Callers : caller[c].pc # "launch"

(* It may settle intents, forget the candidate, and stop or queue the goal. *)
Settles(g, h) ==
    /\ h.reads => g.reads
    /\ h.writes \subseteq g.writes /\ h.cand \in {g.cand, "none"} /\ h.used = g.used
    /\ NoExtension => h.over = g.over

(* What is recovered of writes is recorded by the goal, or the runner is    *)
(* past its decisions.                                                      *)
Recoverable ==
    OneCommand => \A c \in Callers : caller[c].pc = "apply" /\ HasGoal =>
        \/ caller[c].rec.recovered \subseteq goal.writes \cup goal.receipts
        \/ \A g \in Goals : runner[g].pc \in Leaving \cup {"idle"}

(* All that but the receipts, which it leaves alone.                        *)
Gentle(g, h) == Settles(g, h) /\ h.receipts = g.receipts /\ (h.status = "Completed" => g.status = "Completed")

Steers(c) ==
    /\ LoadedFirst'
    /\ ~Commits
    /\ \/ goal' \in {goal, None}
       \/ HasGoal /\ Gentle(goal, goal')
       \/ HasGoal /\ caller[c].pc = "apply" /\ Settles(goal, goal')
             /\ goal'.receipts = goal.receipts \cup caller[c].rec.recovered
       \/ caller[c].pc \in Holding
       \/ loaded = FALSE
    /\ \/ runner' = runner
       \/ caller[c].pc \in Holding /\ (goal' # None => ~goal'.over)
       \/ ~NoExtension
    /\ caller'[c].pc = "apply" => /\ goal' = goal
                                  /\ goal # None => caller'[c].rec.recovered \subseteq goal.writes

(* The changes a command makes to a goal while a loop is at work are gentle. *)
LEMMA GentleOperators ==
    ASSUME NEW g \in AgentGoal
    PROVE  /\ Gentle(g, prepare_for_restart(g))
           /\ Gentle(g, [g EXCEPT !.steering = "waiting"])
           /\ Gentle(g, [g EXCEPT !.status = "Pausing", !.why = "User"])
           /\ Gentle(g, Cancelled(g)) /\ Gentle(g, Blocked(g, "AmbiguousToolEffect"))
           /\ ~NoExtension => \A h \in Extensions(g) : Gentle(g, h) /\ Gentle(g, Requeued(h))
<1> USE DEF Gentle, Settles
<1>1. Gentle(g, prepare_for_restart(g))
  BY DEF prepare_for_restart, Paused, AgentGoal
<1>2. /\ Gentle(g, [g EXCEPT !.steering = "waiting"])
      /\ Gentle(g, [g EXCEPT !.status = "Pausing", !.why = "User"])
  BY DEF AgentGoal
<1>3. Gentle(g, Cancelled(g)) /\ Gentle(g, Blocked(g, "AmbiguousToolEffect"))
  BY DEF Cancelled, clear_active_working_data, Blocked, AgentGoal
<1>4. ASSUME ~NoExtension, NEW h \in Extensions(g) PROVE Gentle(g, h) /\ Gentle(g, Requeued(h))
  BY <1>4 DEF Extensions, Requeued, AgentGoal
<1> QED BY <1>1, <1>2, <1>3, <1>4

(* What recovery makes of a goal settles its writes and adds the receipts.   *)
Reconciled(g, r, reads) == [Recovered(g, r) EXCEPT !.reads = reads]

LEMMA RecoveredSettles ==
    ASSUME NEW g \in AgentGoal, NEW r \in Recovery, NEW reads \in {FALSE, g.reads},
           NEW h, h = Reconciled(g, r, reads)
    PROVE  /\ Settles(g, h) /\ h.receipts = g.receipts \cup r.recovered
           /\ h.status = "Completed" => g.status = "Completed"
BY DEF Reconciled, Settles, Recovered, Paused, Blocked, AgentGoal

(* Every step of a command keeps what is known of the place of the loop.     *)
LEMMA CallerSteers ==
    ASSUME Types, CallersNamed, LoadedFirst, NEW c \in Callers, CallerStep(c)
    PROVE  Steers(c)
<1> USE DEF HasGoal, Is
<1> DEFINE p == caller[c].pc
           q == caller'[c].pc
           Kind == goal' \in {goal, None} \/ (goal # None /\ Gentle(goal, goal'))
<1>0. /\ goal # None => goal \in AgentGoal
      /\ caller \in [Callers -> Caller] /\ caller[c] \in Caller
      /\ goal # None => loaded
      /\ p \notin {"idle", "ensure", "load"} => loaded
      /\ NoExtension => p # "launch"
  BY DEF Types, RepositoryTypes, LoadedFirst
<1>1. /\ UNCHANGED repository => goal' = goal /\ loaded' = loaded
      /\ CallerOnly => runner' = runner
      /\ \A h : Saved(h) => goal' = h /\ loaded' = loaded
      /\ \A h : Unsaved(h) => goal' = h /\ loaded' = loaded
  BY DEF repository, CallerOnly, Saved, Unsaved
<1>2. \A x \in CallerPC : Moves(c, {x}) => q = x /\ \A d \in Callers \ {c} : caller'[d] = caller[d]
  BY DEF Moves
<1>3. /\ {"idle", "load", "prepare", "body", "steer", "reconcile", "apply", "reread", "register",
          "requeue", "digest", "create", "launch", "cancel"} \subseteq CallerPC
      /\ {"digest", "create", "requeue"} = Holding
  BY DEF CallerPC, Holding
<1>4. /\ Done(c) => q = "idle" /\ \A d \in Callers \ {c} : caller'[d] = caller[d]
      /\ \A x \in CallerPC : CallerGoto(c, x) => q = x /\ \A d \in Callers \ {c} : caller'[d] = caller[d]
  BY <1>0, <1>2, <1>3, CallerMovements
(* A step of a command that has loaded the memory, or only reads it.        *)
<1>5. ASSUME Kind, runner' = runner, loaded' = loaded, \A d \in Callers \ {c} : caller'[d] = caller[d],
             q \in {"idle", "load"} \/ p \notin {"idle", "ensure", "load"},
             q # "apply", q = "launch" => ~NoExtension
      PROVE  Steers(c)
  <2>1. LoadedFirst'
    BY <1>0, <1>5 DEF LoadedFirst, NoExtension
  <2>2. ~Commits
    BY <1>5 DEF Commits, SameGoal, Gentle
  <2> QED BY <1>5, <2>1, <2>2 DEF Steers
<1>6. ASSUME EnsureMark(c) PROVE Steers(c)
  <2>1. goal' = goal /\ loaded' = loaded /\ runner' = runner
    BY <1>6, <1>1 DEF EnsureMark
  <2>2. Moves(c, {"load"})
    <3>1. (~initialized) \in BOOLEAN
      OBVIOUS
    <3> QED BY <1>6, <1>0, <1>3, <3>1, CallerMovements DEF EnsureMark
  <2> QED BY <1>2, <1>3, <1>5, <2>1, <2>2
<1>7. ASSUME EnsureLoad(c) PROVE Steers(c)
  <2>1. runner' = runner /\ p = "load"
    BY <1>7, <1>1 DEF EnsureLoad
  <2>2. q \in {"prepare", "body", "idle"} /\ \A d \in Callers \ {c} : caller'[d] = caller[d]
    BY <1>7, <1>3, <1>4 DEF EnsureLoad, Ensured
  <2>3. CASE ~loaded /\ UNCHANGED repository /\ q = "idle"
    BY <1>1, <1>5, <2>1, <2>2, <2>3
  <2>4. CASE loaded' = TRUE /\ goal' = IF loaded THEN goal ELSE disk
    <3>1. LoadedFirst'
      BY <1>0, <2>1, <2>2, <2>4 DEF LoadedFirst, NoExtension
    <3>2. ~Commits
      BY <1>0, <2>4 DEF Commits, SameGoal
    <3>3. goal' = goal \/ loaded = FALSE
      BY <2>4 DEF Types, RepositoryTypes
    <3> QED BY <2>1, <2>2, <3>1, <3>2, <3>3 DEF Steers
  <2> QED BY <1>7, <1>4, <2>3, <2>4 DEF EnsureLoad
<1>8. ASSUME EnsurePrepare(c) PROVE Steers(c)
  <2>1. Kind /\ loaded' = loaded /\ runner' = runner
    BY <1>8, <1>0, <1>1, GentleOperators DEF EnsurePrepare, Ensured
  <2>2. /\ p = "prepare" /\ q \in {"body", "idle"}
        /\ \A d \in Callers \ {c} : caller'[d] = caller[d]
    BY <1>8, <1>3, <1>4 DEF EnsurePrepare, Ensured
  <2> QED BY <1>5, <2>1, <2>2
<1>9. ASSUME Steer(c) PROVE Steers(c)
  <2>1. Kind /\ loaded' = loaded /\ runner' = runner
    BY <1>9, <1>0, <1>1 DEF Steer
  <2>2. /\ p = "body" /\ q \in {"steer", "idle"}
        /\ \A d \in Callers \ {c} : caller'[d] = caller[d]
    BY <1>9, <1>3, <1>4 DEF Steer
  <2> QED BY <1>5, <2>1, <2>2
<1>10. ASSUME SteerApply(c) PROVE Steers(c)
  <2>1. Kind /\ loaded' = loaded /\ runner' = runner
    BY <1>10, <1>0, <1>1, GentleOperators DEF SteerApply
  <2>2. /\ p = "steer" /\ q \in {"idle"}
        /\ \A d \in Callers \ {c} : caller'[d] = caller[d]
    BY <1>10, <1>3, <1>4 DEF SteerApply
  <2> QED BY <1>5, <2>1, <2>2
<1>11. ASSUME Pause(c) PROVE Steers(c)
  <2>1. Kind /\ loaded' = loaded /\ runner' = runner
    BY <1>11, <1>0, <1>1, GentleOperators DEF Pause, Named
  <2>2. /\ p = "body" /\ q \in {"idle"}
        /\ \A d \in Callers \ {c} : caller'[d] = caller[d]
    BY <1>11, <1>3, <1>4 DEF Pause, Named
  <2> QED BY <1>5, <2>1, <2>2
<1>12. ASSUME Reset(c) PROVE Steers(c)
  <2>1. Kind /\ loaded' = loaded /\ runner' = runner
    BY <1>12, <1>0, <1>1 DEF Reset, repository
  <2>2. /\ p = "body" /\ q = "idle"
        /\ \A d \in Callers \ {c} : caller'[d] = caller[d]
    BY <1>12, <1>3, <1>4 DEF Reset
  <2> QED BY <1>5, <2>1, <2>2
<1>13. ASSUME CancelGoal(c) PROVE Steers(c)
  <2>1. Kind /\ loaded' = loaded /\ runner' = runner
    BY <1>13, <1>0, <1>1, GentleOperators DEF CancelGoal, Named
  <2>2. /\ p = "body" /\ q \in {"cancel", "idle"}
        /\ \A d \in Callers \ {c} : caller'[d] = caller[d]
    BY <1>13, <1>3, <1>4 DEF CancelGoal, Named
  <2> QED BY <1>5, <2>1, <2>2
<1>14. ASSUME CancelToken(c) PROVE Steers(c)
  <2>1. Kind /\ loaded' = loaded /\ runner' = runner
    BY <1>14, <1>0, <1>1 DEF CancelToken
  <2>2. /\ p = "cancel" /\ q \in {"idle"}
        /\ \A d \in Callers \ {c} : caller'[d] = caller[d]
    BY <1>14, <1>3, <1>4 DEF CancelToken
  <2> QED BY <1>5, <2>1, <2>2
<1>15. ASSUME ResumeCheck(c) PROVE Steers(c)
  <2>1. Kind /\ loaded' = loaded /\ runner' = runner
    BY <1>15, <1>0, <1>1 DEF ResumeCheck
  <2>2. /\ p = "body" /\ q \in {"reconcile", "idle"}
        /\ \A d \in Callers \ {c} : caller'[d] = caller[d]
    BY <1>15, <1>3, <1>4 DEF ResumeCheck
  <2> QED BY <1>5, <2>1, <2>2
<1>16. ASSUME Reconcile(c) PROVE Steers(c)
  <2>1. goal' = goal /\ loaded' = loaded /\ runner' = runner /\ p \in {"body", "reconcile"}
    BY <1>16, <1>1 DEF Reconcile
  <2>2. CASE AfterReconcile(c) \/ Done(c)
    <3>1. q \in {"reread", "idle"} /\ \A d \in Callers \ {c} : caller'[d] = caller[d]
      BY <1>3, <1>4, <2>2 DEF AfterReconcile
    <3> QED BY <1>5, <2>1, <3>1
  <2>3. ASSUME goal # None, NEW r \in Classifications(goal), caller' = [caller EXCEPT ![c].pc = "apply", ![c].rec = r]
        PROVE  Steers(c)
    <3>1. r \in Recovery /\ r.recovered \subseteq goal.writes
      <4>1. r.recovered \subseteq goal.writes
        BY <2>3 DEF Classifications
      <4> QED BY <1>0, <2>3, <4>1, RecoveryTypes
    <3>2. Moves(c, {"apply"})
      BY <1>0, <1>3, <2>3, <3>1, CallerMovements
    <3>3. caller'[c].rec = r
      BY <1>0, <2>3 DEF Caller
    <3>4. q = "apply" /\ \A d \in Callers \ {c} : caller'[d] = caller[d]
      BY <1>2, <1>3, <3>2
    <3>5. LoadedFirst'
      BY <1>0, <2>1, <3>4 DEF LoadedFirst, NoExtension
    <3> QED BY <2>1, <3>1, <3>3, <3>5 DEF Steers, Commits, SameGoal
  <2> QED BY <1>16, <2>2, <2>3 DEF Reconcile
<1>17. ASSUME ApplyRecovery(c) PROVE Steers(c)
  <2> DEFINE r == caller[c].rec
  <2>1. r \in Recovery
    BY <1>0 DEF Caller
  <2>2. loaded' = loaded /\ runner' = runner /\ p = "apply"
    BY <1>17, <1>1 DEF ApplyRecovery
  <2>3. q \in {"reread", "idle"} /\ \A d \in Callers \ {c} : caller'[d] = caller[d]
    BY <1>17, <1>3, <1>4 DEF ApplyRecovery, AfterReconcile
  <2>4. CASE goal' = goal
    BY <1>5, <2>2, <2>3, <2>4
  <2>5. ASSUME goal # None, NEW reads \in {FALSE, goal.reads}, goal' = [Recovered(goal, r) EXCEPT !.reads = reads]
        PROVE  Steers(c)
    <3>1. /\ Settles(goal, goal') /\ goal'.receipts = goal.receipts \cup r.recovered
          /\ (goal'.status = "Completed" => goal.status = "Completed")
      <4>1. goal' = Reconciled(goal, r, reads)
        BY <2>5 DEF Reconciled
      <4>2. goal \in AgentGoal /\ reads \in {FALSE, goal.reads}
        BY <1>0, <2>5
      <4> HIDE DEF r, p, q, Kind
      <4> QED BY ONLY <2>1, <4>1, <4>2, RecoveredSettles
    <3>2. LoadedFirst'
      BY <1>0, <2>2, <2>3 DEF LoadedFirst, NoExtension
    <3> QED BY <2>2, <2>3, <2>5, <3>1, <3>2 DEF Steers, Commits, SameGoal
  <2>6. goal' = goal \/ \E reads \in {FALSE, goal.reads} : goal # None /\ goal' = [Recovered(goal, r) EXCEPT !.reads = reads]
    BY <1>17, <1>1 DEF ApplyRecovery
  <2> QED BY <2>4, <2>5, <2>6
<1>18. ASSUME ResumeReread(c) PROVE Steers(c)
  <2>1. Kind /\ loaded' = loaded /\ runner' = runner
    BY <1>18, <1>1 DEF ResumeReread
  <2>2. /\ p = "reread" /\ q \in {"register", "idle"}
        /\ \A d \in Callers \ {c} : caller'[d] = caller[d]
    BY <1>18, <1>3, <1>4 DEF ResumeReread
  <2> QED BY <1>5, <2>1, <2>2
<1>19. ASSUME ResumeRegister(c) PROVE Steers(c)
  <2>1. Kind /\ loaded' = loaded /\ runner' = runner
    BY <1>19, <1>0, <1>1 DEF ResumeRegister
  <2>2. /\ p = "register" /\ q \in {"requeue", "idle"}
        /\ \A d \in Callers \ {c} : caller'[d] = caller[d]
    BY <1>19, <1>3, <1>4 DEF ResumeRegister
  <2> QED BY <1>5, <2>1, <2>2
<1>20. ASSUME ResumeRequeue(c) PROVE Steers(c)
  <2>1. p = "requeue" /\ q = "idle" /\ \A d \in Callers \ {c} : caller'[d] = caller[d]
    BY <1>20, <1>4 DEF ResumeRequeue
  <2>2. \/ loaded' = loaded /\ runner' = runner /\ goal' = goal
        \/ \E g \in {goal, Switched(goal)} :
              /\ goal # None /\ loaded' = loaded
              /\ \/ runner' = runner /\ goal' = g
                 \/ ~g.over /\ goal' = Requeued(g)
    BY <1>20, <1>1 DEF ResumeRequeue, Requeueable, Named
  <2>3. loaded'
    BY <1>0, <2>1, <2>2
  <2>4. LoadedFirst'
    BY <1>0, <2>1, <2>3 DEF LoadedFirst, NoExtension
  <2>5. \A g \in {goal, Switched(goal)} : goal # None =>
           /\ g.status = goal.status /\ Requeued(g).over = g.over /\ Requeued(g).status = "Queued"
    BY <1>0 DEF Switched, Requeued, AgentGoal
  <2>6. ~Commits
    BY <2>2, <2>5 DEF Commits, SameGoal
  <2> QED BY <1>3, <2>1, <2>2, <2>4, <2>5, <2>6 DEF Steers
<1>21. ASSUME Extend(c) PROVE Steers(c)
  <2>1. caller[c].op = "extend" /\ p = "body"
    BY <1>21 DEF Extend
  <2>2. ~NoExtension
    BY <2>1 DEF CallersNamed, NoExtension
  <2>3. Kind /\ loaded' = loaded /\ runner' = runner
    BY <1>21, <1>0, <1>1, <2>2, GentleOperators DEF Extend, Named
  <2>4. q \in {"launch", "idle"} /\ \A d \in Callers \ {c} : caller'[d] = caller[d]
    BY <1>21, <1>3, <1>4 DEF Extend
  <2> QED BY <1>5, <2>1, <2>2, <2>3, <2>4
<1>22. ASSUME ExtendLaunch(c) PROVE Steers(c)
  <2>1. goal' = goal /\ loaded' = loaded /\ p = "launch"
    BY <1>22, <1>1 DEF ExtendLaunch
  <2>2. ~NoExtension /\ loaded
    BY <1>0, <2>1
  <2>3. q = "idle" /\ \A d \in Callers \ {c} : caller'[d] = caller[d]
    BY <1>22, <1>4 DEF ExtendLaunch
  <2>4. LoadedFirst'
    BY <1>0, <2>1, <2>2, <2>3 DEF LoadedFirst, NoExtension
  <2> QED BY <2>1, <2>2, <2>3, <2>4 DEF Steers, Commits, SameGoal
<1>23. ASSUME CreateRegister(c) PROVE Steers(c)
  <2>1. Kind /\ loaded' = loaded /\ runner' = runner
    BY <1>23, <1>0, <1>1 DEF CreateRegister
  <2>2. /\ p = "body" /\ q \in {"digest", "idle"}
        /\ \A d \in Callers \ {c} : caller'[d] = caller[d]
    BY <1>23, <1>3, <1>4 DEF CreateRegister
  <2> QED BY <1>5, <2>1, <2>2
<1>24. ASSUME CreateDigest(c) PROVE Steers(c)
  <2>1. Kind /\ loaded' = loaded /\ runner' = runner
    BY <1>24, <1>0, <1>1 DEF CreateDigest
  <2>2. /\ p = "digest" /\ q \in {"create", "idle"}
        /\ \A d \in Callers \ {c} : caller'[d] = caller[d]
    BY <1>24, <1>3, <1>4 DEF CreateDigest
  <2> QED BY <1>5, <2>1, <2>2
<1>25. ASSUME CreateGoal(c) PROVE Steers(c)
  <2>1. p = "create" /\ q = "idle" /\ \A d \in Callers \ {c} : caller'[d] = caller[d]
    BY <1>25, <1>4 DEF CreateGoal
  <2>2. /\ loaded' = loaded
        /\ \/ goal' = NewGoal(caller[c].id)
           \/ runner' = runner /\ goal' \in {goal, None}
    BY <1>25, <1>1 DEF CreateGoal
  <2>3. LoadedFirst'
    BY <1>0, <2>1, <2>2 DEF LoadedFirst, NoExtension
  <2>4. ~Commits /\ ~NewGoal(caller[c].id).over
    BY <2>2 DEF Commits, SameGoal, NewGoal
  <2> QED BY <1>3, <2>1, <2>2, <2>3, <2>4 DEF Steers
<1> QED
  BY <1>6, <1>7, <1>8, <1>9, <1>10, <1>11, <1>12, <1>13, <1>14, <1>15, <1>16, <1>17, <1>18, <1>19,
     <1>20, <1>21, <1>22, <1>23, <1>24, <1>25 DEF CallerStep

----------------------------------------------------------------------------
(* The invariant about the goal.                                            *)
GoalInv == RuntimeInv /\ LoadedFirst /\ (\A g \in Goals : Places(g)) /\ Recoverable

(* Of a loop that is idle nothing is claimed.                                *)
LEMMA IdlePlaces == \A g : runner[g].pc = "idle" => Places(g)
BY DEF Places, ClearHere, VerdictHere, UnseenHere, WithinHere, ClearPlaces, BeyondBudget

(* At the start the invariant of the goals holds.                            *)
LEMMA GoalInit == Init => GoalInv
<1> SUFFICES ASSUME Init PROVE GoalInv
  OBVIOUS
<1>1. /\ \A g \in Goals : runner[g].pc = "idle"
      /\ \A c \in Callers : caller[c].pc = "idle"
      /\ goal = None
  BY IdleRunnerType, IdleCallerType DEF Init
<1>2. LoadedFirst /\ Recoverable
  BY <1>1 DEF LoadedFirst, Recoverable, HasGoal
<1> QED BY <1>1, <1>2, RuntimeInit, IdlePlaces DEF GoalInv

(* Every step of a loop keeps the invariant of the goals.                    *)
LEMMA RunnerKeepsGoal ==
    ASSUME GoalInv, NEW g \in Goals, RunnerStep(g)
    PROVE  GoalInv'
<1>0. RuntimeInv /\ Types /\ LoadedFirst /\ Places(g) /\ Recoverable
  BY DEF GoalInv, RuntimeInv
<1>1. RuntimeInv'
  BY <1>0, RunnerKeepsAlone
<1>2. Tends(g)
  BY <1>0, RunnerTends
<1>3. /\ runner[g].pc # "idle" /\ loaded' = loaded /\ caller' = caller
      /\ \A h \in Goals \ {g} : runner'[h] = runner[h]
  BY <1>0, RunnerWorks DEF Types, Works, Alive, Persisted, FinishRun, At, repository
<1>4. \A h \in Goals \ {g} : runner'[h].pc = "idle"
  BY <1>0, <1>3 DEF RuntimeInv, RunnerHolds
<1>5. \A h \in Goals : Places(h)'
  <2>1. \A h \in Goals \ {g} : Places(h)'
    BY <1>4 DEF Places, ClearHere, VerdictHere, UnseenHere, WithinHere, ClearPlaces, BeyondBudget
  <2> QED BY <1>2, <2>1 DEF Tends
<1>6. LoadedFirst'
  BY <1>0, <1>2, <1>3 DEF LoadedFirst, Tends, HasGoal
<1>7. Recoverable'
  <2>1. ASSUME OneCommand, NEW c \in Callers, caller[c].pc = "apply", goal' # None
        PROVE  \/ caller[c].rec.recovered \subseteq goal'.writes \cup goal'.receipts
               \/ runner'[g].pc \in Leaving \cup {"idle"}
    <3>1. \/ caller[c].rec.recovered \subseteq goal.writes \cup goal.receipts
          \/ runner[g].pc \in Leaving
      BY <1>0, <1>2, <1>3, <2>1 DEF Recoverable, Tends
    <3>2. runner[g].pc \in Leaving => runner'[g].pc \in Leaving \cup {"idle"}
      BY <1>0, LeavingLeaves DEF Types
    <3> QED BY <1>2, <2>1, <3>1, <3>2 DEF Tends
  <2> QED BY <1>3, <1>4, <2>1 DEF Recoverable, HasGoal
<1> QED BY <1>1, <1>5, <1>6, <1>7 DEF GoalInv

(* While a runner lives no command holds the session, and the memory is     *)
(* loaded: what a command does to the goal is gentle.                       *)
LEMMA CallerLeavesPlaces ==
    ASSUME GoalInv, NEW c \in Callers, Steers(c), runner' = runner, NEW g \in Goals, runner[g].pc # "idle"
    PROVE  Places(g)'
<1>0. RuntimeInv /\ LoadedFirst /\ Places(g) /\ Recoverable
  BY DEF GoalInv
<1>1. caller[c].pc \notin Holding /\ loaded # FALSE
  BY <1>0 DEF RuntimeInv, RunnerHolds, CallerHolds, LoadedFirst
<1>2. CASE goal' \in {goal, None}
  BY <1>0, <1>2 DEF Places, ClearHere, VerdictHere, UnseenHere, WithinHere, HasGoal
<1>3. CASE HasGoal /\ Gentle(goal, goal')
  BY <1>0, <1>3 DEF Places, ClearHere, VerdictHere, UnseenHere, WithinHere, HasGoal, Gentle, Settles, ClearPlaces
<1>4. CASE HasGoal /\ caller[c].pc = "apply" /\ Settles(goal, goal')
             /\ goal'.receipts = goal.receipts \cup caller[c].rec.recovered
  <2>1. ClearHere(g)' /\ VerdictHere(g)' /\ WithinHere(g)'
    BY <1>0, <1>4 DEF Places, ClearHere, VerdictHere, WithinHere, HasGoal, Settles, ClearPlaces
  <2>2. UnseenHere(g)'
    <3> SUFFICES ASSUME OneCommand, runner[g].pc = "decide", runner[g].dec = "unverified",
                        goal'.cand = "unverified"
                 PROVE  ~goal'.used /\ goal'.receipts = {}
      BY DEF UnseenHere
    <3>1. ~goal.used /\ goal.receipts = {} /\ goal.writes = {}
      BY <1>0, <1>4 DEF Places, UnseenHere, ClearHere, ClearPlaces, Settles
    <3>2. caller[c].rec.recovered \subseteq goal.writes \cup goal.receipts
      BY <1>0, <1>4 DEF Recoverable, Leaving
    <3> QED BY <1>4, <3>1, <3>2 DEF Settles
  <2> QED BY <2>1, <2>2 DEF Places
<1> QED BY <1>1, <1>2, <1>3, <1>4 DEF Steers

(* Every step of a command keeps the invariant of the goals.                 *)
LEMMA CallerKeepsGoal ==
    ASSUME GoalInv, NEW c \in Callers, CallerStep(c)
    PROVE  GoalInv'
<1>0. RuntimeInv /\ Types /\ CallersNamed /\ LoadedFirst /\ (\A g \in Goals : Places(g)) /\ Recoverable
  BY DEF GoalInv, RuntimeInv
<1>1. RuntimeInv'
  BY <1>0, CallerKeepsAlone
<1>2. Steers(c) /\ Serves(c)
  BY <1>0, CallerSteers, CallerServes
<1>3. \A g \in Goals : Places(g)'
  <2>1. CASE runner' = runner
    BY <1>2, <2>1, CallerLeavesPlaces, IdlePlaces DEF Places, ClearHere, VerdictHere, UnseenHere, WithinHere,
       ClearPlaces, BeyondBudget
  <2>2. CASE Spawns(c) /\ runner' # runner
    <3>1. PICK i \in Goals : runner'[i].pc = "top"
      BY <1>0, <2>2, CallerServes, Arrivals DEF CallersNamed, Types, Spawns
    <3>2. \A g \in Goals \ {i} : runner'[g].pc = "idle"
      BY <1>1, <3>1 DEF RuntimeInv, RunnerHolds
    <3>3. NoExtension /\ goal' # None => ~goal'.over
      BY <1>2, <2>2 DEF Steers
    <3>4. Places(i)'
      BY <3>1, <3>3 DEF Places, ClearHere, VerdictHere, UnseenHere, WithinHere, ClearPlaces, HasGoal
    <3>5. \A g \in Goals \ {i} : Places(g)'
      BY <3>2 DEF Places, ClearHere, VerdictHere, UnseenHere, WithinHere, ClearPlaces, BeyondBudget
    <3> QED BY <3>4, <3>5
  <2> QED BY <1>2, <2>1, <2>2 DEF Serves, Passes, Takes, Gives
<1>4. Recoverable'
  BY <1>2 DEF Recoverable, OneCommand, Steers, HasGoal
<1> QED BY <1>1, <1>2, <1>3, <1>4 DEF GoalInv, Steers

(* Every step keeps the invariant of the goals.                              *)
LEMMA GoalKeeps == GoalInv /\ [Next]_vars => GoalInv'
<1> SUFFICES ASSUME GoalInv, [Next]_vars PROVE GoalInv'
  OBVIOUS
<1>0. RuntimeInv' /\ LoadedFirst /\ (\A g \in Goals : Places(g)) /\ Recoverable
  BY RuntimeKeeps DEF GoalInv
<1>1. CASE \E g \in Goals : RunnerStep(g)
  BY <1>1, RunnerKeepsGoal
<1>2. CASE \E c \in Callers : CallerStep(c)
  BY <1>2, CallerKeepsGoal
<1>3. ASSUME UNCHANGED <<goal, loaded, runner>>,
             \A c \in Callers : caller'[c] = caller[c] \/ caller'[c].pc = "ensure"
      PROVE  GoalInv'
  BY <1>0, <1>3 DEF GoalInv, LoadedFirst, Recoverable, Places, ClearHere, VerdictHere, UnseenHere, WithinHere, HasGoal
<1>4. CASE \E e \in Execs : WriteSettles(e)
  BY <1>3, <1>4 DEF WriteSettles, RunnerOnly, repository
<1>5. CASE \E c \in Callers, op \in Ops, g \in Goals : Invoke(c, op, g)
  <2>1. PICK c \in Callers, op \in Ops, g \in Goals : Invoke(c, op, g)
    BY <1>5
  <2>2. caller \in [Callers -> Caller]
    BY DEF GoalInv, RuntimeInv, Types
  <2>3. [IdleCaller EXCEPT !.op = op, !.id = g, !.pc = "ensure"].pc = "ensure"
    BY DEF IdleCaller
  <2> QED BY <1>3, <2>1, <2>2, <2>3 DEF Invoke, repository
<1>6. CASE Tick
  BY <1>3, <1>6 DEF Tick, repository
<1>7. CASE Crash
  <2>1. /\ goal' = None /\ \A g \in Goals : runner'[g].pc = "idle"
        /\ \A c \in Callers : caller'[c].pc = "idle"
    BY <1>7, IdleRunnerType, IdleCallerType DEF Crash
  <2>2. \A g \in Goals : Places(g)'
    BY <2>1 DEF Places, ClearHere, VerdictHere, UnseenHere, WithinHere, ClearPlaces, BeyondBudget
  <2> QED BY <1>0, <2>1, <2>2 DEF GoalInv, LoadedFirst, Recoverable, HasGoal
<1>8. CASE UNCHANGED vars
  BY <1>3, <1>8 DEF vars, repository
<1> QED BY <1>1, <1>2, <1>4, <1>5, <1>6, <1>7, <1>8 DEF Next

(* The invariant of the goals holds always.                                  *)
LEMMA GoalInvariant == Spec => []GoalInv
BY GoalInit, GoalKeeps, PTL DEF Spec

(* Only a runner that has decided so commits.                               *)
LEMMA CommitsDecided ==
    ASSUME GoalInv, [Next]_vars, Commits
    PROVE  \E g \in Goals : Commit(g) /\ Places(g)
<1>1. CASE \E g \in Goals : RunnerStep(g)
  BY <1>1, RunnerTends DEF GoalInv, RuntimeInv, Tends
<1>2. CASE \E c \in Callers : CallerStep(c)
  BY <1>2, CallerSteers DEF GoalInv, RuntimeInv, Steers
<1>3. goal' # None /\ goal' # goal
  BY DEF Commits, SameGoal
<1>4. CASE \/ \E e \in Execs : WriteSettles(e)
           \/ \E c \in Callers, op \in Ops, g \in Goals : Invoke(c, op, g)
           \/ Tick \/ Crash \/ UNCHANGED vars
  BY <1>3, <1>4 DEF WriteSettles, Invoke, Tick, Crash, vars, repository
<1> QED BY <1>1, <1>2, <1>4 DEF Next

(* The places hold what they hold at the moment of the commit.              *)
LEMMA CommitKnows ==
    ASSUME NEW g \in Goals, Commit(g), Places(g), Commits
    PROVE  /\ ~goal.reads /\ goal.writes = {}
           /\ goal.cand \notin {"continue", "blocked"}
           /\ OneCommand /\ (goal.used \/ goal.receipts # {}) => goal.cand # "unverified"
           /\ NoExtension => ~goal.over
<1>1. runner[g].pc = "decide" /\ runner[g].dec \in {"unverified", "accepted"} /\ HasGoal
  BY DEF Commit, At, Commits, SameGoal
<1> QED BY <1>1 DEF Places, ClearHere, VerdictHere, UnseenHere, WithinHere, ClearPlaces, BeyondBudget

(* Committing clears the tool intents of the goal, and there is none: from  *)
(* the head of the loop on, where run_goal_loop looks for them, whatever    *)
(* commands steer the goal meanwhile, nothing becomes pending again before  *)
(* handle_completion_candidate commits.                                     *)
THEOREM NothingPendingIsCommitted == Spec => CommitLeavesNothingPending
<1>1. GoalInv /\ [Next]_vars => [Commits => ~goal.reads /\ goal.writes = {}]_vars
  BY CommitsDecided, CommitKnows
<1> QED BY <1>1, GoalInvariant, PTL DEF Spec, CommitLeavesNothingPending

(* A candidate the verifier refused is never committed, however many        *)
(* commands race with the runner: the decision and the cached verdict can   *)
(* differ only in that the candidate is gone.                               *)
THEOREM RefusedIsNeverCommitted == Spec => [][Commits => goal.cand \notin {"continue", "blocked"}]_vars
<1>1. GoalInv /\ [Next]_vars => [Commits => goal.cand \notin {"continue", "blocked"}]_vars
  BY CommitsDecided, CommitKnows
<1> QED BY <1>1, GoalInvariant, PTL DEF Spec

(* With one command at a time a commit has the verifier's authority, or the *)
(* goal did nothing that needs it.                                          *)
THEOREM AuthorityWithOneCommand ==
    ASSUME OneCommand
    PROVE  Spec => CommitHasAuthority
<1>1. GoalInv /\ [Next]_vars =>
        [Commits => /\ goal.cand \notin {"continue", "blocked"}
                    /\ (goal.used \/ goal.receipts # {}) => goal.cand # "unverified"]_vars
  BY CommitsDecided, CommitKnows
<1> QED BY <1>1, GoalInvariant, PTL DEF Spec, CommitHasAuthority

(* A goal beyond its budget is not committed, unless the client extends a   *)
(* budget by less than it is exceeded: extend_agent_budget queues such a    *)
(* goal all the same.                                                       *)
THEOREM BudgetWithoutExtension ==
    ASSUME NoExtension
    PROVE  Spec => BudgetNeverCommits
<1>1. GoalInv /\ [Next]_vars => [Commits => ~goal.over]_vars
  BY CommitsDecided, CommitKnows
<1> QED BY <1>1, GoalInvariant, PTL DEF Spec, BudgetNeverCommits

----------------------------------------------------------------------------
(* Every goal that is said to be worked on is worked on.                    *)
Active == {"Queued", "Running", "AwaitingApproval"}

(* Loads and saves succeed, and no budget is extended: each of the three    *)
(* leaves an active goal to nobody.                                         *)
NothingFails == ~CanFailSave /\ ~CanFailLoad /\ NoExtension

(* A runner works on its own goal.                                          *)
Own == \A g \in Goals : HasGoal /\ runner[g].pc # "idle" => goal.id = g

(* Where a runner is when it has done with its goal for now.                *)
Rests(g) == runner[g].pc \in {"legacy", "finish"} \/ (runner[g].pc = "overdrawn" /\ ~runner[g].over)
Resting == \A g \in Goals : HasGoal /\ Rests(g) => goal.status \notin Active

(* A first visit that still has to look at what the checkpoint says.        *)
Prepares(c) == caller[c].pc = "prepare" \/ (caller[c].pc = "load" /\ caller[c].first)
Preparing == \E c \in Callers : Prepares(c)

Attended ==
    /\ HasGoal /\ goal.status \in Active =>
         Preparing \/ (goal.id \in Goals /\ runner[goal.id].pc \notin {"idle", "finish"})
    /\ ~loaded /\ initialized => Preparing
    /\ ~initialized => ~loaded /\ \A c \in Callers : caller[c].pc \in {"idle", "ensure"}

AttendInv == Own /\ Resting /\ Attended

(* What a step of a runner does to the goal: it stays the goal it was, and  *)
(* is active no more when the runner has done with it.                      *)
Turns(g) ==
    /\ goal' # None => goal # None /\ goal'.id = goal.id
    /\ goal' # None /\ Rests(g)' => goal'.status \notin Active

(* The statuses a runner leaves behind are not active.                      *)
LEMMA InactiveOperators ==
    ASSUME NEW g \in AgentGoal
    PROVE  /\ \A why : Paused(g, why).id = g.id /\ Paused(g, why).status \notin Active
           /\ \A why : Blocked(g, why).id = g.id /\ Blocked(g, why).status \notin Active
           /\ Committed(g).id = g.id /\ Committed(g).status \notin Active
           /\ Cancelled(g).id = g.id /\ Cancelled(g).status \notin Active
           /\ Stopped(g) \/ is_terminal(g) => g.status \notin Active
           /\ \A err : AfterError(g, err).id = g.id /\ AfterError(g, err).status \notin Active
<1>1. /\ \A why : Paused(g, why).id = g.id /\ Paused(g, why).status \notin Active
      /\ \A why : Blocked(g, why).id = g.id /\ Blocked(g, why).status \notin Active
  BY DEF Paused, Blocked, AgentGoal, Active
<1>2. /\ Committed(g).id = g.id /\ Committed(g).status \notin Active
      /\ Cancelled(g).id = g.id /\ Cancelled(g).status \notin Active
  BY DEF Committed, Cancelled, clear_active_working_data, AgentGoal, Active
<1>3. Stopped(g) \/ is_terminal(g) => g.status \notin Active
  BY DEF Stopped, is_terminal, Terminal, Active
<1> QED BY <1>1, <1>2, <1>3 DEF AfterError

(* A charged checkpoint stops the goal, or leaves what it was.               *)
LEMMA ChargedStops ==
    ASSUME NEW g \in AgentGoal, NEW b, NEW exceeded \in BOOLEAN, NEW kept \in Compacted(Appended(g, b), b)
    PROVE  LET new == AfterCharge(AfterBoundary([Charged(kept, exceeded) EXCEPT !.used = TRUE], b), exceeded)
           IN  /\ new.id = g.id
               /\ exceeded \/ Stopped(new) => new.status \notin Active
<1> DEFINE used == [Charged(kept, exceeded) EXCEPT !.used = TRUE]
           bound == AfterBoundary(used, b)
           new == AfterCharge(bound, exceeded)
<1>1. kept \in AgentGoal /\ kept.id = g.id
  <2>1. Appended(g, b) \in AgentGoal /\ Appended(g, b).id = g.id
    BY DEF Appended, AgentGoal
  <2> QED BY <2>1 DEF Compacted, AgentGoal
<1>2. used \in AgentGoal /\ used.id = g.id
  BY <1>1 DEF Charged, AgentGoal
<1> HIDE DEF used
<1>3. bound \in AgentGoal /\ bound.id = g.id
  BY <1>2, GoalOperators, InactiveOperators DEF AfterBoundary, Why, PauseReason, BlockReason
<1> HIDE DEF bound
<1>4. new.id = g.id /\ (exceeded \/ Stopped(new) => new.status \notin Active)
  BY <1>3, InactiveOperators DEF AfterCharge, Stopped, Active
<1> QED BY <1>4 DEF new, bound, used

(* One step per action.                                                     *)
LEMMA RunnerTurns ==
    ASSUME NothingFails, Types, Own, Resting, NEW g \in Goals, RunnerStep(g)
    PROVE  Turns(g)
<1> USE DEF At, HasGoal
<1> DEFINE q == runner'[g].pc
           Same == goal' = goal \/ (goal # None /\ goal'.id = goal.id)
           Ends == goal' # None => goal'.status \notin Active
<1>0. /\ goal # None => goal \in AgentGoal
      /\ runner \in [Goals -> Runner] /\ runner[g] \in Runner
      /\ ~SaveFails /\ ~CanFailSave
      /\ goal # None /\ Rests(g) => goal.status \notin Active
      /\ goal # None /\ runner[g].pc # "idle" => goal.id = g
  BY DEF Types, RepositoryTypes, NothingFails, SaveFails, Resting, Own
<1>1. UNCHANGED repository => goal' = goal
  BY DEF repository
<1>2. Same /\ q \notin {"legacy", "finish", "overdrawn"} => Turns(g)
  BY DEF Turns, Rests
<1>3. (Same \/ goal' = None) /\ Ends => Turns(g)
  BY DEF Turns, Rests
<1>r. runner \in [Goals -> Runner]
  BY <1>0
<1>4. ASSUME LoopHead(g) PROVE Turns(g)
  <2> DEFINE on == [runner EXCEPT ![g].pc = IF HasPending(goal) THEN "ambiguous" ELSE "digest",
                                  ![g].effects = goal.receipts # {}]
  <2>1. runner' = on => q = IF HasPending(goal) THEN "ambiguous" ELSE "digest"
    BY <1>0 DEF Runner
  <2>2. \/ goal # None /\ (is_terminal(goal) \/ Stopped(goal) \/ goal.id # g) /\ Return(g)
        \/ Fail(g, "Cancelled") \/ Fail(g, "Other") \/ runner' = on
    BY <1>4 DEF LoopHead
  <2> HIDE DEF on
  <2> QED BY <1>0, <1>1, <1>2, <1>3, <1>4, <2>1, <2>2, Arrivals, InactiveOperators DEF LoopHead
<1>5. ASSUME BlockAmbiguous(g) PROVE Turns(g)
  <2>1. \/ goal # None /\ goal' = Blocked(goal, "AmbiguousToolEffect")
        \/ goal' = None
        \/ goal' = goal /\ q = "failed"
    BY <1>5, <1>0, <1>1, Arrivals DEF BlockAmbiguous, Mutate, Saved
  <2> QED BY <1>0, <1>2, <1>3, <2>1, InactiveOperators
<1>6. ASSUME WorkspaceDigest(g) PROVE Turns(g)
  <2>1. goal' = goal
    BY <1>6, <1>1 DEF WorkspaceDigest
  <2>2. q \in {"conflict", "refresh", "start", "failed"}
    BY <1>6, <1>0, Arrivals DEF WorkspaceDigest
  <2> QED BY <1>2, <2>1, <2>2
<1>7. ASSUME BlockConflict(g) PROVE Turns(g)
  <2>1. \/ goal # None /\ goal' = Blocked(goal, "WorkspaceConflict")
        \/ goal' = None
        \/ goal' = goal /\ q = "failed"
    BY <1>7, <1>0, <1>1, Arrivals DEF BlockConflict, Mutate, Saved
  <2> QED BY <1>0, <1>2, <1>3, <2>1, InactiveOperators
<1>8. ASSUME RefreshDigest(g) PROVE Turns(g)
  <2>1. Same
    BY <1>8, <1>0, <1>1 DEF RefreshDigest, Mutate, Saved, AgentGoal
  <2>2. q \in {"start", "failed"}
    BY <1>8, <1>0, Arrivals DEF RefreshDigest, Mutate
  <2> QED BY <1>2, <2>1, <2>2
<1>9. ASSUME StartSlice(g) PROVE Turns(g)
  <2>1. goal # None => inject_steering([goal EXCEPT !.status = "Running", !.why = "none"]).id = goal.id
    BY <1>0 DEF inject_steering, AgentGoal
  <2>2. Same
    BY <1>9, <1>0, <1>1, <2>1 DEF StartSlice, Mutate, Saved
  <2>3. q \in {"begin", "failed"}
    BY <1>9, <1>0, Arrivals DEF StartSlice, Mutate
  <2> QED BY <1>2, <2>2, <2>3
<1>10. ASSUME BeginSlice(g) PROVE Turns(g)
  <2>1. goal' = goal
    BY <1>10, <1>1 DEF BeginSlice
  <2>2. q \in {"complete", "model", "failed"}
    BY <1>10, <1>r, ZenonT(40) DEF BeginSlice, Goto, Fail, Return, LoopTop, Runner, IdleRunner
  <2> QED BY <1>2, <2>1, <2>2
<1>11. ASSUME SliceCancelled(g) PROVE Turns(g)
  <2>1. goal' = goal
    BY <1>11, <1>1 DEF SliceCancelled
  <2>2. q \in {"failed"}
    BY <1>11, <1>0, Arrivals DEF SliceCancelled
  <2> QED BY <1>2, <2>1, <2>2
<1>12. ASSUME ModelResponds(g) PROVE Turns(g)
  <2>1. goal' = goal
    BY <1>12, <1>1 DEF ModelResponds
  <2>2. q \in {"tools", "candidate", "checkpoint", "failed"}
    BY <1>12, <1>r, ZenonT(40) DEF ModelResponds, Goto, Fail, Return, LoopTop, Runner, IdleRunner
  <2> QED BY <1>2, <2>1, <2>2
<1>13. ASSUME BatchDone(g) PROVE Turns(g)
  <2>1. goal' = goal
    BY <1>13, <1>1 DEF BatchDone
  <2>2. q \in {"checkpoint", "failed"}
    BY <1>13, <1>r DEF BatchDone, Goto, Fail, Return, LoopTop, Runner, IdleRunner
  <2> QED BY <1>2, <2>1, <2>2
<1>14. ASSUME ReadIntent(g) PROVE Turns(g)
  <2>1. Same
    BY <1>14, <1>0, <1>1 DEF ReadIntent, Journal, Saved, AgentGoal
  <2>2. q \in {"reading", "failed"}
    BY <1>14, <1>0, Arrivals DEF ReadIntent, Journal
  <2> QED BY <1>2, <2>1, <2>2
<1>15. ASSUME ReadDone(g) PROVE Turns(g)
  <2>1. Same
    BY <1>15, <1>0, <1>1 DEF ReadDone, Journal, Saved, AgentGoal
  <2>2. q \in {"tools", "failed"}
    BY <1>15, <1>0, Arrivals DEF ReadDone, Journal
  <2> QED BY <1>2, <2>1, <2>2
<1>16. ASSUME ReadTimesOut(g) PROVE Turns(g)
  <2>1. Same
    BY <1>16, <1>0, <1>1 DEF ReadTimesOut, Journal, Saved, AgentGoal
  <2>2. q \in {"failed"}
    BY <1>16, <1>0, Arrivals DEF ReadTimesOut, Journal
  <2> QED BY <1>2, <2>1, <2>2
<1>17. ASSUME AskApproval(g) PROVE Turns(g)
  <2>1. Same
    BY <1>17, <1>0, <1>1 DEF AskApproval, Tried, Saved, AgentGoal
  <2>2. q \in {"asking"}
    BY <1>17, <1>0, Arrivals DEF AskApproval, Tried
  <2> QED BY <1>2, <2>1, <2>2
<1>18. ASSUME ApprovalResolved(g) PROVE Turns(g)
  <2>1. goal # None => AfterApproval(goal).id = goal.id
    BY <1>0 DEF AfterApproval, AgentGoal
  <2>2. Same
    BY <1>18, <1>0, <1>1, <2>1 DEF ApprovalResolved, Tried, Saved
  <2>3. q \in {"approved", "tools"}
    BY <1>18, <1>0, Arrivals DEF ApprovalResolved, Tried
  <2> QED BY <1>2, <2>2, <2>3
<1>19. ASSUME ApprovalTimesOut(g) PROVE Turns(g)
  <2>1. goal' = goal
    BY <1>19, <1>1 DEF ApprovalTimesOut
  <2>2. q \in {"failed"}
    BY <1>19, <1>0, Arrivals DEF ApprovalTimesOut
  <2> QED BY <1>2, <2>1, <2>2
<1>20. ASSUME NotStarted(g) PROVE Turns(g)
  <2>1. goal' = goal
    BY <1>20, <1>1 DEF NotStarted
  <2>2. q \in {"tools", "failed"}
    BY <1>20, <1>0, Arrivals DEF NotStarted
  <2> QED BY <1>2, <2>1, <2>2
<1>21. ASSUME WriteIntent(g) PROVE Turns(g)
  <2>1. Same
    BY <1>21, <1>0, <1>1 DEF WriteIntent, Journal, Saved, AgentGoal
  <2>2. q \in {"writing", "failed"}
    BY <1>21, <1>r, ZenonT(40) DEF WriteIntent, Journal, Goto, Fail, Return, LoopTop, Runner, IdleRunner
  <2> QED BY <1>2, <2>1, <2>2
<1>22. ASSUME WriteReceipt(g) PROVE Turns(g)
  <2>1. Same
    BY <1>22, <1>0, <1>1 DEF WriteReceipt, Journal, Saved, AgentGoal
  <2>2. q \in {"tools", "failed"}
    BY <1>22, <1>r DEF WriteReceipt, Journal, Goto, Fail, Return, LoopTop, Runner, IdleRunner
  <2> QED BY <1>2, <2>1, <2>2
<1>23. ASSUME WriteFails(g) PROVE Turns(g)
  <2>1. goal' = goal
    BY <1>23, <1>1 DEF WriteFails
  <2>2. q \in {"tools"}
    BY <1>23, <1>0, Arrivals DEF WriteFails
  <2> QED BY <1>2, <2>1, <2>2
<1>24. ASSUME WriteTimesOut(g) PROVE Turns(g)
  <2>1. goal' = goal
    BY <1>24, <1>1 DEF WriteTimesOut
  <2>2. q \in {"failed"}
    BY <1>24, <1>0, Arrivals DEF WriteTimesOut
  <2> QED BY <1>2, <2>1, <2>2
<1>25. ASSUME SliceLost(g) PROVE Turns(g)
  <2>1. goal' = goal
    BY <1>25, <1>1 DEF SliceLost
  <2>2. q \in {"failed"}
    BY <1>25, <1>0, Arrivals DEF SliceLost
  <2> QED BY <1>2, <2>1, <2>2
<1>26. ASSUME SaveCheckpoint(g) PROVE Turns(g)
  <2>1. CASE goal = None
    <3>1. goal' = None
      BY <1>26, <1>0, <1>1, <2>1 DEF SaveCheckpoint, Mutate
    <3> QED BY <1>3, <2>1, <3>1
  <2>2. CASE goal # None
    <3>1. PICK exceeded \in SliceCharge(runner[g].boundary),
               kept \in Compacted(Appended(goal, runner[g].boundary), runner[g].boundary) :
            LET new == AfterCharge(AfterBoundary([Charged(kept, exceeded) EXCEPT !.used = TRUE],
                                                 runner[g].boundary), exceeded)
            IN  Mutate(g, new, IF exceeded \/ Stopped(new) THEN Return(g) ELSE LoopTop(g))
      BY <1>26, <2>2 DEF SaveCheckpoint
    <3> DEFINE new == AfterCharge(AfterBoundary([Charged(kept, exceeded) EXCEPT !.used = TRUE],
                                                runner[g].boundary), exceeded)
    <3>2. exceeded \in BOOLEAN
      BY <1>0, <2>2 DEF SliceCharge, ChargeOutcomes, AgentGoal
    <3>3. new.id = goal.id /\ (exceeded \/ Stopped(new) => new.status \notin Active)
      BY <1>0, <2>2, <3>2, ChargedStops
    <3>4. Mutate(g, new, IF exceeded \/ Stopped(new) THEN Return(g) ELSE LoopTop(g))
      BY <3>1
    <3> HIDE DEF new
    <3>5. goal' = new /\ (IF exceeded \/ Stopped(new) THEN Return(g) ELSE LoopTop(g))
      BY <1>0, <2>2, <3>4 DEF Mutate, Saved
    <3>6. q \in {"finish", "top"} /\ (q = "finish" => exceeded \/ Stopped(new))
      BY <1>0, <3>5, Arrivals
    <3> QED BY <1>2, <1>3, <2>2, <3>3, <3>5, <3>6
  <2> QED BY <2>1, <2>2
<1>27. ASSUME SaveCandidate(g) PROVE Turns(g)
  <2> DEFINE paused == goal.status = "Pausing"
             new(exceeded) == [Charged(goal, exceeded) EXCEPT
                                 !.cand = "unverified",
                                 !.status = IF paused THEN "Paused" ELSE @,
                                 !.why = IF paused THEN "User" ELSE @]
             on(exceeded) == [runner EXCEPT ![g].pc = IF exceeded \/ paused THEN "overdrawn" ELSE "complete",
                                            ![g].over = exceeded]
  <2>1. PICK exceeded \in ChargeOutcomes : Mutate(g, new(exceeded), runner' = on(exceeded))
    BY <1>27 DEF SaveCandidate
  <2>2. exceeded \in BOOLEAN
    BY <1>0 DEF ChargeOutcomes, AgentGoal
  <2>3. goal # None => /\ new(exceeded).id = goal.id
                       /\ paused => new(exceeded).status \notin Active
    BY <1>0 DEF AgentGoal, Charged, Active
  <2>4. runner' = on(exceeded) =>
            /\ q \in {"overdrawn", "complete"} /\ runner'[g].over = exceeded
            /\ q = "overdrawn" => exceeded \/ paused
    BY <1>r, <2>2 DEF Runner
  <2> HIDE DEF new, on, paused
  <2>5. \/ q = "failed" /\ goal' = goal
        \/ goal # None /\ goal' = new(exceeded) /\ runner' = on(exceeded)
    BY <1>0, <1>r, <1>1, <2>1, Arrivals DEF Mutate, Saved
  <2> QED BY <1>2, <2>2, <2>3, <2>4, <2>5 DEF Turns, Rests
<1>28. ASSUME PauseOverdrawn(g) PROVE Turns(g)
  <2>1. \/ goal # None /\ goal' = IF runner[g].over THEN Paused(goal, "Budget") ELSE goal
        \/ goal' = None
    BY <1>28, <1>0, <1>1 DEF PauseOverdrawn, Mutate, Saved
  <2>2. goal # None /\ ~runner[g].over => goal.status \notin Active
    BY <1>28, <1>0 DEF PauseOverdrawn, Rests
  <2> QED BY <1>0, <1>3, <2>1, <2>2, InactiveOperators
<1>29. ASSUME BeginCompletion(g) PROVE Turns(g)
  <2>1. goal' = goal
    BY <1>29, <1>1 DEF BeginCompletion
  <2> DEFINE ask == [runner EXCEPT ![g].pc = "verify", ![g].feedback = goal.feedback # 0]
             over == [runner EXCEPT ![g].pc = "overdrawn", ![g].over = TRUE]
             decide == [runner EXCEPT ![g].pc = "decide", ![g].dec = goal.cand, ![g].feedback = goal.feedback # 0]
  <2>2. /\ runner' = ask => q = "verify"
        /\ runner' = over => q = "overdrawn" /\ runner'[g].over
        /\ runner' = decide => q = "decide"
    BY <1>r DEF Runner
  <2>3. Fail(g, "Other") \/ Goto(g, "conflict") \/ runner' = ask \/ runner' = over \/ runner' = decide
    BY <1>29 DEF BeginCompletion
  <2> HIDE DEF ask, over, decide
  <2> QED BY <1>r, <1>2, <2>1, <2>2, <2>3, Arrivals DEF Turns, Rests
<1>30. ASSUME VerifierAnswers(g) PROVE Turns(g)
  <2>1. goal' = goal
    BY <1>30, <1>1 DEF VerifierAnswers
  <2>2. q \in {"verified", "failed"}
    BY <1>30, <1>r DEF VerifierAnswers, Goto, Fail, Return, LoopTop, Runner, IdleRunner
  <2> QED BY <1>2, <2>1, <2>2
<1>31. ASSUME RecordVerification(g) PROVE Turns(g)
  <2>1. PICK exceeded \in ChargeOutcomes :
          IF goal # None /\ goal.cand = "none"
          THEN Unsaved(Charged(goal, exceeded)) /\ Fail(g, "Other")
          ELSE Mutate(g, [Charged(goal, exceeded) EXCEPT !.cand = runner[g].dec],
                      runner' = [runner EXCEPT ![g].pc = IF exceeded THEN "overdrawn" ELSE "decide",
                                               ![g].over = exceeded])
    BY <1>31 DEF RecordVerification
  <2> DEFINE on == [runner EXCEPT ![g].pc = IF exceeded THEN "overdrawn" ELSE "decide", ![g].over = exceeded]
  <2>2. exceeded \in BOOLEAN
    BY <1>0, <2>1 DEF ChargeOutcomes, AgentGoal
  <2>3. runner' = on => q \in {"overdrawn", "decide"} /\ (q = "overdrawn" => runner'[g].over)
    BY <1>0, <2>2 DEF Runner
  <2>4. Fail(g, "Other") \/ runner' = on
    BY <1>0, <2>1 DEF Mutate
  <2> HIDE DEF on
  <2>5. Same
    BY <1>0, <1>1, <2>1 DEF Unsaved, Mutate, Saved, Charged, AgentGoal
  <2> QED BY <1>0, <1>2, <2>3, <2>4, <2>5, Arrivals DEF Turns, Rests
<1>32. ASSUME Reject(g) PROVE Turns(g)
  <2>1. goal' = None \/ (goal # None /\ goal'.id = goal.id /\ goal'.status \notin Active)
    BY <1>32, <1>0, <1>1, ZenonT(40) DEF Reject, Mutate, Saved, Blocked, AgentGoal, Active
  <2> QED BY <1>32, <1>0, <1>1, <1>3, <2>1 DEF Reject, Mutate, Saved
<1>33. ASSUME Repair(g) PROVE Turns(g)
  <2>1. Same
    BY <1>33, <1>0, <1>1 DEF Repair, Saved, Saved, AgentGoal
  <2>2. q \in {"top", "failed"}
    BY <1>33, <1>0, Arrivals DEF Repair, Saved
  <2> QED BY <1>2, <2>1, <2>2
<1>34. ASSUME Commit(g) PROVE Turns(g)
  <2>1. \/ goal # None /\ goal' = Committed(goal)
        \/ goal' = None
        \/ goal' = goal /\ q = "failed"
    BY <1>34, <1>0, <1>1, Arrivals DEF Commit, Mutate, Saved
  <2> QED BY <1>0, <1>2, <1>3, <2>1, InactiveOperators
<1>35. ASSUME CommitLegacy(g) PROVE Turns(g)
  <2>1. goal' = goal /\ Rests(g)
    BY <1>35, <1>1 DEF CommitLegacy, Rests
  <2> QED BY <1>0, <1>3, <2>1
<1>36. ASSUME RecordError(g) PROVE Turns(g)
  <2>1. (goal # None /\ goal' = AfterError(goal, runner[g].err)) \/ goal' = None
    BY <1>36, <1>0, <1>1 DEF RecordError, Tried, Saved
  <2> QED BY <1>0, <1>3, <2>1, InactiveOperators
<1>37. ASSUME FinishRun(g) PROVE Turns(g)
  <2>1. goal' = goal /\ Rests(g)
    BY <1>37, <1>1 DEF FinishRun, Rests
  <2> QED BY <1>0, <1>3, <2>1
<1> QED BY <1>4, <1>5, <1>6, <1>7, <1>8, <1>9, <1>10, <1>11, <1>12, <1>13, <1>14, <1>15, <1>16, <1>17, <1>18, <1>19, <1>20, <1>21, <1>22, <1>23, <1>24, <1>25, <1>26, <1>27, <1>28, <1>29, <1>30, <1>31, <1>32, <1>33, <1>34, <1>35, <1>36, <1>37 DEF RunnerStep

(* A change that neither renames a goal nor makes it active.                *)
Soft(g, h) == h.id = g.id /\ (h.status \in Active => g.status \in Active)

(* The changes that commands make to a goal but for requeueing it are soft. *)
LEMMA SoftOperators ==
    ASSUME NEW g \in AgentGoal
    PROVE  /\ Soft(g, g)
           /\ Soft(g, prepare_for_restart(g)) /\ prepare_for_restart(g).status \notin Active
           /\ Soft(g, [g EXCEPT !.steering = "waiting"])
           /\ Soft(g, [g EXCEPT !.status = "Pausing", !.why = "User"])
           /\ Soft(g, Cancelled(g)) /\ Soft(g, Blocked(g, "AmbiguousToolEffect"))
           /\ Soft(g, Switched(g))
           /\ Requeued(g).id = g.id /\ Requeued(Switched(g)).id = g.id
           /\ g.status \in Active => NeedsPrepare(g)
<1>1. Soft(g, prepare_for_restart(g)) /\ prepare_for_restart(g).status \notin Active
  BY InactiveOperators DEF Soft, prepare_for_restart, is_terminal, Terminal, Active
<1>2. /\ Soft(g, [g EXCEPT !.steering = "waiting"])
      /\ Soft(g, [g EXCEPT !.status = "Pausing", !.why = "User"])
  BY DEF Soft, AgentGoal, Active
<1>3. Soft(g, g) /\ Soft(g, Cancelled(g)) /\ Soft(g, Blocked(g, "AmbiguousToolEffect"))
  BY InactiveOperators DEF Soft
<1>4. Soft(g, Switched(g)) /\ Switched(g) \in AgentGoal /\ Switched(g).id = g.id
  BY DEF Soft, Switched, AgentGoal
<1>5. \A h \in AgentGoal : Requeued(h).id = h.id
  BY DEF Requeued, AgentGoal
<1>6. g.status \in Active => NeedsPrepare(g)
  BY DEF Active, NeedsPrepare, is_terminal, Terminal, Stopped
<1> QED BY <1>1, <1>2, <1>3, <1>4, <1>5, <1>6

(* Recovery stops a goal, or leaves its status.                             *)
LEMMA RecoveredSoft ==
    ASSUME NEW g \in AgentGoal, NEW r \in Recovery, NEW reads \in {FALSE, g.reads}
    PROVE  Soft(g, [Recovered(g, r) EXCEPT !.reads = reads])
BY DEF Soft, Recovered, Paused, Blocked, AgentGoal, Active

(* One step per action.                                                     *)
LEMMA CallerAttends ==
    ASSUME NothingFails, GoalInv, AttendInv, NEW c \in Callers, CallerStep(c)
    PROVE  AttendInv'
<1> USE DEF HasGoal, Is
<1> DEFINE p == caller[c].pc
           q == caller'[c].pc
           Kind == goal' \in {goal, None} \/ (goal # None /\ Soft(goal, goal'))
           Others == \A d \in Callers \ {c} : caller'[d] = caller[d]
<1>0. /\ goal # None => goal \in AgentGoal
      /\ disk # None => disk \in AgentGoal
      /\ caller \in [Callers -> Caller] /\ caller[c] \in Caller
      /\ runner \in [Goals -> Runner]
      /\ p # "idle" => caller[c].id \in Goals /\ caller[c].op \in Ops
      /\ goal # None => loaded
      /\ p \notin {"idle", "ensure", "load"} => loaded
      /\ ~CanFailSave /\ ~CanFailLoad /\ "extend" \notin Ops /\ p # "launch"
      /\ loaded \in BOOLEAN /\ initialized \in BOOLEAN
  BY DEF GoalInv, RuntimeInv, Types, RepositoryTypes, CallersNamed, LoadedFirst, NothingFails, NoExtension
<1>1. /\ UNCHANGED repository => goal' = goal /\ loaded' = loaded
      /\ CallerOnly => runner' = runner /\ initialized' = initialized
      /\ \A h : Saved(h) => goal' = h /\ loaded' = loaded
      /\ \A h : Unsaved(h) => goal' = h /\ loaded' = loaded
  BY DEF repository, CallerOnly, Saved, Unsaved
<1>2. {"idle", "load", "prepare", "body", "steer", "reconcile", "apply", "reread", "register",
       "requeue", "digest", "create", "launch", "cancel"} \subseteq CallerPC
  BY DEF CallerPC
<1>3. /\ Done(c) => q = "idle" /\ Others
      /\ \A x \in CallerPC : CallerGoto(c, x) => q = x /\ Others
  BY <1>0, CallerMovements DEF Moves
<1>4. AfterReconcile(c) => q \in {"reread", "idle"} /\ Others
  BY <1>2, <1>3 DEF AfterReconcile
<1>5. ASSUME Kind, runner' = runner, initialized' = initialized, loaded' = loaded, loaded, Others,
             Prepares(c) => goal' = None \/ goal'.status \notin Active
      PROVE  AttendInv'
  <2>1. Own' /\ Resting'
    BY <1>5 DEF AttendInv, Own, Resting, Rests, Soft
  <2>2. \A d \in Callers : Prepares(d) => Prepares(d)' \/ goal' = None \/ goal'.status \notin Active
    BY <1>5 DEF Prepares
  <2>3. Attended'
    BY <1>5, <2>2 DEF AttendInv, Attended, Preparing, Soft
  <2> QED BY <2>1, <2>3 DEF AttendInv
<1>6. ASSUME UNCHANGED repository, CallerOnly, p \notin {"idle", "ensure", "load", "prepare"}, Others
      PROVE  AttendInv'
  BY <1>0, <1>1, <1>5, <1>6 DEF Prepares
(* A command that holds the session starts a loop for the goal it named.    *)
<1>s. ASSUME p \in Holding, Others, goal'.id = caller[c].id, loaded' = loaded, LoopTop(caller[c].id),
             initialized' = initialized
      PROVE  AttendInv'
  <2> DEFINE i == caller[c].id
  <2>1. i \in Goals /\ loaded /\ \A g \in Goals : runner[g].pc = "idle"
    BY <1>0, <1>s DEF GoalInv, RuntimeInv, RunnerHolds, CallerHolds, Holding
  <2>2. runner'[i].pc = "top" /\ \A g \in Goals \ {i} : runner'[g].pc = "idle"
    <3>1. runner'[i].pc = "top"
      BY <1>0, <1>s, <2>1, Arrivals
    <3>2. \A g \in Goals \ {i} : runner'[g] = runner[g]
      BY <1>0, <1>s DEF LoopTop
    <3> QED BY <2>1, <3>1, <3>2
  <2>3. Own' /\ Resting'
    BY <1>s, <2>2 DEF Own, Resting, Rests
  <2>4. Attended'
    BY <1>s, <2>1, <2>2 DEF AttendInv, Attended
  <2> QED BY <2>3, <2>4 DEF AttendInv
<1>7. ASSUME EnsureMark(c) PROVE AttendInv'
  <2>1. goal' = goal /\ loaded' = loaded /\ runner' = runner /\ initialized' = TRUE
    BY <1>7, <1>1 DEF EnsureMark
  <2>2. Others /\ q = "load" /\ caller'[c].first = ~initialized /\ p = "ensure"
    BY <1>0, <1>7 DEF EnsureMark, Caller
  <2>3. \A d \in Callers : Prepares(d) => Prepares(d)'
    BY <2>2 DEF Prepares
  <2>4. ~initialized => Prepares(c)'
    BY <2>2 DEF Prepares
  <2> QED BY <2>1, <2>3, <2>4 DEF AttendInv, Own, Resting, Rests, Attended, Preparing
<1>8. ASSUME EnsureLoad(c) PROVE AttendInv'
  <2>1. /\ goal' = (IF loaded THEN goal ELSE disk) /\ loaded' = TRUE
        /\ IF caller[c].first /\ goal' # None /\ NeedsPrepare(goal')
           THEN CallerGoto(c, "prepare") ELSE Ensured(c)
        /\ runner' = runner /\ initialized' = initialized /\ p = "load"
    BY <1>0, <1>1, <1>8 DEF EnsureLoad
  <2>2. Others /\ (caller[c].first /\ goal' # None /\ NeedsPrepare(goal') => q = "prepare")
    BY <1>2, <1>3, <2>1 DEF Ensured
  <2>3. \A d \in Callers : Prepares(d) => Prepares(d)' \/ goal' = None \/ goal'.status \notin Active
    <3>1. goal' # None => goal' \in AgentGoal
      BY <1>0, <2>1
    <3>2. goal' # None /\ goal'.status \in Active => NeedsPrepare(goal')
      BY <3>1, SoftOperators
    <3>3. Prepares(c) => caller[c].first
      BY <2>1 DEF Prepares
    <3>4. \A d \in Callers \ {c} : Prepares(d) => Prepares(d)'
      BY <2>2 DEF Prepares
    <3>5. q = "prepare" => Prepares(c)'
      BY DEF Prepares
    <3> QED BY <2>2, <3>2, <3>3, <3>4, <3>5
  <2>4. ~loaded => \A g \in Goals : runner[g].pc = "idle"
    BY DEF GoalInv, LoadedFirst
  <2>5. Own' /\ Resting'
    BY <2>1, <2>4 DEF AttendInv, Own, Resting, Rests
  <2>6. initialized /\ (~loaded => Preparing)
    BY <2>1 DEF AttendInv, Attended
  <2>7. Preparing => Preparing' \/ goal' = None \/ goal'.status \notin Active
    BY <2>3 DEF Preparing
  <2>8. Attended'
    BY <2>1, <2>6, <2>7 DEF AttendInv, Attended
  <2> QED BY <2>5, <2>8 DEF AttendInv
<1>9. ASSUME EnsurePrepare(c) PROVE AttendInv'
  <2>1. goal' = None \/ (goal # None /\ goal' = prepare_for_restart(goal))
    BY <1>9, <1>0, <1>1 DEF EnsurePrepare
  <2>2. Kind /\ (goal' = None \/ goal'.status \notin Active)
    BY <1>0, <2>1, SoftOperators
  <2>3. loaded' = loaded /\ runner' = runner /\ initialized' = initialized /\ p = "prepare" /\ Others
    BY <1>9, <1>1, <1>2, <1>3 DEF EnsurePrepare, Ensured
  <2> QED BY <1>0, <1>5, <2>2, <2>3
<1>10. ASSUME Steer(c) PROVE AttendInv'
  <2>1. UNCHANGED repository /\ CallerOnly /\ p \notin {"idle", "ensure", "load", "prepare"}
    BY <1>10 DEF Steer
  <2>2. Others
    BY <1>10, <1>2, <1>3, <1>4 DEF Steer
  <2> QED BY <1>6, <2>1, <2>2
<1>11. ASSUME SteerApply(c) PROVE AttendInv'
  <2>1. Kind /\ loaded' = loaded
    BY <1>11, <1>0, <1>1, SoftOperators DEF SteerApply
  <2>2. runner' = runner /\ initialized' = initialized /\ p \notin {"idle", "ensure", "load", "prepare"} /\ Others
    BY <1>11, <1>1, <1>2, <1>3, <1>4 DEF SteerApply
  <2> QED BY <1>0, <1>5, <2>1, <2>2 DEF Prepares
<1>12. ASSUME Pause(c) PROVE AttendInv'
  <2>1. Kind /\ loaded' = loaded
    BY <1>12, <1>0, <1>1, SoftOperators DEF Pause, Named
  <2>2. runner' = runner /\ initialized' = initialized /\ p \notin {"idle", "ensure", "load", "prepare"} /\ Others
    BY <1>12, <1>1, <1>2, <1>3, <1>4 DEF Pause
  <2> QED BY <1>0, <1>5, <2>1, <2>2 DEF Prepares
<1>13. ASSUME Reset(c) PROVE AttendInv'
  <2>1. Kind /\ loaded' = loaded
    BY <1>13, <1>0, <1>1, SoftOperators DEF Reset
  <2>2. runner' = runner /\ initialized' = initialized /\ p \notin {"idle", "ensure", "load", "prepare"} /\ Others
    BY <1>13, <1>1, <1>2, <1>3, <1>4 DEF Reset
  <2> QED BY <1>0, <1>5, <2>1, <2>2 DEF Prepares
<1>14. ASSUME CancelGoal(c) PROVE AttendInv'
  <2>1. Kind /\ loaded' = loaded
    BY <1>14, <1>0, <1>1, SoftOperators DEF CancelGoal, Named
  <2>2. runner' = runner /\ initialized' = initialized /\ p \notin {"idle", "ensure", "load", "prepare"} /\ Others
    BY <1>14, <1>1, <1>2, <1>3, <1>4 DEF CancelGoal
  <2> QED BY <1>0, <1>5, <2>1, <2>2 DEF Prepares
<1>15. ASSUME CancelToken(c) PROVE AttendInv'
  <2>1. Kind /\ loaded' = loaded
    BY <1>15, <1>0, <1>1, SoftOperators DEF CancelToken
  <2>2. runner' = runner /\ initialized' = initialized /\ p \notin {"idle", "ensure", "load", "prepare"} /\ Others
    BY <1>15, <1>1, <1>2, <1>3, <1>4 DEF CancelToken
  <2> QED BY <1>0, <1>5, <2>1, <2>2 DEF Prepares
<1>16. ASSUME ResumeCheck(c) PROVE AttendInv'
  <2>1. UNCHANGED repository /\ CallerOnly /\ p \notin {"idle", "ensure", "load", "prepare"}
    BY <1>16 DEF ResumeCheck
  <2>2. Others
    BY <1>16, <1>2, <1>3, <1>4 DEF ResumeCheck
  <2> QED BY <1>6, <2>1, <2>2
<1>17. ASSUME Reconcile(c) PROVE AttendInv'
  <2>1. UNCHANGED repository /\ CallerOnly /\ p \notin {"idle", "ensure", "load", "prepare"}
    BY <1>17 DEF Reconcile
  <2>2. Others
    BY <1>17, <1>0, <1>2, <1>3, <1>4 DEF Reconcile
  <2> QED BY <1>6, <2>1, <2>2
<1>18. ASSUME ApplyRecovery(c) PROVE AttendInv'
  <2>1. PICK reads \in {FALSE, goal.reads} :
              \/ goal # None /\ Saved([Recovered(goal, caller[c].rec) EXCEPT !.reads = reads])
              \/ UNCHANGED repository
    BY <1>18 DEF ApplyRecovery
  <2>2. goal # None => Soft(goal, [Recovered(goal, caller[c].rec) EXCEPT !.reads = reads])
    BY <1>0, RecoveredSoft DEF Caller
  <2>3. Kind /\ loaded' = loaded
    BY <1>1, <2>1, <2>2
  <2>4. runner' = runner /\ initialized' = initialized /\ p = "apply" /\ Others
    BY <1>18, <1>1, <1>2, <1>3, <1>4 DEF ApplyRecovery
  <2> QED BY <1>0, <1>5, <2>3, <2>4 DEF Prepares
<1>19. ASSUME ResumeReread(c) PROVE AttendInv'
  <2>1. Kind /\ loaded' = loaded
    BY <1>19, <1>0, <1>1, SoftOperators DEF ResumeReread
  <2>2. runner' = runner /\ initialized' = initialized /\ p \notin {"idle", "ensure", "load", "prepare"} /\ Others
    BY <1>19, <1>1, <1>2, <1>3, <1>4 DEF ResumeReread
  <2> QED BY <1>0, <1>5, <2>1, <2>2 DEF Prepares
<1>20. ASSUME ResumeRegister(c) PROVE AttendInv'
  <2>1. Kind /\ loaded' = loaded
    BY <1>20, <1>0, <1>1, SoftOperators DEF ResumeRegister
  <2>2. runner' = runner /\ initialized' = initialized /\ p \notin {"idle", "ensure", "load", "prepare"} /\ Others
    BY <1>20, <1>1, <1>2, <1>3, <1>4 DEF ResumeRegister
  <2> QED BY <1>0, <1>5, <2>1, <2>2 DEF Prepares
<1>21. ASSUME ResumeRequeue(c) PROVE AttendInv'
  <2> DEFINE i == caller[c].id
  <2>1. Others /\ q = "idle" /\ p = "requeue" /\ initialized' = initialized
    BY <1>21, <1>3 DEF ResumeRequeue
  <2>2. \/ UNCHANGED <<repository, runner>>
        \/ /\ goal # None /\ goal.id = i /\ goal' \in {goal, Switched(goal)} /\ loaded' = loaded /\ runner' = runner
        \/ /\ goal # None /\ goal.id = i /\ goal' \in {Requeued(goal), Requeued(Switched(goal))}
           /\ loaded' = loaded /\ LoopTop(i)
    BY <1>21, <1>1 DEF ResumeRequeue, Requeueable, Named
  <2>3. CASE UNCHANGED <<repository, runner>> \/ (goal # None /\ goal' \in {goal, Switched(goal)}
                                                    /\ loaded' = loaded /\ runner' = runner)
    <3>1. Kind /\ loaded' = loaded /\ runner' = runner
      BY <1>0, <1>1, <2>3, SoftOperators
    <3> QED BY <1>0, <1>5, <2>1, <3>1 DEF Prepares
  <2>4. CASE goal # None /\ goal.id = i /\ goal' \in {Requeued(goal), Requeued(Switched(goal))}
               /\ loaded' = loaded /\ LoopTop(i)
    <3>1. goal'.id = i
      BY <1>0, <2>4, SoftOperators
    <3> QED BY <1>s, <2>1, <2>4, <3>1 DEF Holding
  <2> QED BY <2>2, <2>3, <2>4
<1>22. ASSUME Extend(c) PROVE AttendInv'
  <2> QED BY <1>22, <1>0 DEF Extend
<1>23. ASSUME ExtendLaunch(c) PROVE AttendInv'
  <2> QED BY <1>23, <1>0 DEF ExtendLaunch
<1>24. ASSUME CreateRegister(c) PROVE AttendInv'
  <2>1. Kind /\ loaded' = loaded
    BY <1>24, <1>0, <1>1, SoftOperators DEF CreateRegister
  <2>2. runner' = runner /\ initialized' = initialized /\ p \notin {"idle", "ensure", "load", "prepare"} /\ Others
    BY <1>24, <1>1, <1>2, <1>3, <1>4 DEF CreateRegister
  <2> QED BY <1>0, <1>5, <2>1, <2>2 DEF Prepares
<1>25. ASSUME CreateDigest(c) PROVE AttendInv'
  <2>1. UNCHANGED repository /\ CallerOnly /\ p \notin {"idle", "ensure", "load", "prepare"}
    BY <1>25 DEF CreateDigest
  <2>2. Others
    BY <1>25, <1>2, <1>3, <1>4 DEF CreateDigest
  <2> QED BY <1>6, <2>1, <2>2
<1>26. ASSUME CreateGoal(c) PROVE AttendInv'
  <2> DEFINE i == caller[c].id
  <2>1. Others /\ q = "idle" /\ p = "create" /\ initialized' = initialized
    BY <1>26, <1>3 DEF CreateGoal
  <2>2. \/ goal' = NewGoal(i) /\ loaded' = loaded /\ LoopTop(i)
        \/ goal' \in {goal, None} /\ loaded' = loaded /\ runner' = runner
    BY <1>26, <1>1 DEF CreateGoal
  <2>3. CASE goal' = NewGoal(i) /\ loaded' = loaded /\ LoopTop(i)
    <3>1. goal'.id = i
      BY <2>3 DEF NewGoal
    <3> QED BY <1>s, <2>1, <2>3, <3>1 DEF Holding
  <2>4. CASE goal' \in {goal, None} /\ loaded' = loaded /\ runner' = runner
    BY <1>0, <1>5, <2>1, <2>4 DEF Prepares
  <2> QED BY <2>2, <2>3, <2>4
<1> QED BY <1>7, <1>8, <1>9, <1>10, <1>11, <1>12, <1>13, <1>14, <1>15, <1>16, <1>17, <1>18, <1>19, <1>20, <1>21, <1>22, <1>23, <1>24, <1>25, <1>26 DEF CallerStep

(* Every step leaves an active goal attended.                               *)
LEMMA AttendKeeps == NothingFails /\ GoalInv /\ AttendInv /\ [Next]_vars => AttendInv'
<1> SUFFICES ASSUME NothingFails, GoalInv, AttendInv, [Next]_vars PROVE AttendInv'
  OBVIOUS
<1>1. ASSUME NEW g \in Goals, RunnerStep(g) PROVE AttendInv'
  <2>1. Types /\ Own /\ Resting /\ Attended /\ LoadedFirst /\ RunnerHolds
    BY DEF GoalInv, RuntimeInv, AttendInv
  <2>2. Turns(g)
    BY <1>1, <2>1, RunnerTurns
  <2>3. /\ runner[g].pc # "idle" /\ loaded' = loaded /\ caller' = caller /\ initialized' = initialized
        /\ \A h \in Goals \ {g} : runner'[h] = runner[h]
    BY <1>1, <2>1, RunnerWorks DEF Types, Works, Alive, Persisted, FinishRun, At, repository
  <2>4. \A h \in Goals \ {g} : runner'[h].pc = "idle"
    BY <2>1, <2>3 DEF RunnerHolds
  <2>5. goal' # None => goal'.id = g
    BY <2>1, <2>2, <2>3 DEF Turns, Own, HasGoal
  <2>6. Own' /\ Resting'
    <3>1. Own'
      BY <2>4, <2>5 DEF Own, HasGoal
    <3>2. \A h \in Goals \ {g} : ~Rests(h)'
      BY <2>4 DEF Rests
    <3>3. HasGoal' /\ Rests(g)' => goal'.status \notin Active
      BY <2>2 DEF Turns, HasGoal
    <3>4. Resting'
      BY <3>2, <3>3 DEF Resting
    <3> QED BY <3>1, <3>4
  <2>7. goal' # None /\ runner'[g].pc = "idle" => goal'.status \notin Active
    <3>1. runner'[g].pc = "idle" => FinishRun(g)
      BY <1>1, <2>1, RunnerWorks DEF Works, Alive, LiveRunner
    <3>2. FinishRun(g) => goal' = goal /\ Rests(g)
      BY DEF FinishRun, repository, At, Rests
    <3> QED BY <2>1, <3>1, <3>2 DEF Resting, HasGoal
  <2>8. goal' # None /\ runner'[g].pc = "finish" => goal'.status \notin Active
    BY <2>2 DEF Turns, Rests
  <2>9. Preparing' <=> Preparing
    BY <2>3 DEF Preparing, Prepares
  <2>10. Attended'
    BY <2>1, <2>3, <2>5, <2>7, <2>8, <2>9 DEF Attended, HasGoal
  <2> QED BY <2>6, <2>10 DEF AttendInv
<1>2. ASSUME NEW c \in Callers, CallerStep(c) PROVE AttendInv'
  BY <1>2, CallerAttends
<1>3. ASSUME UNCHANGED <<goal, loaded, initialized, runner, caller>> PROVE AttendInv'
  BY <1>3 DEF AttendInv, Own, Resting, Rests, Attended, HasGoal, Preparing, Prepares
<1>4. CASE \E e \in Execs : WriteSettles(e)
  BY <1>3, <1>4 DEF WriteSettles, RunnerOnly, repository
<1>5. CASE \E c \in Callers, op \in Ops, g \in Goals : Invoke(c, op, g)
  <2>1. PICK c \in Callers, op \in Ops, g \in Goals : Invoke(c, op, g)
    BY <1>5
  <2>2. caller \in [Callers -> Caller]
    BY DEF GoalInv, RuntimeInv, Types
  <2>3. [IdleCaller EXCEPT !.op = op, !.id = g, !.pc = "ensure"].pc = "ensure"
    BY DEF IdleCaller
  <2>4. /\ caller[c].pc = "idle" /\ caller'[c].pc = "ensure"
        /\ \A d \in Callers \ {c} : caller'[d] = caller[d]
    BY <2>1, <2>2, <2>3 DEF Invoke
  <2>5. \A d \in Callers : Prepares(d) => Prepares(d)'
    BY <2>4 DEF Prepares
  <2>6. UNCHANGED <<goal, loaded, initialized, runner>>
    BY <2>1 DEF Invoke, repository
  <2> QED BY <2>4, <2>5, <2>6 DEF AttendInv, Own, Resting, Rests, Attended, HasGoal, Preparing
<1>6. CASE Tick
  BY <1>3, <1>6 DEF Tick, repository
<1>7. CASE Crash
  <2>1. /\ goal' = None /\ loaded' = FALSE /\ initialized' = FALSE
        /\ \A g \in Goals : runner'[g].pc = "idle"
        /\ \A c \in Callers : caller'[c].pc = "idle"
    BY <1>7, IdleRunnerType, IdleCallerType DEF Crash
  <2> QED BY <2>1 DEF AttendInv, Own, Resting, Attended, HasGoal
<1>8. CASE UNCHANGED vars
  BY <1>3, <1>8 DEF vars, repository
<1> QED BY <1>1, <1>2, <1>4, <1>5, <1>6, <1>7, <1>8 DEF Next

(* A goal that says it is queued, running or waiting for approval is worked *)
(* on or about to be, as long as loads and saves succeed and no budget is   *)
(* extended: whatever commands race, and wherever the process stops and is  *)
(* started again, the first visit of AgentRunManager::ensure finds a goal   *)
(* that was running, and run_goal leaves none behind that still is.         *)
THEOREM NoOrphanWithoutFailure ==
    ASSUME NothingFails
    PROVE  Spec => []NoOrphan
<1>1. Init => AttendInv
  <2> SUFFICES ASSUME Init PROVE AttendInv
    OBVIOUS
  <2>1. /\ \A g \in Goals : runner[g].pc = "idle"
        /\ \A c \in Callers : caller[c].pc = "idle"
        /\ goal = None /\ loaded = FALSE /\ initialized = FALSE
    BY IdleRunnerType, IdleCallerType DEF Init
  <2> QED BY <2>1 DEF AttendInv, Own, Resting, Attended, HasGoal
<1>2. GoalInv /\ AttendInv /\ [Next]_vars => AttendInv'
  BY AttendKeeps
<1>3. GoalInv /\ AttendInv => NoOrphan
  <2> SUFFICES ASSUME GoalInv, AttendInv, HasGoal, goal.status \in Active
               PROVE  \/ \E h \in Holders : h[2] = goal.id
                      \/ \E c \in Callers : /\ caller[c].pc \in {"load", "prepare", "launch"}
                                            /\ caller[c].pc = "load" => caller[c].first
    BY DEF NoOrphan, Active
  <2>1. CASE Preparing
    BY <2>1 DEF Preparing, Prepares
  <2>2. CASE goal.id \in Goals /\ runner[goal.id].pc # "idle"
    <3>1. <<goal.id, goal.id>> \in Holders
      BY <2>2 DEF Holders
    <3> QED BY <3>1
  <2> QED BY <2>1, <2>2 DEF AttendInv, Attended
<1> QED BY <1>1, <1>2, <1>3, GoalInvariant, PTL DEF Spec

----------------------------------------------------------------------------
(* Every write that reached its file is on record.                          *)

(* One command at a time, none of which cancels, and no write that outlives *)
(* the slice that waits for it: each of the three lets an intent go while   *)
(* its write may still land.                                                *)
Waited == OneCommand /\ ~CanStall /\ "cancel" \notin Ops

(* No token is ever set.                                                    *)
NeverCancelled ==
    /\ RegistryFacts!NoneIn(pending, Goals)
    /\ \A g \in Goals : ~cancelled[g] /\ (runner[g].pc = "failed" => runner[g].err # "Cancelled")
    /\ \A c \in Callers : caller[c].pc # "cancel"

Kept(g) == g.writes \cup g.receipts
Books(g, h) == h.writes = g.writes /\ h.receipts = g.receipts

(* The goal in memory and the one on disk agree on their writes and account *)
(* for those that have landed and those that may.  A goal that is over has  *)
(* none pending.                                                            *)
OnRecord ==
    /\ disk # None /\ is_terminal(disk) => disk.writes = {}
    /\ ~loaded => inflight = {} /\ applied \subseteq (IF disk = None THEN {} ELSE Kept(disk))
    /\ loaded /\ ~HasGoal => inflight = {} /\ applied = {}
    /\ HasGoal => /\ disk # None /\ Books(goal, disk) /\ disk.status = goal.status
                  /\ applied \subseteq Kept(goal)
                  /\ inflight \subseteq goal.writes /\ inflight \cap applied = {}

(* A write is under way only while its runner waits for it.                 *)
Awaited == \A e \in inflight : \E g \in Goals : runner[g].pc = "writing" /\ runner[g].exec = e

(* While the goal waits for a recovery nobody works on it, and the          *)
(* classification a recovery applies knows every write that landed.         *)
QuietPlaces == {"idle", "top", "failed", "finish"}
Quiet == HasGoal /\ Mode(goal) # "none" => \A g \in Goals : runner[g].pc \in QuietPlaces
Applying ==
    \A c \in Callers : caller[c].pc = "apply" =>
        /\ HasGoal /\ Mode(goal) # "none"
        /\ caller[c].rec.resolved \cap applied \subseteq caller[c].rec.recovered

(* Nobody works on a goal that the first visit has not looked at.           *)
Visiting == ~initialized \/ (\E c \in Callers : Prepares(c))
FirstVisit ==
    /\ Visiting => \A g \in Goals : runner[g].pc = "idle"
    /\ ~initialized => \A c \in Callers : caller[c].pc \in {"idle", "ensure"}

EffectInv == NeverCancelled /\ OnRecord /\ Awaited /\ Quiet /\ Applying /\ FirstVisit

(* Changes that leave the writes alone, do not ask for a recovery and do    *)
(* not end the goal with writes pending.                                    *)
Tidy(g, h) == Books(g, h) /\ (is_terminal(h) => is_terminal(g) \/ h.writes = {})
Plain(g, h) == h \in AgentGoal /\ Tidy(g, h) /\ (Mode(g) = "none" => Mode(h) = "none")

Landed(g, h) ==
    /\ h.status = g.status
    /\ \E e \in applied : h.writes = g.writes \ {e} /\ h.receipts = g.receipts \cup {e}

Begun(i, g, h) ==
    /\ ~is_terminal(h)
    /\ \E e \in Execs \ spent :
          /\ h.writes = g.writes \cup {e} /\ h.receipts = g.receipts
          /\ inflight' = inflight \cup {e}
          /\ runner'[i].pc = "writing" /\ runner'[i].exec = e

(* What a step of a runner does to the writes.                              *)
Fine(g) == runner'[g].pc = "failed" => runner'[g].err # "Cancelled"
Acts(g) ==
    /\ Fine(g)
    /\ UNCHANGED applied
    /\ \/ UNCHANGED <<goal, disk, inflight>>
       \/ /\ goal # None /\ goal' # None
          /\ disk' = goal' \/ (disk' = disk /\ goal'.status = goal.status)
          /\ \/ Tidy(goal, goal') /\ UNCHANGED inflight
             \/ Landed(goal, goal') /\ UNCHANGED inflight /\ disk' = goal'
             \/ Begun(g, goal, goal') /\ disk' = goal'
    /\ goal' # None /\ Mode(goal') # "none" => runner'[g].pc \in QuietPlaces
    /\ goal # None /\ Mode(goal) # "none" => goal' # None /\ Mode(goal') # "none"

(* A registry without cancellations never makes one.                        *)
LEMMA RegistryUncancelled ==
    ASSUME Admission, RegistryFacts!NoneIn(pending, Goals), \A g \in Goals : ~cancelled[g], NEW i \in Goals
    PROVE  Registry!Registered(i, Session) \/ Registry!RegisterRefused(i, Session) \/ Registry!Finish(i)
             \/ Registry!Tick
           => RegistryFacts!NoneIn(pending, Goals)' /\ \A g \in Goals : ~cancelled'[g]
<1> DEFINE q(lag) == RegistryFacts!prune_pending(pending, lag)
<1>0. RegistryFacts!RegistryAssumption
  BY RuntimeAssumption DEF RegistryFacts!RegistryAssumption
<1>1. RegistryFacts!QueueOK(pending) /\ cancelled \in [Goals -> BOOLEAN]
  <2>1. RegistryFacts!TypeOK /\ RegistryFacts!PendingSound
    BY DEF Admission, RegistryFacts!Inv
  <2>2. RegistryFacts!QueueOK(pending)
    BY <1>0, <2>1, RegistryFacts!InvQueue DEF RegistryFacts!QueueInv
  <2> QED BY <2>1, <2>2 DEF RegistryFacts!TypeOK
<1>2. \A lag : RegistryFacts!NoneIn(q(lag), Goals)
  BY <1>0, <1>1, RegistryFacts!PruneKeeps
<1>3. \A lag : q(lag) = Registry!prune_pending(pending, lag)
  BY SamePrune
<1> HIDE DEF q
<1>4. ASSUME Registry!Registered(i, Session)
      PROVE  RegistryFacts!NoneIn(pending, Goals)' /\ \A g \in Goals : ~cancelled'[g]
  <2>0. PICK lag \in Registry!Lags : Registry!RegisteredAt(i, Session, lag)
    BY <1>4 DEF Registry!Registered
  <2>1. ~Registry!IsPending(q(lag), i)
    BY <1>2 DEF RegistryFacts!NoneIn, Registry!IsPending, RegistryFacts!IsPending
  <2>2. pending' = q(lag) /\ cancelled' = [cancelled EXCEPT ![i] = FALSE]
    <3>1. /\ cancelled' = [cancelled EXCEPT ![i] = Registry!IsPending(q(lag), i)]
          /\ pending' = IF Registry!IsPending(q(lag), i) THEN Registry!RemoveEntry(q(lag), i) ELSE q(lag)
      BY <1>3, <2>0 DEF Registry!RegisteredAt
    <3>2. Registry!IsPending(q(lag), i) = FALSE
      BY <2>1 DEF Registry!IsPending
    <3> QED BY <3>1, <3>2
  <2> QED BY <1>1, <1>2, <2>2 DEF RegistryFacts!NoneIn, RegistryFacts!IsPending
<1>5. ASSUME Registry!RegisterRefused(i, Session)
      PROVE  RegistryFacts!NoneIn(pending, Goals)' /\ \A g \in Goals : ~cancelled'[g]
  <2>1. cancelled' = cancelled /\ \E lag : pending' = q(lag)
    BY <1>3, <1>5 DEF Registry!RegisterRefused
  <2> QED BY <1>2, <2>1 DEF RegistryFacts!NoneIn, RegistryFacts!IsPending
<1>6. ASSUME Registry!Finish(i)
      PROVE  RegistryFacts!NoneIn(pending, Goals)' /\ \A g \in Goals : ~cancelled'[g]
  BY <1>1, <1>6 DEF Registry!Finish, RegistryFacts!NoneIn, RegistryFacts!IsPending
<1>7. ASSUME Registry!Tick
      PROVE  RegistryFacts!NoneIn(pending, Goals)' /\ \A g \in Goals : ~cancelled'[g]
  <2>1. /\ Len(pending) \in Nat /\ \A j \in 1..Len(pending) : pending[j] \in RegistryFacts!Entry
        /\ pending' = [j \in 1..Len(pending) |->
                         [pending[j] EXCEPT !.age = IF @ = Registry!MAX_AGE THEN @ ELSE @ + 1]]
    BY <1>1, <1>7 DEF Registry!Tick, RegistryFacts!QueueOK
  <2>2. Len(pending') = Len(pending)
    BY <2>1
  <2>3. \A j \in 1..Len(pending) : pending'[j].run = pending[j].run
    BY <2>1 DEF RegistryFacts!Entry
  <2> QED BY <1>7, <2>2, <2>3 DEF Registry!Tick, RegistryFacts!NoneIn, RegistryFacts!IsPending
<1> QED BY <1>4, <1>5, <1>6, <1>7

(* The changes a runner makes between two effects are plain.                *)
LEMMA PlainOperators ==
    ASSUME NEW g \in AgentGoal
    PROVE  /\ Plain(g, g)
           /\ \A why \in Why : /\ Paused(g, why) \in AgentGoal /\ Tidy(g, Paused(g, why))
                               /\ why # "AppRestarted" => Plain(g, Paused(g, why))
           /\ \A why \in Why : /\ Blocked(g, why) \in AgentGoal /\ Tidy(g, Blocked(g, why))
                               /\ why # "AmbiguousToolEffect" => Plain(g, Blocked(g, why))
           /\ Plain(g, inject_steering(g)) /\ Plain(g, AfterApproval(g))
           /\ Plain(g, [g EXCEPT !.status = "Running", !.why = "none"])
           /\ Plain(g, [g EXCEPT !.status = "AwaitingApproval"])
           /\ \A x \in BOOLEAN : Plain(g, [g EXCEPT !.over = x]) /\ Plain(g, [g EXCEPT !.used = x])
           /\ \A x \in BOOLEAN : Plain(g, [g EXCEPT !.reads = x])
           /\ \A x \in Candidate : Plain(g, [g EXCEPT !.cand = x])
           /\ \A x \in 0..3 : Plain(g, [g EXCEPT !.feedback = x])
           /\ g.writes = {} => Plain(g, Committed(g))
<1> USE DEF Plain, Tidy, Books, Mode, is_terminal, Terminal
<1>1. \A why \in Why : /\ Paused(g, why) \in AgentGoal /\ Tidy(g, Paused(g, why))
                       /\ why # "AppRestarted" => Plain(g, Paused(g, why))
  <2>1. \A why \in Why : Paused(g, why) \in AgentGoal
    BY GoalOperators
  <2> QED BY <2>1 DEF Paused, AgentGoal
<1>2. \A why \in Why : /\ Blocked(g, why) \in AgentGoal /\ Tidy(g, Blocked(g, why))
                       /\ why # "AmbiguousToolEffect" => Plain(g, Blocked(g, why))
  <2>1. \A why \in Why : Blocked(g, why) \in AgentGoal
    BY GoalOperators
  <2> QED BY <2>1 DEF Blocked, AgentGoal
<1>3. Plain(g, g) /\ Plain(g, inject_steering(g)) /\ Plain(g, AfterApproval(g))
  BY DEF inject_steering, AfterApproval, AgentGoal, Status
<1>4. /\ Plain(g, [g EXCEPT !.status = "Running", !.why = "none"])
      /\ Plain(g, [g EXCEPT !.status = "AwaitingApproval"])
  BY DEF AgentGoal, Status
<1>5. \A x \in BOOLEAN : Plain(g, [g EXCEPT !.over = x]) /\ Plain(g, [g EXCEPT !.used = x])
  BY DEF AgentGoal
<1>6. /\ \A x \in BOOLEAN : Plain(g, [g EXCEPT !.reads = x])
      /\ \A x \in Candidate : Plain(g, [g EXCEPT !.cand = x])
  BY DEF AgentGoal
<1>7. \A x \in 0..3 : Plain(g, [g EXCEPT !.feedback = x])
  BY DEF AgentGoal
<1>8. g.writes = {} => Plain(g, Committed(g))
  <2>1. Committed(g) \in AgentGoal
    BY GoalOperators
  <2> QED BY <2>1 DEF Committed, clear_active_working_data, AgentGoal
<1> QED BY <1>1, <1>2, <1>3, <1>4, <1>5, <1>6, <1>7, <1>8

LEMMA PlainTransitive ==
    ASSUME NEW g, NEW h, NEW k, Plain(g, h), Plain(h, k) PROVE Plain(g, k)
BY DEF Plain, Tidy, Books

(* A charged checkpoint is plain.                                           *)
LEMMA ChargedPlain ==
    ASSUME NEW g \in AgentGoal, NEW b, NEW exceeded \in BOOLEAN, NEW kept \in Compacted(Appended(g, b), b)
    PROVE  Plain(g, AfterCharge(AfterBoundary([Charged(kept, exceeded) EXCEPT !.used = TRUE], b), exceeded))
<1> DEFINE charged == Charged(kept, exceeded)
           used == [charged EXCEPT !.used = TRUE]
           bound == AfterBoundary(used, b)
           appended == Appended(g, b)
<1>0. \A h, k : Plain(h, k) => k \in AgentGoal
  BY DEF Plain
<1>1. Plain(g, appended)
  <2>1. g.feedback \in 0..3 /\ (g.feedback \in {1, 2} => g.feedback + 1 \in 0..3)
    BY GoalFields
  <2>2. appended = g \/ \E y \in 0..3 : appended = [g EXCEPT !.feedback = y]
    BY <2>1 DEF Appended
  <2> HIDE DEF appended
  <2>3. CASE appended = g
    BY <2>3, PlainOperators
  <2>4. ASSUME NEW y \in 0..3, appended = [g EXCEPT !.feedback = y] PROVE Plain(g, appended)
    BY <2>4, PlainOperators
  <2> QED BY <2>2, <2>3, <2>4
<1>2. Plain(appended, kept)
  <2> HIDE DEF appended
  <2>1. kept = appended \/ \E y \in 0..3 : kept = [appended EXCEPT !.feedback = y]
    BY DEF Compacted, appended
  <2>2. CASE kept = appended
    BY <1>0, <1>1, <2>2, PlainOperators
  <2>3. ASSUME NEW y \in 0..3, kept = [appended EXCEPT !.feedback = y] PROVE Plain(appended, kept)
    BY <1>0, <1>1, <2>3, PlainOperators
  <2> QED BY <2>1, <2>2, <2>3
<1> HIDE DEF appended
<1>3. Plain(kept, charged)
  BY <1>0, <1>2, PlainOperators DEF Charged
<1> HIDE DEF charged
<1>4. Plain(charged, used)
  BY <1>0, <1>3, PlainOperators
<1> HIDE DEF used
<1>5. Plain(used, bound)
  BY <1>0, <1>4, PlainOperators DEF AfterBoundary, Why, PauseReason, BlockReason
<1> HIDE DEF bound
<1>6. Plain(bound, AfterCharge(bound, exceeded))
  BY <1>0, <1>5, PlainOperators DEF AfterCharge, Why, PauseReason
<1>7. Plain(g, kept)
  BY <1>1, <1>2, PlainTransitive
<1>8. Plain(g, charged)
  BY <1>3, <1>7, PlainTransitive
<1>9. Plain(g, used)
  BY <1>4, <1>8, PlainTransitive
<1>10. Plain(g, bound)
  BY <1>5, <1>9, PlainTransitive
<1>11. Plain(g, AfterCharge(bound, exceeded))
  BY <1>6, <1>10, PlainTransitive
<1> QED BY <1>11 DEF bound, used, charged

(* Beginning a write and recording its receipt leave the rest of a goal.    *)
LEMMA IntentOperator ==
    ASSUME NEW g \in AgentGoal, NEW e \in Execs, NEW h, h = [g EXCEPT !.writes = @ \cup {e}]
    PROVE  /\ h \in AgentGoal /\ h.status = g.status /\ Mode(h) = Mode(g)
           /\ h.writes = g.writes \cup {e} /\ h.receipts = g.receipts
<1>1. g.writes \cup {e} \in SUBSET Execs
  BY GoalFields
<1>2. h \in AgentGoal
  BY <1>1, GoalWith
<1>3. /\ h.status = g.status /\ h.why = g.why
      /\ h.writes = g.writes \cup {e} /\ h.receipts = g.receipts
  BY DEF AgentGoal
<1> QED BY <1>2, <1>3 DEF Mode

LEMMA ReceiptOperator ==
    ASSUME NEW g \in AgentGoal, NEW e \in Execs, NEW h,
           h = [g EXCEPT !.writes = @ \ {e}, !.receipts = @ \cup {e}]
    PROVE  /\ h \in AgentGoal /\ h.status = g.status /\ Mode(h) = Mode(g)
           /\ h.writes = g.writes \ {e} /\ h.receipts = g.receipts \cup {e}
<1>1. g.writes \ {e} \in SUBSET Execs /\ g.receipts \cup {e} \in SUBSET Execs
  BY GoalFields
<1>2. h \in AgentGoal
  <2>1. [g EXCEPT !.writes = @ \ {e}] \in AgentGoal
    BY <1>1, GoalWith
  <2>2. [g EXCEPT !.writes = @ \ {e}].receipts = g.receipts
    BY DEF AgentGoal
  <2>3. h = [[g EXCEPT !.writes = @ \ {e}] EXCEPT !.receipts = g.receipts \cup {e}]
    BY <2>2
  <2> QED BY <1>1, <2>1, <2>3, GoalWith
<1>3. /\ h.status = g.status /\ h.why = g.why
      /\ h.writes = g.writes \ {e} /\ h.receipts = g.receipts \cup {e}
  BY DEF AgentGoal
<1> QED BY <1>2, <1>3 DEF Mode

(* A candidate that is charged, and a verdict that is spent, are plain.     *)
LEMMA CandidatePlain ==
    ASSUME NEW g \in AgentGoal, NEW exceeded \in BOOLEAN, NEW h,
           h = [Charged(g, exceeded) EXCEPT
                  !.cand = "unverified",
                  !.status = IF g.status = "Pausing" THEN "Paused" ELSE @,
                  !.why = IF g.status = "Pausing" THEN "User" ELSE @]
    PROVE  Plain(g, h)
<1>0. /\ "unverified" \in Candidate /\ "Paused" \in Status /\ "User" \in PauseReason
  BY DEF Candidate, Status, PauseReason
<1>1. h \in AgentGoal
  <2>1. CASE g.status = "Pausing"
    BY <1>0, <2>1 DEF AgentGoal, Charged
  <2>2. CASE g.status # "Pausing"
    <3>1. h = [g EXCEPT !.over = exceeded, !.cand = "unverified"]
      BY <2>2 DEF AgentGoal, Charged
    <3> QED BY <1>0, <3>1 DEF AgentGoal
  <2> QED BY <2>1, <2>2
<1>2. /\ h.writes = g.writes /\ h.receipts = g.receipts
      /\ h.status = (IF g.status = "Pausing" THEN "Paused" ELSE g.status)
      /\ h.why = (IF g.status = "Pausing" THEN "User" ELSE g.why)
  BY DEF AgentGoal, Charged
<1> QED BY <1>1, <1>2 DEF Plain, Tidy, Books, Mode, is_terminal, Terminal

LEMMA VerdictPlain ==
    ASSUME NEW g \in AgentGoal, NEW h,
           h = [Blocked(g, "Other") EXCEPT !.cand = IF @ = "continue" THEN "blocked" ELSE @]
    PROVE  Plain(g, h)
<1>1. h \in AgentGoal
  BY DEF AgentGoal, Blocked, Candidate, Status, BlockReason
<1>2. h.writes = g.writes /\ h.receipts = g.receipts /\ h.status = "Blocked" /\ h.why = "Other"
  BY DEF AgentGoal, Blocked
<1> QED BY <1>1, <1>2 DEF Plain, Tidy, Books, Mode, is_terminal, Terminal

(* One step per action.                                                     *)
LEMMA RunnerActs ==
    ASSUME Types, NEW g \in Goals, ClearHere(g), NeverCancelled, Quiet, RunnerStep(g)
    PROVE  FinishRun(g) \/ Acts(g)
<1> USE DEF At, HasGoal
<1> DEFINE p == runner[g].pc
           q == runner'[g].pc
           Files == UNCHANGED <<inflight, applied>>
           Same == goal' = goal /\ disk' = disk
           Becomes(h) == goal # None /\ goal' = h /\ disk' = h
<1>r. runner \in [Goals -> Runner]
  BY DEF Types
<1>0. /\ goal # None => goal \in AgentGoal
      /\ runner[g] \in Runner /\ ~cancelled[g]
      /\ Fine(g) <=> (q = "failed" => runner'[g].err # "Cancelled")
  BY <1>r DEF Types, RepositoryTypes, NeverCancelled, Fine
<1>1. /\ UNCHANGED repository => Same
      /\ SaveFails => Same
      /\ \A h : Saved(h) => goal' = h /\ disk' = h
      /\ \A h : Unsaved(h) => goal' = h /\ disk' = disk
      /\ UNCHANGED files => Files
  BY DEF repository, files, Saved, Unsaved, SaveFails
<1>2. /\ Fail(g, "Other") \/ Fail(g, "ProviderUnavailable") => Fine(g)
      /\ \A x : Goto(g, x) /\ x # "failed" => Fine(g)
      /\ Return(g) \/ LoopTop(g) => Fine(g)
      /\ \A x : q = x /\ x # "failed" => Fine(g)
  <2>1. \A err : Fail(g, err) => runner'[g].err = err
    BY <1>r DEF Fail, Runner, IdleRunner
  <2> QED BY <1>r, <2>1, Arrivals DEF Fine
<1>3. p \notin QuietPlaces /\ goal # None => Mode(goal) = "none"
  BY DEF Quiet
<1>4. ASSUME Same, Files, p \notin QuietPlaces, Fine(g) PROVE Acts(g)
  BY <1>3, <1>4 DEF Acts
<1>5. ASSUME NEW h, Becomes(h), Files, p \notin QuietPlaces, Fine(g), Plain(goal, h) PROVE Acts(g)
  BY <1>3, <1>5, NoneIsNoGoal DEF Acts, Plain
<1>6. ASSUME NEW h \in AgentGoal, Becomes(h), Files, p \notin QuietPlaces, q = "finish", Tidy(goal, h)
      PROVE  Acts(g)
  BY <1>3, <1>6, NoneIsNoGoal DEF Acts, Fine, QuietPlaces
<1>7. ASSUME LoopHead(g) PROVE Acts(g)
  <2> DEFINE on == [runner EXCEPT ![g].pc = IF HasPending(goal) THEN "ambiguous" ELSE "digest",
                                  ![g].effects = goal.receipts # {}]
  <2>1. runner' = on => q \in {"ambiguous", "digest"}
    BY <1>0, <1>r DEF Runner
  <2>2. Same /\ Files
    BY <1>7, <1>1 DEF LoopHead
  <2>3. IF goal = None THEN Fail(g, "Other")
        ELSE IF goal.id # g \/ is_terminal(goal) \/ Stopped(goal) THEN Return(g)
        ELSE runner' = on
    BY <1>7, <1>0 DEF LoopHead
  <2> HIDE DEF on
  <2>4. Fine(g)
    BY <1>2, <2>1, <2>3
  <2>5. goal # None /\ Mode(goal) # "none" => Return(g)
    BY <2>3 DEF Mode, Stopped
  <2>6. Return(g) => q \in QuietPlaces
    BY <1>r, Arrivals DEF QuietPlaces
  <2> QED BY <2>2, <2>4, <2>5, <2>6 DEF Acts
<1>8. ASSUME BlockAmbiguous(g) PROVE Acts(g)
  <2> DEFINE new == Blocked(goal, "AmbiguousToolEffect")
  <2>1. \/ Same /\ Fail(g, "Other")
        \/ Becomes(new) /\ Return(g)
    BY <1>8, <1>1 DEF BlockAmbiguous, Mutate
  <2>2. Files /\ p \notin QuietPlaces
    BY <1>8, <1>1 DEF BlockAmbiguous, QuietPlaces
  <2>3. "AmbiguousToolEffect" \in Why
    BY DEF Why, BlockReason
  <2>4. goal # None => new \in AgentGoal /\ Tidy(goal, new)
    BY <1>0, <2>3, PlainOperators
  <2> HIDE DEF new
  <2>5. Return(g) => q = "finish"
    BY <1>r, Arrivals
  <2> QED BY <1>2, <1>4, <1>6, <2>1, <2>2, <2>4, <2>5
<1>9. ASSUME WorkspaceDigest(g) PROVE Acts(g)
  <2>1. Same /\ Files /\ p \notin QuietPlaces
    BY <1>9, <1>1 DEF WorkspaceDigest, QuietPlaces
  <2>2. Fail(g, "Other") \/ Fail(g, "ProviderUnavailable") \/ q \in {"conflict", "refresh", "start"} 
    BY <1>9, <1>r DEF WorkspaceDigest, Goto, Fail, Return, LoopTop, Runner, IdleRunner
  <2>3. Fine(g)
    BY <1>2, <2>2
  <2> QED BY <1>4, <2>1, <2>3
<1>10. ASSUME BlockConflict(g) PROVE Acts(g)
  <2> DEFINE new == Blocked(goal, "WorkspaceConflict")
  <2>1. \/ Same /\ Fail(g, "Other")
        \/ Becomes(new) /\ Return(g)
    BY <1>10 DEF BlockConflict, Mutate, Saved, SaveFails, repository
  <2>2. Files /\ p \notin QuietPlaces
    BY <1>10, <1>1 DEF BlockConflict, QuietPlaces
  <2>3. "WorkspaceConflict" \in Why
    BY DEF Why, BlockReason
  <2>4. goal # None => Plain(goal, new)
    BY <1>0, <2>3, PlainOperators
  <2> HIDE DEF new
  <2> QED BY <1>2, <1>4, <1>5, <2>1, <2>2, <2>4
<1>11. ASSUME RefreshDigest(g) PROVE Acts(g)
  <2>1. (Same \/ Becomes(goal)) /\ Files /\ p \notin QuietPlaces
    BY <1>11, <1>1 DEF RefreshDigest, Mutate, QuietPlaces
  <2>2. Fail(g, "Other") \/ Goto(g, "start")
    BY <1>11 DEF RefreshDigest, Mutate
  <2>3. goal # None => Plain(goal, goal)
    BY <1>0, PlainOperators
  <2> QED BY <1>2, <1>4, <1>5, <2>1, <2>2, <2>3
<1>12. ASSUME StartSlice(g) PROVE Acts(g)
  <2> DEFINE run == [goal EXCEPT !.status = "Running", !.why = "none"]
             new == inject_steering(run)
  <2>1. (Same \/ Becomes(new)) /\ Files /\ p \notin QuietPlaces
    BY <1>12, <1>1 DEF StartSlice, Mutate, QuietPlaces
  <2>2. Fail(g, "Other") \/ Goto(g, "begin")
    BY <1>12 DEF StartSlice, Mutate
  <2>3. goal # None => Plain(goal, run)
    BY <1>0, PlainOperators
  <2> HIDE DEF run
  <2>4. goal # None => Plain(goal, new)
    BY <2>3, PlainOperators, PlainTransitive DEF Plain
  <2> HIDE DEF new
  <2> QED BY <1>2, <1>4, <1>5, <2>1, <2>2, <2>4
<1>13. ASSUME BeginSlice(g) PROVE Acts(g)
  <2>1. Same /\ Files /\ p \notin QuietPlaces
    BY <1>13, <1>1 DEF BeginSlice, QuietPlaces
  <2>2. Fail(g, "Other") \/ Fail(g, "ProviderUnavailable") \/ q \in {"complete", "model"} 
    BY <1>13, <1>r DEF BeginSlice, Goto, Fail, Return, LoopTop, Runner, IdleRunner
  <2>3. Fine(g)
    BY <1>2, <2>2
  <2> QED BY <1>4, <2>1, <2>3
<1>14. ASSUME SliceCancelled(g) PROVE Acts(g)
  BY <1>14, <1>0 DEF SliceCancelled
<1>15. ASSUME ModelResponds(g) PROVE Acts(g)
  <2>1. Same /\ Files /\ p \notin QuietPlaces
    BY <1>15, <1>1 DEF ModelResponds, QuietPlaces
  <2>2. Fail(g, "Other") \/ Fail(g, "ProviderUnavailable") \/ q \in {"tools", "candidate", "checkpoint"} 
    BY <1>15, <1>r DEF ModelResponds, Goto, Fail, Return, LoopTop, Runner, IdleRunner
  <2>3. Fine(g)
    BY <1>2, <2>2
  <2> QED BY <1>4, <2>1, <2>3
<1>16. ASSUME BatchDone(g) PROVE Acts(g)
  <2>1. Same /\ Files /\ p \notin QuietPlaces
    BY <1>16, <1>1 DEF BatchDone, QuietPlaces
  <2>2. Fail(g, "Other") \/ Fail(g, "ProviderUnavailable") \/ q \in {"checkpoint"} 
    BY <1>16, <1>r DEF BatchDone, Goto, Fail, Return, LoopTop, Runner, IdleRunner
  <2>3. Fine(g)
    BY <1>2, <2>2
  <2> QED BY <1>4, <2>1, <2>3
<1>17. ASSUME ReadIntent(g) PROVE Acts(g)
  <2> DEFINE new == [goal EXCEPT !.reads = TRUE]
  <2>1. (Same \/ Becomes(new)) /\ Files /\ p \notin QuietPlaces
    BY <1>17, <1>1 DEF ReadIntent, Journal, QuietPlaces
  <2>2. Fail(g, "Other") \/ Goto(g, "reading")
    BY <1>17 DEF ReadIntent, Journal
  <2>3. goal # None => Plain(goal, new)
    BY <1>0, PlainOperators
  <2> HIDE DEF new
  <2> QED BY <1>2, <1>4, <1>5, <2>1, <2>2, <2>3
<1>18. ASSUME ReadDone(g) PROVE Acts(g)
  <2> DEFINE new == [goal EXCEPT !.reads = FALSE]
  <2>1. (Same \/ Becomes(new)) /\ Files /\ p \notin QuietPlaces
    BY <1>18, <1>1 DEF ReadDone, Journal, QuietPlaces
  <2>2. Fail(g, "Other") \/ Goto(g, "tools")
    BY <1>18 DEF ReadDone, Journal
  <2>3. goal # None => Plain(goal, new)
    BY <1>0, PlainOperators
  <2> HIDE DEF new
  <2> QED BY <1>2, <1>4, <1>5, <2>1, <2>2, <2>3
<1>19. ASSUME ReadTimesOut(g) PROVE Acts(g)
  <2> DEFINE new == [goal EXCEPT !.reads = FALSE]
  <2>1. (Same \/ Becomes(new)) /\ Files /\ p \notin QuietPlaces
    BY <1>19, <1>1 DEF ReadTimesOut, Journal, QuietPlaces
  <2>2. Fail(g, "Other") 
    BY <1>19 DEF ReadTimesOut, Journal
  <2>3. goal # None => Plain(goal, new)
    BY <1>0, PlainOperators
  <2> HIDE DEF new
  <2> QED BY <1>2, <1>4, <1>5, <2>1, <2>2, <2>3
<1>20. ASSUME AskApproval(g) PROVE Acts(g)
  <2> DEFINE new == IF is_terminal(goal) THEN goal ELSE [goal EXCEPT !.status = "AwaitingApproval"]
  <2>1. (Same \/ Becomes(new)) /\ Files /\ p \notin QuietPlaces
    BY <1>20, <1>1 DEF AskApproval, Tried, QuietPlaces
  <2>2. Goto(g, "asking")
    BY <1>20 DEF AskApproval, Tried
  <2>3. goal # None => Plain(goal, new)
    BY <1>0, PlainOperators
  <2> HIDE DEF new
  <2> QED BY <1>2, <1>4, <1>5, <2>1, <2>2, <2>3
<1>21. ASSUME ApprovalResolved(g) PROVE Acts(g)
  <2> DEFINE new == AfterApproval(goal)
  <2>1. (Same \/ Becomes(new)) /\ Files /\ p \notin QuietPlaces
    BY <1>21, <1>1 DEF ApprovalResolved, Tried, QuietPlaces
  <2>2. Goto(g, "approved") \/ Goto(g, "tools")
    BY <1>21 DEF ApprovalResolved, Tried
  <2>3. goal # None => Plain(goal, new)
    BY <1>0, PlainOperators
  <2> HIDE DEF new
  <2> QED BY <1>2, <1>4, <1>5, <2>1, <2>2, <2>3
<1>22. ASSUME ApprovalTimesOut(g) PROVE Acts(g)
  <2>1. Same /\ Files /\ p \notin QuietPlaces
    BY <1>22, <1>1 DEF ApprovalTimesOut, QuietPlaces
  <2>2. Fail(g, "Other") \/ Fail(g, "ProviderUnavailable") 
    BY <1>22, <1>r DEF ApprovalTimesOut, Goto, Fail, Return, LoopTop, Runner, IdleRunner
  <2>3. Fine(g)
    BY <1>2, <2>2
  <2> QED BY <1>4, <2>1, <2>3
<1>23. ASSUME NotStarted(g) PROVE Acts(g)
  <2>1. Same /\ Files /\ p \notin QuietPlaces
    BY <1>23, <1>1 DEF NotStarted, QuietPlaces
  <2>2. Fail(g, "Other") \/ Fail(g, "ProviderUnavailable") \/ q \in {"tools"} 
    BY <1>23, <1>r DEF NotStarted, Goto, Fail, Return, LoopTop, Runner, IdleRunner
  <2>3. Fine(g)
    BY <1>2, <2>2
  <2> QED BY <1>4, <2>1, <2>3
<1>24. ASSUME WriteIntent(g) PROVE Acts(g)
  <2>1. applied' = applied /\ p \notin QuietPlaces
    BY <1>24 DEF WriteIntent, QuietPlaces
  <2>2. \/ Same /\ Files /\ Fail(g, "Other")
        \/ \E e \in Execs \ spent :
              /\ goal # None /\ ~is_terminal(goal) /\ goal' = [goal EXCEPT !.writes = @ \cup {e}] /\ disk' = goal'
              /\ runner' = [runner EXCEPT ![g].pc = "writing", ![g].exec = e]
              /\ inflight' = inflight \cup {e}
    BY <1>24 DEF WriteIntent, Journal, Saved, SaveFails, repository, files
  <2>3. CASE Same /\ Files /\ Fail(g, "Other")
    BY <1>2, <1>4, <2>1, <2>3
  <2>4. ASSUME NEW e \in Execs \ spent,
               goal # None, ~is_terminal(goal), goal' = [goal EXCEPT !.writes = @ \cup {e}], disk' = goal',
               runner' = [runner EXCEPT ![g].pc = "writing", ![g].exec = e],
               inflight' = inflight \cup {e}
        PROVE  Acts(g)
    <3>1. q = "writing" /\ runner'[g].exec = e
      BY <1>r, <2>4 DEF Runner
    <3>2. /\ goal' \in AgentGoal /\ goal'.status = goal.status /\ Mode(goal') = Mode(goal)
          /\ goal'.writes = goal.writes \cup {e} /\ goal'.receipts = goal.receipts
      BY <1>0, <2>4, IntentOperator
    <3>3. Begun(g, goal, goal')
      BY <2>4, <3>1, <3>2 DEF Begun, is_terminal
    <3>4. goal' # None /\ Mode(goal') = "none" /\ Mode(goal) = "none"
      BY <1>3, <2>1, <2>4, <3>2, NoneIsNoGoal
    <3>5. Fine(g)
      BY <1>2, <3>1
    <3> QED BY <2>1, <2>4, <3>3, <3>4, <3>5 DEF Acts
  <2> QED BY <2>2, <2>3, <2>4
<1>25. ASSUME WriteReceipt(g) PROVE Acts(g)
  <2> DEFINE e == runner[g].exec
  <2>1. e \in applied /\ p \notin QuietPlaces
    BY <1>25 DEF WriteReceipt, QuietPlaces
  <2>2. \/ Same /\ Files /\ Fail(g, "Other")
        \/ /\ goal # None /\ goal' = [goal EXCEPT !.writes = @ \ {e}, !.receipts = @ \cup {e}] /\ disk' = goal'
           /\ runner' = [runner EXCEPT ![g].pc = "tools", ![g].exec = None] /\ Files
    BY <1>25 DEF WriteReceipt, Journal, Saved, SaveFails, repository, files
  <2>3. CASE Same /\ Files /\ Fail(g, "Other")
    BY <1>2, <1>4, <2>1, <2>3
  <2>4. CASE /\ goal # None /\ goal' = [goal EXCEPT !.writes = @ \ {e}, !.receipts = @ \cup {e}] /\ disk' = goal'
             /\ runner' = [runner EXCEPT ![g].pc = "tools", ![g].exec = None] /\ Files
    <3>1. q = "tools"
      BY <1>r, <2>4 DEF Runner
    <3>2. e \in Execs
      BY <2>1 DEF Types, FileTypes
    <3>7. goal \in AgentGoal /\ goal' = [goal EXCEPT !.writes = @ \ {e}, !.receipts = @ \cup {e}]
      BY <1>0, <2>4
    <3> HIDE DEF e
    <3>3. /\ goal' \in AgentGoal /\ goal'.status = goal.status /\ Mode(goal') = Mode(goal)
          /\ goal'.writes = goal.writes \ {e} /\ goal'.receipts = goal.receipts \cup {e}
      BY <3>2, <3>7, ReceiptOperator
    <3>4. Landed(goal, goal')
      BY <2>1, <3>3 DEF Landed
    <3>5. goal' # None /\ Mode(goal') = "none" /\ Mode(goal) = "none"
      BY <1>3, <2>1, <2>4, <3>3, NoneIsNoGoal
    <3>6. Fine(g)
      BY <1>2, <3>1
    <3> QED BY <2>4, <3>4, <3>5, <3>6 DEF Acts
  <2> QED BY <2>2, <2>3, <2>4
<1>26. ASSUME WriteFails(g) PROVE Acts(g)
  <2>1. Same /\ Files /\ p \notin QuietPlaces
    BY <1>26, <1>1 DEF WriteFails, QuietPlaces
  <2>2. Fail(g, "Other") \/ Fail(g, "ProviderUnavailable") \/ q \in {"tools"} 
    BY <1>26, <1>r DEF WriteFails, Goto, Fail, Return, LoopTop, Runner, IdleRunner
  <2>3. Fine(g)
    BY <1>2, <2>2
  <2> QED BY <1>4, <2>1, <2>3
<1>27. ASSUME WriteTimesOut(g) PROVE Acts(g)
  <2>1. Same /\ Files /\ p \notin QuietPlaces
    BY <1>27, <1>1 DEF WriteTimesOut, QuietPlaces
  <2>2. Fail(g, "Other") \/ Fail(g, "ProviderUnavailable") 
    BY <1>27, <1>r DEF WriteTimesOut, Goto, Fail, Return, LoopTop, Runner, IdleRunner
  <2>3. Fine(g)
    BY <1>2, <2>2
  <2> QED BY <1>4, <2>1, <2>3
<1>28. ASSUME SliceLost(g) PROVE Acts(g)
  <2>1. Same /\ Files /\ p \notin QuietPlaces
    BY <1>28, <1>1 DEF SliceLost, QuietPlaces
  <2>2. Fail(g, "Other") \/ Fail(g, "ProviderUnavailable") 
    BY <1>28, <1>r DEF SliceLost, Goto, Fail, Return, LoopTop, Runner, IdleRunner
  <2>3. Fine(g)
    BY <1>2, <2>2
  <2> QED BY <1>4, <2>1, <2>3
<1>29. ASSUME SaveCheckpoint(g) PROVE Acts(g)
  <2> DEFINE b == runner[g].boundary
  <2>1. Files /\ p \notin QuietPlaces
    BY <1>29, <1>1 DEF SaveCheckpoint, QuietPlaces
  <2>2. CASE goal = None
    <3>1. Same /\ Fail(g, "Other")
      BY <1>29, <1>1, <2>2 DEF SaveCheckpoint, Mutate
    <3> QED BY <1>2, <1>4, <2>1, <3>1
  <2>3. CASE goal # None
    <3>1. PICK exceeded \in SliceCharge(b), kept \in Compacted(Appended(goal, b), b) :
            LET new == AfterCharge(AfterBoundary([Charged(kept, exceeded) EXCEPT !.used = TRUE], b), exceeded)
            IN  Mutate(g, new, IF exceeded \/ Stopped(new) THEN Return(g) ELSE LoopTop(g))
      BY <1>29, <2>3 DEF SaveCheckpoint
    <3> DEFINE new == AfterCharge(AfterBoundary([Charged(kept, exceeded) EXCEPT !.used = TRUE], b), exceeded)
    <3>2. exceeded \in BOOLEAN
      BY <1>0, <2>3 DEF SliceCharge, ChargeOutcomes, AgentGoal
    <3>3. Plain(goal, new)
      BY <1>0, <2>3, <3>2, ChargedPlain
    <3>4. Mutate(g, new, IF exceeded \/ Stopped(new) THEN Return(g) ELSE LoopTop(g))
      BY <3>1
    <3> HIDE DEF new
    <3>5. (Same /\ Fail(g, "Other")) \/ (Becomes(new) /\ (Return(g) \/ LoopTop(g)))
      BY <1>1, <2>3, <3>4 DEF Mutate
    <3> QED BY <1>2, <1>4, <1>5, <2>1, <3>3, <3>5
  <2> QED BY <2>2, <2>3
<1>30. ASSUME SaveCandidate(g) PROVE Acts(g)
  <2> DEFINE paused == goal.status = "Pausing"
             new(exceeded) == [Charged(goal, exceeded) EXCEPT
                                 !.cand = "unverified",
                                 !.status = IF paused THEN "Paused" ELSE @,
                                 !.why = IF paused THEN "User" ELSE @]
             on(exceeded) == [runner EXCEPT ![g].pc = IF exceeded \/ paused THEN "overdrawn" ELSE "complete",
                                            ![g].over = exceeded]
  <2>1. PICK exceeded \in ChargeOutcomes : Mutate(g, new(exceeded), runner' = on(exceeded))
    BY ZenonT(30), <1>30 DEF SaveCandidate
  <2>2. exceeded \in BOOLEAN
    BY <1>0 DEF ChargeOutcomes, AgentGoal
  <2>3. goal # None => Plain(goal, new(exceeded))
    BY <1>0, <2>2, CandidatePlain
  <2>4. runner' = on(exceeded) => q \in {"overdrawn", "complete"}
    BY <1>r, <2>2 DEF Runner
  <2>5. Files /\ p \notin QuietPlaces
    BY <1>30, <1>1 DEF SaveCandidate, QuietPlaces
  <2> HIDE DEF new, on, paused
  <2>6. (Same /\ Fail(g, "Other")) \/ (Becomes(new(exceeded)) /\ runner' = on(exceeded))
    BY <1>1, <2>1 DEF Mutate
  <2> QED BY <1>2, <1>4, <1>5, <2>3, <2>4, <2>5, <2>6
<1>31. ASSUME PauseOverdrawn(g) PROVE Acts(g)
  <2> DEFINE new == IF runner[g].over THEN Paused(goal, "Budget") ELSE goal
  <2>1. (Same \/ Becomes(new)) /\ Files /\ p \notin QuietPlaces
    BY <1>31, <1>1 DEF PauseOverdrawn, Mutate, QuietPlaces
  <2>2. Fail(g, "Other") \/ Return(g)
    BY <1>31 DEF PauseOverdrawn, Mutate
  <2>3. "Budget" \in Why
    BY DEF Why, PauseReason
  <2>4. goal # None => Plain(goal, new)
    BY <1>0, <2>3, PlainOperators
  <2> HIDE DEF new
  <2> QED BY <1>2, <1>4, <1>5, <2>1, <2>2, <2>4
<1>32. ASSUME BeginCompletion(g) PROVE Acts(g)
  <2>1. Same /\ Files /\ p \notin QuietPlaces
    BY <1>32, <1>1 DEF BeginCompletion, QuietPlaces
  <2> DEFINE ask == [runner EXCEPT ![g].pc = "verify", ![g].feedback = goal.feedback # 0]
             over == [runner EXCEPT ![g].pc = "overdrawn", ![g].over = TRUE]
             decide == [runner EXCEPT ![g].pc = "decide", ![g].dec = goal.cand, ![g].feedback = goal.feedback # 0]
  <2>2. /\ runner' = ask => q = "verify"
        /\ runner' = over => q = "overdrawn"
        /\ runner' = decide => q = "decide"
    BY <1>r DEF Runner
  <2>3. Fail(g, "Other") \/ Goto(g, "conflict") \/ runner' = ask \/ runner' = over \/ runner' = decide
    BY <1>32 DEF BeginCompletion
  <2> HIDE DEF ask, over, decide
  <2>4. Fine(g)
    BY <1>2, <2>2, <2>3
  <2> QED BY <1>4, <2>1, <2>4
<1>33. ASSUME VerifierAnswers(g) PROVE Acts(g)
  <2>1. Same /\ Files /\ p \notin QuietPlaces
    BY <1>33, <1>1 DEF VerifierAnswers, QuietPlaces
  <2>2. Fail(g, "Other") \/ Fail(g, "ProviderUnavailable") \/ q \in {"verified"} 
    BY <1>33, <1>r DEF VerifierAnswers, Goto, Fail, Return, LoopTop, Runner, IdleRunner
  <2>3. Fine(g)
    BY <1>2, <2>2
  <2> QED BY <1>4, <2>1, <2>3
<1>34. ASSUME RecordVerification(g) PROVE Acts(g)
  <2>1. PICK exceeded \in ChargeOutcomes :
          IF goal # None /\ goal.cand = "none"
          THEN Unsaved(Charged(goal, exceeded)) /\ Fail(g, "Other")
          ELSE Mutate(g, [Charged(goal, exceeded) EXCEPT !.cand = runner[g].dec],
                      runner' = [runner EXCEPT ![g].pc = IF exceeded THEN "overdrawn" ELSE "decide",
                                               ![g].over = exceeded])
    BY <1>34 DEF RecordVerification
  <2> DEFINE charged == Charged(goal, exceeded)
             new == [charged EXCEPT !.cand = runner[g].dec]
             on == [runner EXCEPT ![g].pc = IF exceeded THEN "overdrawn" ELSE "decide", ![g].over = exceeded]
  <2>2. exceeded \in BOOLEAN /\ runner[g].dec \in Candidate
    BY <1>0 DEF ChargeOutcomes, AgentGoal, Runner
  <2>3. runner' = on => q \in {"overdrawn", "decide"}
    BY <1>r, <2>2 DEF Runner
  <2>4. goal # None => Plain(goal, charged) /\ charged.status = goal.status
    BY <1>0, <2>2, PlainOperators DEF Charged, AgentGoal
  <2> HIDE DEF charged
  <2>5. goal # None => Plain(goal, new)
    <3>1. goal # None => Plain(charged, new)
      BY <2>2, <2>4, PlainOperators DEF Plain
    <3> HIDE DEF new
    <3> QED BY <2>4, <3>1, PlainTransitive
  <2>6. Files /\ p \notin QuietPlaces
    BY <1>34, <1>1 DEF RecordVerification, QuietPlaces
  <2>7. IF goal # None /\ goal.cand = "none"
        THEN Unsaved(charged) /\ Fail(g, "Other")
        ELSE Mutate(g, new, runner' = on)
    BY <2>1 DEF charged
  <2> HIDE DEF new, on
  <2>8. \/ goal # None /\ goal' = charged /\ disk' = disk /\ Fail(g, "Other")
        \/ Same /\ Fail(g, "Other")
        \/ Becomes(new) /\ runner' = on
    BY <1>1, <2>7 DEF Mutate
  <2>9. CASE goal # None /\ goal' = charged /\ disk' = disk /\ Fail(g, "Other")
    BY <1>2, <1>3, <2>4, <2>6, <2>9, NoneIsNoGoal DEF Acts, Plain
  <2> QED BY <1>2, <1>4, <1>5, <2>3, <2>5, <2>6, <2>8, <2>9
<1>35. ASSUME Reject(g) PROVE Acts(g)
  <2> DEFINE new == [Blocked(goal, "Other") EXCEPT !.cand = IF @ = "continue" THEN "blocked" ELSE @]
  <2>1. \/ Same /\ Fail(g, "Other")
        \/ Becomes(new) /\ Return(g)
    BY <1>35 DEF Reject, Mutate, Saved, SaveFails, repository
  <2>2. Files /\ p \notin QuietPlaces
    BY <1>35, <1>1 DEF Reject, QuietPlaces
  <2>4. goal # None => Plain(goal, new)
    BY <1>0, VerdictPlain
  <2> HIDE DEF new
  <2> QED BY <1>2, <1>4, <1>5, <2>1, <2>2, <2>4
<1>36. ASSUME Repair(g) PROVE Acts(g)
  <2> DEFINE cleared == [goal EXCEPT !.cand = "none"]
             new == [cleared EXCEPT !.feedback = 1]
  <2>1. (Same /\ Fail(g, "Other")) \/ (Becomes(new) /\ LoopTop(g))
    BY <1>36, <1>1 DEF Repair
  <2>2. Files /\ p \notin QuietPlaces
    BY <1>36, <1>1 DEF Repair, QuietPlaces, files
  <2>3. "none" \in Candidate
    BY DEF Candidate
  <2>4. goal # None => Plain(goal, cleared)
    BY <1>0, <2>3, PlainOperators
  <2> HIDE DEF cleared
  <2>5. \E y \in 0..3 : new = [cleared EXCEPT !.feedback = y]
    OBVIOUS
  <2> HIDE DEF new
  <2>6. goal # None => Plain(goal, new)
    <3>1. PICK y \in 0..3 : new = [cleared EXCEPT !.feedback = y]
      BY <2>5
    <3>2. goal # None => Plain(cleared, new)
      BY <2>4, <3>1, PlainOperators DEF Plain
    <3> QED BY <2>4, <3>2, PlainTransitive
  <2> QED BY <1>2, <1>4, <1>5, <2>1, <2>2, <2>6
<1>37. ASSUME Commit(g) PROVE Acts(g)
  <2>1. (Same /\ Fail(g, "Other")) \/ (Becomes(Committed(goal)) /\ Goto(g, "legacy"))
    BY <1>37, <1>1 DEF Commit, Mutate
  <2>2. Files /\ p \notin QuietPlaces /\ p = "decide"
    BY <1>37, <1>1 DEF Commit, QuietPlaces
  <2>3. goal # None => goal.writes = {}
    BY <2>2 DEF ClearHere, ClearPlaces
  <2>4. goal # None => Plain(goal, Committed(goal))
    BY <1>0, <2>3, PlainOperators
  <2> QED BY <1>2, <1>4, <1>5, <2>1, <2>2, <2>4
<1>38. ASSUME CommitLegacy(g) PROVE Acts(g)
  <2>1. Same /\ Files /\ p \notin QuietPlaces
    BY <1>38, <1>1 DEF CommitLegacy, QuietPlaces
  <2>2. Fail(g, "Other") \/ Fail(g, "ProviderUnavailable") \/ q \in {"finish"} 
    BY <1>38, <1>r DEF CommitLegacy, Goto, Fail, Return, LoopTop, Runner, IdleRunner
  <2>3. Fine(g)
    BY <1>2, <2>2
  <2> QED BY <1>4, <2>1, <2>3
<1>39. ASSUME RecordError(g) PROVE Acts(g)
  <2> DEFINE new == AfterError(goal, runner[g].err)
  <2>1. (Same \/ Becomes(new)) /\ Files /\ Return(g) /\ p = "failed"
    BY <1>39, <1>1 DEF RecordError, Tried
  <2>2. {"ProviderUnavailable", "Other"} \subseteq Why /\ runner[g].err # "Cancelled"
    BY <2>1 DEF Why, PauseReason, BlockReason, NeverCancelled
  <2>3. goal # None /\ Mode(goal) # "none" => new = goal
    BY DEF AfterError, Mode, Stopped
  <2>4. goal # None => new \in AgentGoal /\ Tidy(goal, new)
    BY <1>0, <2>2, PlainOperators DEF AfterError, Plain
  <2> HIDE DEF new
  <2>5. q = "finish"
    BY <1>r, <2>1, Arrivals
  <2>6. CASE Same
    BY <2>1, <2>5, <2>6 DEF Acts, Fine, QuietPlaces
  <2>7. CASE Becomes(new)
    BY <2>1, <2>3, <2>4, <2>5, <2>7, NoneIsNoGoal DEF Acts, Fine, QuietPlaces
  <2> QED BY <2>1, <2>6, <2>7
<1> QED BY <1>7, <1>8, <1>9, <1>10, <1>11, <1>12, <1>13, <1>14, <1>15, <1>16, <1>17, <1>18, <1>19, <1>20, <1>21, <1>22, <1>23, <1>24, <1>25, <1>26, <1>27, <1>28, <1>29, <1>30, <1>31, <1>32, <1>33, <1>34, <1>35, <1>36, <1>37, <1>38, <1>39 DEF RunnerStep

(* No write is under way but the one the only runner waits for.             *)
LEMMA NothingUnderWay ==
    ASSUME GoalInv, Awaited, NEW g \in Goals, runner[g].pc # "idle", runner[g].pc # "writing"
    PROVE  inflight = {}
<1>1. \A h \in Goals : runner[h].pc = "writing" => h = g
  BY DEF GoalInv, RuntimeInv, RunnerHolds
<1> QED BY <1>1 DEF Awaited

(* A runner goes on from where it waits for a write when the write is done. *)
LEMMA WriteWaitedFor ==
    ASSUME ~CanStall, GoalInv, EffectInv, NEW g \in Goals, RunnerStep(g)
    PROVE  inflight = {}
<1>1. runner[g].pc # "idle"
  BY RunnerWorks DEF GoalInv, RuntimeInv, Works, Alive, FinishRun, At
<1>2. CASE runner[g].pc # "writing"
  BY <1>1, <1>2, NothingUnderWay DEF EffectInv
<1>3. CASE runner[g].pc = "writing"
  <2>1. SliceCancelled(g) \/ WriteReceipt(g) \/ WriteFails(g) \/ WriteTimesOut(g)
    BY <1>3 DEF RunnerStep, At, InSlice, LoopHead, BlockAmbiguous, WorkspaceDigest, BlockConflict, RefreshDigest,
       StartSlice, BeginSlice, ModelResponds, BatchDone, ReadIntent, ReadDone, ReadTimesOut,
       AskApproval, ApprovalResolved, ApprovalTimesOut, NotStarted, WriteIntent,
       SliceLost, SaveCheckpoint, SaveCandidate, PauseOverdrawn, BeginCompletion,
       VerifierAnswers, RecordVerification, Reject, Repair, Commit, CommitLegacy, RecordError, FinishRun
  <2>2. runner[g].exec \notin inflight
    <3>1. WriteReceipt(g) => runner[g].exec \in applied
      BY DEF WriteReceipt
    <3>2. WriteFails(g) \/ WriteTimesOut(g) \/ SliceCancelled(g) => runner[g].exec \notin inflight
      BY DEF WriteFails, WriteTimesOut, SliceCancelled, Settled
    <3>3. inflight \cap applied = {}
      BY DEF EffectInv, OnRecord
    <3> QED BY <2>1, <3>1, <3>2, <3>3
  <2>3. \A h \in Goals : runner[h].pc = "writing" => h = g
    BY <1>1 DEF GoalInv, RuntimeInv, RunnerHolds
  <2> QED BY <2>2, <2>3 DEF EffectInv, Awaited
<1> QED BY <1>2, <1>3

(* A tidy change keeps the writes on record.                                *)
LEMMA TidyOnRecord ==
    ASSUME OnRecord, goal # None, goal' # None, loaded, loaded' = loaded, Tidy(goal, goal'),
           disk' = goal' \/ (disk' = disk /\ goal'.status = goal.status), UNCHANGED <<inflight, applied>>
    PROVE  OnRecord'
<1>1. /\ disk # None /\ Books(goal, disk) /\ disk.status = goal.status /\ Books(goal, goal')
      /\ applied \subseteq Kept(goal)
      /\ is_terminal(disk) => disk.writes = {}
  BY DEF OnRecord, HasGoal, Tidy
<1>2. is_terminal(goal') => goal'.writes = {}
  BY <1>1 DEF Tidy, Books, is_terminal
<1>3. disk' # None /\ Books(goal', disk') /\ disk'.status = goal'.status
  BY <1>1 DEF Books
<1>4. applied \subseteq Kept(goal')
  BY <1>1 DEF Kept, Books
<1>5. is_terminal(disk') => disk'.writes = {}
  BY <1>2, <1>3 DEF Books, is_terminal
<1>6. inflight' \subseteq goal'.writes /\ inflight' \cap applied' = {}
  BY <1>1 DEF OnRecord, HasGoal, Books
<1> QED BY <1>3, <1>4, <1>5, <1>6 DEF OnRecord, HasGoal

(* What a runner does to the goal keeps the writes on record.               *)
LEMMA ActsOnRecord ==
    ASSUME OnRecord, NEW g \in Goals, Acts(g), inflight = {}, applied \subseteq spent, loaded, loaded' = loaded
    PROVE  OnRecord'
<1>1. applied' = applied
  BY DEF Acts
<1>2. CASE UNCHANGED <<goal, disk, inflight>>
  BY <1>1, <1>2 DEF OnRecord, HasGoal
<1>3. CASE /\ goal # None /\ goal' # None
           /\ disk' = goal' \/ (disk' = disk /\ goal'.status = goal.status)
           /\ Tidy(goal, goal') /\ UNCHANGED inflight
  BY <1>1, <1>3, TidyOnRecord
<1>4. CASE /\ goal # None /\ goal' # None /\ disk' = goal'
           /\ Landed(goal, goal') /\ UNCHANGED inflight
  <2>1. /\ disk # None /\ Books(goal, disk) /\ disk.status = goal.status
        /\ applied \subseteq Kept(goal)
        /\ is_terminal(disk) => disk.writes = {}
    BY <1>4 DEF OnRecord, HasGoal
  <2>2. Kept(goal) \subseteq Kept(goal') /\ goal'.writes \subseteq goal.writes
    BY <1>4 DEF Landed, Kept
  <2>3. is_terminal(disk') => disk'.writes = {}
    BY <1>4, <2>1, <2>2 DEF is_terminal, Landed, Books
  <2> QED BY <1>1, <1>4, <2>1, <2>2, <2>3 DEF OnRecord, HasGoal, Books
<1>5. CASE /\ goal # None /\ goal' # None /\ disk' = goal'
           /\ Begun(g, goal, goal')
  <2>1. PICK e \in Execs \ spent :
          /\ goal'.writes = goal.writes \cup {e} /\ goal'.receipts = goal.receipts
          /\ inflight' = inflight \cup {e}
    BY <1>5 DEF Begun
  <2>2. applied \subseteq Kept(goal) /\ ~is_terminal(disk')
    BY <1>5 DEF OnRecord, HasGoal, Begun
  <2>3. applied' \subseteq Kept(goal') /\ inflight' \subseteq goal'.writes /\ inflight' \cap applied' = {}
    BY <1>1, <2>1, <2>2 DEF Kept
  <2> QED BY <1>5, <2>2, <2>3 DEF OnRecord, HasGoal, Books
<1> QED BY <1>2, <1>3, <1>4, <1>5 DEF Acts

(* A step of a runner keeps it all.                                         *)
LEMMA RunnerKeepsEffects ==
    ASSUME Waited, GoalInv, EffectInv, NEW g \in Goals, RunnerStep(g)
    PROVE  EffectInv'
<1>0. /\ Types /\ ClearHere(g) /\ NeverCancelled /\ Quiet /\ Admission
      /\ runner \in [Goals -> Runner] /\ applied \subseteq spent
      /\ goal # None => loaded
  BY DEF GoalInv, RuntimeInv, Types, FileTypes, Places, EffectInv, LoadedFirst
<1>1. inflight = {}
  BY WriteWaitedFor DEF Waited
<1>2. /\ runner[g].pc # "idle" /\ loaded' = loaded /\ caller' = caller /\ initialized' = initialized
      /\ \A h \in Goals \ {g} : runner'[h] = runner[h]
  BY <1>0, RunnerWorks DEF Types, Works, Alive, Persisted, FinishRun, At, repository
<1>3. loaded /\ \A h \in Goals \ {g} : runner'[h].pc = "idle"
  BY <1>2 DEF GoalInv, RuntimeInv, RunnerHolds, LoadedFirst
<1>4. ~Visiting
  BY <1>2 DEF EffectInv, FirstVisit
<1>5. FirstVisit'
  BY <1>2, <1>4 DEF Visiting, Prepares, FirstVisit
<1>6. CASE Acts(g) /\ Works(g)
  <2>1. OnRecord'
    BY <1>0, <1>1, <1>2, <1>3, <1>6, ActsOnRecord DEF EffectInv
  <2>2. Awaited'
    <3>1. inflight' = {} \/ Begun(g, goal, goal')
      BY <1>1, <1>6 DEF Acts
    <3>2. Begun(g, goal, goal') => \A e \in inflight' : runner'[g].pc = "writing" /\ runner'[g].exec = e
      BY <1>1 DEF Begun
    <3> QED BY <3>1, <3>2 DEF Awaited
  <2>3. Quiet'
    BY <1>3, <1>6 DEF Acts, Quiet, HasGoal, QuietPlaces
  <2>4. Applying'
    <3>1. /\ goal # None /\ Mode(goal) # "none" => goal' # None /\ Mode(goal') # "none"
          /\ applied' = applied
      BY <1>6 DEF Acts
    <3> QED BY <1>2, <3>1 DEF EffectInv, Applying, HasGoal
  <2>5. NeverCancelled'
    <3>1. UNCHANGED <<pending, cancelled>>
      BY <1>6 DEF Works, registry
    <3>2. runner'[g].pc = "failed" => runner'[g].err # "Cancelled"
      BY <1>6 DEF Acts, Fine
    <3>3. \A h \in Goals : runner'[h].pc = "failed" => runner'[h].err # "Cancelled"
      BY <1>3, <3>2
    <3> QED BY <1>0, <1>2, <3>1, <3>3 DEF NeverCancelled
  <2> QED BY <2>1, <2>2, <2>3, <2>4, <2>5, <1>5 DEF EffectInv
<1>7. CASE FinishRun(g)
  <2>1. UNCHANGED <<goal, disk, loaded, inflight, applied>> /\ Registry!Finish(g)
    BY <1>7 DEF FinishRun, repository, files
  <2>2. runner'[g].pc = "idle"
    BY <1>0, <1>7, IdleRunnerType DEF FinishRun
  <2>3. NeverCancelled'
    <3>1. RegistryFacts!NoneIn(pending, Goals)' /\ \A h \in Goals : ~cancelled'[h]
      BY <1>0, <2>1, RegistryUncancelled DEF NeverCancelled
    <3> QED BY <1>0, <1>2, <1>3, <2>2, <3>1 DEF NeverCancelled
  <2>4. OnRecord' /\ Awaited' /\ Applying'
    BY <1>1, <1>2, <2>1 DEF EffectInv, OnRecord, Awaited, Applying, HasGoal
  <2>5. Quiet'
    BY <1>3, <2>2 DEF Quiet, QuietPlaces
  <2> QED BY <1>5, <2>3, <2>4, <2>5 DEF EffectInv, FirstVisit
<1> QED BY <1>0, <1>6, <1>7, RunnerActs, RunnerWorks

(* The changes commands make, but for recoveries, are plain, and those of   *)
(* the first visit are tidy.                                                *)
LEMMA CommandOperators ==
    ASSUME NEW g \in AgentGoal
    PROVE  /\ Plain(g, g) /\ Plain(g, Switched(g)) /\ Plain(g, [g EXCEPT !.steering = "waiting"])
           /\ Plain(g, [g EXCEPT !.status = "Pausing", !.why = "User"])
           /\ \A h \in {g, Switched(g)} \cup Extensions(g) : Plain(g, h) /\ Plain(g, Requeued(h))
           /\ prepare_for_restart(g) \in AgentGoal /\ Tidy(g, prepare_for_restart(g))
<1>1. Plain(g, g)
  BY PlainOperators
<1>2. Plain(g, Switched(g))
  <2>1. Switched(g) \in AgentGoal
    BY GoalOperators
  <2> QED BY <2>1 DEF Switched, Plain, Tidy, Books, Mode, is_terminal, AgentGoal
<1>3. Plain(g, [g EXCEPT !.steering = "waiting"])
  BY DEF Plain, Tidy, Books, Mode, is_terminal, AgentGoal
<1>4. Plain(g, [g EXCEPT !.status = "Pausing", !.why = "User"])
  BY DEF Plain, Tidy, Books, Mode, is_terminal, AgentGoal, Terminal, Status, PauseReason
<1>5. \A h \in Extensions(g) : Plain(g, h)
  BY DEF Extensions, Plain, Tidy, Books, Mode, is_terminal, AgentGoal
<1>6. ASSUME NEW h \in AgentGoal PROVE Plain(h, Requeued(h))
  <2>1. Requeued(h) \in AgentGoal
    BY GoalOperators
  <2> QED BY <2>1 DEF Requeued, Plain, Tidy, Books, Mode, is_terminal, AgentGoal, Terminal
<1>7. \A h \in {g, Switched(g)} \cup Extensions(g) : Plain(g, h) /\ Plain(g, Requeued(h))
  <2> SUFFICES ASSUME NEW h, Plain(g, h) PROVE Plain(g, Requeued(h))
    BY <1>1, <1>2, <1>5
  <2> QED BY <1>6, PlainTransitive DEF Plain
<1>8. prepare_for_restart(g) \in AgentGoal /\ Tidy(g, prepare_for_restart(g))
  <2>1. "AppRestarted" \in Why /\ prepare_for_restart(g) \in AgentGoal
    BY GoalOperators DEF Why, PauseReason
  <2> QED BY <1>1, <2>1, PlainOperators DEF prepare_for_restart, Plain
<1> QED BY <1>1, <1>2, <1>3, <1>4, <1>7, <1>8

(* A recovery forgets no write that landed.                                 *)
LEMMA RecoveredKeeps ==
    ASSUME NEW g \in AgentGoal, NEW r \in Recovery, NEW reads \in {FALSE, g.reads}, NEW h, h = Reconciled(g, r, reads)
    PROVE  /\ h \in AgentGoal
           /\ h.writes = g.writes \ r.resolved /\ h.receipts = g.receipts \cup r.recovered
           /\ is_terminal(h) => is_terminal(g)
<1>1. reads \in BOOLEAN
  BY GoalFields
<1>2. Recovered(g, r) \in AgentGoal
  BY RecoveryTypes
<1>3. h \in AgentGoal
  BY <1>1, <1>2, GoalWith DEF Reconciled
<1>4. /\ h.writes = g.writes \ r.resolved /\ h.receipts = g.receipts \cup r.recovered
      /\ h.status \in {g.status, "Paused", "Blocked"}
  BY DEF Reconciled, Recovered, Paused, Blocked, AgentGoal
<1> QED BY <1>3, <1>4 DEF is_terminal, Terminal

(* One step per action of a command.                                        *)
LEMMA CallerKeepsEffects ==
    ASSUME Waited, GoalInv, EffectInv, NEW c \in Callers, CallerStep(c)
    PROVE  EffectInv'
<1> USE DEF HasGoal, Is
<1> DEFINE p == caller[c].pc
           q == caller'[c].pc
           i == caller[c].id
           Resting0 == \A g \in Goals : runner[g].pc = "idle"
           Starts == Resting0 /\ \A g \in Goals : runner'[g].pc \in {"idle", "top"}
           Admits == \/ UNCHANGED registry \/ Registry!Registered(i, Session)
                     \/ Registry!RegisterRefused(i, Session) \/ Registry!Finish(i)
           Books0 == UNCHANGED <<inflight, applied, loaded, initialized>>
           Same == goal' = goal /\ disk' = disk
           Kind == Same \/ (goal # None /\ Plain(goal, goal') /\
                              (disk' = goal' \/ (disk' = disk /\ goal'.status = goal.status)))
<1>0. /\ goal # None => goal \in AgentGoal
      /\ disk # None => disk \in AgentGoal
      /\ caller \in [Callers -> Caller] /\ caller[c] \in Caller
      /\ runner \in [Goals -> Runner]
      /\ p # "idle" => i \in Goals /\ caller[c].op \in Ops
      /\ goal # None => loaded
      /\ p \notin {"idle", "ensure", "load"} => loaded
      /\ loaded \in BOOLEAN /\ initialized \in BOOLEAN
      /\ p \in Holding => Resting0
      /\ p \notin {"idle", "ensure"} => initialized
      /\ p # "cancel" /\ (caller[c].op # "cancel" \/ p = "idle")
      /\ \A d \in Callers : d = c
      /\ Admission
  BY DEF GoalInv, RuntimeInv, Types, RepositoryTypes, CallersNamed, LoadedFirst, RunnerHolds, CallerHolds,
         Waited, OneCommand, EffectInv, FirstVisit, NeverCancelled
<1>1. /\ UNCHANGED repository => Same /\ loaded' = loaded
      /\ UNCHANGED files => UNCHANGED <<inflight, applied>>
      /\ CallerOnly => runner' = runner /\ initialized' = initialized /\ UNCHANGED registry /\ UNCHANGED <<inflight, applied>>
      /\ \A h : Saved(h) => goal' = h /\ disk' = h /\ loaded' = loaded
      /\ \A h : Unsaved(h) => goal' = h /\ disk' = disk /\ loaded' = loaded
  BY DEF repository, files, CallerOnly, Saved, Unsaved
<1>2. {"idle", "load", "prepare", "body", "steer", "reconcile", "apply", "reread", "register",
       "requeue", "digest", "create", "launch", "cancel"} \subseteq CallerPC
  BY DEF CallerPC
<1>3. /\ Done(c) => q = "idle"
      /\ \A x \in CallerPC : CallerGoto(c, x) => q = x
  BY <1>0, CallerMovements DEF Moves
<1>4. AfterReconcile(c) => q \in {"reread", "idle"}
  BY <1>2, <1>3 DEF AfterReconcile
<1>i. p # "idle"
  BY CallerServes DEF GoalInv, RuntimeInv
<1>e. Resting0 => inflight = {}
  BY DEF EffectInv, Awaited
<1>l. ASSUME LoopTop(i), Resting0 PROVE Starts /\ \A g \in Goals : runner'[g].pc # "failed"
  <2>1. i \in Goals
    BY <1>0, <1>i
  <2>2. runner'[i].pc = "top"
    BY <1>0, <1>l, <2>1, Arrivals
  <2>3. \A g \in Goals \ {i} : runner'[g] = runner[g]
    BY <1>0, <1>l DEF LoopTop
  <2> QED BY <1>l, <2>2, <2>3
<1>r. Registry!Registered(i, Session) => Resting0
  <2>0. i \in Goals /\ Admission
    BY <1>0, <1>i
  <2>1. Registry!Registered(i, Session) => active_resources[Session] = NoRun
    BY <2>0, AdmissionSteps, Zenon
  <2>2. NoRun \notin Goals
    BY RuntimeAssumption
  <2> QED BY <2>1, <2>2 DEF GoalInv, RuntimeInv, RunnerHolds
(* What holds of every step that does not bring a recovery with it.         *)
<1>5. ASSUME Admits, runner' = runner \/ Starts, inflight' = inflight, q \notin {"apply", "cancel"},
             OnRecord', Quiet', FirstVisit'
      PROVE  EffectInv'
  <2>1. RegistryFacts!NoneIn(pending, Goals)' /\ \A g \in Goals : ~cancelled'[g]
    <3>1. i \in Goals /\ RegistryFacts!NoneIn(pending, Goals) /\ \A g \in Goals : ~cancelled[g]
      BY <1>0, <1>i DEF EffectInv, NeverCancelled
    <3>2. CASE UNCHANGED registry
      BY <3>1, <3>2 DEF registry
    <3>3. CASE ~UNCHANGED registry
      BY <1>0, <1>5, <3>1, <3>3, RegistryUncancelled
    <3> QED BY <3>2, <3>3
  <2>2. \A g \in Goals : runner'[g].pc = "failed" => runner'[g].err # "Cancelled"
    BY <1>5 DEF EffectInv, NeverCancelled
  <2>3. NeverCancelled'
    BY <1>0, <1>5, <2>1, <2>2 DEF NeverCancelled
  <2>4. Awaited'
    BY <1>5, <1>e DEF EffectInv, Awaited
  <2>5. Applying'
    BY <1>0, <1>5 DEF Applying
  <2> QED BY <1>5, <2>3, <2>4, <2>5 DEF EffectInv
<1>6. ASSUME Admits, runner' = runner \/ Starts, Books0, Kind, p \notin {"ensure", "load", "prepare"},
             q \notin {"apply", "cancel", "load", "prepare"}
      PROVE  EffectInv'
  <2>1. OnRecord'
    <3>1. CASE Same
      BY <1>6, <3>1 DEF EffectInv, OnRecord
    <3>2. CASE ~Same
      <4>1. /\ goal # None /\ goal' # None /\ Tidy(goal, goal')
            /\ disk' = goal' \/ (disk' = disk /\ goal'.status = goal.status)
        BY <1>6, <3>2, NoneIsNoGoal DEF Plain
      <4> QED BY <1>0, <1>6, <4>1, TidyOnRecord DEF EffectInv
    <3> QED BY <3>1, <3>2
  <2>2. Quiet'
    <3>1. goal' # None /\ Mode(goal') # "none" => goal # None /\ Mode(goal) # "none"
      BY <1>6 DEF Plain
    <3> QED BY <1>6, <3>1 DEF EffectInv, Quiet, QuietPlaces
  <2>3. FirstVisit'
    <3>1. initialized' /\ ~Prepares(c)'
      BY <1>0, <1>6, <1>i DEF Prepares
    <3> QED BY <1>0, <3>1 DEF FirstVisit, Visiting
  <2> QED BY <1>5, <1>6, <2>1, <2>2, <2>3
<1>10. ASSUME EnsureMark(c) PROVE EffectInv'
  <2>1. Same /\ UNCHANGED <<loaded, inflight, applied>> /\ runner' = runner /\ UNCHANGED registry /\ initialized' = TRUE
    BY <1>10, <1>1 DEF EnsureMark, repository, files
  <2>2. q = "load" /\ caller'[c].first = ~initialized
    BY <1>10, <1>0 DEF EnsureMark, Caller
  <2>3. Visiting' => Visiting
    BY <1>0, <2>1, <2>2 DEF Visiting, Prepares
  <2>4. OnRecord' /\ Quiet'
    BY <2>1 DEF EffectInv, OnRecord, Quiet
  <2>5. FirstVisit'
    BY <2>1, <2>3 DEF EffectInv, FirstVisit
  <2> QED BY <1>5, <2>1, <2>2, <2>4, <2>5
<1>11. ASSUME EnsureLoad(c) PROVE EffectInv'
  <2>1. CASE UNCHANGED repository /\ Done(c)
    <3>1. Same /\ UNCHANGED <<loaded, inflight, applied, initialized>> /\ runner' = runner /\ UNCHANGED registry
      BY <1>11, <1>1, <2>1 DEF EnsureLoad
    <3>2. q = "idle"
      BY <1>3, <2>1
    <3>3. OnRecord' /\ Quiet'
      BY <3>1 DEF EffectInv, OnRecord, Quiet
    <3>4. FirstVisit'
      BY <1>11, <1>0, <3>1, <3>2 DEF EffectInv, FirstVisit, Visiting, Prepares, EnsureLoad
    <3> QED BY <1>5, <3>1, <3>2, <3>3, <3>4
  <2>2. CASE ~(UNCHANGED repository /\ Done(c))
    <3>1. /\ goal' = (IF loaded THEN goal ELSE disk) /\ loaded' = TRUE /\ disk' = disk
          /\ IF caller[c].first /\ goal' # None /\ NeedsPrepare(goal')
             THEN CallerGoto(c, "prepare") ELSE Ensured(c)
          /\ runner' = runner /\ UNCHANGED <<inflight, applied, initialized>> /\ UNCHANGED registry
          /\ p = "load"
      BY <1>11, <1>1, <2>2 DEF EnsureLoad
    <3>2. q \in {"prepare", "body", "idle"} /\ (q = "prepare" => caller[c].first)
      BY <1>2, <1>3, <3>1 DEF Ensured
    <3>3. OnRecord'
      <4>1. CASE loaded
        BY <3>1, <4>1 DEF EffectInv, OnRecord
      <4>2. CASE ~loaded
        BY <3>1, <4>2 DEF EffectInv, OnRecord, Books
      <4> QED BY <4>1, <4>2
    <3>4. Quiet'
      <4>1. ~loaded => Resting0
        BY DEF GoalInv, LoadedFirst
      <4> QED BY <3>1, <4>1 DEF EffectInv, Quiet, QuietPlaces
    <3>5. FirstVisit'
      <4>1. Visiting' => Visiting
        BY <1>0, <3>1, <3>2 DEF Visiting, Prepares
      <4>2. initialized'
        BY <1>0, <3>1
      <4> QED BY <3>1, <4>1, <4>2 DEF EffectInv, FirstVisit
    <3> QED BY <1>5, <3>1, <3>2, <3>3, <3>4, <3>5
  <2> QED BY <2>1, <2>2
<1>12. ASSUME EnsurePrepare(c) PROVE EffectInv'
  <2>1. UNCHANGED <<loaded, inflight, applied, initialized>> /\ runner' = runner /\ UNCHANGED registry /\ p = "prepare"
    BY <1>12, <1>1 DEF EnsurePrepare
  <2>2. Resting0 /\ initialized'
    BY <1>0, <2>1 DEF EffectInv, FirstVisit, Visiting, Prepares
  <2>3. q \in {"body", "idle"}
    BY <1>12, <1>2, <1>3 DEF EnsurePrepare, Ensured
  <2>4. Same \/ (goal # None /\ goal' = prepare_for_restart(goal) /\ disk' = goal')
    BY <1>12, <1>1 DEF EnsurePrepare
  <2>5. goal # None => prepare_for_restart(goal) # None /\ Tidy(goal, prepare_for_restart(goal))
    BY <1>0, CommandOperators, NoneIsNoGoal
  <2>6. OnRecord'
    <3>1. CASE Same
      BY <2>1, <3>1 DEF EffectInv, OnRecord
    <3>2. CASE goal # None /\ goal' = prepare_for_restart(goal) /\ disk' = goal'
      BY <1>0, <2>1, <2>5, <3>2, TidyOnRecord DEF EffectInv
    <3> QED BY <2>4, <3>1, <3>2
  <2>7. Quiet' /\ FirstVisit'
    BY <2>1, <2>2 DEF Quiet, FirstVisit, QuietPlaces
  <2> QED BY <1>5, <2>1, <2>3, <2>6, <2>7
<1>13. ASSUME Steer(c) PROVE EffectInv'
  <2>1. Books0 /\ runner' = runner /\ Admits /\ p \notin {"ensure", "load", "prepare"}
    BY <1>13, <1>1 DEF Steer, files
  <2>2. q \notin {"apply", "cancel", "load", "prepare"}
    BY <1>13, <1>2, <1>3, <1>4 DEF Steer
  <2>3. Kind
    BY <1>13, <1>1 DEF Steer
  <2> QED BY <1>6, <2>1, <2>2, <2>3
<1>14. ASSUME SteerApply(c) PROVE EffectInv'
  <2>1. Books0 /\ runner' = runner /\ Admits /\ p \notin {"ensure", "load", "prepare"}
    BY <1>14, <1>1 DEF SteerApply, files
  <2>2. q \notin {"apply", "cancel", "load", "prepare"}
    BY <1>14, <1>2, <1>3, <1>4 DEF SteerApply
  <2>3. Same \/ (goal # None /\ goal' = [goal EXCEPT !.steering = "waiting"] /\ disk' = goal')
    BY <1>14 DEF SteerApply, Saved, repository
  <2>4. goal # None => Plain(goal, [goal EXCEPT !.steering = "waiting"])
    BY <1>0, CommandOperators
  <2>5. Kind
    BY <2>3, <2>4
  <2> QED BY <1>6, <2>1, <2>2, <2>5
<1>15. ASSUME Pause(c) PROVE EffectInv'
  <2>1. Books0 /\ runner' = runner /\ Admits /\ p \notin {"ensure", "load", "prepare"}
    BY <1>15, <1>1 DEF Pause, files
  <2>2. q \notin {"apply", "cancel", "load", "prepare"}
    BY <1>15, <1>2, <1>3, <1>4 DEF Pause
  <2>3. Same \/ (goal # None /\ goal' = [goal EXCEPT !.status = "Pausing", !.why = "User"] /\ disk' = goal')
    BY <1>15 DEF Pause, Named, Saved, repository
  <2>4. goal # None => Plain(goal, [goal EXCEPT !.status = "Pausing", !.why = "User"])
    BY <1>0, CommandOperators
  <2>5. Kind
    BY <2>3, <2>4
  <2> QED BY <1>6, <2>1, <2>2, <2>5
<1>16. ASSUME Reset(c) PROVE EffectInv'
  <2>1. UNCHANGED <<inflight, initialized>> /\ runner' = runner /\ UNCHANGED registry /\ p = "body"
    BY <1>16 DEF Reset
  <2>2. q = "idle"
    BY <1>16, <1>3 DEF Reset
  <2>3. CASE Same /\ UNCHANGED <<loaded, applied>>
    BY <1>6, <2>1, <2>2, <2>3
  <2>4. CASE goal # None /\ is_terminal(goal) /\ goal' = None /\ disk' = None /\ loaded' = loaded /\ applied' = {}
    <3>1. goal.writes = {}
      BY <2>4 DEF EffectInv, OnRecord, Books, is_terminal
    <3>2. inflight = {}
      BY <2>4, <3>1 DEF EffectInv, OnRecord
    <3>3. OnRecord' /\ Quiet'
      BY <2>1, <2>4, <3>2 DEF OnRecord, Quiet
    <3>4. FirstVisit'
      <4>1. initialized' /\ ~Prepares(c)'
        BY <1>0, <2>1, <2>2 DEF Prepares
      <4> QED BY <1>0, <4>1 DEF FirstVisit, Visiting
    <3> QED BY <1>5, <2>1, <2>2, <3>3, <3>4
  <2> QED BY <1>16, <1>1, <2>3, <2>4 DEF Reset
<1>17. ASSUME CancelGoal(c) PROVE EffectInv'
  BY <1>17, <1>0 DEF CancelGoal
<1>18. ASSUME CancelToken(c) PROVE EffectInv'
  BY <1>18, <1>0 DEF CancelToken
<1>19. ASSUME ResumeCheck(c) PROVE EffectInv'
  <2>1. Books0 /\ runner' = runner /\ Admits /\ p \notin {"ensure", "load", "prepare"}
    BY <1>19, <1>1 DEF ResumeCheck, files
  <2>2. q \notin {"apply", "cancel", "load", "prepare"}
    BY <1>19, <1>2, <1>3, <1>4 DEF ResumeCheck
  <2>3. Kind
    BY <1>19, <1>1 DEF ResumeCheck
  <2> QED BY <1>6, <2>1, <2>2, <2>3
<1>20. ASSUME Reconcile(c) PROVE EffectInv'
  <2>1. Books0 /\ runner' = runner /\ UNCHANGED registry /\ p \notin {"ensure", "load", "prepare"} /\ Same
    BY <1>20, <1>1 DEF Reconcile
  <2>2. CASE q \in {"idle", "reread"}
    BY <1>6, <2>1, <2>2
  <2>3. CASE /\ goal # None /\ Mode(goal) # "none"
             /\ \E r \in Classifications(goal) : caller' = [caller EXCEPT ![c].pc = "apply", ![c].rec = r]
    <3>1. PICK r \in Classifications(goal) : caller' = [caller EXCEPT ![c].pc = "apply", ![c].rec = r]
      BY <2>3
    <3>2. q = "apply" /\ caller'[c].rec = r
      BY <1>0, <3>1 DEF Caller
    <3>3. r.resolved \cap applied \subseteq r.recovered
      BY DEF Classifications
    <3>4. Applying'
      BY <1>0, <2>1, <2>3, <3>2, <3>3 DEF Applying
    <3>5. NeverCancelled'
      BY <1>0, <2>1, <3>2 DEF EffectInv, NeverCancelled, registry
    <3>6. OnRecord' /\ Awaited' /\ Quiet'
      BY <2>1 DEF EffectInv, OnRecord, Awaited, Quiet
    <3>7. FirstVisit'
      <4>1. initialized' /\ ~Prepares(c)'
        BY <1>0, <1>i, <2>1, <3>2 DEF Prepares
      <4> QED BY <1>0, <4>1 DEF FirstVisit, Visiting
    <3> QED BY <3>4, <3>5, <3>6, <3>7 DEF EffectInv
  <2> QED BY <1>20, <1>3, <1>4, <2>2, <2>3 DEF Reconcile
<1>21. ASSUME ApplyRecovery(c) PROVE EffectInv'
  <2> DEFINE r == caller[c].rec
  <2>1. UNCHANGED <<loaded, inflight, applied, initialized>> /\ runner' = runner /\ UNCHANGED registry /\ p = "apply"
    BY <1>21, <1>1 DEF ApplyRecovery
  <2>2. q \in {"idle", "reread"}
    BY <1>21, <1>3, <1>4 DEF ApplyRecovery
  <2>3. CASE Same
    BY <1>6, <2>1, <2>2, <2>3
  <2>4. CASE goal # None /\ \E reads \in {FALSE, goal.reads} : goal' = Reconciled(goal, r, reads) /\ disk' = goal'
    <3>1. /\ goal # None /\ Mode(goal) # "none" /\ r.resolved \cap applied \subseteq r.recovered
          /\ \A g \in Goals : runner[g].pc \in QuietPlaces
      BY <2>1 DEF EffectInv, Applying, Quiet
    <3>2. inflight = {}
      BY <3>1 DEF EffectInv, Awaited, QuietPlaces
    <3>3. PICK reads \in {FALSE, goal.reads} : goal' = Reconciled(goal, r, reads) /\ disk' = goal'
      BY <2>4
    <3>4. r \in Recovery
      BY <1>0 DEF Caller
    <3> HIDE DEF r
    <3>5. /\ goal' \in AgentGoal
          /\ goal'.writes = goal.writes \ r.resolved /\ goal'.receipts = goal.receipts \cup r.recovered
          /\ is_terminal(goal') => is_terminal(goal)
      <4>1. goal \in AgentGoal
        BY <1>0, <3>1
      <4>2. goal' = Reconciled(goal, r, reads)
        BY <3>3
      <4> QED BY <3>4, <4>1, <4>2, RecoveredKeeps, ZenonT(40)
    <3>6. applied \subseteq Kept(goal')
      BY <3>1, <3>5 DEF EffectInv, OnRecord, Kept
    <3>7. is_terminal(goal) => goal.writes = {}
      BY <3>1 DEF EffectInv, OnRecord, Books, is_terminal
    <3>8. OnRecord'
      BY <1>0, <2>1, <3>1, <3>2, <3>3, <3>5, <3>6, <3>7, NoneIsNoGoal DEF OnRecord, Books
    <3>9. Quiet'
      BY <2>1, <3>1 DEF Quiet
    <3>10. FirstVisit'
      <4>1. initialized' /\ ~Prepares(c)'
        BY <1>0, <2>1, <2>2 DEF Prepares
      <4> QED BY <1>0, <4>1 DEF FirstVisit, Visiting
    <3> QED BY <1>5, <2>1, <2>2, <3>8, <3>9, <3>10
  <2>5. Same \/ (goal # None /\ \E reads \in {FALSE, goal.reads} : goal' = Reconciled(goal, r, reads) /\ disk' = goal')
    <3>1. CASE UNCHANGED repository
      BY <1>1, <3>1
    <3>2. CASE ~UNCHANGED repository
      <4>1. PICK reads \in {FALSE, goal.reads} : goal # None /\ Saved([Recovered(goal, r) EXCEPT !.reads = reads])
        BY <1>21, <3>2 DEF ApplyRecovery
      <4> QED BY <1>1, <4>1 DEF Reconciled
    <3> QED BY <3>1, <3>2
  <2> QED BY <2>3, <2>4, <2>5
<1>22. ASSUME ResumeReread(c) PROVE EffectInv'
  <2>1. Books0 /\ runner' = runner /\ Admits /\ p \notin {"ensure", "load", "prepare"}
    BY <1>22, <1>1 DEF ResumeReread, files
  <2>2. q \notin {"apply", "cancel", "load", "prepare"}
    BY <1>22, <1>2, <1>3, <1>4 DEF ResumeReread
  <2>3. Kind
    BY <1>22, <1>1 DEF ResumeReread
  <2> QED BY <1>6, <2>1, <2>2, <2>3
<1>23. ASSUME ResumeRegister(c) PROVE EffectInv'
  <2>1. Books0 /\ runner' = runner /\ Same /\ p \notin {"ensure", "load", "prepare"}
    BY <1>23, <1>1 DEF ResumeRegister
  <2>2. q \in {"requeue", "idle"}
    BY <1>23, <1>2, <1>3 DEF ResumeRegister
  <2>3. Admits
    BY <1>23 DEF ResumeRegister
  <2> QED BY <1>6, <2>1, <2>2, <2>3
<1>24. ASSUME ResumeRequeue(c) PROVE EffectInv'
  <2>1. Books0 /\ p = "requeue" /\ Resting0
    BY <1>24, <1>0, <1>1 DEF ResumeRequeue, Holding, repository, files, Saved, Unsaved
  <2>2. q = "idle"
    BY <1>24, <1>3 DEF ResumeRequeue
  <2>3. Admits
    BY <1>24 DEF ResumeRequeue
  <2>4. runner' = runner \/ Starts
    <3>1. runner' = runner \/ LoopTop(i)
      BY <1>24 DEF ResumeRequeue
    <3> QED BY <1>l, <2>1, <3>1
  <2>5. \/ Same
        \/ goal # None /\ goal' \in {goal, Switched(goal)} /\ disk' = disk
        \/ goal # None /\ goal' \in {Requeued(goal), Requeued(Switched(goal))} /\ disk' = goal'
    BY <1>24, <1>1 DEF ResumeRequeue, Requeueable, Named
  <2>6. goal # None => Switched(goal).status = goal.status
    BY <1>0 DEF Switched, AgentGoal
  <2>7. Kind
    BY <1>0, <2>5, <2>6, CommandOperators
  <2> QED BY <1>6, <2>1, <2>2, <2>3, <2>4, <2>7
<1>25. ASSUME Extend(c) PROVE EffectInv'
  <2>1. Books0 /\ runner' = runner /\ UNCHANGED registry /\ p \notin {"ensure", "load", "prepare"}
    BY <1>25, <1>1 DEF Extend
  <2>2. q \in {"launch", "idle"}
    BY <1>25, <1>2, <1>3 DEF Extend
  <2>3. Same \/ (goal # None /\ \E h \in Extensions(goal) : goal' \in {h, Requeued(h)} /\ disk' = goal')
    BY <1>25, <1>1 DEF Extend, Named
  <2>4. Kind
    BY <1>0, <2>3, CommandOperators
  <2> QED BY <1>6, <2>1, <2>2, <2>4
<1>26. ASSUME ExtendLaunch(c) PROVE EffectInv'
  <2>1. Books0 /\ Same /\ p = "launch"
    BY <1>26, <1>1 DEF ExtendLaunch
  <2>2. q = "idle"
    BY <1>26, <1>3 DEF ExtendLaunch
  <2>3. Admits
    BY <1>26 DEF ExtendLaunch
  <2>4. runner' = runner \/ Starts
    <3>1. runner' = runner \/ (LoopTop(i) /\ Resting0)
      BY <1>26, <1>r DEF ExtendLaunch
    <3> QED BY <1>l, <3>1
  <2> QED BY <1>6, <2>1, <2>2, <2>3, <2>4
<1>27. ASSUME CreateRegister(c) PROVE EffectInv'
  <2>1. Books0 /\ runner' = runner /\ Same /\ p \notin {"ensure", "load", "prepare"}
    BY <1>27, <1>1 DEF CreateRegister
  <2>2. q \in {"digest", "idle"}
    BY <1>27, <1>2, <1>3 DEF CreateRegister
  <2>3. Admits
    BY <1>27 DEF CreateRegister
  <2> QED BY <1>6, <2>1, <2>2, <2>3
<1>28. ASSUME CreateDigest(c) PROVE EffectInv'
  <2>1. Books0 /\ runner' = runner /\ Admits /\ p \notin {"ensure", "load", "prepare"}
    BY <1>28, <1>1 DEF CreateDigest, files
  <2>2. q \notin {"apply", "cancel", "load", "prepare"}
    BY <1>28, <1>2, <1>3, <1>4 DEF CreateDigest
  <2>3. Kind
    BY <1>28, <1>1 DEF CreateDigest
  <2> QED BY <1>6, <2>1, <2>2, <2>3
<1>29. ASSUME CreateGoal(c) PROVE EffectInv'
  <2>1. UNCHANGED <<inflight, initialized>> /\ p = "create" /\ Resting0
    BY <1>29, <1>0 DEF CreateGoal, Holding
  <2>2. q = "idle"
    BY <1>29, <1>3 DEF CreateGoal
  <2>3. Admits
    BY <1>29 DEF CreateGoal
  <2>4. runner' = runner \/ Starts
    <3>1. runner' = runner \/ LoopTop(i)
      BY <1>29 DEF CreateGoal
    <3> QED BY <1>l, <2>1, <3>1
  <2>5. inflight = {} /\ loaded
    BY <1>0, <1>e, <2>1
  <2>6. \/ goal' = NewGoal(i) /\ disk' = goal' /\ applied' = {} /\ loaded' = loaded
        \/ Same /\ applied' = applied /\ loaded' = loaded
        \/ goal' = None /\ disk' = disk /\ applied' = {} /\ loaded' = loaded
    BY <1>29, <1>1 DEF CreateGoal
  <2>7. OnRecord'
    <3>1. NewGoal(i) \in AgentGoal /\ NewGoal(i).writes = {}
      BY <1>0, <2>1, NewGoalType DEF NewGoal
    <3>2. CASE goal' = NewGoal(i) /\ disk' = goal' /\ applied' = {} /\ loaded' = loaded
      BY <2>1, <2>5, <3>1, <3>2, NoneIsNoGoal DEF OnRecord, Books
    <3>3. CASE Same /\ applied' = applied /\ loaded' = loaded
      BY <2>1, <3>3 DEF EffectInv, OnRecord
    <3>4. CASE goal' = None /\ disk' = disk /\ applied' = {} /\ loaded' = loaded
      BY <2>1, <2>5, <3>4 DEF EffectInv, OnRecord
    <3> QED BY <2>6, <3>2, <3>3, <3>4
  <2>8. Quiet'
    BY <2>1, <2>4 DEF Quiet, QuietPlaces
  <2>9. FirstVisit'
    <3>1. initialized' /\ ~Prepares(c)'
      BY <1>0, <2>1, <2>2 DEF Prepares
    <3> QED BY <1>0, <3>1 DEF FirstVisit, Visiting
  <2> QED BY <1>5, <2>1, <2>2, <2>3, <2>4, <2>7, <2>8, <2>9
<1> QED BY <1>10, <1>11, <1>12, <1>13, <1>14, <1>15, <1>16, <1>17, <1>18, <1>19, <1>20, <1>21, <1>22, <1>23, <1>24, <1>25, <1>26, <1>27, <1>28, <1>29 DEF CallerStep

(* Every other step: a write that lands, a command that starts, the clock   *)
(* and a crash, which loses the goal in memory but not what it had saved.   *)
LEMMA EffectKeeps == Waited /\ GoalInv /\ EffectInv /\ [Next]_vars => EffectInv'
<1> SUFFICES ASSUME Waited, GoalInv, EffectInv, [Next]_vars PROVE EffectInv'
  OBVIOUS
<1>0. /\ Types /\ Admission
      /\ NeverCancelled /\ OnRecord /\ Awaited /\ Quiet /\ Applying /\ FirstVisit
  BY DEF GoalInv, RuntimeInv, EffectInv
<1>1. CASE \E g \in Goals : RunnerStep(g)
  BY <1>1, RunnerKeepsEffects
<1>2. CASE \E c \in Callers : CallerStep(c)
  BY <1>2, CallerKeepsEffects
<1>3. CASE \E e \in Execs : WriteSettles(e)
  <2>1. PICK e \in Execs : WriteSettles(e)
    BY <1>3
  <2>2. /\ UNCHANGED <<goal, disk, loaded, initialized, runner, caller, pending, cancelled>>
        /\ e \in inflight /\ inflight' = inflight \ {e} /\ applied' \subseteq applied \cup {e}
        /\ applied' \cap inflight' \subseteq applied \cap inflight
    BY <2>1 DEF WriteSettles, RunnerOnly, repository, registry
  <2>3. PICK g \in Goals : runner[g].pc = "writing"
    BY <1>0, <2>2 DEF Awaited
  <2>4. ~(HasGoal /\ Mode(goal) # "none")
    BY <1>0, <2>3 DEF Quiet, QuietPlaces
  <2>5. OnRecord'
    BY <1>0, <2>2 DEF OnRecord, HasGoal, Kept
  <2>6. Awaited' /\ Quiet' /\ FirstVisit' /\ NeverCancelled'
    BY <1>0, <2>2 DEF Awaited, Quiet, HasGoal, FirstVisit, Visiting, Prepares, NeverCancelled
  <2>7. Applying'
    BY <1>0, <2>2, <2>4 DEF Applying
  <2> QED BY <2>5, <2>6, <2>7 DEF EffectInv
<1>4. CASE \E c \in Callers, op \in Ops, g \in Goals : Invoke(c, op, g)
  <2>1. PICK c \in Callers, op \in Ops, g \in Goals : Invoke(c, op, g)
    BY <1>4
  <2>2. caller \in [Callers -> Caller]
    BY <1>0 DEF Types
  <2>3. [IdleCaller EXCEPT !.op = op, !.id = g, !.pc = "ensure"].pc = "ensure"
    BY DEF IdleCaller
  <2>4. /\ caller'[c].pc = "ensure"
        /\ \A d \in Callers \ {c} : caller'[d] = caller[d]
    BY <2>1, <2>2, <2>3 DEF Invoke
  <2>5. UNCHANGED <<goal, disk, loaded, initialized, runner, inflight, applied, pending, cancelled>>
    BY <2>1 DEF Invoke, repository, files, registry
  <2>6. OnRecord' /\ Awaited' /\ Quiet'
    BY <1>0, <2>5 DEF OnRecord, Awaited, Quiet, HasGoal
  <2>7. Applying'
    BY <1>0, <2>4, <2>5 DEF Applying, HasGoal
  <2>8. NeverCancelled'
    BY <1>0, <2>4, <2>5 DEF NeverCancelled
  <2>9. FirstVisit'
    <3>1. Visiting' => Visiting
      BY <2>4, <2>5 DEF Visiting, Prepares
    <3> QED BY <1>0, <2>4, <2>5, <3>1 DEF FirstVisit
  <2> QED BY <2>6, <2>7, <2>8, <2>9 DEF EffectInv
<1>5. CASE Tick
  <2>1. UNCHANGED <<goal, disk, loaded, initialized, runner, caller, inflight, applied>> /\ Registry!Tick
    BY <1>5 DEF Tick, repository, files
  <2>2. RegistryFacts!NoneIn(pending, Goals)' /\ \A g \in Goals : ~cancelled'[g]
    <3>1. CASE Goals = {}
      BY <3>1 DEF RegistryFacts!NoneIn
    <3>2. CASE \E g \in Goals : TRUE
      BY <1>0, <2>1, <3>2, RegistryUncancelled DEF NeverCancelled
    <3> QED BY <3>1, <3>2
  <2>3. NeverCancelled'
    BY <1>0, <2>1, <2>2 DEF NeverCancelled
  <2>4. OnRecord' /\ Awaited' /\ Quiet' /\ Applying' /\ FirstVisit'
    BY <1>0, <2>1 DEF OnRecord, Awaited, Quiet, Applying, FirstVisit, Visiting, Prepares, HasGoal
  <2> QED BY <2>3, <2>4 DEF EffectInv
<1>6. CASE Crash
  <2>1. /\ goal' = None /\ loaded' = FALSE /\ disk' = disk /\ initialized' = FALSE
        /\ inflight' = {} /\ applied' \subseteq applied \cup inflight
        /\ pending' = <<>> /\ \A g \in Goals : ~cancelled'[g]
        /\ \A g \in Goals : runner'[g].pc = "idle"
        /\ \A c \in Callers : caller'[c].pc = "idle"
    BY <1>6, IdleRunnerType, IdleCallerType DEF Crash
  <2>2. loaded \in BOOLEAN
    BY <1>0 DEF Types, RepositoryTypes
  <2>3. applied \cup inflight \subseteq (IF disk = None THEN {} ELSE Kept(disk))
    <3>1. CASE ~loaded
      BY <1>0, <3>1 DEF OnRecord
    <3>2. CASE loaded /\ ~HasGoal
      BY <1>0, <3>2 DEF OnRecord
    <3>3. CASE HasGoal
      BY <1>0, <3>3 DEF OnRecord, Books, Kept
    <3> QED BY <2>2, <3>1, <3>2, <3>3
  <2>4. OnRecord'
    <3>1. applied' \subseteq (IF disk = None THEN {} ELSE Kept(disk))
      BY <2>1, <2>3
    <3> QED BY <1>0, <2>1, <3>1 DEF OnRecord, HasGoal
  <2>5. NeverCancelled'
    BY <2>1 DEF NeverCancelled, RegistryFacts!NoneIn
  <2>6. Awaited' /\ Quiet' /\ Applying' /\ FirstVisit'
    BY <2>1 DEF Awaited, Quiet, Applying, FirstVisit, HasGoal
  <2> QED BY <2>4, <2>5, <2>6 DEF EffectInv
<1>7. CASE UNCHANGED vars
  <2>1. UNCHANGED <<goal, disk, loaded, initialized, runner, caller, inflight, applied, pending, cancelled>>
    BY <1>7 DEF vars, repository, files, registry
  <2> QED BY <1>0, <2>1 DEF EffectInv, OnRecord, Awaited, Quiet, Applying, FirstVisit, Visiting, Prepares,
         HasGoal, NeverCancelled, RegistryFacts!NoneIn
<1> QED BY <1>1, <1>2, <1>3, <1>4, <1>5, <1>6, <1>7 DEF Next

(* Every write that reached its file is on the goal's books, as an intent   *)
(* or as a receipt, in memory and, after a crash, on disk: run_guarded      *)
(* saves the intent before the file is touched and drops it with the        *)
(* receipt, and a recovery drops an intent only where it found the file as  *)
(* it was, or for a receipt.  It holds of one command at a time, with no    *)
(* cancel_goal among them and no write outliving the slice that waits.      *)
THEOREM EffectAccountedWhenAwaited ==
    ASSUME Waited
    PROVE  Spec => []EffectAccounted
<1>1. Init => EffectInv
  <2> SUFFICES ASSUME Init PROVE EffectInv
    OBVIOUS
  <2>1. /\ \A g \in Goals : runner[g].pc = "idle"
        /\ \A c \in Callers : caller[c].pc = "idle"
        /\ goal = None /\ disk = None /\ loaded = FALSE /\ initialized = FALSE
        /\ inflight = {} /\ applied = {}
        /\ pending = <<>> /\ \A g \in Goals : ~cancelled[g]
    BY IdleRunnerType, IdleCallerType DEF Init, Registry!Init
  <2> QED BY <2>1 DEF EffectInv, NeverCancelled, RegistryFacts!NoneIn, OnRecord, HasGoal, Awaited, Quiet,
         Applying, FirstVisit
<1>2. GoalInv /\ EffectInv /\ [Next]_vars => EffectInv'
  BY EffectKeeps
<1>3. GoalInv /\ EffectInv => EffectAccounted
  <2> SUFFICES ASSUME GoalInv, EffectInv PROVE EffectAccounted
    OBVIOUS
  <2>1. OnRecord /\ loaded \in BOOLEAN
    BY DEF GoalInv, RuntimeInv, Types, RepositoryTypes, EffectInv
  <2>2. CASE ~loaded
    BY <2>1, <2>2 DEF OnRecord, EffectAccounted, Kept
  <2>3. CASE loaded
    BY <2>1, <2>3 DEF OnRecord, HasGoal, EffectAccounted, Kept
  <2> QED BY <2>1, <2>2, <2>3
<1> QED BY <1>1, <1>2, <1>3, GoalInvariant, PTL DEF Spec

=============================================================================
