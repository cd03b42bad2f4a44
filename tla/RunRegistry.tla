----------------------------- MODULE RunRegistry -----------------------------
(****************************************************************************)
(* ReviewRunRegistry (app/src-tauri/src/review_commands.rs): the process-   *)
(* wide table of running agent tasks.  Every operation holds the one mutex, *)
(* so each is one atomic action.  A cancel that arrives before its run is   *)
(* registered is remembered in a bounded queue with a time to live, and the *)
(* registration that finds it there starts with its token cancelled.        *)
(*                                                                          *)
(* Time: the code stores the Instant of a cancellation and compares         *)
(* now - created with PENDING_CANCELLATION_TTL.  register_resource and      *)
(* cancel read that now before they wait for the lock, so each operation    *)
(* comes with the lag between its reading and the lock, and two of them may *)
(* get the lock in the other order than they read the clock.  The model     *)
(* keeps ages, in ticks, and stops counting at MAX_AGE, where an entry has  *)
(* expired for every reading.                                               *)
(****************************************************************************)
EXTENDS Integers, Sequences

CONSTANTS RunIds,                     \* run_id / goal_id strings
          Resources,                  \* resource_key strings
          MAX_PENDING_CANCELLATIONS,  \* 128 in the code
          PENDING_CANCELLATION_TTL,   \* 60 s in the code, here in ticks
          MAX_LAG,                    \* longest wait for the lock, in ticks
          NoRun                       \* the absent HashMap entry

ASSUME RegistryAssumption ==
    /\ MAX_PENDING_CANCELLATIONS \in Nat \ {0}
    /\ PENDING_CANCELLATION_TTL \in Nat \ {0}
    /\ MAX_LAG \in Nat
    /\ NoRun \notin RunIds \cup Resources

VARIABLES
    active,            \* run -> the resource_key of its ActiveReviewRun, or NoRun
    cancelled,         \* run -> its ReviewCancellation flag (FALSE while inactive)
    active_resources,  \* resource_key -> the run that holds it, or NoRun
    pending            \* queue of cancellations not yet claimed by a run

vars == <<active, cancelled, active_resources, pending>>

Lags == 0..MAX_LAG
MAX_AGE == PENDING_CANCELLATION_TTL + 2 * MAX_LAG

Entry == [run : RunIds, age : 0..MAX_AGE]

TypeOK ==
    /\ active \in [RunIds -> Resources \cup {NoRun}]
    /\ cancelled \in [RunIds -> BOOLEAN]
    /\ active_resources \in [Resources -> RunIds \cup {NoRun}]
    /\ pending \in Seq(Entry)

IsActive(run) == active[run] # NoRun

Init ==
    /\ active = [r \in RunIds |-> NoRun]
    /\ cancelled = [r \in RunIds |-> FALSE]
    /\ active_resources = [k \in Resources |-> NoRun]
    /\ pending = <<>>

----------------------------------------------------------------------------
(* For a caller that read the clock lag ticks ago.                          *)
Expired(entry, lag) == entry.age - lag >= PENDING_CANCELLATION_TTL

(* How many entries prune_pending pops from the front: every leading        *)
(* expired one, then as many as the length cap demands.                     *)
ExpiredPrefix(queue, lag) ==
    CHOOSE k \in 0..Len(queue) :
        /\ \A i \in 1..k : Expired(queue[i], lag)
        /\ k < Len(queue) => ~Expired(queue[k + 1], lag)

OverCap(queue) ==
    IF Len(queue) > MAX_PENDING_CANCELLATIONS
    THEN Len(queue) - MAX_PENDING_CANCELLATIONS ELSE 0

DropFirst(queue, k) == SubSeq(queue, k + 1, Len(queue))

(* Mutant: only the cap evicts, an old cancellation never expires.          *)
PruneNeverExpires(queue, lag) == DropFirst(queue, OverCap(queue))

prune_pending(queue, lag) ==
    LET fresh == DropFirst(queue, ExpiredPrefix(queue, lag))
    IN  DropFirst(fresh, OverCap(fresh))

IsPending(queue, run) == \E i \in 1..Len(queue) : queue[i].run = run

Position(queue, run) ==
    CHOOSE i \in 1..Len(queue) :
        queue[i].run = run /\ \A j \in 1..(i - 1) : queue[j].run # run

RemoveEntry(queue, run) ==
    LET p == Position(queue, run)
    IN  SubSeq(queue, 1, p - 1) \o SubSeq(queue, p + 1, Len(queue))

----------------------------------------------------------------------------
(* register_at.  Both refusals still prune the queue.                       *)
RegisterRefused(run, key) ==
    /\ IsActive(run) \/ active_resources[key] # NoRun
    /\ \E lag \in Lags : pending' = prune_pending(pending, lag)
    /\ UNCHANGED <<active, cancelled, active_resources>>

RegisteredAt(run, key, lag) ==
    LET queue == prune_pending(pending, lag)
    IN  /\ ~IsActive(run)
        /\ active_resources[key] = NoRun
        /\ cancelled' = [cancelled EXCEPT ![run] = IsPending(queue, run)]
        /\ pending' = IF IsPending(queue, run) THEN RemoveEntry(queue, run) ELSE queue
        /\ active' = [active EXCEPT ![run] = key]
        /\ active_resources' = [active_resources EXCEPT ![key] = run]

Registered(run, key) == \E lag \in Lags : RegisteredAt(run, key, lag)

Register(run, key) == RegisterRefused(run, key) \/ Registered(run, key)

Queued(queue, run, lag) == Append(queue, [run |-> run, age |-> lag])

(* Mutant: the queue is not searched before the cancellation is queued.     *)
CancelQueuesTwice(run, lag) ==
    /\ cancelled' = [cancelled EXCEPT ![run] = @ \/ IsActive(run)]
    /\ pending' = prune_pending(Queued(prune_pending(pending, lag), run, lag), lag)
    /\ UNCHANGED <<active, active_resources>>

(* cancel_at                                                                *)
CancelAt(run, lag) ==
    LET queue == prune_pending(pending, lag)
    IN  /\ cancelled' = [cancelled EXCEPT ![run] = @ \/ IsActive(run)]
        /\ pending' = IF IsActive(run) \/ IsPending(queue, run)
                      THEN queue
                      ELSE prune_pending(Queued(queue, run, lag), lag)
        /\ UNCHANGED <<active, active_resources>>

Cancel(run) == \E lag \in Lags : CancelAt(run, lag)

(* Mutant: finish forgets to release the resource.                          *)
FinishKeepsResource(run) ==
    /\ active' = [active EXCEPT ![run] = NoRun]
    /\ cancelled' = [cancelled EXCEPT ![run] = FALSE]
    /\ UNCHANGED <<active_resources, pending>>

(* finish: the resource is released through the key the run recorded.  The  *)
(* token dies with the task, so its flag returns to FALSE.                  *)
Finish(run) ==
    /\ active' = [active EXCEPT ![run] = NoRun]
    /\ cancelled' = [cancelled EXCEPT ![run] = FALSE]
    /\ active_resources' =
          IF IsActive(run)
          THEN [active_resources EXCEPT ![active[run]] = NoRun]
          ELSE active_resources
    /\ UNCHANGED pending

(* One tick of Instant::now(): every queued cancellation grows older.       *)
Tick ==
    /\ pending' = [i \in 1..Len(pending) |->
                     [pending[i] EXCEPT !.age = IF @ = MAX_AGE THEN @ ELSE @ + 1]]
    /\ pending' # pending
    /\ UNCHANGED <<active, cancelled, active_resources>>

Next ==
    \/ \E run \in RunIds, key \in Resources : Register(run, key)
    \/ \E run \in RunIds : Cancel(run) \/ Finish(run)
    \/ Tick

Spec == Init /\ [][Next]_vars

----------------------------------------------------------------------------
(* active and active_resources are two halves of one relation: the run that *)
(* a resource names is active on that resource, and every active run is     *)
(* named by its resource.  finish() releases the wrong resource, or none,   *)
(* as soon as they disagree, and a resource would stay busy for ever.       *)
ResourcesMirrorActive ==
    /\ \A run \in RunIds : IsActive(run) => active_resources[active[run]] = run
    /\ \A key \in Resources :
          active_resources[key] # NoRun => active[active_resources[key]] = key

Distinct(queue) ==
    \A i, j \in 1..Len(queue) : queue[i].run = queue[j].run => i = j

OldestFirst(queue) ==
    \A i, j \in 1..Len(queue) : i <= j => queue[i].age + MAX_LAG >= queue[j].age

(* The queue never exceeds its cap, names a run once, and never names a run *)
(* that is active: a cancellation is either queued or delivered, not both.  *)
(* It is ordered by age up to the wait for the lock, so that prune_pending, *)
(* which stops at the first fresh entry, leaves nothing behind it that has  *)
(* been expired for longer than the two waits.                              *)
PendingSound ==
    /\ Len(pending) <= MAX_PENDING_CANCELLATIONS
    /\ Distinct(pending)
    /\ \A run \in RunIds : IsActive(run) => ~IsPending(pending, run)
    /\ OldestFirst(pending)

(* A registration starts cancelled when a cancellation for it was queued    *)
(* and had not expired, and only then, but for the time both sides may have *)
(* waited for the lock: no fresh cancellation is lost and no stale one hits *)
(* a later run of the same id, whatever was queued around it.               *)
WaitsYounger(run, age) ==
    \E i \in 1..Len(pending) : pending[i].run = run /\ pending[i].age < age

CancellationHonoured ==
    [][\A run \in RunIds :
          ~IsActive(run) /\ IsActive(run)' =>
             /\ WaitsYounger(run, PENDING_CANCELLATION_TTL) => cancelled'[run]
             /\ cancelled'[run] => WaitsYounger(run, MAX_AGE)]_vars

=============================================================================
