-------------------------- MODULE RunRegistryProofs --------------------------
(****************************************************************************)
(* What TLAPS proves of RunRegistry, for every set of runs and resources    *)
(* and every queue bound and time to live.                                  *)
(****************************************************************************)
EXTENDS RunRegistry, TLAPS, SequenceTheorems, WellFoundedInduction

----------------------------------------------------------------------------
(* The queue operators.                                                     *)

(* A non-empty set of naturals has a least element.                         *)
LEMMA LeastNatural ==
    ASSUME NEW T \in SUBSET Nat, T # {}
    PROVE  \E x \in T : \A y \in T : x <= y
<1> DEFINE R == OpToRel(<, Nat)
<1>1. IsWellFoundedOn(R, Nat)
  BY NatLessThanWellFounded
<1>2. \E x \in T : \A y \in T : ~(<<y, x>> \in R)
  <2> HIDE DEF R
  <2> QED BY <1>1, WFMin
<1>3. \A x, y \in T : ~(<<y, x>> \in R) => x <= y
  BY DEF OpToRel
<1> QED BY <1>2, <1>3

(* prune_pending can always stop: the leading expired entries end somewhere.*)
LEMMA ExpiredPrefixExists ==
    ASSUME NEW q \in Seq(Entry), NEW lag
    PROVE  LET k == ExpiredPrefix(q, lag) IN
             /\ k \in 0..Len(q)
             /\ \A i \in 1..k : Expired(q[i], lag)
             /\ k < Len(q) => ~Expired(q[k + 1], lag)
<1> DEFINE T == {k \in 0..Len(q) : k < Len(q) => ~Expired(q[k + 1], lag)}
<1>1. Len(q) \in T /\ T \in SUBSET Nat
  BY LenProperties
<1>2. PICK k \in T : \A y \in T : k <= y
  <2> HIDE DEF T
  <2> QED BY <1>1, LeastNatural
<1>3. \A i \in 1..k : Expired(q[i], lag)
  <2> SUFFICES ASSUME NEW i \in 1..k, ~Expired(q[i], lag) PROVE FALSE
    OBVIOUS
  <2>1. k \in Nat /\ k <= Len(q) /\ Len(q) \in Nat
    BY LenProperties
  <2>2. i - 1 \in T
    BY <2>1
  <2> HIDE DEF T
  <2> QED BY <2>1, <2>2, <1>2
<1> QED BY <1>2, <1>3 DEF ExpiredPrefix

(* Dropping a prefix keeps the rest in place.                               *)
LEMMA DropFirstFacts ==
    ASSUME NEW q \in Seq(Entry), NEW k \in 0..Len(q)
    PROVE  /\ DropFirst(q, k) \in Seq(Entry)
           /\ Len(DropFirst(q, k)) = Len(q) - k
           /\ \A i \in 1..(Len(q) - k) : DropFirst(q, k)[i] = q[i + k]
<1>1. Len(q) \in Nat /\ \A i \in 1..Len(q) : q[i] \in Entry
  BY LenProperties, ElementOfSeq
<1>2. \A i \in (k + 1)..Len(q) : q[i] \in Entry
  BY <1>1
<1>3. /\ DropFirst(q, k) \in Seq(Entry)
      /\ Len(DropFirst(q, k)) = IF k + 1 <= Len(q) THEN Len(q) - (k + 1) + 1 ELSE 0
      /\ \A i \in 1..(Len(q) - (k + 1) + 1) : DropFirst(q, k)[i] = q[(k + 1) + i - 1]
  BY <1>1, <1>2, SubSeqProperties, k + 1 \in Int, Len(q) \in Int DEF DropFirst
<1> QED BY <1>1, <1>3

(* What prune_pending returns: a suffix of the queue, within the cap; and   *)
(* when the queue respected the cap, only expired entries are gone and the  *)
(* first one left is fresh.                                                 *)
Pruned(q, p, d, lag) ==
    /\ p \in Seq(Entry)
    /\ d \in 0..Len(q)
    /\ Len(p) = Len(q) - d
    /\ \A i \in 1..Len(p) : p[i] = q[i + d]
    /\ Len(p) <= MAX_PENDING_CANCELLATIONS
    /\ Len(q) <= MAX_PENDING_CANCELLATIONS =>
          /\ \A i \in 1..d : Expired(q[i], lag)
          /\ d < Len(q) => ~Expired(q[d + 1], lag)

(* Pruning drops a number of entries from the front of the queue.            *)
LEMMA PruneFacts ==
    ASSUME NEW q \in Seq(Entry), NEW lag
    PROVE  \E d \in 0..Len(q) : Pruned(q, prune_pending(q, lag), d, lag)
<1> DEFINE k == ExpiredPrefix(q, lag)
           f == DropFirst(q, k)
           c == OverCap(f)
           p == DropFirst(f, c)
<1>1. Len(q) \in Nat /\ MAX_PENDING_CANCELLATIONS \in Nat \ {0}
  BY LenProperties, RegistryAssumption
<1>2. /\ k \in 0..Len(q)
      /\ \A i \in 1..k : Expired(q[i], lag)
      /\ k < Len(q) => ~Expired(q[k + 1], lag)
  BY ExpiredPrefixExists
<1> HIDE DEF k
<1>3. /\ f \in Seq(Entry)
      /\ Len(f) = Len(q) - k
      /\ \A i \in 1..(Len(q) - k) : f[i] = q[i + k]
  BY <1>2, DropFirstFacts
<1> HIDE DEF f
<1>4. /\ c \in 0..Len(f)
      /\ Len(f) - c <= MAX_PENDING_CANCELLATIONS
      /\ Len(f) <= MAX_PENDING_CANCELLATIONS => c = 0
  BY <1>1, <1>2, <1>3 DEF OverCap
<1> HIDE DEF c
<1>5. /\ p \in Seq(Entry)
      /\ Len(p) = Len(f) - c
      /\ \A i \in 1..(Len(f) - c) : p[i] = f[i + c]
  BY <1>3, <1>4, DropFirstFacts
<1> HIDE DEF p
<1>6. \A i \in 1..Len(p) : p[i] = q[i + (k + c)]
  <2> SUFFICES ASSUME NEW i \in 1..Len(p) PROVE p[i] = q[i + (k + c)]
    OBVIOUS
  <2>1. i + c \in 1..(Len(q) - k) /\ i \in 1..(Len(f) - c)
    BY <1>1, <1>2, <1>3, <1>4, <1>5
  <2>2. p[i] = f[i + c] /\ f[i + c] = q[(i + c) + k]
    BY <2>1, <1>3, <1>5
  <2>3. (i + c) + k = i + (k + c)
    BY <1>1, <1>2, <1>3, <1>4
  <2> QED BY <2>2, <2>3
<1>7. Pruned(q, p, k + c, lag)
  BY <1>1, <1>2, <1>3, <1>4, <1>5, <1>6 DEF Pruned
<1>8. p = prune_pending(q, lag)
  BY DEF prune_pending, p, c, f, k
<1> QED BY <1>1, <1>2, <1>3, <1>4, <1>7, <1>8

(* Properties of a queue that pruning and removal keep.                     *)
QueueOK(q) == q \in Seq(Entry) /\ Distinct(q) /\ OldestFirst(q)
NoneIn(q, S) == \A i \in 1..Len(q) : q[i].run \notin S

(* A pruned queue is as sound as it was, and within its cap.                 *)
LEMMA PruneKeeps ==
    ASSUME NEW q, QueueOK(q), NEW S, NoneIn(q, S), NEW lag
    PROVE  /\ QueueOK(prune_pending(q, lag))
           /\ NoneIn(prune_pending(q, lag), S)
           /\ Len(prune_pending(q, lag)) <= MAX_PENDING_CANCELLATIONS
<1>1. q \in Seq(Entry) /\ Len(q) \in Nat
  BY LenProperties DEF QueueOK
<1> DEFINE p == prune_pending(q, lag)
<1>2. PICK d \in 0..Len(q) : Pruned(q, p, d, lag)
  BY <1>1, PruneFacts
<1> HIDE DEF p
<1>3. /\ Len(p) \in Nat /\ p \in Seq(Entry) /\ Len(p) = Len(q) - d
      /\ \A i \in 1..Len(p) : i + d \in 1..Len(q) /\ p[i] = q[i + d]
      /\ Len(p) <= MAX_PENDING_CANCELLATIONS
  BY <1>1, <1>2, LenProperties DEF Pruned
<1>4. Distinct(p)
  <2> SUFFICES ASSUME NEW i \in 1..Len(p), NEW j \in 1..Len(p), p[i].run = p[j].run
               PROVE  i = j
    BY DEF Distinct
  <2>1. i + d = j + d
    BY <1>3 DEF QueueOK, Distinct
  <2> QED BY <2>1, <1>1, <1>3
<1>5. OldestFirst(p)
  <2> SUFFICES ASSUME NEW i \in 1..Len(p), NEW j \in 1..Len(p), i <= j
               PROVE  p[i].age + MAX_LAG >= p[j].age
    BY DEF OldestFirst
  <2>1. i + d <= j + d
    BY <1>1, <1>3
  <2> QED BY <2>1, <1>3 DEF QueueOK, OldestFirst
<1>6. NoneIn(p, S)
  BY <1>3 DEF NoneIn
<1> QED BY <1>3, <1>4, <1>5, <1>6 DEF QueueOK, p

(* Removing the entry of a run leaves a queue in order that names it no more.*)
LEMMA RemoveKeeps ==
    ASSUME NEW q, QueueOK(q), NEW S, NoneIn(q, S), NEW run \in RunIds, IsPending(q, run)
    PROVE  /\ QueueOK(RemoveEntry(q, run))
           /\ NoneIn(RemoveEntry(q, run), S \cup {run})
           /\ Len(RemoveEntry(q, run)) = Len(q) - 1
<1>1. q \in Seq(Entry) /\ Len(q) \in Nat /\ \A i \in 1..Len(q) : q[i] \in Entry
  BY LenProperties, ElementOfSeq DEF QueueOK
<1> DEFINE p == Position(q, run)
           a == SubSeq(q, 1, p - 1)
           b == SubSeq(q, p + 1, Len(q))
           r == a \o b
<1>2. PICK n \in 1..Len(q) : q[n].run = run
  BY DEF IsPending
<1>3. \A i \in 1..Len(q) : q[i].run = run => i = n
  BY <1>2 DEF QueueOK, Distinct
<1>4. p = n
  <2>1. q[n].run = run /\ \A j \in 1..(n - 1) : q[j].run # run
    BY <1>1, <1>2, <1>3
  <2>2. p \in 1..Len(q) /\ q[p].run = run
    BY <2>1 DEF Position
  <2> QED BY <2>2, <1>3
<1> HIDE DEF p
<1>5. /\ a \in Seq(Entry)
      /\ Len(a) = n - 1
      /\ \A i \in 1..(n - 1) : a[i] = q[i]
  <2>1. \A i \in 1..(n - 1) : q[i] \in Entry
    BY <1>1
  <2>2. /\ a \in Seq(Entry)
        /\ Len(a) = IF 1 <= n - 1 THEN (n - 1) - 1 + 1 ELSE 0
        /\ \A i \in 1..((n - 1) - 1 + 1) : a[i] = q[1 + i - 1]
    BY <2>1, <1>4, SubSeqProperties, 1 \in Int, n - 1 \in Int
  <2> QED BY <2>2
<1>6. /\ b \in Seq(Entry)
      /\ Len(b) = Len(q) - n
      /\ \A i \in 1..(Len(q) - n) : b[i] = q[n + i]
  <2>1. \A i \in (n + 1)..Len(q) : q[i] \in Entry
    BY <1>1
  <2>2. /\ b \in Seq(Entry)
        /\ Len(b) = IF n + 1 <= Len(q) THEN Len(q) - (n + 1) + 1 ELSE 0
        /\ \A i \in 1..(Len(q) - (n + 1) + 1) : b[i] = q[(n + 1) + i - 1]
    BY <2>1, <1>1, <1>4, SubSeqProperties, n + 1 \in Int, Len(q) \in Int
  <2> QED BY <2>2, <1>1
<1> HIDE DEF a, b
<1>7. /\ r \in Seq(Entry)
      /\ Len(r) = Len(q) - 1
      /\ \A i \in 1..Len(r) : r[i] = IF i < n THEN q[i] ELSE q[i + 1]
  <2>1. /\ r \in Seq(Entry)
        /\ Len(r) = Len(a) + Len(b)
        /\ \A i \in 1..(Len(a) + Len(b)) : r[i] = IF i <= Len(a) THEN a[i] ELSE b[i - Len(a)]
    BY <1>5, <1>6, ConcatProperties
  <2>2. Len(r) = Len(q) - 1
    BY <2>1, <1>1, <1>5, <1>6
  <2>3. ASSUME NEW i \in 1..Len(r) PROVE r[i] = IF i < n THEN q[i] ELSE q[i + 1]
    <3>1. CASE i < n
      BY <3>1, <2>1, <2>2, <1>5, <1>6, <1>1
    <3>2. CASE ~(i < n)
      <4>1. i - (n - 1) \in 1..(Len(q) - n) /\ n + (i - (n - 1)) = i + 1
        BY <3>2, <2>2, <1>1
      <4> QED BY <4>1, <3>2, <2>1, <2>2, <1>5, <1>6, <1>1
    <3> QED BY <3>1, <3>2
  <2> QED BY <2>1, <2>2, <2>3
<1> HIDE DEF r
<1> DEFINE at(i) == IF i < n THEN i ELSE i + 1
<1>8. ASSUME NEW i \in 1..Len(r), NEW j \in 1..Len(r)
      PROVE  /\ at(i) \in 1..Len(q) /\ r[i] = q[at(i)] /\ at(i) # n
             /\ at(j) \in 1..Len(q) /\ r[j] = q[at(j)]
             /\ at(i) = at(j) => i = j
             /\ i <= j => at(i) <= at(j)
  <2>1. n \in Nat /\ n <= Len(q) /\ i \in Nat /\ j \in Nat
    BY <1>1, <1>7
  <2>2. r[i] = q[at(i)] /\ r[j] = q[at(j)]
    BY <1>7
  <2>3. at(i) \in 1..Len(q) /\ at(i) # n /\ at(j) \in 1..Len(q)
    BY <2>1, <1>1, <1>7
  <2> QED BY <2>1, <2>2, <2>3
<1> HIDE DEF at
<1>9. Distinct(r)
  <2> SUFFICES ASSUME NEW i \in 1..Len(r), NEW j \in 1..Len(r), r[i].run = r[j].run
               PROVE  i = j
    BY DEF Distinct
  <2> QED BY <1>8 DEF QueueOK, Distinct
<1>10. OldestFirst(r)
  <2> SUFFICES ASSUME NEW i \in 1..Len(r), NEW j \in 1..Len(r), i <= j
               PROVE  r[i].age + MAX_LAG >= r[j].age
    BY DEF OldestFirst
  <2> QED BY <1>8 DEF QueueOK, OldestFirst
<1>11. NoneIn(r, S \cup {run})
  <2> SUFFICES ASSUME NEW i \in 1..Len(r) PROVE r[i].run \notin S \cup {run}
    BY DEF NoneIn
  <2> QED BY <1>3, <1>8 DEF NoneIn
<1> QED BY <1>7, <1>9, <1>10, <1>11 DEF QueueOK, RemoveEntry, r, a, b, p

----------------------------------------------------------------------------
(* The inductive invariant.  ResourcesMirrorActive is inductive with the    *)
(* types alone; the queue needs all of its parts at once, because pruning   *)
(* is only right on a queue that is sorted by age and within its cap.       *)
ActiveRuns == {r \in RunIds : IsActive(r)}

Inv ==
    /\ TypeOK
    /\ ResourcesMirrorActive
    /\ PendingSound

QueueInv ==
    /\ QueueOK(pending)
    /\ NoneIn(pending, ActiveRuns)
    /\ Len(pending) <= MAX_PENDING_CANCELLATIONS

(* The soundness of the queue, in the form that is inductive.                *)
LEMMA InvQueue == TypeOK => (PendingSound <=> QueueInv)
BY DEF TypeOK, PendingSound, QueueInv, QueueOK, NoneIn, ActiveRuns, IsPending

(* ... and of the queue after a step.                                        *)
LEMMA InvQueuePrimed == TypeOK' => (PendingSound' <=> QueueInv')
BY DEF TypeOK, PendingSound, QueueInv, QueueOK, NoneIn, ActiveRuns, IsPending

(* A registration keeps the invariant,                                       *)
LEMMA RegisteredKeeps ==
    ASSUME Inv, NEW run \in RunIds, NEW key \in Resources, Registered(run, key)
    PROVE  Inv'
<1>a. PICK lag \in Lags : RegisteredAt(run, key, lag)
  BY DEF Registered
<1> DEFINE q == prune_pending(pending, lag)
<1>0. TypeOK /\ ResourcesMirrorActive /\ ~IsActive(run) /\ active_resources[key] = NoRun
  BY <1>a DEF Inv, RegisteredAt
<1>1. QueueOK(q) /\ NoneIn(q, ActiveRuns) /\ Len(q) <= MAX_PENDING_CANCELLATIONS
  BY InvQueue, PruneKeeps DEF Inv, QueueInv
<1> HIDE DEF q
<1>2. ActiveRuns' = ActiveRuns \cup {run}
  BY <1>a, <1>0, RegistryAssumption DEF ActiveRuns, IsActive, RegisteredAt, TypeOK
<1>3. /\ QueueOK(pending') /\ NoneIn(pending', ActiveRuns')
      /\ Len(pending') <= MAX_PENDING_CANCELLATIONS
  <2>1. CASE IsPending(q, run)
    <3>1. pending' = RemoveEntry(q, run)
      BY <1>a, <2>1 DEF RegisteredAt, q
    <3>2. Len(q) \in Nat
      BY <1>1, LenProperties DEF QueueOK
    <3> QED BY <2>1, <3>1, <3>2, <1>1, <1>2, RemoveKeeps, RegistryAssumption
  <2>2. CASE ~IsPending(q, run)
    <3>1. pending' = q
      BY <1>a, <2>2 DEF RegisteredAt, q
    <3>2. NoneIn(q, ActiveRuns \cup {run})
      BY <2>2, <1>1 DEF NoneIn, IsPending
    <3> QED BY <3>1, <3>2, <1>1, <1>2
  <2> QED BY <2>1, <2>2
<1>4. TypeOK'
  <2>1. active' \in [RunIds -> Resources \cup {NoRun}]
    BY <1>a, <1>0 DEF TypeOK, RegisteredAt
  <2>2. cancelled' \in [RunIds -> BOOLEAN]
    <3>1. cancelled' = [cancelled EXCEPT ![run] = IsPending(q, run)]
      BY <1>a DEF RegisteredAt, q
    <3>2. IsPending(q, run) \in BOOLEAN
      BY DEF IsPending
    <3> QED BY <3>1, <3>2, <1>0 DEF TypeOK
  <2>3. active_resources' \in [Resources -> RunIds \cup {NoRun}]
    BY <1>a, <1>0 DEF TypeOK, RegisteredAt
  <2> QED BY <2>1, <2>2, <2>3, <1>3 DEF TypeOK, QueueOK
<1>5. ResourcesMirrorActive'
  BY <1>a, <1>0, RegistryAssumption DEF ResourcesMirrorActive, IsActive, RegisteredAt, TypeOK
<1>6. PendingSound'
  BY <1>3, <1>4, InvQueuePrimed DEF QueueInv
<1> QED BY <1>4, <1>5, <1>6 DEF Inv

(* ... a refused registration does,                                          *)
LEMMA RefusedKeeps ==
    ASSUME Inv, NEW run \in RunIds, NEW key \in Resources, RegisterRefused(run, key)
    PROVE  Inv'
<1>0. PICK lag \in Lags : pending' = prune_pending(pending, lag)
  BY DEF RegisterRefused
<1>1. QueueOK(pending') /\ NoneIn(pending', ActiveRuns) /\ Len(pending') <= MAX_PENDING_CANCELLATIONS
  BY <1>0, InvQueue, PruneKeeps DEF Inv, QueueInv
<1>2. ActiveRuns' = ActiveRuns
  BY DEF ActiveRuns, IsActive, RegisterRefused
<1>3. TypeOK' /\ ResourcesMirrorActive'
  BY <1>1 DEF Inv, TypeOK, RegisterRefused, QueueOK, ResourcesMirrorActive, IsActive
<1>4. PendingSound'
  BY <1>1, <1>2, <1>3, InvQueuePrimed DEF QueueInv
<1> QED BY <1>3, <1>4 DEF Inv

(* ... the end of a run,                                                     *)
LEMMA FinishKeeps ==
    ASSUME Inv, NEW run \in RunIds, Finish(run)
    PROVE  Inv'
<1>0. TypeOK /\ ResourcesMirrorActive
  BY DEF Inv
<1>1. TypeOK'
  BY <1>0 DEF TypeOK, Finish, IsActive
<1>2. ResourcesMirrorActive'
  BY <1>0, RegistryAssumption DEF ResourcesMirrorActive, IsActive, Finish, TypeOK
<1>3. ActiveRuns' \subseteq ActiveRuns
  BY <1>0, RegistryAssumption DEF ActiveRuns, IsActive, Finish, TypeOK
<1>4. QueueOK(pending) /\ NoneIn(pending, ActiveRuns) /\ Len(pending) <= MAX_PENDING_CANCELLATIONS
  BY InvQueue DEF Inv, QueueInv
<1>5. pending' = pending /\ NoneIn(pending, ActiveRuns')
  BY <1>3, <1>4 DEF Finish, NoneIn
<1>6. PendingSound'
  BY <1>1, <1>4, <1>5, InvQueuePrimed DEF QueueInv
<1> QED BY <1>1, <1>2, <1>6 DEF Inv

(* An entry for a run the queue does not name goes last; its clock reading  *)
(* is at most a wait for the lock old.                                      *)
LEMMA AppendKeeps ==
    ASSUME NEW q, QueueOK(q), NEW S, NoneIn(q, S), NEW run \in RunIds, run \notin S,
           ~IsPending(q, run), NEW lag \in Lags
    PROVE  LET p == Queued(q, run, lag)
           IN  QueueOK(p) /\ NoneIn(p, S)
<1> DEFINE e == [run |-> run, age |-> lag]
           p == Append(q, e)
<1>0. PENDING_CANCELLATION_TTL \in Nat /\ MAX_LAG \in Nat
  BY RegistryAssumption
<1>1. e \in Entry /\ e.run = run /\ e.age \in 0..MAX_LAG
  BY <1>0 DEF Entry, Lags, MAX_AGE
<1>2. q \in Seq(Entry) /\ Len(q) \in Nat /\ \A i \in 1..Len(q) : q[i] \in Entry
  BY LenProperties, ElementOfSeq DEF QueueOK
<1> HIDE DEF e
<1>3. /\ p \in Seq(Entry)
      /\ Len(p) = Len(q) + 1
      /\ \A i \in 1..Len(q) : p[i] = q[i]
      /\ p[Len(q) + 1] = e
  BY <1>1, <1>2, AppendProperties
<1> HIDE DEF p
<1>4. \A i \in 1..Len(p) : i \in 1..Len(q) \/ i = Len(q) + 1
  BY <1>2, <1>3
<1>5. \A i \in 1..Len(q) : q[i].run # run /\ q[i].age \in Nat
  BY <1>0, <1>2 DEF IsPending, Entry, MAX_AGE
<1>6. Distinct(p)
  BY <1>1, <1>3, <1>4, <1>5 DEF QueueOK, Distinct
<1>7. OldestFirst(p)
  <2> SUFFICES ASSUME NEW i \in 1..Len(p), NEW j \in 1..Len(p), i <= j
               PROVE  p[i].age + MAX_LAG >= p[j].age
    BY DEF OldestFirst
  <2>1. CASE j \in 1..Len(q)
    <3>1. i \in 1..Len(q)
      BY <2>1, <1>2, <1>3
    <3> QED BY <2>1, <3>1, <1>3 DEF QueueOK, OldestFirst
  <2>2. CASE j = Len(q) + 1
    BY <2>2, <1>0, <1>1, <1>3, <1>4, <1>5
  <2> QED BY <2>1, <2>2, <1>4
<1>8. NoneIn(p, S)
  BY <1>1, <1>3, <1>4 DEF NoneIn
<1> QED BY <1>3, <1>6, <1>7, <1>8 DEF QueueOK, Queued, p, e

(* ... a cancellation,                                                       *)
LEMMA CancelKeeps ==
    ASSUME Inv, NEW run \in RunIds, Cancel(run)
    PROVE  Inv'
<1>a. PICK lag \in Lags : CancelAt(run, lag)
  BY DEF Cancel
<1> DEFINE q == prune_pending(pending, lag)
<1>0. TypeOK /\ ResourcesMirrorActive
  BY DEF Inv
<1>1. QueueOK(q) /\ NoneIn(q, ActiveRuns) /\ Len(q) <= MAX_PENDING_CANCELLATIONS
  BY InvQueue, PruneKeeps DEF Inv, QueueInv
<1> HIDE DEF q
<1>2. ActiveRuns' = ActiveRuns
  BY <1>a DEF ActiveRuns, IsActive, CancelAt
<1>3. /\ QueueOK(pending') /\ NoneIn(pending', ActiveRuns)
      /\ Len(pending') <= MAX_PENDING_CANCELLATIONS
  <2>1. CASE IsActive(run) \/ IsPending(q, run)
    <3>1. pending' = q
      BY <1>a, <2>1 DEF CancelAt, q
    <3> QED BY <3>1, <1>1
  <2>2. CASE ~(IsActive(run) \/ IsPending(q, run))
    <3>1. pending' = prune_pending(Queued(q, run, lag), lag)
      BY <1>a, <2>2 DEF CancelAt, q
    <3>2. run \notin ActiveRuns
      BY <2>2 DEF ActiveRuns
    <3> QED BY <2>2, <3>1, <3>2, <1>1, AppendKeeps, PruneKeeps
  <2> QED BY <2>1, <2>2
<1>4. TypeOK'
  <2>1. cancelled' \in [RunIds -> BOOLEAN]
    BY <1>a, <1>0 DEF TypeOK, CancelAt, IsActive
  <2> QED BY <1>a, <2>1, <1>0, <1>3 DEF TypeOK, CancelAt, QueueOK
<1>5. ResourcesMirrorActive'
  BY <1>a, <1>0 DEF ResourcesMirrorActive, IsActive, CancelAt
<1>6. PendingSound'
  BY <1>2, <1>3, <1>4, InvQueuePrimed DEF QueueInv
<1> QED BY <1>4, <1>5, <1>6 DEF Inv

(* ... and the passing of time.                                              *)
LEMMA TickKeeps ==
    ASSUME Inv, Tick
    PROVE  Inv'
<1> DEFINE older(e) == [e EXCEPT !.age = IF @ = MAX_AGE THEN @ ELSE @ + 1]
<1>0. TypeOK /\ ResourcesMirrorActive /\ MAX_AGE \in Nat /\ MAX_LAG \in Nat
  BY RegistryAssumption DEF Inv, MAX_AGE
<1>1. /\ pending \in Seq(Entry) /\ Len(pending) \in Nat
      /\ \A i \in 1..Len(pending) : pending[i] \in Entry
  BY <1>0, LenProperties, ElementOfSeq DEF TypeOK
<1>2. \A e \in Entry : older(e) \in Entry /\ older(e).run = e.run
  BY <1>0 DEF Entry
<1>3. \A e, f \in Entry : e.age + MAX_LAG >= f.age => older(e).age + MAX_LAG >= older(f).age
  BY <1>0 DEF Entry
<1>4. pending' = [i \in 1..Len(pending) |-> older(pending[i])]
  BY DEF Tick
<1> HIDE DEF older
<1>5. pending' \in Seq(Entry) /\ Len(pending') = Len(pending)
  BY <1>1, <1>2, <1>4
<1>6. \A i \in 1..Len(pending) : pending'[i] = older(pending[i])
  BY <1>4
<1>7. QueueOK(pending) /\ NoneIn(pending, ActiveRuns) /\ Len(pending) <= MAX_PENDING_CANCELLATIONS
  BY InvQueue DEF Inv, QueueInv
<1>8. QueueOK(pending')
  BY <1>1, <1>2, <1>3, <1>5, <1>6, <1>7 DEF QueueOK, Distinct, OldestFirst
<1>9. ActiveRuns' = ActiveRuns /\ NoneIn(pending', ActiveRuns)
  <2>1. ActiveRuns' = ActiveRuns
    BY DEF Tick, ActiveRuns, IsActive
  <2>2. NoneIn(pending', ActiveRuns)
    BY <1>1, <1>2, <1>5, <1>6, <1>7 DEF NoneIn
  <2> QED BY <2>1, <2>2
<1>10. TypeOK' /\ ResourcesMirrorActive'
  BY <1>0, <1>5 DEF TypeOK, ResourcesMirrorActive, IsActive, Tick
<1>11. PendingSound'
  BY <1>5, <1>7, <1>8, <1>9, <1>10, InvQueuePrimed DEF QueueInv
<1> QED BY <1>10, <1>11 DEF Inv

----------------------------------------------------------------------------
(* Every invariant the TLC run checks holds for every set of runs and       *)
(* resources, every queue bound and every time to live.                     *)
THEOREM RegistryInvariant == Spec => []Inv
<1>1. Init => Inv
  <2> SUFFICES ASSUME Init PROVE Inv
    OBVIOUS
  <2>1. TypeOK /\ ResourcesMirrorActive
    BY RegistryAssumption DEF Init, TypeOK, ResourcesMirrorActive, IsActive
  <2>2. Len(pending) = 0
    BY DEF Init
  <2>3. PendingSound
    BY <2>2, RegistryAssumption DEF Init, PendingSound, Distinct, OldestFirst,
       IsActive
  <2> QED BY <2>1, <2>3 DEF Inv
<1>2. Inv /\ [Next]_vars => Inv'
  <2> SUFFICES ASSUME Inv, [Next]_vars PROVE Inv'
    OBVIOUS
  <2>1. ASSUME NEW run \in RunIds, NEW key \in Resources, Register(run, key) PROVE Inv'
    BY <2>1, RegisteredKeeps, RefusedKeeps DEF Register
  <2>2. ASSUME NEW run \in RunIds, Cancel(run) PROVE Inv'
    BY <2>2, CancelKeeps
  <2>3. ASSUME NEW run \in RunIds, Finish(run) PROVE Inv'
    BY <2>3, FinishKeeps
  <2>4. CASE Tick
    BY <2>4, TickKeeps
  <2>5. CASE UNCHANGED vars
    BY <2>5 DEF vars, Inv, TypeOK, ResourcesMirrorActive, PendingSound,
       Distinct, OldestFirst, IsPending, IsActive
  <2> QED BY <2>1, <2>2, <2>3, <2>4, <2>5 DEF Next
<1> QED BY <1>1, <1>2, PTL DEF Spec

(* active and active_resources stay two views of one relation.              *)
THEOREM ResourcesMirrorActiveAlways == Spec => []ResourcesMirrorActive
<1>1. Inv => ResourcesMirrorActive
  BY DEF Inv
<1> QED BY <1>1, RegistryInvariant, PTL

(* Whatever the cap and the time to live, cancel_at and register_at keep    *)
(* the queue of early cancellations within its cap, sorted by age up to the *)
(* wait for the lock, with one entry per run and none for an active run.    *)
THEOREM PendingSoundAlways == Spec => []PendingSound
<1>1. Inv => PendingSound
  BY DEF Inv
<1> QED BY <1>1, RegistryInvariant, PTL

(* Pruning keeps the fresh cancellation of a run if there is one, whenever  *)
(* the caller read its clock.  What it keeps is fresh or stands behind a    *)
(* fresh one, so it has not been expired for longer than the two waits.     *)
LEMMA PruneFindsFresh ==
    ASSUME Inv, NEW run \in RunIds, NEW lag \in Lags
    PROVE  LET found == IsPending(prune_pending(pending, lag), run) IN
             /\ WaitsYounger(run, PENDING_CANCELLATION_TTL) => found
             /\ found => WaitsYounger(run, MAX_AGE)
<1> DEFINE p == prune_pending(pending, lag)
<1>0. PENDING_CANCELLATION_TTL \in Nat /\ MAX_LAG \in Nat /\ lag \in Nat /\ lag <= MAX_LAG
  BY RegistryAssumption DEF Lags
<1>1. /\ pending \in Seq(Entry) /\ Len(pending) \in Nat
      /\ \A i \in 1..Len(pending) : pending[i] \in Entry
      /\ Len(pending) <= MAX_PENDING_CANCELLATIONS
      /\ OldestFirst(pending)
  BY LenProperties, ElementOfSeq DEF Inv, TypeOK, PendingSound
<1>2. PICK d \in 0..Len(pending) : Pruned(pending, p, d, lag)
  BY <1>1, PruneFacts
<1> HIDE DEF p
<1>3. /\ Len(p) = Len(pending) - d
      /\ \A i \in 1..Len(p) : p[i] = pending[i + d]
      /\ \A i \in 1..d : Expired(pending[i], lag)
      /\ d < Len(pending) => ~Expired(pending[d + 1], lag)
  BY <1>1, <1>2 DEF Pruned
<1>t. \A i \in 1..Len(pending) : pending[i].age \in Nat
  BY <1>0, <1>1 DEF Entry, MAX_AGE
<1>4. \A i \in (d + 1)..Len(pending) : pending[i].age < MAX_AGE
  <2> SUFFICES ASSUME NEW i \in (d + 1)..Len(pending) PROVE pending[i].age < MAX_AGE
    OBVIOUS
  <2>1. d + 1 \in 1..Len(pending) /\ i \in 1..Len(pending) /\ d + 1 <= i /\ d < Len(pending)
    BY <1>1
  <2>2. pending[d + 1].age + MAX_LAG >= pending[i].age
    BY <2>1, <1>1 DEF OldestFirst
  <2>3. pending[d + 1].age \in Nat /\ pending[i].age \in Nat
    BY <2>1, <1>t
  <2>4. pending[d + 1].age < PENDING_CANCELLATION_TTL + lag
    BY <2>1, <2>3, <1>0, <1>3 DEF Expired
  <2> QED BY <2>2, <2>3, <2>4, <1>0 DEF MAX_AGE
<1>5. ASSUME IsPending(p, run) PROVE WaitsYounger(run, MAX_AGE)
  <2>1. PICK i \in 1..Len(p) : p[i].run = run
    BY <1>5 DEF IsPending
  <2>2. i + d \in (d + 1)..Len(pending) /\ i + d \in 1..Len(pending)
    BY <1>1, <1>3
  <2>3. pending[i + d].run = run
    BY <2>1, <1>3
  <2> QED BY <2>2, <2>3, <1>4 DEF WaitsYounger
<1>6. ASSUME WaitsYounger(run, PENDING_CANCELLATION_TTL) PROVE IsPending(p, run)
  <2>1. PICK i \in 1..Len(pending) :
              pending[i].run = run /\ pending[i].age < PENDING_CANCELLATION_TTL
    BY <1>6 DEF WaitsYounger
  <2>2. i \notin 1..d
    <3>1. ~Expired(pending[i], lag)
      BY <2>1, <1>0, <1>t DEF Expired
    <3> QED BY <3>1, <1>3
  <2>3. i - d \in 1..Len(p) /\ (i - d) + d = i
    BY <2>2, <1>1, <1>3
  <2>4. p[i - d].run = run
    BY <2>1, <2>3, <1>3
  <2> QED BY <2>3, <2>4 DEF IsPending
<1> QED BY <1>5, <1>6 DEF p

(* A run starts cancelled when a fresh cancellation waited for it, and only *)
(* when one did that was not expired for longer than the waits for the lock.*)
THEOREM CancellationHonouredAlways == Spec => CancellationHonoured
<1> DEFINE Honoured(run) ==
             /\ WaitsYounger(run, PENDING_CANCELLATION_TTL) => cancelled'[run]
             /\ cancelled'[run] => WaitsYounger(run, MAX_AGE)
           A == \A run \in RunIds : ~IsActive(run) /\ IsActive(run)' => Honoured(run)
<1>1. Inv /\ [Next]_vars => [A]_vars
  <2> SUFFICES ASSUME Inv, Next, NEW run \in RunIds, ~IsActive(run), IsActive(run)'
               PROVE  Honoured(run)
    OBVIOUS
  <2>0. TypeOK
    BY DEF Inv
  <2>1. ASSUME NEW r \in RunIds, NEW key \in Resources, Registered(r, key)
        PROVE  Honoured(run)
    <3>0. PICK lag \in Lags : RegisteredAt(r, key, lag)
      BY <2>1 DEF Registered
    <3>1. r = run
      BY <2>0, <3>0 DEF RegisteredAt, IsActive, TypeOK
    <3>2. cancelled'[run] = IsPending(prune_pending(pending, lag), run)
      BY <2>0, <3>0, <3>1 DEF RegisteredAt, TypeOK
    <3> QED BY <3>2, PruneFindsFresh
  <2>2. ASSUME NEW r \in RunIds, NEW key \in Resources, RegisterRefused(r, key) PROVE FALSE
    BY <2>2 DEF RegisterRefused, IsActive
  <2>3. ASSUME NEW r \in RunIds, Cancel(r) PROVE FALSE
    BY <2>3 DEF Cancel, CancelAt, IsActive
  <2>4. ASSUME NEW r \in RunIds, Finish(r) PROVE FALSE
    BY <2>0, <2>4, RegistryAssumption DEF Finish, IsActive, TypeOK
  <2>5. CASE Tick
    BY <2>5 DEF Tick, IsActive
  <2> QED BY <2>1, <2>2, <2>3, <2>4, <2>5 DEF Next, Register
<1> QED BY <1>1, RegistryInvariant, PTL DEF Spec, CancellationHonoured

=============================================================================
