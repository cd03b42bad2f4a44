------------------------- MODULE SessionStoreProofs -------------------------
(***************************************************************************)
(* Proofs about SessionStore for any number of sessions and runs and any   *)
(* limits with_compactor accepts: the lease and its holder always agree,   *)
(* the memory is an unbroken end of the committed turns, and compaction    *)
(* always finds room.                                                      *)
(***************************************************************************)
EXTENDS SessionStore, SequenceTheorems, WellFoundedInduction, TLAPS

(* The least element that CHOOSE picks from a set of numbers is in the set. *)
LEMMA LeastIsIn ==
    ASSUME NEW S, S \subseteq Nat, S # {}
    PROVE  Least(S) \in S
<1> DEFINE Less == {ss \in Nat \X Nat : ss[1] < ss[2]}
<1>1. IsWellFoundedOn(Less, Nat)
    BY NatLessThanWellFounded DEF OpToRel
<1> HIDE DEF Less
<1>2. PICK x \in S : \A y \in S : ~(<<y, x>> \in Less)
    BY <1>1, WFMin
<1>3. ASSUME NEW y \in S PROVE x <= y
    <2>1. x \in Nat /\ y \in Nat
        OBVIOUS
    <2>2. <<y, x>> \notin Less
        BY <1>2
    <2>3. (y < x) => <<y, x>> \in Less
        BY <2>1 DEF Less
    <2> QED BY <2>1, <2>2, <2>3
<1> QED BY <1>3 DEF Least

(* A turn fits into the recent memory by itself. *)
LEMMA PairSize == \A b \in PairBytes : b \in Nat /\ b <= max_recent_bytes
<1> SUFFICES ASSUME NEW b \in PairBytes PROVE b \in Nat /\ b <= max_recent_bytes
    OBVIOUS
<1>1. b \in 2..(2 * max_message_bytes)
    BY LimitsAssumption, Zenon
<1>2. max_message_bytes \in Nat /\ max_recent_bytes \in Nat /\ max_recent_bytes >= 2 * max_message_bytes
    BY LimitsAssumption, Zenon
<1> QED BY <1>1, <1>2

(* message_bytes of no turn and of one turn. *)
LEMMA NoBytes == message_bytes(<<>>) = 0
<1> DEFINE seq == <<>>
           sum == CHOOSE g : g = [i \in 0..Len(seq) |-> IF i = 0 THEN 0 ELSE g[i - 1] + seq[i].bytes]
           w == [i \in 0..Len(seq) |-> 0]
<1>1. w = [i \in 0..Len(seq) |-> IF i = 0 THEN 0 ELSE w[i - 1] + seq[i].bytes]
    OBVIOUS
<1>2. sum = [i \in 0..Len(seq) |-> IF i = 0 THEN 0 ELSE sum[i - 1] + seq[i].bytes]
    BY <1>1
<1>3. sum[0] = 0
    BY <1>2
<1> QED BY <1>3 DEF message_bytes

(* A single turn has its own size. *)
LEMMA OneBytes ==
    ASSUME NEW t \in Turn
    PROVE  message_bytes(<<t>>) = t.bytes
<1> DEFINE seq == <<t>>
           sum == CHOOSE g : g = [i \in 0..Len(seq) |-> IF i = 0 THEN 0 ELSE g[i - 1] + seq[i].bytes]
           w == [i \in 0..Len(seq) |-> IF i = 0 THEN 0 ELSE t.bytes]
<1>0. t.bytes \in Nat /\ Len(seq) = 1 /\ seq[1] = t
    <2>1. t.bytes \in PairBytes
        BY DEF Turn
    <2>2. t.bytes \in Nat
        BY <2>1, PairSize
    <2> QED BY <2>2
<1>1. w = [i \in 0..Len(seq) |-> IF i = 0 THEN 0 ELSE w[i - 1] + seq[i].bytes]
    BY <1>0
<1>2. sum = [i \in 0..Len(seq) |-> IF i = 0 THEN 0 ELSE sum[i - 1] + seq[i].bytes]
    BY <1>1
<1>3. sum[1] = t.bytes
    <2> HIDE DEF sum
    <2>1. sum[0] = 0
        BY <1>2, <1>0
    <2>2. sum[1] = sum[0] + seq[1].bytes
        BY <1>2, <1>0
    <2> QED BY <2>1, <2>2, <1>0
<1> QED BY <1>3, <1>0 DEF message_bytes

(* Concatenation of sequences of turns is associative. *)
LEMMA Assoc ==
    ASSUME NEW a \in Seq(Turn), NEW b \in Seq(Turn), NEW c \in Seq(Turn)
    PROVE  (a \o b) \o c = a \o (b \o c)
BY ConcatAssociative

(* Dropping the first k elements. *)
LEMMA SuffixProperties ==
    ASSUME NEW S, NEW seq \in Seq(S), NEW k \in 0..Len(seq)
    PROVE  /\ Suffix(seq, k) \in Seq(S)
           /\ Len(Suffix(seq, k)) = Len(seq) - k
           /\ SubSeq(seq, 1, k) \in Seq(S)
           /\ SubSeq(seq, 1, k) \o Suffix(seq, k) = seq
<1>1. Len(seq) \in Nat /\ \A i \in 1..Len(seq) : seq[i] \in S
    BY ElementOfSeq, LenProperties
<1>2. /\ Suffix(seq, k) \in Seq(S)
      /\ Len(Suffix(seq, k)) = Len(seq) - k
    BY <1>1, SubSeqProperties DEF Suffix
<1>3. SubSeq(seq, 1, k) \in Seq(S)
    BY <1>1, SubSeqProperties
<1>4. SubSeq(seq, 1, k) \o SubSeq(seq, k + 1, Len(seq)) = SubSeq(seq, 1, Len(seq))
    <2>1. 1 \in 1..(Len(seq) + 1) /\ k \in (1 - 1)..Len(seq) /\ Len(seq) \in k..Len(seq)
        BY <1>1
    <2> QED BY <2>1, ConcatAdjacentSubSeq, Zenon
<1> QED BY <1>2, <1>3, <1>4, SubSeqFull DEF Suffix

(* The end of a concatenation is its second part. *)
LEMMA SuffixOfConcat ==
    ASSUME NEW p \in Seq(Turn), NEW m \in Seq(Turn)
    PROVE  Suffix(p \o m, Len(p \o m) - Len(m)) = m
<1>1. Len(p \o m) = Len(p) + Len(m) /\ Len(p) \in Nat /\ Len(m) \in Nat /\ p \o m \in Seq(Turn)
    BY ConcatProperties, LenProperties
<1> DEFINE u == Suffix(p \o m, Len(p))
<1>2. u \in Seq(Turn) /\ Len(u) = Len(m)
    <2> DEFINE c == p \o m
    <2>1. c \in Seq(Turn) /\ Len(p) \in 0..Len(c) /\ Len(c) - Len(p) = Len(m)
        BY <1>1
    <2> HIDE DEF c
    <2>2. Suffix(c, Len(p)) \in Seq(Turn) /\ Len(Suffix(c, Len(p))) = Len(c) - Len(p)
        BY <2>1, SuffixProperties
    <2> QED BY <2>1, <2>2 DEF c
<1>3. ASSUME NEW i \in 1..Len(m) PROVE u[i] = m[i]
    <2>1. u[i] = (p \o m)[Len(p) + i]
        BY <1>1 DEF Suffix
    <2>2. (p \o m)[Len(p) + i] = m[i]
        BY <1>1
    <2> QED BY <2>1, <2>2
<1>4. u = m
    <2> HIDE DEF u
    <2> QED BY <1>2, <1>3, SeqEqual
<1> QED BY <1>1, <1>4

(* The store always has room for one more turn: at worst everything before  *)
(* it is drained.                                                           *)
LEMMA Room ==
    ASSUME NEW recent \in Seq(Turn), NEW t \in Turn
    PROVE  Drains(Append(recent, t)) # {}
<1> DEFINE next == Append(recent, t)
           k == Len(recent)
<1>1. next \in Seq(Turn) /\ Len(next) = k + 1 /\ next[k + 1] = t /\ k \in Nat
    BY AppendProperties, LenProperties
<1>2. Suffix(next, k) = <<t>>
    <2>1. /\ Len(Suffix(next, k)) = 1
          /\ Suffix(next, k) \in Seq(Turn)
        <3>1. k \in 0..Len(next)
            BY <1>1
        <3> HIDE DEF next, k
        <3>2. /\ Suffix(next, k) \in Seq(Turn)
              /\ Len(Suffix(next, k)) = Len(next) - k
            BY <1>1, <3>1, SuffixProperties
        <3> QED BY <1>1, <3>2
    <2>2. Suffix(next, k)[1] = t
        BY <1>1 DEF Suffix
    <2> QED BY <2>1, <2>2
<1>3. Fits(<<t>>)
    <2>1. t.bytes \in PairBytes
        BY DEF Turn
    <2>2. t.bytes <= max_recent_bytes
        BY <2>1, PairSize
    <2>3. Len(<<t>>) <= MaxRecent
        BY LimitsAssumption
    <2> QED BY <2>2, <2>3, OneBytes DEF Fits
<1>4. k \in 0..(Len(next) - 1)
    BY <1>1
<1> QED BY <1>2, <1>3, <1>4 DEF Drains

(* The memory of a record is an end of the history h. *)
EndOf(rec, h) == \E p \in Seq(Turn) : h = p \o (rec.summary \o rec.recent)

(* One committed turn: the lease is given back, the memory is still an end  *)
(* of the history, and the turn is kept verbatim within the limits.         *)
LEMMA AppendTurnMemory ==
    ASSUME NEW rec \in Record, NEW t \in Turn, NEW h \in Seq(Turn), EndOf(rec, h)
    PROVE  LET next == AppendTurn(rec, t)
           IN  /\ next \in Record
               /\ next.active_run = None
               /\ EndOf(next, Append(h, t))
               /\ next.recent # <<>>
               /\ Fits(next.recent)
<1> DEFINE next == Append(rec.recent, t)
           k == Least(Drains(next))
           kept == Suffix(next, k)
           drained == SubSeq(next, 1, k)
           summary == IF k = 0 THEN rec.summary ELSE compact(rec.summary, drained)
<1>1. /\ rec.recent \in Seq(Turn) /\ rec.summary \in Seq(Turn) /\ rec.revision \in Nat
      /\ next \in Seq(Turn) /\ Len(next) = Len(rec.recent) + 1 /\ Len(rec.recent) \in Nat
      /\ next = rec.recent \o <<t>>
    BY AppendProperties, AppendIsConcat, LenProperties DEF Record
<1>2. k \in Drains(next)
    <2>1. Drains(next) # {}
        BY <1>1, Room
    <2>2. Drains(next) \subseteq Nat
        BY <1>1 DEF Drains
    <2> QED BY <2>1, <2>2, LeastIsIn
<1>3. k \in 0..Len(next) /\ k <= Len(next) - 1 /\ Fits(kept)
    BY <1>1, <1>2 DEF Drains
<1> HIDE DEF k
<1>4. /\ kept \in Seq(Turn) /\ Len(kept) = Len(next) - k
      /\ drained \in Seq(Turn) /\ drained \o kept = next
    BY <1>1, <1>3, SuffixProperties
<1>5. kept # <<>>
    BY <1>1, <1>3, <1>4
<1> DEFINE all == rec.summary \o drained
           J == {j \in 0..Len(all) : message_bytes(Suffix(all, j)) <= MaxSummary}
           j0 == Least(J)
<1>6. all \in Seq(Turn) /\ Len(all) \in Nat
    BY <1>1, <1>4, ConcatProperties, LenProperties
<1>7. j0 \in J
    <2>1. Suffix(all, Len(all)) = <<>>
        BY <1>6 DEF Suffix
    <2>2. Len(all) \in J
        BY <2>1, <1>6, NoBytes, LimitsAssumption
    <2>3. J \subseteq Nat
        BY <1>6
    <2> QED BY <2>2, <2>3, LeastIsIn
<1> HIDE DEF j0
<1>8. /\ Suffix(all, j0) \in Seq(Turn) /\ SubSeq(all, 1, j0) \in Seq(Turn)
      /\ SubSeq(all, 1, j0) \o Suffix(all, j0) = all
    BY <1>6, <1>7, SuffixProperties
<1>9. compact(rec.summary, drained) = Suffix(all, j0)
    BY DEF compact, j0
<1>10. summary \in Seq(Turn)
    BY <1>1, <1>8, <1>9
<1>11. PICK p \in Seq(Turn) : h = p \o (rec.summary \o rec.recent)
    BY DEF EndOf
<1> DEFINE new == [revision |-> rec.revision + 1, active_run |-> None, summary |-> summary, recent |-> kept]
<1>12. AppendTurn(rec, t) = new
    BY DEF AppendTurn, k
<1>13. Append(h, t) = p \o (rec.summary \o next)
    <2>1. <<t>> \in Seq(Turn)
        OBVIOUS
    <2>2. Append(h, t) = h \o <<t>>
        BY AppendIsConcat
    <2>3. (rec.summary \o rec.recent) \o <<t>> = rec.summary \o next
        <3> DEFINE one == <<t>>
        <3>0. one \in Seq(Turn) /\ next = rec.recent \o one
            BY <1>1, <2>1
        <3> HIDE DEF next, one
        <3>1. (rec.summary \o rec.recent) \o one = rec.summary \o (rec.recent \o one)
            BY ONLY <1>1, <3>0, Assoc, ZenonT(60)
        <3> QED BY <3>0, <3>1 DEF one
    <2>4. rec.summary \o rec.recent \in Seq(Turn)
        BY <1>1, ConcatProperties
    <2>5. (p \o (rec.summary \o rec.recent)) \o <<t>> = p \o ((rec.summary \o rec.recent) \o <<t>>)
        BY <2>1, <2>4, Assoc
    <2> QED BY <1>11, <2>2, <2>3, <2>5
<1>14. EndOf(new, Append(h, t))
    <2>1. CASE k = 0
        <3>1. kept = next
            BY <1>1, <2>1, SubSeqFull DEF Suffix
        <3>2. new.summary = rec.summary /\ new.recent = next
            BY <2>1, <3>1
        <3> QED BY <1>13, <3>2 DEF EndOf
    <2>2. CASE k # 0
        <3> DEFINE q == SubSeq(all, 1, j0)
                   rest == Suffix(all, j0)
        <3>1. new.summary = rest /\ new.recent = kept
            BY <2>2, <1>9
        <3>2. rec.summary \o next = all \o kept
            <4>0. all = rec.summary \o drained
                OBVIOUS
            <4> HIDE DEF next, drained, kept, all
            <4>1. (rec.summary \o drained) \o kept = rec.summary \o (drained \o kept)
                BY ONLY <1>1, <1>4, Assoc, ZenonT(60)
            <4> QED BY <1>4, <4>0, <4>1
        <3>3. all \o kept = q \o (rest \o kept)
            <4>0. q \in Seq(Turn) /\ rest \in Seq(Turn) /\ q \o rest = all
                BY <1>8
            <4> HIDE DEF next, drained, kept, all, q, rest
            <4>1. (q \o rest) \o kept = q \o (rest \o kept)
                BY ONLY <1>4, <4>0, Assoc, ZenonT(60)
            <4> QED BY <4>0, <4>1
        <3>4. rest \o kept \in Seq(Turn)
            BY <1>4, <1>8, ConcatProperties
        <3>5. p \o (q \o (rest \o kept)) = (p \o q) \o (rest \o kept)
            BY <1>8, <3>4, Assoc
        <3>6. p \o q \in Seq(Turn)
            BY <1>8, ConcatProperties
        <3> QED BY <1>13, <3>1, <3>2, <3>3, <3>5, <3>6 DEF EndOf
    <2> QED BY <2>1, <2>2
<1>15. new \in Record
    BY <1>1, <1>4, <1>10 DEF Record
<1> QED BY <1>3, <1>5, <1>12, <1>14, <1>15
----------------------------------------------------------------------------
(* A task that works, or holds a goal, is on a session; one that is about to *)
(* commit a pair has it.                                                    *)
Sound(t) ==
    /\ (t.pc # "idle" \/ t.open) => t.session \in Sessions
    /\ t.pc \in {"pairCommit", "legacy", "legacyCommit"} => t.todo # <<>>

TaskSound == \A r \in Runs : Sound(tasks[r])

MemorySound ==
    \A s \in Sessions : sessions[s] # None =>
        /\ EndOf(sessions[s], committed[s])
        /\ committed[s] # <<>> => sessions[s].recent # <<>>
        /\ Fits(sessions[s].recent)

(* The inductive invariant. *)
IInv == TypeOK /\ TaskSound /\ LeaseMirrorsHolder /\ MemorySound

(* A step of task r as far as the other tasks are concerned. *)
OnlyTask(r) ==
    /\ tasks' \in [Runs -> Task]
    /\ \A q \in Runs \ {r} : tasks'[q] = tasks[q]
    /\ Sound(tasks'[r])

(* Goto moves one task and keeps every other. *)
LEMMA GotoFacts ==
    ASSUME IInv, NEW r \in Runs, NEW pc \in PCs \ {"pairCommit", "legacy", "legacyCommit"},
           tasks[r].pc # "idle", Goto(r, pc)
    PROVE  OnlyTask(r) /\ tasks'[r] = [tasks[r] EXCEPT !.pc = pc]
BY DEF IInv, TypeOK, TaskSound, Sound, OnlyTask, Goto, Task

(* What is left of a task that ended holds no lease and no work. *)
LEMMA EndedFacts ==
    ASSUME NEW t \in Task, Sound(t)
    PROVE  Ended(t) \in Task /\ Sound(Ended(t)) /\ Ended(t).pc = "idle"
<1>1. <<>> \in Seq(Turn) /\ 0 \in Nat /\ "idle" \in PCs /\ {"turn", "resume"} \subseteq Kinds
    BY DEF PCs, Kinds
<1>2. CASE t.open
    <2>1. Ended(t) = [pc |-> "idle", kind |-> "resume", session |-> t.session, base |-> 0,
                      todo |-> <<>>, open |-> TRUE]
        BY <1>2 DEF Ended, IdleTask
    <2>2. t.session \in Sessions
        BY <1>2 DEF Sound
    <2> QED BY <1>1, <2>1, <2>2 DEF Task, Sound
<1>3. CASE ~t.open
    BY <1>1, <1>3 DEF Ended, IdleTask, Task, Sound
<1> QED BY <1>2, <1>3

(* Done ends one task and keeps every other. *)
LEMMA DoneFacts ==
    ASSUME IInv, NEW r \in Runs, Done(r)
    PROVE  OnlyTask(r) /\ tasks'[r].pc = "idle"
<1>1. tasks[r] \in Task /\ Sound(tasks[r])
    BY DEF IInv, TypeOK, TaskSound
<1>2. Ended(tasks[r]) \in Task /\ Sound(Ended(tasks[r])) /\ Ended(tasks[r]).pc = "idle"
    BY <1>1, EndedFacts
<1> QED BY <1>2 DEF IInv, TypeOK, OnlyTask, Done

(* A step outside any lease that leaves the store alone. *)
LEMMA Quiet ==
    ASSUME IInv, NEW r \in Runs, OnlyTask(r),
           tasks[r].pc \notin Leased, tasks'[r].pc \notin Leased,
           sessions' = sessions, committed' = committed,
           durable' \in [Sessions -> Seq(Turn)], initialized' \in [Sessions -> BOOLEAN]
    PROVE  IInv'
<1>1. TypeOK' /\ TaskSound'
    BY DEF IInv, TypeOK, TaskSound, OnlyTask
<1>2. LeaseMirrorsHolder'
    <2>1. ASSUME NEW q \in Runs, tasks'[q].pc \in Leased PROVE ensure_lease(q)'
        BY <2>1 DEF IInv, OnlyTask, LeaseMirrorsHolder, ensure_lease
    <2>2. ASSUME NEW s \in Sessions, sessions[s] # None, sessions[s].active_run # None
          PROVE  tasks'[sessions[s].active_run].pc \in Leased /\ tasks'[sessions[s].active_run].session = s
        <3>1. sessions[s].active_run \in Runs
            BY <2>2 DEF IInv, TypeOK, Record
        <3> QED BY <2>2, <3>1 DEF IInv, OnlyTask, LeaseMirrorsHolder
    <2> QED BY <2>1, <2>2 DEF LeaseMirrorsHolder
<1>3. MemorySound'
    BY DEF IInv, MemorySound
<1> QED BY <1>1, <1>2, <1>3 DEF IInv

(* A step from lease to lease that leaves the store alone. *)
LEMMA Keep ==
    ASSUME IInv, NEW r \in Runs, OnlyTask(r),
           tasks[r].pc \in Leased, tasks'[r].pc \in Leased,
           tasks'[r].session = tasks[r].session, tasks'[r].base = tasks[r].base,
           UNCHANGED <<sessions, committed, durable, initialized>>
    PROVE  IInv'
<1>1. TypeOK' /\ TaskSound'
    BY DEF IInv, TypeOK, TaskSound, OnlyTask
<1>2. LeaseMirrorsHolder'
    <2>1. ASSUME NEW q \in Runs, tasks'[q].pc \in Leased PROVE ensure_lease(q)'
        BY <2>1 DEF IInv, OnlyTask, LeaseMirrorsHolder, ensure_lease
    <2>2. ASSUME NEW s \in Sessions, sessions[s] # None, sessions[s].active_run # None
          PROVE  tasks'[sessions[s].active_run].pc \in Leased /\ tasks'[sessions[s].active_run].session = s
        <3>1. sessions[s].active_run \in Runs
            BY <2>2 DEF IInv, TypeOK, Record
        <3> QED BY <2>2, <3>1 DEF IInv, OnlyTask, LeaseMirrorsHolder
    <2> QED BY <2>1, <2>2 DEF LeaseMirrorsHolder
<1>3. MemorySound'
    BY DEF IInv, MemorySound
<1> QED BY <1>1, <1>2, <1>3 DEF IInv

(* The lease of a free session is taken. *)
LEMMA Acquire ==
    ASSUME IInv, NEW r \in Runs, NEW s \in Sessions, OnlyTask(r),
           tasks[r].pc \notin Leased, tasks'[r].pc \in Leased,
           tasks'[r].session = s, tasks'[r].base = sessions[s].revision,
           sessions[s] # None, sessions[s].active_run = None,
           sessions' = [sessions EXCEPT ![s].active_run = r],
           UNCHANGED <<committed, durable, initialized>>
    PROVE  IInv'
<1>1. sessions[s] \in Record
    BY DEF IInv, TypeOK
<1>2. /\ sessions'[s] \in Record /\ sessions'[s].active_run = r
      /\ sessions'[s].revision = sessions[s].revision
      /\ sessions'[s].summary = sessions[s].summary /\ sessions'[s].recent = sessions[s].recent
      /\ \A u \in Sessions \ {s} : sessions'[u] = sessions[u]
    BY <1>1 DEF IInv, TypeOK, Record
<1>3. TypeOK' /\ TaskSound'
    BY <1>2 DEF IInv, TypeOK, TaskSound, OnlyTask
<1>4. LeaseMirrorsHolder'
    <2>1. ASSUME NEW q \in Runs, tasks'[q].pc \in Leased PROVE ensure_lease(q)'
        <3>1. CASE q = r
            BY <3>1, <1>2, NoneAssumption DEF ensure_lease
        <3>2. CASE q # r
            <4>1. tasks'[q] = tasks[q] /\ ensure_lease(q)
                BY <2>1, <3>2 DEF IInv, OnlyTask, LeaseMirrorsHolder
            <4>2. tasks[q].session # s
                BY <4>1, LimitsAssumption DEF ensure_lease
            <4>3. tasks[q].session \in Sessions
                BY <2>1, <4>1 DEF IInv, TaskSound, Sound, Leased
            <4> QED BY <1>2, <4>1, <4>2, <4>3 DEF ensure_lease
        <3> QED BY <3>1, <3>2
    <2>2. ASSUME NEW u \in Sessions, sessions'[u] # None, sessions'[u].active_run # None
          PROVE  tasks'[sessions'[u].active_run].pc \in Leased /\ tasks'[sessions'[u].active_run].session = u
        <3>1. CASE u = s
            BY <3>1, <1>2
        <3>2. CASE u # s
            <4>1. sessions[u].active_run \in Runs /\ sessions'[u] = sessions[u]
                BY <2>2, <3>2, <1>2 DEF IInv, TypeOK, Record
            <4> QED BY <2>2, <4>1 DEF IInv, OnlyTask, LeaseMirrorsHolder
        <3> QED BY <3>1, <3>2
    <2> QED BY <2>1, <2>2 DEF LeaseMirrorsHolder
<1>5. MemorySound'
    <2> SUFFICES ASSUME NEW u \in Sessions, sessions'[u] # None
                 PROVE  /\ EndOf(sessions'[u], committed[u])
                        /\ committed[u] # <<>> => sessions'[u].recent # <<>>
                        /\ Fits(sessions'[u].recent)
        BY DEF MemorySound
    <2>1. sessions[u] # None
        BY <1>2
    <2>2. sessions'[u].summary = sessions[u].summary /\ sessions'[u].recent = sessions[u].recent
        BY <1>2
    <2> QED BY <2>1, <2>2 DEF IInv, MemorySound, EndOf
<1> QED BY <1>3, <1>4, <1>5 DEF IInv

(* While r holds a lease, it is the lease of its session and nobody else's. *)
LEMMA Holder ==
    ASSUME IInv, NEW r \in Runs, tasks[r].pc \in Leased
    PROVE  /\ tasks[r].session \in Sessions
           /\ ensure_lease(r)
           /\ sessions[tasks[r].session] \in Record
           /\ sessions[tasks[r].session].active_run = r
           /\ \A q \in Runs \ {r} : tasks[q].pc \in Leased => tasks[q].session # tasks[r].session
<1>1. tasks[r].session \in Sessions /\ ensure_lease(r)
    BY DEF IInv, TaskSound, Sound, LeaseMirrorsHolder, Leased
<1>2. sessions[tasks[r].session] \in Record /\ sessions[tasks[r].session].active_run = r
    BY <1>1 DEF IInv, TypeOK, ensure_lease
<1>3. ASSUME NEW q \in Runs \ {r}, tasks[q].pc \in Leased PROVE tasks[q].session # tasks[r].session
    <2>1. ensure_lease(q)
        BY <1>3 DEF IInv, LeaseMirrorsHolder
    <2> QED BY <1>2, <2>1 DEF ensure_lease
<1> QED BY <1>1, <1>2, <1>3

(* The holder gives its lease back, with or without a new memory.           *)
LEMMA Release ==
    ASSUME IInv, NEW r \in Runs, OnlyTask(r), NEW rec \in Record, NEW h \in Seq(Turn),
           tasks[r].pc \in Leased, tasks'[r].pc \notin Leased,
           rec.active_run = None,
           EndOf(rec, h), h # <<>> => rec.recent # <<>>, Fits(rec.recent),
           sessions' = [sessions EXCEPT ![tasks[r].session] = rec],
           committed' = [committed EXCEPT ![tasks[r].session] = h],
           UNCHANGED <<durable, initialized>>
    PROVE  IInv'
<1> DEFINE s == tasks[r].session
<1>1. /\ s \in Sessions
      /\ \A q \in Runs \ {r} : tasks[q].pc \in Leased => tasks[q].session # s
    BY Holder
<1>2. /\ sessions'[s] = rec /\ committed'[s] = h
      /\ \A u \in Sessions \ {s} : sessions'[u] = sessions[u] /\ committed'[u] = committed[u]
    BY <1>1 DEF IInv, TypeOK
<1>3. TypeOK' /\ TaskSound'
    BY <1>1 DEF IInv, TypeOK, TaskSound, OnlyTask
<1>4. LeaseMirrorsHolder'
    <2>1. ASSUME NEW q \in Runs, tasks'[q].pc \in Leased PROVE ensure_lease(q)'
        <3>1. q # r /\ tasks'[q] = tasks[q]
            BY <2>1 DEF OnlyTask
        <3>2. ensure_lease(q) /\ tasks[q].session \in Sessions \ {s}
            BY <2>1, <3>1, <1>1, Holder
        <3> QED BY <1>2, <3>1, <3>2 DEF ensure_lease
    <2>2. ASSUME NEW u \in Sessions, sessions'[u] # None, sessions'[u].active_run # None
          PROVE  tasks'[sessions'[u].active_run].pc \in Leased /\ tasks'[sessions'[u].active_run].session = u
        <3>1. u # s /\ sessions'[u] = sessions[u]
            BY <2>2, <1>2
        <3>2. sessions[u].active_run \in Runs
            BY <2>2, <3>1 DEF IInv, TypeOK, Record
        <3>3. tasks[sessions[u].active_run].session = u /\ tasks[sessions[u].active_run].pc \in Leased
            BY <2>2, <3>1 DEF IInv, LeaseMirrorsHolder
        <3>4. sessions[u].active_run # r
            BY <3>1, <3>3
        <3> QED BY <3>1, <3>2, <3>3, <3>4 DEF OnlyTask
    <2> QED BY <2>1, <2>2 DEF LeaseMirrorsHolder
<1>5. MemorySound'
    <2> SUFFICES ASSUME NEW u \in Sessions, sessions'[u] # None
                 PROVE  /\ EndOf(sessions'[u], committed'[u])
                        /\ committed'[u] # <<>> => sessions'[u].recent # <<>>
                        /\ Fits(sessions'[u].recent)
        BY DEF MemorySound
    <2>1. CASE u = s
        BY <2>1, <1>2
    <2>2. CASE u # s
        BY <2>2, <1>2 DEF IInv, MemorySound
    <2> QED BY <2>1, <2>2
<1> QED BY <1>3, <1>4, <1>5 DEF IInv

(* A session nobody holds gets a fresh memory: it is created, or reset. *)
LEMMA Fresh ==
    ASSUME IInv, NEW r \in Runs, NEW s \in Sessions, OnlyTask(r), NEW n \in Nat,
           tasks[r].pc \notin Leased, tasks'[r].pc \notin Leased,
           sessions[s] = None \/ sessions[s].active_run = None,
           sessions' = [sessions EXCEPT ![s] = [revision |-> n, active_run |-> None, summary |-> <<>>, recent |-> <<>>]],
           committed' = [committed EXCEPT ![s] = <<>>],
           UNCHANGED <<durable, initialized>>
    PROVE  IInv'
<1> DEFINE rec == [revision |-> n, active_run |-> None, summary |-> <<>>, recent |-> <<>>]
<1>1. <<>> \in Seq(Turn) /\ rec \in Record
    BY DEF Record
<1>2. /\ sessions'[s] = rec /\ committed'[s] = <<>>
      /\ \A u \in Sessions \ {s} : sessions'[u] = sessions[u] /\ committed'[u] = committed[u]
    BY DEF IInv, TypeOK
<1>3. TypeOK' /\ TaskSound'
    BY <1>1 DEF IInv, TypeOK, TaskSound, OnlyTask
<1>4. LeaseMirrorsHolder'
    <2>1. ASSUME NEW q \in Runs, tasks'[q].pc \in Leased PROVE ensure_lease(q)'
        <3>1. q # r /\ tasks'[q] = tasks[q]
            BY <2>1 DEF OnlyTask
        <3>2. ensure_lease(q) /\ tasks[q].session \in Sessions
            BY <2>1, <3>1, Holder
        <3>3. tasks[q].session # s
            BY <3>2, LimitsAssumption DEF ensure_lease
        <3> QED BY <1>2, <3>1, <3>2, <3>3 DEF ensure_lease
    <2>2. ASSUME NEW u \in Sessions, sessions'[u] # None, sessions'[u].active_run # None
          PROVE  tasks'[sessions'[u].active_run].pc \in Leased /\ tasks'[sessions'[u].active_run].session = u
        <3>1. u # s /\ sessions'[u] = sessions[u]
            BY <2>2, <1>2
        <3>2. sessions[u].active_run \in Runs
            BY <2>2, <3>1 DEF IInv, TypeOK, Record
        <3> QED BY <2>2, <3>1, <3>2 DEF IInv, LeaseMirrorsHolder, OnlyTask
    <2> QED BY <2>1, <2>2 DEF LeaseMirrorsHolder
<1>5. MemorySound'
    <2> SUFFICES ASSUME NEW u \in Sessions, sessions'[u] # None
                 PROVE  /\ EndOf(sessions'[u], committed'[u])
                        /\ committed'[u] # <<>> => sessions'[u].recent # <<>>
                        /\ Fits(sessions'[u].recent)
        BY DEF MemorySound
    <2>1. CASE u = s
        <3>1. EndOf(rec, <<>>)
            BY <1>1, ConcatEmptySeq DEF EndOf
        <3>2. Fits(<<>>)
            BY NoBytes, LimitsAssumption DEF Fits
        <3> QED BY <2>1, <1>2, <3>1, <3>2
    <2>2. CASE u # s
        BY <2>2, <1>2 DEF IInv, MemorySound
    <2> QED BY <2>1, <2>2
<1> QED BY <1>3, <1>4, <1>5 DEF IInv

(* commit_turn by a holder succeeds and ends its lease. *)
LEMMA CommitStep ==
    ASSUME IInv, NEW r \in Runs, NEW t \in Turn, tasks[r].pc \in Leased
    PROVE  /\ CommitSucceeds(r, t)
           /\ (/\ OnlyTask(r) /\ tasks'[r].pc \notin Leased
               /\ commit_turn(r, t) /\ UNCHANGED <<durable, initialized>>) => IInv'
<1> DEFINE s == tasks[r].session
           rec == AppendTurn(sessions[s], t)
           h == Append(committed[s], t)
<1>1. s \in Sessions /\ ensure_lease(r) /\ sessions[s] \in Record
    BY Holder
<1>2. sessions[s].recent \in Seq(Turn) /\ committed[s] \in Seq(Turn)
    BY <1>1 DEF Record, IInv, TypeOK
<1>3. CommitSucceeds(r, t)
    BY <1>1, <1>2, Room DEF CommitSucceeds
<1>4. EndOf(sessions[s], committed[s])
    BY <1>1, NoneAssumption DEF IInv, MemorySound
<1>5. rec \in Record /\ rec.active_run = None /\ EndOf(rec, h) /\ rec.recent # <<>> /\ Fits(rec.recent)
    BY <1>1, <1>2, <1>4, AppendTurnMemory
<1>6. h \in Seq(Turn)
    BY <1>2, AppendProperties
<1>7. ASSUME OnlyTask(r), tasks'[r].pc \notin Leased, commit_turn(r, t), UNCHANGED <<durable, initialized>>
      PROVE  IInv'
    <2>1. sessions' = [sessions EXCEPT ![s] = rec] /\ committed' = [committed EXCEPT ![s] = h]
        BY <1>3, <1>7 DEF commit_turn
    <2> HIDE DEF rec, h
    <2> QED BY <1>5, <1>6, <1>7, <2>1, Release
<1> QED BY <1>3, <1>7

(* abort_turn by a holder ends its lease and keeps the memory. *)
LEMMA AbortStep ==
    ASSUME IInv, NEW r \in Runs, tasks[r].pc \in Leased,
           OnlyTask(r), tasks'[r].pc \notin Leased,
           abort_turn(r), UNCHANGED <<committed, durable, initialized>>
    PROVE  IInv'
<1> DEFINE s == tasks[r].session
           rec == [sessions[s] EXCEPT !.active_run = None]
           h == committed[s]
<1>1. s \in Sessions /\ ensure_lease(r) /\ sessions[s] \in Record
    BY Holder
<1>2. /\ rec \in Record /\ rec.active_run = None
      /\ rec.summary = sessions[s].summary /\ rec.recent = sessions[s].recent
    BY <1>1 DEF Record
<1>3. /\ EndOf(sessions[s], h)
      /\ h # <<>> => sessions[s].recent # <<>>
      /\ Fits(sessions[s].recent)
    BY <1>1, NoneAssumption DEF IInv, MemorySound
<1>4. EndOf(rec, h) /\ (h # <<>> => rec.recent # <<>>) /\ Fits(rec.recent)
    BY <1>2, <1>3 DEF EndOf
<1>5. h \in Seq(Turn)
    BY <1>1 DEF IInv, TypeOK
<1>6. sessions' = [sessions EXCEPT ![s] = rec]
    BY <1>1 DEF abort_turn
<1>7. committed' = [committed EXCEPT ![s] = h]
    BY <1>1 DEF IInv, TypeOK
<1> HIDE DEF rec, h
<1> QED BY <1>2, <1>4, <1>5, <1>6, <1>7, Release

(* begin_turn: a lease on a free session, or the refusal. *)
LEMMA BeginStep ==
    ASSUME IInv, NEW r \in Runs, tasks[r].pc \notin Leased, tasks[r].pc # "idle",
           NEW granted \in Leased, granted = "legacyCommit" \/ granted = "pairCommit" => tasks[r].todo # <<>>,
           sessions[tasks[r].session] # None, sessions[tasks[r].session].active_run = None,
           sessions' = [sessions EXCEPT ![tasks[r].session].active_run = r],
           tasks' = [tasks EXCEPT ![r].pc = granted, ![r].base = sessions[tasks[r].session].revision],
           UNCHANGED <<committed, durable, initialized>>
    PROVE  IInv'
<1> DEFINE s == tasks[r].session
<1>1. s \in Sessions /\ tasks[r] \in Task
    BY DEF IInv, TaskSound, Sound, TypeOK
<1>2. sessions[s].revision \in Nat
    BY <1>1 DEF IInv, TypeOK, Record
<1>3. granted \in PCs
    BY DEF Leased, PCs
<1>4. /\ tasks' \in [Runs -> Task] /\ \A q \in Runs \ {r} : tasks'[q] = tasks[q]
      /\ tasks'[r].pc = granted /\ tasks'[r].base = sessions[s].revision
      /\ tasks'[r].session = s /\ tasks'[r].todo = tasks[r].todo
    BY <1>1, <1>2, <1>3 DEF IInv, TypeOK, Task
<1>5. OnlyTask(r)
    BY <1>1, <1>4 DEF OnlyTask, Sound, Leased
<1>6. /\ tasks[r].pc \notin Leased /\ sessions[s] # None /\ sessions[s].active_run = None
      /\ sessions' = [sessions EXCEPT ![s].active_run = r]
      /\ UNCHANGED <<committed, durable, initialized>>
    OBVIOUS
<1> HIDE DEF s
<1> QED BY ONLY IInv, <1>1, <1>4, <1>5, <1>6, Acquire, Zenon

(* The empty store is sound. *)
LEMMA InitSound == Init => IInv
<1> SUFFICES ASSUME Init PROVE IInv
    OBVIOUS
<1>1. IdleTask \in Task /\ Sound(IdleTask) /\ IdleTask.pc \notin Leased /\ <<>> \in Seq(Turn)
    BY DEF IdleTask, Task, Sound, PCs, Kinds, Leased
<1>2. TypeOK
    BY <1>1 DEF Init, TypeOK
<1>3. TaskSound /\ LeaseMirrorsHolder /\ MemorySound
    BY <1>1 DEF Init, TaskSound, LeaseMirrorsHolder, MemorySound
<1> QED BY <1>2, <1>3 DEF IInv

(* Every step of a task keeps the invariant: one case per action. *)
LEMMA TaskStepSound ==
    ASSUME IInv, NEW r \in Runs, TaskStep(r)
    PROVE  IInv'
<1> DEFINE s == tasks[r].session
<1>0. /\ tasks[r] \in Task /\ Sound(tasks[r])
      /\ durable \in [Sessions -> Seq(Turn)] /\ initialized \in [Sessions -> BOOLEAN]
      /\ tasks \in [Runs -> Task]
    BY DEF IInv, TypeOK, TaskSound
<1>g. ASSUME NEW pc \in PCs \ Leased, pc # "legacy", tasks[r].pc # "idle", tasks[r].pc \notin Leased,
             Goto(r, pc), sessions' = sessions, committed' = committed,
             durable' \in [Sessions -> Seq(Turn)], initialized' \in [Sessions -> BOOLEAN]
      PROVE  IInv'
    <2>1. pc \in PCs \ {"pairCommit", "legacy", "legacyCommit"}
        BY <1>g DEF Leased
    <2>2. OnlyTask(r) /\ tasks'[r] = [tasks[r] EXCEPT !.pc = pc]
        BY <1>g, <2>1, GotoFacts
    <2>3. tasks'[r].pc \notin Leased
        BY <1>0, <1>g, <2>2 DEF Task
    <2> QED BY <1>g, <2>2, <2>3, Quiet
<1>d. ASSUME Done(r), tasks[r].pc \notin Leased, sessions' = sessions, committed' = committed,
             durable' \in [Sessions -> Seq(Turn)], initialized' \in [Sessions -> BOOLEAN]
      PROVE  IInv'
    <2>1. OnlyTask(r) /\ tasks'[r].pc \notin Leased
        BY <1>d, DoneFacts DEF Leased
    <2> QED BY <1>d, <2>1, Quiet
<1>1. CASE Ensure(r)
    <2>0. /\ s \in Sessions /\ tasks[r].pc # "idle" /\ tasks[r].pc \notin Leased
          /\ UNCHANGED <<durable, initialized>>
          /\ "register" \in PCs \ Leased
        BY <1>0, <1>1 DEF Ensure, Sound, Leased, PCs
    <2>1. CASE sessions[s] # None
        BY <1>0, <1>1, <2>0, <2>1, <1>g DEF Ensure
    <2>2. CASE sessions[s] = None /\ Created(s) /\ Goto(r, "register")
        <3>1. OnlyTask(r) /\ tasks'[r] = [tasks[r] EXCEPT !.pc = "register"]
            BY <2>0, <2>2, GotoFacts
        <3>2. tasks'[r].pc \notin Leased
            BY <1>0, <3>1 DEF Task, Leased
        <3> QED BY <2>0, <2>2, <3>1, <3>2, Fresh DEF Created, NewRecord
    <2>3. CASE Done(r) /\ UNCHANGED <<sessions, committed>>
        BY <1>0, <2>0, <2>3, <1>d
    <2> QED BY <1>1, <2>1, <2>2, <2>3 DEF Ensure
<1>2. CASE Visit(r)
    <2>0. /\ s \in Sessions /\ tasks[r].pc # "idle" /\ tasks[r].pc \notin Leased
          /\ {"register", "restore", "resetDurable"} \subseteq PCs \ Leased
        BY <1>0, <1>2 DEF Visit, Sound, Leased, PCs
    <2>1. initialized' \in [Sessions -> BOOLEAN]
        BY <1>0, <1>2 DEF Visit
    <2>2. Done(r) \/ \E pc \in {"register", "restore", "resetDurable"} : Goto(r, pc)
        BY <1>2 DEF Visit, AfterVisit
    <2>3. CASE Done(r)
        BY <1>0, <1>2, <2>0, <2>1, <2>3, <1>d DEF Visit
    <2>4. CASE \E pc \in {"register", "restore", "resetDurable"} : Goto(r, pc)
        BY <1>0, <1>2, <2>0, <2>1, <2>4, <1>g DEF Visit
    <2> QED BY <2>2, <2>3, <2>4
<1>3. CASE Restore(r)
    <2>0. /\ s \in Sessions /\ tasks[r].pc # "idle" /\ tasks[r].pc \notin Leased
          /\ UNCHANGED <<sessions, durable, initialized, committed>>
          /\ {"register", "resetDurable"} \subseteq PCs \ Leased /\ "create" \in PCs \ Leased
        BY <1>0, <1>3 DEF Restore, Sound, Leased, PCs
    <2>1. CASE sessions[s] # None
        <3>1. PICK pc \in {"register", "resetDurable"} : Goto(r, pc)
            BY <1>3, <2>1 DEF Restore, AfterVisit
        <3> QED BY <1>0, <2>0, <3>1, <1>g
    <2>2. CASE tasks' = [tasks EXCEPT ![r].pc = "create", ![r].todo = durable[s]]
        <3>1. OnlyTask(r) /\ tasks'[r].pc = "create"
            BY <1>0, <2>0, <2>2 DEF OnlyTask, Task, Sound
        <3> QED BY <1>0, <2>0, <3>1, Quiet
    <2> QED BY <1>3, <2>1, <2>2 DEF Restore
<1>3a. CASE RestoreCreate(r)
    <2>0. /\ s \in Sessions /\ tasks[r].pc # "idle" /\ tasks[r].pc \notin Leased
          /\ UNCHANGED <<durable, initialized>>
          /\ "pair" \in PCs \ Leased
        BY <1>0, <1>3a DEF RestoreCreate, Sound, Leased, PCs
    <2>1. CASE sessions[s] = None /\ Created(s) /\ Goto(r, "pair")
        <3>1. OnlyTask(r) /\ tasks'[r] = [tasks[r] EXCEPT !.pc = "pair"]
            BY <2>0, <2>1, GotoFacts
        <3>2. tasks'[r].pc \notin Leased
            BY <1>0, <3>1 DEF Task, Leased
        <3> QED BY <2>0, <2>1, <3>1, <3>2, Fresh DEF Created, NewRecord
    <2>2. CASE Done(r) /\ UNCHANGED <<sessions, committed>>
        BY <1>0, <2>0, <2>2, <1>d
    <2> QED BY <1>3a, <2>1, <2>2 DEF RestoreCreate
<1>4. CASE RestorePair(r)
    <2>0. /\ tasks[r].pc = "pair" /\ tasks[r].pc # "idle" /\ tasks[r].pc \notin Leased
          /\ UNCHANGED <<committed, durable, initialized>>
          /\ {"register", "resetDurable"} \subseteq PCs \ Leased /\ "pairCommit" \in Leased
        BY <1>4 DEF RestorePair, Leased, PCs
    <2>1. CASE tasks[r].todo = <<>>
        <3>1. (\E pc \in {"register", "resetDurable"} : Goto(r, pc)) /\ sessions' = sessions
            BY <1>4, <2>1 DEF RestorePair, AfterVisit
        <3>2. PICK pc \in {"register", "resetDurable"} : Goto(r, pc)
            BY <3>1
        <3> QED BY <1>0, <2>0, <3>1, <3>2, <1>g
    <2>2. CASE tasks[r].todo # <<>> /\ begin_turn(r, "pairCommit", Done(r))
        <3>1. CASE Done(r) /\ UNCHANGED sessions
            BY <1>0, <2>0, <3>1, <1>d
        <3>2. CASE ~(Done(r) /\ UNCHANGED sessions)
            BY <2>0, <2>2, <3>2, BeginStep DEF begin_turn
        <3> QED BY <3>1, <3>2
    <2> QED BY <1>4, <2>1, <2>2 DEF RestorePair
<1>5. CASE RestoreCommit(r)
    <2> DEFINE t == Head(tasks[r].todo)
    <2>0. tasks[r].pc = "pairCommit" /\ tasks[r].pc \in Leased /\ tasks[r].todo # <<>> /\ tasks[r].todo \in Seq(Turn)
        BY <1>0, <1>5 DEF RestoreCommit, Sound, Leased, Task
    <2>1. t \in Turn /\ Tail(tasks[r].todo) \in Seq(Turn)
        BY <2>0, HeadTailProperties
    <2>2. CommitSucceeds(r, t)
        BY <2>0, <2>1, CommitStep
    <2>3. tasks' = [tasks EXCEPT ![r].pc = "pair", ![r].todo = Tail(@)]
        BY <1>5, <2>2 DEF RestoreCommit
    <2>4. OnlyTask(r) /\ tasks'[r].pc = "pair" /\ "pair" \notin Leased
        BY <1>0, <2>0, <2>1, <2>3 DEF OnlyTask, Task, Sound, PCs, Leased
    <2> QED BY <1>5, <2>0, <2>1, <2>4, CommitStep DEF RestoreCommit
<1>6. CASE Register(r)
    <2>0. /\ tasks[r].pc # "idle" /\ tasks[r].pc \notin Leased
          /\ UNCHANGED <<sessions, committed, durable, initialized>>
          /\ {"begin", "launch"} \subseteq PCs \ Leased
        BY <1>6 DEF Register, Leased, PCs
    <2>1. Done(r) \/ \E pc \in {"begin", "launch"} : Goto(r, pc)
        BY <1>6 DEF Register
    <2>2. CASE Done(r)
        BY <1>0, <2>0, <2>2, <1>d
    <2>3. CASE \E pc \in {"begin", "launch"} : Goto(r, pc)
        BY <1>0, <2>0, <2>3, <1>g
    <2> QED BY <2>1, <2>2, <2>3
<1>6a. CASE Launch(r)
    <2>0. /\ tasks[r].pc # "idle" /\ tasks[r].pc \notin Leased
          /\ UNCHANGED <<sessions, committed, durable, initialized>>
          /\ "slice" \in PCs \ Leased /\ "finish" \in PCs \ Leased
        BY <1>6a DEF Launch, Leased, PCs
    <2>1. CASE Goto(r, "finish")
        BY <1>0, <2>0, <2>1, <1>g
    <2>2. CASE tasks' = [tasks EXCEPT ![r].pc = "slice", ![r].open = TRUE]
        <3>1. OnlyTask(r) /\ tasks'[r].pc = "slice"
            BY <1>0, <2>0, <2>2 DEF OnlyTask, Task, Sound
        <3> QED BY <1>0, <2>0, <3>1, Quiet
    <2> QED BY <1>6a, <2>1, <2>2 DEF Launch
<1>7. CASE Finish(r)
    BY <1>0, <1>7, <1>d DEF Finish, Leased
<1>8. CASE BeginTurn(r) \/ BeginSlice(r) \/ BeginLegacy(r)
    <2>0. /\ tasks[r].pc # "idle" /\ tasks[r].pc \notin Leased
          /\ UNCHANGED <<committed, durable, initialized>>
          /\ "finish" \in PCs \ Leased
        BY <1>8 DEF BeginTurn, BeginSlice, BeginLegacy, Leased, PCs
    <2>1. PICK granted \in {"run", "inslice", "legacyCommit"} :
              /\ begin_turn(r, granted, Goto(r, "finish"))
              /\ granted = "legacyCommit" => tasks[r].pc = "legacy"
        BY <1>8 DEF BeginTurn, BeginSlice, BeginLegacy
    <2>2. granted \in Leased /\ (granted = "legacyCommit" \/ granted = "pairCommit" => tasks[r].todo # <<>>)
        BY <1>0, <2>1 DEF Leased, Sound
    <2>3. CASE Goto(r, "finish") /\ UNCHANGED sessions
        BY <1>0, <2>0, <2>3, <1>g
    <2>4. CASE ~(Goto(r, "finish") /\ UNCHANGED sessions)
        BY <2>0, <2>1, <2>2, <2>4, BeginStep DEF begin_turn
    <2> QED BY <2>3, <2>4
<1>9. CASE RunLeased(r)
    <2>1. PICK pc \in {"commit", "abort"} : Goto(r, pc)
        BY <1>9 DEF RunLeased
    <2>2. /\ tasks[r].pc # "idle" /\ tasks[r].pc \in Leased /\ pc \in Leased
          /\ pc \in PCs \ {"pairCommit", "legacy", "legacyCommit"}
        BY <1>9, <2>1 DEF RunLeased, Leased, PCs
    <2>3. OnlyTask(r) /\ tasks'[r] = [tasks[r] EXCEPT !.pc = pc]
        BY <2>1, <2>2, GotoFacts
    <2>4. tasks'[r].pc = pc /\ tasks'[r].session = tasks[r].session /\ tasks'[r].base = tasks[r].base
        BY <1>0, <2>3 DEF Task
    <2> QED BY <1>9, <2>2, <2>3, <2>4, Keep DEF RunLeased
<1>10. CASE CommitTurn(r)
    <2>0. /\ tasks[r].pc # "idle" /\ tasks[r].pc \in Leased /\ "abort" \in Leased /\ "finish" \notin Leased
          /\ {"abort", "finish"} \subseteq PCs \ {"pairCommit", "legacy", "legacyCommit"}
          /\ UNCHANGED <<durable, initialized>>
        BY <1>10 DEF CommitTurn, Leased, PCs
    <2>1. ASSUME NEW b \in PairBytes, commit_turn(r, [run |-> r, bytes |-> b]),
                 Goto(r, IF CommitSucceeds(r, [run |-> r, bytes |-> b]) THEN "finish" ELSE "abort")
          PROVE  IInv'
        <3> DEFINE t == [run |-> r, bytes |-> b]
        <3>1. t \in Turn
            BY DEF Turn
        <3>2. CommitSucceeds(r, t)
            BY <2>0, <3>1, CommitStep
        <3>3. Goto(r, "finish")
            BY <2>1, <3>2
        <3>4. OnlyTask(r) /\ tasks'[r] = [tasks[r] EXCEPT !.pc = "finish"]
            BY <2>0, <3>3, GotoFacts
        <3>5. tasks'[r].pc \notin Leased
            BY <1>0, <2>0, <3>4 DEF Task
        <3> HIDE DEF t
        <3> QED BY <2>0, <2>1, <3>1, <3>4, <3>5, CommitStep DEF t
    <2>2. CASE Goto(r, "abort") /\ UNCHANGED <<sessions, committed>>
        <3>1. OnlyTask(r) /\ tasks'[r] = [tasks[r] EXCEPT !.pc = "abort"]
            BY <2>0, <2>2, GotoFacts
        <3>2. tasks'[r].pc = "abort" /\ tasks'[r].session = tasks[r].session /\ tasks'[r].base = tasks[r].base
            BY <1>0, <3>1 DEF Task
        <3> QED BY <2>0, <2>2, <3>1, <3>2, Keep
    <2> QED BY <1>10, <2>1, <2>2 DEF CommitTurn
<1>11. CASE AbortTurn(r) \/ SliceEnds(r)
    <2>1. PICK pc \in {"finish", "slice"} : Goto(r, pc)
        BY <1>11 DEF AbortTurn, SliceEnds
    <2>2. /\ tasks[r].pc # "idle" /\ tasks[r].pc \in Leased /\ pc \notin Leased
          /\ pc \in PCs \ {"pairCommit", "legacy", "legacyCommit"}
          /\ abort_turn(r) /\ UNCHANGED <<committed, durable, initialized>>
        BY <1>11, <2>1 DEF AbortTurn, SliceEnds, Leased, PCs
    <2>3. OnlyTask(r) /\ tasks'[r] = [tasks[r] EXCEPT !.pc = pc]
        BY <2>1, <2>2, GotoFacts
    <2>4. tasks'[r].pc \notin Leased
        BY <1>0, <2>2, <2>3 DEF Task
    <2> QED BY <2>2, <2>3, <2>4, AbortStep
<1>11a. CASE LeaveLoop(r)
    <2>1. PICK pc \in {"durable", "finish"} : Goto(r, pc)
        BY <1>11a DEF LeaveLoop
    <2>2. /\ tasks[r].pc # "idle" /\ tasks[r].pc \notin Leased /\ pc \in PCs \ Leased /\ pc # "legacy"
          /\ UNCHANGED <<sessions, durable, initialized, committed>>
        BY <1>11a, <2>1 DEF LeaveLoop, Leased, PCs
    <2> QED BY <1>0, <2>1, <2>2, <1>g
<1>12. CASE CommitGoal(r)
    <2>0. /\ s \in Sessions /\ tasks[r].pc # "idle" /\ tasks[r].pc \notin Leased
          /\ UNCHANGED <<sessions, initialized, committed>>
          /\ "finish" \in PCs \ Leased /\ "legacy" \in PCs \ Leased
        BY <1>0, <1>12 DEF CommitGoal, Sound, Leased, PCs
    <2>1. CASE Goto(r, "finish") /\ UNCHANGED durable
        BY <1>0, <2>0, <2>1, <1>g
    <2>2. CASE tasks[r].open /\ ~(Goto(r, "finish") /\ UNCHANGED durable)
        <3>1. PICK b \in PairBytes :
                LET t == [run |-> r, bytes |-> b]
                    all == Append(durable[s], t)
                IN  /\ durable' = [durable EXCEPT ![s] = Suffix(all, IF Len(all) > MaxDurable THEN Len(all) - MaxDurable ELSE 0)]
                    /\ tasks' = [tasks EXCEPT ![r].pc = "legacy", ![r].open = FALSE, ![r].todo = <<t>>]
            BY <1>12, <2>2 DEF CommitGoal
        <3> DEFINE t == [run |-> r, bytes |-> b]
                   all == Append(durable[s], t)
                   k == IF Len(all) > MaxDurable THEN Len(all) - MaxDurable ELSE 0
        <3>2. t \in Turn
            BY DEF Turn
        <3>3. all \in Seq(Turn) /\ Len(all) \in Nat
            BY <1>0, <2>0, <3>2, AppendProperties, LenProperties
        <3>4. k \in 0..Len(all)
            BY <3>3, LimitsAssumption
        <3>5. Suffix(all, k) \in Seq(Turn)
            <4> HIDE DEF all, k
            <4> QED BY <3>3, <3>4, SuffixProperties
        <3>6. durable' \in [Sessions -> Seq(Turn)]
            BY <1>0, <3>1, <3>5
        <3>7. <<t>> \in Seq(Turn) /\ <<t>> # <<>>
            BY <3>2
        <3>8. OnlyTask(r) /\ tasks'[r].pc = "legacy"
            <4> HIDE DEF t
            <4>1. tasks' = [tasks EXCEPT ![r].pc = "legacy", ![r].open = FALSE, ![r].todo = <<t>>]
                BY <3>1 DEF t
            <4> QED BY <1>0, <2>0, <3>7, <4>1 DEF OnlyTask, Task, Sound
        <3> QED BY <1>0, <2>0, <3>6, <3>8, Quiet
    <2> QED BY <1>12, <2>1, <2>2 DEF CommitGoal
<1>13. CASE CommitLegacy(r)
    <2> DEFINE t == Head(tasks[r].todo)
    <2>0. /\ tasks[r].pc \in Leased /\ tasks[r].todo # <<>> /\ tasks[r].todo \in Seq(Turn)
          /\ s \in Sessions
        BY <1>0, <1>13 DEF CommitLegacy, Sound, Leased, Task
    <2>1. t \in Turn
        BY <2>0, HeadTailProperties
    <2>2. OnlyTask(r) /\ tasks'[r].pc = "finish" /\ "finish" \notin Leased
        <3>1. <<>> \in Seq(Turn) /\ "finish" \in PCs
            BY DEF PCs
        <3> QED BY <1>0, <1>13, <2>0, <3>1 DEF CommitLegacy, OnlyTask, Task, Sound, Leased
    <2> QED BY <1>13, <2>0, <2>1, <2>2, CommitStep DEF CommitLegacy
<1>14. CASE ResetDurable(r)
    <2>0. /\ s \in Sessions /\ tasks[r].pc # "idle" /\ tasks[r].pc \notin Leased
          /\ UNCHANGED <<sessions, initialized, committed>>
          /\ "resetStore" \in PCs \ Leased /\ <<>> \in Seq(Turn)
        BY <1>0, <1>14 DEF ResetDurable, Sound, Leased, PCs
    <2>1. durable' \in [Sessions -> Seq(Turn)]
        BY <1>0, <1>14, <2>0 DEF ResetDurable
    <2>2. Done(r) \/ Goto(r, "resetStore")
        BY <1>14 DEF ResetDurable
    <2>3. CASE Done(r)
        BY <1>0, <2>0, <2>1, <2>3, <1>d
    <2>4. CASE Goto(r, "resetStore")
        BY <1>0, <2>0, <2>1, <2>4, <1>g
    <2> QED BY <2>2, <2>3, <2>4
<1>15. CASE ResetStore(r)
    <2>0. /\ s \in Sessions /\ tasks[r].pc \notin Leased
          /\ Done(r) /\ UNCHANGED <<durable, initialized>>
        BY <1>0, <1>15 DEF ResetStore, Sound, Leased
    <2>1. CASE sessions[s] # None /\ sessions[s].active_run = None
        <3> DEFINE n == sessions[s].revision + 1
        <3>1. sessions[s] \in Record /\ n \in Nat
            BY <2>0, <2>1 DEF IInv, TypeOK, Record
        <3>2. [NewRecord EXCEPT !.revision = n] = [revision |-> n, active_run |-> None, summary |-> <<>>, recent |-> <<>>]
            BY <3>1 DEF NewRecord
        <3>3. /\ sessions' = [sessions EXCEPT ![s] = [NewRecord EXCEPT !.revision = n]]
              /\ committed' = [committed EXCEPT ![s] = <<>>]
            BY <1>15, <2>1 DEF ResetStore, reset
        <3>4. sessions' = [sessions EXCEPT ![s] = [revision |-> n, active_run |-> None, summary |-> <<>>, recent |-> <<>>]]
            BY <3>2, <3>3
        <3>5. OnlyTask(r) /\ tasks'[r].pc \notin Leased
            BY <2>0, DoneFacts DEF Leased
        <3> HIDE DEF n
        <3> QED BY <2>0, <2>1, <3>1, <3>3, <3>4, <3>5, Fresh
    <2>2. CASE ~(sessions[s] # None /\ sessions[s].active_run = None)
        <3>1. sessions' = sessions /\ committed' = committed
            BY <1>15, <2>2 DEF ResetStore, reset
        <3> QED BY <1>0, <2>0, <3>1, <1>d
    <2> QED BY <2>1, <2>2
<1> QED BY <1>1, <1>2, <1>3, <1>4, <1>5, <1>6, <1>7, <1>8, <1>9, <1>10, <1>11, <1>12, <1>13, <1>14, <1>15,
          <1>3a, <1>6a, <1>11a
        DEF TaskStep

(* A restart drops the store and every lease together. *)
LEMMA RestartSound ==
    ASSUME IInv, Restart
    PROVE  IInv'
<1>1. /\ sessions' = [s \in Sessions |-> None] /\ committed' = [s \in Sessions |-> <<>>]
      /\ initialized' = [s \in Sessions |-> FALSE] /\ durable' = durable
      /\ tasks' = [r \in Runs |-> Ended(tasks[r])]
    BY DEF Restart
<1>2. ASSUME NEW r \in Runs
      PROVE  Ended(tasks[r]) \in Task /\ Sound(Ended(tasks[r])) /\ Ended(tasks[r]).pc = "idle"
    BY EndedFacts DEF IInv, TypeOK, TaskSound
<1>3. TypeOK'
    <2>1. <<>> \in Seq(Turn)
        OBVIOUS
    <2> QED BY <1>1, <1>2, <2>1 DEF IInv, TypeOK
<1>4. TaskSound' /\ LeaseMirrorsHolder' /\ MemorySound'
    BY <1>1, <1>2 DEF TaskSound, LeaseMirrorsHolder, MemorySound, Leased
<1> QED BY <1>3, <1>4 DEF IInv

(* A task that starts touches neither the store nor a lease. *)
LEMMA StartSound ==
    ASSUME IInv, NEW r \in Runs, NEW kind \in Kinds, NEW s \in Sessions, Start(r, kind, s)
    PROVE  IInv'
<1> DEFINE t == [pc |-> IF kind = "turn" THEN "ensure" ELSE "visit", kind |-> kind,
                 session |-> s, base |-> 0, todo |-> <<>>, open |-> tasks[r].open]
<1>0. tasks[r].open \in BOOLEAN
    BY DEF IInv, TypeOK, Task
<1>1. t \in Task /\ Sound(t) /\ t.pc \notin Leased
    BY <1>0 DEF Task, Sound, PCs, Leased
<1>2. tasks' = [tasks EXCEPT ![r] = t]
    BY DEF Start
<1>3. OnlyTask(r) /\ tasks'[r] = t
    <2> HIDE DEF t
    <2> QED BY <1>1, <1>2 DEF IInv, TypeOK, OnlyTask
<1>4. tasks[r].pc \notin Leased
    BY DEF Start, Leased
<1> QED BY <1>1, <1>3, <1>4, Quiet DEF Start, IInv, TypeOK

(* cancel_agent_goal leaves the lease with the runner that holds it. *)
LEMMA CancelSound ==
    ASSUME IInv, NEW r \in Runs, CancelGoal(r)
    PROVE  IInv'
<1>0. tasks[r] \in Task /\ Sound(tasks[r])
    BY DEF IInv, TypeOK, TaskSound
<1>1. CASE tasks[r].pc = "idle"
    <2>1. tasks' = [tasks EXCEPT ![r] = IdleTask]
        BY <1>1 DEF CancelGoal
    <2>2. IdleTask \in Task /\ Sound(IdleTask) /\ IdleTask.pc = "idle" /\ "idle" \notin Leased
        BY DEF IdleTask, Task, Sound, PCs, Kinds, Leased
    <2>3. OnlyTask(r) /\ tasks'[r].pc \notin Leased
        BY <2>1, <2>2 DEF IInv, TypeOK, OnlyTask
    <2> QED BY <1>1, <2>2, <2>3, Quiet DEF CancelGoal, IInv, TypeOK
<1>2. CASE tasks[r].pc # "idle"
    <2> DEFINE t == [tasks[r] EXCEPT !.open = FALSE]
    <2>1. tasks' = [tasks EXCEPT ![r] = t]
        BY <1>2 DEF CancelGoal
    <2>2. /\ t \in Task /\ Sound(t)
          /\ t.pc = tasks[r].pc /\ t.session = tasks[r].session /\ t.base = tasks[r].base
        BY <1>0, <1>2 DEF Task, Sound
    <2> HIDE DEF t
    <2>3. OnlyTask(r) /\ tasks'[r] = t
        BY <2>1, <2>2 DEF IInv, TypeOK, OnlyTask
    <2>4. CASE tasks[r].pc \in Leased
        BY <2>2, <2>3, <2>4, Keep DEF CancelGoal
    <2>5. CASE tasks[r].pc \notin Leased
        BY <2>2, <2>3, <2>5, Quiet DEF CancelGoal, IInv, TypeOK
    <2> QED BY <2>4, <2>5
<1> QED BY <1>1, <1>2

(* The inductive invariant holds in every reachable state: the store, the   *)
(* repository's memory and the tasks keep their types, every lease has its  *)
(* holder, and every memory is an end of its history.                       *)
THEOREM SessionInvariant == Spec => []IInv
<1>1. Init => IInv
    BY InitSound
<1>2. IInv /\ [Next]_vars => IInv'
    <2> SUFFICES ASSUME IInv, [Next]_vars PROVE IInv'
        OBVIOUS
    <2>1. ASSUME NEW r \in Runs, TaskStep(r) PROVE IInv'
        BY <2>1, TaskStepSound
    <2>2. ASSUME NEW r \in Runs, CancelGoal(r) PROVE IInv'
        BY <2>2, CancelSound
    <2>3. ASSUME NEW r \in Runs, NEW kind \in Kinds, NEW s \in Sessions, Start(r, kind, s) PROVE IInv'
        BY <2>3, StartSound
    <2>4. CASE Restart
        BY <2>4, RestartSound
    <2>5. CASE UNCHANGED vars
        BY <2>5 DEF vars, IInv, TypeOK, TaskSound, LeaseMirrorsHolder, ensure_lease, MemorySound
    <2> QED BY <2>1, <2>2, <2>3, <2>4, <2>5 DEF Next
<1> QED BY <1>1, <1>2, PTL DEF Spec

(* For any sessions, runs and limits: no commit_turn or abort_turn of a turn, *)
(* a slice, a goal's commit or a restore finds its lease stale, and no failure *)
(* path leaves a session leased to nobody.                                  *)
THEOREM LeaseMirrorsHolderAlways == Spec => []LeaseMirrorsHolder
<1>1. IInv => LeaseMirrorsHolder
    BY DEF IInv
<1> QED BY <1>1, SessionInvariant, PTL

(* For any limits with_compactor accepts, commit_turn's compaction loop never *)
(* ends in its Compaction error for a turn of valid size.                   *)
THEOREM AlwaysRoomHolds == Spec => []AlwaysRoom
<1>1. IInv => AlwaysRoom
    <2> SUFFICES ASSUME IInv, NEW s \in Live, NEW r \in Runs, NEW b \in PairBytes
                 PROVE  Drains(Append(sessions[s].recent, [run |-> r, bytes |-> b])) # {}
        BY DEF AlwaysRoom
    <2>1. [run |-> r, bytes |-> b] \in Turn
        BY DEF Turn
    <2>2. sessions[s].recent \in Seq(Turn)
        BY DEF IInv, TypeOK, Live, Record
    <2> QED BY <2>1, <2>2, Room
<1> QED BY <1>1, SessionInvariant, PTL

(* For any limits: what a model is shown of a session, summary then recent  *)
(* turns, is an unbroken end of the turns committed to it, and it always    *)
(* holds the last of them verbatim.                                         *)
THEOREM MemoryIsRecentHistoryAlways == Spec => []MemoryIsRecentHistory
<1>1. IInv => MemoryIsRecentHistory
    <2> SUFFICES ASSUME IInv, NEW s \in Live
                 PROVE  LET memory == sessions[s].summary \o sessions[s].recent
                        IN  /\ Len(memory) <= Len(committed[s])
                            /\ memory = Suffix(committed[s], Len(committed[s]) - Len(memory))
                            /\ committed[s] # <<>> => sessions[s].recent # <<>>
                            /\ Fits(sessions[s].recent)
        BY DEF MemoryIsRecentHistory
    <2> DEFINE memory == sessions[s].summary \o sessions[s].recent
    <2>1. s \in Sessions /\ sessions[s] # None /\ sessions[s] \in Record
        BY DEF IInv, TypeOK, Live
    <2>2. /\ EndOf(sessions[s], committed[s])
          /\ committed[s] # <<>> => sessions[s].recent # <<>>
          /\ Fits(sessions[s].recent)
        BY <2>1 DEF IInv, MemorySound
    <2>3. PICK p \in Seq(Turn) : committed[s] = p \o memory
        BY <2>2 DEF EndOf
    <2>4. memory \in Seq(Turn)
        BY <2>1, ConcatProperties DEF Record
    <2> HIDE DEF memory
    <2>5. Suffix(p \o memory, Len(p \o memory) - Len(memory)) = memory
        BY <2>4, SuffixOfConcat
    <2>6. Len(memory) <= Len(p \o memory)
        BY <2>4, ConcatProperties, LenProperties
    <2> QED BY <2>2, <2>3, <2>5, <2>6 DEF memory
<1> QED BY <1>1, SessionInvariant, PTL
=============================================================================
