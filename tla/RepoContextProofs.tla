------------------------- MODULE RepoContextProofs --------------------------
(***************************************************************************)
(* Proofs about RepoContext and the operations of GitRepository, for any   *)
(* branches, remotes, texts and starting repositories: every operation     *)
(* leaves a repository whose names lead to commits there are; with one     *)
(* command at a time the undo timeline stays on HEAD and no text that      *)
(* exists nowhere else is overwritten; and, with any number of commands, a *)
(* cached answer or graph that is out of date is one that an invalidation  *)
(* is due for, and the graph put together from pages is one drawing.       *)
(***************************************************************************)
EXTENDS RepoContext, FiniteSetTheorems, SequenceTheorems, TLAPS
-----------------------------------------------------------------------------
(* Induction: the set of numbers a claim holds for                           *)

LEMMA LeastNat ==
    ASSUME NEW T, T \subseteq Nat, T # {}
    PROVE  \E x \in T : \A y \in T : x <= y
<1> DEFINE F == FiniteSubsetsOf(Nat)  U == {0 .. x : x \in T}
<1>1. \A x \in T : IsFiniteSet(0 .. x)
  BY FS_Interval
<1>2. U \subseteq F /\ U # {}
  <2>1. \A x \in T : 0 .. x \in SUBSET Nat
    OBVIOUS
  <2> QED
    BY <1>1, <2>1 DEF FiniteSubsetsOf
<1>3. IsWellFoundedOn(StrictSubsetOrdering(Nat), F)
  BY FS_StrictSubsetOrderingWellFounded
<1>4. PICK u \in U : \A v \in U : <<v, u>> \notin StrictSubsetOrdering(Nat)
  <2> HIDE DEF F, U
  <2> QED BY <1>2, <1>3, WFMin
<1>5. PICK x \in T : u = 0 .. x
  BY <1>4
<1>6. ASSUME NEW y \in T, ~ (x <= y)
      PROVE  FALSE
  <2>1. x \in Nat /\ y \in Nat
    OBVIOUS
  <2>2. 0 .. y \subseteq 0 .. x /\ x \in 0 .. x /\ x \notin 0 .. y
    BY <1>6, <2>1
  <2>3. 0 .. y \in U
    OBVIOUS
  <2>4. <<0 .. y, 0 .. x>> \in (SUBSET Nat) \X (SUBSET Nat)
    BY <2>1
  <2>5. <<0 .. y, 0 .. x>> \in StrictSubsetOrdering(Nat)
    BY <2>2, <2>4 DEF StrictSubsetOrdering
  <2> QED
    BY <1>4, <1>5, <2>3, <2>5
<1> QED
  BY <1>6

LEMMA NatSetInduction ==
    ASSUME NEW T, 0 \in T, \A n \in Nat : n \in T => n + 1 \in T
    PROVE  Nat \subseteq T
<1> SUFFICES ASSUME Nat \ T # {}
             PROVE  FALSE
  OBVIOUS
<1>1. PICK x \in Nat \ T : \A y \in Nat \ T : x <= y
  BY LeastNat
<1>2. x # 0 /\ x - 1 \in Nat /\ ~ (x <= x - 1) /\ (x - 1) + 1 = x
  BY <1>1
<1>3. x - 1 \in T
  BY <1>1, <1>2
<1> QED
  BY <1>1, <1>2, <1>3

-----------------------------------------------------------------------------
(* What every repository of a behaviour satisfies                            *)

Fields == {"commits", "head", "at", "refs", "tag", "remotes", "tracking", "upstream", "server",
           "index", "conflict", "wt", "state", "other", "rebase", "stash", "reflog"}
IsSequence(s) == s \in Seq(Range(s))
Lines(n) == {l \in [do : TodoAction, oid : 0 .. n] : l.do # "exec" => l.oid # 0}
Rebases(n) == [branch : Branch \cup {Detached}, orig : 0 .. n, todo : Seq(Lines(n)),
               at : [do : TodoAction, oid : 0 .. n],
               stop : {"none", "conflict", "empty", "exec", "untracked"}]
Logs(n) == [oid : 0 .. n, kind : ReflogKind]

(* The first parent of a commit is a commit, and all its parents are older.  *)
Rooted(parents, n) ==
    parents \in Seq(1 .. n)
Past(commits) ==
    /\ IsSequence(commits)
    /\ \A i \in 1 .. Len(commits) : Rooted(commits[i].parents, i - 1)

(* Names lead to commits there are.                                          *)
Names(g, n) ==
    /\ g.head \in Branch \cup {Detached} /\ g.at \in 0 .. n /\ g.other \in 0 .. n
    /\ g.refs \in [Branch -> 0 .. n] /\ g.server \in [Branch -> 0 .. n]
    /\ g.tracking \in [Remote -> [Branch -> 0 .. n]]
    /\ g.upstream \in [Branch -> Remote \cup {NoRemote}] /\ g.remotes \subseteq Remote
    /\ g.state \in RepoState /\ g.rebase \in Rebases(n) /\ g.reflog \in Seq(Logs(n))
    /\ g.state = "Merging" => g.other # 0

Whole(g) ==
    /\ DOMAIN g = Fields
    /\ Past(g.commits) /\ Names(g, Newest(g)) /\ IsSequence(g.stash)
    /\ g.state # "Clean" => HeadOid(g) # 0

Born(g) == 1 .. Newest(g)
Known(g) == 0 .. Newest(g)

(* No commit is lost or changed, and the text in the working tree stays     *)
(* where it is or is in a commit.                                            *)
Grown(g, h) ==
    /\ Newest(g) <= Newest(h)
    /\ \A i \in Born(g) : h.commits[i] = g.commits[i]
Committed(g) == {g.commits[i].tree : i \in Born(g)}
Kept(g, h) == g.wt \in {Absent, Marked, h.wt} \cup Committed(h)
After(g, h) == Whole(h) /\ Grown(g, h)
Safe(g, h) == After(g, h) /\ Kept(g, h)

LEMMA NewestType ==
    ASSUME NEW g, Whole(g)
    PROVE  Newest(g) \in Nat /\ HeadOid(g) \in Known(g)
  BY LenProperties DEF Whole, Past, IsSequence, Names, Newest, HeadOid, Known

LEMMA LoggedWhole ==
    ASSUME NEW g, Whole(g), NEW c \in Known(g), NEW k \in ReflogKind
    PROVE  /\ Whole(Logged(g, c, k))
           /\ \A f \in Fields \ {"reflog"} : Logged(g, c, k)[f] = g[f]
<1> DEFINE n == Newest(g)  h == Logged(g, c, k)
           m == Min({1, Len(g.reflog)})  rest == SubSeq(g.reflog, 1, m)
<1>1. n \in Nat
  BY NewestType
<1>2. m \in {0, 1}
  <2>1. Len(g.reflog) \in Nat
    BY DEF Whole, Names
  <2> QED
    BY <2>1 DEF Min
<1>3. rest \in Seq(Logs(n))
  <2>1. g.reflog \in Seq(Logs(n)) /\ (m = 1 => Len(g.reflog) >= 1)
    <3>1. Len(g.reflog) \in Nat
      BY DEF Whole, Names
    <3>2. CASE Len(g.reflog) = 0
      <4>1. \E x \in {1, 0} : \A y \in {1, 0} : x <= y
        OBVIOUS
      <4>2. m # 1
        BY <3>2, <4>1 DEF Min
      <4> QED BY <4>2 DEF Whole, Names
    <3> QED
      BY <3>1, <3>2 DEF Whole, Names
  <2> HIDE DEF m
  <2>2. \A i \in 1 .. m : g.reflog[i] \in Logs(n)
    BY <1>2, <2>1
  <2> QED
    BY <1>2, <2>2, SubSeqProperties
<1>4. <<[oid |-> c, kind |-> k]>> \in Seq(Logs(n))
  BY <1>1 DEF Logs, Known
<1>5. h.reflog \in Seq(Logs(n))
  <2> HIDE DEF m
  <2>1. <<[oid |-> c, kind |-> k]>> \o rest \in Seq(Logs(n))
    <3> HIDE DEF rest
    <3> QED
      BY <1>3, <1>4, ConcatProperties
  <2>2. h.reflog = <<[oid |-> c, kind |-> k]>> \o rest
    BY DEF Logged, Whole, Fields, m
  <2> QED
    BY <2>1, <2>2
<1>6. DOMAIN h = Fields /\ \A f \in Fields \ {"reflog"} : h[f] = g[f]
  BY DEF Logged, Whole, Fields
<1>7. Newest(h) = n /\ HeadOid(h) = HeadOid(g)
  BY <1>6 DEF Newest, HeadOid, Fields
<1> QED
  BY <1>5, <1>6, <1>7 DEF Whole, Names, Fields

LEMMA MoveHeadWhole ==
    ASSUME NEW g, Whole(g), NEW c \in Known(g), NEW k \in ReflogKind, c # 0 \/ g.state = "Clean"
    PROVE  /\ Whole(MoveHead(g, c, k)) /\ HeadOid(MoveHead(g, c, k)) = c
           /\ \A f \in Fields \ {"reflog", "at", "refs"} : MoveHead(g, c, k)[f] = g[f]
<1> DEFINE moved == IF g.head = Detached THEN [g EXCEPT !.at = c] ELSE [g EXCEPT !.refs[g.head] = c]
           h == Logged(moved, c, k)
<1>1. DOMAIN moved = Fields /\ \A f \in Fields \ {"at", "refs"} : moved[f] = g[f]
  BY DEF Whole, Fields
<1>2. moved.at \in Known(g) /\ moved.refs \in [Branch -> Known(g)] /\ HeadOid(moved) = c
  BY GitAssumption DEF Whole, Names, Fields, Known, HeadOid
<1>3. Newest(moved) = Newest(g)
  BY <1>1 DEF Newest, Fields
<1>4. Whole(moved)
  <2> HIDE DEF moved
  <2> QED
    BY <1>1, <1>2, <1>3 DEF Whole, Names, Fields, Known
<1>5. /\ Whole(h)
      /\ \A f \in Fields \ {"reflog"} : h[f] = moved[f]
  <2> HIDE DEF moved
  <2>1. c \in Known(moved)
    BY <1>3 DEF Known
  <2> QED
    BY <1>4, <2>1, LoggedWhole
<1>6. HeadOid(h) = c
  <2> HIDE DEF moved, h
  <2> QED
    BY <1>2, <1>5 DEF HeadOid, Fields
<1>7. h = MoveHead(g, c, k)
  BY DEF MoveHead
<1> HIDE DEF moved, h
<1> QED
  BY <1>1, <1>5, <1>6, <1>7

(* What changes neither history nor names keeps both.                       *)
LEMMA SameNames ==
    ASSUME NEW g, Whole(g), NEW h, DOMAIN h = Fields, IsSequence(h.stash),
           \A f \in {"commits", "head", "at", "refs", "tracking", "upstream", "server", "remotes",
                     "state", "other", "rebase", "reflog"} : h[f] = g[f]
    PROVE  /\ After(g, h) /\ HeadOid(h) = HeadOid(g) /\ Newest(h) = Newest(g)
           /\ HeadTree(h) = HeadTree(g)
<1>1. /\ h.commits = g.commits /\ h.head = g.head /\ h.at = g.at /\ h.refs = g.refs
      /\ h.tracking = g.tracking /\ h.upstream = g.upstream /\ h.server = g.server
      /\ h.remotes = g.remotes /\ h.state = g.state /\ h.rebase = g.rebase /\ h.reflog = g.reflog
      /\ h.other = g.other
  OBVIOUS
<1>2. HeadOid(h) = HeadOid(g) /\ Newest(h) = Newest(g)
  BY <1>1 DEF HeadOid, Newest
<1>3. Names(h, Newest(h))
  BY <1>1, <1>2 DEF Whole, Names
<1>4. Newest(g) \in Nat
  BY NewestType
<1> QED
  BY <1>1, <1>2, <1>3, <1>4 DEF Whole, After, Grown, HeadTree, Tree

LEMMA NamesGrow ==
    ASSUME NEW g, NEW n \in Nat, NEW m \in Nat, n <= m, Names(g, n)
    PROVE  Names(g, m)
<1>1. 0 .. n \subseteq 0 .. m
  OBVIOUS
<1>2. Lines(n) \subseteq Lines(m) /\ Logs(n) \subseteq Logs(m)
  BY <1>1 DEF Lines, Logs
<1>3. Rebases(n) \subseteq Rebases(m)
  <2>1. Seq(Lines(n)) \subseteq Seq(Lines(m))
    BY <1>2, SeqMonotonic
  <2> QED
    BY <1>1, <1>2, <2>1 DEF Rebases
<1>4. Seq(Logs(n)) \subseteq Seq(Logs(m))
  BY <1>2, SeqMonotonic
<1>5. [Branch -> 0 .. n] \subseteq [Branch -> 0 .. m]
  BY <1>1
<1>6. [Remote -> [Branch -> 0 .. n]] \subseteq [Remote -> [Branch -> 0 .. m]]
  BY <1>5
<1> QED
  BY <1>1, <1>3, <1>4, <1>5, <1>6 DEF Names

LEMMA RootedGrows ==
    ASSUME NEW n \in Nat, NEW m \in Nat, n <= m, NEW parents, Rooted(parents, n)
    PROVE  Rooted(parents, m)
<1>1. Seq(0 .. n) \subseteq Seq(0 .. m)
  <2>1. 0 .. n \subseteq 0 .. m
    OBVIOUS
  <2> QED
    BY <2>1, SeqMonotonic
<1> QED
  BY <1>1 DEF Rooted

LEMMA FirstOfRooted ==
    ASSUME NEW n, NEW parents, Rooted(parents, n), parents # <<>>
    PROVE  parents[1] \in 1 .. n
<1> DEFINE S == 1 .. n
<1> HIDE DEF S
<1>1. parents \in Seq(S) /\ Len(parents) \in Nat /\ Len(parents) # 0
  BY LenProperties, EmptySeq DEF Rooted, S
<1>2. 1 \in 1 .. Len(parents)
  BY <1>1
<1> QED
  BY <1>1, <1>2, ElementOfSeq DEF S

(* A new commit on top of those there are.                                   *)
LEMMA AppendPast ==
    ASSUME NEW commits, Past(commits), NEW e, Rooted(e.parents, Len(commits))
    PROVE  /\ Past(Append(commits, e))
           /\ Len(Append(commits, e)) = Len(commits) + 1
           /\ \A i \in 1 .. Len(commits) : Append(commits, e)[i] = commits[i]
           /\ Append(commits, e)[Len(commits) + 1] = e
<1> DEFINE S == Range(commits) \cup {e}  more == Append(commits, e)
<1>1. commits \in Seq(S) /\ e \in S
  BY SeqMonotonic DEF Past, IsSequence
<1>2. /\ more \in Seq(S) /\ Len(more) = Len(commits) + 1
      /\ \A i \in 1 .. Len(commits) : more[i] = commits[i]
      /\ more[Len(commits) + 1] = e
  <2> HIDE DEF S
  <2> QED
    BY <1>1, AppendProperties
<1>3. Len(commits) \in Nat
  BY <1>1, LenProperties
<1>4. IsSequence(more)
  <2> HIDE DEF more, S
  <2> QED
    BY <1>2, SeqOfRange DEF IsSequence
<1>5. \A i \in 1 .. Len(more) : Rooted(more[i].parents, i - 1)
  <2> SUFFICES ASSUME NEW i \in 1 .. Len(more)
               PROVE  Rooted(more[i].parents, i - 1)
    OBVIOUS
  <2> HIDE DEF more
  <2>1. CASE i \in 1 .. Len(commits)
    BY <1>2, <2>1 DEF Past
  <2>2. CASE i = Len(commits) + 1
    BY <1>2, <1>3, <2>2
  <2> QED
    BY <1>2, <1>3, <2>1, <2>2
<1> QED
  BY <1>2, <1>4, <1>5 DEF Past

LEMMA NewCommitWhole ==
    ASSUME NEW g, Whole(g), NEW tree, NEW parents, Rooted(parents, Newest(g))
    PROVE  /\ After(g, NewCommit(g, tree, parents))
           /\ Newest(NewCommit(g, tree, parents)) = Newest(g) + 1
           /\ \A f \in Fields \ {"commits"} : NewCommit(g, tree, parents)[f] = g[f]
           /\ NewCommit(g, tree, parents).commits[Newest(g) + 1] = [tree |-> tree, parents |-> parents]
<1> DEFINE e == [tree |-> tree, parents |-> parents]  h == NewCommit(g, tree, parents)
<1>1. DOMAIN h = Fields /\ h.commits = Append(g.commits, e) /\ \A f \in Fields \ {"commits"} : h[f] = g[f]
  BY DEF NewCommit, Whole, Fields
<1>2. Rooted(e.parents, Len(g.commits))
  BY DEF Newest
<1>3. /\ Past(h.commits) /\ Newest(h) = Newest(g) + 1
      /\ \A i \in Born(g) : h.commits[i] = g.commits[i]
      /\ h.commits[Newest(g) + 1] = e
  <2> HIDE DEF e, h
  <2> QED
    BY <1>1, <1>2, AppendPast DEF Newest, Born, Whole
<1>4. Newest(g) \in Nat
  BY NewestType
<1>5. Names(g, Newest(h))
  <2>1. Newest(h) \in Nat /\ Newest(g) <= Newest(h)
    BY <1>3, <1>4
  <2> QED
    BY <1>4, <2>1, NamesGrow DEF Whole
<1>6. HeadOid(h) = HeadOid(g)
  <2> HIDE DEF h
  <2> QED BY <1>1 DEF HeadOid, Fields
<1>7. Whole(h)
  <2> HIDE DEF h, e
  <2> QED BY <1>1, <1>3, <1>5, <1>6 DEF Whole, Names, Fields
<1> HIDE DEF h
<1>8. After(g, h)
  BY <1>3, <1>4, <1>7 DEF After, Grown
<1> QED
  BY <1>1, <1>3, <1>8 DEF h

LEMMA CommitOnHeadWhole ==
    ASSUME NEW g, Whole(g), NEW tree, NEW parents, Rooted(parents, Newest(g)), NEW k \in ReflogKind
    PROVE  LET h == CommitOnHead(g, tree, parents, k) IN
           /\ After(g, h) /\ HeadOid(h) \in Born(h) /\ HeadTree(h) = tree
           /\ \A f \in Fields \ {"commits", "reflog", "at", "refs"} : h[f] = g[f]
<1> DEFINE made == NewCommit(g, tree, parents)  n == Newest(g) + 1  h == MoveHead(made, n, k)
<1>1. /\ After(g, made) /\ Newest(made) = n /\ made.commits[n].tree = tree
      /\ \A f \in Fields \ {"commits"} : made[f] = g[f]
  <2> DEFINE e == [tree |-> tree, parents |-> parents]
  <2>1. /\ After(g, made) /\ Newest(made) = n /\ made.commits[n] = e
        /\ \A f \in Fields \ {"commits"} : made[f] = g[f]
    BY NewCommitWhole
  <2>2. e.tree = tree
    OBVIOUS
  <2> HIDE DEF made, n, e
  <2> QED
    BY <2>1, <2>2
<1>2. n \in Known(made) /\ n # 0 /\ Newest(g) \in Nat
  BY <1>1, NewestType DEF Known
<1> HIDE DEF made, n
<1>3. /\ Whole(h) /\ HeadOid(h) = n
      /\ \A f \in Fields \ {"reflog", "at", "refs"} : h[f] = made[f]
  BY <1>1, <1>2, MoveHeadWhole DEF After
<1>4. h = CommitOnHead(g, tree, parents, k)
  BY <1>1 DEF CommitOnHead, made
<1> HIDE DEF h
<1>5. h.commits = made.commits /\ Newest(h) = n
  BY <1>1, <1>3 DEF Fields, Newest
<1>6. After(g, h)
  BY <1>1, <1>3, <1>5 DEF After, Grown
<1>7. HeadOid(h) \in Born(h) /\ HeadTree(h) = tree
  BY <1>1, <1>2, <1>3, <1>5 DEF Born, Known, HeadTree, Tree
<1>8. \A f \in Fields \ {"commits", "reflog", "at", "refs"} : h[f] = g[f]
  BY <1>1, <1>3
<1> QED
  BY <1>4, <1>6, <1>7, <1>8

-----------------------------------------------------------------------------
(* What becomes of the text in the working tree                              *)

LEMMA CommittedGrows ==
    ASSUME NEW g, NEW h, Whole(g), After(g, h)
    PROVE  Committed(g) \subseteq Committed(h) /\ Born(g) \subseteq Born(h) /\ Known(g) \subseteq Known(h)
<1>1. Newest(g) \in Nat /\ Newest(h) \in Nat /\ Newest(g) <= Newest(h)
  BY NewestType DEF After, Grown
<1>2. Born(g) \subseteq Born(h) /\ Known(g) \subseteq Known(h)
  BY <1>1 DEF Born, Known
<1> QED
  BY <1>2 DEF Committed, After, Grown

LEMMA AfterItself ==
    ASSUME NEW g, Whole(g)
    PROVE  Safe(g, g)
  BY NewestType DEF Safe, After, Grown, Kept

LEMMA AfterTrans ==
    ASSUME NEW g, NEW h, NEW k, Whole(g), After(g, h), After(h, k)
    PROVE  After(g, k)
<1>1. Newest(g) \in Nat /\ Newest(h) \in Nat /\ Newest(k) \in Nat
  BY NewestType DEF After
<1>2. Born(g) \subseteq Born(h)
  BY CommittedGrows
<1> QED
  BY <1>1, <1>2 DEF After, Grown

LEMMA SafeTrans ==
    ASSUME NEW g, NEW h, NEW k, Whole(g), Safe(g, h), Safe(h, k)
    PROVE  Safe(g, k)
<1>1. After(g, k)
  BY AfterTrans DEF Safe
<1>2. Committed(h) \subseteq Committed(k)
  BY CommittedGrows DEF Safe, After
<1> QED
  BY <1>1, <1>2 DEF Safe, Kept

LEMMA HeadHeld ==
    ASSUME NEW g, Whole(g)
    PROVE  HeadTree(g) \in {Absent} \cup Committed(g)
  BY NewestType DEF HeadTree, Tree, Committed, Born, Known

(* It is safe where it is, and where HEAD's commit holds it.                 *)
LEMMA KeptFile ==
    ASSUME NEW g, NEW h, Whole(g), After(g, h), h.wt = g.wt \/ g.wt = HeadTree(g)
    PROVE  Safe(g, h)
  BY HeadHeld, CommittedGrows DEF Safe, Kept

Files == {"index", "conflict", "wt"}

LEMMA WithFilesWhole ==
    ASSUME NEW g, Whole(g), NEW c
    PROVE  LET h == WithFiles(g, c) IN
           /\ After(g, h) /\ HeadOid(h) = HeadOid(g) /\ Newest(h) = Newest(g) /\ HeadTree(h) = HeadTree(g)
           /\ \A f \in Fields \ Files : h[f] = g[f]
<1> DEFINE h == WithFiles(g, c)
<1>1. DOMAIN h = Fields /\ \A f \in Fields \ Files : h[f] = g[f]
  BY DEF WithFiles, Whole, Fields, Files
<1> HIDE DEF h
<1>2. IsSequence(h.stash)
  BY <1>1 DEF Whole, Fields, Files
<1> QED
  BY <1>1, <1>2, SameNames DEF Fields, Files, h

LEMMA ReplacedSafe ==
    ASSUME NEW g, Whole(g), NEW c, MayReplace(g, c)
    PROVE  LET h == Replaced(g, c) IN
           /\ Safe(g, h) /\ HeadOid(h) = HeadOid(g) /\ Newest(h) = Newest(g) /\ HeadTree(h) = HeadTree(g)
           /\ \A f \in Fields \ Files : h[f] = g[f]
<1>1. CASE c = HeadTree(g)
  BY <1>1, AfterItself DEF Replaced
<1>2. CASE c # HeadTree(g)
  <2>1. g.wt = HeadTree(g)
    BY <1>2 DEF MayReplace
  <2>2. Replaced(g, c) = WithFiles(g, c)
    BY <1>2 DEF Replaced
  <2>3. After(g, Replaced(g, c))
    BY <2>2, WithFilesWhole
  <2>4. Safe(g, Replaced(g, c))
    BY <2>1, <2>3, KeptFile
  <2> QED
    BY <2>2, <2>4, WithFilesWhole
<1> QED
  BY <1>1, <1>2

LEMMA UnmergedWhole ==
    ASSUME NEW g, Whole(g), NEW base, NEW ours, NEW theirs
    PROVE  LET h == Unmerged(g, base, ours, theirs) IN
           /\ After(g, h) /\ HeadOid(h) = HeadOid(g) /\ Newest(h) = Newest(g)
           /\ \A f \in Fields \ Files : h[f] = g[f]
<1> DEFINE h == Unmerged(g, base, ours, theirs)
<1>1. DOMAIN h = Fields /\ \A f \in Fields \ Files : h[f] = g[f]
  BY DEF Unmerged, Whole, Fields, Files
<1> HIDE DEF h
<1>2. IsSequence(h.stash)
  BY <1>1 DEF Whole, Fields, Files
<1> QED
  BY <1>1, <1>2, SameNames DEF Fields, Files, h

(* Conflict markers are written over HEAD's text only.                       *)
LEMMA MarkedOverHead ==
    ASSUME NEW g, NEW base, NEW theirs, Conflicts(base, HeadTree(g), theirs),
           MayReplace(g, Merge3(base, HeadTree(g), theirs))
    PROVE  g.wt = HeadTree(g)
  BY DEF Conflicts, MayReplace

(* Ending an operation, naming its state.                                    *)
LEMMA StateWhole ==
    ASSUME NEW g, Whole(g), NEW h, DOMAIN h = Fields, h.state \in RepoState, h.rebase \in Rebases(Newest(g)),
           h.other \in Known(g), h.state # "Clean" => HeadOid(g) # 0, h.state = "Merging" => h.other # 0,
           \A f \in Fields \ {"state", "other", "rebase"} : h[f] = g[f]
    PROVE  /\ Safe(g, h) /\ HeadOid(h) = HeadOid(g) /\ Newest(h) = Newest(g) /\ HeadTree(h) = HeadTree(g)
<1>1. /\ h.commits = g.commits /\ h.head = g.head /\ h.at = g.at /\ h.refs = g.refs
      /\ h.tracking = g.tracking /\ h.upstream = g.upstream /\ h.server = g.server
      /\ h.remotes = g.remotes /\ h.reflog = g.reflog /\ h.stash = g.stash /\ h.wt = g.wt
  BY DEF Fields
<1>2. HeadOid(h) = HeadOid(g) /\ Newest(h) = Newest(g)
  BY <1>1 DEF HeadOid, Newest
<1>3. Names(h, Newest(h))
  BY <1>1, <1>2 DEF Whole, Names, Known
<1>4. Newest(g) \in Nat
  BY NewestType
<1>5. Whole(h)
  BY <1>1, <1>2, <1>3 DEF Whole
<1> QED
  BY <1>1, <1>2, <1>4, <1>5 DEF Safe, After, Grown, Kept, HeadTree, Tree

LEMMA NoRebaseType ==
    ASSUME NEW n \in Nat
    PROVE  NoRebase \in Rebases(n)
<1>1. <<>> \in Seq(Lines(n))
  BY EmptySeq
<1> QED
  BY <1>1 DEF NoRebase, Rebases, TodoAction

LEMMA ConcludedWhole ==
    ASSUME NEW g, Whole(g)
    PROVE  LET h == Concluded(g) IN
           /\ Safe(g, h) /\ HeadOid(h) = HeadOid(g) /\ Newest(h) = Newest(g) /\ HeadTree(h) = HeadTree(g)
           /\ \A f \in Fields \ {"state", "other", "rebase"} : h[f] = g[f]
<1> DEFINE h == Concluded(g)
<1>1. /\ DOMAIN h = Fields /\ \A f \in Fields \ {"state", "other", "rebase"} : h[f] = g[f]
      /\ h.state = "Clean" /\ h.rebase = NoRebase /\ h.other = 0
  BY DEF Concluded, Whole, Fields
<1>2. h.rebase \in Rebases(Newest(g)) /\ h.state \in RepoState /\ h.other \in Known(g)
  BY <1>1, NoRebaseType, NewestType DEF RepoState, Known
<1> HIDE DEF h
<1> QED
  BY <1>1, <1>2, StateWhole DEF h

-----------------------------------------------------------------------------
(* Index, commits, branches, remotes                                         *)

LEMMA IndexSafe ==
    ASSUME NEW g, Whole(g), NEW h, DOMAIN h = Fields,
           \A f \in Fields \ {"index", "conflict", "tag"} : h[f] = g[f]
    PROVE  Safe(g, h)
<1>1. h.wt = g.wt /\ IsSequence(h.stash)
  BY DEF Fields, Whole
<1>2. After(g, h)
  BY <1>1, SameNames DEF Fields
<1> QED
  BY <1>1, <1>2, KeptFile

LEMMA IndexOperations ==
    ASSUME NEW g, Whole(g), NEW n
    PROVE  /\ \A out \in stage(g) : Safe(g, out.git)
           /\ \A out \in unstage(g) : Safe(g, out.git)
           /\ \A out \in stage_hunk(g, n) : Safe(g, out.git)
           /\ \A out \in unstage_hunk(g, n) : Safe(g, out.git)
           /\ \A out \in create_tag(g, n) : Safe(g, out.git)
           /\ \A out \in delete_tag(g) : Safe(g, out.git)
<1> DEFINE Near(h) == /\ DOMAIN h = Fields
                      /\ \A f \in Fields \ {"index", "conflict", "tag"} : h[f] = g[f]
<1>1. Near(g)
  BY DEF Whole
<1>2. ASSUME NEW h, Near(h)
      PROVE  Safe(g, h)
  BY <1>2, IndexSafe
<1>3. \A out \in stage(g) : Near(out.git)
  <2> DEFINE h == [g EXCEPT !.index = g.wt, !.conflict = NoConflict]
  <2>1. Near(h)
    BY DEF Whole
  <2> HIDE DEF Near
  <2> QED
    BY <1>1, <2>1 DEF stage, Ok, Err
<1>4. \A out \in unstage(g) : Near(out.git)
  <2> DEFINE h == [g EXCEPT !.index = HeadTree(g), !.conflict = NoConflict]
  <2>1. Near(h)
    BY DEF Whole
  <2> HIDE DEF Near
  <2> QED
    BY <2>1 DEF unstage, Ok
<1>5. \A out \in stage_hunk(g, n) : Near(out.git)
  BY <1>1 DEF stage_hunk, Ok, Err, Whole
<1>6. \A out \in unstage_hunk(g, n) : Near(out.git)
  BY <1>1 DEF unstage_hunk, Ok, Err, Whole
<1>7. \A out \in create_tag(g, n) : Near(out.git)
  BY <1>1 DEF create_tag, Ok, Err, Whole
<1>8. \A out \in delete_tag(g) : Near(out.git)
  BY <1>1 DEF delete_tag, Ok, Err, Whole
<1> HIDE DEF Near
<1> QED
  BY <1>2, <1>3, <1>4, <1>5, <1>6, <1>7, <1>8

(* A commit's first parent is HEAD or HEAD's own first parent.              *)
LEMMA ParentsRooted ==
    ASSUME NEW g, Whole(g)
    PROVE  /\ Rooted(HeadAsParent(g), Newest(g))
           /\ HeadOid(g) # 0 => /\ Rooted(Parents(g, HeadOid(g)), Newest(g))
                                /\ \A c \in Born(g) : Rooted(HeadAsParent(g) \o <<c>>, Newest(g))
                                /\ \A c \in Born(g) : Rooted(<<HeadOid(g), c>>, Newest(g))
                                /\ Rooted(<<HeadOid(g)>>, Newest(g))
<1>1. Newest(g) \in Nat /\ (HeadOid(g) # 0 => HeadOid(g) \in 1 .. Newest(g))
  BY NewestType DEF Known
<1>2. HeadOid(g) # 0 => Rooted(<<HeadOid(g)>>, Newest(g))
  BY <1>1 DEF Rooted
<1>3. Rooted(HeadAsParent(g), Newest(g))
  <2>1. Rooted(<<>>, Newest(g))
    BY EmptySeq DEF Rooted
  <2> QED
    BY <1>2, <2>1 DEF HeadAsParent
<1>4. ASSUME HeadOid(g) # 0
      PROVE  Rooted(Parents(g, HeadOid(g)), Newest(g))
  <2>1. Rooted(Parents(g, HeadOid(g)), HeadOid(g) - 1)
    BY <1>1, <1>4 DEF Whole, Past, Parents, Newest
  <2> QED
    BY <1>1, <1>4, <2>1, RootedGrows
<1>5. ASSUME HeadOid(g) # 0, NEW c \in Born(g)
      PROVE  Rooted(<<HeadOid(g)>> \o <<c>>, Newest(g)) /\ Rooted(<<HeadOid(g), c>>, Newest(g))
  <2> DEFINE S == 1 .. Newest(g)  s == <<HeadOid(g)>>  t == <<c>>
  <2>1. s \in Seq(S) /\ t \in Seq(S) 
    BY <1>1, <1>5 DEF Born
  <2>2. s \o t \in Seq(S)
    <3> HIDE DEF S, s, t
    <3> QED
      BY <2>1, ConcatProperties
  <2>3. <<HeadOid(g), c>> \in Seq(S)
    BY <1>1, <1>5 DEF Born
  <2> QED
    BY <2>2, <2>3 DEF Rooted
<1> QED
  BY <1>2, <1>3, <1>4, <1>5 DEF HeadAsParent

LEMMA CommitSafe ==
    ASSUME NEW g, Whole(g), NEW tree, NEW parents, Rooted(parents, Newest(g)), NEW k \in ReflogKind
    PROVE  LET h == CommitOnHead(g, tree, parents, k) IN
           /\ Safe(g, h) /\ HeadOid(h) # 0 /\ HeadTree(h) = tree
           /\ \A f \in Fields \ {"commits", "reflog", "at", "refs"} : h[f] = g[f]
<1> DEFINE h == CommitOnHead(g, tree, parents, k)
<1>1. /\ After(g, h) /\ HeadOid(h) \in Born(h) /\ HeadTree(h) = tree
      /\ \A f \in Fields \ {"commits", "reflog", "at", "refs"} : h[f] = g[f]
  BY CommitOnHeadWhole
<1> HIDE DEF h
<1>2. h.wt = g.wt
  BY <1>1 DEF Fields
<1>3. Safe(g, h)
  BY <1>1, <1>2, KeptFile
<1>4. HeadOid(h) # 0
  BY <1>1, NewestType DEF Born, After
<1> QED
  BY <1>1, <1>3, <1>4 DEF h

LEMMA CommitOperations ==
    ASSUME NEW g, Whole(g)
    PROVE  /\ \A out \in commit(g) : Safe(g, out.git)
           /\ \A out \in amend_commit(g) : Safe(g, out.git)
<1>1. Safe(g, g)
  BY AfterItself
<1>2. \A out \in commit(g) : Safe(g, out.git)
  <2> DEFINE parents == HeadAsParent(g) \o (IF g.state = "Merging" THEN <<g.other>> ELSE <<>>)
             made == CommitOnHead(g, g.index, parents, "commit")
  <2>1. Rooted(parents, Newest(g))
    <3>1. CASE g.state = "Merging"
      <4>1. HeadOid(g) # 0 /\ g.other \in Born(g)
        BY <3>1, NewestType DEF Whole, Names, Born
      <4> QED
        BY <3>1, <4>1, ParentsRooted
    <3>2. CASE g.state # "Merging"
      <4>1. HeadAsParent(g) \o <<>> = HeadAsParent(g)
        BY DEF HeadAsParent
      <4> QED
        BY <3>2, <4>1, ParentsRooted
    <3> QED BY <3>1, <3>2
  <2>2. Safe(g, made)
    <3> HIDE DEF parents
    <3> QED BY <2>1, CommitSafe DEF ReflogKind
  <2> HIDE DEF parents
  <2>3. Safe(g, Concluded(made))
    <3> HIDE DEF made
    <3>1. Safe(made, Concluded(made))
      BY <2>2, ConcludedWhole DEF Safe, After
    <3> QED
      BY <2>2, <3>1, SafeTrans
  <2> HIDE DEF made
  <2> QED
    BY <1>1, <2>2, <2>3 DEF commit, made, parents, Ok, Err
<1>3. \A out \in amend_commit(g) : Safe(g, out.git)
  <2>1. HeadOid(g) # 0 => Safe(g, CommitOnHead(g, g.index, Parents(g, HeadOid(g)), "commit"))
    BY ParentsRooted, CommitSafe DEF ReflogKind
  <2> QED
    BY <1>1, <2>1 DEF amend_commit, Ok, Err
<1> QED
  BY <1>2, <1>3

(* A reset moves HEAD; a soft or mixed one leaves the file alone.            *)
LEMMA ResetOperation ==
    ASSUME NEW g, Whole(g), NEW c \in Born(g), NEW mode \in {"Soft", "Mixed", "Hard"}
    PROVE  \A out \in reset(g, c, mode) :
             /\ After(g, out.git)
             /\ mode # "Hard" => Safe(g, out.git)
<1> DEFINE moved == MoveHead(g, c, "reset")
<1>1. c \in Known(g) /\ c # 0
  BY NewestType DEF Born, Known
<1>2. /\ Whole(moved) /\ HeadOid(moved) = c
      /\ \A f \in Fields \ {"reflog", "at", "refs"} : moved[f] = g[f]
  BY <1>1, MoveHeadWhole DEF ReflogKind
<1> HIDE DEF moved
<1>3. After(g, moved) /\ moved.wt = g.wt
  <2>1. moved.commits = g.commits /\ moved.wt = g.wt
    BY <1>2 DEF Fields
  <2> QED
    BY <1>2, <2>1, NewestType DEF After, Grown, Newest
<1>4. ASSUME NEW i, NEW k, NEW w
      PROVE  LET h == Concluded([moved EXCEPT !.index = i, !.conflict = k, !.wt = w])
             IN  After(g, h) /\ (w = g.wt => Safe(g, h))
  <2> DEFINE m == [moved EXCEPT !.index = i, !.conflict = k, !.wt = w]
  <2>1. /\ DOMAIN m = Fields /\ m.wt = w
        /\ \A f \in Fields \ Files : m[f] = moved[f]
    BY <1>2 DEF Whole, Fields, Files
  <2> HIDE DEF m
  <2>2. IsSequence(m.stash)
    BY <1>2, <2>1 DEF Whole, Fields, Files
  <2>3. After(moved, m)
    BY <1>2, <2>1, <2>2, SameNames DEF Fields, Files
  <2>4. Whole(m) /\ After(m, Concluded(m)) /\ Concluded(m).wt = w
    BY <2>1, <2>3, ConcludedWhole DEF After, Safe, Fields
  <2>5. After(g, Concluded(m))
    BY <1>3, <2>3, <2>4, AfterTrans DEF After
  <2> QED
    BY <2>4, <2>5, KeptFile DEF m
<1>5. ASSUME NEW i, NEW k
      PROVE  Safe(g, Concluded([moved EXCEPT !.index = i, !.conflict = k]))
  <2>1. [moved EXCEPT !.index = i, !.conflict = k]
          = [moved EXCEPT !.index = i, !.conflict = k, !.wt = g.wt]
    BY <1>2, <1>3 DEF Whole, Fields
  <2> QED
    BY <1>4, <2>1
<1>6. Safe(g, g) /\ Safe(g, moved)
  BY <1>3, AfterItself, KeptFile
<1>7. CASE mode = "Soft"
  BY <1>6, <1>7 DEF reset, moved, Ok, Err, Safe
<1>8. CASE mode = "Mixed"
  <2> DEFINE h == Concluded([moved EXCEPT !.index = Tree(g, c), !.conflict = NoConflict])
  <2>1. reset(g, c, mode) = {[res |-> "Ok", git |-> h]}
    BY <1>8 DEF reset, moved, Ok
  <2>2. Safe(g, h)
    BY <1>5
  <2> HIDE DEF h
  <2> QED
    BY <2>1, <2>2 DEF Safe
<1>9. CASE mode = "Hard"
  <2> DEFINE w == IF Tree(g, c) = Absent /\ g.index = Absent THEN moved.wt ELSE Tree(g, c)
             h == Concluded([moved EXCEPT !.index = Tree(g, c), !.conflict = NoConflict, !.wt = w])
  <2>1. reset(g, c, mode) = {[res |-> "Ok", git |-> h]}
    BY <1>9 DEF reset, moved, Ok
  <2>2. After(g, h)
    <3> HIDE DEF w
    <3> QED BY <1>4
  <2> HIDE DEF h
  <2> QED
    BY <1>9, <2>1, <2>2
<1> QED
  BY <1>7, <1>8, <1>9

LEMMA NamesSafe ==
    ASSUME NEW g, Whole(g), NEW h, DOMAIN h = Fields, Names(h, Newest(g)),
           h.state # "Clean" => HeadOid(h) # 0, h.wt = g.wt, h.commits = g.commits, h.stash = g.stash
    PROVE  Safe(g, h)
<1>1. Newest(h) = Newest(g) /\ Newest(g) \in Nat
  BY NewestType DEF Newest
<1>2. Whole(h)
  BY <1>1 DEF Whole
<1> QED
  BY <1>1, <1>2, KeptFile DEF After, Grown

LEMMA MoveHeadSafe ==
    ASSUME NEW g, Whole(g), NEW c \in Born(g), NEW k \in ReflogKind
    PROVE  LET h == MoveHead(g, c, k) IN
           /\ Safe(g, h) /\ HeadOid(h) = c
           /\ \A f \in Fields \ {"reflog", "at", "refs"} : h[f] = g[f]
<1> DEFINE h == MoveHead(g, c, k)
<1>1. c \in Known(g) /\ c # 0
  BY NewestType DEF Born, Known
<1>2. /\ Whole(h) /\ HeadOid(h) = c
      /\ \A f \in Fields \ {"reflog", "at", "refs"} : h[f] = g[f]
  BY <1>1, MoveHeadWhole
<1> HIDE DEF h
<1>3. h.commits = g.commits /\ h.wt = g.wt
  BY <1>2 DEF Fields
<1>4. After(g, h)
  BY <1>2, <1>3, NewestType DEF After, Grown, Newest
<1> QED
  BY <1>2, <1>3, <1>4, KeptFile DEF h

LEMMA LoggedSafe ==
    ASSUME NEW g, Whole(g), NEW c \in Known(g), NEW k \in ReflogKind
    PROVE  LET h == Logged(g, c, k) IN
           /\ Safe(g, h) /\ HeadOid(h) = HeadOid(g)
           /\ \A f \in Fields \ {"reflog"} : h[f] = g[f]
<1> DEFINE h == Logged(g, c, k)
<1>1. Whole(h) /\ \A f \in Fields \ {"reflog"} : h[f] = g[f]
  BY LoggedWhole
<1> HIDE DEF h
<1>2. h.commits = g.commits /\ h.wt = g.wt /\ HeadOid(h) = HeadOid(g)
  BY <1>1 DEF Fields, HeadOid
<1>3. After(g, h)
  BY <1>1, <1>2, NewestType DEF After, Grown, Newest
<1> QED
  BY <1>1, <1>2, <1>3, KeptFile DEF h

LEMMA CheckoutOperation ==
    ASSUME NEW g, Whole(g), NEW b \in Branch
    PROVE  \A out \in checkout_branch(g, b) : Safe(g, out.git)
<1> DEFINE tree == Tree(g, g.refs[b])  r == Replaced(g, tree)  m == [r EXCEPT !.head = b, !.at = 0]
           h == Logged(m, g.refs[b], "checkout")
<1>1. Safe(g, g)
  BY AfterItself
<1>2. ASSUME g.refs[b] # 0, MayReplace(g, tree)
      PROVE  Safe(g, h)
  <2>1. Safe(g, r) /\ Newest(r) = Newest(g) /\ \A f \in Fields \ Files : r[f] = g[f]
    BY <1>2, ReplacedSafe
  <2> HIDE DEF r
  <2>2. Whole(r) /\ r.refs = g.refs
    BY <2>1 DEF Safe, After, Fields, Files
  <2>3. /\ DOMAIN m = Fields /\ m.head = b /\ m.at = 0
        /\ \A f \in Fields \ {"head", "at"} : m[f] = r[f]
    BY <2>2 DEF Whole, Fields
  <2> HIDE DEF m
  <2>4. HeadOid(m) = g.refs[b]
    <3>1. m.refs = g.refs
      BY <2>2, <2>3 DEF Fields
    <3> QED
      BY <2>3, <3>1, GitAssumption DEF HeadOid
  <2>5. Names(m, Newest(r))
    <3>1. Newest(r) \in Nat /\ Names(r, Newest(r))
      BY <2>2, NewestType DEF Whole
    <3>2. /\ m.refs = r.refs /\ m.server = r.server /\ m.tracking = r.tracking
          /\ m.upstream = r.upstream /\ m.remotes = r.remotes /\ m.state = r.state
          /\ m.rebase = r.rebase /\ m.reflog = r.reflog /\ m.other = r.other
      BY <2>3 DEF Fields
    <3> QED
      BY <2>3, <3>1, <3>2 DEF Names
  <2>6. Safe(r, m)
    BY <1>2, <2>2, <2>3, <2>4, <2>5, NamesSafe DEF Fields
  <2>7. Whole(m) /\ g.refs[b] \in Known(m)
    BY <2>4, <2>6, NewestType DEF Safe, After
  <2>8. Safe(m, h)
    BY <2>7, LoggedSafe DEF ReflogKind
  <2> HIDE DEF h
  <2> QED
    BY <2>1, <2>6, <2>8, SafeTrans
<1> HIDE DEF h
<1>3. \A out \in checkout_branch(g, b) : out.git = g \/ (g.refs[b] # 0 /\ MayReplace(g, tree) /\ out.git = h)
  BY DEF checkout_branch, Ok, Err, h
<1> QED
  BY <1>1, <1>2, <1>3

LEMMA BranchOperations ==
    ASSUME NEW g, Whole(g), NEW b \in Branch
    PROVE  /\ \A out \in create_branch(g, b) : Safe(g, out.git)
           /\ \A out \in delete_branch(g, b) : Safe(g, out.git)
<1>1. Safe(g, g) /\ HeadOid(g) \in Known(g) /\ Newest(g) \in Nat
  BY AfterItself, NewestType
<1>2. ASSUME HeadOid(g) # 0, g.refs[b] = 0
      PROVE  Safe(g, [g EXCEPT !.refs[b] = HeadOid(g)])
  <2> DEFINE h == [g EXCEPT !.refs[b] = HeadOid(g)]
  <2>1. /\ DOMAIN h = Fields /\ h.refs = [g.refs EXCEPT ![b] = HeadOid(g)]
        /\ \A f \in Fields \ {"refs"} : h[f] = g[f]
    BY DEF Whole, Fields
  <2> HIDE DEF h
  <2>2. h.refs \in [Branch -> 0 .. Newest(g)]
    BY <1>1, <2>1 DEF Known, Whole, Names
  <2>3. HeadOid(h) = HeadOid(g)
    BY <1>2, <2>1 DEF HeadOid, Whole, Names, Fields
  <2>4. Names(h, Newest(g))
    BY <2>1, <2>2 DEF Whole, Names, Fields
  <2>5. Safe(g, h)
    BY <2>1, <2>3, <2>4, NamesSafe DEF Whole, Fields
  <2> QED
    BY <2>5 DEF h
<1>3. ASSUME ~ (g.head = b /\ HeadOid(g) # 0), g.refs[b] # 0
      PROVE  Safe(g, [g EXCEPT !.refs[b] = 0, !.upstream[b] = NoRemote])
  <2> DEFINE h == [g EXCEPT !.refs[b] = 0, !.upstream[b] = NoRemote]
  <2>1. /\ DOMAIN h = Fields /\ h.refs = [g.refs EXCEPT ![b] = 0]
        /\ h.upstream = [g.upstream EXCEPT ![b] = NoRemote]
        /\ \A f \in Fields \ {"refs", "upstream"} : h[f] = g[f]
    BY DEF Whole, Fields
  <2> HIDE DEF h
  <2>2. h.refs \in [Branch -> 0 .. Newest(g)] /\ h.upstream \in [Branch -> Remote \cup {NoRemote}]
    BY <1>1, <2>1 DEF Whole, Names
  <2>3. HeadOid(h) = HeadOid(g)
    BY <1>3, <2>1, GitAssumption DEF HeadOid, Whole, Names, Fields
  <2>4. Names(h, Newest(g))
    BY <2>1, <2>2 DEF Whole, Names, Fields
  <2>5. Safe(g, h)
    BY <2>1, <2>3, <2>4, NamesSafe DEF Whole, Fields
  <2> QED
    BY <2>5 DEF h
<1>4. \A out \in create_branch(g, b) : Safe(g, out.git)
  BY <1>1, <1>2 DEF create_branch, Ok, Err
<1>5. \A out \in delete_branch(g, b) : Safe(g, out.git)
  BY <1>1, <1>3 DEF delete_branch, Ok, Err
<1> QED
  BY <1>4, <1>5

-----------------------------------------------------------------------------
(* Remotes and the network                                                   *)

(* What changes remotes, tracking branches and upstreams only.               *)
Wires == {"remotes", "tracking", "upstream", "server"}
LEMMA WiresSafe ==
    ASSUME NEW g, Whole(g), NEW h, DOMAIN h = Fields, \A f \in Fields \ Wires : h[f] = g[f],
           h.remotes \subseteq Remote, h.tracking \in [Remote -> [Branch -> Known(g)]],
           h.upstream \in [Branch -> Remote \cup {NoRemote}], h.server \in [Branch -> Known(g)]
    PROVE  Safe(g, h)
<1>1. /\ h.commits = g.commits /\ h.head = g.head /\ h.at = g.at /\ h.refs = g.refs
      /\ h.state = g.state /\ h.rebase = g.rebase /\ h.reflog = g.reflog /\ h.wt = g.wt
      /\ h.stash = g.stash /\ h.other = g.other
  BY DEF Fields, Wires
<1>2. HeadOid(h) = HeadOid(g)
  BY <1>1 DEF HeadOid
<1>3. Names(h, Newest(g))
  BY <1>1 DEF Whole, Names, Known
<1> QED
  BY <1>1, <1>2, <1>3, NamesSafe DEF Whole

LEMMA FetchedSafe ==
    ASSUME NEW g, Whole(g), NEW r \in Remote
    PROVE  /\ Safe(g, Fetched(g, r))
           /\ Fetched(g, r).tracking[r] \in [Branch -> Known(g)]
           /\ Newest(Fetched(g, r)) = Newest(g)
<1> DEFINE h == Fetched(g, r)
<1>1. /\ DOMAIN h = Fields /\ h.tracking = [g.tracking EXCEPT ![r] = g.server]
      /\ \A f \in Fields \ {"tracking"} : h[f] = g[f]
  BY DEF Fetched, Whole, Fields
<1> HIDE DEF h
<1>2. /\ h.tracking \in [Remote -> [Branch -> Known(g)]]
      /\ h.tracking[r] \in [Branch -> Known(g)]
  BY <1>1 DEF Whole, Names, Known
<1>3. /\ h.remotes \subseteq Remote /\ h.upstream \in [Branch -> Remote \cup {NoRemote}]
      /\ h.server \in [Branch -> Known(g)] /\ h.commits = g.commits
  BY <1>1 DEF Whole, Names, Known, Fields
<1>4. Safe(g, h)
  BY <1>1, <1>2, <1>3, WiresSafe DEF Wires
<1> QED
  BY <1>2, <1>3, <1>4 DEF h, Newest

LEMMA FetchOperation ==
    ASSUME NEW g, Whole(g)
    PROVE  \A out \in fetch(g) : Safe(g, out.git)
<1>1. Safe(g, g) /\ g.remotes \subseteq Remote
  BY AfterItself DEF Whole, Names
<1>2. \A r \in g.remotes : Safe(g, Fetched(g, r))
  BY <1>1, FetchedSafe
<1> QED
  BY <1>1, <1>2 DEF fetch, Ok, Err

LEMMA RemoteOperations ==
    ASSUME NEW g, Whole(g), NEW r \in Remote
    PROVE  /\ \A out \in add_remote(g, r) : Safe(g, out.git)
           /\ \A out \in remove_remote(g, r) : Safe(g, out.git)
           /\ \A out \in set_upstream(g, r) : Safe(g, out.git)
<1>1. /\ Safe(g, g) /\ DOMAIN g = Fields /\ g.remotes \subseteq Remote
      /\ g.tracking \in [Remote -> [Branch -> Known(g)]]
      /\ g.upstream \in [Branch -> Remote \cup {NoRemote}] /\ g.server \in [Branch -> Known(g)]
      /\ NoTracking \in [Branch -> Known(g)]
  <2>1. 0 \in Known(g)
    BY NewestType DEF Known
  <2> QED
    BY <2>1, AfterItself DEF Whole, Names, Known, NoTracking
<1>2. \A out \in add_remote(g, r) : Safe(g, out.git)
  <2> DEFINE h == [g EXCEPT !.remotes = @ \cup {r}]
  <2>1. /\ DOMAIN h = Fields /\ h.remotes = g.remotes \cup {r} /\ h.tracking = g.tracking
        /\ h.upstream = g.upstream /\ h.server = g.server
        /\ \A f \in Fields \ Wires : h[f] = g[f]
    BY <1>1 DEF Fields, Wires
  <2>2. add_remote(g, r) \subseteq {[res |-> "RemoteAlreadyExists", git |-> g], [res |-> "Ok", git |-> h]}
    BY DEF add_remote, Ok, Err
  <2> HIDE DEF h
  <2>3. Safe(g, h)
    BY <1>1, <2>1, WiresSafe
  <2> QED
    BY <1>1, <2>2, <2>3
<1>3. \A out \in remove_remote(g, r) : Safe(g, out.git)
  <2> DEFINE h == [g EXCEPT !.remotes = @ \ {r}, !.tracking[r] = NoTracking,
                     !.upstream = [b \in Branch |-> IF @[b] = r THEN NoRemote ELSE @[b]]]
  <2>1. /\ DOMAIN h = Fields /\ h.remotes = g.remotes \ {r}
        /\ h.tracking = [g.tracking EXCEPT ![r] = NoTracking]
        /\ h.upstream = [b \in Branch |-> IF g.upstream[b] = r THEN NoRemote ELSE g.upstream[b]]
        /\ h.server = g.server
        /\ \A f \in Fields \ Wires : h[f] = g[f]
    BY <1>1 DEF Fields, Wires
  <2>2. remove_remote(g, r) \subseteq {[res |-> "RemoteNotFound", git |-> g], [res |-> "Ok", git |-> h]}
    BY DEF remove_remote, Ok, Err
  <2> HIDE DEF h
  <2>3. /\ h.tracking \in [Remote -> [Branch -> Known(g)]]
        /\ h.upstream \in [Branch -> Remote \cup {NoRemote}]
    BY <1>1, <2>1
  <2>4. Safe(g, h)
    BY <1>1, <2>1, <2>3, WiresSafe
  <2> QED
    BY <1>1, <2>2, <2>4
<1>4. \A out \in set_upstream(g, r) : Safe(g, out.git)
  <2> DEFINE h == [g EXCEPT !.upstream[g.head] = r]
  <2>1. /\ DOMAIN h = Fields /\ h.remotes = g.remotes /\ h.tracking = g.tracking
        /\ h.upstream = [g.upstream EXCEPT ![g.head] = r] /\ h.server = g.server
        /\ \A f \in Fields \ Wires : h[f] = g[f]
    BY <1>1 DEF Fields, Wires
  <2>2. set_upstream(g, r) \subseteq {[res |-> "NoHead", git |-> g], [res |-> "Backend", git |-> g],
                                      [res |-> "Ok", git |-> h]}
    BY DEF set_upstream, Ok, Err
  <2> HIDE DEF h
  <2>3. h.upstream \in [Branch -> Remote \cup {NoRemote}]
    BY <1>1, <2>1
  <2>4. Safe(g, h)
    BY <1>1, <2>1, <2>3, WiresSafe
  <2> QED
    BY <1>1, <2>2, <2>4
<1> QED
  BY <1>2, <1>3, <1>4

LEMMA RenameRemote ==
    ASSUME NEW g, Whole(g), NEW old \in Remote, NEW new \in Remote
    PROVE  \A out \in rename_remote(g, old, new) : Safe(g, out.git)
<1>1. /\ Safe(g, g) /\ DOMAIN g = Fields /\ g.remotes \subseteq Remote
      /\ g.tracking \in [Remote -> [Branch -> Known(g)]]
      /\ g.upstream \in [Branch -> Remote \cup {NoRemote}] /\ g.server \in [Branch -> Known(g)]
      /\ NoTracking \in [Branch -> Known(g)]
  <2>1. 0 \in Known(g)
    BY NewestType DEF Known
  <2> QED
    BY <2>1, AfterItself DEF Whole, Names, Known, NoTracking
<1> DEFINE h == [g EXCEPT !.remotes = (@ \ {old}) \cup {new},
                   !.tracking = [@ EXCEPT ![new] = g.tracking[old], ![old] = NoTracking],
                   !.upstream = [b \in Branch |-> IF @[b] = old THEN new ELSE @[b]]]
<1>2. /\ DOMAIN h = Fields /\ h.remotes = (g.remotes \ {old}) \cup {new}
      /\ h.tracking = [g.tracking EXCEPT ![new] = g.tracking[old], ![old] = NoTracking]
      /\ h.upstream = [b \in Branch |-> IF g.upstream[b] = old THEN new ELSE g.upstream[b]]
      /\ h.server = g.server
      /\ \A f \in Fields \ Wires : h[f] = g[f]
  BY <1>1 DEF Fields, Wires
<1>3. \A out \in rename_remote(g, old, new) : out.git \in {g, h}
  BY DEF rename_remote, Ok, Err
<1> HIDE DEF h
<1>4. h.tracking \in [Remote -> [Branch -> Known(g)]]
  BY <1>1, <1>2
<1>5. h.upstream \in [Branch -> Remote \cup {NoRemote}]
  BY <1>1, <1>2
<1>6. h.remotes \subseteq Remote /\ h.server \in [Branch -> Known(g)]
  BY <1>1, <1>2
<1>7. Safe(g, h)
  BY <1>2, <1>4, <1>5, <1>6, WiresSafe
<1> QED
  BY <1>1, <1>3, <1>7

LEMMA PushOperation ==
    ASSUME NEW g, Whole(g)
    PROVE  \A out \in push(g) : Safe(g, out.git)
<1>1. /\ Safe(g, g) /\ DOMAIN g = Fields /\ g.remotes \subseteq Remote
      /\ g.tracking \in [Remote -> [Branch -> Known(g)]] /\ HeadOid(g) \in Known(g)
      /\ g.upstream \in [Branch -> Remote \cup {NoRemote}] /\ g.server \in [Branch -> Known(g)]
      /\ g.head \in Branch \cup {Detached}
  BY AfterItself, NewestType DEF Whole, Names, Known
<1> DEFINE r == IF g.head = Detached THEN NoRemote ELSE g.upstream[g.head]
           to == IF r # NoRemote THEN r ELSE CHOOSE x \in g.remotes : TRUE
           h == [g EXCEPT !.server[g.head] = HeadOid(g), !.tracking[to][g.head] = HeadOid(g),
                          !.upstream[g.head] = to]
<1>2. /\ DOMAIN h = Fields /\ h.remotes = g.remotes
      /\ h.server = [g.server EXCEPT ![g.head] = HeadOid(g)]
      /\ h.tracking = [g.tracking EXCEPT ![to] = [@ EXCEPT ![g.head] = HeadOid(g)]]
      /\ h.upstream = [g.upstream EXCEPT ![g.head] = to]
      /\ \A f \in Fields \ Wires : h[f] = g[f]
  <2> HIDE DEF to
  <2> QED
    BY <1>1 DEF Fields, Wires
<1>3. \A out \in push(g) : \/ out.git = g
                           \/ g.head # Detached /\ (r # NoRemote \/ g.remotes # {}) /\ out.git = h
  BY DEF push, Ok, Err
<1>4. ASSUME g.head # Detached, r # NoRemote \/ g.remotes # {}
      PROVE  to \in Remote /\ g.head \in Branch
  BY <1>1, <1>4
<1> HIDE DEF h, to, r
<1>5. ASSUME g.head # Detached, r # NoRemote \/ g.remotes # {}
      PROVE  Safe(g, h)
  <2>1. to \in Remote /\ g.head \in Branch
    BY <1>4, <1>5
  <2>2. h.server \in [Branch -> Known(g)] /\ h.upstream \in [Branch -> Remote \cup {NoRemote}]
    BY <1>1, <1>2, <2>1
  <2>3. h.tracking \in [Remote -> [Branch -> Known(g)]]
    BY <1>1, <1>2, <2>1
  <2> QED
    BY <1>1, <1>2, <2>2, <2>3, WiresSafe
<1> QED
  BY <1>1, <1>3, <1>5

-----------------------------------------------------------------------------
(* Merge, cherry-pick, revert                                                *)

LEMMA StoppedWhole ==
    ASSUME NEW g, Whole(g), HeadOid(g) # 0, NEW s \in RepoState, NEW c \in Known(g),
           s = "Merging" => c # 0
    PROVE  LET h == [g EXCEPT !.state = s, !.other = c] IN
           /\ Safe(g, h) /\ Whole(h) /\ HeadTree(h) = HeadTree(g) /\ h.wt = g.wt
<1> DEFINE h == [g EXCEPT !.state = s, !.other = c]
<1>1. /\ DOMAIN h = Fields /\ h.state = s /\ h.wt = g.wt /\ h.rebase = g.rebase /\ h.other = c
      /\ \A f \in Fields \ {"state", "other", "rebase"} : h[f] = g[f]
  BY DEF Whole, Fields
<1> HIDE DEF h
<1>2. h.rebase \in Rebases(Newest(g))
  BY <1>1 DEF Whole, Names
<1>3. Safe(g, h) /\ HeadTree(h) = HeadTree(g)
  BY <1>1, <1>2, StateWhole
<1> QED
  BY <1>1, <1>3 DEF Safe, After, h

(* Replacing HEAD's text and committing what replaced it.                    *)
LEMMA ReplacedCommit ==
    ASSUME NEW g, Whole(g), NEW tree, MayReplace(g, tree), NEW parents, Rooted(parents, Newest(g)),
           NEW k \in ReflogKind
    PROVE  Safe(g, CommitOnHead(Replaced(g, tree), tree, parents, k))
<1>1. Safe(g, Replaced(g, tree)) /\ Newest(Replaced(g, tree)) = Newest(g)
  BY ReplacedSafe
<1>2. Safe(Replaced(g, tree), CommitOnHead(Replaced(g, tree), tree, parents, k))
  BY <1>1, CommitSafe DEF Safe, After
<1> QED
  BY <1>1, <1>2, SafeTrans

LEMMA ReplacedMove ==
    ASSUME NEW g, Whole(g), NEW tree, MayReplace(g, tree), NEW c \in Born(g), NEW k \in ReflogKind
    PROVE  Safe(g, MoveHead(Replaced(g, tree), c, k))
<1>1. Safe(g, Replaced(g, tree)) /\ Newest(Replaced(g, tree)) = Newest(g)
  BY ReplacedSafe
<1>2. c \in Born(Replaced(g, tree))
  BY <1>1 DEF Born
<1>3. Safe(Replaced(g, tree), MoveHead(Replaced(g, tree), c, k))
  BY <1>1, <1>2, MoveHeadSafe DEF Safe, After
<1> QED
  BY <1>1, <1>3, SafeTrans

LEMMA MergedSafe ==
    ASSUME NEW g, Whole(g), NEW c \in Born(g), NEW k \in ReflogKind
    PROVE  \A out \in Merged(g, c, k) : Safe(g, out.git)
<1> DEFINE head == HeadOid(g)  base == Tree(g, MergeBase(g, head, c))  theirs == Tree(g, c)
           tree == Merge3(base, HeadTree(g), theirs)
           ff == MoveHead(Replaced(g, theirs), c, k)
           stop == [Unmerged(g, base, HeadTree(g), theirs) EXCEPT !.state = "Merging", !.other = c]
           made == CommitOnHead(Replaced(g, tree), tree, <<head, c>>, k)
<1> HIDE DEF base
<1>1. Safe(g, g)
  BY AfterItself
<1>2. ASSUME MayReplace(g, theirs)
      PROVE  Safe(g, ff)
  BY <1>2, ReplacedMove
<1>3. ASSUME head # 0, MayReplace(g, tree), Conflicts(base, HeadTree(g), theirs)
      PROVE  Safe(g, stop)
  <2> DEFINE u == Unmerged(g, base, HeadTree(g), theirs)
  <2>1. After(g, u) /\ HeadOid(u) = head /\ c \in Known(u) /\ c # 0
    BY UnmergedWhole, NewestType DEF Born, Known
  <2> HIDE DEF u
  <2>2. After(u, stop)
    BY <1>3, <2>1, StoppedWhole DEF u, After, RepoState, Safe
  <2>3. After(g, stop)
    BY <2>1, <2>2, AfterTrans DEF After
  <2>4. g.wt = HeadTree(g)
    BY <1>3, MarkedOverHead
  <2> QED
    BY <2>3, <2>4, KeptFile
<1>4. ASSUME head # 0, MayReplace(g, tree)
      PROVE  Safe(g, made)
  <2>1. Rooted(<<head, c>>, Newest(g))
    BY <1>4, ParentsRooted
  <2> QED
    BY <1>4, <2>1, ReplacedCommit
<1>5. IsAncestor(g, head, c) \/ head # 0
  BY DEF IsAncestor
<1>6. \A out \in Merged(g, c, k) :
         \/ out.git = g
         \/ MayReplace(g, theirs) /\ out.git = ff
         \/ /\ ~ IsAncestor(g, head, c) /\ MayReplace(g, tree)
            /\ Conflicts(base, HeadTree(g), theirs) /\ out.git = stop
         \/ ~ IsAncestor(g, head, c) /\ MayReplace(g, tree) /\ out.git = made
  <2> HIDE DEF ff, stop, made, tree
  <2> QED
    BY DEF Merged, Ok, Err, ff, stop, made, tree, base
<1> HIDE DEF ff, stop, made, tree, theirs, head
<1> QED
  BY <1>1, <1>2, <1>3, <1>4, <1>5, <1>6

LEMMA PickedSafe ==
    ASSUME NEW g, Whole(g), NEW c \in Known(g), NEW base, NEW theirs, NEW s \in RepoState \ {"Merging"},
           NEW k \in ReflogKind
    PROVE  \A out \in Picked(g, c, base, theirs, s, k) : Safe(g, out.git)
<1> DEFINE tree == Merge3(base, HeadTree(g), theirs)
           stopped == [g EXCEPT !.state = s, !.other = c]
           marked == Unmerged(stopped, base, HeadTree(g), theirs)
           made == CommitOnHead(Replaced(g, tree), tree, <<HeadOid(g)>>, k)
<1>1. Safe(g, g)
  BY AfterItself
<1>2. ASSUME HeadOid(g) # 0
      PROVE  Safe(g, stopped)
  BY <1>2, StoppedWhole
<1>3. ASSUME HeadOid(g) # 0, MayReplace(g, tree), Conflicts(base, HeadTree(g), theirs)
      PROVE  Safe(g, marked)
  <2> HIDE DEF stopped
  <2>1. After(g, stopped) /\ Whole(stopped)
    BY <1>2, <1>3 DEF Safe, After
  <2>2. After(stopped, marked)
    BY <2>1, UnmergedWhole
  <2>3. After(g, marked)
    BY <2>1, <2>2, AfterTrans
  <2>4. g.wt = HeadTree(g)
    BY <1>3, MarkedOverHead
  <2> QED
    BY <2>3, <2>4, KeptFile
<1>4. ASSUME HeadOid(g) # 0, MayReplace(g, tree)
      PROVE  Safe(g, made)
  BY <1>4, ReplacedCommit, ParentsRooted
<1>5. \A out \in Picked(g, c, base, theirs, s, k) :
         \/ out.git = g
         \/ HeadOid(g) # 0 /\ out.git = stopped
         \/ /\ HeadOid(g) # 0 /\ MayReplace(g, tree) /\ Conflicts(base, HeadTree(g), theirs)
            /\ out.git = marked
         \/ HeadOid(g) # 0 /\ MayReplace(g, tree) /\ out.git = made
  <2> HIDE DEF stopped, marked, made, tree
  <2> QED
    BY DEF Picked, Ok, Err, stopped, marked, made, tree
<1> HIDE DEF stopped, marked, made, tree
<1> QED
  BY <1>1, <1>2, <1>3, <1>4, <1>5

LEMMA MergeOperations ==
    ASSUME NEW g, Whole(g)
    PROVE  /\ \A b \in Branch : \A out \in merge_branch(g, b) : Safe(g, out.git)
           /\ \A c \in Known(g) : \A out \in cherry_pick(g, c) : Safe(g, out.git)
           /\ \A c \in Known(g) : \A out \in revert(g, c) : Safe(g, out.git)
<1>1. ASSUME NEW b \in Branch, NEW out \in merge_branch(g, b)
      PROVE  Safe(g, out.git)
  <2>1. g.refs[b] # 0 => g.refs[b] \in Born(g)
    BY NewestType DEF Whole, Names, Born
  <2>2. g.refs[b] # 0 => \A o \in Merged(g, g.refs[b], "merge") : Safe(g, o.git)
    BY <2>1, MergedSafe DEF ReflogKind
  <2> QED
    BY <1>1, <2>2, AfterItself DEF merge_branch, Err
<1>2. ASSUME NEW c \in Known(g), NEW out \in cherry_pick(g, c)
      PROVE  Safe(g, out.git)
  BY <1>2, PickedSafe DEF cherry_pick, RepoState, ReflogKind
<1>3. ASSUME NEW c \in Known(g), NEW out \in revert(g, c)
      PROVE  Safe(g, out.git)
  BY <1>3, PickedSafe DEF revert, RepoState, ReflogKind
<1> QED
  BY <1>1, <1>2, <1>3

-----------------------------------------------------------------------------
(* Rebase                                                                    *)

LEMMA AmendedSafe ==
    ASSUME NEW g, Whole(g), HeadOid(g) # 0, NEW tree, NEW k \in ReflogKind
    PROVE  LET h == Amended(g, tree, k) IN
           Safe(g, h) /\ HeadOid(h) # 0 /\ h.state = g.state /\ h.rebase = g.rebase
<1> DEFINE h == CommitOnHead(g, tree, Parents(g, HeadOid(g)), k)
<1>1. /\ Safe(g, h) /\ HeadOid(h) # 0
      /\ \A f \in Fields \ {"commits", "reflog", "at", "refs"} : h[f] = g[f]
  <2>1. HeadOid(g) # 0 /\ Rooted(Parents(g, HeadOid(g)), Newest(g)) /\ k \in ReflogKind
    BY ParentsRooted
  <2> QED
    BY <2>1, CommitSafe
<1> HIDE DEF h
<1>2. h.state = g.state /\ h.rebase = g.rebase
  BY <1>1 DEF Fields
<1> QED
  BY <1>1, <1>2 DEF Amended, h

LEMMA RebaseWhole ==
    ASSUME NEW g, Whole(g), NEW r \in Rebases(Newest(g))
    PROVE  LET h == [g EXCEPT !.rebase = r] IN
           /\ Safe(g, h) /\ Whole(h) /\ HeadOid(h) = HeadOid(g) /\ Newest(h) = Newest(g)
           /\ HeadTree(h) = HeadTree(g) /\ h.rebase = r
           /\ \A f \in Fields \ {"rebase"} : h[f] = g[f]
<1> DEFINE h == [g EXCEPT !.rebase = r]
<1>1. DOMAIN h = Fields /\ h.rebase = r /\ \A f \in Fields \ {"rebase"} : h[f] = g[f]
  BY DEF Whole, Fields
<1> HIDE DEF h
<1>2. h.state = g.state /\ h.rebase \in Rebases(Newest(g)) /\ g.state \in RepoState
  BY <1>1 DEF Whole, Names, Fields
<1>3. /\ h.state # "Clean" => HeadOid(g) # 0
      /\ h.state = "Merging" => h.other # 0
      /\ h.other \in Known(g)
  BY <1>1, <1>2 DEF Whole, Names, Known, Fields
<1>4. Safe(g, h) /\ HeadOid(h) = HeadOid(g) /\ Newest(h) = Newest(g) /\ HeadTree(h) = HeadTree(g)
  BY <1>1, <1>2, <1>3, StateWhole
<1> QED
  BY <1>1, <1>4 DEF Safe, After, h

(* One line: it is taken off the list, unless the rebase stops.              *)
LEMMA TodoStepSafe ==
    ASSUME NEW g, Whole(g), g.state # "Clean", g.rebase.todo # <<>>, NEW files \in BOOLEAN
    PROVE  LET h == TodoStep(g, files) IN
           /\ Safe(g, h) /\ h.state = g.state
           /\ h.rebase.stop = "none" => h.rebase.todo = Tail(g.rebase.todo)
<1> DEFINE line == Head(g.rebase.todo)
           nr == [g.rebase EXCEPT !.todo = Tail(@), !.at = line]
           next == [g EXCEPT !.rebase = nr]
           base == Tree(g, FirstParent(g, line.oid))
           theirs == Tree(g, line.oid)
           tree == Merge3(base, HeadTree(g), theirs)
           stop(why) == [next EXCEPT !.rebase.stop = why]
           Done(h) == Safe(g, h) /\ h.state = g.state
                      /\ (h.rebase.stop = "none" => h.rebase.todo = Tail(g.rebase.todo))
<1>1. /\ g.rebase \in Rebases(Newest(g)) /\ Newest(g) \in Nat /\ HeadOid(g) # 0
  BY NewestType DEF Whole, Names
<1>2. line \in Lines(Newest(g)) /\ Tail(g.rebase.todo) \in Seq(Lines(Newest(g)))
  BY <1>1, HeadTailProperties DEF Rebases
<1>3. nr \in Rebases(Newest(g)) /\ nr.todo = Tail(g.rebase.todo)
  BY <1>1, <1>2 DEF Rebases, Lines
<1>4. line.do # "exec" => line.oid \in Born(g)
  BY <1>1, <1>2 DEF Lines, Born
<1> HIDE DEF nr, line
<1>5. /\ Safe(g, next) /\ Whole(next) /\ HeadOid(next) = HeadOid(g) /\ Newest(next) = Newest(g)
      /\ HeadTree(next) = HeadTree(g) /\ next.rebase = nr
      /\ next.state = g.state /\ next.wt = g.wt /\ next.index = g.index /\ Born(next) = Born(g)
  BY <1>3, RebaseWhole DEF Fields, Born
<1>6. ASSUME NEW why \in {"conflict", "empty", "exec"}
      PROVE  /\ Safe(g, stop(why)) /\ Whole(stop(why)) /\ stop(why).state = g.state
             /\ stop(why).rebase.stop = why /\ HeadTree(stop(why)) = HeadTree(g)
  <2> DEFINE r == [nr EXCEPT !.stop = why]
  <2>1. r \in Rebases(Newest(next)) /\ r.stop = why
    BY <1>3, <1>5 DEF Rebases
  <2>2. stop(why) = [next EXCEPT !.rebase = r]
    BY <1>5
  <2> HIDE DEF next, r
  <2>3. /\ Safe(next, stop(why)) /\ Whole(stop(why)) /\ stop(why).state = next.state
        /\ stop(why).rebase = r /\ HeadTree(stop(why)) = HeadTree(next)
    <3> DEFINE x == [next EXCEPT !.rebase = r]
    <3>1. /\ Safe(next, x) /\ Whole(x) /\ x.rebase = r /\ HeadTree(x) = HeadTree(next)
          /\ \A f \in Fields \ {"rebase"} : x[f] = next[f]
      BY <1>5, <2>1, RebaseWhole
    <3>2. stop(why) = x
      BY <2>2
    <3> HIDE DEF x, stop
    <3>3. x.state = next.state
      BY <3>1 DEF Fields
    <3> QED
      BY <3>1, <3>2, <3>3
  <2> HIDE DEF stop
  <2> QED
    BY <1>5, <2>1, <2>3, SafeTrans
<1> HIDE DEF next, tree
<1>7. ASSUME MayReplace(g, tree)
      PROVE  /\ MayReplace(next, tree)
             /\ LET p == Replaced(next, tree) IN
                /\ Safe(g, p) /\ Whole(p) /\ HeadOid(p) = HeadOid(g) /\ Newest(p) = Newest(g)
                /\ p.state = g.state /\ p.rebase = nr
  <2>1. MayReplace(next, tree)
    BY <1>5, <1>7 DEF MayReplace
  <2> DEFINE p == Replaced(next, tree)
  <2>2. /\ Safe(next, p) /\ HeadOid(p) = HeadOid(g) /\ Newest(p) = Newest(g)
        /\ \A f \in Fields \ Files : p[f] = next[f]
    BY <1>5, <2>1, ReplacedSafe
  <2> HIDE DEF p
  <2>3. Safe(g, p) /\ Whole(p)
    BY <1>5, <2>2, SafeTrans DEF Safe, After
  <2> QED
    BY <1>5, <2>1, <2>2, <2>3 DEF Fields, Files, p
<1>8. CASE line.do = "exec"
  <2>1. Done(Amended(next, HeadTree(g), "commit"))
    <3> DEFINE h == Amended(next, HeadTree(g), "commit")
    <3>1. Safe(next, h) /\ h.state = g.state /\ h.rebase = nr
      BY <1>1, <1>5, AmendedSafe DEF ReflogKind
    <3> HIDE DEF h
    <3>2. Done(h)
      BY <1>3, <1>5, <3>1, SafeTrans
    <3> QED
      BY <3>2 DEF h
  <2>2. Done(stop("exec"))
    BY <1>6
  <2>3. TodoStep(g, files) \in {Amended(next, HeadTree(g), "commit"), stop("exec")}
    <3> HIDE DEF Done
    <3> QED
      BY <1>8 DEF TodoStep, next, nr, line
  <2> HIDE DEF stop, Done
  <2>4. Done(TodoStep(g, files))
    BY <2>1, <2>2, <2>3
  <2> QED
    BY <2>4 DEF Done
<1>9. CASE line.do # "exec" /\ ~ MayReplace(g, tree)
  <2> DEFINE r == [g.rebase EXCEPT !.stop = "untracked"]
  <2>1. r \in Rebases(Newest(g)) /\ r.stop = "untracked"
    BY <1>1 DEF Rebases
  <2>2. TodoStep(g, files) = [g EXCEPT !.rebase = r]
    BY <1>9 DEF TodoStep, tree, line
  <2> HIDE DEF r
  <2> QED
    BY <2>1, <2>2, RebaseWhole DEF Fields
<1>10. CASE line.do # "exec" /\ MayReplace(g, tree) /\ Conflicts(base, HeadTree(g), theirs)
  <2> DEFINE h == Unmerged(stop("conflict"), base, HeadTree(g), theirs)
  <2>1. TodoStep(g, files) = h
    BY <1>10 DEF TodoStep, tree, line, next, nr
  <2>2. g.wt = HeadTree(g)
    BY <1>10, MarkedOverHead DEF tree
  <2>3. After(g, stop("conflict")) /\ Whole(stop("conflict"))
    BY <1>6 DEF Safe
  <2>4. /\ After(stop("conflict"), h) /\ h.state = stop("conflict").state
        /\ h.rebase = stop("conflict").rebase
    <3> HIDE DEF stop
    <3> QED BY <2>3, UnmergedWhole DEF Fields, Files
  <2>5. h.state = g.state /\ h.rebase.stop = "conflict"
    BY <1>6, <2>4
  <2> HIDE DEF h, stop
  <2>6. After(g, h)
    BY <2>3, <2>4, AfterTrans
  <2> QED
    BY <2>1, <2>2, <2>5, <2>6, KeptFile
<1>11. CASE /\ line.do # "exec" /\ MayReplace(g, tree) /\ ~ Conflicts(base, HeadTree(g), theirs)
  <2> DEFINE p == Replaced(next, tree)
             fixed == Amended(p, tree, "rebase")
             moved == MoveHead(p, line.oid, "rebase")
             made == CommitOnHead(p, tree, HeadAsParent(g), "rebase")
  <2>1. /\ Safe(g, p) /\ Whole(p) /\ HeadOid(p) = HeadOid(g) /\ Newest(p) = Newest(g)
        /\ p.state = g.state /\ p.rebase = nr
    BY <1>7, <1>11
  <2> HIDE DEF p
  <2>2. Safe(p, fixed) /\ fixed.state = g.state /\ fixed.rebase = nr
    BY <1>1, <2>1, AmendedSafe DEF ReflogKind
  <2>3. Safe(p, moved) /\ moved.state = g.state /\ moved.rebase = nr
    <3>1. line.oid \in Born(p)
      BY <1>4, <1>11, <2>1 DEF Born
    <3> QED
      BY <2>1, <3>1, MoveHeadSafe DEF ReflogKind, Fields
  <2>4. Safe(p, made) /\ made.state = g.state /\ made.rebase = nr
    <3>1. Rooted(HeadAsParent(g), Newest(p))
      BY <2>1, ParentsRooted
    <3> QED
      BY <2>1, <3>1, CommitSafe DEF ReflogKind, Fields
  <2> HIDE DEF fixed, moved, made
  <2>5. Done(fixed) /\ Done(moved) /\ Done(made)
    BY <1>3, <2>1, <2>2, <2>3, <2>4, SafeTrans
  <2>6. Done(stop("empty"))
    BY <1>6
  <2>7. TodoStep(g, files) \in {fixed, moved, made, stop("empty")}
    <3> HIDE DEF Done
    <3> QED
      BY <1>11 DEF TodoStep, fixed, moved, made, p, tree, line, next, nr
  <2> HIDE DEF stop, Done
  <2>8. Done(TodoStep(g, files))
    BY <2>5, <2>6, <2>7
  <2> QED
    BY <2>8 DEF Done
<1> QED
  BY <1>8, <1>9, <1>10, <1>11

LEMMA FinishedSafe ==
    ASSUME NEW g, Whole(g), g.state # "Clean"
    PROVE  Safe(g, Finished(g))
<1> DEFINE b == g.rebase.branch
           m == [g EXCEPT !.refs[b] = HeadOid(g), !.head = b, !.at = 0]
           h == Logged(Concluded(m), HeadOid(g), "rebase")
<1>1. /\ b \in Branch \cup {Detached} /\ HeadOid(g) # 0 /\ HeadOid(g) \in Known(g)
      /\ Newest(g) \in Nat /\ g.refs \in [Branch -> Known(g)]
  BY NewestType DEF Whole, Names, Rebases, Known
<1>2. ASSUME b # Detached
      PROVE  Safe(g, h)
  <2>1. /\ DOMAIN m = Fields /\ m.refs = [g.refs EXCEPT ![b] = HeadOid(g)] /\ m.head = b /\ m.at = 0
        /\ \A f \in Fields \ {"refs", "head", "at"} : m[f] = g[f]
    BY DEF Whole, Fields
  <2> HIDE DEF m
  <2>2. HeadOid(m) = HeadOid(g)
    BY <1>1, <1>2, <2>1 DEF HeadOid
  <2>3. m.refs \in [Branch -> 0 .. Newest(g)]
    BY <1>1, <2>1 DEF Known
  <2>4. Names(m, Newest(g))
    <3>1. /\ m.server = g.server /\ m.tracking = g.tracking
          /\ m.upstream = g.upstream /\ m.remotes = g.remotes /\ m.state = g.state
          /\ m.rebase = g.rebase /\ m.reflog = g.reflog /\ m.other = g.other
      BY <2>1 DEF Fields
    <3> QED
      BY <1>1, <2>1, <2>3, <3>1 DEF Whole, Names
  <2>5. Safe(g, m) /\ Whole(m)
    BY <1>1, <2>1, <2>2, <2>4, NamesSafe DEF Fields, Safe, After
  <2>6. Safe(m, Concluded(m)) /\ HeadOid(Concluded(m)) = HeadOid(g) /\ Whole(Concluded(m))
    BY <2>2, <2>5, ConcludedWhole DEF Safe, After
  <2>7. Safe(Concluded(m), h)
    BY <2>6, NewestType, LoggedSafe DEF ReflogKind
  <2> HIDE DEF h
  <2>8. Safe(g, Concluded(m))
    BY <2>5, <2>6, SafeTrans
  <2> QED
    BY <2>7, <2>8, SafeTrans
<1>3. Safe(g, Concluded(g)) /\ Safe(g, g)
  BY AfterItself, ConcludedWhole
<1>4. Finished(g) = Concluded(g) \/ Finished(g) = g \/ (b # Detached /\ Finished(g) = h)
  <2> HIDE DEF h
  <2> QED BY DEF Finished, h
<1> HIDE DEF h, b
<1> QED
  BY <1>2, <1>3, <1>4

(* The function that runs the list exists.                                   *)
Lasting(g, files, last, after) ==
    [n \in 0 .. last |-> IF n = 0 THEN g
                        ELSE IF after[n - 1].rebase.stop # "none" THEN after[n - 1]
                        ELSE TodoStep(after[n - 1], files)]
LEMMA WorkedExists ==
    ASSUME NEW g, NEW files, NEW L \in Nat
    PROVE  \E after : after = Lasting(g, files, L, after)
<1> DEFINE Next1(x) == IF x.rebase.stop # "none" THEN x ELSE TodoStep(x, files)
           Run(f, m) == f = [n \in 0 .. m |-> IF n = 0 THEN g ELSE Next1(f[n - 1])]
           T == {m \in Nat : \E f : Run(f, m)}
<1> HIDE DEF Next1
<1>1. 0 \in T
  <2>1. Run([n \in 0 .. 0 |-> g], 0)
    OBVIOUS
  <2> QED
    BY <2>1
<1>2. ASSUME NEW m \in Nat, m \in T
      PROVE  m + 1 \in T
  <2>1. PICK f : Run(f, m)
    BY <1>2
  <2> DEFINE f2 == [n \in 0 .. m + 1 |-> IF n = m + 1 THEN Next1(f[m]) ELSE f[n]]
  <2>2. \A n \in 0 .. m + 1 : f2[n] = IF n = 0 THEN g ELSE Next1(f2[n - 1])
    <3> SUFFICES ASSUME NEW n \in 0 .. m + 1
                 PROVE  f2[n] = IF n = 0 THEN g ELSE Next1(f2[n - 1])
      OBVIOUS
    <3>1. CASE n = m + 1
      <4>1. n # 0 /\ n - 1 = m /\ m \in 0 .. m + 1 /\ m # m + 1
        BY <3>1
      <4>2. f2[m] = f[m] /\ f2[n] = Next1(f[m])
        BY <3>1, <4>1
      <4> QED
        BY <4>1, <4>2
    <3>2. CASE n \in 1 .. m
      <4>1. n \in 0 .. m /\ n # 0 /\ n - 1 \in 0 .. m + 1 /\ n - 1 # m + 1 /\ n # m + 1
        BY <3>2
      <4>2. f2[n] = f[n] /\ f2[n - 1] = f[n - 1]
        BY <4>1
      <4>3. f[n] = Next1(f[n - 1])
        BY <2>1, <4>1
      <4> QED
        BY <4>1, <4>2, <4>3
    <3>3. CASE n = 0
      BY <2>1, <3>3
    <3> QED
      BY <3>1, <3>2, <3>3
  <2>3. Run(f2, m + 1)
    BY <2>2
  <2> HIDE DEF f2, Run
  <2> QED
    BY <2>3
<1>3. L \in T
  <2> HIDE DEF T
  <2> QED
    BY <1>1, <1>2, NatSetInduction
<1> QED
  BY <1>3 DEF Next1, Lasting

LEMMA WorkedSafe ==
    ASSUME NEW g, Whole(g), g.state # "Clean", NEW files \in BOOLEAN
    PROVE  Safe(g, Worked(g, files)) /\ Worked(g, files).state = g.state
<1> DEFINE L == Len(g.rebase.todo)
           after == CHOOSE f : f = Lasting(g, files, L, f)
           Good(n) == /\ Safe(g, after[n]) /\ after[n].state = g.state
                      /\ after[n].rebase.stop = "none" => Len(after[n].rebase.todo) = L - n
           T == {n \in Nat : n <= L => Good(n)}
<1>1. L \in Nat
  BY LenProperties DEF Whole, Names, Rebases
<1>2. after = Lasting(g, files, L, after)
  <2> HIDE DEF L
  <2> QED
    BY <1>1, WorkedExists
<1>3. Worked(g, files) = after[L]
  BY DEF Worked, Lasting
<1> HIDE DEF after, L
<1>4. 0 \in T
  <2>1. after[0] = g
    BY <1>1, <1>2 DEF Lasting
  <2> QED
    BY <1>1, <2>1, AfterItself DEF L
<1>5. ASSUME NEW n \in Nat, n \in T
      PROVE  n + 1 \in T
  <2> SUFFICES ASSUME n + 1 <= L
               PROVE  Good(n + 1)
    OBVIOUS
  <2> DEFINE x == after[n]
  <2>1. Good(n)
    BY <1>1, <1>5
  <2>2. after[n + 1] = IF x.rebase.stop # "none" THEN x ELSE TodoStep(x, files)
    <3>1. n + 1 \in 0 .. L /\ n + 1 # 0 /\ (n + 1) - 1 = n
      BY <1>1
    <3> QED
      BY <1>2, <3>1 DEF Lasting
  <2> HIDE DEF x
  <2>3. CASE x.rebase.stop # "none"
    BY <2>1, <2>2, <2>3 DEF x
  <2>4. CASE x.rebase.stop = "none"
    <3>1. Safe(g, x) /\ Whole(x) /\ x.state = g.state /\ Len(x.rebase.todo) = L - n
      BY <2>1, <2>4 DEF x, Safe, After
    <3>2. x.rebase.todo \in Seq(Lines(Newest(x)))
      BY <3>1 DEF Whole, Names, Rebases
    <3>3. x.rebase.todo # <<>>
      BY <1>1, <3>1, EmptySeq
    <3> DEFINE y == TodoStep(x, files)
    <3>4. Safe(x, y) /\ y.state = x.state /\ (y.rebase.stop = "none" => y.rebase.todo = Tail(x.rebase.todo))
      BY <3>1, <3>3, TodoStepSafe
    <3>5. Len(Tail(x.rebase.todo)) = L - (n + 1)
      BY <1>1, <3>1, <3>2, <3>3, HeadTailProperties
    <3> HIDE DEF y
    <3>6. after[n + 1] = y
      BY <2>2, <2>4 DEF y
    <3> QED
      BY <3>1, <3>4, <3>5, <3>6, SafeTrans
  <2> QED
    BY <2>3, <2>4
<1>6. L \in T
  <2> HIDE DEF T
  <2> QED
    BY <1>1, <1>4, <1>5, NatSetInduction
<1> QED
  BY <1>1, <1>3, <1>6

LEMMA RunTodoSafe ==
    ASSUME NEW g, Whole(g), g.state # "Clean", NEW files \in BOOLEAN
    PROVE  \A out \in RunTodo(g, files) : Safe(g, out.git)
<1> DEFINE ran == Worked(g, files)
<1>1. Safe(g, ran) /\ Whole(ran) /\ ran.state # "Clean"
  BY WorkedSafe DEF Safe, After
<1> HIDE DEF ran
<1>2. Safe(g, Finished(ran))
  BY <1>1, FinishedSafe, SafeTrans
<1>3. \A out \in RunTodo(g, files) : out.git \in {ran, Finished(ran)}
  BY DEF RunTodo, Ok, Err, ran
<1> QED
  BY <1>1, <1>2, <1>3

LEMMA StartedSafe ==
    ASSUME NEW g, Whole(g), NEW onto \in Born(g), NEW todo \in Seq(Lines(Newest(g))),
           MayReplace(g, Tree(g, onto))
    PROVE  LET h == Started(g, onto, todo) IN Safe(g, h) /\ Whole(h) /\ h.state = "Rebasing"
<1> DEFINE p == Replaced(g, Tree(g, onto))
           r == [NoRebase EXCEPT !.branch = g.head, !.orig = HeadOid(g), !.todo = todo]
           m == [p EXCEPT !.state = "Rebasing", !.head = Detached, !.at = onto, !.rebase = r]
           h == Logged(m, onto, "rebase")
<1>1. Safe(g, p) /\ Whole(p) /\ Newest(p) = Newest(g)
  BY ReplacedSafe DEF Safe, After
<1>2. r \in Rebases(Newest(g))
  <2>1. HeadOid(g) \in 0 .. Newest(g) /\ g.head \in Branch \cup {Detached} /\ Newest(g) \in Nat
    BY NewestType DEF Whole, Names, Known
  <2>2. NoRebase \in Rebases(Newest(g))
    BY <2>1, NoRebaseType
  <2> QED
    BY <2>1, <2>2 DEF Rebases
<1> HIDE DEF p, r
<1>3. /\ DOMAIN m = Fields /\ m.state = "Rebasing" /\ m.head = Detached /\ m.at = onto /\ m.rebase = r
      /\ \A f \in Fields \ {"state", "head", "at", "rebase"} : m[f] = p[f]
  BY <1>1 DEF Whole, Fields
<1> HIDE DEF m
<1>4. onto \in 0 .. Newest(g) /\ onto # 0
  BY NewestType DEF Born
<1>5. HeadOid(m) = onto
  BY <1>3 DEF HeadOid
<1>6. Names(m, Newest(p))
  <2>1. /\ m.refs = p.refs /\ m.server = p.server /\ m.tracking = p.tracking
        /\ m.upstream = p.upstream /\ m.remotes = p.remotes /\ m.reflog = p.reflog
        /\ m.other = p.other
    BY <1>3 DEF Fields
  <2> QED
    BY <1>1, <1>2, <1>3, <1>4, <2>1 DEF Whole, Names, RepoState
<1>7. Safe(p, m) /\ Whole(m) /\ onto \in Known(m)
  <2>1. Safe(p, m)
    BY <1>1, <1>3, <1>4, <1>5, <1>6, NamesSafe DEF Fields
  <2> QED
    BY <1>5, <2>1, NewestType DEF Safe, After
<1>8. Safe(m, h) /\ h.state = m.state
  BY <1>7, LoggedSafe DEF ReflogKind, Fields
<1>9. Safe(g, m)
  BY <1>1, <1>7, SafeTrans
<1>10. h = Started(g, onto, todo)
  BY DEF Started, m, p, r
<1> HIDE DEF h
<1>11. Safe(g, h) /\ Whole(h)
  BY <1>8, <1>9, SafeTrans DEF Safe, After
<1> QED
  BY <1>3, <1>8, <1>10, <1>11

(* Lists of lines: put together from steps, and from a range of commits.     *)
Flattened(seqs, last, flatten) ==
    [i \in 1 .. last |-> IF i = 1 THEN seqs[i] ELSE flatten[i - 1] \o seqs[i]]
LEMMA FlattenExists ==
    ASSUME NEW seqs, NEW L \in Nat
    PROVE  \E flatten : flatten = Flattened(seqs, L, flatten)
<1> DEFINE Run(f, m) == f = Flattened(seqs, m, f)
           T == {m \in Nat : \E f : Run(f, m)}
<1>1. 0 \in T
  <2>1. Run([i \in 1 .. 0 |-> <<>>], 0)
    BY DEF Flattened
  <2> QED
    BY <2>1
<1>2. ASSUME NEW m \in Nat, m \in T
      PROVE  m + 1 \in T
  <2>1. PICK f : Run(f, m)
    BY <1>2
  <2> DEFINE f2 == [i \in 1 .. m + 1 |-> IF i # m + 1 THEN f[i]
                                         ELSE IF i = 1 THEN seqs[i] ELSE f[m] \o seqs[i]]
  <2>2. \A i \in 1 .. m + 1 : f2[i] = IF i = 1 THEN seqs[i] ELSE f2[i - 1] \o seqs[i]
    <3> SUFFICES ASSUME NEW i \in 1 .. m + 1
                 PROVE  f2[i] = IF i = 1 THEN seqs[i] ELSE f2[i - 1] \o seqs[i]
      OBVIOUS
    <3>1. CASE i = 1 /\ i # m + 1
      BY <2>1, <3>1 DEF Flattened
    <3>2. CASE i = 1 /\ i = m + 1
      BY <3>2
    <3>3. CASE i # 1 /\ i # m + 1
      <4>1. i \in 1 .. m /\ i - 1 \in 1 .. m + 1 /\ i - 1 # m + 1
        BY <3>3
      <4>2. f2[i] = f[i] /\ f2[i - 1] = f[i - 1]
        BY <4>1
      <4>3. f[i] = f[i - 1] \o seqs[i]
        BY <2>1, <3>3, <4>1 DEF Flattened
      <4> QED
        BY <3>3, <4>2, <4>3
    <3>4. CASE i # 1 /\ i = m + 1
      <4>1. m \in 1 .. m + 1 /\ m # m + 1 /\ i - 1 = m
        BY <3>4
      <4>2. f2[m] = f[m] /\ f2[i] = f[m] \o seqs[i]
        BY <3>4, <4>1
      <4> QED
        BY <3>4, <4>1, <4>2
    <3> QED
      BY <3>1, <3>2, <3>3, <3>4
  <2>3. Run(f2, m + 1)
    BY <2>2 DEF Flattened
  <2> HIDE DEF f2, Run
  <2> QED
    BY <2>3
<1>3. L \in T
  <2> HIDE DEF T
  <2> QED
    BY <1>1, <1>2, NatSetInduction
<1> QED
  BY <1>3

LEMMA FlattenSeqType ==
    ASSUME NEW S, NEW seqs \in Seq(Seq(S))
    PROVE  FlattenSeq(seqs) \in Seq(S)
<1> DEFINE L == Len(seqs)
           flatten == CHOOSE f : f = Flattened(seqs, L, f)
           T == {n \in Nat : n \in 1 .. L => flatten[n] \in Seq(S)}
<1>1. L \in Nat /\ \A i \in 1 .. L : seqs[i] \in Seq(S)
  BY LenProperties, ElementOfSeq
<1>2. flatten = Flattened(seqs, L, flatten)
  <2> HIDE DEF L
  <2> QED
    BY <1>1, FlattenExists
<1>3. FlattenSeq(seqs) = IF L = 0 THEN seqs ELSE flatten[L]
  BY DEF FlattenSeq, Flattened
<1> HIDE DEF flatten, L
<1>4. 0 \in T
  BY <1>1
<1>5. ASSUME NEW n \in Nat, n \in T
      PROVE  n + 1 \in T
  <2> SUFFICES ASSUME n + 1 \in 1 .. L
               PROVE  flatten[n + 1] \in Seq(S)
    OBVIOUS
  <2>1. flatten[n + 1] = IF n + 1 = 1 THEN seqs[n + 1] ELSE flatten[n] \o seqs[n + 1]
    <3>1. (n + 1) - 1 = n
      OBVIOUS
    <3> QED
      BY <1>2, <3>1 DEF Flattened
  <2>2. CASE n = 0
    BY <1>1, <2>1, <2>2
  <2>3. CASE n # 0
    <3>1. flatten[n] \in Seq(S) /\ seqs[n + 1] \in Seq(S) /\ n + 1 # 1
      BY <1>1, <1>5, <2>3
    <3>2. flatten[n] \o seqs[n + 1] \in Seq(S)
      BY <3>1, ConcatProperties
    <3> QED
      BY <2>1, <3>1, <3>2
  <2> QED
    BY <2>2, <2>3
<1>6. L \in T
  <2> HIDE DEF T
  <2> QED
    BY <1>1, <1>4, <1>5, NatSetInduction
<1>7. CASE L = 0
  <2>1. seqs = <<>>
    BY <1>7, EmptySeq DEF L
  <2>2. <<>> \in Seq(S)
    BY EmptySeq
  <2> QED
    BY <1>3, <1>7, <2>1, <2>2
<1>8. CASE L # 0
  BY <1>1, <1>3, <1>6, <1>8
<1> QED
  BY <1>7, <1>8

Steps(n) == Seq([oid : 1 .. n, action : RebaseActions])
LEMMA TodoType ==
    ASSUME NEW n \in Nat, NEW steps \in Steps(n)
    PROVE  Todo(steps) \in Seq(Lines(n))
<1> DEFINE S == Seq(Lines(n))  lists == [i \in 1 .. Len(steps) |-> TodoLines(steps[i])]
<1>1. ASSUME NEW s \in [oid : 1 .. n, action : RebaseActions]
      PROVE  TodoLines(s) \in S
  <2> DEFINE pick == [do |-> "pick", oid |-> s.oid]  fixup == [do |-> "fixup", oid |-> s.oid]
             exec == [do |-> "exec", oid |-> 0]
  <2>1. pick \in Lines(n) /\ fixup \in Lines(n) /\ exec \in Lines(n)
    BY <1>1 DEF Lines, TodoAction
  <2>2. TodoLines(s) \in {<<pick>>, <<pick, exec>>, <<fixup>>, <<fixup, exec>>, <<>>}
    BY <1>1 DEF TodoLines, RebaseActions
  <2> HIDE DEF pick, fixup, exec
  <2>3. <<pick>> \in S /\ <<pick, exec>> \in S /\ <<fixup>> \in S /\ <<fixup, exec>> \in S /\ <<>> \in S
    BY <2>1
  <2> QED
    BY <2>2, <2>3
<1>2. Len(steps) \in Nat /\ \A i \in 1 .. Len(steps) : steps[i] \in [oid : 1 .. n, action : RebaseActions]
  BY LenProperties, ElementOfSeq DEF Steps
<1> HIDE DEF S
<1>3. lists \in [1 .. Len(steps) -> S]
  BY <1>1, <1>2
<1>4. lists \in Seq(S)
  BY <1>2, <1>3, SeqDef
<1>5. FlattenSeq(lists) \in Seq(Lines(n))
  <2> HIDE DEF lists
  <2> QED BY <1>4, FlattenSeqType DEF S
<1> QED
  BY <1>5 DEF Todo

LEMMA InteractiveRebase ==
    ASSUME NEW g, Whole(g), NEW onto \in Born(g), NEW steps \in Steps(Newest(g))
    PROVE  \A out \in interactive_rebase(g, onto, steps) : Safe(g, out.git)
<1> DEFINE todo == Todo(steps)  s == Started(g, onto, todo)
<1>1. todo \in Seq(Lines(Newest(g))) /\ Safe(g, g)
  BY TodoType, NewestType, AfterItself
<1> HIDE DEF todo
<1>2. ASSUME MayReplace(g, Tree(g, onto)), NEW out \in RunTodo(s, TRUE)
      PROVE  Safe(g, out.git)
  <2>1. Safe(g, s) /\ Whole(s) /\ s.state = "Rebasing"
    BY <1>1, <1>2, StartedSafe
  <2> HIDE DEF s
  <2>2. Safe(s, out.git)
    BY <1>2, <2>1, RunTodoSafe
  <2> QED
    BY <2>1, <2>2, SafeTrans
<1> HIDE DEF s
<1>3. \A out \in interactive_rebase(g, onto, steps) :
         out.git = g \/ (MayReplace(g, Tree(g, onto)) /\ out \in RunTodo(s, TRUE))
  <2> DEFINE ran == RunTodo(s, TRUE)
  <2> HIDE DEF ran
  <2>1. \/ interactive_rebase(g, onto, steps) \in {Ok(g), Err("Backend", g)}
        \/ MayReplace(g, Tree(g, onto)) /\ interactive_rebase(g, onto, steps) = ran
    BY Zenon DEF interactive_rebase, ran, s, todo
  <2>2. \A out \in Ok(g) \cup Err("Backend", g) : out.git = g
    BY DEF Ok, Err
  <2> QED
    BY <2>1, <2>2 DEF ran
<1> QED
  BY <1>1, <1>2, <1>3

Listed(g, mine, last, todo) ==
    [n \in 0 .. last |-> IF n = 0 THEN <<>>
                         ELSE IF n \in mine /\ Len(Parents(g, n)) < 2
                              THEN Append(todo[n - 1], [do |-> "pick", oid |-> n]) ELSE todo[n - 1]]
LEMMA ListedExists ==
    ASSUME NEW g, NEW mine, NEW L \in Nat
    PROVE  \E todo : todo = Listed(g, mine, L, todo)
<1> DEFINE More(x, n) == IF n \in mine /\ Len(Parents(g, n)) < 2
                         THEN Append(x, [do |-> "pick", oid |-> n]) ELSE x
           Run(f, m) == f = [n \in 0 .. m |-> IF n = 0 THEN <<>> ELSE More(f[n - 1], n)]
           T == {m \in Nat : \E f : Run(f, m)}
<1> HIDE DEF More
<1>1. 0 \in T
  <2>1. Run([n \in 0 .. 0 |-> <<>>], 0)
    OBVIOUS
  <2> QED
    BY <2>1
<1>2. ASSUME NEW m \in Nat, m \in T
      PROVE  m + 1 \in T
  <2>1. PICK f : Run(f, m)
    BY <1>2
  <2> DEFINE f2 == [n \in 0 .. m + 1 |-> IF n = m + 1 THEN More(f[m], n) ELSE f[n]]
  <2>2. \A n \in 0 .. m + 1 : f2[n] = IF n = 0 THEN <<>> ELSE More(f2[n - 1], n)
    <3> SUFFICES ASSUME NEW n \in 0 .. m + 1
                 PROVE  f2[n] = IF n = 0 THEN <<>> ELSE More(f2[n - 1], n)
      OBVIOUS
    <3>1. CASE n = m + 1
      <4>1. n # 0 /\ n - 1 = m /\ m \in 0 .. m + 1 /\ m # m + 1
        BY <3>1
      <4>2. f2[m] = f[m] /\ f2[n] = More(f[m], n)
        BY <3>1, <4>1
      <4> QED
        BY <4>1, <4>2
    <3>2. CASE n \in 1 .. m
      <4>1. n \in 0 .. m /\ n # 0 /\ n - 1 \in 0 .. m + 1 /\ n - 1 # m + 1 /\ n # m + 1
        BY <3>2
      <4>2. f2[n] = f[n] /\ f2[n - 1] = f[n - 1]
        BY <4>1
      <4>3. f[n] = More(f[n - 1], n)
        BY <2>1, <4>1
      <4> QED
        BY <4>1, <4>2, <4>3
    <3>3. CASE n = 0
      BY <2>1, <3>3
    <3> QED
      BY <3>1, <3>2, <3>3
  <2>3. Run(f2, m + 1)
    BY <2>2
  <2> HIDE DEF f2, Run
  <2> QED
    BY <2>3
<1>3. L \in T
  <2> HIDE DEF T
  <2> QED
    BY <1>1, <1>2, NatSetInduction
<1> QED
  BY <1>3 DEF More, Listed

LEMMA PicksType ==
    ASSUME NEW g, Whole(g), NEW mine
    PROVE  Picks(g, mine) \in Seq(Lines(Newest(g)))
<1> DEFINE L == Newest(g)  S == Lines(L)
           todo == CHOOSE f : f = Listed(g, mine, L, f)
           T == {n \in Nat : n <= L => todo[n] \in Seq(S)}
<1>1. L \in Nat
  BY NewestType
<1>2. todo = Listed(g, mine, L, todo)
  <2> HIDE DEF L
  <2> QED
    BY <1>1, ListedExists
<1>3. Picks(g, mine) = todo[L]
  BY DEF Picks, Listed
<1> HIDE DEF todo
<1>4. 0 \in T
  <2>1. todo[0] = <<>>
    BY <1>1, <1>2 DEF Listed
  <2> QED
    BY <2>1, EmptySeq
<1>5. ASSUME NEW n \in Nat, n \in T
      PROVE  n + 1 \in T
  <2> SUFFICES ASSUME n + 1 <= L
               PROVE  todo[n + 1] \in Seq(S)
    OBVIOUS
  <2> DEFINE line == [do |-> "pick", oid |-> n + 1]
  <2>1. todo[n] \in Seq(S) /\ line \in S
    BY <1>1, <1>5 DEF Lines, TodoAction
  <2>2. todo[n + 1] \in {todo[n], Append(todo[n], line)}
    <3>1. n + 1 \in 0 .. L /\ n + 1 # 0 /\ (n + 1) - 1 = n
      BY <1>1
    <3> QED
      BY <1>2, <3>1 DEF Listed
  <2> HIDE DEF line, S
  <2>3. Append(todo[n], line) \in Seq(S)
    BY <2>1, AppendProperties
  <2> QED
    BY <2>1, <2>2, <2>3
<1>6. L \in T
  <2> HIDE DEF T
  <2> QED
    BY <1>1, <1>4, <1>5, NatSetInduction
<1> QED
  BY <1>1, <1>3, <1>6

LEMMA RebasedSafe ==
    ASSUME NEW g, Whole(g), NEW c \in Born(g)
    PROVE  \A out \in Rebased(g, c) : Safe(g, out.git)
<1> DEFINE todo == Picks(g, Reach(g, HeadOid(g)) \ Reach(g, c))  s == Started(g, c, todo)
<1>1. todo \in Seq(Lines(Newest(g))) /\ Safe(g, g)
  BY PicksType, AfterItself
<1> HIDE DEF todo
<1>2. ASSUME MayReplace(g, Tree(g, c)), NEW out \in RunTodo(s, TRUE)
      PROVE  Safe(g, out.git)
  <2>1. Safe(g, s) /\ Whole(s) /\ s.state = "Rebasing"
    BY <1>1, <1>2, StartedSafe
  <2> HIDE DEF s
  <2>2. Safe(s, out.git)
    BY <1>2, <2>1, RunTodoSafe
  <2> QED
    BY <2>1, <2>2, SafeTrans
<1> HIDE DEF s
<1>3. \A out \in Rebased(g, c) :
         out.git = g \/ (MayReplace(g, Tree(g, c)) /\ out \in RunTodo(s, TRUE))
  <2> DEFINE ran == RunTodo(s, TRUE)
  <2> HIDE DEF ran
  <2>1. \/ Rebased(g, c) \in {Ok(g), Err("Backend", g)}
        \/ MayReplace(g, Tree(g, c)) /\ Rebased(g, c) = ran
    BY Zenon DEF Rebased, ran, s, todo
  <2>2. \A out \in Ok(g) \cup Err("Backend", g) : out.git = g
    BY DEF Ok, Err
  <2> QED
    BY <2>1, <2>2 DEF ran
<1> QED
  BY <1>1, <1>2, <1>3

LEMMA PullOperation ==
    ASSUME NEW g, Whole(g), NEW rebase \in BOOLEAN
    PROVE  \A out \in pull(g, rebase) : Safe(g, out.git)
<1> DEFINE r == IF g.head = Detached THEN NoRemote ELSE g.upstream[g.head]
           got == Fetched(g, r)  theirs == got.tracking[r][g.head]
<1>1. Safe(g, g)
  BY AfterItself
<1>2. r # NoRemote => r \in Remote /\ g.head \in Branch
  BY DEF Whole, Names
<1>3. ASSUME r # NoRemote
      PROVE  Safe(g, got) /\ Whole(got) /\ (theirs # 0 => theirs \in Born(got))
  <2>1. r \in Remote /\ g.head \in Branch
    BY <1>2, <1>3
  <2> HIDE DEF r
  <2>2. /\ Safe(g, got) /\ got.tracking[r] \in [Branch -> Known(g)] /\ Newest(got) = Newest(g)
    BY <2>1, FetchedSafe
  <2> HIDE DEF got
  <2> QED
    BY <2>1, <2>2, NewestType DEF Known, Born, Safe, After
<1>4. ASSUME r # NoRemote, theirs # 0, NEW out \in Rebased(got, theirs) \cup Merged(got, theirs, "pull")
      PROVE  Safe(g, out.git)
  <2>1. Safe(g, got) /\ Whole(got) /\ theirs \in Born(got)
    BY <1>3, <1>4
  <2> HIDE DEF theirs, got
  <2>2. Safe(got, out.git)
    BY <1>4, <2>1, RebasedSafe, MergedSafe DEF ReflogKind
  <2> QED
    BY <2>1, <2>2, SafeTrans
<1>5. \A out \in pull(g, rebase) :
         \/ out.git = g
         \/ r # NoRemote /\ out.git = got
         \/ r # NoRemote /\ theirs # 0 /\ out \in Rebased(got, theirs) \cup Merged(got, theirs, "pull")
  <2> HIDE DEF got, r, theirs
  <2> QED
    BY SMTT(90) DEF pull, Err, got, r, theirs
<1> HIDE DEF got, r, theirs
<1> QED
  BY <1>1, <1>3, <1>4, <1>5

-----------------------------------------------------------------------------
(* Operations in progress, and the stash                                     *)

LEMMA ContinueOperation ==
    ASSUME NEW g, Whole(g)
    PROVE  \A out \in continue_op(g) : Safe(g, out.git)
<1> DEFINE r == [g.rebase EXCEPT !.stop = "none"]  go == [g EXCEPT !.rebase.stop = "none"]
           fixed == Amended(go, g.index, "rebase")
           made == CommitOnHead(go, g.index, HeadAsParent(g), "rebase")
           kind == IF g.state = "Reverting" THEN "revert" ELSE "cherry-pick"
           ended == Concluded(CommitOnHead(g, g.index, <<HeadOid(g)>>, kind))
<1>1. Safe(g, g)
  BY AfterItself
<1>2. g.state # "Clean" => HeadOid(g) # 0
  BY DEF Whole
<1>3. /\ Safe(g, go) /\ Whole(go) /\ HeadOid(go) = HeadOid(g) /\ Newest(go) = Newest(g)
      /\ go.state = g.state
  <2>1. r \in Rebases(Newest(g))
    BY DEF Whole, Names, Rebases
  <2>2. go = [g EXCEPT !.rebase = r]
    OBVIOUS
  <2> HIDE DEF r, go
  <2> DEFINE x == [g EXCEPT !.rebase = r]
  <2>3. /\ Safe(g, x) /\ Whole(x) /\ HeadOid(x) = HeadOid(g) /\ Newest(x) = Newest(g)
        /\ \A f \in Fields \ {"rebase"} : x[f] = g[f]
    BY <2>1, RebaseWhole
  <2> HIDE DEF x
  <2> QED
    BY <2>2, <2>3 DEF Fields, x
<1> HIDE DEF go
<1>4. ASSUME g.state # "Clean"
      PROVE  /\ Safe(go, fixed) /\ Whole(fixed) /\ fixed.state = g.state
             /\ Safe(go, made) /\ Whole(made) /\ made.state = g.state
  <2>1. Safe(go, fixed) /\ fixed.state = g.state
    BY <1>2, <1>3, <1>4, AmendedSafe DEF ReflogKind
  <2>2. Rooted(HeadAsParent(g), Newest(go))
    BY <1>3, ParentsRooted
  <2>3. Safe(go, made) /\ made.state = g.state
    BY <1>3, <2>2, CommitSafe DEF ReflogKind, Fields
  <2> QED
    BY <2>1, <2>3 DEF Safe, After
<1> HIDE DEF fixed, made
<1>5. ASSUME g.state # "Clean", NEW x \in {go, fixed, made}, NEW out \in RunTodo(x, FALSE)
      PROVE  Safe(g, out.git)
  <2>1. Safe(g, x) /\ Whole(x) /\ x.state # "Clean"
    BY <1>3, <1>4, <1>5, SafeTrans
  <2>2. Safe(x, out.git)
    BY <1>5, <2>1, RunTodoSafe
  <2> QED
    BY <2>1, <2>2, SafeTrans
<1>6. \A out \in ResumeRebase(g) : \E x \in {go, fixed, made} : out \in RunTodo(x, FALSE)
  <2>1. ResumeRebase(g) \in {RunTodo(go, FALSE), RunTodo(fixed, FALSE), RunTodo(made, FALSE)}
    BY Zenon DEF ResumeRebase, go, fixed, made
  <2> QED
    BY <2>1
<1>7. ASSUME g.state \in {"CherryPicking", "Reverting"}
      PROVE  Safe(g, ended)
  <2> DEFINE c == CommitOnHead(g, g.index, <<HeadOid(g)>>, kind)
  <2>1. Safe(g, c) /\ Whole(c)
    BY <1>2, <1>7, ParentsRooted, CommitSafe DEF ReflogKind, Safe, After
  <2> HIDE DEF c
  <2>2. Safe(c, Concluded(c))
    BY <2>1, ConcludedWhole
  <2>3. Safe(g, Concluded(c))
    BY <2>1, <2>2, SafeTrans
  <2> QED
    BY <2>3 DEF c
<1> HIDE DEF ended
<1>8. \A out \in continue_op(g) :
         \/ out.git = g
         \/ out \in commit(g)
         \/ g.state # "Clean" /\ out \in ResumeRebase(g)
         \/ g.state \in {"CherryPicking", "Reverting"} /\ out.git = ended
  <2>1. g.state \in RepoState
    BY DEF Whole, Names
  <2>2. CASE g.state = "Clean"
    BY <2>2 DEF continue_op, Err
  <2>3. CASE g.state # "Clean" /\ g.conflict # NoConflict
    BY <2>3 DEF continue_op, Err
  <2>4. CASE g.state = "Merging" /\ g.conflict = NoConflict
    BY <2>4 DEF continue_op
  <2>5. CASE g.state = "Rebasing" /\ g.conflict = NoConflict
    BY <2>5 DEF continue_op, Err
  <2>6. CASE g.state \in {"CherryPicking", "Reverting"} /\ g.conflict = NoConflict
    BY <2>6 DEF continue_op, Err, Ok, ended
  <2> QED
    BY <2>1, <2>2, <2>3, <2>4, <2>5, <2>6 DEF RepoState
<1>9. \A out \in commit(g) : Safe(g, out.git)
  BY CommitOperations
<1> QED
  BY <1>1, <1>5, <1>6, <1>7, <1>8, <1>9

LEMMA FilesLogged ==
    ASSUME NEW g, Whole(g), NEW tree, NEW c \in Known(g), NEW k \in ReflogKind
    PROVE  After(g, Logged(WithFiles(g, tree), c, k))
<1> DEFINE w == WithFiles(g, tree)
<1>1. After(g, w) /\ Whole(w) /\ Newest(w) = Newest(g)
  BY WithFilesWhole DEF After
<1> HIDE DEF w
<1>2. After(w, Logged(w, c, k))
  BY <1>1, LoggedSafe DEF Known, Safe
<1>3. After(g, Logged(w, c, k))
  BY <1>1, <1>2, AfterTrans
<1> QED
  BY <1>3 DEF w

LEMMA AbortOperation ==
    ASSUME NEW g, Whole(g)
    PROVE  \A out \in abort_op(g) : After(g, out.git)
<1> DEFINE b == g.rebase.branch  orig == g.rebase.orig
           back == IF b = Detached THEN [g EXCEPT !.head = b, !.at = orig]
                   ELSE [g EXCEPT !.refs[b] = orig, !.head = b, !.at = 0]
           x == Concluded(back)  y == Concluded(g)
<1>1. /\ b \in Branch \cup {Detached} /\ orig \in Known(g) /\ Newest(g) \in Nat
      /\ g.refs \in [Branch -> Known(g)] /\ NoRebase \in Rebases(Newest(g))
  BY NewestType, NoRebaseType DEF Whole, Names, Rebases, Known
<1>2. After(g, x)
  <2>1. /\ DOMAIN back = Fields /\ back.head = b /\ back.at \in {0, orig}
        /\ back.refs \in {g.refs, [g.refs EXCEPT ![b] = orig]}
        /\ b = Detached => back.refs = g.refs
        /\ \A f \in Fields \ {"head", "at", "refs"} : back[f] = g[f]
    <3>1. CASE b = Detached
      BY <3>1 DEF Whole, Fields
    <3>2. CASE b # Detached
      BY <3>2 DEF Whole, Fields
    <3> QED
      BY <3>1, <3>2
  <2> HIDE DEF back
  <2>2. /\ DOMAIN x = Fields /\ x.state = "Clean" /\ x.rebase = NoRebase /\ x.other = 0
        /\ \A f \in Fields \ {"state", "other", "rebase"} : x[f] = back[f]
    BY <2>1 DEF Concluded, Fields
  <2> HIDE DEF x
  <2>3. /\ x.head = b /\ x.at \in {0, orig} /\ x.refs \in {g.refs, [g.refs EXCEPT ![b] = orig]}
        /\ (b = Detached => x.refs = g.refs)
    BY <2>1, <2>2 DEF Fields
  <2>4. /\ x.server = g.server /\ x.tracking = g.tracking
        /\ x.upstream = g.upstream /\ x.remotes = g.remotes /\ x.reflog = g.reflog
        /\ x.wt = g.wt /\ x.commits = g.commits /\ x.stash = g.stash
    BY <2>1, <2>2 DEF Fields
  <2> HIDE DEF b, orig
  <2>5. x.refs \in [Branch -> 0 .. Newest(g)]
    BY <1>1, <2>3 DEF Known
  <2>6. x.at \in 0 .. Newest(g) /\ x.other \in 0 .. Newest(g)
    BY <1>1, <2>2, <2>3 DEF Known
  <2>7. Names(x, Newest(g))
    BY <1>1, <2>2, <2>3, <2>4, <2>5, <2>6 DEF Whole, Names, RepoState
  <2>8. Safe(g, x)
    BY <2>2, <2>4, <2>7, NamesSafe
  <2> QED
    BY <2>8 DEF Safe
<1>3. After(g, y) /\ Whole(y) /\ HeadOid(y) = HeadOid(g)
  BY ConcludedWhole DEF Safe, After
<1> DEFINE h1 == Logged(WithFiles(x, Tree(g, orig)), orig, "rebase")
           h2 == Logged(WithFiles(y, HeadTree(g)), HeadOid(g), "reset")
<1>4. After(g, h1)
  <2> HIDE DEF x
  <2>1. Whole(x) /\ orig \in Known(x)
    BY <1>1, <1>2, CommittedGrows DEF After
  <2>2. After(x, h1)
    BY <2>1, FilesLogged DEF ReflogKind
  <2> QED
    BY <1>2, <2>2, AfterTrans
<1>5. After(g, h2)
  <2> HIDE DEF y
  <2>1. HeadOid(g) \in Known(y)
    BY <1>3, NewestType
  <2>2. After(y, h2)
    BY <1>3, <2>1, FilesLogged DEF ReflogKind
  <2> QED
    BY <1>3, <2>2, AfterTrans
<1>6. After(g, g)
  BY AfterItself DEF Safe
<1>7. \A out \in abort_op(g) : out.git \in {g, h1, h2}
  <2> HIDE DEF h1, h2, back, x, y
  <2>1. CASE g.state = "Clean"
    BY <2>1 DEF abort_op, Err
  <2>2. CASE g.state = "Rebasing"
    BY <2>2 DEF abort_op, Ok, h1, x, back
  <2>3. CASE g.state # "Clean" /\ g.state # "Rebasing"
    BY <2>3 DEF abort_op, Ok, h2, y
  <2> QED
    BY <2>1, <2>2, <2>3
<1> HIDE DEF h1, h2
<1> QED
  BY <1>4, <1>5, <1>6, <1>7

LEMMA ResolveOperation ==
    ASSUME NEW g, Whole(g), NEW side
    PROVE  \A out \in resolve_side(g, side) : After(g, out.git)
<1> DEFINE c == IF side = "ours" THEN g.conflict.ours ELSE g.conflict.theirs
           h == [g EXCEPT !.wt = g.index]
<1>1. After(g, g)
  BY AfterItself DEF Safe
<1>2. After(g, h)
  <2>1. DOMAIN h = Fields /\ \A f \in Fields \ {"wt"} : h[f] = g[f]
    BY DEF Whole
  <2> HIDE DEF h
  <2>2. IsSequence(h.stash)
    BY <2>1 DEF Whole, Fields
  <2> QED
    BY <2>1, <2>2, SameNames DEF Fields
<1>3. After(g, WithFiles(g, c))
  BY WithFilesWhole
<1> HIDE DEF h, c
<1>4. \A out \in resolve_side(g, side) : out.git \in {g, h, WithFiles(g, c)}
  BY DEF resolve_side, Ok, Err, h, c
<1> QED
  BY <1>1, <1>2, <1>3, <1>4

LEMMA StashSave ==
    ASSUME NEW g, Whole(g)
    PROVE  \A out \in stash_save(g) : After(g, out.git) /\ g.wt \in Held(out.git)
<1> DEFINE e == [base |-> HeadTree(g), wt |-> g.wt]
           s == [g EXCEPT !.stash = <<e>> \o @]  h == WithFiles(s, HeadTree(g))
<1>1. After(g, g) /\ g.wt \in Held(g)
  BY AfterItself DEF Safe, Held
<1>2. DOMAIN s = Fields /\ s.stash = <<e>> \o g.stash /\ \A f \in Fields \ {"stash"} : s[f] = g[f]
  BY DEF Whole, Fields
<1>3. e.wt = g.wt
  OBVIOUS
<1> HIDE DEF e, s
<1>4. IsSequence(s.stash) /\ Len(s.stash) \in Nat /\ Len(s.stash) >= 1 /\ s.stash[1] = e
  <2> DEFINE S == Range(g.stash) \cup {e}
  <2>1. g.stash \in Seq(S) /\ <<e>> \in Seq(S) /\ Len(<<e>>) = 1 /\ <<e>>[1] = e
    BY SeqMonotonic DEF Whole, IsSequence
  <2>2. Len(g.stash) \in Nat
    BY <2>1, LenProperties
  <2> HIDE DEF S
  <2>3. /\ s.stash \in Seq(S) /\ Len(s.stash) = 1 + Len(g.stash) /\ s.stash[1] = e
    BY <1>2, <2>1, <2>2, ConcatProperties
  <2> QED
    BY <2>2, <2>3, SeqOfRange DEF IsSequence
<1>5. After(g, s) /\ Whole(s)
  BY <1>2, <1>4, SameNames DEF Fields, After
<1>6. After(s, h) /\ h.stash = s.stash
  BY <1>5, WithFilesWhole DEF Fields, Files
<1> HIDE DEF h
<1>7. After(g, h) /\ g.wt \in Held(h)
  <2>1. g.wt = h.stash[1].wt /\ 1 \in 1 .. Len(h.stash)
    BY <1>3, <1>4, <1>6
  <2> QED
    BY <1>5, <1>6, <2>1, AfterTrans DEF Held
<1>8. \A out \in stash_save(g) : out.git \in {g, h}
  BY DEF stash_save, Ok, Err, h, s, e
<1> QED
  BY <1>1, <1>7, <1>8

LEMMA StashDroppedSafe ==
    ASSUME NEW g, Whole(g), NEW n \in 1 .. Len(g.stash)
    PROVE  Safe(g, StashDropped(g, n))
<1> DEFINE h == StashDropped(g, n)  S == Range(g.stash)  s == g.stash
<1>1. DOMAIN h = Fields /\ h.stash = RemoveAt(s, n) /\ \A f \in Fields \ {"stash"} : h[f] = g[f]
  BY DEF StashDropped, Whole, Fields
<1> HIDE DEF h
<1>2. s \in Seq(S) /\ Len(s) \in Nat /\ \A i \in 1 .. Len(s) : s[i] \in S
  BY LenProperties, ElementOfSeq DEF Whole, IsSequence
<1> HIDE DEF S
<1>3. SubSeq(s, 1, n - 1) \in Seq(S)
  <2>1. n - 1 \in Int /\ \A i \in 1 .. n - 1 : s[i] \in S
    BY <1>2
  <2> QED
    BY <2>1, SubSeqProperties
<1>4. SubSeq(s, n + 1, Len(s)) \in Seq(S)
  <2>1. n + 1 \in Int /\ Len(s) \in Int /\ \A i \in n + 1 .. Len(s) : s[i] \in S
    BY <1>2
  <2> QED
    BY <2>1, SubSeqProperties
<1>5. h.stash \in Seq(S)
  BY <1>1, <1>3, <1>4, ConcatProperties DEF RemoveAt
<1>6. IsSequence(h.stash)
  BY <1>5, SeqOfRange DEF IsSequence
<1>7. After(g, h) /\ h.wt = g.wt
  BY <1>1, <1>6, SameNames DEF Fields
<1> QED
  BY <1>7, KeptFile DEF h

LEMMA StashAppliedSafe ==
    ASSUME NEW g, Whole(g), NEW n \in Nat \ {0}, NEW drop \in BOOLEAN
    PROVE  \A out \in StashApplied(g, n, drop) : Safe(g, out.git)
<1> DEFINE s == g.stash[n]  tree == Merge3(s.base, HeadTree(g), s.wt)
           set == [g EXCEPT !.wt = tree, !.index = IF @ = Absent THEN tree ELSE @]
           applied == IF tree = HeadTree(g) THEN g ELSE set
           marked == Unmerged(g, s.base, HeadTree(g), s.wt)
<1> HIDE DEF s
<1>1. Safe(g, g)
  BY AfterItself
<1>2. ASSUME MayReplace(g, tree)
      PROVE  Safe(g, applied) /\ Whole(applied) /\ applied.stash = g.stash
  <2>1. CASE tree = HeadTree(g)
    BY <1>1, <2>1
  <2>2. CASE tree # HeadTree(g)
    <3>1. g.wt = HeadTree(g)
      BY <1>2, <2>2 DEF MayReplace
    <3>2. DOMAIN set = Fields /\ \A f \in Fields \ {"wt", "index"} : set[f] = g[f]
      <4> HIDE DEF tree
      <4> QED BY DEF Whole
    <3> HIDE DEF set
    <3>3. set.stash = g.stash /\ IsSequence(set.stash)
      BY <3>2 DEF Whole, Fields
    <3>4. After(g, set)
      BY <3>2, <3>3, SameNames DEF Fields
    <3>5. Safe(g, set) /\ Whole(set)
      BY <3>1, <3>4, KeptFile DEF After
    <3> QED
      BY <2>2, <3>3, <3>5
  <2> QED
    BY <2>1, <2>2
<1>3. ASSUME MayReplace(g, tree), Conflicts(s.base, HeadTree(g), s.wt)
      PROVE  Safe(g, marked)
  <2>1. g.wt = HeadTree(g)
    BY <1>3, MarkedOverHead
  <2>2. After(g, marked)
    BY UnmergedWhole
  <2> HIDE DEF marked
  <2> QED
    BY <2>1, <2>2, KeptFile
<1> HIDE DEF applied, marked, tree
<1>4. ASSUME MayReplace(g, tree), n <= Len(g.stash)
      PROVE  Safe(g, StashDropped(applied, n))
  <2>1. Len(g.stash) \in Nat
    BY LenProperties DEF Whole, IsSequence
  <2>2. n \in 1 .. Len(applied.stash)
    BY <1>2, <1>4, <2>1
  <2>3. Safe(applied, StashDropped(applied, n))
    BY <1>2, <1>4, <2>2, StashDroppedSafe
  <2> QED
    BY <1>2, <1>4, <2>3, SafeTrans
<1>5. \A out \in StashApplied(g, n, drop) :
         \/ out.git = g
         \/ MayReplace(g, tree) /\ Conflicts(s.base, HeadTree(g), s.wt) /\ out.git = marked
         \/ MayReplace(g, tree) /\ out.git = applied
         \/ MayReplace(g, tree) /\ n <= Len(g.stash) /\ out.git = StashDropped(applied, n)
  <2>1. Len(g.stash) \in Nat
    BY LenProperties DEF Whole, IsSequence
  <2>2. CASE n > Len(g.stash)
    BY <2>2 DEF StashApplied, Err
  <2>3. CASE ~ (n > Len(g.stash))
    BY <2>1, <2>3 DEF StashApplied, Ok, Err, marked, applied, tree, s
  <2> QED
    BY <2>2, <2>3
<1> QED
  BY <1>1, <1>2, <1>3, <1>4, <1>5

LEMMA StashOperations ==
    ASSUME NEW g, Whole(g), NEW n \in Nat \ {0}
    PROVE  /\ \A out \in stash_apply(g, n) : Safe(g, out.git)
           /\ \A out \in stash_pop(g, n) : Safe(g, out.git)
           /\ \A out \in stash_drop(g, n) : Safe(g, out.git)
<1>1. \A out \in stash_apply(g, n) : Safe(g, out.git)
  BY StashAppliedSafe DEF stash_apply
<1>2. \A out \in stash_pop(g, n) : Safe(g, out.git)
  BY StashAppliedSafe DEF stash_pop
<1>3. \A out \in stash_drop(g, n) : Safe(g, out.git)
  <2>1. Len(g.stash) \in Nat
    BY LenProperties DEF Whole, IsSequence
  <2>2. n <= Len(g.stash) => Safe(g, StashDropped(g, n))
    BY <2>1, StashDroppedSafe
  <2> QED
    BY <2>1, <2>2, AfterItself DEF stash_drop, Ok, Err
<1> QED
  BY <1>1, <1>2, <1>3

-----------------------------------------------------------------------------
(* Every write operation                                                     *)

StashNumbered == {"stash_apply", "stash_pop", "stash_drop"}
BranchNamed == {"checkout_branch", "create_branch", "create_and_checkout", "delete_branch", "merge_branch"}
RemoteNamed == {"add_remote", "remove_remote", "set_upstream"}

(* The argument is one the operation can be called with.                     *)
ArgFits(g, op, arg) ==
    /\ op \in BranchNamed => arg \in Branch
    /\ op = "pull" => arg \in BOOLEAN
    /\ op \in {"cherry_pick", "revert"} => arg \in Born(g)
    /\ op = "reset" => arg.to \in Born(g) /\ arg.mode \in {"Soft", "Mixed", "Hard"}
    /\ op = "interactive_rebase" => arg.onto \in Born(g) /\ arg.steps \in Steps(Newest(g))
    /\ op \in StashNumbered => arg \in Nat \ {0}
    /\ op \in RemoteNamed => arg \in Remote
    /\ op = "rename_remote" => arg.old \in Remote /\ arg.new \in Remote

LEMMA ArgsGrow ==
    ASSUME NEW g, Whole(g), NEW h, After(g, h), NEW op, NEW arg, ArgFits(g, op, arg)
    PROVE  ArgFits(h, op, arg)
<1>1. Born(g) \subseteq Born(h)
  BY CommittedGrows
<1>2. Steps(Newest(g)) \subseteq Steps(Newest(h))
  <2>1. [oid : Born(g), action : RebaseActions] \subseteq [oid : Born(h), action : RebaseActions]
    BY <1>1
  <2> QED
    BY <2>1, SeqMonotonic DEF Steps, Born
<1> QED
  BY <1>1, <1>2 DEF ArgFits

(* A rebase of the newest commits starts from the first one's parent.        *)
LEMMA RebaseArgsType ==
    ASSUME NEW g, Whole(g), Chain(g) # <<>>, NEW arg \in RebaseArgs(g)
    PROVE  arg.onto \in Born(g) /\ arg.steps \in Steps(Newest(g))
<1> DEFINE top == HeadOid(g)  chain == Chain(g)
<1>1. top \in Known(g) /\ Newest(g) \in Nat
  BY NewestType
<1>2. ASSUME NEW c \in Born(g), Len(Parents(g, c)) = 1
      PROVE  FirstParent(g, c) \in Born(g)
  <2>1. Parents(g, c) # <<>>
    BY <1>2, EmptySeq
  <2> QED
    BY <2>1 DEF Whole, Past, Rooted, Born, Newest, Parents, FirstParent
<1>3. /\ Len(chain) \in {1, 2} /\ \A i \in 1 .. Len(chain) : chain[i] \in Born(g)
      /\ Len(Parents(g, chain[1])) = 1
  <2>1. top \in Born(g) /\ Len(Parents(g, top)) = 1
    BY <1>1 DEF Chain, Known, Born
  <2> DEFINE p == FirstParent(g, top)
  <2>2. p \in Born(g)
    BY <1>2, <2>1
  <2> HIDE DEF top, p
  <2>3. CASE Len(Parents(g, p)) # 1
    <3>1. chain = <<top>>
      BY <2>1, <2>3 DEF Chain, p, top
    <3> QED
      BY <2>1, <3>1
  <2>4. CASE Len(Parents(g, p)) = 1
    <3>1. chain = <<p, top>>
      BY <2>1, <2>4 DEF Chain, p, top
    <3> QED
      BY <2>1, <2>2, <2>4, <3>1
  <2> QED
    BY <2>3, <2>4
<1> HIDE DEF chain
<1>4. PICK a \in [1 .. Len(chain) -> RebaseActions] :
        arg = [onto |-> FirstParent(g, chain[1]),
               steps |-> [i \in 1 .. Len(chain) |-> [oid |-> chain[i], action |-> a[i]]]]
  BY DEF RebaseArgs, chain
<1>5. arg.onto = FirstParent(g, chain[1])
      /\ arg.steps = [i \in 1 .. Len(chain) |-> [oid |-> chain[i], action |-> a[i]]]
  BY <1>4
<1>6. arg.steps \in [1 .. Len(chain) -> [oid : 1 .. Newest(g), action : RebaseActions]]
  BY <1>3, <1>5 DEF Born
<1>7. arg.steps \in Steps(Newest(g))
  <2> DEFINE S == [oid : 1 .. Newest(g), action : RebaseActions]  l == Len(chain)
  <2>1. l \in Nat /\ arg.steps \in [1 .. l -> S]
    BY <1>3, <1>6
  <2> HIDE DEF S, l
  <2>2. arg.steps \in Seq(S)
    BY <2>1, SeqDef
  <2> QED
    BY <2>2 DEF Steps, S
<1>8. chain[1] \in Born(g)
  BY <1>3
<1> QED
  BY <1>2, <1>3, <1>5, <1>7, <1>8

Discards(op, arg) ==
    \/ op \in {"resolve_ours", "resolve_theirs", "abort_op", "stash_drop"}
    \/ op = "reset" /\ arg.mode = "Hard"

LEMMA SafeIsHeld ==
    ASSUME NEW g, NEW h, Safe(g, h)
    PROVE  After(g, h) /\ g.wt \in {Absent, Marked} \cup Held(h)
  BY DEF Safe, Kept, Held, Committed, Born

LEMMA OutcomesKept ==
    ASSUME NEW g, Whole(g), NEW op \in Operations, NEW arg, ArgFits(g, op, arg),
           NEW out \in Outcomes(g, op, arg)
    PROVE  /\ After(g, out.git)
           /\ g.wt \in {Absent, Marked} \cup Held(out.git) \/ Discards(op, arg)
<1> DEFINE Fine == Safe(g, out.git)
           Done == /\ After(g, out.git)
                   /\ g.wt \in {Absent, Marked} \cup Held(out.git) \/ Discards(op, arg)
<1>1. Fine => Done
  BY SafeIsHeld
<1>2. CASE op = "stage"
  BY <1>1, <1>2, IndexOperations DEF Outcomes
<1>3. CASE op = "unstage"
  BY <1>1, <1>3, IndexOperations DEF Outcomes
<1>4. CASE op = "stage_hunk"
  BY <1>1, <1>4, IndexOperations DEF Outcomes
<1>5. CASE op = "unstage_hunk"
  BY <1>1, <1>5, IndexOperations DEF Outcomes
<1>6. CASE op \in {"resolve_ours", "resolve_theirs"}
  BY <1>6, ResolveOperation DEF Outcomes, Discards
<1>7. CASE op = "stash_save"
  BY <1>7, StashSave DEF Outcomes
<1>8. CASE op = "stash_apply"
  BY <1>1, <1>8, StashOperations DEF Outcomes, ArgFits, StashNumbered
<1>9. CASE op = "stash_pop"
  BY <1>1, <1>9, StashOperations DEF Outcomes, ArgFits, StashNumbered
<1>10. CASE op = "stash_drop"
  BY <1>1, <1>10, StashOperations DEF Outcomes, ArgFits, StashNumbered
<1>11. CASE op = "set_upstream"
  BY <1>1, <1>11, RemoteOperations DEF Outcomes, ArgFits, RemoteNamed
<1>12. CASE op \in {"create_branch", "create_and_checkout"}
  BY <1>1, <1>12, BranchOperations DEF Outcomes, ArgFits, BranchNamed
<1>13. CASE op = "delete_branch"
  BY <1>1, <1>13, BranchOperations DEF Outcomes, ArgFits, BranchNamed
<1>14. CASE op = "fetch"
  BY <1>1, <1>14, FetchOperation DEF Outcomes
<1>15. CASE op = "push"
  BY <1>1, <1>15, PushOperation DEF Outcomes
<1>16. CASE op = "create_tag"
  BY <1>1, <1>16, IndexOperations DEF Outcomes
<1>17. CASE op = "delete_tag"
  BY <1>1, <1>17, IndexOperations DEF Outcomes
<1>18. CASE op = "add_remote"
  BY <1>1, <1>18, RemoteOperations DEF Outcomes, ArgFits, RemoteNamed
<1>19. CASE op = "remove_remote"
  BY <1>1, <1>19, RemoteOperations DEF Outcomes, ArgFits, RemoteNamed
<1>20. CASE op = "rename_remote"
  BY <1>1, <1>20, RenameRemote DEF Outcomes, ArgFits
<1>21. CASE op = "commit"
  BY <1>1, <1>21, CommitOperations DEF Outcomes
<1>22. CASE op = "amend_commit"
  BY <1>1, <1>22, CommitOperations DEF Outcomes
<1>23. CASE op = "checkout_branch"
  BY <1>1, <1>23, CheckoutOperation DEF Outcomes, ArgFits, BranchNamed
<1>24. CASE op = "merge_branch"
  BY <1>1, <1>24, MergeOperations DEF Outcomes, ArgFits, BranchNamed
<1>25. CASE op = "pull"
  BY <1>1, <1>25, PullOperation DEF Outcomes, ArgFits
<1>26. CASE op = "continue_op"
  BY <1>1, <1>26, ContinueOperation DEF Outcomes
<1>27. CASE op = "abort_op"
  BY <1>27, AbortOperation DEF Outcomes, Discards
<1>28. CASE op = "cherry_pick"
  BY <1>1, <1>28, MergeOperations DEF Outcomes, ArgFits, Born, Known
<1>29. CASE op = "revert"
  BY <1>1, <1>29, MergeOperations DEF Outcomes, ArgFits, Born, Known
<1>30. CASE op = "reset"
  <2>1. After(g, out.git) /\ (arg.mode # "Hard" => Safe(g, out.git))
    BY <1>30, ResetOperation DEF Outcomes, ArgFits
  <2> QED
    BY <1>1, <1>30, <2>1 DEF Discards
<1>31. CASE op = "interactive_rebase"
  BY <1>1, <1>31, InteractiveRebase DEF Outcomes, ArgFits
<1> HIDE DEF Done
<1>32. Done
  BY <1>2, <1>3, <1>4, <1>5, <1>6, <1>7, <1>8, <1>9, <1>10, <1>11, <1>12, <1>13, <1>14, <1>15,
     <1>16, <1>17, <1>18, <1>19, <1>20, <1>21, <1>22, <1>23, <1>24, <1>25, <1>26, <1>27, <1>28,
     <1>29, <1>30, <1>31
     DEF Operations, IndexWrites, ConflictWrites, StashWrites, RefWrites, TreeWrites, Done
<1> QED
  BY <1>32 DEF Done

-----------------------------------------------------------------------------
(* The repositories a behaviour starts from                                  *)

LEMMA SeqRefine ==
    ASSUME NEW S, NEW T, NEW s \in Seq(S), \A i \in 1 .. Len(s) : s[i] \in T
    PROVE  s \in Seq(T)
<1>1. Len(s) \in Nat /\ s \in [1 .. Len(s) -> S]
  BY LenProperties
<1>2. s \in [1 .. Len(s) -> T]
  BY <1>1
<1> QED
  BY <1>1, <1>2, SeqDef

LEMMA StartWhole ==
    ASSUME NEW g \in StartRepos
    PROVE  Whole(g)
<1> DEFINE n == Newest(g)
<1>1. g \in Repository /\ Sound(g)
  BY ContextAssumption
<1>2. /\ g.at <= n /\ g.other <= n /\ g.rebase.orig <= n /\ g.rebase.at.oid <= n
      /\ \A b \in Branch : /\ g.refs[b] <= n /\ g.server[b] <= n
                          /\ \A r \in Remote : g.tracking[r][b] <= n
      /\ \A e \in Range(g.reflog) : e.oid <= n
      /\ \A l \in Range(g.rebase.todo) : l.oid <= n /\ (l.do # "exec" => l.oid # 0)
      /\ \A c \in 1 .. n : \A p \in Range(Parents(g, c)) : p < c
      /\ g.state # "Clean" => HeadOid(g) # 0
      /\ g.state = "Merging" => g.other # 0
  BY <1>1 DEF Sound
<1>3. DOMAIN g = Fields
  BY <1>1 DEF Repository, Fields
<1>4. /\ g.commits \in Seq([tree : Content, parents : Seq(CommitId)])
      /\ g.head \in Branch \cup {Detached} /\ g.at \in MaybeCommit /\ g.other \in MaybeCommit
      /\ g.refs \in [Branch -> MaybeCommit] /\ g.server \in [Branch -> MaybeCommit]
      /\ g.tracking \in [Remote -> [Branch -> MaybeCommit]]
      /\ g.upstream \in [Branch -> Remote \cup {NoRemote}] /\ g.remotes \subseteq Remote
      /\ g.state \in RepoState /\ g.rebase \in Rebase
      /\ g.stash \in Seq([base : Content, wt : Content])
      /\ g.reflog \in Seq([oid : MaybeCommit, kind : ReflogKind])
  BY <1>1 DEF Repository
<1>5. n \in Nat /\ MaxCommits \in Nat
  BY <1>4, LenProperties, GitAssumption DEF Newest
<1>6. IsSequence(g.commits) /\ IsSequence(g.stash)
  BY <1>4, SeqOfRange DEF IsSequence
<1>7. \A c \in 1 .. n : Rooted(g.commits[c].parents, c - 1)
  <2> SUFFICES ASSUME NEW c \in 1 .. n
               PROVE  Rooted(Parents(g, c), c - 1)
    BY DEF Parents
  <2>1. Parents(g, c) \in Seq(CommitId)
    <3>1. g.commits[c] \in [tree : Content, parents : Seq(CommitId)]
      BY <1>4, ElementOfSeq DEF Newest
    <3> QED
      BY <3>1 DEF Parents
  <2> DEFINE ps == Parents(g, c)
  <2> HIDE DEF ps
  <2>2. ps \in Seq(CommitId) /\ DOMAIN ps = 1 .. Len(ps) /\ Len(ps) \in Nat
    BY <2>1, LenProperties DEF ps
  <2>3. \A i \in 1 .. Len(ps) : ps[i] \in 1 .. c - 1
    <3> SUFFICES ASSUME NEW i \in 1 .. Len(ps)
                 PROVE  ps[i] \in 1 .. c - 1
      OBVIOUS
    <3>1. ps[i] \in CommitId /\ ps[i] \in Range(ps)
      BY <2>2, ElementOfSeq DEF Range
    <3>2. ps[i] < c
      BY <1>2, <3>1 DEF ps
    <3> QED
      BY <1>5, <3>1, <3>2 DEF CommitId
  <2>4. ps \in Seq(1 .. c - 1)
    BY <2>2, <2>3, SeqRefine
  <2> QED
    BY <2>4 DEF Rooted, ps
<1>8. g.at \in 0 .. n /\ g.other \in 0 .. n
  BY <1>2, <1>4, <1>5 DEF MaybeCommit
<1>9. g.refs \in [Branch -> 0 .. n] /\ g.server \in [Branch -> 0 .. n]
  BY <1>2, <1>4, <1>5 DEF MaybeCommit
<1>10. g.tracking \in [Remote -> [Branch -> 0 .. n]]
  <2>1. \A r \in Remote : g.tracking[r] \in [Branch -> 0 .. n]
    BY <1>2, <1>4, <1>5 DEF MaybeCommit
  <2> QED
    BY <1>4, <2>1
<1>11. g.reflog \in Seq(Logs(n))
  <2>1. \A i \in 1 .. Len(g.reflog) : g.reflog[i] \in Range(g.reflog)
    BY <1>4, LenProperties DEF Range
  <2>2. \A i \in 1 .. Len(g.reflog) : g.reflog[i] \in [oid : MaybeCommit, kind : ReflogKind]
    BY <1>4, ElementOfSeq
  <2>3. \A i \in 1 .. Len(g.reflog) : g.reflog[i].oid <= n
    BY <1>2, <2>1
  <2>4. \A i \in 1 .. Len(g.reflog) : g.reflog[i] \in Logs(n)
    BY <1>5, <2>2, <2>3 DEF Logs, MaybeCommit
  <2> QED
    BY <1>4, <2>4, SeqRefine
<1>12. g.rebase \in Rebases(n)
  <2> DEFINE r == g.rebase  todo == r.todo
  <2>1. /\ r \in Rebase /\ todo \in Seq(TodoLine) /\ r.at \in TodoLine /\ r.orig \in MaybeCommit
    BY <1>4 DEF Rebase
  <2>2. \A i \in 1 .. Len(todo) : todo[i] \in Range(todo) /\ todo[i] \in TodoLine
    BY <2>1, LenProperties, ElementOfSeq DEF Range
  <2>3. \A i \in 1 .. Len(todo) : todo[i].oid <= n /\ (todo[i].do # "exec" => todo[i].oid # 0)
    BY <1>2, <2>2
  <2>4. \A i \in 1 .. Len(todo) : todo[i] \in Lines(n)
    BY <1>5, <2>2, <2>3 DEF Lines, TodoLine, MaybeCommit
  <2>5. todo \in Seq(Lines(n))
    BY <2>1, <2>4, SeqRefine
  <2>6. r.orig <= n /\ r.at.oid <= n
    BY <1>2
  <2>7. r.orig \in 0 .. n /\ r.at \in [do : TodoAction, oid : 0 .. n]
    BY <1>5, <2>1, <2>6 DEF MaybeCommit, TodoLine
  <2> QED
    BY <2>1, <2>5, <2>7 DEF Rebase, Rebases
<1> QED
  BY <1>2, <1>3, <1>4, <1>6, <1>7, <1>8, <1>9, <1>10, <1>11, <1>12 DEF Whole, Past, Names, Newest


-----------------------------------------------------------------------------
(* What every state of the context satisfies, however many clients it has    *)

NavType(g) == [timeline : Seq([oid : Born(g), kind : UndoKind]), cursor : Nat]

WriteFits(g, t) ==
    /\ DOMAIN t = {"pc", "op", "arg", "before"}
    /\ t.op \in Operations /\ ArgFits(g, t.op, t.arg) /\ t.before \in Known(g)
NavFits(g, t) ==
    /\ DOMAIN t = {"pc", "op", "index", "target", "hard", "edited"}
    /\ t.op \in NavMoves /\ t.index \in Nat /\ t.target \in Born(g)
HintFits(g, t) ==
    t.op \in NavMoves \cup {"peek"} /\ t.index \in Nat /\ t.head \in Born(g)
TaskFits(g, t) ==
    /\ "pc" \in DOMAIN t
    /\ t.pc \in {"run", "checkout"} => WriteFits(g, t)
    /\ t.pc = "checkout" => t.op = "create_and_checkout"
    /\ t.pc = "drop" => WriteFits(g, t) \/ NavFits(g, t)
    /\ t.pc = "record" => WriteFits(g, t) /\ IsRecorded(t.op)
    /\ t.pc \in {"check", "reset", "moved"} => NavFits(g, t)
    /\ t.pc \in {"hint", "pick"} => HintFits(g, t)
    /\ t.pc = "pick" => t.boot.oid \in Known(g) /\ t.boot.kind \in UndoKind
TasksFit(g, ts) == ts = [c \in Client |-> ts[c]] /\ \A c \in Client : TaskFits(g, ts[c])

Valid == Whole(git) /\ nav \in NavType(git) /\ TasksFit(git, task)

LEMMA FitsGrow ==
    ASSUME NEW g, Whole(g), NEW h, After(g, h)
    PROVE  /\ NavType(g) \subseteq NavType(h)
           /\ \A t : TaskFits(g, t) => TaskFits(h, t)
<1>1. Born(g) \subseteq Born(h) /\ Known(g) \subseteq Known(h)
  BY CommittedGrows
<1>2. NavType(g) \subseteq NavType(h)
  <2>1. [oid : Born(g), kind : UndoKind] \subseteq [oid : Born(h), kind : UndoKind]
    BY <1>1
  <2>2. Seq([oid : Born(g), kind : UndoKind]) \subseteq Seq([oid : Born(h), kind : UndoKind])
    BY <2>1, SeqMonotonic
  <2> QED
    BY <2>2 DEF NavType
<1>3. ASSUME NEW t
      PROVE  /\ WriteFits(g, t) => WriteFits(h, t)
             /\ NavFits(g, t) => NavFits(h, t)
             /\ HintFits(g, t) => HintFits(h, t)
  <2>1. ASSUME WriteFits(g, t)
        PROVE  ArgFits(h, t.op, t.arg)
    BY <2>1, ArgsGrow DEF WriteFits
  <2> QED
    BY <1>1, <2>1 DEF WriteFits, NavFits, HintFits
<1>4. ASSUME NEW t, TaskFits(g, t)
      PROVE  TaskFits(h, t)
  BY <1>1, <1>3, <1>4 DEF TaskFits
<1> QED
  BY <1>2, <1>4

(* A report or an invalidation only marks the reads it overtakes.           *)
LEMMA RacedFits ==
    ASSUME NEW g, NEW t, TaskFits(g, t), NEW kinds
    PROVE  /\ TaskFits(g, Raced(kinds, t))
           /\ t.pc \notin {"read", "fill"} => Raced(kinds, t) = t
           /\ Raced(kinds, t).pc = t.pc
<1>1. CASE Raced(kinds, t) = t
  BY <1>1
<1>2. CASE Raced(kinds, t) # t
  <2> DEFINE u == Raced(kinds, t)
  <2>1. t.pc \in {"read", "fill"} /\ u = [t EXCEPT !.raced = TRUE]
    BY <1>2 DEF Raced
  <2>2. DOMAIN u = DOMAIN t /\ u.pc = t.pc
    BY <2>1 DEF TaskFits
  <2> HIDE DEF u
  <2>3. TaskFits(g, u)
    BY <2>1, <2>2 DEF TaskFits
  <2> QED
    BY <2>1, <2>2, <2>3 DEF u
<1> QED
  BY <1>1, <1>2

LEMMA PcOnly ==
    ASSUME NEW t, "pc" \in DOMAIN t, NEW p
    PROVE  LET u == [t EXCEPT !.pc = p] IN
           /\ DOMAIN u = DOMAIN t /\ u.pc = p
           /\ \A f \in DOMAIN t \ {"pc"} : u[f] = t[f]
  OBVIOUS

(* One client's task changes, the repository grows.                         *)
LEMMA TaskReplaced ==
    ASSUME NEW g, Whole(g), NEW h, After(g, h), NEW ts, TasksFit(g, ts), NEW c \in Client,
           NEW u, TaskFits(h, u), NEW tt, tt = [d \in Client |-> tt[d]], tt[c] = u,
           \A d \in Client \ {c} : tt[d] = ts[d]
    PROVE  TasksFit(h, tt)
<1>1. \A d \in Client : TaskFits(h, ts[d])
  BY FitsGrow DEF TasksFit
<1>2. \A d \in Client : TaskFits(h, tt[d])
  BY <1>1
<1> QED
  BY <1>2 DEF TasksFit

LEMMA IdleFits ==
    ASSUME NEW g
    PROVE  TaskFits(g, Idle)
  BY DEF TaskFits, Idle

(* The timeline after each of its operations.                               *)
LEMMA PointSeq ==
    ASSUME NEW S, NEW a \in S, NEW b \in S
    PROVE  <<a>> \in Seq(S) /\ <<a, b>> \in Seq(S) /\ Len(<<a>>) = 1 /\ Len(<<a, b>>) = 2
           /\ <<a>>[1] = a /\ <<a, b>>[2] = b
  OBVIOUS

LEMMA SyncAligns ==
    ASSUME NEW g, Whole(g), NEW n \in NavType(g), NEW head \in Born(g), NEW boot,
           boot.oid \in Known(g), boot.kind \in UndoKind
    PROVE  sync(n, head, boot) \in NavType(g) /\ is_aligned(sync(n, head, boot), head)
<1> DEFINE S == [oid : Born(g), kind : UndoKind]
<1>1. CASE is_aligned(n, head)
  BY <1>1 DEF sync
<1>2. ASSUME NEW k \in UndoKind, NEW o \in Born(g)
      PROVE  Point(o, k) \in S /\ Point(o, k).oid = o /\ BasePoint(o) \in S /\ BasePoint(o).oid = o
  BY DEF Point, BasePoint, UndoKind
<1>3. CASE ~ is_aligned(n, head) /\ boot.oid = NoOid
  <2> DEFINE a == BasePoint(head)
  <2>1. a \in S /\ a.oid = head
    BY <1>2 DEF UndoKind
  <2>2. sync(n, head, boot) = [timeline |-> <<a>>, cursor |-> 0]
    BY <1>3 DEF sync
  <2> HIDE DEF S, a
  <2>3. <<a>> \in Seq(S) /\ Len(<<a>>) = 1 /\ <<a>>[1] = a
    BY <2>1, PointSeq
  <2> QED
    BY <2>1, <2>2, <2>3 DEF NavType, is_aligned, InTimeline, At, S
<1>4. CASE ~ is_aligned(n, head) /\ boot.oid # NoOid
  <2> DEFINE a == BasePoint(boot.oid)  b == Point(head, boot.kind)
  <2>1. boot.oid \in Born(g)
    BY <1>4, ContextAssumption, NewestType DEF Known, Born
  <2>2. a \in S /\ b \in S /\ b.oid = head
    BY <1>2, <2>1
  <2>3. sync(n, head, boot) = [timeline |-> <<a, b>>, cursor |-> 1]
    BY <1>4 DEF sync
  <2> HIDE DEF S, a, b
  <2>4. <<a, b>> \in Seq(S) /\ Len(<<a, b>>) = 2 /\ <<a, b>>[2] = b
    BY <2>2, PointSeq
  <2> QED
    BY <2>2, <2>3, <2>4 DEF NavType, is_aligned, InTimeline, At, S
<1> QED
  BY <1>1, <1>3, <1>4

LEMMA RecordAligns ==
    ASSUME NEW g, Whole(g), NEW n \in NavType(g), NEW before \in Known(g), NEW after \in Born(g),
           NEW k \in UndoKind
    PROVE  /\ record(n, before, after, k) \in NavType(g)
           /\ before # after => is_aligned(record(n, before, after, k), after)
<1> DEFINE S == [oid : Born(g), kind : UndoKind]  b == Point(after, k)
<1>1. b \in S /\ b.oid = after /\ n.timeline \in Seq(S) /\ n.cursor \in Nat
  BY DEF Point, NavType
<1>2. CASE before = after
  BY <1>2 DEF record
<1>3. ASSUME before # after, NEW line \in Seq(S), Len(line) \in Nat \ {0}, line[Len(line)] = b,
             record(n, before, after, k) = [timeline |-> line, cursor |-> Len(line) - 1]
      PROVE  record(n, before, after, k) \in NavType(g) /\ is_aligned(record(n, before, after, k), after)
  <2>1. Len(line) - 1 \in Nat /\ Len(line) - 1 < Len(line) /\ (Len(line) - 1) + 1 = Len(line)
    BY <1>3
  <2> HIDE DEF b, S
  <2> QED
    BY <1>1, <1>3, <2>1 DEF NavType, is_aligned, InTimeline, At, S
<1>4. CASE before # after /\ before # NoOid /\ is_aligned(n, before)
  <2> DEFINE cut == SubSeq(n.timeline, 1, n.cursor + 1)  line == Append(cut, b)
  <2> HIDE DEF S, b
  <2>1. n.cursor + 1 \in 1 .. Len(n.timeline)
    BY <1>1, <1>4, LenProperties DEF is_aligned, InTimeline
  <2>2. cut \in Seq(S)
    BY <1>1, <2>1, SubSeqProperties
  <2> HIDE DEF cut
  <2>3. line \in Seq(S) /\ Len(line) = Len(cut) + 1 /\ line[Len(cut) + 1] = b /\ Len(cut) \in Nat
    BY <1>1, <2>2, AppendProperties, LenProperties
  <2>4. record(n, before, after, k) = [timeline |-> line, cursor |-> Len(line) - 1]
    BY <1>4 DEF record, cut, b
  <2>5. Len(line) \in Nat \ {0} /\ line[Len(line)] = b
    <3> HIDE DEF line
    <3> QED BY <2>3
  <2> HIDE DEF line
  <2>6. before # after
    BY <1>4
  <2> QED
    BY <1>3, <2>3, <2>4, <2>5, <2>6
<1>5. CASE before # after /\ before # NoOid /\ ~ is_aligned(n, before)
  <2> DEFINE a == BasePoint(before)
  <2>1. a \in S
    BY <1>5, ContextAssumption, NewestType DEF Known, Born, BasePoint, Point, UndoKind
  <2>2. record(n, before, after, k) = [timeline |-> <<a, b>>, cursor |-> Len(<<a, b>>) - 1]
    BY <1>5 DEF record
  <2> HIDE DEF S, a, b
  <2>3. <<a, b>> \in Seq(S) /\ Len(<<a, b>>) = 2 /\ <<a, b>>[2] = b
    BY <1>1, <2>1, PointSeq
  <2> DEFINE line == <<a, b>>
  <2>4. line \in Seq(S) /\ Len(line) \in Nat \ {0} /\ line[Len(line)] = b
    BY <2>3
  <2>5. before # after
    BY <1>5
  <2>6. record(n, before, after, k) = [timeline |-> line, cursor |-> Len(line) - 1]
    BY <2>2
  <2> HIDE DEF line
  <2> QED
    BY <1>3, <2>4, <2>5, <2>6
<1>6. CASE before # after /\ before = NoOid
  <2>1. record(n, before, after, k) = [timeline |-> <<b>>, cursor |-> Len(<<b>>) - 1]
    BY <1>6 DEF record
  <2> HIDE DEF S, b
  <2>2. <<b>> \in Seq(S) /\ Len(<<b>>) = 1 /\ <<b>>[1] = b
    BY <1>1, PointSeq
  <2> DEFINE line == <<b>>
  <2>3. line \in Seq(S) /\ Len(line) \in Nat \ {0} /\ line[Len(line)] = b
    BY <2>2
  <2>4. before # after
    BY <1>6
  <2>5. record(n, before, after, k) = [timeline |-> line, cursor |-> Len(line) - 1]
    BY <2>1
  <2> HIDE DEF line
  <2> QED
    BY <1>3, <2>3, <2>4, <2>5
<1> QED
  BY <1>2, <1>4, <1>5, <1>6

LEMMA MovesType ==
    ASSUME NEW g, NEW n \in NavType(g), NEW i \in Nat
    PROVE  commit_undo(n) \in NavType(g) /\ commit_redo(n) \in NavType(g) /\ commit_goto(n, i) \in NavType(g)
  BY DEF NavType, commit_undo, commit_redo, commit_goto

(* The hint a timeline is started with names a commit there is, or none.    *)
LEMMA HintType ==
    ASSUME NEW g, Whole(g)
    PROVE  bootstrap_hint(g).oid \in Known(g) /\ bootstrap_hint(g).kind \in UndoKind
<1>1. NoHint.oid \in Known(g) /\ NoHint.kind \in UndoKind
  BY NewestType DEF NoHint, Known, UndoKind
<1>2. ASSUME Len(g.reflog) >= 2
      PROVE  g.reflog[2].oid \in Known(g)
  <2>1. g.reflog[2] \in Logs(Newest(g))
    BY <1>2, LenProperties, ElementOfSeq DEF Whole, Names
  <2> QED
    BY <2>1 DEF Logs, Known
<1>3. \A k : classify_undoable(k) # "no" => classify_undoable(k) \in UndoKind
  BY DEF classify_undoable, UndoKind
<1>4. Len(g.reflog) \in Nat
  BY LenProperties DEF Whole, Names
<1> QED
  BY <1>1, <1>2, <1>3, <1>4 DEF bootstrap_hint

-----------------------------------------------------------------------------
(* With one client: where an undo, a redo or a jump is going, and what its   *)
(* hard reset will find                                                      *)

OneClient == \A c, d \in Client : c = d

Resetting == {"check", "reset", "moved"}
Aimed(n, t) ==
    t.pc \in Resetting =>
      /\ InTimeline(n, t.index) /\ At(n, t.index).oid = t.target
      /\ t.op = "undo" => t.index = n.cursor - 1
      /\ t.op = "redo" => t.index = n.cursor + 1
Swept(g, t) == t.pc = "reset" /\ t.hard /\ ~ t.edited => g.wt \in {Absent} \cup Committed(g)

Single ==
    /\ outside \in Nat
    /\ tracked => is_aligned(nav, HeadOid(git))
    /\ \A c \in Client : Aimed(nav, task[c]) /\ Swept(git, task[c])
Inv == Valid /\ Single

(* A step of the caches or of a command that leaves repository and timeline. *)
Quiet(g, t, u) == TaskFits(g, u) /\ (u = t \/ u.pc \notin Resetting)

LEMMA QuietStep ==
    ASSUME Valid, UNCHANGED <<git, nav>>,
           task' = [d \in Client |-> task'[d]], \A d \in Client : Quiet(git, task[d], task'[d])
    PROVE  /\ Valid'
           /\ Single /\ tracked' = tracked /\ outside' \in {outside, outside + 1} => Single'
<1>1. Valid'
  BY DEF Valid, TasksFit, Quiet
<1>2. ASSUME Single, tracked' = tracked, outside' \in {outside, outside + 1}
      PROVE  Single'
  <2>1. ASSUME NEW d \in Client
        PROVE  Aimed(nav, task'[d]) /\ Swept(git, task'[d])
    <3>1. task'[d] = task[d] \/ task'[d].pc \notin Resetting
      BY DEF Quiet
    <3> QED
      BY <1>2, <3>1 DEF Single, Aimed, Swept, Resetting
  <2> QED
    BY <1>2, <2>1 DEF Single
<1> QED
  BY <1>1, <1>2

LEMMA QuietReplaced ==
    ASSUME Valid, NEW c \in Client, NEW u, TaskFits(git, u), u.pc \notin Resetting,
           task' = [task EXCEPT ![c] = u]
    PROVE  task' = [d \in Client |-> task'[d]] /\ \A d \in Client : Quiet(git, task[d], task'[d])
<1>1. task = [d \in Client |-> task[d]] /\ \A d \in Client : TaskFits(git, task[d])
  BY DEF Valid, TasksFit
<1>2. /\ task' = [d \in Client |-> task'[d]] /\ task'[c] = u
      /\ \A d \in Client \ {c} : task'[d] = task[d]
  BY <1>1
<1> QED
  BY <1>1, <1>2 DEF Quiet

LEMMA QuietRaced ==
    ASSUME NEW g, NEW t, TaskFits(g, t), NEW kinds
    PROVE  Quiet(g, t, Raced(kinds, t))
<1>1. /\ TaskFits(g, Raced(kinds, t)) /\ Raced(kinds, t).pc = t.pc
      /\ t.pc \notin {"read", "fill"} => Raced(kinds, t) = t
  BY RacedFits
<1> QED
  BY <1>1 DEF Quiet, Resetting

LEMMA ReadingFits ==
    ASSUME NEW g, NEW k, NEW skip, NEW lanes
    PROVE  TaskFits(g, Reading(k, skip, lanes)) /\ Reading(k, skip, lanes).pc = "read"
  BY DEF TaskFits, Reading

LEMMA ReadsQuiet ==
    ASSUME Valid, NEW c \in Client, Reads(c)
    PROVE  /\ UNCHANGED <<git, nav, outside, tracked>> /\ task' = [d \in Client |-> task'[d]]
           /\ \A d \in Client : Quiet(git, task[d], task'[d])
<1>1. \A d \in Client : TaskFits(git, task[d])
  BY DEF Valid, TasksFit
<1>2. ASSUME NEW k, NEW skip, NEW lanes, ReadMiss(c, k, Reading(k, skip, lanes))
      PROVE  /\ UNCHANGED <<git, nav, outside, tracked>> /\ task' = [d \in Client |-> task'[d]]
             /\ \A d \in Client : Quiet(git, task[d], task'[d])
  <2> DEFINE Next1(d) ==
        IF d = c THEN Reading(k, skip, lanes)
        ELSE IF task[d].pc = "read" /\ task[d].key = k /\ k \in GenKeys
             THEN [task[d] EXCEPT !.cancelled = TRUE] ELSE task[d]
  <2>1. task' = [d \in Client |-> Next1(d)] /\ UNCHANGED <<git, nav, outside, tracked>>
    BY <1>2 DEF ReadMiss, ghosts
  <2>2. ASSUME NEW d \in Client
        PROVE  Quiet(git, task[d], Next1(d))
    <3>1. CASE d = c
      BY <3>1, ReadingFits DEF Quiet, Resetting
    <3>2. CASE d # c /\ Next1(d) = task[d]
      BY <1>1, <3>2 DEF Quiet
    <3>3. CASE d # c /\ Next1(d) # task[d]
      <4> DEFINE u == [task[d] EXCEPT !.cancelled = TRUE]
      <4>1. task[d].pc = "read" /\ Next1(d) = u
        BY <3>3
      <4>2. "pc" \in DOMAIN u /\ u.pc = "read"
        BY <1>1, <4>1 DEF TaskFits
      <4> HIDE DEF u
      <4> QED
        BY <4>1, <4>2 DEF Quiet, TaskFits, Resetting
    <3> QED
      BY <3>1, <3>2, <3>3
  <2> HIDE DEF Next1
  <2> QED
    BY <2>1, <2>2
<1>3. ASSUME NEW k \in Keys, ReadBegin(c, k)
      PROVE  \E skip, lanes : ReadMiss(c, k, Reading(k, skip, lanes))
  BY <1>3 DEF ReadBegin
<1>4. ASSUME GraphBegin(c)
      PROVE  \E skip, lanes : ReadMiss(c, "graph", Reading("graph", skip, lanes))
  BY <1>4 DEF GraphBegin
<1>5. ASSUME refresh_status(c)
      PROVE  /\ UNCHANGED <<git, nav, outside, tracked>> /\ task' = [d \in Client |-> task'[d]]
             /\ \A d \in Client : Quiet(git, task[d], task'[d])
  <2> DEFINE Next1(d) == IF d = c THEN Reading("status", 0, <<>>) ELSE Raced({"WorkingTree"}, task[d])
  <2>1. task' = [d \in Client |-> Next1(d)] /\ UNCHANGED <<git, nav, outside, tracked>>
    BY <1>5 DEF refresh_status
  <2>2. ASSUME NEW d \in Client
        PROVE  Quiet(git, task[d], Next1(d))
    <3>1. CASE d = c
      BY <3>1, ReadingFits DEF Quiet, Resetting
    <3>2. CASE d # c
      BY <1>1, <3>2, QuietRaced
    <3> QED
      BY <3>1, <3>2
  <2> HIDE DEF Next1
  <2> QED
    BY <2>1, <2>2
<1>6. ASSUME ReadRepository(c) \/ Fill(c) \/ GraphFill(c)
      PROVE  /\ UNCHANGED <<git, nav, outside, tracked>>
             /\ \E u : /\ TaskFits(git, u) /\ u.pc \notin Resetting
                       /\ task' = [task EXCEPT ![c] = u]
  <2>1. CASE ReadRepository(c)
    <3> DEFINE t == task[c]
               answer == IF t.key = "graph" THEN commit_graph_page(git, t.skip, PageSize, t.lanes) ELSE View(git, t.key)
               filled == [pc |-> "fill", key |-> t.key, val |-> answer, skip |-> t.skip, raced |-> t.raced]
               u == IF t.cancelled THEN Idle ELSE filled
    <3>1. task' = [task EXCEPT ![c] = u] /\ UNCHANGED <<git, nav, outside, tracked>>
      BY <2>1 DEF ReadRepository, ghosts
    <3> HIDE DEF answer
    <3>2. TaskFits(git, filled) /\ filled.pc = "fill"
      BY DEF TaskFits
    <3>3. TaskFits(git, u) /\ u.pc \notin Resetting
      <4> HIDE DEF filled
      <4> QED BY <3>2, IdleFits DEF Idle, Resetting
    <3> HIDE DEF u
    <3> QED
      BY <3>1, <3>3
  <2>2. CASE Fill(c) \/ GraphFill(c)
    <3>1. task' = [task EXCEPT ![c] = Idle] /\ UNCHANGED <<git, nav, outside, tracked>>
      BY <2>2 DEF Fill, GraphFill
    <3> QED
      BY <3>1, IdleFits DEF Idle, Resetting
  <2> QED
    BY <1>6, <2>1, <2>2
<1>7. CASE ReadRepository(c) \/ Fill(c) \/ GraphFill(c)
  BY <1>6, <1>7, QuietReplaced
<1> QED
  BY <1>2, <1>3, <1>4, <1>5, <1>7 DEF Reads

LEMMA WatchingQuiet ==
    ASSUME Valid, Watching
    PROVE  /\ UNCHANGED <<git, nav, tracked>> /\ task' = [d \in Client |-> task'[d]]
           /\ \A d \in Client : Quiet(git, task[d], task'[d])
           /\ outside' \in {outside, outside + 1}
<1>1. task = [d \in Client |-> task[d]] /\ \A d \in Client : TaskFits(git, task[d])
  BY DEF Valid, TasksFit
<1>2. ASSUME NEW kinds, task' = [d \in Client |-> Raced(kinds, task[d])]
      PROVE  task' = [d \in Client |-> task'[d]] /\ \A d \in Client : Quiet(git, task[d], task'[d])
  <2>1. \A d \in Client : Quiet(git, task[d], Raced(kinds, task[d]))
    BY <1>1, QuietRaced
  <2> QED
    BY <1>2, <2>1
<1>3. CASE WatcherFires
  <2>1. \E kinds : task' = [d \in Client |-> Raced(kinds, task[d])]
    BY <1>3 DEF WatcherFires
  <2>2. UNCHANGED <<git, nav, outside, tracked>>
    BY <1>3 DEF WatcherFires
  <2> QED
    BY <1>2, <2>1, <2>2
<1>4. CASE watch_repo
  BY <1>2, <1>4 DEF watch_repo
<1>5. CASE OpenOther
  BY <1>1, <1>5 DEF OpenOther, Quiet
<1> QED
  BY <1>3, <1>4, <1>5 DEF Watching

-----------------------------------------------------------------------------
(* The steps of a command                                                    *)

Spared ==
    \/ git.wt \in {Absent, Marked} \cup Held(git')
    \/ outside' # outside
    \/ \E c \in Client : task'[c] # task[c] /\ Discarding(c)
Upheld == Valid' /\ (OneClient /\ Single => Single' /\ Spared)

LEMMA QuietUpheld ==
    ASSUME Valid, UNCHANGED <<git, nav, tracked>>, outside' \in {outside, outside + 1},
           task' = [d \in Client |-> task'[d]], \A d \in Client : Quiet(git, task[d], task'[d])
    PROVE  Upheld
<1>1. Valid' /\ (Single => Single')
  BY QuietStep
<1>2. Spared
  BY DEF Spared, Held
<1> QED
  BY <1>1, <1>2 DEF Upheld

LEMMA OneTask ==
    ASSUME Valid, NEW c \in Client, NEW u, task' = [task EXCEPT ![c] = u]
    PROVE  /\ task' = [d \in Client |-> task'[d]] /\ task'[c] = u
           /\ \A d \in Client \ {c} : task'[d] = task[d]
<1>1. task = [d \in Client |-> task[d]]
  BY DEF Valid, TasksFit
<1> QED
  BY <1>1

LEMMA ActingStep ==
    ASSUME Valid, NEW c \in Client, NEW u, task' = [task EXCEPT ![c] = u],
           After(git, git'), nav' \in NavType(git'), TaskFits(git', u), outside' = outside,
           Single => /\ tracked' => is_aligned(nav', HeadOid(git'))
                     /\ Aimed(nav', u) /\ Swept(git', u)
                     /\ Spared
    PROVE  Upheld
<1>1. /\ task' = [d \in Client |-> task'[d]] /\ task'[c] = u
      /\ \A d \in Client \ {c} : task'[d] = task[d]
  BY OneTask
<1>2. \A d \in Client : TaskFits(git', task[d])
  BY FitsGrow DEF Valid, TasksFit
<1>3. Valid'
  BY <1>1, <1>2 DEF Valid, TasksFit, After
<1>4. ASSUME OneClient, Single
      PROVE  Single' /\ Spared
  <2>1. \A d \in Client : d = c
    BY <1>4 DEF OneClient
  <2>2. \A d \in Client : Aimed(nav', task'[d]) /\ Swept(git', task'[d])
    BY <1>1, <1>4, <2>1
  <2> QED
    BY <1>4, <2>2 DEF Single
<1> QED
  BY <1>3, <1>4 DEF Upheld

LEMMA ArgsFit ==
    ASSUME Whole(git), NEW op \in Operations, NEW arg \in Args(op)
    PROVE  ArgFits(git, op, arg)
<1>1. Len(git.commits) = Newest(git) /\ Len(git.stash) \in Nat
  BY LenProperties DEF Newest, Whole, IsSequence
<1>2. CASE op \in BranchNamed
  BY <1>2 DEF Args, ArgFits, BranchNamed, StashNumbered, RemoteNamed
<1>3. CASE op = "pull"
  BY <1>3 DEF Args, ArgFits, BranchNamed, StashNumbered, RemoteNamed
<1>4. CASE op = "reset"
  <2>1. arg \in [to : Born(git), mode : {"Soft", "Mixed", "Hard"}]
    BY <1>1, <1>4 DEF Args, Born
  <2> QED
    BY <1>4, <2>1 DEF ArgFits, BranchNamed, StashNumbered, RemoteNamed
<1>5. CASE op = "interactive_rebase"
  <2>1. Chain(git) # <<>> /\ arg \in RebaseArgs(git)
    BY <1>5 DEF Args
  <2>2. arg.onto \in Born(git) /\ arg.steps \in Steps(Newest(git))
    BY <2>1, RebaseArgsType
  <2> QED
    BY <1>5, <2>2 DEF ArgFits, BranchNamed, StashNumbered, RemoteNamed
<1>6. CASE op \in StashNumbered
  <2>1. arg \in 1 .. (Len(git.stash) + 1)
    BY <1>6 DEF Args, StashNumbered
  <2> QED
    BY <1>1, <1>6, <2>1 DEF ArgFits, BranchNamed, StashNumbered, RemoteNamed
<1>7. CASE op \in RemoteNamed
  BY <1>7 DEF Args, ArgFits, BranchNamed, StashNumbered, RemoteNamed
<1>8. CASE op = "rename_remote"
  <2>1. arg \in [old : Remote, new : Remote]
    BY <1>8 DEF Args
  <2> QED
    BY <1>8, <2>1 DEF ArgFits, BranchNamed, StashNumbered, RemoteNamed
<1>9. CASE op \in {"cherry_pick", "revert"}
  <2>1. arg \in Born(git)
    BY <1>1, <1>9 DEF Args, Born
  <2> QED
    BY <1>9, <2>1 DEF ArgFits, BranchNamed, StashNumbered, RemoteNamed
<1>10. CASE op \notin BranchNamed \cup StashNumbered \cup RemoteNamed
                       \cup {"pull", "cherry_pick", "revert", "reset", "interactive_rebase", "rename_remote"}
  BY <1>10 DEF ArgFits
<1> QED
  BY <1>2, <1>3, <1>4, <1>5, <1>6, <1>7, <1>8, <1>9, <1>10

LEMMA WriteBeginUpheld ==
    ASSUME Valid, NEW c \in Client, NEW op \in Writes, WriteBegin(c, op)
    PROVE  Upheld
<1>1. PICK arg \in Args(op) :
        task' = [task EXCEPT ![c] = [pc |-> "run", op |-> op, arg |-> arg, before |-> HeadOid(git)]]
  BY DEF WriteBegin
<1> DEFINE u == [pc |-> "run", op |-> op, arg |-> arg, before |-> HeadOid(git)]
<1>2. op \in Operations /\ Whole(git)
  BY ContextAssumption DEF Valid
<1>3. ArgFits(git, op, arg) /\ HeadOid(git) \in Known(git)
  BY <1>2, ArgsFit, NewestType
<1>4. TaskFits(git, u) /\ u.pc \notin Resetting
  BY <1>2, <1>3 DEF TaskFits, WriteFits, Resetting
<1>5. task' = [task EXCEPT ![c] = u]
  BY <1>1
<1> HIDE DEF u
<1>6. task' = [d \in Client |-> task'[d]] /\ \A d \in Client : Quiet(git, task[d], task'[d])
  BY <1>4, <1>5, QuietReplaced
<1>7. UNCHANGED <<git, nav, tracked, outside>>
  BY DEF WriteBegin, ghosts
<1> QED
  BY <1>6, <1>7, QuietUpheld

LEMMA RunWriteUpheld ==
    ASSUME Valid, NEW c \in Client, RunWrite(c)
    PROVE  Upheld
<1> DEFINE t == task[c]
<1>1. /\ Whole(git) /\ nav \in NavType(git) /\ TaskFits(git, t)
      /\ t.pc = "run" /\ WriteFits(git, t) /\ t.op \in Operations /\ ArgFits(git, t.op, t.arg)
  BY DEF Valid, TasksFit, RunWrite, TaskFits, WriteFits
<1>2. PICK out \in Outcomes(git, t.op, t.arg) :
        /\ git' = out.git
        /\ task' = [task EXCEPT ![c] =
             IF out.res = "Ok" /\ AfterRun(t.op) # "idle" THEN [@ EXCEPT !.pc = AfterRun(t.op)] ELSE Idle]
        /\ tracked' = (tracked /\ (HeadOid(out.git) = HeadOid(git)))
  BY DEF RunWrite, Becomes
<1>3. /\ After(git, out.git)
      /\ git.wt \in {Absent, Marked} \cup Held(out.git) \/ Discards(t.op, t.arg)
  <2> HIDE DEF t
  <2> QED BY <1>1, <1>2, OutcomesKept
<1> DEFINE next == [t EXCEPT !.pc = AfterRun(t.op)]
           u == IF out.res = "Ok" /\ AfterRun(t.op) # "idle" THEN next ELSE Idle
<1>4. TaskFits(git', t)
  BY <1>1, <1>2, <1>3, FitsGrow
<1>5. TaskFits(git', u) /\ u.pc \notin Resetting /\ u.pc # "run"
  <2>1. CASE u = Idle
    <3> HIDE DEF next, u
    <3> QED BY <2>1, IdleFits DEF Idle, Resetting
  <2>2. CASE u = next /\ AfterRun(t.op) # "idle"
    <3>1. /\ DOMAIN next = DOMAIN t /\ next.pc = AfterRun(t.op)
          /\ \A f \in DOMAIN t \ {"pc"} : next[f] = t[f]
      <4> HIDE DEF t
      <4> QED BY <1>1, PcOnly DEF TaskFits
    <3> HIDE DEF next
    <3>2. WriteFits(git', t)
      BY <1>1, <1>4 DEF TaskFits
    <3>3. /\ DOMAIN next = {"pc", "op", "arg", "before"}
          /\ next.op = t.op /\ next.arg = t.arg /\ next.before = t.before
      BY <3>1, <3>2 DEF WriteFits
    <3>4. WriteFits(git', next)
      BY <3>2, <3>3 DEF WriteFits
    <3>5. next.pc \in {"checkout", "drop"} /\ (next.pc = "checkout" => next.op = "create_and_checkout")
      BY <2>2, <3>1, <3>3 DEF AfterRun
    <3>6. TaskFits(git', next) /\ next.pc \notin Resetting /\ next.pc # "run"
      BY <3>3, <3>4, <3>5 DEF TaskFits, Resetting
    <3> HIDE DEF u
    <3> QED
      BY <2>2, <3>6
  <2> QED
    BY <2>1, <2>2
<1>6. task' = [task EXCEPT ![c] = u]
  BY <1>2
<1> HIDE DEF u, next
<1>7. task'[c] = u
  BY <1>6, OneTask
<1>8. task'[c] # task[c]
  BY <1>1, <1>5, <1>7
<1>9. Spared
  <2>1. Discards(t.op, t.arg) => Discarding(c)
    BY <1>1 DEF Discards, Discarding
  <2> QED
    BY <1>2, <1>3, <1>8, <2>1 DEF Spared
<1>10. nav' = nav /\ outside' = outside
  BY DEF RunWrite
<1>11. nav' \in NavType(git')
  BY <1>1, <1>2, <1>3, <1>10, FitsGrow
<1>12. Single => /\ tracked' => is_aligned(nav', HeadOid(git'))
                 /\ Aimed(nav', u) /\ Swept(git', u)
  BY <1>2, <1>5, <1>10 DEF Single, Aimed, Swept, Resetting
<1>13. After(git, git')
  BY <1>2, <1>3
<1> QED
  BY <1>5, <1>6, <1>9, <1>10, <1>11, <1>12, <1>13, ActingStep

LEMMA CheckoutCreatedUpheld ==
    ASSUME Valid, NEW c \in Client, CheckoutCreated(c)
    PROVE  Upheld
<1> DEFINE t == task[c]
<1>1. /\ Whole(git) /\ nav \in NavType(git) /\ TaskFits(git, t)
      /\ t.pc = "checkout" /\ WriteFits(git, t) /\ t.arg \in Branch
  BY DEF Valid, TasksFit, CheckoutCreated, TaskFits, WriteFits, ArgFits, BranchNamed
<1>2. PICK out \in checkout_branch(git, t.arg) :
        /\ git' = out.git
        /\ task' = [task EXCEPT ![c] = IF out.res = "Ok" THEN [@ EXCEPT !.pc = "drop"] ELSE Idle]
        /\ tracked' = (tracked /\ (HeadOid(out.git) = HeadOid(git)))
  BY DEF CheckoutCreated
<1>3. Safe(git, out.git)
  <2> HIDE DEF t
  <2> QED BY <1>1, <1>2, CheckoutOperation
<1>4. After(git, git') /\ Spared
  BY <1>2, <1>3, SafeIsHeld DEF Spared
<1> DEFINE next == [t EXCEPT !.pc = "drop"]  u == IF out.res = "Ok" THEN next ELSE Idle
<1>5. TaskFits(git', t)
  BY <1>1, <1>4, FitsGrow
<1>6. TaskFits(git', next) /\ next.pc = "drop"
  <2>1. /\ DOMAIN next = DOMAIN t /\ next.pc = "drop"
        /\ \A f \in DOMAIN t \ {"pc"} : next[f] = t[f]
    <3> HIDE DEF t
    <3> QED BY <1>1, PcOnly DEF TaskFits
  <2> HIDE DEF next
  <2>2. WriteFits(git', t)
    BY <1>1, <1>5 DEF TaskFits
  <2>3. /\ DOMAIN next = {"pc", "op", "arg", "before"}
        /\ next.op = t.op /\ next.arg = t.arg /\ next.before = t.before
    BY <2>1, <2>2 DEF WriteFits
  <2>4. WriteFits(git', next)
    BY <2>2, <2>3 DEF WriteFits
  <2> QED
    BY <2>1, <2>3, <2>4 DEF TaskFits
<1>7. task' = [task EXCEPT ![c] = u]
  BY <1>2
<1> HIDE DEF next
<1>8. TaskFits(git', u) /\ u.pc \notin Resetting
  BY <1>6, IdleFits DEF Idle, Resetting
<1> HIDE DEF u
<1>9. nav' = nav /\ outside' = outside
  BY DEF CheckoutCreated
<1>10. nav' \in NavType(git')
  BY <1>1, <1>4, <1>9, FitsGrow
<1>11. Single => /\ tracked' => is_aligned(nav', HeadOid(git'))
                 /\ Aimed(nav', u) /\ Swept(git', u)
  BY <1>2, <1>8, <1>9 DEF Single, Aimed, Swept, Resetting
<1> QED
  BY <1>4, <1>7, <1>8, <1>9, <1>10, <1>11, ActingStep

LEMMA AfterWriteUpheld ==
    ASSUME Valid, NEW c \in Client, after_write(c)
    PROVE  Upheld
<1> DEFINE t == task[c]  kinds == Drops(t.op)
           mine == IF IsRecorded(t.op) THEN [t EXCEPT !.pc = "record"] ELSE Idle
           Then(d) == IF d # c THEN Raced(kinds, task[d]) ELSE mine
<1>1. /\ \A d \in Client : TaskFits(git, task[d])
      /\ t.pc = "drop" /\ (WriteFits(git, t) \/ NavFits(git, t))
  BY DEF Valid, TasksFit, after_write, TaskFits
<1>2. UNCHANGED <<git, nav, tracked, outside>> /\ task' = [d \in Client |-> Then(d)]
  BY DEF after_write
<1>3. TaskFits(git, mine) /\ mine.pc \notin Resetting
  <2>1. CASE ~ IsRecorded(t.op)
    BY <2>1, IdleFits DEF Idle, Resetting
  <2>2. CASE IsRecorded(t.op)
    <3>1. WriteFits(git, t)
      BY <1>1, <2>2 DEF NavFits, NavMoves, IsRecorded, Recorded
    <3> DEFINE next == [t EXCEPT !.pc = "record"]
    <3>2. /\ DOMAIN next = DOMAIN t /\ next.pc = "record"
          /\ \A f \in DOMAIN t \ {"pc"} : next[f] = t[f]
      <4>1. "pc" \in DOMAIN t
        BY <3>1 DEF WriteFits
      <4> HIDE DEF t
      <4> QED BY <4>1, PcOnly
    <3>3. mine = next
      BY <2>2
    <3> HIDE DEF next, mine
    <3>4. /\ DOMAIN next = {"pc", "op", "arg", "before"}
          /\ next.op = t.op /\ next.arg = t.arg /\ next.before = t.before
      BY <3>1, <3>2 DEF WriteFits
    <3>5. WriteFits(git, next)
      BY <3>1, <3>4 DEF WriteFits
    <3>6. TaskFits(git, next)
      BY <2>2, <3>2, <3>4, <3>5 DEF TaskFits
    <3> QED
      BY <3>2, <3>3, <3>6 DEF Resetting
  <2> QED
    BY <2>1, <2>2
<1> HIDE DEF mine
<1>4. ASSUME NEW d \in Client
      PROVE  Quiet(git, task[d], Then(d))
  <2>1. CASE d = c
    BY <1>3, <2>1 DEF Quiet
  <2>2. CASE d # c
    BY <1>1, <2>2, QuietRaced
  <2> QED
    BY <2>1, <2>2
<1> HIDE DEF Then
<1>5. task' = [d \in Client |-> task'[d]] /\ \A d \in Client : Quiet(git, task[d], task'[d])
  BY <1>2, <1>4
<1> QED
  BY <1>2, <1>5, QuietUpheld

LEMMA RecordUpheld ==
    ASSUME Valid, NEW c \in Client, record_nav(c)
    PROVE  Upheld
<1> DEFINE t == task[c]  after == HeadOid(git)  n == record(nav, t.before, after, Recorded[t.op])
<1>1. /\ Whole(git) /\ nav \in NavType(git) /\ TaskFits(git, t) /\ t.pc = "record"
      /\ t.before \in Known(git) /\ IsRecorded(t.op)
  BY DEF Valid, TasksFit, record_nav, TaskFits, WriteFits
<1>2. after \in Known(git) /\ Newest(git) \in Nat
  BY <1>1, NewestType
<1>3. Recorded[t.op] \in UndoKind
  BY <1>1 DEF IsRecorded, Recorded, UndoKind
<1>4. /\ nav' = (IF after = 0 THEN nav ELSE n)
      /\ tracked' = (tracked \/ (after # 0 /\ t.before # after))
      /\ task' = [task EXCEPT ![c] = Idle] /\ git' = git /\ outside' = outside
  BY DEF record_nav
<1>5. after # 0 => n \in NavType(git) /\ (t.before # after => is_aligned(n, after))
  <2>1. after # 0 => after \in Born(git)
    BY <1>2 DEF Known, Born
  <2> HIDE DEF after, t
  <2> QED
    BY <1>1, <1>3, <2>1, RecordAligns
<1>6. t.before = after => n = nav
  BY DEF record
<1> HIDE DEF n, t
<1>7. nav' \in NavType(git')
  BY <1>1, <1>4, <1>5
<1>8. Single => (tracked' => is_aligned(nav', HeadOid(git')))
  <2> HIDE DEF after
  <2>1. HeadOid(git') = after
    BY <1>4 DEF after
  <2> SUFFICES ASSUME Single, tracked'
               PROVE  is_aligned(nav', after)
    BY <2>1
  <2>2. CASE after # 0 /\ t.before # after
    BY <1>4, <1>5, <2>2
  <2>3. CASE ~ (after # 0 /\ t.before # after)
    <3>1. tracked /\ nav' = nav
      BY <1>4, <1>6, <2>3
    <3> QED
      BY <3>1 DEF Single, after
  <2> QED
    BY <2>2, <2>3
<1>9. TaskFits(git', Idle) /\ Aimed(nav', Idle) /\ Swept(git', Idle) /\ Spared
  BY <1>4, IdleFits DEF Idle, Aimed, Swept, Resetting, Spared, Held
<1>10. After(git, git')
  BY <1>1, <1>4, AfterItself DEF Safe
<1> QED
  BY <1>4, <1>7, <1>8, <1>9, <1>10, ActingStep

LEMMA NavBeginUpheld ==
    ASSUME Valid, NEW c \in Client, NEW op \in Navs, NavBegin(c, op)
    PROVE  Upheld
<1> DEFINE hint(i) == [pc |-> "hint", op |-> op, index |-> i, head |-> HeadOid(git)]
<1>1. /\ Whole(git) /\ HeadOid(git) \in Known(git) /\ Newest(git) \in Nat
      /\ Len(nav.timeline) \in Nat /\ op \in NavMoves \cup {"peek"}
  BY NewestType, LenProperties, ContextAssumption DEF Valid, NavType
<1>2. PICK i \in (IF op = "goto" THEN 0 .. Len(nav.timeline) ELSE {0}) :
        task' = [task EXCEPT ![c] = IF HeadOid(git) = 0 THEN Idle ELSE hint(i)]
  BY DEF NavBegin
<1> DEFINE u == IF HeadOid(git) = 0 THEN Idle ELSE hint(i)
<1>3. i \in Nat
  BY <1>1, <1>2
<1>4. HeadOid(git) # 0 => TaskFits(git, hint(i)) /\ hint(i).pc \notin Resetting
  BY <1>1, <1>3 DEF TaskFits, HintFits, Known, Born, Resetting
<1>5. TaskFits(git, u) /\ u.pc \notin Resetting
  <2> HIDE DEF hint
  <2> QED BY <1>4, IdleFits DEF Idle, Resetting
<1>6. task' = [task EXCEPT ![c] = u]
  BY <1>2
<1> HIDE DEF u
<1>7. task' = [d \in Client |-> task'[d]] /\ \A d \in Client : Quiet(git, task[d], task'[d])
  BY <1>5, <1>6, QuietReplaced
<1>8. UNCHANGED <<git, nav, tracked, outside>>
  BY DEF NavBegin, ghosts
<1> QED
  BY <1>7, <1>8, QuietUpheld

LEMMA NavHintUpheld ==
    ASSUME Valid, NEW c \in Client, NavHint(c)
    PROVE  Upheld
<1> DEFINE t == task[c]  skip == t.op = "peek" /\ is_aligned(nav, t.head)
           boot == IF skip THEN NoHint ELSE bootstrap_hint(git)
           u == [pc |-> "pick", op |-> t.op, index |-> t.index, head |-> t.head, boot |-> boot]
<1>1. Whole(git) /\ HintFits(git, t)
  BY DEF Valid, TasksFit, NavHint, TaskFits
<1>2. boot.oid \in Known(git) /\ boot.kind \in UndoKind
  <2>1. NoHint.oid \in Known(git) /\ NoHint.kind \in UndoKind
    BY <1>1, NewestType DEF NoHint, Known, UndoKind
  <2> QED
    BY <1>1, <2>1, HintType
<1>3. task' = [task EXCEPT ![c] = u] /\ UNCHANGED <<git, nav, tracked, outside>>
  BY DEF NavHint, ghosts
<1> HIDE DEF boot, t
<1>4. TaskFits(git, u) /\ u.pc \notin Resetting
  BY <1>1, <1>2 DEF TaskFits, HintFits, Resetting
<1> HIDE DEF u
<1>5. task' = [d \in Client |-> task'[d]] /\ \A d \in Client : Quiet(git, task[d], task'[d])
  BY <1>3, <1>4, QuietReplaced
<1> QED
  BY <1>3, <1>5, QuietUpheld

LEMMA NavPickUpheld ==
    ASSUME Valid, NEW c \in Client, NavPick(c)
    PROVE  Upheld
<1> DEFINE t == task[c]
           line == sync(nav, t.head, t.boot)
           i == CASE t.op = "undo" -> line.cursor - 1
                  [] t.op = "redo" -> line.cursor + 1
                  [] OTHER -> t.index
           far == i > line.cursor + 1 \/ i < line.cursor - 1
           to == point_at(line, i)
           hard == far \/ to.kind = "Restore"
           moving == [pc |-> IF hard THEN "check" ELSE "reset", op |-> t.op, index |-> i,
                      target |-> to.oid, hard |-> hard, edited |-> FALSE]
           u == IF t.op = "peek" \/ ~ can_goto(line, i) THEN Idle ELSE moving
<1>1. /\ Whole(git) /\ nav \in NavType(git) /\ t.head \in Born(git) /\ t.index \in Nat
      /\ t.op \in NavMoves \cup {"peek"} /\ t.boot.oid \in Known(git) /\ t.boot.kind \in UndoKind
  BY DEF Valid, TasksFit, NavPick, TaskFits, HintFits
<1>2. /\ nav' = line /\ tracked' = (t.head = HeadOid(git)) /\ task' = [task EXCEPT ![c] = u]
      /\ git' = git /\ outside' = outside
  BY DEF NavPick
<1>3. line \in NavType(git) /\ is_aligned(line, t.head)
  <2> HIDE DEF t
  <2> QED BY <1>1, SyncAligns
<1>4. /\ i \in Int /\ line.cursor \in Nat /\ (t.op = "undo" => i = line.cursor - 1)
      /\ t.op = "redo" => i = line.cursor + 1
  <2>1. line.cursor \in Nat
    BY <1>3 DEF NavType
  <2> HIDE DEF line, t
  <2> QED BY <1>1, <2>1
<1> HIDE DEF i, line
<1>5. ASSUME u # Idle
      PROVE  /\ TaskFits(git, u) /\ Aimed(line, u) /\ Swept(git, u)
  <2>1. u = moving /\ t.op \in NavMoves /\ can_goto(line, i)
    BY <1>1, <1>5
  <2>2. i \in Nat /\ InTimeline(line, i)
    BY <1>4, <2>1 DEF can_goto
  <2>3. to.oid = At(line, i).oid
    BY DEF point_at
  <2>4. to.oid \in Born(git)
    <3>1. i + 1 \in 1 .. Len(line.timeline) /\ line.timeline \in Seq([oid : Born(git), kind : UndoKind])
      BY <1>3, <2>2, LenProperties DEF InTimeline, NavType
    <3>2. line.timeline[i + 1] \in [oid : Born(git), kind : UndoKind]
      BY <3>1, ElementOfSeq
    <3> QED
      BY <2>3, <3>2 DEF At
  <2> HIDE DEF to, t
  <2>5. /\ moving.pc \in {"check", "reset"} /\ (moving.pc = "reset" => ~ moving.hard)
        /\ moving.op = t.op /\ moving.index = i /\ moving.target = to.oid
        /\ DOMAIN moving = {"pc", "op", "index", "target", "hard", "edited"}
    <3> HIDE DEF hard
    <3> QED OBVIOUS
  <2> HIDE DEF moving
  <2>6. TaskFits(git, moving)
    BY <2>1, <2>2, <2>4, <2>5 DEF TaskFits, NavFits
  <2>7. Aimed(line, moving) /\ Swept(git, moving)
    BY <1>4, <2>2, <2>3, <2>5 DEF Aimed, Swept
  <2> HIDE DEF u
  <2> QED
    BY <2>1, <2>6, <2>7
<1> HIDE DEF u
<1>6. TaskFits(git, u) /\ Aimed(line, u) /\ Swept(git, u)
  <2>1. TaskFits(git, Idle) /\ Aimed(line, Idle) /\ Swept(git, Idle)
    BY IdleFits DEF Idle, Aimed, Swept, Resetting
  <2> QED
    BY <1>5, <2>1
<1>7. After(git, git') /\ Spared
  BY <1>1, <1>2, AfterItself DEF Safe, Spared, Held
<1>8. tracked' => is_aligned(nav', HeadOid(git'))
  BY <1>2, <1>3
<1> HIDE DEF t
<1> QED
  BY <1>2, <1>3, <1>6, <1>7, <1>8, ActingStep

(* A clean status: the text is the index's, which is the commit's.          *)
LEMMA CleanHeld ==
    ASSUME NEW g, Whole(g), ~ IsDirty(g)
    PROVE  g.wt \in {Absent} \cup Committed(g)
<1>1. \A from, to, added, staged : Side(from, to, added, staged) = {} => from = to
  BY DEF Side
<1>2. status(g) = {} /\ g.conflict = NoConflict
  BY DEF IsDirty, status
<1>3. /\ Side(HeadTree(g), g.index, "Added", TRUE) = {}
      /\ Side(g.index, g.wt, "Untracked", FALSE) = {}
  <2>1. status(g) = Side(HeadTree(g), g.index, "Added", TRUE) \cup Side(g.index, g.wt, "Untracked", FALSE)
    BY <1>2 DEF status
  <2> QED
    BY <1>2, <2>1
<1>4. g.wt = g.index /\ g.index = HeadTree(g)
  BY <1>1, <1>3
<1> QED
  BY <1>4, HeadHeld

LEMMA CheckUpheld ==
    ASSUME Valid, NEW c \in Client, apply_nav_check(c)
    PROVE  Upheld
<1> DEFINE t == task[c]  next == [t EXCEPT !.pc = "reset"]  u == IF IsDirty(git) THEN Idle ELSE next
<1>1. Whole(git) /\ nav \in NavType(git) /\ t.pc = "check" /\ NavFits(git, t)
  BY DEF Valid, TasksFit, apply_nav_check, TaskFits
<1>2. /\ task' = [task EXCEPT ![c] = u] /\ UNCHANGED <<git, nav, tracked, outside>>
  BY DEF apply_nav_check, ghosts
<1>3. /\ DOMAIN next = DOMAIN t /\ next.pc = "reset"
      /\ \A f \in DOMAIN t \ {"pc"} : next[f] = t[f]
  <2>1. "pc" \in DOMAIN t
    BY <1>1 DEF NavFits
  <2> HIDE DEF t
  <2> QED BY <2>1, PcOnly
<1> HIDE DEF next
<1>4. /\ DOMAIN next = {"pc", "op", "index", "target", "hard", "edited"}
      /\ next.op = t.op /\ next.index = t.index /\ next.target = t.target
  BY <1>1, <1>3 DEF NavFits
<1>5. TaskFits(git, next) /\ (Aimed(nav, t) => Aimed(nav, next))
  BY <1>1, <1>3, <1>4 DEF TaskFits, NavFits, Aimed, Resetting
<1>6. ~ IsDirty(git) => Swept(git, next)
  BY <1>1, CleanHeld DEF Swept
<1>7. TaskFits(git, Idle) /\ Aimed(nav, Idle) /\ Swept(git, Idle)
  BY IdleFits DEF Idle, Aimed, Swept, Resetting
<1>8. TaskFits(git, u) /\ Swept(git, u) /\ (Aimed(nav, t) => Aimed(nav, u))
  BY <1>5, <1>6, <1>7
<1> HIDE DEF u
<1>9. After(git, git') /\ Spared
  BY <1>1, <1>2, AfterItself DEF Safe, Spared, Held
<1>10. Single => /\ tracked' => is_aligned(nav', HeadOid(git'))
                 /\ Aimed(nav', u) /\ Swept(git', u)
  BY <1>2, <1>8 DEF Single
<1> HIDE DEF t
<1>11. nav' \in NavType(git') /\ TaskFits(git', u) /\ outside' = outside
  BY <1>1, <1>2, <1>8
<1> QED
  BY <1>2, <1>9, <1>10, <1>11, ActingStep

LEMMA NavResetUpheld ==
    ASSUME Valid, NEW c \in Client, apply_nav_reset(c)
    PROVE  Upheld
<1> DEFINE t == task[c]  mode == IF t.hard THEN "Hard" ELSE "Soft"
           next == [t EXCEPT !.pc = "moved"]
<1>1. Whole(git) /\ nav \in NavType(git) /\ t.pc = "reset" /\ NavFits(git, t) /\ TaskFits(git, t)
  BY DEF Valid, TasksFit, apply_nav_reset, TaskFits
<1>2. PICK out \in reset(git, t.target, mode) :
        /\ git' = out.git
        /\ task' = [task EXCEPT ![c] = IF out.res = "Ok" THEN [@ EXCEPT !.pc = "moved"] ELSE Idle]
        /\ tracked' = (tracked /\ HeadOid(out.git) = HeadOid(git))
  BY DEF apply_nav_reset, Becomes
<1> DEFINE u == IF out.res = "Ok" THEN next ELSE Idle
<1>3. After(git, out.git) /\ (mode # "Hard" => Safe(git, out.git))
  <2>1. t.target \in Born(git) /\ mode \in {"Soft", "Mixed", "Hard"}
    BY <1>1 DEF NavFits
  <2> HIDE DEF t, mode
  <2> QED BY <1>1, <1>2, <2>1, ResetOperation
<1>4. task' = [task EXCEPT ![c] = u] /\ nav' = nav /\ outside' = outside
  BY <1>2 DEF apply_nav_reset
<1>5. /\ DOMAIN next = DOMAIN t /\ next.pc = "moved"
      /\ \A f \in DOMAIN t \ {"pc"} : next[f] = t[f]
  <2>1. "pc" \in DOMAIN t
    BY <1>1 DEF NavFits
  <2> HIDE DEF t
  <2> QED BY <2>1, PcOnly
<1>6. After(git, git') /\ NavFits(git', t) /\ nav' \in NavType(git')
  <2>1. After(git, git')
    BY <1>2, <1>3
  <2>2. TaskFits(git', t) /\ nav \in NavType(git')
    BY <1>1, <2>1, FitsGrow
  <2> QED
    BY <1>1, <1>4, <2>1, <2>2 DEF TaskFits
<1> HIDE DEF next
<1>7. /\ DOMAIN next = {"pc", "op", "index", "target", "hard", "edited"}
      /\ next.op = t.op /\ next.index = t.index /\ next.target = t.target
  BY <1>1, <1>5 DEF NavFits
<1>8. TaskFits(git', next) /\ Swept(git', next) /\ (Aimed(nav, t) => Aimed(nav, next))
  BY <1>1, <1>5, <1>6, <1>7 DEF TaskFits, NavFits, Aimed, Swept, Resetting
<1>9. TaskFits(git', Idle) /\ Aimed(nav, Idle) /\ Swept(git', Idle)
  BY IdleFits DEF Idle, Aimed, Swept, Resetting
<1>10. /\ TaskFits(git', u) /\ Swept(git', u) /\ (Aimed(nav, t) => Aimed(nav, u))
       /\ u.pc # "reset"
  BY <1>5, <1>8, <1>9 DEF Idle
<1> HIDE DEF u
<1>11. task'[c] # task[c]
  <2>1. task'[c] = u
    BY <1>4, OneTask
  <2> QED
    BY <1>1, <1>10, <2>1
<1>12. ASSUME Single
       PROVE  Spared
  <2>1. CASE ~ t.hard
    BY <1>2, <1>3, <2>1, SafeIsHeld DEF Spared
  <2>2. CASE t.hard /\ t.edited
    BY <1>1, <1>11, <2>2 DEF Spared, Discarding
  <2>3. CASE t.hard /\ ~ t.edited
    <3>1. git.wt \in {Absent} \cup Committed(git)
      BY <1>1, <1>12, <2>3 DEF Single, Swept
    <3>2. Committed(git) \subseteq Committed(git')
      BY <1>1, <1>6, CommittedGrows
    <3> QED
      BY <3>1, <3>2 DEF Spared, Held, Committed, Born
  <2> QED
    BY <2>1, <2>2, <2>3
<1>13. Single => /\ tracked' => is_aligned(nav', HeadOid(git'))
                 /\ Aimed(nav', u) /\ Swept(git', u)
  BY <1>2, <1>4, <1>10 DEF Single
<1> HIDE DEF t
<1> QED
  BY <1>4, <1>6, <1>10, <1>12, <1>13, ActingStep

LEMMA NavMovedUpheld ==
    ASSUME Valid, NEW c \in Client, NavMoved(c)
    PROVE  Upheld
<1> DEFINE t == task[c]  next == [t EXCEPT !.pc = "drop"]
           n == CASE t.op = "undo" -> commit_undo(nav)
                  [] t.op = "redo" -> commit_redo(nav)
                  [] t.op = "goto" -> commit_goto(nav, t.index)
<1>1. Whole(git) /\ nav \in NavType(git) /\ t.pc = "moved" /\ NavFits(git, t)
  BY DEF Valid, TasksFit, NavMoved, TaskFits
<1>2. /\ nav' = n /\ tracked' = (HeadOid(git) = t.target) /\ task' = [task EXCEPT ![c] = next]
      /\ git' = git /\ outside' = outside
  BY DEF NavMoved
<1>3. /\ DOMAIN next = DOMAIN t /\ next.pc = "drop"
      /\ \A f \in DOMAIN t \ {"pc"} : next[f] = t[f]
  <2>1. "pc" \in DOMAIN t
    BY <1>1 DEF NavFits
  <2> HIDE DEF t
  <2> QED BY <2>1, PcOnly
<1> HIDE DEF next
<1>4. TaskFits(git, next) /\ Swept(git, next)
  <2>1. /\ DOMAIN next = {"pc", "op", "index", "target", "hard", "edited"}
        /\ next.op = t.op /\ next.index = t.index /\ next.target = t.target
    BY <1>1, <1>3 DEF NavFits
  <2> QED
    BY <1>1, <1>3, <2>1 DEF TaskFits, NavFits, Swept
<1>5. t.op \in {"undo", "redo", "goto"} /\ t.index \in Nat
  BY <1>1 DEF NavFits, NavMoves
<1>6. n \in NavType(git)
  <2> HIDE DEF t
  <2>1. /\ commit_undo(nav) \in NavType(git) /\ commit_redo(nav) \in NavType(git)
        /\ commit_goto(nav, t.index) \in NavType(git)
    BY <1>1, <1>5, MovesType
  <2> QED
    BY <1>5, <2>1
<1>7. ASSUME Single
      PROVE  At(n, n.cursor).oid = t.target /\ InTimeline(n, n.cursor)
  <2> HIDE DEF t
  <2>1. /\ InTimeline(nav, t.index) /\ At(nav, t.index).oid = t.target
        /\ t.op = "undo" => t.index = nav.cursor - 1
        /\ t.op = "redo" => t.index = nav.cursor + 1
    BY <1>1, <1>7 DEF Single, Aimed, Resetting, t
  <2>2. nav = [timeline |-> nav.timeline, cursor |-> nav.cursor] /\ nav.cursor \in Nat
    BY <1>1 DEF NavType
  <2>3. n = [nav EXCEPT !.cursor = t.index]
    <3>1. CASE t.op = "undo"
      BY <1>5, <2>1, <2>2, <3>1 DEF commit_undo
    <3>2. CASE t.op = "redo"
      BY <1>5, <2>1, <2>2, <3>2 DEF commit_redo
    <3>3. CASE t.op = "goto"
      BY <1>5, <2>1, <2>2, <3>3 DEF commit_goto
    <3> QED
      BY <1>5, <3>1, <3>2, <3>3
  <2>4. n.cursor = t.index /\ n.timeline = nav.timeline
    <3> HIDE DEF n
    <3> QED BY <2>2, <2>3
  <2> HIDE DEF n
  <2> QED
    BY <2>1, <2>4 DEF At, InTimeline
<1> HIDE DEF n
<1>8. After(git, git') /\ Spared
  BY <1>1, <1>2, AfterItself DEF Safe, Spared, Held
<1>9. Single => /\ tracked' => is_aligned(nav', HeadOid(git'))
                /\ Aimed(nav', next) /\ Swept(git', next)
  BY <1>2, <1>3, <1>4, <1>7 DEF is_aligned, Aimed, Resetting
<1> HIDE DEF t
<1>10. nav' \in NavType(git') /\ TaskFits(git', next)
  BY <1>2, <1>4, <1>6
<1> QED
  BY <1>2, <1>8, <1>9, <1>10, ActingStep

-----------------------------------------------------------------------------
(* Changes from outside                                                      *)

LEMMA OutsideUpheld ==
    ASSUME Valid, NEW h, After(git, h), Outside(h)
    PROVE  Upheld
<1> DEFINE Then(t) == IF t.pc = "reset" /\ h.wt # git.wt THEN [t EXCEPT !.edited = TRUE] ELSE t
<1>1. /\ Whole(git) /\ nav \in NavType(git) /\ task = [d \in Client |-> task[d]]
      /\ \A d \in Client : TaskFits(git, task[d])
  BY DEF Valid, TasksFit
<1>2. /\ git' = h /\ nav' = nav /\ outside' = outside + 1
      /\ tracked' = (tracked /\ HeadOid(h) = HeadOid(git))
      /\ task' = [d \in Client |-> Then(task[d])]
  BY DEF Outside, Becomes
<1>3. Committed(git) \subseteq Committed(h)
  BY <1>1, CommittedGrows
<1>4. ASSUME NEW t, TaskFits(git, t)
      PROVE  /\ TaskFits(h, Then(t)) /\ (Aimed(nav, t) => Aimed(nav, Then(t)))
             /\ Swept(git, t) => Swept(h, Then(t))
  <2>1. TaskFits(h, t)
    BY <1>1, <1>4, FitsGrow
  <2>2. CASE ~ (t.pc = "reset" /\ h.wt # git.wt)
    <3>1. Then(t) = t
      BY <2>2
    <3>2. Swept(git, t) => Swept(h, t)
      BY <1>3, <2>2 DEF Swept
    <3> HIDE DEF Then
    <3> QED
      BY <2>1, <3>1, <3>2
  <2>3. CASE t.pc = "reset" /\ h.wt # git.wt
    <3> DEFINE u == [t EXCEPT !.edited = TRUE]
    <3>1. NavFits(h, t)
      BY <2>1, <2>3 DEF TaskFits
    <3>2. DOMAIN u = DOMAIN t /\ u.edited /\ \A f \in DOMAIN t \ {"edited"} : u[f] = t[f]
      BY <3>1 DEF NavFits
    <3>3. Then(t) = u
      BY <2>3
    <3> HIDE DEF u, Then
    <3>4. u.pc = "reset" /\ u.op = t.op /\ u.index = t.index /\ u.target = t.target
      BY <2>3, <3>1, <3>2 DEF NavFits
    <3>5. TaskFits(h, u)
      BY <3>1, <3>2, <3>4 DEF TaskFits, NavFits
    <3>6. (Aimed(nav, t) => Aimed(nav, u)) /\ Swept(h, u)
      BY <2>3, <3>2, <3>4 DEF Aimed, Swept, Resetting
    <3> QED
      BY <3>3, <3>5, <3>6
  <2> QED
    BY <2>2, <2>3
<1> HIDE DEF Then
<1>5. nav' \in NavType(git')
  BY <1>1, <1>2, FitsGrow
<1>6. Valid'
  BY <1>1, <1>2, <1>4, <1>5 DEF Valid, TasksFit, After
<1>7. ASSUME Single
      PROVE  Single' /\ Spared
  <2>1. \A d \in Client : Aimed(nav', task'[d]) /\ Swept(git', task'[d])
    BY <1>1, <1>2, <1>4, <1>7 DEF Single
  <2>2. outside' \in Nat /\ outside' # outside
    BY <1>2, <1>7 DEF Single
  <2>3. tracked' => is_aligned(nav', HeadOid(git'))
    BY <1>2, <1>7 DEF Single
  <2> QED
    BY <2>1, <2>2, <2>3 DEF Single, Spared
<1> QED
  BY <1>6, <1>7 DEF Upheld

LEMMA OthersPushAfter ==
    ASSUME NEW g, Whole(g), NEW b \in Branch, NEW c, g.server[b] # 0
    PROVE  LET made == NewCommit(g, c, <<g.server[b]>>)
           IN  After(g, [made EXCEPT !.server[b] = Newest(made)])
<1> DEFINE parents == <<g.server[b]>>  made == NewCommit(g, c, parents)
           h == [made EXCEPT !.server[b] = Newest(made)]
<1>1. Newest(g) \in Nat /\ g.server[b] \in 1 .. Newest(g)
  <2>1. Newest(g) \in Nat /\ g.server \in [Branch -> 0 .. Newest(g)]
    BY NewestType DEF Whole, Names
  <2>2. g.server[b] \in 0 .. Newest(g)
    BY <2>1
  <2> QED
    BY <2>1, <2>2
<1>2. Rooted(parents, Newest(g))
  BY <1>1 DEF Rooted
<1>3. After(g, made) /\ Newest(made) = Newest(g) + 1
  <2> DEFINE e == [tree |-> c, parents |-> parents]
  <2>1. /\ After(g, made) /\ Newest(made) = Newest(g) + 1
        /\ \A f \in Fields \ {"commits"} : made[f] = g[f]
        /\ made.commits[Newest(g) + 1] = e
    <3> HIDE DEF parents
    <3> QED BY <1>2, NewCommitWhole
  <2> HIDE DEF made, e
  <2> QED
    BY <2>1
<1> HIDE DEF made
<1>4. /\ DOMAIN made = Fields /\ Whole(made) /\ made.remotes \subseteq Remote
      /\ made.tracking \in [Remote -> [Branch -> Known(made)]]
      /\ made.upstream \in [Branch -> Remote \cup {NoRemote}] /\ made.server \in [Branch -> Known(made)]
  BY <1>3 DEF After, Whole, Names, Known
<1>5. DOMAIN h = Fields /\ \A f \in Fields \ {"server"} : h[f] = made[f]
  BY <1>4 DEF Fields
<1>6. h.server \in [Branch -> Known(made)]
  <2>1. Newest(made) \in Known(made)
    BY <1>1, <1>3 DEF Known
  <2>2. h.server = [made.server EXCEPT ![b] = Newest(made)]
    BY <1>4 DEF Fields
  <2> HIDE DEF h
  <2> QED
    BY <1>4, <2>1, <2>2
<1> HIDE DEF h
<1>7. Safe(made, h)
  <2>1. \A f \in Fields \ Wires : h[f] = made[f]
    BY <1>5 DEF Wires
  <2>2. /\ h.remotes = made.remotes /\ h.tracking = made.tracking /\ h.upstream = made.upstream
    BY <1>5 DEF Fields
  <2> QED
    BY <1>4, <1>5, <1>6, <2>1, <2>2, WiresSafe
<1>8. After(g, h)
  BY <1>3, <1>7, AfterTrans DEF Safe
<1> QED
  BY <1>8 DEF h, made, parents

LEMMA EnvironmentUpheld ==
    ASSUME Valid, Environment
    PROVE  Upheld
<1>1. Whole(git)
  BY DEF Valid
<1>2. CASE EditFile
  <2>1. PICK c \in Edits : Outside([git EXCEPT !.wt = c])
    BY <1>2 DEF EditFile
  <2> DEFINE h == [git EXCEPT !.wt = c]
  <2>2. DOMAIN h = Fields /\ \A f \in Fields \ {"wt"} : h[f] = git[f]
    BY <1>1 DEF Whole, Fields
  <2>3. Outside(h)
    BY <2>1
  <2> HIDE DEF h
  <2>4. IsSequence(h.stash)
    BY <1>1, <2>2 DEF Whole, Fields
  <2>5. After(git, h)
    BY <1>1, <2>2, <2>4, SameNames DEF Fields
  <2> QED
    BY <2>3, <2>5, OutsideUpheld
<1>3. CASE TerminalAdd
  <2>1. PICK out \in stage(git) : Outside(out.git)
    BY <1>3 DEF TerminalAdd
  <2>2. Safe(git, out.git)
    BY <1>1, IndexOperations
  <2> QED
    BY <2>1, <2>2, OutsideUpheld DEF Safe
<1>4. CASE TerminalCommit
  <2>1. PICK out \in commit(git) : Outside(out.git)
    BY <1>4 DEF TerminalCommit
  <2>2. Safe(git, out.git)
    BY <1>1, CommitOperations
  <2> QED
    BY <2>1, <2>2, OutsideUpheld DEF Safe
<1>5. CASE TerminalReset
  <2> DEFINE p == FirstParent(git, HeadOid(git))
  <2>1. PICK out \in reset(git, p, "Mixed") : Outside(out.git)
    BY <1>5 DEF TerminalReset
  <2>2. p \in Born(git)
    <3>1. Parents(git, HeadOid(git)) # <<>> /\ Rooted(Parents(git, HeadOid(git)), Newest(git))
      BY <1>1, <1>5, ParentsRooted DEF TerminalReset
    <3> QED
      BY <3>1, FirstOfRooted DEF FirstParent, Born
  <2> HIDE DEF p
  <2>3. After(git, out.git)
    BY <1>1, <2>1, <2>2, ResetOperation
  <2> QED
    BY <2>1, <2>3, OutsideUpheld
<1>6. CASE OthersPush
  <2>1. PICK b \in Branch, c \in Edits :
          LET tip == git.server[b]
              made == NewCommit(git, c, IF tip = 0 THEN <<>> ELSE <<tip>>)
          IN  tip # 0 /\ Tree(git, tip) # c /\ Outside([made EXCEPT !.server[b] = Newest(made)])
    BY <1>6 DEF OthersPush
  <2> DEFINE made == NewCommit(git, c, <<git.server[b]>>)  h == [made EXCEPT !.server[b] = Newest(made)]
  <2>2. git.server[b] # 0 /\ Outside(h)
    BY <2>1
  <2>3. After(git, h)
    BY <1>1, <2>2, OthersPushAfter
  <2> HIDE DEF h
  <2> QED
    BY <2>2, <2>3, OutsideUpheld
<1> QED
  BY <1>2, <1>3, <1>4, <1>5, <1>6 DEF Environment

-----------------------------------------------------------------------------
(* Which commits lead to which: older ones only, and new commits change it  *)
(* for none there was.                                                       *)

Ancestry(g, last, anc) ==
    [i \in 0 .. last |-> IF i = 0 THEN {} ELSE {i} \cup UNION {anc[p] : p \in Range(Parents(g, i))}]
LEMMA ParentsOlder ==
    ASSUME NEW g, Whole(g), NEW i \in Born(g)
    PROVE  /\ Range(Parents(g, i)) \subseteq 0 .. i - 1
           /\ FirstParent(g, i) \in 0 .. i - 1
<1>1. Rooted(Parents(g, i), i - 1) /\ i \in Nat \ {0}
  BY NewestType DEF Whole, Past, Parents, Newest, Born
<1> DEFINE ps == Parents(g, i)
<1> HIDE DEF ps
<1>2. ps \in Seq(0 .. i - 1) /\ (ps # <<>> => ps[1] \in 1 .. i - 1)
  BY <1>1 DEF Rooted, ps
<1>3. Range(ps) \subseteq 0 .. i - 1
  <2>1. DOMAIN ps = 1 .. Len(ps) /\ \A j \in 1 .. Len(ps) : ps[j] \in 0 .. i - 1
    BY <1>2, LenProperties, ElementOfSeq
  <2> QED
    BY <2>1 DEF Range
<1> QED
  BY <1>1, <1>2, <1>3 DEF FirstParent, ps

LEMMA AncestryExists ==
    ASSUME NEW g, Whole(g)
    PROVE  \E anc : anc = Ancestry(g, Newest(g), anc)
<1> DEFINE More(x, n) == {n} \cup UNION {x[p] : p \in Range(Parents(g, n))}
           Run(f, m) == f = [n \in 0 .. m |-> IF n = 0 THEN {} ELSE More(f, n)]
           T == {m \in Nat : m <= Newest(g) => \E f : Run(f, m)}
<1>0. Newest(g) \in Nat
  BY NewestType
<1>1. 0 \in T
  <2>1. Run([n \in 0 .. 0 |-> {}], 0)
    OBVIOUS
  <2> HIDE DEF Run
  <2> QED
    BY <2>1
<1>2. ASSUME NEW m \in Nat, m \in T
      PROVE  m + 1 \in T
  <2> SUFFICES ASSUME m + 1 <= Newest(g)
               PROVE  \E f : Run(f, m + 1)
    OBVIOUS
  <2>1. PICK f : Run(f, m)
    BY <1>0, <1>2
  <2> DEFINE f2 == [n \in 0 .. m + 1 |-> IF n = m + 1 THEN More(f, n) ELSE f[n]]
  <2>2. ASSUME NEW n \in 1 .. m + 1
        PROVE  More(f, n) = More(f2, n)
    <3>1. Range(Parents(g, n)) \subseteq 0 .. n - 1
      BY <1>0, ParentsOlder DEF Born
    <3>2. \A p \in Range(Parents(g, n)) : f2[p] = f[p]
      BY <3>1
    <3> HIDE DEF f2
    <3> QED
      BY <3>2
  <2>3. \A n \in 0 .. m + 1 : f2[n] = IF n = 0 THEN {} ELSE More(f2, n)
    <3> SUFFICES ASSUME NEW n \in 0 .. m + 1
                 PROVE  f2[n] = IF n = 0 THEN {} ELSE More(f2, n)
      OBVIOUS
    <3> HIDE DEF More
    <3>1. CASE n = m + 1
      BY <2>2, <3>1
    <3>2. CASE n \in 1 .. m
      <4>1. n \in 0 .. m /\ n \in 1 .. m + 1 /\ n # 0 /\ n # m + 1 /\ n \in 0 .. m + 1
        BY <3>2
      <4>2. f2[n] = f[n]
        BY <4>1
      <4>3. f[n] = More(f, n)
        <5> HIDE DEF f2
        <5> QED
          BY <2>1, <4>1
      <4> HIDE DEF f2
      <4> QED
        BY <2>2, <4>1, <4>2, <4>3
    <3>3. CASE n = 0
      BY <2>1, <3>3
    <3> QED
      BY <3>1, <3>2, <3>3
  <2>4. Run(f2, m + 1)
    <3>1. f2 = [n \in 0 .. m + 1 |-> f2[n]]
      OBVIOUS
    <3> HIDE DEF f2, More
    <3> QED
      BY <2>3, <3>1
  <2> HIDE DEF f2, Run
  <2> QED
    BY <2>4
<1>3. Newest(g) \in T
  <2> HIDE DEF T
  <2> QED
    BY <1>0, <1>1, <1>2, NatSetInduction
<1> QED
  BY <1>0, <1>3 DEF Ancestry

LEMMA ReachUnfolds ==
    ASSUME NEW g, Whole(g)
    PROVE  /\ Reach(g, 0) = {}
           /\ \A i \in Born(g) : Reach(g, i) = {i} \cup UNION {Reach(g, p) : p \in Range(Parents(g, i))}
<1> DEFINE n == Newest(g)  anc == CHOOSE f : f = Ancestry(g, n, f)
<1>1. anc = Ancestry(g, n, anc)
  <2> HIDE DEF n
  <2> QED
    BY AncestryExists DEF n
<1>2. \A c : Reach(g, c) = anc[c]
  BY DEF Reach, Ancestry, Newest
<1>3. n \in Nat
  BY NewestType
<1> HIDE DEF anc
<1>4. anc[0] = {} /\ \A i \in 1 .. n : anc[i] = {i} \cup UNION {anc[p] : p \in Range(Parents(g, i))}
  <2> DEFINE More(x, i) == {i} \cup UNION {x[p] : p \in Range(Parents(g, i))}
  <2>1. anc = [i \in 0 .. n |-> IF i = 0 THEN {} ELSE More(anc, i)]
    BY <1>1 DEF Ancestry
  <2>2. 0 \in 0 .. n /\ \A i \in 1 .. n : i \in 0 .. n /\ i # 0
    BY <1>3
  <2>3. anc[0] = {} /\ \A i \in 1 .. n : anc[i] = More(anc, i)
    <3> HIDE DEF More, n
    <3> QED
      BY <2>1, <2>2
  <2> QED
    BY <2>3
<1> QED
  BY <1>2, <1>4 DEF Born

LEMMA ReachSame ==
    ASSUME NEW g, Whole(g), NEW h, After(g, h)
    PROVE  \A c \in Known(g) : Reach(h, c) = Reach(g, c) /\ Reach(g, c) \subseteq 1 .. c
<1> DEFINE T == {n \in Nat : \A c \in 0 .. n : c \in Known(g) =>
                               Reach(h, c) = Reach(g, c) /\ Reach(g, c) \subseteq 1 .. c}
<1>1. Newest(g) \in Nat /\ Whole(h) /\ Newest(g) <= Newest(h) /\ Newest(h) \in Nat
  BY NewestType DEF After, Grown
<1>2. 0 \in T
  BY <1>1, ReachUnfolds
<1>3. ASSUME NEW n \in Nat, n \in T
      PROVE  n + 1 \in T
  <2> SUFFICES ASSUME n + 1 \in Known(g)
               PROVE  Reach(h, n + 1) = Reach(g, n + 1) /\ Reach(g, n + 1) \subseteq 1 .. n + 1
    BY <1>3
  <2> DEFINE ps == Range(Parents(g, n + 1))
  <2>1. n + 1 \in Born(g) /\ n + 1 \in Born(h)
    BY <1>1 DEF Known, Born
  <2>2. Parents(h, n + 1) = Parents(g, n + 1)
    BY <2>1 DEF After, Grown, Parents
  <2>3. ps \subseteq 0 .. n
    <3>1. ps \subseteq 0 .. (n + 1) - 1
      BY <2>1, ParentsOlder
    <3> QED
      BY <3>1
  <2>4. \A p \in ps : Reach(h, p) = Reach(g, p) /\ Reach(g, p) \subseteq 1 .. n
    <3> SUFFICES ASSUME NEW p \in ps
                 PROVE  Reach(h, p) = Reach(g, p) /\ Reach(g, p) \subseteq 1 .. n
      OBVIOUS
    <3>1. p \in 0 .. n /\ p \in Known(g)
      BY <1>1, <2>1, <2>3 DEF Known, Born
    <3>2. Reach(h, p) = Reach(g, p) /\ Reach(g, p) \subseteq 1 .. p
      BY <1>3, <3>1
    <3> QED
      BY <3>1, <3>2
  <2>5. /\ Reach(g, n + 1) = {n + 1} \cup UNION {Reach(g, p) : p \in ps}
        /\ Reach(h, n + 1) = {n + 1} \cup UNION {Reach(h, p) : p \in ps}
    BY <1>1, <2>1, <2>2, ReachUnfolds
  <2> HIDE DEF ps
  <2>6. UNION {Reach(h, p) : p \in ps} = UNION {Reach(g, p) : p \in ps}
    BY <2>4
  <2>7. UNION {Reach(g, p) : p \in ps} \subseteq 1 .. n
    BY <2>4
  <2>8. {n + 1} \cup UNION {Reach(g, p) : p \in ps} \subseteq 1 .. n + 1
    <3> DEFINE U == UNION {Reach(g, p) : p \in ps}
    <3>1. U \subseteq 1 .. n /\ 1 .. n \subseteq 1 .. n + 1 /\ n + 1 \in 1 .. n + 1
      BY <2>7
    <3> HIDE DEF U
    <3>2. {n + 1} \cup U \subseteq 1 .. n + 1
      BY <3>1
    <3> QED
      BY <3>2 DEF U
  <2>9. Reach(g, n + 1) \subseteq 1 .. n + 1
    BY <2>5, <2>8
  <2> QED
    BY <2>5, <2>6, <2>9
<1>4. Newest(g) \in T
  <2> HIDE DEF T
  <2> QED
    BY <1>1, <1>2, <1>3, NatSetInduction
<1> QED
  BY <1>1, <1>4 DEF Known

LEMMA MaxType ==
    ASSUME NEW m \in Nat, NEW S, S \subseteq 0 .. m, S # {}
    PROVE  Max(S) \in S
<1> DEFINE T == {m - x : x \in S}
<1>1. T \subseteq Nat /\ T # {}
  <2>1. \A x \in S : m - x \in Nat
    <3> SUFFICES ASSUME NEW x \in S
                 PROVE  m - x \in Nat
      OBVIOUS
    <3>1. x \in 0 .. m
      OBVIOUS
    <3> QED
      BY <3>1
  <2> QED
    BY <2>1
<1>2. PICK z \in T : \A y \in T : z <= y
  <2> HIDE DEF T
  <2> QED
    BY <1>1, LeastNat
<1>3. PICK x \in S : z = m - x
  BY <1>2
<1>4. \A y \in S : x >= y
  <2> SUFFICES ASSUME NEW y \in S
               PROVE  x >= y
    OBVIOUS
  <2>1. m - x <= m - y
    BY <1>2, <1>3
  <2>2. x \in 0 .. m /\ y \in 0 .. m
    OBVIOUS
  <2> QED
    BY <2>1, <2>2
<1> QED
  BY <1>4 DEF Max

Downwards(S, last, listed) ==
    [n \in 0 .. last |-> IF n = 0 THEN <<>> ELSE IF n \in S THEN <<n>> \o listed[n - 1] ELSE listed[n - 1]]
LEMMA DownwardsExists ==
    ASSUME NEW S, NEW L \in Nat
    PROVE  \E f : f = Downwards(S, L, f)
<1> DEFINE More(x, n) == IF n \in S THEN <<n>> \o x ELSE x
           Run(f, m) == f = [n \in 0 .. m |-> IF n = 0 THEN <<>> ELSE More(f[n - 1], n)]
           T == {m \in Nat : \E f : Run(f, m)}
<1> HIDE DEF More
<1>1. 0 \in T
  <2>1. Run([n \in 0 .. 0 |-> <<>>], 0)
    OBVIOUS
  <2> QED
    BY <2>1
<1>2. ASSUME NEW m \in Nat, m \in T
      PROVE  m + 1 \in T
  <2>1. PICK f : Run(f, m)
    BY <1>2
  <2> DEFINE f2 == [n \in 0 .. m + 1 |-> IF n = m + 1 THEN More(f[m], n) ELSE f[n]]
  <2>2. \A n \in 0 .. m + 1 : f2[n] = IF n = 0 THEN <<>> ELSE More(f2[n - 1], n)
    <3> SUFFICES ASSUME NEW n \in 0 .. m + 1
                 PROVE  f2[n] = IF n = 0 THEN <<>> ELSE More(f2[n - 1], n)
      OBVIOUS
    <3>1. CASE n = m + 1
      <4>1. n # 0 /\ n - 1 = m /\ m \in 0 .. m + 1 /\ m # m + 1
        BY <3>1
      <4>2. f2[m] = f[m] /\ f2[n] = More(f[m], n)
        BY <3>1, <4>1
      <4> QED
        BY <4>1, <4>2
    <3>2. CASE n \in 1 .. m
      <4>1. n \in 0 .. m /\ n # 0 /\ n - 1 \in 0 .. m + 1 /\ n - 1 # m + 1 /\ n # m + 1
        BY <3>2
      <4>2. f2[n] = f[n] /\ f2[n - 1] = f[n - 1]
        BY <4>1
      <4>3. f[n] = More(f[n - 1], n)
        BY <2>1, <4>1
      <4> QED
        BY <4>1, <4>2, <4>3
    <3>3. CASE n = 0
      BY <2>1, <3>3
    <3> QED
      BY <3>1, <3>2, <3>3
  <2>3. Run(f2, m + 1)
    BY <2>2
  <2> HIDE DEF f2, Run
  <2> QED
    BY <2>3
<1>3. L \in T
  <2> HIDE DEF T
  <2> QED
    BY <1>1, <1>2, NatSetInduction
<1> QED
  BY <1>3 DEF More, Downwards

Falling(s, n) ==
    /\ \A i \in 1 .. Len(s) : s[i] <= n
    /\ \A i, j \in 1 .. Len(s) : i < j => s[j] < s[i]
LEMMA FallsFrom ==
    ASSUME NEW S, S \subseteq Nat, NEW s \in Seq(S), NEW n \in Nat, Falling(s, n)
    PROVE  /\ Falling(s, n + 1)
           /\ n + 1 \in S => <<n + 1>> \o s \in Seq(S) /\ Falling(<<n + 1>> \o s, n + 1)
<1>1. Len(s) \in Nat /\ \A i \in 1 .. Len(s) : s[i] \in Nat
  BY LenProperties, ElementOfSeq
<1>2. Falling(s, n + 1)
  BY <1>1 DEF Falling
<1>3. ASSUME n + 1 \in S
      PROVE  <<n + 1>> \o s \in Seq(S) /\ Falling(<<n + 1>> \o s, n + 1)
  <2> DEFINE a == <<n + 1>>  t == a \o s
  <2>1. a \in Seq(S) /\ Len(a) = 1 /\ a[1] = n + 1
    BY <1>3
  <2> HIDE DEF a
  <2>2. t \in Seq(S) /\ Len(t) = 1 + Len(s) /\ \A i \in 1 .. Len(t) : t[i] = IF i <= 1 THEN a[i] ELSE s[i - 1]
    <3>1. /\ t \in Seq(S) /\ Len(t) = Len(a) + Len(s)
          /\ \A i \in 1 .. Len(a) + Len(s) : t[i] = IF i <= Len(a) THEN a[i] ELSE s[i - Len(a)]
      BY <2>1, ConcatProperties
    <3> HIDE DEF t
    <3> QED
      BY <2>1, <3>1
  <2> HIDE DEF t
  <2>3. t[1] = n + 1 /\ \A i \in 2 .. Len(t) : i - 1 \in 1 .. Len(s) /\ t[i] = s[i - 1]
    BY <1>1, <2>1, <2>2
  <2>4. \A i \in 2 .. Len(t) : t[i] \in Nat /\ t[i] <= n
    BY <1>1, <2>3 DEF Falling
  <2>5. \A i \in 1 .. Len(t) : i = 1 \/ i \in 2 .. Len(t)
    BY <1>1, <2>2
  <2>6. ASSUME NEW i \in 1 .. Len(t), NEW j \in 1 .. Len(t), i < j
        PROVE  t[j] < t[i]
    <3>1. j \in 2 .. Len(t)
      BY <1>1, <2>2, <2>6
    <3>2. CASE i = 1
      BY <2>3, <2>4, <3>1, <3>2
    <3>3. CASE i \in 2 .. Len(t)
      <4>1. i - 1 \in 1 .. Len(s) /\ j - 1 \in 1 .. Len(s) /\ i - 1 < j - 1
        BY <1>1, <2>2, <2>3, <2>6, <3>1, <3>3
      <4> QED
        BY <2>3, <3>1, <3>3, <4>1 DEF Falling
    <3> QED
      BY <2>5, <3>2, <3>3
  <2>7. \A i \in 1 .. Len(t) : t[i] <= n + 1
    BY <2>3, <2>4, <2>5
  <2> QED
    BY <2>2, <2>6, <2>7 DEF Falling, t, a
<1> QED
  BY <1>2, <1>3

(* Listed newest first, every commit is newer than the next.                *)
LEMMA NewestFirstType ==
    ASSUME NEW m \in Nat, NEW S, S \subseteq 1 .. m
    PROVE  /\ NewestFirst(S) \in Seq(S)
           /\ \A i, j \in 1 .. Len(NewestFirst(S)) : i < j => NewestFirst(S)[j] < NewestFirst(S)[i]
<1> DEFINE L == Max({0} \cup S)  listed == CHOOSE f : f = Downwards(S, L, f)
           T == {n \in Nat : n <= L => listed[n] \in Seq(S) /\ Falling(listed[n], n)}
<1>1. L \in Nat
  <2>1. {0} \cup S \subseteq 0 .. m /\ {0} \cup S # {}
    OBVIOUS
  <2>2. L \in {0} \cup S
    <3> DEFINE U == {0} \cup S
    <3>1. U \subseteq 0 .. m /\ U # {} /\ m \in Nat
      BY <2>1
    <3> HIDE DEF U
    <3>2. Max(U) \in U
      BY <3>1, MaxType
    <3> QED
      BY <3>2 DEF U
  <2> HIDE DEF L
  <2> QED
    BY <2>1, <2>2
<1>2. listed = Downwards(S, L, listed)
  <2> HIDE DEF L
  <2> QED
    BY <1>1, DownwardsExists
<1>3. NewestFirst(S) = listed[L]
  BY DEF NewestFirst, Downwards
<1> HIDE DEF listed, L
<1>4. listed[0] = <<>> /\ \A n \in 1 .. L : listed[n] = IF n \in S THEN <<n>> \o listed[n - 1] ELSE listed[n - 1]
  <2> DEFINE More(x, n) == IF n \in S THEN <<n>> \o x ELSE x
  <2>1. listed = [n \in 0 .. L |-> IF n = 0 THEN <<>> ELSE More(listed[n - 1], n)]
    BY <1>2 DEF Downwards
  <2>2. \A n \in 1 .. L : n \in 0 .. L /\ n # 0
    BY <1>1
  <2>3. 0 \in 0 .. L
    BY <1>1
  <2> HIDE DEF More
  <2>4. listed[0] = <<>> /\ \A n \in 1 .. L : listed[n] = More(listed[n - 1], n)
    BY <2>1, <2>2, <2>3
  <2> QED
    BY <2>4 DEF More
<1>5. 0 \in T
  <2>1. Falling(<<>>, 0)
    BY EmptySeq DEF Falling
  <2> QED
    BY <1>4, <2>1, EmptySeq
<1>6. ASSUME NEW n \in Nat, n \in T
      PROVE  n + 1 \in T
  <2> SUFFICES ASSUME n + 1 <= L
               PROVE  listed[n + 1] \in Seq(S) /\ Falling(listed[n + 1], n + 1)
    OBVIOUS
  <2>1. listed[n] \in Seq(S) /\ Falling(listed[n], n) /\ n + 1 \in 1 .. L /\ (n + 1) - 1 = n
    BY <1>1, <1>6
  <2>2. S \subseteq Nat
    OBVIOUS
  <2>3. /\ Falling(listed[n], n + 1)
        /\ n + 1 \in S => <<n + 1>> \o listed[n] \in Seq(S) /\ Falling(<<n + 1>> \o listed[n], n + 1)
    BY <2>1, <2>2, FallsFrom
  <2> QED
    BY <1>4, <2>1, <2>3
<1>7. L \in T
  <2> HIDE DEF T
  <2> QED
    BY <1>1, <1>5, <1>6, NatSetInduction
<1>8. listed[L] \in Seq(S) /\ Falling(listed[L], L)
  BY <1>1, <1>7
<1> QED
  BY <1>3, <1>8 DEF Falling

(* The names and the files that answers are made of.                        *)
SameRefs(g, h) ==
    /\ h.head = g.head /\ h.at = g.at /\ h.refs = g.refs /\ h.tag = g.tag
    /\ h.tracking = g.tracking /\ h.upstream = g.upstream
SameFiles(g, h) ==
    /\ h.index = g.index /\ h.conflict = g.conflict /\ h.wt = g.wt
    /\ HeadOid(h) = HeadOid(g)

LEMMA HistorySame ==
    ASSUME NEW g, Whole(g), NEW h, After(g, h)
    PROVE  /\ \A c \in Known(g) : Tree(h, c) = Tree(g, c)
           /\ \A c \in Born(g) : Parents(h, c) = Parents(g, c) /\ FirstParent(h, c) = FirstParent(g, c)
           /\ \A c \in Born(g) : Tree(h, FirstParent(h, c)) = Tree(g, FirstParent(g, c))
<1>0. Newest(g) \in Nat
  BY NewestType
<1>1. \A c \in Known(g) : Tree(h, c) = Tree(g, c)
  BY <1>0 DEF After, Grown, Tree, Known, Born
<1>2. \A c \in Born(g) : Parents(h, c) = Parents(g, c) /\ FirstParent(h, c) = FirstParent(g, c)
  BY DEF After, Grown, Parents, FirstParent
<1>3. \A c \in Born(g) : FirstParent(g, c) \in Known(g)
  <2> SUFFICES ASSUME NEW c \in Born(g)
               PROVE  FirstParent(g, c) \in Known(g)
    OBVIOUS
  <2>1. FirstParent(g, c) \in 0 .. c - 1
    BY ParentsOlder
  <2> QED
    BY <1>0, <2>1 DEF Known, Born
<1> QED
  BY <1>1, <1>2, <1>3

(* The commits HEAD leads to, and which of them tell hunks apart.           *)
LEMMA LogSame ==
    ASSUME NEW g, Whole(g), NEW h, After(g, h), HeadOid(h) = HeadOid(g)
    PROVE  /\ log(h) = log(g) /\ file_history(h) = file_history(g)
           /\ \A x : line_history(h, x) = line_history(g, x)
<1>1. Reach(h, HeadOid(h)) = Reach(g, HeadOid(g)) /\ Reach(g, HeadOid(g)) \subseteq Born(g)
  <2>1. HeadOid(g) \in Known(g) /\ Newest(g) \in Nat
    BY NewestType
  <2> QED
    BY <2>1, ReachSame DEF Known, Born
<1> DEFINE R == Reach(g, HeadOid(g))
<1>2. \A c \in R : /\ Tree(h, c) = Tree(g, c)
                   /\ Tree(h, FirstParent(h, c)) = Tree(g, FirstParent(g, c))
  <2>1. Born(g) \subseteq Known(g)
    BY NewestType DEF Born, Known
  <2> QED
    BY <1>1, <2>1, HistorySame
<1> HIDE DEF R
<1>3. log(h) = log(g)
  BY <1>1 DEF log
<1>4. file_history(h) = file_history(g)
  <2>1. {c \in R : Touches(h, c)} = {c \in R : Touches(g, c)}
    BY <1>2 DEF Touches
  <2> QED
    BY <1>1, <2>1 DEF file_history, R
<1>5. ASSUME NEW x
      PROVE  line_history(h, x) = line_history(g, x)
  <2>1. {c \in R : HunkOf(Tree(h, c), x) # HunkOf(Tree(h, FirstParent(h, c)), x)}
          = {c \in R : HunkOf(Tree(g, c), x) # HunkOf(Tree(g, FirstParent(g, c)), x)}
    BY <1>2
  <2> QED
    BY <1>1, <2>1 DEF line_history, R
<1> QED
  BY <1>3, <1>4, <1>5

-----------------------------------------------------------------------------
(* What an operation leaves alone.  The watcher does not look at upstreams;  *)
(* an operation that fails sets none.                                        *)

SameUpstream(g, h) == DOMAIN h = DOMAIN g /\ h.upstream = g.upstream

LEMMA UpstreamKept ==
    ASSUME NEW g, "upstream" \in DOMAIN g
    PROVE  /\ \A c, k : SameUpstream(g, Logged(g, c, k)) /\ SameUpstream(g, MoveHead(g, c, k))
           /\ \A tree, parents, k : SameUpstream(g, CommitOnHead(g, tree, parents, k))
           /\ SameUpstream(g, Concluded(g))
           /\ \A tree : SameUpstream(g, WithFiles(g, tree)) /\ SameUpstream(g, Replaced(g, tree))
           /\ \A base, ours, theirs : SameUpstream(g, Unmerged(g, base, ours, theirs))
           /\ \A r : SameUpstream(g, [g EXCEPT !.rebase = r])
<1>1. ASSUME NEW x, "upstream" \in DOMAIN x, NEW c, NEW k
      PROVE  SameUpstream(x, Logged(x, c, k))
  <2> DEFINE l == <<[oid |-> c, kind |-> k]>> \o SubSeq(x.reflog, 1, Min({1, Len(x.reflog)}))
  <2>1. Logged(x, c, k) = [x EXCEPT !.reflog = l]
    BY DEF Logged
  <2> HIDE DEF l
  <2> QED
    BY <1>1, <2>1 DEF SameUpstream
<1>2. ASSUME NEW x, "upstream" \in DOMAIN x, NEW c, NEW k
      PROVE  SameUpstream(x, MoveHead(x, c, k))
  <2> DEFINE m == IF x.head = Detached THEN [x EXCEPT !.at = c] ELSE [x EXCEPT !.refs[x.head] = c]
  <2>1. SameUpstream(x, m)
    BY <1>2 DEF SameUpstream
  <2>2. MoveHead(x, c, k) = Logged(m, c, k)
    BY DEF MoveHead
  <2> HIDE DEF m
  <2> QED
    BY <1>1, <1>2, <2>1, <2>2 DEF SameUpstream
<1>3. ASSUME NEW tree, NEW parents, NEW k
      PROVE  SameUpstream(g, CommitOnHead(g, tree, parents, k))
  <2> DEFINE m == NewCommit(g, tree, parents)
  <2>1. SameUpstream(g, m)
    BY DEF SameUpstream, NewCommit
  <2>2. CommitOnHead(g, tree, parents, k) = MoveHead(m, Newest(m), k)
    BY DEF CommitOnHead
  <2> HIDE DEF m
  <2> QED
    BY <1>2, <2>1, <2>2 DEF SameUpstream
<1>4. SameUpstream(g, Concluded(g))
  BY DEF SameUpstream, Concluded
<1>5. ASSUME NEW tree
      PROVE  SameUpstream(g, WithFiles(g, tree)) /\ SameUpstream(g, Replaced(g, tree))
  BY DEF SameUpstream, WithFiles, Replaced
<1>6. ASSUME NEW base, NEW ours, NEW theirs
      PROVE  SameUpstream(g, Unmerged(g, base, ours, theirs))
  BY DEF SameUpstream, Unmerged
<1>7. ASSUME NEW r
      PROVE  SameUpstream(g, [g EXCEPT !.rebase = r])
  BY DEF SameUpstream
<1> QED
  BY <1>1, <1>2, <1>3, <1>4, <1>5, <1>6, <1>7

LEMMA TodoStepUpstream ==
    ASSUME NEW g, "upstream" \in DOMAIN g, NEW files
    PROVE  SameUpstream(g, TodoStep(g, files))
<1> DEFINE line == Head(g.rebase.todo)
           next == [g EXCEPT !.rebase.todo = Tail(@), !.rebase.at = line]
           base == Tree(g, FirstParent(g, line.oid))
           theirs == Tree(g, line.oid)
           tree == Merge3(base, HeadTree(g), theirs)
           stop(why) == [next EXCEPT !.rebase.stop = why]
           put == Replaced(next, tree)
<1>1. SameUpstream(g, next)
  <2> DEFINE r == [[g.rebase EXCEPT !.todo = Tail(g.rebase.todo)] EXCEPT !.at = line]
  <2>1. next = [g EXCEPT !.rebase = r]
    <3> HIDE DEF line
    <3> QED OBVIOUS
  <2> HIDE DEF r, next
  <2> QED
    BY <2>1, UpstreamKept
<1> HIDE DEF line, next
<1>2. "upstream" \in DOMAIN next /\ next.upstream = g.upstream /\ DOMAIN next = DOMAIN g
  BY <1>1 DEF SameUpstream
<1>3. \A why : SameUpstream(g, stop(why))
  BY <1>2 DEF SameUpstream
<1>4. SameUpstream(g, put) /\ "upstream" \in DOMAIN put
  <2>1. SameUpstream(next, put)
    BY <1>2, UpstreamKept
  <2> QED
    BY <1>2, <2>1 DEF SameUpstream
<1>5. TodoStep(g, files) \in
        {Amended(next, HeadTree(g), "commit"), stop("exec"), [g EXCEPT !.rebase.stop = "untracked"],
         Unmerged(stop("conflict"), base, HeadTree(g), theirs), Amended(put, tree, "rebase"),
         MoveHead(put, line.oid, "rebase"), stop("empty"), CommitOnHead(put, tree, HeadAsParent(g), "rebase")}
  <2> HIDE DEF base, theirs, tree, stop, put
  <2> QED
    BY DEF TodoStep, line, next, base, theirs, tree, stop, put
<1>6. SameUpstream(g, [g EXCEPT !.rebase.stop = "untracked"])
  BY DEF SameUpstream
<1> HIDE DEF put, base, theirs, tree
<1>7. SameUpstream(g, Unmerged(stop("conflict"), base, HeadTree(g), theirs))
  <2> DEFINE s == stop("conflict")
  <2>1. SameUpstream(g, s)
    BY <1>3
  <2> HIDE DEF s
  <2>2. SameUpstream(s, Unmerged(s, base, HeadTree(g), theirs))
    BY <2>1, UpstreamKept DEF SameUpstream
  <2>3. SameUpstream(g, Unmerged(s, base, HeadTree(g), theirs))
    BY <2>1, <2>2 DEF SameUpstream
  <2> QED
    BY <2>3 DEF s
<1>8. SameUpstream(g, Amended(next, HeadTree(g), "commit"))
  BY <1>2, UpstreamKept DEF SameUpstream, Amended
<1>9. /\ SameUpstream(g, Amended(put, tree, "rebase")) /\ SameUpstream(g, MoveHead(put, line.oid, "rebase"))
      /\ SameUpstream(g, CommitOnHead(put, tree, HeadAsParent(g), "rebase"))
  BY <1>4, UpstreamKept DEF SameUpstream, Amended
<1> HIDE DEF stop
<1> QED
  BY <1>3, <1>5, <1>6, <1>7, <1>8, <1>9

LEMMA RunTodoUpstream ==
    ASSUME NEW g, Whole(g), NEW files
    PROVE  \A out \in RunTodo(g, files) : SameUpstream(g, out.git)
<1> DEFINE L == Len(g.rebase.todo)
           after == CHOOSE f : f = Lasting(g, files, L, f)
           T == {n \in Nat : n <= L => SameUpstream(g, after[n])}
<1>0. L \in Nat /\ "upstream" \in DOMAIN g
  BY LenProperties DEF Whole, Names, Rebases, Fields
<1>1. after = Lasting(g, files, L, after)
  <2> HIDE DEF L
  <2> QED
    BY <1>0, WorkedExists
<1>2. Worked(g, files) = after[L]
  BY DEF Worked, Lasting
<1> HIDE DEF after, L
<1>3. 0 \in T
  BY <1>0, <1>1 DEF Lasting, SameUpstream
<1>4. ASSUME NEW n \in Nat, n \in T
      PROVE  n + 1 \in T
  <2> SUFFICES ASSUME n + 1 <= L
               PROVE  SameUpstream(g, after[n + 1])
    OBVIOUS
  <2>1. SameUpstream(g, after[n])
    BY <1>0, <1>4
  <2>2. after[n + 1] = IF after[n].rebase.stop # "none" THEN after[n] ELSE TodoStep(after[n], files)
    <3>1. n + 1 \in 0 .. L /\ n + 1 # 0 /\ (n + 1) - 1 = n
      BY <1>0
    <3> QED
      BY <1>1, <3>1 DEF Lasting
  <2>3. SameUpstream(after[n], TodoStep(after[n], files))
    BY <1>0, <2>1, TodoStepUpstream DEF SameUpstream
  <2> QED
    BY <2>1, <2>2, <2>3 DEF SameUpstream
<1>5. SameUpstream(g, Worked(g, files))
  <2>1. L \in T
    <3> HIDE DEF T
    <3> QED
      BY <1>0, <1>3, <1>4, NatSetInduction
  <2> QED
    BY <1>0, <1>2, <2>1
<1> DEFINE ran == Worked(g, files)
<1>6. \A out \in RunTodo(g, files) : out.git \in {ran, Finished(ran)}
  BY DEF RunTodo, Ok, Err
<1>7. ran.upstream = g.upstream /\ DOMAIN ran = DOMAIN g /\ "upstream" \in DOMAIN g
  BY <1>0, <1>5 DEF SameUpstream
<1> HIDE DEF ran
<1>8. SameUpstream(ran, Finished(ran))
  <2> DEFINE b == ran.rebase.branch
             m == [ran EXCEPT !.refs[b] = HeadOid(ran), !.head = b, !.at = 0]
  <2>1. SameUpstream(ran, m)
    BY <1>7 DEF SameUpstream
  <2>2. Finished(ran) \in {Concluded(ran), ran, Logged(Concluded(m), HeadOid(ran), "rebase")}
    BY DEF Finished
  <2> HIDE DEF m
  <2>3. SameUpstream(m, Concluded(m)) /\ SameUpstream(ran, Concluded(ran))
    BY <1>7, <2>1, UpstreamKept DEF SameUpstream
  <2>4. SameUpstream(Concluded(m), Logged(Concluded(m), HeadOid(ran), "rebase"))
    <3> DEFINE x == Concluded(m)
    <3>1. "upstream" \in DOMAIN x
      BY <1>7, <2>1, <2>3 DEF SameUpstream
    <3> HIDE DEF x
    <3>2. \A k, l : SameUpstream(x, Logged(x, k, l))
      BY <3>1, UpstreamKept
    <3> QED
      BY <3>2 DEF x
  <2> QED
    BY <2>1, <2>2, <2>3, <2>4 DEF SameUpstream
<1> QED
  BY <1>6, <1>7, <1>8 DEF SameUpstream

LEMMA StartedUpstream ==
    ASSUME NEW g, Whole(g), NEW onto \in Born(g), NEW todo \in Seq(Lines(Newest(g))),
           MayReplace(g, Tree(g, onto))
    PROVE  \A out \in RunTodo(Started(g, onto, todo), TRUE) : SameUpstream(g, out.git)
<1> DEFINE s == Started(g, onto, todo)
           p == Replaced(g, Tree(g, onto))
           r == [NoRebase EXCEPT !.branch = g.head, !.orig = HeadOid(g), !.todo = todo]
           m == [p EXCEPT !.state = "Rebasing", !.head = Detached, !.at = onto, !.rebase = r]
<1>1. "upstream" \in DOMAIN g
  BY DEF Whole, Fields
<1>2. SameUpstream(g, s)
  <2>1. SameUpstream(g, p)
    BY <1>1, UpstreamKept
  <2> HIDE DEF p, r
  <2>2. SameUpstream(g, m) /\ "upstream" \in DOMAIN m
    BY <1>1, <2>1 DEF SameUpstream
  <2>3. s = Logged(m, onto, "rebase")
    BY DEF Started, s, m, p, r
  <2> HIDE DEF m, s
  <2>4. SameUpstream(m, s)
    BY <2>2, <2>3, UpstreamKept
  <2> QED
    BY <2>2, <2>4 DEF SameUpstream
<1>3. Whole(s)
  BY StartedSafe
<1> HIDE DEF s
<1>4. \A out \in RunTodo(s, TRUE) : SameUpstream(s, out.git)
  BY <1>3, RunTodoUpstream
<1>5. \A out \in RunTodo(s, TRUE) : SameUpstream(g, out.git)
  BY <1>2, <1>4 DEF SameUpstream
<1> QED
  BY <1>5 DEF s

LEMMA RebasesUpstream ==
    ASSUME NEW g, Whole(g), NEW c \in Born(g), NEW steps \in Steps(Newest(g))
    PROVE  /\ \A out \in Rebased(g, c) : SameUpstream(g, out.git)
           /\ \A out \in interactive_rebase(g, c, steps) : SameUpstream(g, out.git)
<1> DEFINE picks == Picks(g, Reach(g, HeadOid(g)) \ Reach(g, c))  ran == RunTodo(Started(g, c, picks), TRUE)
           todo == Todo(steps)  run == RunTodo(Started(g, c, todo), TRUE)
<1>1. picks \in Seq(Lines(Newest(g))) /\ todo \in Seq(Lines(Newest(g))) /\ SameUpstream(g, g)
  BY PicksType, TodoType, NewestType DEF SameUpstream
<1> HIDE DEF picks, todo
<1>2. MayReplace(g, Tree(g, c)) => \A out \in ran \cup run : SameUpstream(g, out.git)
  BY <1>1, StartedUpstream
<1> HIDE DEF ran, run
<1>3. \/ Rebased(g, c) \in {Ok(g), Err("Backend", g)}
      \/ MayReplace(g, Tree(g, c)) /\ Rebased(g, c) = ran
  BY Zenon DEF Rebased, ran, picks
<1>4. \/ interactive_rebase(g, c, steps) \in {Ok(g), Err("Backend", g)}
      \/ MayReplace(g, Tree(g, c)) /\ interactive_rebase(g, c, steps) = run
  BY Zenon DEF interactive_rebase, run, todo
<1>5. \A out \in Ok(g) \cup Err("Backend", g) : out.git = g
  BY DEF Ok, Err
<1> QED
  BY <1>1, <1>2, <1>3, <1>4, <1>5

LEMMA MergesUpstream ==
    ASSUME NEW g, "upstream" \in DOMAIN g, NEW c
    PROVE  /\ \A k : \A out \in Merged(g, c, k) : SameUpstream(g, out.git)
           /\ \A base, theirs, s, k : \A out \in Picked(g, c, base, theirs, s, k) : SameUpstream(g, out.git)
<1>1. SameUpstream(g, g)
  BY DEF SameUpstream
<1>2. ASSUME NEW tree, NEW parents, NEW k
      PROVE  /\ SameUpstream(g, CommitOnHead(Replaced(g, tree), tree, parents, k))
             /\ SameUpstream(g, MoveHead(Replaced(g, tree), c, k))
  <2> DEFINE x == Replaced(g, tree)
  <2>1. SameUpstream(g, x) /\ "upstream" \in DOMAIN x
    BY UpstreamKept DEF SameUpstream
  <2> HIDE DEF x
  <2>2. SameUpstream(x, CommitOnHead(x, tree, parents, k)) /\ SameUpstream(x, MoveHead(x, c, k))
    BY <2>1, UpstreamKept
  <2>3. SameUpstream(g, CommitOnHead(x, tree, parents, k)) /\ SameUpstream(g, MoveHead(x, c, k))
    BY <2>1, <2>2 DEF SameUpstream
  <2> QED
    BY <2>3 DEF x
<1>3. ASSUME NEW k, NEW out \in Merged(g, c, k)
      PROVE  SameUpstream(g, out.git)
  <2> DEFINE head == HeadOid(g)
             base == Tree(g, MergeBase(g, head, c))
             tree == Merge3(base, HeadTree(g), Tree(g, c))
             u == Unmerged(g, base, HeadTree(g), Tree(g, c))
  <2>1. out.git \in {g, MoveHead(Replaced(g, Tree(g, c)), c, k), [u EXCEPT !.state = "Merging", !.other = c],
                     CommitOnHead(Replaced(g, tree), tree, <<head, c>>, k)}
    BY <1>3 DEF Merged, Ok, Err
  <2>2. SameUpstream(g, u)
    <3> HIDE DEF base
    <3> QED
      BY UpstreamKept
  <2> HIDE DEF u, tree, head
  <2>3. SameUpstream(g, [u EXCEPT !.state = "Merging", !.other = c])
    BY <2>2 DEF SameUpstream
  <2> QED
    BY <1>1, <1>2, <2>1, <2>3
<1>4. ASSUME NEW base, NEW theirs, NEW s, NEW k, NEW out \in Picked(g, c, base, theirs, s, k)
      PROVE  SameUpstream(g, out.git)
  <2> DEFINE tree == Merge3(base, HeadTree(g), theirs)
             stopped == [g EXCEPT !.state = s, !.other = c]
  <2>1. out.git \in {g, Unmerged(stopped, base, HeadTree(g), theirs), stopped,
                     CommitOnHead(Replaced(g, tree), tree, <<HeadOid(g)>>, k)}
    BY <1>4 DEF Picked, Ok, Err
  <2>2. SameUpstream(g, stopped) /\ "upstream" \in DOMAIN stopped
    BY DEF SameUpstream
  <2> HIDE DEF stopped, tree
  <2>3. SameUpstream(stopped, Unmerged(stopped, base, HeadTree(g), theirs))
    BY <2>2, UpstreamKept
  <2> QED
    BY <1>1, <1>2, <2>1, <2>2, <2>3 DEF SameUpstream
<1> QED
  BY <1>3, <1>4

LEMMA PullUpstream ==
    ASSUME NEW g, Whole(g), NEW rebase \in BOOLEAN
    PROVE  \A out \in pull(g, rebase) : SameUpstream(g, out.git)
<1> DEFINE r == IF g.head = Detached THEN NoRemote ELSE g.upstream[g.head]
           got == Fetched(g, r)  theirs == got.tracking[r][g.head]
<1>1. "upstream" \in DOMAIN g /\ SameUpstream(g, g)
  BY DEF Whole, Fields, SameUpstream
<1>2. r # NoRemote => r \in Remote /\ g.head \in Branch
  BY DEF Whole, Names
<1>3. SameUpstream(g, got)
  <2> HIDE DEF r
  <2> QED
    BY <1>1 DEF SameUpstream, Fetched
<1>4. ASSUME r # NoRemote
      PROVE  Whole(got) /\ (theirs # 0 => theirs \in Born(got))
  <2>1. r \in Remote /\ g.head \in Branch
    BY <1>2, <1>4
  <2> HIDE DEF r
  <2>2. Safe(g, got) /\ got.tracking[r] \in [Branch -> Known(g)] /\ Newest(got) = Newest(g)
    BY <2>1, FetchedSafe
  <2> HIDE DEF got
  <2> QED
    BY <2>1, <2>2, NewestType DEF Known, Born, Safe, After
<1>5. \A out \in pull(g, rebase) :
         \/ out.git = g
         \/ r # NoRemote /\ out.git = got
         \/ r # NoRemote /\ theirs # 0 /\ out \in Rebased(got, theirs) \cup Merged(got, theirs, "pull")
  <2> HIDE DEF got, r, theirs
  <2> QED
    BY SMTT(90) DEF pull, Err, got, r, theirs
<1>6. ASSUME r # NoRemote, theirs # 0, NEW out \in Rebased(got, theirs) \cup Merged(got, theirs, "pull")
      PROVE  SameUpstream(g, out.git)
  <2>1. Whole(got) /\ theirs \in Born(got) /\ "upstream" \in DOMAIN got
    BY <1>1, <1>3, <1>4, <1>6 DEF SameUpstream
  <2> HIDE DEF theirs, got
  <2>2. <<>> \in Steps(Newest(got))
    BY EmptySeq DEF Steps
  <2>3. SameUpstream(got, out.git)
    BY <1>6, <2>1, <2>2, RebasesUpstream, MergesUpstream
  <2> QED
    BY <1>3, <2>3 DEF SameUpstream
<1> HIDE DEF got, r, theirs
<1> QED
  BY <1>1, <1>3, <1>5, <1>6

LEMMA ResumeWhole ==
    ASSUME NEW g, Whole(g)
    PROVE  LET go == [g EXCEPT !.rebase.stop = "none"]
               fixed == Amended(go, g.index, "rebase")
               made == CommitOnHead(go, g.index, HeadAsParent(g), "rebase")
           IN  /\ Safe(g, go) /\ Whole(go) /\ go.state = g.state
               /\ g.state # "Clean" => \A x \in {go, fixed, made} : Safe(g, x) /\ Whole(x) /\ x.state = g.state
<1> DEFINE r == [g.rebase EXCEPT !.stop = "none"]  go == [g EXCEPT !.rebase.stop = "none"]
           fixed == Amended(go, g.index, "rebase")
           made == CommitOnHead(go, g.index, HeadAsParent(g), "rebase")
<1>1. g.state # "Clean" => HeadOid(g) # 0
  BY DEF Whole
<1>2. /\ Safe(g, go) /\ Whole(go) /\ HeadOid(go) = HeadOid(g) /\ Newest(go) = Newest(g)
      /\ go.state = g.state
  <2>1. r \in Rebases(Newest(g))
    BY DEF Whole, Names, Rebases
  <2>2. go = [g EXCEPT !.rebase = r]
    OBVIOUS
  <2> HIDE DEF r, go
  <2> DEFINE x == [g EXCEPT !.rebase = r]
  <2>3. /\ Safe(g, x) /\ Whole(x) /\ HeadOid(x) = HeadOid(g) /\ Newest(x) = Newest(g)
        /\ \A f \in Fields \ {"rebase"} : x[f] = g[f]
    BY <2>1, RebaseWhole
  <2> HIDE DEF x
  <2> QED
    BY <2>2, <2>3 DEF Fields, x
<1> HIDE DEF go
<1>3. ASSUME g.state # "Clean"
      PROVE  \A x \in {go, fixed, made} : Safe(g, x) /\ Whole(x) /\ x.state = g.state
  <2>1. Safe(go, fixed) /\ fixed.state = g.state
    BY <1>1, <1>2, <1>3, AmendedSafe DEF ReflogKind
  <2>2. Rooted(HeadAsParent(g), Newest(go))
    BY <1>2, ParentsRooted
  <2>3. Safe(go, made) /\ made.state = g.state
    BY <1>2, <2>2, CommitSafe DEF ReflogKind, Fields
  <2> HIDE DEF fixed, made
  <2>4. Safe(g, fixed) /\ Safe(g, made)
    BY <1>2, <2>1, <2>3, SafeTrans
  <2> QED
    BY <1>2, <2>1, <2>3, <2>4 DEF Safe, After
<1> QED
  BY <1>2, <1>3 DEF go

LEMMA ContinueUpstream ==
    ASSUME NEW g, Whole(g)
    PROVE  \A out \in continue_op(g) : SameUpstream(g, out.git) \/ out.git = g \/ out.res = "Ok"
<1> DEFINE go == [g EXCEPT !.rebase.stop = "none"]
           fixed == Amended(go, g.index, "rebase")
           made == CommitOnHead(go, g.index, HeadAsParent(g), "rebase")
<1>1. "upstream" \in DOMAIN g
  BY DEF Whole, Fields
<1>2. /\ Whole(go) /\ SameUpstream(g, go) /\ "upstream" \in DOMAIN go
      /\ g.state # "Clean" => Whole(fixed) /\ Whole(made)
  <2>1. g.state # "Clean" => \A x \in {go, fixed, made} : Whole(x)
    BY ResumeWhole
  <2>2. Whole(go)
    BY ResumeWhole
  <2>3. SameUpstream(g, go)
    BY <1>1 DEF SameUpstream
  <2> QED
    BY <1>1, <2>1, <2>2, <2>3 DEF SameUpstream
<1> HIDE DEF go
<1>3. SameUpstream(g, fixed) /\ SameUpstream(g, made)
  BY <1>2, UpstreamKept DEF SameUpstream, Amended
<1> HIDE DEF fixed, made
<1>4. ASSUME g.state # "Clean", NEW x \in {go, fixed, made}, NEW out \in RunTodo(x, FALSE)
      PROVE  SameUpstream(g, out.git)
  <2>1. Whole(x) /\ SameUpstream(g, x)
    BY <1>2, <1>3, <1>4
  <2>2. SameUpstream(x, out.git)
    BY <1>4, <2>1, RunTodoUpstream
  <2> QED
    BY <2>1, <2>2 DEF SameUpstream
<1>5. ResumeRebase(g) \in {RunTodo(go, FALSE), RunTodo(fixed, FALSE), RunTodo(made, FALSE)}
  BY Zenon DEF ResumeRebase, go, fixed, made
<1>6. ASSUME NEW out \in commit(g)
      PROVE  out.git = g \/ out.res = "Ok"
  BY <1>6 DEF commit, Ok, Err
<1>7. ASSUME NEW out \in continue_op(g)
      PROVE  \/ out.git = g \/ out.res = "Ok" \/ out \in commit(g)
             \/ g.state # "Clean" /\ out \in ResumeRebase(g)
  <2>1. g.state \in RepoState
    BY DEF Whole, Names
  <2>2. CASE g.state = "Clean"
    BY <1>7, <2>2 DEF continue_op, Err
  <2>3. CASE g.state # "Clean" /\ g.conflict # NoConflict
    BY <1>7, <2>3 DEF continue_op, Err
  <2>4. CASE g.state = "Merging" /\ g.conflict = NoConflict
    BY <1>7, <2>4 DEF continue_op
  <2>5. CASE g.state = "Rebasing" /\ g.conflict = NoConflict
    BY <1>7, <2>5 DEF continue_op, Err
  <2>6. CASE g.state \in {"CherryPicking", "Reverting"} /\ g.conflict = NoConflict
    BY <1>7, <2>6 DEF continue_op, Err, Ok
  <2> QED
    BY <2>1, <2>2, <2>3, <2>4, <2>5, <2>6 DEF RepoState
<1> QED
  BY <1>4, <1>5, <1>6, <1>7

(* An operation that fails leaves every upstream as it was.                  *)
LEMMA FailureKeepsUpstream ==
    ASSUME NEW g, Whole(g), NEW op \in Operations, NEW arg, ArgFits(g, op, arg),
           NEW out \in Outcomes(g, op, arg), out.res # "Ok"
    PROVE  out.git.upstream = g.upstream
<1> DEFINE Goal == out.git.upstream = g.upstream
<1>1. "upstream" \in DOMAIN g
  BY DEF Whole, Fields
<1>2. SameUpstream(g, out.git) \/ out.git = g => Goal
  BY DEF SameUpstream
<1>3. CASE op = "pull"
  BY <1>2, <1>3, PullUpstream DEF Outcomes, ArgFits
<1>4. CASE op \in {"merge_branch", "cherry_pick", "revert"}
  BY <1>1, <1>2, <1>4, MergesUpstream DEF Outcomes, merge_branch, cherry_pick, revert, Err
<1>5. CASE op = "interactive_rebase"
  BY <1>2, <1>5, RebasesUpstream DEF Outcomes, ArgFits
<1>6. CASE op = "continue_op"
  BY <1>2, <1>6, ContinueUpstream DEF Outcomes
<1>7. CASE op \in {"stash_apply", "stash_pop"}
  <2> DEFINE s == g.stash[arg]  tree == Merge3(s.base, HeadTree(g), s.wt)
  <2>1. out.git \in {g, Unmerged(g, s.base, HeadTree(g), s.wt)}
    <3>1. out \in StashApplied(g, arg, op = "stash_pop")
      BY <1>7 DEF Outcomes, stash_apply, stash_pop
    <3> QED
      BY <3>1 DEF StashApplied, Ok, Err
  <2> HIDE DEF s
  <2> QED
    BY <1>1, <1>2, <2>1, UpstreamKept
<1>8. CASE op \in {"stage", "unstage", "stage_hunk", "unstage_hunk", "resolve_ours", "resolve_theirs"}
  BY <1>2, <1>8 DEF Outcomes, stage, unstage, stage_hunk, unstage_hunk, resolve_side, Ok, Err
<1>9. CASE op \in {"stash_save", "stash_drop", "set_upstream", "create_branch", "create_and_checkout", "delete_branch"}
  BY <1>2, <1>9 DEF Outcomes, stash_save, stash_drop, set_upstream, create_branch, delete_branch, Ok, Err
<1>10. CASE op \in {"fetch", "push", "create_tag", "delete_tag", "add_remote", "remove_remote", "rename_remote"}
  BY <1>2, <1>10, SMTT(30) DEF Outcomes, fetch, push, create_tag, delete_tag, add_remote, remove_remote, rename_remote, Ok, Err
<1>11. CASE op \in {"commit", "amend_commit", "checkout_branch", "abort_op"}
  BY <1>2, <1>11 DEF Outcomes, commit, amend_commit, checkout_branch, abort_op, Ok, Err
<1>12. CASE op = "reset"
  <2>1. arg.mode \in {"Soft", "Mixed", "Hard"}
    BY <1>12 DEF ArgFits
  <2>2. out \in reset(g, arg.to, arg.mode)
    BY <1>12 DEF Outcomes
  <2>3. CASE arg.mode = "Soft"
    <3> DEFINE moved == MoveHead(g, arg.to, "reset")
    <3> HIDE DEF moved
    <3>1. reset(g, arg.to, arg.mode) \in {Err("Backend", g), Ok(moved)}
      BY <2>3 DEF reset, moved
    <3>2. out \in Err("Backend", g)
      BY <2>2, <3>1 DEF Ok
    <3> QED
      BY <1>2, <3>2 DEF Err
  <2>4. CASE arg.mode = "Mixed"
    BY <2>2, <2>4 DEF reset, Ok
  <2>5. CASE arg.mode = "Hard"
    BY <2>2, <2>5 DEF reset, Ok
  <2> QED
    BY <2>1, <2>3, <2>4, <2>5
<1> QED
  BY <1>3, <1>4, <1>5, <1>6, <1>7, <1>8, <1>9, <1>10, <1>11, <1>12
     DEF Operations, IndexWrites, ConflictWrites, StashWrites, RefWrites, TreeWrites

(* Writes of files leave the names alone, writes of names the files.         *)
FileWrites == IndexWrites \cup ConflictWrites \cup StashWrites \cup {"stash_drop"}
LEMMA FileWritesKeepRefs ==
    ASSUME NEW g, Whole(g), NEW op \in FileWrites, NEW arg, NEW out \in Outcomes(g, op, arg)
    PROVE  SameRefs(g, out.git)
<1>1. {"head", "at", "refs", "tag", "tracking", "upstream"} \subseteq DOMAIN g
  BY DEF Whole, Fields
<1>2. SameRefs(g, g) /\ \A tree : SameRefs(g, WithFiles(g, tree))
  BY <1>1 DEF SameRefs, WithFiles
<1>3. CASE op \in {"stage", "unstage"}
  <2>1. SameRefs(g, [g EXCEPT !.index = g.wt, !.conflict = NoConflict])
        /\ SameRefs(g, [g EXCEPT !.index = HeadTree(g), !.conflict = NoConflict])
    BY <1>1 DEF SameRefs
  <2> QED
    BY <1>2, <1>3, <2>1 DEF Outcomes, stage, unstage, Ok, Err
<1>4. CASE op = "stage_hunk"
  <2> DEFINE diff == Hunks(g.index, g.wt)  h == [g EXCEPT !.index[diff[arg]] = g.wt[diff[arg]]]
  <2>1. out.git \in {g, h}
    BY <1>4 DEF Outcomes, stage_hunk, Ok, Err
  <2>2. SameRefs(g, h)
    <3> HIDE DEF diff
    <3> QED
      BY <1>1 DEF SameRefs
  <2> QED
    BY <1>2, <2>1, <2>2
<1>5. CASE op = "unstage_hunk"
  <2> DEFINE diff == Hunks(HeadTree(g), g.index)  h == [g EXCEPT !.index[diff[arg]] = HeadTree(g)[diff[arg]]]
  <2>1. out.git \in {g, h}
    BY <1>5 DEF Outcomes, unstage_hunk, Ok, Err
  <2>2. SameRefs(g, h)
    <3> HIDE DEF diff
    <3> QED
      BY <1>1 DEF SameRefs
  <2> QED
    BY <1>2, <2>1, <2>2
<1>6. CASE op \in {"resolve_ours", "resolve_theirs"}
  <2>1. SameRefs(g, [g EXCEPT !.wt = g.index])
    BY <1>1 DEF SameRefs
  <2>2. out.git \in {g, [g EXCEPT !.wt = g.index], WithFiles(g, g.conflict.ours), WithFiles(g, g.conflict.theirs)}
    BY <1>6 DEF Outcomes, resolve_side, Ok, Err
  <2> QED
    BY <1>2, <2>1, <2>2
<1>7. CASE op = "stash_save"
  <2> DEFINE s == <<[base |-> HeadTree(g), wt |-> g.wt]>> \o g.stash  h == [g EXCEPT !.stash = s]
  <2>1. out.git \in {g, WithFiles(h, HeadTree(g))}
    BY <1>7 DEF Outcomes, stash_save, Ok, Err
  <2> HIDE DEF s
  <2>2. SameRefs(g, WithFiles(h, HeadTree(g)))
    BY <1>1 DEF SameRefs, WithFiles
  <2> QED
    BY <1>2, <2>1, <2>2
<1>8. CASE op \in {"stash_apply", "stash_pop"}
  <2> DEFINE s == g.stash[arg]
             tree == Merge3(s.base, HeadTree(g), s.wt)
             put == [g EXCEPT !.wt = tree, !.index = IF @ = Absent THEN tree ELSE @]
             drop == op = "stash_pop"
  <2>1. out \in StashApplied(g, arg, drop)
    BY <1>8 DEF Outcomes, stash_apply, stash_pop
  <2>2. out.git \in {g, Unmerged(g, s.base, HeadTree(g), s.wt), put, StashDropped(put, arg), StashDropped(g, arg)}
    <3> HIDE DEF drop
    <3> QED
      BY <2>1 DEF StashApplied, Ok, Err
  <2> HIDE DEF s, tree
  <2>3. /\ SameRefs(g, Unmerged(g, s.base, HeadTree(g), s.wt))
        /\ SameRefs(g, put) /\ {"head", "at", "refs", "tag", "tracking", "upstream"} \subseteq DOMAIN put
    BY <1>1 DEF SameRefs, Unmerged
  <2> HIDE DEF put
  <2>4. SameRefs(g, StashDropped(put, arg)) /\ SameRefs(g, StashDropped(g, arg))
    BY <1>1, <2>3 DEF SameRefs, StashDropped
  <2> QED
    BY <1>2, <2>2, <2>3, <2>4
<1>9. CASE op = "stash_drop"
  <2>1. SameRefs(g, StashDropped(g, arg))
    BY <1>1 DEF SameRefs, StashDropped
  <2> QED
    BY <1>2, <1>9, <2>1 DEF Outcomes, stash_drop, Ok, Err
<1> QED
  BY <1>3, <1>4, <1>5, <1>6, <1>7, <1>8, <1>9 DEF FileWrites, IndexWrites, ConflictWrites, StashWrites

LEMMA RefWritesKeepFiles ==
    ASSUME NEW g, Whole(g), NEW op \in RefWrites \cup {"create_and_checkout"}, NEW arg, ArgFits(g, op, arg),
           NEW out \in Outcomes(g, op, arg)
    PROVE  SameFiles(g, out.git)
<1>1. {"index", "conflict", "wt", "head", "at", "refs"} \subseteq DOMAIN g /\ Detached \notin Branch
  BY GitAssumption DEF Whole, Fields
<1>2. SameFiles(g, g)
  BY DEF SameFiles
<1> DEFINE Still(h) == \A f \in {"index", "conflict", "wt", "head", "at", "refs"} : h[f] = g[f]
<1>3. \A h : Still(h) => SameFiles(g, h)
  BY DEF SameFiles, HeadOid
<1>4. CASE op \in {"create_branch", "create_and_checkout", "delete_branch"}
  <2>1. arg \in Branch /\ g.refs \in [Branch -> 0 .. Newest(g)]
    BY <1>4 DEF ArgFits, BranchNamed, Whole, Names
  <2> DEFINE h == [g EXCEPT !.refs[arg] = HeadOid(g)]
             k == [g EXCEPT !.refs[arg] = 0, !.upstream[arg] = NoRemote]
  <2>2. \/ out.git = g
        \/ out.git = h /\ HeadOid(g) # 0 /\ g.refs[arg] = 0
        \/ out.git = k /\ ~ (g.head = arg /\ HeadOid(g) # 0) /\ g.refs[arg] # 0
    BY <1>4 DEF Outcomes, create_branch, delete_branch, Ok, Err
  <2>3. ASSUME out.git = h, HeadOid(g) # 0, g.refs[arg] = 0
        PROVE  SameFiles(g, h)
    BY <1>1, <2>1, <2>3 DEF SameFiles, HeadOid
  <2>4. ASSUME out.git = k, ~ (g.head = arg /\ HeadOid(g) # 0), g.refs[arg] # 0
        PROVE  SameFiles(g, k)
    BY <1>1, <2>1, <2>4 DEF SameFiles, HeadOid
  <2> HIDE DEF h, k
  <2> QED
    BY <1>2, <2>2, <2>3, <2>4
<1>5. CASE op \in {"create_tag", "delete_tag", "add_remote", "set_upstream"}
  BY <1>1, <1>2, <1>3, <1>5 DEF Outcomes, create_tag, delete_tag, add_remote, set_upstream, Ok, Err
<1>6. CASE op = "remove_remote"
  <2> DEFINE u == [b \in Branch |-> IF g.upstream[b] = arg THEN NoRemote ELSE g.upstream[b]]
             h == [g EXCEPT !.remotes = @ \ {arg}, !.tracking[arg] = NoTracking, !.upstream = u]
  <2>1. out.git \in {g, h}
    BY <1>6 DEF Outcomes, remove_remote, Ok, Err
  <2>2. Still(h)
    <3> HIDE DEF u
    <3> QED
      BY <1>1
  <2> QED
    BY <1>2, <1>3, <2>1, <2>2
<1>7. CASE op = "rename_remote"
  <2> DEFINE u == [b \in Branch |-> IF g.upstream[b] = arg.old THEN arg.new ELSE g.upstream[b]]
             r == (g.remotes \ {arg.old}) \cup {arg.new}
             t == [g.tracking EXCEPT ![arg.new] = g.tracking[arg.old], ![arg.old] = NoTracking]
             h == [g EXCEPT !.remotes = r, !.tracking = t, !.upstream = u]
  <2>1. out.git \in {g, h}
    BY <1>7 DEF Outcomes, rename_remote, Ok, Err
  <2>2. Still(h)
    <3> HIDE DEF u, r, t
    <3> QED
      BY <1>1
  <2> QED
    BY <1>2, <1>3, <2>1, <2>2
<1>8. CASE op = "fetch"
  <2>1. \A r : Still(Fetched(g, r))
    BY <1>1 DEF Fetched
  <2>2. out.git = g \/ \E r : out.git = Fetched(g, r)
    BY <1>8 DEF Outcomes, fetch, Ok, Err
  <2> QED
    BY <1>2, <1>3, <2>1, <2>2
<1>9. CASE op = "push"
  <2> DEFINE r == IF g.head = Detached THEN NoRemote ELSE g.upstream[g.head]
             to == IF r # NoRemote THEN r ELSE CHOOSE x \in g.remotes : TRUE
             h == [g EXCEPT !.server[g.head] = HeadOid(g), !.tracking[to][g.head] = HeadOid(g), !.upstream[g.head] = to]
  <2>1. out.git \in {g, h}
    BY <1>9 DEF Outcomes, push, Ok, Err
  <2>2. Still(h)
    <3> HIDE DEF to
    <3> QED
      BY <1>1
  <2> QED
    BY <1>2, <1>3, <2>1, <2>2
<1> QED
  BY <1>4, <1>5, <1>6, <1>7, <1>8, <1>9 DEF RefWrites

-----------------------------------------------------------------------------
(* An answer is made of names or of files: while these stay, so does it,    *)
(* however many commits are added.                                           *)
SyncSame(g, h) == Local(h) = Local(g) /\ Tracked(h) = Tracked(g) /\ sync_commits(h) = sync_commits(g)
LEMMA SyncKept ==
    ASSUME NEW g, Whole(g), NEW h, After(g, h), SameRefs(g, h)
    PROVE  SyncSame(g, h)
<1>1. /\ g.refs \in [Branch -> Known(g)] /\ g.tracking \in [Remote -> [Branch -> Known(g)]]
      /\ h.refs = g.refs /\ h.tracking = g.tracking
  BY DEF Whole, Names, Known, SameRefs
<1>2. \A c \in Known(g) : Reach(h, c) = Reach(g, c)
  BY ReachSame
<1>3. Local(h) = Local(g)
  <2>1. \A b \in Branch : Reach(h, h.refs[b]) = Reach(g, g.refs[b])
    BY <1>1, <1>2
  <2>2. {Reach(h, h.refs[b]) : b \in Branch} = {Reach(g, g.refs[b]) : b \in Branch}
    BY <2>1
  <2> QED
    BY <2>2 DEF Local
<1>4. Tracked(h) = Tracked(g)
  <2>1. \A r \in Remote, b \in Branch : Reach(h, h.tracking[r][b]) = Reach(g, g.tracking[r][b])
    BY <1>1, <1>2
  <2>2. {Reach(h, h.tracking[r][b]) : r \in Remote, b \in Branch}
          = {Reach(g, g.tracking[r][b]) : r \in Remote, b \in Branch}
    BY <2>1
  <2> QED
    BY <2>2 DEF Tracked
<1> QED
  BY <1>3, <1>4 DEF SyncSame, sync_commits

LEMMA AheadSame ==
    ASSUME NEW g, Whole(g), NEW h, After(g, h), SameRefs(g, h)
    PROVE  ahead_behind(h) = ahead_behind(g)
<1> DEFINE r == IF g.head = Detached THEN NoRemote ELSE g.upstream[g.head]
           up == IF r = NoRemote THEN 0 ELSE g.tracking[r][g.head]
<1>1. /\ HeadOid(h) = HeadOid(g) /\ HeadOid(g) \in Known(g)
      /\ h.head = g.head /\ h.upstream = g.upstream /\ h.tracking = g.tracking
  BY NewestType DEF SameRefs, HeadOid
<1>2. up \in Known(g)
  <2>1. Newest(g) \in Nat
    BY NewestType
  <2>2. g.head # Detached => g.head \in Branch /\ g.upstream[g.head] \in Remote \cup {NoRemote}
    BY DEF Whole, Names
  <2>3. r = NoRemote \/ (r \in Remote /\ g.head \in Branch)
    BY <2>2
  <2>4. g.tracking \in [Remote -> [Branch -> 0 .. Newest(g)]]
    BY DEF Whole, Names
  <2> HIDE DEF r
  <2> QED
    BY <2>1, <2>3, <2>4 DEF Known
<1>3. Reach(h, HeadOid(g)) = Reach(g, HeadOid(g)) /\ Reach(h, up) = Reach(g, up)
  <2> HIDE DEF up
  <2> QED
    BY <1>1, <1>2, ReachSame
<1>4. /\ ahead_behind(g) = IF HeadOid(g) = 0 \/ up = 0 THEN <<>>
                           ELSE <<Cardinality(Reach(g, HeadOid(g)) \ Reach(g, up)),
                                  Cardinality(Reach(g, up) \ Reach(g, HeadOid(g)))>>
      /\ ahead_behind(h) = IF HeadOid(g) = 0 \/ up = 0 THEN <<>>
                           ELSE <<Cardinality(Reach(h, HeadOid(g)) \ Reach(h, up)),
                                  Cardinality(Reach(h, up) \ Reach(h, HeadOid(g)))>>
  BY <1>1 DEF ahead_behind
<1> HIDE DEF up
<1> QED
  BY <1>3, <1>4

LEMMA RefViewsSame ==
    ASSUME NEW g, Whole(g), NEW h, After(g, h), SameRefs(g, h), NEW k \in RefKeys
    PROVE  View(h, k) = View(g, k)
<1>1. HeadOid(h) = HeadOid(g)
  BY DEF SameRefs, HeadOid
<1>2. /\ log(h) = log(g) /\ file_history(h) = file_history(g)
      /\ \A x : line_history(h, x) = line_history(g, x)
  BY <1>1, LogSame
<1>3. CASE k = "compare"
  <2>1. \A b \in Branch : h.refs[b] = g.refs[b] /\ g.refs[b] \in Known(g)
    BY DEF Whole, Names, Known, SameRefs
  <2>2. \A b \in Branch : Tree(h, h.refs[b]) = Tree(g, g.refs[b])
    BY <2>1, HistorySame
  <2>3. \A a, b \in Branch : compare_files(h, a, b) = compare_files(g, a, b)
    BY <2>2 DEF compare_files
  <2>4. /\ View(h, k) = [ab \in Branch \X Branch |-> compare_files(h, ab[1], ab[2])]
        /\ View(g, k) = [ab \in Branch \X Branch |-> compare_files(g, ab[1], ab[2])]
    BY <1>3 DEF View
  <2> QED
    BY <2>3, <2>4
<1>4. CASE k = "ahead_behind"
  BY <1>4, AheadSame DEF View
<1>5. CASE k = "line_history"
  <2>1. /\ View(h, k) = [x \in Hunk |-> line_history(h, x)]
        /\ View(g, k) = [x \in Hunk |-> line_history(g, x)]
    BY <1>5 DEF View
  <2> QED
    BY <1>2, <2>1
<1>6. CASE k \in {"log", "file_history"}
  BY <1>2, <1>6 DEF View
<1>7. CASE k = "refs"
  BY <1>1, <1>7 DEF View, refs, SameRefs
<1>8. CASE k \in {"branches", "current_branch"}
  BY <1>1, <1>8 DEF View, branches, current_branch, SameRefs
<1> QED
  BY <1>3, <1>4, <1>5, <1>6, <1>7, <1>8 DEF RefKeys

FileKeys == WorktreeKeys \cup {"blame"}
LEMMA FileViewsSame ==
    ASSUME NEW g, Whole(g), NEW h, After(g, h), SameFiles(g, h), NEW k \in FileKeys
    PROVE  View(h, k) = View(g, k)
<1>1. /\ HeadOid(h) = HeadOid(g) /\ h.index = g.index /\ h.conflict = g.conflict /\ h.wt = g.wt
  BY DEF SameFiles
<1>2. /\ \A c \in Known(g) : Tree(h, c) = Tree(g, c)
      /\ HeadOid(g) \in Known(g)
  BY HistorySame, NewestType
<1>3. HeadTree(h) = HeadTree(g)
  BY <1>1, <1>2 DEF HeadTree
<1>4. CASE k = "status"
  BY <1>1, <1>3, <1>4 DEF View, status
<1>5. CASE k = "working_diff"
  BY <1>1, <1>3, <1>5 DEF View, working_diff
<1>6. CASE k = "blame"
  <2>1. ASSUME NEW x
        PROVE  line_history(h, x) = line_history(g, x) /\ Range(line_history(g, x)) \subseteq Born(g)
    <3> DEFINE S == {c \in Reach(g, HeadOid(g)) :
                       HunkOf(Tree(g, c), x) # HunkOf(Tree(g, FirstParent(g, c)), x)}
    <3>1. Newest(g) \in Nat /\ S \subseteq 1 .. Newest(g)
      <4>1. Newest(g) \in Nat /\ HeadOid(g) \in 0 .. Newest(g)
        BY NewestType DEF Known
      <4>2. Reach(g, HeadOid(g)) \subseteq 1 .. HeadOid(g)
        BY <1>2, ReachSame
      <4> QED
        BY <4>1, <4>2
    <3>2. line_history(g, x) \in Seq(S)
      <4>1. line_history(g, x) = NewestFirst(S)
        BY DEF line_history
      <4> HIDE DEF S
      <4> QED
        BY <3>1, <4>1, NewestFirstType
    <3>3. Range(line_history(g, x)) \subseteq S
      <4> HIDE DEF S
      <4>1. DOMAIN line_history(g, x) = 1 .. Len(line_history(g, x))
            /\ \A j \in 1 .. Len(line_history(g, x)) : line_history(g, x)[j] \in S
        BY <3>2, LenProperties, ElementOfSeq
      <4> QED
        BY <4>1 DEF Range
    <3> QED
      BY <1>1, <3>1, <3>3, LogSame DEF Born
  <2>2. Born(g) \subseteq Known(g)
    BY NewestType DEF Born, Known
  <2> DEFINE Since(r, x) == {c \in Range(line_history(r, x)) : HunkOf(Tree(r, c), x) = HunkOf(r.wt, x)}
             Hit(r, x) == HunkOf(HeadTree(r), x) = HunkOf(r.wt, x) /\ Since(r, x) # {}
  <2>3. ASSUME NEW x
        PROVE  Since(h, x) = Since(g, x) /\ Hit(h, x) = Hit(g, x)
    <3>1. \A c \in Range(line_history(g, x)) : Tree(h, c) = Tree(g, c)
      BY <1>2, <2>1, <2>2
    <3>2. Since(h, x) = Since(g, x)
      BY <1>1, <2>1, <3>1
    <3> HIDE DEF Since
    <3> QED
      BY <1>1, <1>3, <3>2
  <2>4. /\ blame(g) = [x \in Hunk |-> IF Hit(g, x) THEN Max(Since(g, x)) ELSE 0]
        /\ blame(h) = [x \in Hunk |-> IF Hit(h, x) THEN Max(Since(h, x)) ELSE 0]
    BY DEF blame
  <2>5. View(g, k) = blame(g) /\ View(h, k) = blame(h)
    BY <1>6 DEF View
  <2> HIDE DEF Since, Hit
  <2> QED
    BY <2>3, <2>4, <2>5
<1> QED
  BY <1>4, <1>5, <1>6 DEF FileKeys, WorktreeKeys

-----------------------------------------------------------------------------
(* The lanes of the graph.  A lane is free, or waits for a commit and has a  *)
(* colour.                                                                   *)

Lane == [sha : Nat, color : Nat]
Lanes == Seq(Lane)
Told(lanes) ==
    \A k, l \in Active(lanes) : k # l => lanes[k].color # lanes[l].color

LEMMA MinType ==
    ASSUME NEW S, S \subseteq Nat, S # {}
    PROVE  Min(S) \in S
  BY LeastNat DEF Min

LEMMA LaneFields ==
    ASSUME NEW lanes \in Lanes
    PROVE  /\ Len(lanes) \in Nat /\ DOMAIN lanes = 1 .. Len(lanes)
           /\ \A k \in 1 .. Len(lanes) : lanes[k] \in Lane /\ lanes[k].sha \in Nat /\ lanes[k].color \in Nat
<1>1. \A k \in 1 .. Len(lanes) : lanes[k] \in Lane
  BY ElementOfSeq DEF Lanes
<1>2. Len(lanes) \in Nat /\ DOMAIN lanes = 1 .. Len(lanes)
  BY LenProperties DEF Lanes
<1> QED
  BY <1>1, <1>2 DEF Lane

LEMMA ActiveFinite ==
    ASSUME NEW lanes \in Lanes
    PROVE  /\ IsFiniteSet(Active(lanes)) /\ Cardinality(Active(lanes)) \in Nat
           /\ Active(lanes) \subseteq 1 .. Len(lanes)
<1>1. Active(lanes) \subseteq 1 .. Len(lanes) /\ Len(lanes) \in Nat
  BY LaneFields DEF Active
<1>2. IsFiniteSet(1 .. Len(lanes))
  BY <1>1, FS_Interval
<1> QED
  BY <1>1, <1>2, FS_Subset, FS_CardinalityType

(* Pigeons: with fewer lines than colours one colour is left.                *)
LEMMA ColorLeft ==
    ASSUME NEW lanes \in Lanes
    PROVE  /\ pick_color(lanes) \in Nat
           /\ Cardinality(Active(lanes)) < NCOLORS =>
                \A k \in Active(lanes) : lanes[k].color # pick_color(lanes)
<1> DEFINE A == Active(lanes)  used == {lanes[k].color : k \in A}  all == 0 .. NCOLORS - 1
           unused == all \ used
<1>1. NCOLORS \in Nat /\ all \subseteq Nat
  BY ColorAssumption
<1>2. pick_color(lanes) = IF unused = {} THEN 0 ELSE Min(unused)
  BY DEF pick_color
<1>3. unused # {} => Min(unused) \in unused
  <2> DEFINE u == unused
  <2>1. u \subseteq Nat
    BY <1>1
  <2> HIDE DEF u
  <2>2. u # {} => Min(u) \in u
    BY <2>1, MinType
  <2> QED
    BY <2>2 DEF u
<1>4. ASSUME Cardinality(A) < NCOLORS
      PROVE  unused # {}
  <2> SUFFICES ASSUME unused = {}
               PROVE  FALSE
    OBVIOUS
  <2>1. IsFiniteSet(A) /\ Cardinality(A) \in Nat
    BY ActiveFinite
  <2>2. IsFiniteSet(used) /\ Cardinality(used) <= Cardinality(A)
    <3> DEFINE f == [k \in A |-> lanes[k].color]
    <3>1. f \in Surjection(A, used)
      BY DEF Surjection
    <3> HIDE DEF f, A, used
    <3> QED
      BY <2>1, <3>1, FS_Surjection DEF ExistsSurjection
  <2>3. all \subseteq used
    OBVIOUS
  <2>4. Cardinality(all) <= Cardinality(used)
    <3> HIDE DEF all, used
    <3> QED
      BY <2>2, <2>3, FS_Subset
  <2>5. Cardinality(all) = NCOLORS
    BY <1>1, FS_Interval
  <2>6. Cardinality(used) \in Nat
    <3> HIDE DEF used
    <3> QED
      BY <2>2, FS_CardinalityType
  <2> HIDE DEF all, used, A
  <2> QED
    BY <1>1, <1>4, <2>1, <2>2, <2>4, <2>5, <2>6
<1>5. pick_color(lanes) \in Nat
  <2> DEFINE u == unused
  <2>1. u \subseteq Nat
    BY <1>1
  <2> HIDE DEF u
  <2> QED
    BY <1>2, <1>3, <2>1 DEF u
<1>6. ASSUME Cardinality(A) < NCOLORS, NEW k \in A
      PROVE  lanes[k].color # pick_color(lanes)
  <2>1. lanes[k].color \in used
    OBVIOUS
  <2>2. pick_color(lanes) \in all \ used
    BY <1>2, <1>3, <1>4, <1>6
  <2> HIDE DEF used, all
  <2> QED
    BY <2>1, <2>2
<1> QED
  BY <1>5, <1>6

(* Room for one more lane: a free column, or one more column.                *)
LEMMA RoomMade ==
    ASSUME NEW lanes \in Lanes
    PROVE  LET k == first_free(lanes)  wide == ensure_len(lanes, k) IN
           /\ wide \in Lanes /\ Len(lanes) <= Len(wide) /\ k \in 1 .. Len(wide) /\ wide[k].sha = 0
           /\ \A i \in 1 .. Len(lanes) : wide[i] = lanes[i]
           /\ Active(wide) = Active(lanes) /\ k \notin Active(lanes)
<1> DEFINE k == first_free(lanes)  wide == ensure_len(lanes, k)  L == Len(lanes)
           S == Waiting(lanes, 0) \cup {L + 1}
<1>1. L \in Nat /\ DOMAIN lanes = 1 .. L /\ lanes \in Seq(Lane)
  BY LaneFields DEF Lanes
<1>2. S \subseteq Nat /\ S # {}
  BY <1>1 DEF Waiting
<1>3. k \in S
  <2>1. k = Min(S)
    BY DEF first_free
  <2> HIDE DEF k, S
  <2> QED
    BY <1>2, <2>1, MinType
<1>4. k = L + 1 \/ (k \in 1 .. L /\ lanes[k].sha = 0)
  <2> HIDE DEF k
  <2> QED
    BY <1>1, <1>3 DEF Waiting
<1> HIDE DEF k
<1>5. CASE k \in 1 .. L /\ lanes[k].sha = 0
  <2>1. wide = lanes
    <3>1. ~ (k > Len(lanes))
      BY <1>1, <1>5
    <3> QED
      BY <3>1 DEF ensure_len
  <2> QED
    BY <1>1, <1>5, <2>1 DEF k, Active
<1>6. CASE k = L + 1
  <2>1. wide = Append(lanes, Free)
    <3>1. k > Len(lanes)
      BY <1>1, <1>6
    <3> QED
      BY <3>1 DEF ensure_len
  <2>2. Free \in Lane /\ Free.sha = 0
    BY DEF Free, Lane
  <2>3. /\ wide \in Seq(Lane) /\ Len(wide) = L + 1 /\ \A i \in 1 .. L : wide[i] = lanes[i]
        /\ wide[L + 1] = Free
    <3> HIDE DEF wide, L
    <3> QED
      BY <1>1, <2>1, <2>2, AppendProperties DEF L
  <2>4. DOMAIN wide = 1 .. L + 1
    <3> HIDE DEF wide, L
    <3> QED
      BY <2>3, LenProperties
  <2> HIDE DEF wide
  <2>5. Active(wide) = Active(lanes) /\ k \notin Active(lanes)
    BY <1>1, <1>6, <2>2, <2>3, <2>4 DEF Active
  <2> QED
    BY <1>1, <1>6, <2>2, <2>3, <2>5 DEF k, wide, Lanes
<1> QED
  BY <1>4, <1>5, <1>6

(* A free column starts to wait.                                             *)
LEMMA LaneOpened ==
    ASSUME NEW lanes \in Lanes, NEW k \in 1 .. Len(lanes), lanes[k].sha = 0, NEW p \in Nat \ {0}, NEW color \in Nat
    PROVE  LET new == [lanes EXCEPT ![k] = [sha |-> p, color |-> color]] IN
           /\ new \in Lanes /\ Len(new) = Len(lanes) /\ new[k].sha = p
           /\ \A i \in Active(lanes) : new[i] = lanes[i]
           /\ Active(new) = Active(lanes) \cup {k} /\ k \notin Active(lanes)
           /\ Cardinality(Active(new)) = Cardinality(Active(lanes)) + 1
           /\ Told(lanes) /\ (\A i \in Active(lanes) : lanes[i].color # color) => Told(new)
<1> DEFINE x == [sha |-> p, color |-> color]  new == [lanes EXCEPT ![k] = x]
<1>1. x \in Lane /\ x.sha = p /\ x.color = color
  BY DEF Lane
<1> HIDE DEF x
<1>2. /\ new \in Lanes /\ Len(new) = Len(lanes)
      /\ \A i \in 1 .. Len(lanes) : new[i] = IF i = k THEN x ELSE lanes[i]
  BY <1>1, ExceptSeq DEF Lanes
<1> HIDE DEF new
<1>3. DOMAIN new = 1 .. Len(lanes) /\ DOMAIN lanes = 1 .. Len(lanes)
  BY <1>2, LaneFields
<1>4. Active(new) = Active(lanes) \cup {k} /\ k \notin Active(lanes)
  BY <1>1, <1>2, <1>3 DEF Active
<1>5. \A i \in Active(lanes) : new[i] = lanes[i]
  BY <1>2, <1>3, <1>4 DEF Active
<1>6. Cardinality(Active(new)) = Cardinality(Active(lanes)) + 1
  BY <1>4, ActiveFinite, FS_AddElement
<1>7. new[k] = x
  BY <1>2
<1>8. Told(lanes) /\ (\A i \in Active(lanes) : lanes[i].color # color) => Told(new)
  BY <1>1, <1>4, <1>5, <1>7 DEF Told
<1> QED
  BY <1>1, <1>2, <1>4, <1>5, <1>6, <1>7, <1>8 DEF new, x

-----------------------------------------------------------------------------
(* The parents of a commit, one after the other.                            *)

Joining(base, parents, col, color, joined) ==
    [n \in 0 .. Len(parents) |->
       IF n = 0 THEN [lanes |-> base, spawns |-> <<>>] ELSE Spawn(joined[n - 1], parents[n], col, color)]
LEMMA JoiningExists ==
    ASSUME NEW base, NEW parents, Len(parents) \in Nat, NEW col, NEW color
    PROVE  \E f : f = Joining(base, parents, col, color, f)
<1> DEFINE L == Len(parents)
           More(x, n) == Spawn(x, parents[n], col, color)
           None0 == [lanes |-> base, spawns |-> <<>>]
           Run(f, m) == f = [n \in 0 .. m |-> IF n = 0 THEN None0 ELSE More(f[n - 1], n)]
           T == {m \in Nat : \E f : Run(f, m)}
<1> HIDE DEF More, None0
<1>1. 0 \in T
  <2>1. Run([n \in 0 .. 0 |-> None0], 0)
    OBVIOUS
  <2> HIDE DEF Run
  <2> QED
    BY <2>1
<1>2. ASSUME NEW m \in Nat, m \in T
      PROVE  m + 1 \in T
  <2>1. PICK f : Run(f, m)
    BY <1>2
  <2> DEFINE f2 == [n \in 0 .. m + 1 |-> IF n = m + 1 THEN More(f[m], n) ELSE f[n]]
  <2>2. \A n \in 0 .. m + 1 : f2[n] = IF n = 0 THEN None0 ELSE More(f2[n - 1], n)
    <3> SUFFICES ASSUME NEW n \in 0 .. m + 1
                 PROVE  f2[n] = IF n = 0 THEN None0 ELSE More(f2[n - 1], n)
      OBVIOUS
    <3>1. CASE n = m + 1
      <4>1. n # 0 /\ n - 1 = m /\ m \in 0 .. m + 1 /\ m # m + 1
        BY <3>1
      <4>2. f2[m] = f[m] /\ f2[n] = More(f[m], n)
        BY <3>1, <4>1
      <4> QED
        BY <4>1, <4>2
    <3>2. CASE n \in 1 .. m
      <4>1. n \in 0 .. m /\ n # 0 /\ n - 1 \in 0 .. m + 1 /\ n - 1 # m + 1 /\ n # m + 1
        BY <3>2
      <4>2. f2[n] = f[n] /\ f2[n - 1] = f[n - 1]
        BY <4>1
      <4>3. f[n] = More(f[n - 1], n)
        BY <2>1, <4>1
      <4> QED
        BY <4>1, <4>2, <4>3
    <3>3. CASE n = 0
      BY <2>1, <3>3
    <3> QED
      BY <3>1, <3>2, <3>3
  <2>3. Run(f2, m + 1)
    BY <2>2
  <2> HIDE DEF f2, Run
  <2> QED
    BY <2>3
<1>3. L \in T
  <2> HIDE DEF T
  <2> QED
    BY <1>1, <1>2, NatSetInduction
<1>4. PICK f : Run(f, L)
  BY <1>3
<1>5. f = Joining(base, parents, col, color, f)
  BY <1>4 DEF More, None0, Joining
<1> QED
  BY <1>5

(* After n parents: the lanes that go past are as they were, the n lines    *)
(* from the commit end in lanes that wait for its parents, and no other     *)
(* lane has begun to wait.                                                  *)
Bend == [to : Nat, color : Nat]
Clear(base, color) ==
    /\ Told(base)
    /\ Cardinality(Active(base)) < NCOLORS => \A k \in Active(base) : base[k].color # color
Bent(base, ps, color, n, s) ==
    /\ s = [lanes |-> s.lanes, spawns |-> s.spawns] /\ s.lanes \in Lanes /\ s.spawns \in Seq(Bend)
    /\ Len(s.spawns) = n /\ Len(base) <= Len(s.lanes)
    /\ \A k \in Active(base) : k \in Active(s.lanes) /\ s.lanes[k] = base[k]
    /\ \A m \in 1 .. n : s.spawns[m].to \in Active(s.lanes) /\ s.lanes[s.spawns[m].to].sha = ps[m]
    /\ \A k \in Active(s.lanes) : k \in Active(base) \/ \E m \in 1 .. n : k = s.spawns[m].to
    /\ n = 0 => s.lanes = base
    /\ Cardinality(Active(s.lanes)) <= NCOLORS /\ Clear(base, color) => Told(s.lanes)

(* One more line from the commit.                                            *)
LEMMA BentOnce ==
    ASSUME NEW base \in Lanes, NEW ps, NEW color, NEW n \in Nat, NEW s, Bent(base, ps, color, n, s),
           NEW lanes \in Lanes, NEW k \in Active(lanes), lanes[k].sha = ps[n + 1], NEW x \in Nat,
           Len(s.lanes) <= Len(lanes), \A i \in Active(s.lanes) : i \in Active(lanes) /\ lanes[i] = s.lanes[i],
           \A i \in Active(lanes) : i \in Active(s.lanes) \/ i = k,
           Cardinality(Active(lanes)) <= NCOLORS /\ Clear(base, color) => Told(lanes)
    PROVE  Bent(base, ps, color, n + 1, [lanes |-> lanes, spawns |-> Append(s.spawns, [to |-> k, color |-> x])])
<1> DEFINE e == [to |-> k, color |-> x]  more == Append(s.spawns, e)
           t == [lanes |-> lanes, spawns |-> more]
<1>1. k \in Nat /\ k \in 1 .. Len(lanes)
  BY ActiveFinite, LaneFields
<1>2. e \in Bend /\ e.to = k
  BY <1>1 DEF Bend
<1> HIDE DEF e
<1>3. s.spawns \in Seq(Bend) /\ Len(s.spawns) = n /\ Len(base) <= Len(s.lanes) /\ s.lanes \in Lanes
  BY DEF Bent
<1>4. /\ more \in Seq(Bend) /\ Len(more) = n + 1 /\ more[n + 1] = e
      /\ \A m \in 1 .. n : more[m] = s.spawns[m]
  BY <1>2, <1>3, AppendProperties
<1> HIDE DEF more
<1>5. \A i \in Active(base) : i \in Active(lanes) /\ lanes[i] = base[i]
  BY DEF Bent
<1>6. \A m \in 1 .. n + 1 : more[m].to \in Active(lanes) /\ lanes[more[m].to].sha = ps[m]
  <2> SUFFICES ASSUME NEW m \in 1 .. n + 1
               PROVE  more[m].to \in Active(lanes) /\ lanes[more[m].to].sha = ps[m]
    OBVIOUS
  <2>1. CASE m = n + 1
    BY <1>2, <1>4, <2>1
  <2>2. CASE m \in 1 .. n
    <3>1. /\ more[m].to = s.spawns[m].to /\ s.spawns[m].to \in Active(s.lanes)
          /\ s.lanes[s.spawns[m].to].sha = ps[m]
      BY <1>4, <2>2 DEF Bent
    <3> QED
      BY <3>1
  <2> QED
    BY <2>1, <2>2
<1>7. ASSUME NEW i \in Active(lanes), i \notin Active(base)
      PROVE  \E m \in 1 .. n + 1 : i = more[m].to
  <2>1. CASE i = k
    <3>1. n + 1 \in 1 .. n + 1
      OBVIOUS
    <3> QED
      BY <1>2, <1>4, <2>1, <3>1
  <2>2. CASE i \in Active(s.lanes)
    <3>1. PICK m \in 1 .. n : i = s.spawns[m].to
      BY <1>7, <2>2 DEF Bent
    <3>2. m \in 1 .. n + 1 /\ more[m] = s.spawns[m]
      BY <1>4
    <3> QED
      BY <3>1, <3>2
  <2> QED
    BY <2>1, <2>2
<1>8. Len(base) <= Len(lanes) /\ n + 1 # 0
  BY <1>3, LaneFields
<1>9. t = [lanes |-> t.lanes, spawns |-> t.spawns] /\ t.lanes = lanes /\ t.spawns = more
  OBVIOUS
<1> HIDE DEF t
<1>10. Bent(base, ps, color, n + 1, t)
  BY <1>4, <1>5, <1>6, <1>7, <1>8, <1>9 DEF Bent
<1> QED
  BY <1>10 DEF t, more, e

LEMMA SpawnBent ==
    ASSUME NEW base \in Lanes, NEW ps, NEW col \in 1 .. Len(base), base[col].sha = 0, NEW color \in Nat,
           NEW n \in Nat, ps[n + 1] \in Nat \ {0}, NEW s, Bent(base, ps, color, n, s)
    PROVE  Bent(base, ps, color, n + 1, Spawn(s, ps[n + 1], col, color))
<1> DEFINE p == ps[n + 1]  waits == Waiting(s.lanes, p)  k == first_free(s.lanes)
           wide == ensure_len(s.lanes, k)  fresh == pick_color(wide)
           joins == [lanes |-> s.lanes, spawns |-> Append(s.spawns, [to |-> Min(waits), color |-> color])]
           own == [s.lanes EXCEPT ![col] = [sha |-> p, color |-> color]]
           open == [wide EXCEPT ![k] = [sha |-> p, color |-> fresh]]
<1>1. /\ s = [lanes |-> s.lanes, spawns |-> s.spawns] /\ s.lanes \in Lanes /\ s.spawns \in Seq(Bend)
      /\ Len(s.spawns) = n /\ Len(base) <= Len(s.lanes)
      /\ n = 0 => s.lanes = base
      /\ Cardinality(Active(s.lanes)) <= NCOLORS /\ Clear(base, color) => Told(s.lanes)
  BY DEF Bent
<1>2. p \in Nat /\ p # 0 /\ NCOLORS \in Nat
  BY ColorAssumption
<1>3. s.spawns = <<>> <=> n = 0
  BY <1>1, EmptySeq
<1>4. Spawn(s, p, col, color) =
        IF waits # {} THEN joins
        ELSE IF s.spawns = <<>>
        THEN [lanes |-> own, spawns |-> <<[to |-> col, color |-> color]>>]
        ELSE [lanes |-> open, spawns |-> Append(s.spawns, [to |-> k, color |-> fresh])]
  <2>1. [s EXCEPT !.spawns = Append(@, [to |-> Min(waits), color |-> color])] = joins
    <3> DEFINE x == Append(s.spawns, [to |-> Min(waits), color |-> color])
    <3> HIDE DEF x
    <3>1. [s EXCEPT !.spawns = x] = [lanes |-> s.lanes, spawns |-> x]
      BY <1>1
    <3> QED
      BY <3>1 DEF x
  <2> HIDE DEF joins, own, open
  <2> QED
    BY <2>1 DEF Spawn, own, open
<1>5. CASE waits # {}
  <2>1. waits \subseteq Active(s.lanes) /\ waits \subseteq Nat
    BY <1>1, <1>2, LaneFields DEF Waiting, Active
  <2>2. Min(waits) \in waits
    <3> HIDE DEF waits
    <3> QED
      BY <1>5, <2>1, MinType
  <2>3. Min(waits) \in Active(s.lanes) /\ s.lanes[Min(waits)].sha = p
    <3> DEFINE w == Min(waits)
    <3>1. w \in waits
      BY <2>2
    <3> HIDE DEF w
    <3>2. w \in Active(s.lanes) /\ s.lanes[w].sha = p
      BY <2>1, <3>1 DEF Waiting
    <3> QED
      BY <3>2 DEF w
  <2>4. Len(s.lanes) <= Len(s.lanes)
    BY <1>1, LaneFields
  <2> DEFINE w == Min(waits)
  <2> HIDE DEF w, waits
  <2>5. Bent(base, ps, color, n + 1, joins)
    BY <1>1, <2>3, <2>4, BentOnce DEF w
  <2> QED
    BY <1>4, <1>5, <2>5
<1>6. CASE waits = {} /\ n = 0
  <2>1. s.lanes = base /\ s.spawns = <<>>
    BY <1>1, <1>3, <1>6
  <2>2. /\ own \in Lanes /\ Len(own) = Len(base) /\ own[col].sha = p
        /\ \A i \in Active(base) : own[i] = base[i]
        /\ Active(own) = Active(base) \cup {col} /\ col \notin Active(base)
        /\ Cardinality(Active(own)) = Cardinality(Active(base)) + 1
        /\ Told(base) /\ (\A i \in Active(base) : base[i].color # color) => Told(own)
    <3> DEFINE new == [base EXCEPT ![col] = [sha |-> p, color |-> color]]
    <3>1. /\ new \in Lanes /\ Len(new) = Len(base) /\ new[col].sha = p
          /\ \A i \in Active(base) : new[i] = base[i]
          /\ Active(new) = Active(base) \cup {col} /\ col \notin Active(base)
          /\ Cardinality(Active(new)) = Cardinality(Active(base)) + 1
          /\ Told(base) /\ (\A i \in Active(base) : base[i].color # color) => Told(new)
      BY <1>2, LaneOpened
    <3>2. own = new
      BY <2>1
    <3> HIDE DEF own, new
    <3> QED
      BY <3>1, <3>2
  <2> HIDE DEF own
  <2>3. Cardinality(Active(own)) <= NCOLORS /\ Clear(base, color) => Told(own)
    <3>1. Cardinality(Active(base)) \in Nat
      BY ActiveFinite
    <3>2. Cardinality(Active(own)) <= NCOLORS => Cardinality(Active(base)) < NCOLORS
      BY <1>2, <2>2, <3>1
    <3> QED
      BY <2>2, <3>2 DEF Clear
  <2>4. Len(s.lanes) <= Len(own)
    BY <2>1, <2>2, LaneFields
  <2>5. col \in Active(own)
    BY <2>2
  <2>6. Append(s.spawns, [to |-> col, color |-> color]) = <<[to |-> col, color |-> color]>>
    BY <2>1
  <2>7. Bent(base, ps, color, n + 1, [lanes |-> own, spawns |-> Append(s.spawns, [to |-> col, color |-> color])])
    <3>1. own[col].sha = ps[n + 1]
      BY <2>2
    <3>2. \A i \in Active(s.lanes) : i \in Active(own) /\ own[i] = s.lanes[i]
      BY <2>1, <2>2
    <3>3. \A i \in Active(own) : i \in Active(s.lanes) \/ i = col
      BY <2>1, <2>2
    <3> HIDE DEF p
    <3> QED
      BY <2>2, <2>3, <2>4, <2>5, <3>1, <3>2, <3>3, BentOnce
  <2> QED
    BY <1>4, <1>6, <2>1, <2>6, <2>7
<1>7. CASE waits = {} /\ n # 0
  <2>1. /\ wide \in Lanes /\ Len(s.lanes) <= Len(wide) /\ k \in 1 .. Len(wide) /\ wide[k].sha = 0
        /\ \A i \in 1 .. Len(s.lanes) : wide[i] = s.lanes[i]
        /\ Active(wide) = Active(s.lanes) /\ k \notin Active(s.lanes)
    BY <1>1, RoomMade
  <2> HIDE DEF wide, k
  <2>2. /\ fresh \in Nat
        /\ Cardinality(Active(wide)) < NCOLORS => \A i \in Active(wide) : wide[i].color # fresh
    BY <2>1, ColorLeft
  <2> HIDE DEF fresh
  <2>3. /\ open \in Lanes /\ Len(open) = Len(wide) /\ open[k].sha = p
        /\ \A i \in Active(wide) : open[i] = wide[i]
        /\ Active(open) = Active(wide) \cup {k} /\ k \notin Active(wide)
        /\ Cardinality(Active(open)) = Cardinality(Active(wide)) + 1
        /\ Told(wide) /\ (\A i \in Active(wide) : wide[i].color # fresh) => Told(open)
    BY <1>2, <2>1, <2>2, LaneOpened
  <2> HIDE DEF open
  <2>4. \A i \in Active(s.lanes) : wide[i] = s.lanes[i]
    BY <1>1, <2>1, ActiveFinite
  <2>5. Told(s.lanes) => Told(wide)
    BY <2>1, <2>4 DEF Told
  <2>6. Cardinality(Active(open)) <= NCOLORS /\ Clear(base, color) => Told(open)
    <3>1. Cardinality(Active(wide)) \in Nat
      BY <2>1, ActiveFinite
    <3>2. Cardinality(Active(open)) <= NCOLORS =>
            Cardinality(Active(wide)) < NCOLORS /\ Cardinality(Active(wide)) <= NCOLORS
      BY <1>2, <2>3, <3>1
    <3> QED
      BY <1>1, <2>1, <2>2, <2>3, <2>5, <3>2
  <2>7. Len(s.lanes) <= Len(open)
    BY <2>1, <2>3
  <2>8. Bent(base, ps, color, n + 1, [lanes |-> open, spawns |-> Append(s.spawns, [to |-> k, color |-> fresh])])
    <3>1. open[k].sha = ps[n + 1] /\ k \in Active(open)
      BY <2>3
    <3>2. \A i \in Active(s.lanes) : i \in Active(open) /\ open[i] = s.lanes[i]
      BY <2>1, <2>3, <2>4
    <3>3. \A i \in Active(open) : i \in Active(s.lanes) \/ i = k
      BY <2>1, <2>3
    <3> HIDE DEF p
    <3> QED
      BY <2>2, <2>3, <2>6, <2>7, <3>1, <3>2, <3>3, BentOnce
  <2> QED
    BY <1>3, <1>4, <1>7, <2>8
<1> QED
  BY <1>5, <1>6, <1>7

LEMMA AllBent ==
    ASSUME NEW base \in Lanes, NEW ps \in Seq(Nat \ {0}), NEW col \in 1 .. Len(base), base[col].sha = 0,
           NEW color \in Nat, NEW f, f = Joining(base, ps, col, color, f)
    PROVE  Bent(base, ps, color, Len(ps), f[Len(ps)])
<1> DEFINE L == Len(ps)  T == {n \in Nat : n <= L => Bent(base, ps, color, n, f[n])}
<1>1. L \in Nat /\ \A n \in 1 .. L : ps[n] \in Nat \ {0}
  BY LenProperties, ElementOfSeq
<1>2. f[0] = [lanes |-> base, spawns |-> <<>>] /\ \A n \in 1 .. L : f[n] = Spawn(f[n - 1], ps[n], col, color)
  <2>1. 0 \in 0 .. L /\ \A n \in 1 .. L : n \in 0 .. L /\ n # 0
    BY <1>1
  <2>2. f = [n \in 0 .. L |->
               IF n = 0 THEN [lanes |-> base, spawns |-> <<>>] ELSE Spawn(f[n - 1], ps[n], col, color)]
    BY DEF Joining
  <2> QED
    BY <2>1, <2>2
<1>3. 0 \in T
  <2> DEFINE s == f[0]
  <2>1. s = [lanes |-> base, spawns |-> <<>>] /\ s.lanes = base /\ s.spawns = <<>>
    BY <1>2
  <2> HIDE DEF s
  <2>2. s = [lanes |-> s.lanes, spawns |-> s.spawns] /\ s.spawns \in Seq(Bend) /\ Len(s.spawns) = 0
    BY <2>1, EmptySeq
  <2>3. Len(base) <= Len(s.lanes)
    BY <2>1, LaneFields
  <2>4. Clear(base, color) => Told(s.lanes)
    BY <2>1 DEF Clear
  <2>5. \A m \in 1 .. 0 : FALSE
    OBVIOUS
  <2>6. Bent(base, ps, color, 0, s)
    BY <2>1, <2>2, <2>3, <2>4, <2>5 DEF Bent
  <2> QED
    BY <2>6 DEF s
<1>4. ASSUME NEW n \in Nat, n \in T
      PROVE  n + 1 \in T
  <2> SUFFICES ASSUME n + 1 <= L
               PROVE  Bent(base, ps, color, n + 1, f[n + 1])
    OBVIOUS
  <2>1. n + 1 \in 1 .. L /\ (n + 1) - 1 = n /\ n <= L
    BY <1>1
  <2>2. f[n + 1] = Spawn(f[n], ps[n + 1], col, color) /\ ps[n + 1] \in Nat \ {0}
    BY <1>1, <1>2, <2>1
  <2>3. Bent(base, ps, color, n, f[n])
    BY <1>4, <2>1
  <2> QED
    BY <2>2, <2>3, SpawnBent
<1>5. L \in T
  <2> HIDE DEF T
  <2> QED
    BY <1>1, <1>3, <1>4, NatSetInduction
<1> QED
  BY <1>1, <1>5

-----------------------------------------------------------------------------
(* One row of the graph.                                                    *)

RowColumn(before, c) ==
    IF Waiting(before, c) = {} THEN first_free(before) ELSE Min(Waiting(before, c))
RowWide(before, c) == ensure_len(before, RowColumn(before, c))
RowColor(before, c) ==
    IF Waiting(before, c) = {} THEN pick_color(RowWide(before, c))
    ELSE RowWide(before, c)[RowColumn(before, c)].color
RowBase(before, c) == Release(RowWide(before, c), Waiting(before, c))

LEMMA RowBegins ==
    ASSUME NEW before \in Lanes, NEW c \in Nat \ {0}
    PROVE  LET base == RowBase(before, c)  col == RowColumn(before, c)  color == RowColor(before, c) IN
           /\ base \in Lanes /\ col \in 1 .. Len(base) /\ base[col].sha = 0 /\ color \in Nat
           /\ Active(base) = Active(before) \ Waiting(before, c)
           /\ \A k \in Active(base) : base[k] = before[k]
           /\ col \in Waiting(before, c) \/ col \notin Active(before)
           /\ Told(before) => Clear(base, color)
<1> DEFINE merging == Waiting(before, c)  col == RowColumn(before, c)  wide == RowWide(before, c)
           color == RowColor(before, c)  base == RowBase(before, c)
<1>1. Len(before) \in Nat /\ DOMAIN before = 1 .. Len(before)
  BY LaneFields
<1>2. CASE merging = {}
  <2>1. col = first_free(before) /\ wide = ensure_len(before, col) /\ color = pick_color(wide)
    BY <1>2 DEF RowColumn, RowWide, RowColor
  <2>2. /\ wide \in Lanes /\ Len(before) <= Len(wide) /\ col \in 1 .. Len(wide) /\ wide[col].sha = 0
        /\ \A i \in 1 .. Len(before) : wide[i] = before[i]
        /\ Active(wide) = Active(before) /\ col \notin Active(before)
    BY <2>1, RoomMade
  <2>3. base = wide
    <3>1. base = [k \in DOMAIN wide |-> IF k \in merging THEN Free ELSE wide[k]]
      BY DEF RowBase, Release
    <3>2. DOMAIN wide = 1 .. Len(wide) /\ wide = [k \in 1 .. Len(wide) |-> wide[k]]
      <4> HIDE DEF wide
      <4>1. wide \in Seq(Lane)
        BY <2>2 DEF Lanes
      <4> QED
        BY <4>1
    <3> HIDE DEF base, wide, merging
    <3> QED
      BY <1>2, <3>1, <3>2
  <2> HIDE DEF base, wide, col, color
  <2>4. /\ color \in Nat
        /\ Cardinality(Active(wide)) < NCOLORS => \A k \in Active(wide) : wide[k].color # color
    BY <2>1, <2>2, ColorLeft
  <2>5. \A k \in Active(wide) : wide[k] = before[k]
    BY <2>2, ActiveFinite
  <2>6. Told(before) => Told(wide)
    BY <2>2, <2>5 DEF Told
  <2> QED
    BY <1>2, <2>2, <2>3, <2>4, <2>5, <2>6 DEF base, col, color, Clear
<1>3. CASE merging # {}
  <2>1. merging \subseteq Nat
    BY <1>1 DEF Waiting
  <2>2. col \in merging
    <3>1. col = Min(merging)
      BY <1>3 DEF RowColumn
    <3> HIDE DEF merging, col
    <3> QED
      BY <1>3, <2>1, <3>1, MinType
  <2>3. col \in 1 .. Len(before) /\ before[col].sha = c /\ col \in Active(before)
    <3> HIDE DEF col
    <3> QED
      BY <1>1, <2>2 DEF Waiting, Active
  <2>4. wide = before
    <3>1. wide = ensure_len(before, col)
      BY DEF RowWide
    <3> HIDE DEF col, wide
    <3>2. ~ (col > Len(before))
      BY <1>1, <2>3
    <3> QED
      BY <3>1, <3>2 DEF ensure_len
  <2>5. base = [k \in 1 .. Len(before) |-> IF k \in merging THEN Free ELSE before[k]]
    <3>1. base = [k \in DOMAIN wide |-> IF k \in merging THEN Free ELSE wide[k]]
      BY DEF RowBase, Release
    <3> HIDE DEF base, wide, merging
    <3> QED
      BY <1>1, <2>4, <3>1
  <2>6. color = before[col].color
    <3>1. color = wide[col].color
      BY <1>3 DEF RowColor
    <3> HIDE DEF color, wide, col
    <3> QED
      BY <2>4, <3>1
  <2> HIDE DEF base, wide, col, color
  <2>7. Free \in Lane /\ Free.sha = 0
    BY DEF Free, Lane
  <2>8. base \in Lanes /\ Len(base) = Len(before) /\ DOMAIN base = 1 .. Len(before)
    <3>1. \A k \in 1 .. Len(before) : base[k] \in Lane
      BY <2>5, <2>7, LaneFields
    <3>2. base \in [1 .. Len(before) -> Lane]
      BY <2>5, <3>1
    <3>3. base \in Seq(Lane) /\ Len(base) = Len(before)
      BY <1>1, <3>2
    <3> QED
      BY <3>2, <3>3 DEF Lanes
  <2>9. \A k \in 1 .. Len(before) : base[k] = IF k \in merging THEN Free ELSE before[k]
    BY <2>5
  <2>10. Active(base) = Active(before) \ merging /\ \A k \in Active(base) : base[k] = before[k]
    <3> HIDE DEF merging
    <3> QED
      BY <1>1, <2>7, <2>8, <2>9 DEF Active
  <2>11. base[col].sha = 0 /\ col \in 1 .. Len(base) /\ color \in Nat
    BY <2>2, <2>3, <2>6, <2>7, <2>8, <2>9, LaneFields
  <2>12. Told(before) => Clear(base, color)
    <3> SUFFICES ASSUME Told(before)
                 PROVE  Told(base) /\ \A k \in Active(base) : base[k].color # color
      BY DEF Clear
    <3>1. \A k \in Active(base) : k \in Active(before) /\ k # col /\ base[k].color = before[k].color
      BY <2>2, <2>10
    <3> QED
      BY <2>3, <2>6, <3>1 DEF Told
  <2> QED
    BY <2>2, <2>8, <2>10, <2>11, <2>12 DEF base, col, color
<1> QED
  BY <1>2, <1>3

Threaded(before, c, ps, r) ==
    /\ r.lanes \in Lanes /\ r.row.commit = c
    /\ Above(r.row) = Active(before) /\ Below(r.row) = Active(r.lanes)
    /\ \A k \in Active(before) : r.row.top[k].color = before[k].color
    /\ \A k \in Active(before) : before[k].sha = c => r.row.top[k].to = r.row.column
    /\ \A k \in Active(before) :
         before[k].sha # c => k \in r.row.through /\ k \in Active(r.lanes) /\ r.lanes[k] = before[k]
    /\ Len(r.row.bottom) = Len(ps)
    /\ \A n \in 1 .. Len(ps) :
         r.row.bottom[n].to \in Active(r.lanes) /\ r.lanes[r.row.bottom[n].to].sha = ps[n]
    /\ Told(before) /\ Cardinality(Active(r.lanes)) <= NCOLORS => Told(r.lanes)

LEMMA RowThreaded ==
    ASSUME NEW before \in Lanes, NEW c \in Nat \ {0}, NEW ps \in Seq(Nat \ {0})
    PROVE  Threaded(before, c, ps, LayoutRow(before, c, ps))
<1> DEFINE base == RowBase(before, c)  col == RowColumn(before, c)  color == RowColor(before, c)
           merging == Waiting(before, c)
           f == CHOOSE x : x = Joining(base, ps, col, color, x)
           done == f[Len(ps)]
           r == LayoutRow(before, c, ps)
           top == [k \in Active(before) |-> [to |-> IF k \in merging THEN col ELSE k, color |-> before[k].color]]
           through == {k \in Active(before) \cap Active(done.lanes) : k # col /\ k \notin merging}
<1>0. Len(ps) \in Nat
  BY LenProperties
<1>1. f = Joining(base, ps, col, color, f)
  BY <1>0, JoiningExists
<1>2. r = [lanes |-> done.lanes,
           row |-> [commit |-> c, column |-> col, color |-> color, top |-> top,
                    bottom |-> done.spawns, through |-> through]]
  BY DEF LayoutRow, RowBase, RowColumn, RowColor, RowWide, Joining
<1>3. /\ base \in Lanes /\ col \in 1 .. Len(base) /\ base[col].sha = 0 /\ color \in Nat
      /\ Active(base) = Active(before) \ merging
      /\ \A k \in Active(base) : base[k] = before[k]
      /\ col \in merging \/ col \notin Active(before)
      /\ Told(before) => Clear(base, color)
  BY RowBegins
<1> HIDE DEF base, col, color, f, r
<1>4. Bent(base, ps, color, Len(ps), done)
  BY <1>1, <1>3, AllBent
<1> HIDE DEF done, top, through
<1>5. /\ r.lanes = done.lanes /\ r.row.commit = c /\ r.row.column = col /\ r.row.top = top
      /\ r.row.bottom = done.spawns /\ r.row.through = through
  BY <1>2
<1>6. /\ done.lanes \in Lanes /\ done.spawns \in Seq(Bend) /\ Len(done.spawns) = Len(ps)
      /\ \A k \in Active(base) : k \in Active(done.lanes) /\ done.lanes[k] = base[k]
      /\ \A m \in 1 .. Len(ps) : /\ done.spawns[m].to \in Active(done.lanes)
                                 /\ done.lanes[done.spawns[m].to].sha = ps[m]
      /\ \A k \in Active(done.lanes) : k \in Active(base) \/ \E m \in 1 .. Len(ps) : k = done.spawns[m].to
      /\ Cardinality(Active(done.lanes)) <= NCOLORS /\ Clear(base, color) => Told(done.lanes)
  BY <1>4 DEF Bent
<1>7. through = Active(base)
  BY <1>3, <1>6 DEF through
<1>8. DOMAIN top = Active(before) /\ \A k \in Active(before) : top[k].color = before[k].color
  BY DEF top
<1>9. \A k \in Active(before) : before[k].sha = c => k \in merging /\ top[k].to = col
  BY DEF top, Waiting, Active
<1>10. \A k \in Active(before) : before[k].sha # c => k \in Active(base)
  BY <1>3 DEF Waiting
<1>11. Below(r.row) = Active(r.lanes)
  <2>1. DOMAIN done.spawns = 1 .. Len(ps)
    BY <1>6, LenProperties
  <2>2. Below(r.row) = {done.spawns[m].to : m \in 1 .. Len(ps)} \cup Active(base)
    BY <1>5, <1>7, <2>1 DEF Below
  <2> QED
    BY <1>5, <1>6, <2>2
<1>12. Above(r.row) = Active(before)
  BY <1>5, <1>8 DEF Above
<1>13. Threaded(before, c, ps, r)
  BY <1>3, <1>5, <1>6, <1>7, <1>8, <1>9, <1>10, <1>11, <1>12 DEF Threaded
<1> QED
  BY <1>13 DEF r

-----------------------------------------------------------------------------
(* The graph laid out in pages is the graph laid out at once.               *)

Drawing(commits, parents, lanes, drawn) ==
    [k \in 0 .. Len(commits) |->
       IF k = 0 THEN [lanes |-> lanes, rows |-> <<>>] ELSE LayoutNext(drawn[k - 1], commits[k], parents)]
LEMMA DrawingExists ==
    ASSUME NEW commits, Len(commits) \in Nat, NEW parents, NEW lanes
    PROVE  \E f : f = Drawing(commits, parents, lanes, f)
<1> DEFINE L == Len(commits)
           More(x, n) == LayoutNext(x, commits[n], parents)
           None0 == [lanes |-> lanes, rows |-> <<>>]
           Run(f, m) == f = [n \in 0 .. m |-> IF n = 0 THEN None0 ELSE More(f[n - 1], n)]
           T == {m \in Nat : \E f : Run(f, m)}
<1> HIDE DEF More, None0
<1>1. 0 \in T
  <2>1. Run([n \in 0 .. 0 |-> None0], 0)
    OBVIOUS
  <2> HIDE DEF Run
  <2> QED
    BY <2>1
<1>2. ASSUME NEW m \in Nat, m \in T
      PROVE  m + 1 \in T
  <2>1. PICK f : Run(f, m)
    BY <1>2
  <2> DEFINE f2 == [n \in 0 .. m + 1 |-> IF n = m + 1 THEN More(f[m], n) ELSE f[n]]
  <2>2. \A n \in 0 .. m + 1 : f2[n] = IF n = 0 THEN None0 ELSE More(f2[n - 1], n)
    <3> SUFFICES ASSUME NEW n \in 0 .. m + 1
                 PROVE  f2[n] = IF n = 0 THEN None0 ELSE More(f2[n - 1], n)
      OBVIOUS
    <3>1. CASE n = m + 1
      <4>1. n # 0 /\ n - 1 = m /\ m \in 0 .. m + 1 /\ m # m + 1
        BY <3>1
      <4>2. f2[m] = f[m] /\ f2[n] = More(f[m], n)
        BY <3>1, <4>1
      <4> QED
        BY <4>1, <4>2
    <3>2. CASE n \in 1 .. m
      <4>1. n \in 0 .. m /\ n # 0 /\ n - 1 \in 0 .. m + 1 /\ n - 1 # m + 1 /\ n # m + 1
        BY <3>2
      <4>2. f2[n] = f[n] /\ f2[n - 1] = f[n - 1]
        BY <4>1
      <4>3. f[n] = More(f[n - 1], n)
        BY <2>1, <4>1
      <4> QED
        BY <4>1, <4>2, <4>3
    <3>3. CASE n = 0
      BY <2>1, <3>3
    <3> QED
      BY <3>1, <3>2, <3>3
  <2>3. Run(f2, m + 1)
    BY <2>2
  <2> HIDE DEF f2, Run
  <2> QED
    BY <2>3
<1>3. L \in T
  <2> HIDE DEF T
  <2> QED
    BY <1>1, <1>2, NatSetInduction
<1>4. PICK f : Run(f, L)
  BY <1>3
<1>5. f = Drawing(commits, parents, lanes, f)
  BY <1>4 DEF More, None0, Drawing
<1> QED
  BY <1>5

(* The rows of a run of commits, when the lanes before each are known.      *)
RowAt(commits, parents, f, i) == LayoutRow(f[i - 1].lanes, commits[i], parents[commits[i]])
Laid(commits, parents, f) ==
    \A i \in 1 .. Len(commits) : f[i].lanes = RowAt(commits, parents, f, i).lanes
LEMMA RowsAppend ==
    ASSUME NEW k \in Nat, NEW r
    PROVE  Append([i \in 1 .. k |-> r[i]], r[k + 1]) = [i \in 1 .. k + 1 |-> r[i]]
<1> DEFINE S == {r[i] : i \in 1 .. k + 1}  s == [i \in 1 .. k |-> r[i]]  t == [i \in 1 .. k + 1 |-> r[i]]
<1>1. s \in Seq(S) /\ Len(s) = k /\ t \in Seq(S) /\ Len(t) = k + 1 /\ r[k + 1] \in S
  <2>1. s \in [1 .. k -> S] /\ t \in [1 .. k + 1 -> S] /\ k + 1 \in Nat
    OBVIOUS
  <2>2. r[k + 1] \in S
    OBVIOUS
  <2>3. DOMAIN s = 1 .. k /\ DOMAIN t = 1 .. k + 1
    OBVIOUS
  <2> HIDE DEF S, s, t
  <2> QED
    BY <2>1, <2>2, <2>3
<1>2. \A i \in 1 .. k : s[i] = r[i]
  OBVIOUS
<1>3. \A i \in 1 .. k + 1 : t[i] = r[i]
  OBVIOUS
<1> HIDE DEF S, s, t
<1>4. /\ Append(s, r[k + 1]) \in Seq(S) /\ Len(Append(s, r[k + 1])) = k + 1
      /\ \A i \in 1 .. k : Append(s, r[k + 1])[i] = s[i]
      /\ Append(s, r[k + 1])[k + 1] = r[k + 1]
  BY <1>1, AppendProperties
<1>5. \A i \in 1 .. k + 1 : Append(s, r[k + 1])[i] = t[i]
  BY <1>2, <1>3, <1>4
<1>6. Append(s, r[k + 1]) = t
  BY <1>1, <1>4, <1>5, SeqEqual
<1> QED
  BY <1>6 DEF s, t

LEMMA LayoutIs ==
    ASSUME NEW commits, Len(commits) \in Nat, NEW parents, NEW lanes
    PROVE  \E f : /\ f[0].lanes = lanes /\ Laid(commits, parents, f)
                  /\ layout_into(commits, parents, lanes) =
                       [lanes |-> f[Len(commits)].lanes,
                        rows |-> [i \in 1 .. Len(commits) |-> RowAt(commits, parents, f, i).row]]
<1> DEFINE f == CHOOSE x : x = Drawing(commits, parents, lanes, x)  L == Len(commits)
           r == [i \in 1 .. L |-> RowAt(commits, parents, f, i).row]
           T == {n \in Nat : n <= L => f[n] = [lanes |-> f[n].lanes, rows |-> [i \in 1 .. n |-> r[i]]]}
<1>1. f = Drawing(commits, parents, lanes, f)
  BY DrawingExists
<1>2. layout_into(commits, parents, lanes) = f[L]
  BY DEF layout_into, Drawing
<1> HIDE DEF f
<1>3. f[0] = [lanes |-> lanes, rows |-> <<>>]
  BY <1>1 DEF Drawing
<1>4. ASSUME NEW i \in 1 .. L
      PROVE  f[i] = [lanes |-> RowAt(commits, parents, f, i).lanes, rows |-> Append(f[i - 1].rows, r[i])]
  <2>1. f[i] = LayoutNext(f[i - 1], commits[i], parents)
    BY <1>1 DEF Drawing
  <2> QED
    BY <2>1 DEF LayoutNext, RowAt
<1> HIDE DEF r
<1>5. Laid(commits, parents, f)
  <2> SUFFICES ASSUME NEW i \in 1 .. Len(commits)
               PROVE  f[i].lanes = RowAt(commits, parents, f, i).lanes
    BY DEF Laid
  <2> DEFINE x == RowAt(commits, parents, f, i)  rows == Append(f[i - 1].rows, r[i])
  <2>1. f[i] = [lanes |-> x.lanes, rows |-> rows]
    BY <1>4
  <2> HIDE DEF x, rows
  <2>2. f[i].lanes = x.lanes
    BY <2>1
  <2> QED
    BY <2>2 DEF x
<1>6. 0 \in T
  <2>1. <<>> = [i \in 1 .. 0 |-> r[i]]
    OBVIOUS
  <2> QED
    BY <1>3, <2>1
<1>7. ASSUME NEW n \in Nat, n \in T
      PROVE  n + 1 \in T
  <2> SUFFICES ASSUME n + 1 <= L
               PROVE  f[n + 1] = [lanes |-> f[n + 1].lanes, rows |-> [i \in 1 .. n + 1 |-> r[i]]]
    OBVIOUS
  <2>1. n + 1 \in 1 .. L /\ (n + 1) - 1 = n
    OBVIOUS
  <2>2. f[n].rows = [i \in 1 .. n |-> r[i]]
    BY <1>7, <2>1
  <2>3. Append(f[n].rows, r[n + 1]) = [i \in 1 .. n + 1 |-> r[i]]
    BY <2>2, RowsAppend
  <2>4. f[n + 1] = [lanes |-> RowAt(commits, parents, f, n + 1).lanes, rows |-> Append(f[n].rows, r[n + 1])]
    BY <1>4, <2>1
  <2> QED
    BY <2>3, <2>4
<1>8. L \in T
  <2> HIDE DEF T
  <2> QED
    BY <1>6, <1>7, NatSetInduction
<1>9. f[L] = [lanes |-> f[L].lanes, rows |-> r]
  BY <1>8 DEF r
<1>10. /\ f[0].lanes = lanes
       /\ layout_into(commits, parents, lanes) =
            [lanes |-> f[Len(commits)].lanes,
             rows |-> [i \in 1 .. Len(commits) |-> RowAt(commits, parents, f, i).row]]
  BY <1>2, <1>3, <1>9 DEF r
<1> QED
  BY <1>5, <1>10

(* Two runs of the same commits from the same lanes are the same.           *)
Within(L, all, s, m) ==
    /\ s \in Nat /\ m \in Nat /\ Len(all) \in Nat /\ s + m <= Len(all)
    /\ Len(L) = m /\ \A i \in 1 .. m : L[i] = all[s + i]
LEMMA LaidSame ==
    ASSUME NEW L, NEW all, NEW s, NEW m, Within(L, all, s, m), NEW parents, NEW f, NEW e,
           Laid(all, parents, f), Laid(L, parents, e), e[0].lanes = f[s].lanes
    PROVE  /\ \A k \in 0 .. m : e[k].lanes = f[s + k].lanes
           /\ \A i \in 1 .. m : RowAt(L, parents, e, i) = RowAt(all, parents, f, s + i)
<1>0. /\ s \in Nat /\ m \in Nat /\ Len(all) \in Nat /\ s + m <= Len(all)
      /\ Len(L) = m /\ \A i \in 1 .. m : L[i] = all[s + i]
  BY DEF Within
<1> DEFINE T == {n \in Nat : n <= m => e[n].lanes = f[s + n].lanes}
           Same(i) == RowAt(L, parents, e, i) = RowAt(all, parents, f, s + i)
<1>1. 0 \in T
  BY <1>0
<1>2. ASSUME NEW n \in Nat, n + 1 <= m, e[n].lanes = f[s + n].lanes
      PROVE  Same(n + 1)
  <2>1. n + 1 \in 1 .. m /\ (n + 1) - 1 = n /\ (s + (n + 1)) - 1 = s + n
    BY <1>0, <1>2
  <2> QED
    BY <1>0, <1>2, <2>1 DEF RowAt
<1>3. ASSUME NEW n \in Nat, n \in T
      PROVE  n + 1 \in T
  <2> SUFFICES ASSUME n + 1 <= m
               PROVE  e[n + 1].lanes = f[s + (n + 1)].lanes
    OBVIOUS
  <2>1. Same(n + 1)
    <3>1. e[n].lanes = f[s + n].lanes
      BY <1>0, <1>3
    <3> HIDE DEF Same
    <3> QED
      BY <1>2, <3>1
  <2>2. n + 1 \in 1 .. Len(L) /\ s + (n + 1) \in 1 .. Len(all)
    BY <1>0
  <2> QED
    BY <1>0, <2>1, <2>2 DEF Laid
<1>4. \A k \in 0 .. m : e[k].lanes = f[s + k].lanes
  <2>1. ASSUME NEW k \in 0 .. m
        PROVE  k \in T
    <3>1. k \in Nat
      BY <1>0
    <3> HIDE DEF T
    <3> QED
      BY <1>1, <1>3, <3>1, NatSetInduction
  <2> QED
    BY <1>0, <2>1
<1>5. ASSUME NEW i \in 1 .. m
      PROVE  Same(i)
  <2>1. i - 1 \in Nat /\ (i - 1) + 1 = i /\ i - 1 \in 0 .. m /\ (i - 1) + 1 <= m
    BY <1>0
  <2>2. Same((i - 1) + 1)
    <3>1. e[i - 1].lanes = f[s + (i - 1)].lanes
      BY <1>4, <2>1
    <3> HIDE DEF Same
    <3> QED
      BY <1>2, <2>1, <3>1
  <2> QED
    BY <2>1, <2>2
<1> QED
  BY <1>4, <1>5

(* All rows of a run of commits, each drawn once, from no lanes.            *)
Drawable(commits, parents) ==
    /\ commits \in Seq(Nat \ {0})
    /\ \A i, j \in 1 .. Len(commits) : i # j => commits[i] # commits[j]
    /\ \A i \in 1 .. Len(commits) : parents[commits[i]] \in Seq(Nat \ {0})
AtRow(commits, parents, f, i) ==
    /\ Threaded(f[i - 1].lanes, commits[i], parents[commits[i]], RowAt(commits, parents, f, i))
    /\ RowAt(commits, parents, f, i).lanes = f[i].lanes /\ f[i].lanes \in Lanes

LEMMA RowsThreaded ==
    ASSUME NEW commits, NEW parents, Drawable(commits, parents),
           NEW f, Laid(commits, parents, f), f[0].lanes = <<>>
    PROVE  \A i \in 1 .. Len(commits) : AtRow(commits, parents, f, i)
<1> DEFINE L == Len(commits)  T == {n \in Nat : n <= L => f[n].lanes \in Lanes}
<1>1. /\ L \in Nat /\ \A i \in 1 .. L : commits[i] \in Nat \ {0}
      /\ \A i \in 1 .. L : parents[commits[i]] \in Seq(Nat \ {0})
  BY LenProperties, ElementOfSeq DEF Drawable
<1>2. ASSUME NEW i \in 1 .. L, f[i - 1].lanes \in Lanes
      PROVE  AtRow(commits, parents, f, i)
  <2> DEFINE r == RowAt(commits, parents, f, i)
  <2>1. r = LayoutRow(f[i - 1].lanes, commits[i], parents[commits[i]])
    BY DEF RowAt
  <2>2. Threaded(f[i - 1].lanes, commits[i], parents[commits[i]], r)
    BY <1>1, <1>2, <2>1, RowThreaded
  <2>3. r.lanes = f[i].lanes
    BY DEF Laid
  <2> QED
    BY <2>2, <2>3 DEF AtRow, Threaded
<1>3. 0 \in T
  BY EmptySeq DEF Lanes
<1>4. ASSUME NEW n \in Nat, n \in T
      PROVE  n + 1 \in T
  <2> SUFFICES ASSUME n + 1 <= L
               PROVE  f[n + 1].lanes \in Lanes
    OBVIOUS
  <2>1. n + 1 \in 1 .. L /\ (n + 1) - 1 = n /\ f[n].lanes \in Lanes
    BY <1>1, <1>4
  <2> QED
    BY <1>2, <2>1 DEF AtRow
<1>5. ASSUME NEW i \in 1 .. L
      PROVE  f[i - 1].lanes \in Lanes
  <2>1. i - 1 \in Nat /\ i - 1 <= L
    BY <1>1
  <2>2. i - 1 \in T
    <3> HIDE DEF T
    <3> QED
      BY <1>3, <1>4, <2>1, NatSetInduction
  <2> QED
    BY <2>1, <2>2
<1> QED
  BY <1>2, <1>5

(* While there are colours enough, the lanes before a row differ in colour. *)
LEMMA ColorsKept ==
    ASSUME NEW commits, NEW parents, Drawable(commits, parents),
           NEW f, Laid(commits, parents, f), f[0].lanes = <<>>, NEW i \in 1 .. Len(commits),
           \A j \in 1 .. i : Cardinality(Active(f[j - 1].lanes)) <= NCOLORS
    PROVE  Told(f[i - 1].lanes)
<1> DEFINE T == {n \in Nat : n <= i - 1 => Told(f[n].lanes)}
<1>1. Len(commits) \in Nat /\ i \in Nat /\ 1 <= i
  BY LenProperties DEF Drawable
<1>2. 0 \in T
  <2>1. Active(<<>>) = {}
    BY DEF Active
  <2> QED
    BY <2>1 DEF Told
<1>3. ASSUME NEW n \in Nat, n \in T
      PROVE  n + 1 \in T
  <2> SUFFICES ASSUME n + 1 <= i - 1
               PROVE  Told(f[n + 1].lanes)
    OBVIOUS
  <2>1. /\ n + 1 \in 1 .. Len(commits) /\ (n + 1) - 1 = n /\ n <= i - 1
        /\ n + 2 \in 1 .. i /\ (n + 2) - 1 = n + 1
    BY <1>1
  <2>2. Told(f[n].lanes)
    BY <1>3, <2>1
  <2>3. Cardinality(Active(f[n + 1].lanes)) <= NCOLORS
    BY <2>1
  <2>4. AtRow(commits, parents, f, n + 1)
    BY <2>1, RowsThreaded
  <2> QED
    BY <2>1, <2>2, <2>3, <2>4 DEF AtRow, Threaded
<1>4. i - 1 \in Nat /\ i - 1 <= i - 1
  BY <1>1
<1>5. i - 1 \in T
  <2> HIDE DEF T
  <2> QED
    BY <1>2, <1>3, <1>4, NatSetInduction
<1> QED
  BY <1>4, <1>5

(* The lane opened or joined for a parent waits until that parent's row.    *)
LEMMA LaneWaits ==
    ASSUME NEW commits, NEW parents, Drawable(commits, parents),
           NEW f, Laid(commits, parents, f), f[0].lanes = <<>>,
           NEW i \in 1 .. Len(commits), NEW j \in i + 1 .. Len(commits),
           NEW k \in Active(f[i].lanes), f[i].lanes[k].sha = commits[j], NEW m \in i .. j - 1
    PROVE  k \in Active(f[m].lanes) /\ f[m].lanes[k].sha = commits[j]
<1> DEFINE Waits(n) == k \in Active(f[i + n].lanes) /\ f[i + n].lanes[k].sha = commits[j]
           T == {n \in Nat : i + n <= j - 1 => Waits(n)}
<1>1. Len(commits) \in Nat /\ i \in Nat /\ j \in Nat /\ j \in 1 .. Len(commits) /\ i + 0 = i
  BY LenProperties DEF Drawable
<1>2. 0 \in T
  BY <1>1
<1>3. ASSUME NEW n \in Nat, n \in T
      PROVE  n + 1 \in T
  <2> SUFFICES ASSUME i + (n + 1) <= j - 1
               PROVE  Waits(n + 1)
    OBVIOUS
  <2> DEFINE l == i + (n + 1)
  <2>1. l \in 1 .. Len(commits) /\ l - 1 = i + n /\ l # j /\ i + n <= j - 1
    BY <1>1
  <2>2. k \in Active(f[l - 1].lanes) /\ f[l - 1].lanes[k].sha = commits[j]
    BY <1>3, <2>1
  <2>3. commits[j] # commits[l]
    BY <1>1, <2>1 DEF Drawable
  <2>4. AtRow(commits, parents, f, l)
    BY <2>1, RowsThreaded
  <2> HIDE DEF l
  <2>5. k \in Active(f[l].lanes) /\ f[l].lanes[k] = f[l - 1].lanes[k]
    BY <2>2, <2>3, <2>4 DEF AtRow, Threaded
  <2> QED
    BY <2>2, <2>5 DEF l
<1>4. m - i \in Nat /\ i + (m - i) = m /\ i + (m - i) <= j - 1
  BY <1>1
<1>5. m - i \in T
  <2> HIDE DEF T
  <2> QED
    BY <1>2, <1>3, <1>4, NatSetInduction
<1> QED
  BY <1>4, <1>5

LEMMA DrawingMeets ==
    ASSUME NEW commits, NEW parents, Drawable(commits, parents),
           NEW f, Laid(commits, parents, f), f[0].lanes = <<>>, NEW len \in 0 .. Len(commits)
    PROVE  LinesMeet([i \in 1 .. len |-> RowAt(commits, parents, f, i).row], parents)
<1> DEFINE row(i) == RowAt(commits, parents, f, i).row  rows == [i \in 1 .. len |-> row(i)]
<1>1. Len(commits) \in Nat /\ len \in Nat /\ \A i \in 1 .. len : i \in 1 .. Len(commits)
  BY LenProperties DEF Drawable
<1>2. ASSUME NEW i \in 1 .. len
      PROVE  /\ row(i).commit = commits[i]
             /\ Above(row(i)) = Active(f[i - 1].lanes) /\ Below(row(i)) = Active(f[i].lanes)
             /\ \A k \in Active(f[i - 1].lanes) : row(i).top[k].color = f[i - 1].lanes[k].color
             /\ \A k \in Active(f[i - 1].lanes) :
                  f[i - 1].lanes[k].sha = commits[i] => row(i).top[k].to = row(i).column
             /\ \A k \in Active(f[i - 1].lanes) :
                  f[i - 1].lanes[k].sha # commits[i] => k \in row(i).through
             /\ Len(row(i).bottom) = Len(parents[commits[i]])
             /\ \A n \in 1 .. Len(parents[commits[i]]) :
                  /\ row(i).bottom[n].to \in Active(f[i].lanes)
                  /\ f[i].lanes[row(i).bottom[n].to].sha = parents[commits[i]][n]
             /\ DOMAIN parents[commits[i]] = 1 .. Len(parents[commits[i]])
  <2>1. AtRow(commits, parents, f, i)
    BY <1>1, RowsThreaded
  <2>2. parents[commits[i]] \in Seq(Nat \ {0})
    BY <1>1 DEF Drawable
  <2>3. DOMAIN parents[commits[i]] = 1 .. Len(parents[commits[i]])
    BY <2>2, LenProperties
  <2> DEFINE r == RowAt(commits, parents, f, i)
  <2>4. Threaded(f[i - 1].lanes, commits[i], parents[commits[i]], r) /\ r.lanes = f[i].lanes
    BY <2>1 DEF AtRow
  <2> HIDE DEF r
  <2> QED
    BY <2>3, <2>4 DEF Threaded, r
<1> HIDE DEF row
<1>3. DOMAIN rows = 1 .. len /\ Len(rows) = len /\ \A i \in 1 .. len : rows[i] = row(i)
  <2> DEFINE S == {row(i) : i \in 1 .. len}
  <2>1. rows \in [1 .. len -> S] /\ DOMAIN rows = 1 .. len /\ \A i \in 1 .. len : rows[i] = row(i)
    OBVIOUS
  <2> HIDE DEF rows, S
  <2>2. Len(rows) = len
    BY <1>1, <2>1
  <2> QED
    BY <2>1, <2>2
<1> HIDE DEF rows
<1>4. ASSUME NEW i \in 1 .. len, i < len
      PROVE  Below(rows[i]) = Above(rows[i + 1])
  <2>1. i + 1 \in 1 .. len /\ (i + 1) - 1 = i
    BY <1>1, <1>4
  <2> QED
    BY <1>2, <1>3, <2>1
<1>5. ASSUME NEW i \in 1 .. len, \A j \in 1 .. i : Cardinality(Above(rows[j])) <= NCOLORS,
             NEW k \in Above(rows[i]), NEW l \in Above(rows[i]), k # l
      PROVE  rows[i].top[k].color # rows[i].top[l].color
  <2>1. ASSUME NEW j \in 1 .. i
        PROVE  Cardinality(Active(f[j - 1].lanes)) <= NCOLORS
    <3>1. j \in 1 .. len
      BY <1>1
    <3>2. rows[j] = row(j)
      BY <1>3, <3>1
    <3>3. Above(row(j)) = Active(f[j - 1].lanes)
      BY <1>2, <3>1
    <3>4. Cardinality(Above(rows[j])) <= NCOLORS
      BY <1>5
    <3> QED
      BY <3>2, <3>3, <3>4, Zenon
  <2>2. Told(f[i - 1].lanes)
    BY <1>1, <2>1, ColorsKept
  <2>3. k \in Active(f[i - 1].lanes) /\ l \in Active(f[i - 1].lanes)
    <3>1. rows[i] = row(i)
      BY <1>3
    <3>2. Above(row(i)) = Active(f[i - 1].lanes)
      BY <1>2
    <3> QED
      BY <1>5, <3>1, <3>2, Zenon
  <2>4. f[i - 1].lanes[k].color # f[i - 1].lanes[l].color
    BY <1>5, <2>2, <2>3 DEF Told
  <2>5. \A x \in Active(f[i - 1].lanes) : rows[i].top[x].color = f[i - 1].lanes[x].color
    <3>1. rows[i] = row(i)
      BY <1>3
    <3>2. \A x \in Active(f[i - 1].lanes) : row(i).top[x].color = f[i - 1].lanes[x].color
      BY <1>2
    <3> QED
      BY <3>1, <3>2, Zenon
  <2> QED
    BY <2>3, <2>4, <2>5
<1>6. ASSUME NEW i \in 1 .. len, NEW j \in i + 1 .. len, NEW n \in DOMAIN parents[commits[i]],
             rows[j].commit = parents[commits[i]][n]
      PROVE  LET k == rows[i].bottom[n].to IN
             /\ k \in Above(rows[j]) /\ rows[j].top[k].to = rows[j].column
             /\ \A m \in i + 1 .. j - 1 : k \in rows[m].through
  <2> DEFINE k == rows[i].bottom[n].to
  <2>1. j \in 1 .. len /\ j \in i + 1 .. Len(commits) /\ i \in 1 .. Len(commits)
    BY <1>1
  <2>2. k \in Active(f[i].lanes) /\ f[i].lanes[k].sha = commits[j]
    <3>1. rows[i] = row(i) /\ rows[j] = row(j) /\ row(j).commit = commits[j]
      BY <1>2, <1>3, <2>1
    <3>2. n \in 1 .. Len(parents[commits[i]])
      BY <1>2, <1>6
    <3>3. row(i).bottom[n].to \in Active(f[i].lanes) /\ f[i].lanes[row(i).bottom[n].to].sha = parents[commits[i]][n]
      BY <1>2, <3>2
    <3> QED
      BY <1>6, <3>1, <3>3
  <2> HIDE DEF k
  <2>3. ASSUME NEW m \in i .. j - 1
        PROVE  k \in Active(f[m].lanes) /\ f[m].lanes[k].sha = commits[j]
    <3>1. \A x \in Active(f[i].lanes) :
            f[i].lanes[x].sha = commits[j] => x \in Active(f[m].lanes) /\ f[m].lanes[x].sha = commits[j]
      BY <2>1, <2>3, LaneWaits
    <3> QED
      BY <2>2, <3>1
  <2>4. k \in Above(rows[j]) /\ rows[j].top[k].to = rows[j].column
    <3>1. j - 1 \in i .. j - 1
      BY <1>1, <2>1
    <3> QED
      BY <1>2, <1>3, <2>1, <2>3, <3>1
  <2>5. ASSUME NEW m \in i + 1 .. j - 1
        PROVE  k \in rows[m].through
    <3>1. m \in 1 .. len /\ m - 1 \in i .. j - 1 /\ m # j
      BY <1>1, <2>1
    <3>2. commits[m] # commits[j]
      BY <1>1, <2>1, <3>1 DEF Drawable
    <3> QED
      BY <1>2, <1>3, <2>3, <3>1, <3>2
  <2> QED
    BY <2>4, <2>5 DEF k
<1>7. ASSUME NEW i \in 1 .. len
      PROVE  rows[i].commit = commits[i] /\ Len(rows[i].bottom) = Len(parents[commits[i]])
  BY <1>2, <1>3
<1>8. LinesMeet(rows, parents)
  <2> SUFFICES ASSUME NEW i \in DOMAIN rows
               PROVE  /\ i < Len(rows) => Below(rows[i]) = Above(rows[i + 1])
                      /\ (\A j \in 1 .. i : Cardinality(Above(rows[j])) <= NCOLORS) =>
                           \A k, l \in Above(rows[i]) : k # l => rows[i].top[k].color # rows[i].top[l].color
                      /\ LET ps == parents[rows[i].commit] IN
                         /\ Len(rows[i].bottom) = Len(ps)
                         /\ \A j \in i + 1 .. Len(rows), n \in DOMAIN ps :
                              LET k == rows[i].bottom[n].to IN
                              rows[j].commit = ps[n] =>
                                /\ k \in Above(rows[j]) /\ rows[j].top[k].to = rows[j].column
                                /\ \A m \in i + 1 .. j - 1 : k \in rows[m].through
    BY DEF LinesMeet
  <2>1. i \in 1 .. len /\ Len(rows) = len
    BY <1>3
  <2>2. i < Len(rows) => Below(rows[i]) = Above(rows[i + 1])
    BY <1>4, <2>1
  <2>3. (\A j \in 1 .. i : Cardinality(Above(rows[j])) <= NCOLORS) =>
          \A k, l \in Above(rows[i]) : k # l => rows[i].top[k].color # rows[i].top[l].color
    BY <1>5, <2>1
  <2>4. parents[rows[i].commit] = parents[commits[i]] /\ Len(rows[i].bottom) = Len(parents[commits[i]])
    BY <1>7, <2>1
  <2>5. ASSUME NEW j \in i + 1 .. len, NEW n \in DOMAIN parents[commits[i]],
               rows[j].commit = parents[commits[i]][n]
        PROVE  LET k == rows[i].bottom[n].to IN
               /\ k \in Above(rows[j]) /\ rows[j].top[k].to = rows[j].column
               /\ \A m \in i + 1 .. j - 1 : k \in rows[m].through
    BY <1>6, <2>1, <2>5
  <2> QED
    BY <2>1, <2>2, <2>3, <2>4, <2>5
<1> QED
  BY <1>8 DEF rows, row

LEMMA LogType ==
    ASSUME NEW g, Whole(g)
    PROVE  /\ log(g) \in Seq(Born(g)) /\ Len(log(g)) \in Nat
           /\ \A i, j \in 1 .. Len(log(g)) : i < j => log(g)[j] < log(g)[i]
<1>1. Newest(g) \in Nat /\ HeadOid(g) \in 0 .. Newest(g)
  BY NewestType DEF Known
<1> DEFINE R == Reach(g, HeadOid(g))
<1>2. R \subseteq 1 .. Newest(g)
  <2>1. R \subseteq 1 .. HeadOid(g)
    BY <1>1, AfterItself, ReachSame DEF Known, Safe
  <2> QED
    BY <1>1, <2>1
<1>3. /\ log(g) \in Seq(R)
      /\ \A i, j \in 1 .. Len(log(g)) : i < j => log(g)[j] < log(g)[i]
  <2>1. log(g) = NewestFirst(R)
    BY DEF log
  <2> HIDE DEF R
  <2> QED
    BY <1>1, <1>2, <2>1, NewestFirstType
<1>4. log(g) \in Seq(Born(g))
  <2> HIDE DEF R
  <2> QED
    BY <1>2, <1>3, SeqMonotonic DEF Born
<1> QED
  BY <1>3, <1>4, LenProperties

LEMMA LogDrawable ==
    ASSUME NEW g, Whole(g)
    PROVE  Drawable(log(g), History(g))
<1> DEFINE s == log(g)  P == History(g)
<1>1. /\ s \in Seq(Born(g)) /\ Len(s) \in Nat
      /\ \A i, j \in 1 .. Len(s) : i < j => s[j] < s[i]
  BY LogType
<1>2. Newest(g) \in Nat
  BY NewestType
<1>3. s \in Seq(Nat \ {0})
  <2>1. Born(g) \subseteq Nat \ {0}
    BY <1>2 DEF Born
  <2> HIDE DEF s
  <2> QED
    BY <1>1, <2>1, SeqMonotonic
<1> HIDE DEF s
<1>4. ASSUME NEW i \in 1 .. Len(s), NEW j \in 1 .. Len(s), i # j
      PROVE  s[i] # s[j]
  <2>1. s[i] \in Nat /\ s[j] \in Nat
    BY <1>3, ElementOfSeq
  <2>2. i < j \/ j < i
    BY <1>1, <1>4
  <2> QED
    BY <1>1, <2>1, <2>2
<1>5. ASSUME NEW i \in 1 .. Len(s)
      PROVE  P[s[i]] \in Seq(Nat \ {0})
  <2> DEFINE c == s[i]
  <2>1. c \in 1 .. Newest(g)
    BY <1>1, ElementOfSeq DEF Born
  <2> HIDE DEF c
  <2>2. P[c] = Parents(g, c)
    BY <2>1 DEF History
  <2>3. Parents(g, c) \in Seq(1 .. c - 1)
    BY <2>1 DEF Whole, Past, Rooted, Newest, Parents
  <2>4. 1 .. c - 1 \subseteq Nat \ {0}
    BY <1>2, <2>1
  <2>5. Parents(g, c) \in Seq(Nat \ {0})
    BY <2>3, <2>4, SeqMonotonic
  <2> QED
    BY <2>2, <2>5 DEF c
<1> QED
  BY <1>3, <1>4, <1>5 DEF Drawable, s

LEMMA MinPair ==
    ASSUME NEW a \in Nat, NEW b \in Nat
    PROVE  Min({a, b}) = IF a <= b THEN a ELSE b
<1> DEFINE z == IF a <= b THEN a ELSE b
           Least(x) == x \in {a, b} /\ \A y \in {a, b} : x <= y
<1>1. z \in {a, b} /\ \A y \in {a, b} : z <= y
  OBVIOUS
<1>2. \A x \in {a, b} : (\A y \in {a, b} : x <= y) => x = z
  OBVIOUS
<1> HIDE DEF z
<1>3. Min({a, b}) = z
  BY <1>1, <1>2 DEF Min
<1> QED
  BY <1>3 DEF z

(* How many of `all` elements a page of `take` after `skip` has.            *)
PageLen(all, skip, take) == IF skip + take <= all THEN take ELSE IF skip <= all THEN all - skip ELSE 0
LEMMA PageIs ==
    ASSUME NEW S, NEW s \in Seq(S), NEW skip \in Nat, NEW take \in Nat
    PROVE  /\ Page(s, skip, take) \in Seq(S) /\ Len(Page(s, skip, take)) = PageLen(Len(s), skip, take)
           /\ PageLen(Len(s), skip, take) \in Nat
           /\ \A i \in 1 .. PageLen(Len(s), skip, take) : Page(s, skip, take)[i] = s[skip + i] /\ skip + i \in 1 .. Len(s)
<1> DEFINE n == Len(s)  to == Min({skip + take, n})
<1>1. n \in Nat /\ skip + take \in Nat
  BY LenProperties
<1>2. to = IF skip + take <= n THEN skip + take ELSE n
  <2> HIDE DEF n
  <2> QED
    BY <1>1, MinPair
<1> HIDE DEF to
<1>3. Page(s, skip, take) = SubSeq(s, skip + 1, to)
  BY DEF Page, to
<1>4. \A i \in skip + 1 .. to : i \in 1 .. n
  BY <1>1, <1>2
<1>5. to \in Nat /\ skip + 1 \in Nat
  BY <1>1, <1>2
<1>6. /\ SubSeq(s, skip + 1, to) \in Seq(S)
      /\ Len(SubSeq(s, skip + 1, to)) = IF skip + 1 <= to THEN to - (skip + 1) + 1 ELSE 0
      /\ \A i \in 1 .. to - (skip + 1) + 1 : SubSeq(s, skip + 1, to)[i] = s[(skip + 1) + i - 1]
  <2>1. \A i \in skip + 1 .. to : s[i] \in S
    BY <1>4, ElementOfSeq
  <2> QED
    BY <1>5, <2>1, SubSeqProperties
<1>7. PageLen(n, skip, take) = IF skip + 1 <= to THEN to - skip ELSE 0
  BY <1>1, <1>2 DEF PageLen
<1> HIDE DEF n
<1>8. PageLen(n, skip, take) \in Nat /\ Len(SubSeq(s, skip + 1, to)) = PageLen(n, skip, take)
  BY <1>5, <1>6, <1>7
<1>9. ASSUME NEW i \in 1 .. PageLen(n, skip, take)
      PROVE  SubSeq(s, skip + 1, to)[i] = s[skip + i] /\ skip + i \in 1 .. n
  <2>1. PageLen(n, skip, take) = to - skip /\ i \in Nat /\ i <= to - skip /\ i >= 1
    BY <1>5, <1>7, <1>8, <1>9
  <2>2. i \in 1 .. to - (skip + 1) + 1 /\ (skip + 1) + i - 1 = skip + i /\ skip + i \in skip + 1 .. to
    BY <1>5, <2>1
  <2> QED
    BY <1>4, <1>6, <2>2
<1> QED
  BY <1>3, <1>6, <1>8, <1>9 DEF n

FromTop(g, n) == commit_graph_page(g, 0, n, <<>>)
DrawnRow(g, f, i) == GraphRow(g, RowAt(log(g), History(g), f, i).row, sync_commits(g).outgoing)

LEMMA PageRows ==
    ASSUME NEW g, Whole(g), NEW skip \in Nat, NEW take \in Nat, NEW lanes
    PROVE  LET p == commit_graph_page(g, skip, take, lanes) IN
           /\ p = [lanes |-> p.lanes, rows |-> p.rows] /\ IsSequence(p.rows)
           /\ Len(p.rows) = PageLen(Len(log(g)), skip, take) /\ Len(p.rows) \in Nat
<1> DEFINE L == Page(log(g), skip, take)  m == PageLen(Len(log(g)), skip, take)
           page == layout_into(L, History(g), lanes)  p == commit_graph_page(g, skip, take, lanes)
           row(r) == GraphRow(g, r, sync_commits(g).outgoing)
<1>1. Len(L) = m /\ m \in Nat
  <2> DEFINE s == log(g)
  <2>1. s \in Seq(Born(g))
    BY LogType
  <2> HIDE DEF s
  <2>2. Len(Page(s, skip, take)) = PageLen(Len(s), skip, take) /\ PageLen(Len(s), skip, take) \in Nat
    BY <2>1, PageIs
  <2> QED
    BY <2>2 DEF s
<1> HIDE DEF L, m
<1>2. DOMAIN page.rows = 1 .. m
  <2>1. Len(L) \in Nat
    BY <1>1
  <2>2. PICK f : page = [lanes |-> f[Len(L)].lanes, rows |-> [i \in 1 .. Len(L) |-> RowAt(L, History(g), f, i).row]]
    BY <2>1, LayoutIs
  <2> HIDE DEF page
  <2> QED
    BY <1>1, <2>2
<1>3. p = [lanes |-> page.lanes, rows |-> [i \in DOMAIN page.rows |-> row(page.rows[i])]]
  BY DEF commit_graph_page, L
<1> HIDE DEF page, p, row
<1>4. p.rows = [i \in 1 .. m |-> row(page.rows[i])] /\ p = [lanes |-> p.lanes, rows |-> p.rows]
  BY <1>2, <1>3
<1>5. IsSequence(p.rows) /\ Len(p.rows) = m
  <2> DEFINE r == p.rows
  <2>1. DOMAIN r = 1 .. m /\ r = [i \in 1 .. m |-> r[i]]
    BY <1>4
  <2> HIDE DEF r
  <2>2. r \in [1 .. m -> Range(r)]
    BY <2>1 DEF Range
  <2>3. r \in Seq(Range(r)) /\ Len(r) = m
    BY <1>1, <2>1, <2>2
  <2> QED
    BY <2>3 DEF r, IsSequence
<1> QED
  BY <1>1, <1>4, <1>5 DEF m, p

LEMMA GraphSame ==
    ASSUME NEW g, Whole(g), NEW h, After(g, h), SameRefs(g, h), NEW skip \in Nat, NEW take \in Nat, NEW lanes
    PROVE  log(h) = log(g) /\ commit_graph_page(h, skip, take, lanes) = commit_graph_page(g, skip, take, lanes)
<1> DEFINE L == Page(log(g), skip, take)
<1>1. HeadOid(h) = HeadOid(g) /\ h.refs = g.refs /\ h.tag = g.tag
  BY DEF SameRefs, HeadOid
<1>2. log(h) = log(g) /\ sync_commits(h) = sync_commits(g)
  BY <1>1, LogSame, SyncKept DEF SyncSame
<1>3. L \in Seq(Born(g)) /\ Len(L) \in Nat
  <2> DEFINE s == log(g)
  <2>1. s \in Seq(Born(g))
    BY LogType
  <2> HIDE DEF s
  <2>2. Page(s, skip, take) \in Seq(Born(g))
    BY <2>1, PageIs
  <2>3. Len(Page(s, skip, take)) \in Nat
    BY <2>2, LenProperties
  <2> QED
    BY <2>2, <2>3 DEF s
<1> HIDE DEF L
<1>4. \A i \in 1 .. Len(L) : History(h)[L[i]] = History(g)[L[i]]
  <2> SUFFICES ASSUME NEW i \in 1 .. Len(L)
               PROVE  History(h)[L[i]] = History(g)[L[i]]
    OBVIOUS
  <2> DEFINE c == L[i]
  <2>1. c \in Born(g)
    BY <1>3, ElementOfSeq
  <2>2. c \in Born(h) /\ Parents(h, c) = Parents(g, c)
    BY <2>1, CommittedGrows, HistorySame
  <2> HIDE DEF c
  <2>3. History(h)[c] = History(g)[c]
    BY <2>1, <2>2 DEF History, Born
  <2> QED
    BY <2>3 DEF c
<1>5. ASSUME NEW f
      PROVE  Drawing(L, History(h), lanes, f) = Drawing(L, History(g), lanes, f)
  <2>1. \A k \in 1 .. Len(L) : LayoutNext(f[k - 1], L[k], History(h)) = LayoutNext(f[k - 1], L[k], History(g))
    BY <1>4 DEF LayoutNext
  <2>2. \A k \in 0 .. Len(L) : k = 0 \/ k \in 1 .. Len(L)
    BY <1>3
  <2> QED
    BY <2>1, <2>2 DEF Drawing
<1>6. layout_into(L, History(h), lanes) = layout_into(L, History(g), lanes)
  <2> DEFINE D(x) == CHOOSE f : f = Drawing(L, x, lanes, f)
  <2>1. D(History(h)) = D(History(g))
    BY <1>5
  <2>2. \A x : layout_into(L, x, lanes) = D(x)[Len(L)]
    BY DEF layout_into, Drawing
  <2> HIDE DEF D
  <2> QED
    BY <2>1, <2>2
<1> DEFINE page == layout_into(L, History(g), lanes)  out == sync_commits(g).outgoing
<1>7. \A row : GraphRow(h, row, out) = GraphRow(g, row, out)
  BY <1>1 DEF GraphRow
<1>8. /\ commit_graph_page(h, skip, take, lanes) =
           [lanes |-> page.lanes, rows |-> [i \in DOMAIN page.rows |-> GraphRow(h, page.rows[i], out)]]
      /\ commit_graph_page(g, skip, take, lanes) =
           [lanes |-> page.lanes, rows |-> [i \in DOMAIN page.rows |-> GraphRow(g, page.rows[i], out)]]
  BY <1>2, <1>6 DEF commit_graph_page, L
<1> HIDE DEF page, out
<1> QED
  BY <1>2, <1>7, <1>8

LEMMA PageOf ==
    ASSUME NEW g, Whole(g), NEW f, Laid(log(g), History(g), f), NEW s \in 0 .. Len(log(g)), NEW take \in Nat
    PROVE  LET m == PageLen(Len(log(g)), s, take) IN
           commit_graph_page(g, s, take, f[s].lanes) =
             [lanes |-> f[s + m].lanes, rows |-> [i \in 1 .. m |-> DrawnRow(g, f, s + i)]]
<1> DEFINE all == log(g)  N == Len(all)  L == Page(all, s, take)  P == History(g)
           m == PageLen(N, s, take)  page == layout_into(L, P, f[s].lanes)  out == sync_commits(g).outgoing
<1>1. all \in Seq(Born(g)) /\ N \in Nat
  BY LogType
<1>2. s \in Nat /\ s <= N
  BY <1>1
<1> HIDE DEF all
<1>3. Len(L) = m /\ m \in Nat /\ \A i \in 1 .. m : L[i] = all[s + i]
  <2> HIDE DEF N, m
  <2>1. /\ Len(Page(all, s, take)) = PageLen(Len(all), s, take) /\ PageLen(Len(all), s, take) \in Nat
        /\ \A i \in 1 .. PageLen(Len(all), s, take) : Page(all, s, take)[i] = all[s + i]
    BY ZenonT(60), <1>1, <1>2, PageIs
  <2> QED
    BY <2>1 DEF N, m
<1>4. s + m <= N
  BY <1>1, <1>2 DEF PageLen
<1> HIDE DEF N, m, L
<1>5. PICK e : /\ e[0].lanes = f[s].lanes /\ Laid(L, P, e)
               /\ page = [lanes |-> e[Len(L)].lanes, rows |-> [i \in 1 .. Len(L) |-> RowAt(L, P, e, i).row]]
  <2> DEFINE lanes == f[s].lanes
  <2>1. Len(L) \in Nat
    BY <1>3
  <2> HIDE DEF lanes
  <2>2. \E e : /\ e[0].lanes = lanes /\ Laid(L, P, e)
               /\ layout_into(L, P, lanes) = [lanes |-> e[Len(L)].lanes, rows |-> [i \in 1 .. Len(L) |-> RowAt(L, P, e, i).row]]
    BY <2>1, LayoutIs
  <2> QED
    BY <2>2 DEF lanes
<1> HIDE DEF P, page
<1>6. Laid(all, P, f)
  BY DEF all, P
<1>7. /\ \A k \in 0 .. m : e[k].lanes = f[s + k].lanes
      /\ \A i \in 1 .. m : RowAt(L, P, e, i) = RowAt(all, P, f, s + i)
  <2>1. Within(L, all, s, m)
    BY <1>1, <1>2, <1>3, <1>4 DEF N, Within
  <2>2. e[0].lanes = f[s].lanes /\ Laid(L, P, e)
    BY <1>5
  <2> QED
    BY <1>6, <2>1, <2>2, LaidSame
<1>8. page = [lanes |-> f[s + m].lanes, rows |-> [i \in 1 .. m |-> RowAt(all, P, f, s + i).row]]
  BY SMTT(30), <1>3, <1>5, <1>7
<1>9. commit_graph_page(g, s, take, f[s].lanes) =
        [lanes |-> page.lanes, rows |-> [i \in DOMAIN page.rows |-> GraphRow(g, page.rows[i], out)]]
  BY DEF commit_graph_page, page, L, P, all
<1> HIDE DEF out
<1>10. commit_graph_page(g, s, take, f[s].lanes) =
         [lanes |-> f[s + m].lanes, rows |-> [i \in 1 .. m |-> GraphRow(g, RowAt(all, P, f, s + i).row, out)]]
  BY <1>8, <1>9
<1> QED
  BY <1>10 DEF DrawnRow, all, P, out, m, N

(* The beginning of the whole drawing.                                      *)
LEMMA FromTopIs ==
    ASSUME NEW g, Whole(g)
    PROVE  \E f : /\ f[0].lanes = <<>> /\ Laid(log(g), History(g), f)
                  /\ \A k \in 0 .. Len(log(g)) :
                       FromTop(g, k) = [lanes |-> f[k].lanes, rows |-> [i \in 1 .. k |-> DrawnRow(g, f, i)]]
<1> DEFINE N == Len(log(g))
<1>1. N \in Nat
  BY LogType
<1>3. PICK f : f[0].lanes = <<>> /\ Laid(log(g), History(g), f)
  BY <1>1, LayoutIs
<1>4. ASSUME NEW k \in 0 .. N
      PROVE  FromTop(g, k) = [lanes |-> f[k].lanes, rows |-> [i \in 1 .. k |-> DrawnRow(g, f, i)]]
  <2>1. PageLen(N, 0, k) = k /\ 0 + k = k /\ k \in Nat /\ 0 \in 0 .. N
    BY <1>1 DEF PageLen
  <2>2. commit_graph_page(g, 0, k, f[0].lanes) =
          [lanes |-> f[0 + k].lanes, rows |-> [i \in 1 .. k |-> DrawnRow(g, f, 0 + i)]]
    BY <1>3, <2>1, PageOf
  <2>3. \A i \in 1 .. k : 0 + i = i
    BY <2>1
  <2>4. [i \in 1 .. k |-> DrawnRow(g, f, 0 + i)] = [i \in 1 .. k |-> DrawnRow(g, f, i)]
    BY <2>3
  <2> QED
    BY <1>3, <2>1, <2>2, <2>4 DEF FromTop
<1> QED
  BY <1>3, <1>4

(* The pages a client loads one after another, each from the lanes the one  *)
(* before left, are the beginning of the whole drawing.                     *)
LEMMA GraphPages ==
    ASSUME NEW g, Whole(g), NEW n \in 0 .. Len(log(g)), NEW take \in Nat
    PROVE  LET m == PageLen(Len(log(g)), n, take)
               q == commit_graph_page(g, n, take, FromTop(g, n).lanes)
           IN  /\ FromTop(g, n + m) = [lanes |-> q.lanes, rows |-> FromTop(g, n).rows \o q.rows]
               /\ Len(FromTop(g, n).rows) = n /\ Len(q.rows) = m /\ n + m \in 0 .. Len(log(g))
<1> DEFINE N == Len(log(g))  m == PageLen(N, n, take)  q == commit_graph_page(g, n, take, FromTop(g, n).lanes)
<1>1. N \in Nat /\ log(g) \in Seq(Born(g))
  BY LogType
<1>2. m \in Nat /\ n \in Nat /\ n + m \in 0 .. N
  BY <1>1 DEF PageLen
<1>3. PICK f : /\ f[0].lanes = <<>> /\ Laid(log(g), History(g), f)
               /\ \A k \in 0 .. N :
                    FromTop(g, k) = [lanes |-> f[k].lanes, rows |-> [i \in 1 .. k |-> DrawnRow(g, f, i)]]
  BY FromTopIs
<1>5. q = [lanes |-> f[n + m].lanes, rows |-> [i \in 1 .. m |-> DrawnRow(g, f, n + i)]]
  <2>1. FromTop(g, n).lanes = f[n].lanes
    BY <1>3
  <2>2. commit_graph_page(g, n, take, f[n].lanes) =
          [lanes |-> f[n + m].lanes, rows |-> [i \in 1 .. m |-> DrawnRow(g, f, n + i)]]
    BY <1>3, PageOf
  <2> QED
    BY <2>1, <2>2
<1> HIDE DEF q, m
<1> DEFINE a == [i \in 1 .. n |-> DrawnRow(g, f, i)]  b == [i \in 1 .. m |-> DrawnRow(g, f, n + i)]
           c == [i \in 1 .. n + m |-> DrawnRow(g, f, i)]  S == {DrawnRow(g, f, i) : i \in 1 .. n + m}
<1>6. a \in Seq(S) /\ b \in Seq(S) /\ c \in Seq(S) /\ Len(a) = n /\ Len(b) = m /\ Len(c) = n + m
  <2>1. \A i \in 1 .. m : n + i \in 1 .. n + m
    BY <1>2
  <2>2. a \in [1 .. n -> S] /\ b \in [1 .. m -> S] /\ c \in [1 .. n + m -> S]
    BY <1>2, <2>1
  <2>3. DOMAIN a = 1 .. n /\ DOMAIN b = 1 .. m /\ DOMAIN c = 1 .. n + m /\ n + m \in Nat
    BY <1>2
  <2> HIDE DEF a, b, c, S
  <2> QED
    BY <1>2, <2>2, <2>3
<1>7. \A i \in 1 .. n + m : c[i] = IF i <= n THEN a[i] ELSE b[i - n]
  <2> SUFFICES ASSUME NEW i \in 1 .. n + m
               PROVE  c[i] = IF i <= n THEN a[i] ELSE b[i - n]
    OBVIOUS
  <2>1. CASE i <= n
    <3>1. i \in 1 .. n
      BY <1>2, <2>1
    <3> QED
      BY <2>1, <3>1
  <2>2. CASE ~ (i <= n)
    <3>1. i - n \in 1 .. m /\ n + (i - n) = i
      BY <1>2, <2>2
    <3> QED
      BY <2>2, <3>1
  <2> QED
    BY <2>1, <2>2
<1>8. FromTop(g, n).rows = a /\ FromTop(g, n + m) = [lanes |-> f[n + m].lanes, rows |-> c]
      /\ q.rows = b /\ q.lanes = f[n + m].lanes
  <2>1. FromTop(g, n).rows = a
    BY <1>3
  <2>2. FromTop(g, n + m) = [lanes |-> f[n + m].lanes, rows |-> c]
    BY <1>2, <1>3
  <2>3. q.rows = b /\ q.lanes = f[n + m].lanes
    BY <1>5
  <2> QED
    BY <2>1, <2>2, <2>3
<1> HIDE DEF a, b, c, S
<1>9. a \o b = c
  <2>1. /\ a \o b \in Seq(S) /\ Len(a \o b) = n + m
        /\ \A i \in 1 .. n + m : (a \o b)[i] = IF i <= n THEN a[i] ELSE b[i - n]
    BY <1>6, ConcatProperties
  <2> QED
    BY <1>6, <1>7, <2>1, SeqEqual
<1> QED
  BY <1>2, <1>6, <1>8, <1>9 DEF m, q

-----------------------------------------------------------------------------
(* What the caches, the graph and the answers in hand hold: what the         *)
(* repository would answer now, or what an invalidation is due for, or what  *)
(* the exceptions of CachesFollow name.                                      *)

Answered == Keys \cap (RefKeys \cup FileKeys)
Dropping(kind) == \E c \in Client : task[c].pc \in {"moved", "drop"} /\ kind \in Drops(task[c].op)
RefDue ==
    \/ ~ watched \/ "GitRef" \in unreported \/ Dropping("GitRef")
    \/ \E c \in Client : task[c].pc = "checkout" /\ "GitRef" \in pending
FileDue == ~ watched \/ unreported # {} \/ Dropping("WorkingTree")
Due(k) == (k \in FileKeys /\ FileDue) \/ (k \notin FileKeys /\ RefDue)
GraphExcused == "graph" \in excused \/ RefDue

HandFits(t) ==
    /\ t.pc = "read" => /\ DOMAIN t = {"pc", "key", "cancelled", "raced", "skip", "lanes"} /\ t.key \in Keys
                        /\ t.key = "graph" => t.skip \in Nat
    /\ t.pc = "fill" => /\ DOMAIN t = {"pc", "key", "val", "skip", "raced"} /\ t.key \in Keys
                        /\ t.key = "graph" => t.skip \in Nat /\ IsSequence(t.val.rows)
InPlace(g, t) ==
    LET lanes == FromTop(g, t.skip).lanes IN
    /\ t.skip \in 0 .. Len(log(g))
    /\ t.pc = "read" => t.lanes = lanes
    /\ t.pc = "fill" => t.val = commit_graph_page(g, t.skip, PageSize, lanes)
Hand(c) ==
    LET t == task[c] IN
    /\ HandFits(t)
    /\ t.pc = "fill" /\ t.key \in Answered => t.val = View(git, t.key) \/ t.raced \/ Due(t.key)
    /\ t.pc \in {"read", "fill"} /\ t.key = "graph" => InPlace(git, t) \/ t.raced \/ GraphExcused
CacheFits ==
    /\ cache = [k \in Keys \ {"graph"} |-> cache[k]] /\ swallowed \subseteq WorktreeKeys
    /\ unreported \subseteq pending /\ IsSequence(accum.rows)
CacheFollows ==
    \A k \in Answered : cache[k] \in {NotCached, View(git, k)} \/ k \in excused \cup swallowed \/ Due(k)
Accumulated(g, a) ==
    /\ Len(a.rows) <= Len(log(g)) /\ [lanes |-> a.lanes, rows |-> a.rows] = FromTop(g, Len(a.rows))
    /\ a.complete => Len(a.rows) = Len(log(g))
AccumFollows == "graph" \in Keys => Accumulated(git, accum) \/ GraphExcused
Follows == CacheFits /\ CacheFollows /\ AccumFollows /\ \A c \in Client : Hand(c)

LEMMA KeysApart ==
    /\ Answered \subseteq Keys \ {"graph"} /\ FileKeys \cap RefKeys = {}
    /\ "graph" \notin RefKeys \cup FileKeys
  BY DEF Answered, FileKeys, RefKeys, WorktreeKeys

LEMMA PlaceKept ==
    ASSUME NEW g, Whole(g), NEW h, After(g, h), SameRefs(g, h)
    PROVE  /\ \A t : InPlace(g, t) => InPlace(h, t)
           /\ \A a : IsSequence(a.rows) /\ Accumulated(g, a) => Accumulated(h, a)
<1>1. PageSize \in Nat /\ Len(log(g)) \in Nat /\ log(h) = log(g)
  BY ContextAssumption, LogType, GraphSame
<1>2. /\ \A n \in Nat : FromTop(h, n) = FromTop(g, n)
      /\ \A n \in Nat : \A lanes : commit_graph_page(h, n, PageSize, lanes) = commit_graph_page(g, n, PageSize, lanes)
  BY <1>1, GraphSame DEF FromTop
<1>3. ASSUME NEW t, InPlace(g, t)
      PROVE  InPlace(h, t)
  <2>1. t.skip \in Nat
    BY <1>1, <1>3 DEF InPlace
  <2> QED
    BY <1>1, <1>2, <1>3, <2>1 DEF InPlace
<1>4. ASSUME NEW a, IsSequence(a.rows), Accumulated(g, a)
      PROVE  Accumulated(h, a)
  <2>1. Len(a.rows) \in Nat
    BY <1>4, LenProperties DEF IsSequence
  <2> QED
    BY <1>1, <1>2, <1>4, <2>1 DEF Accumulated
<1> QED
  BY <1>3, <1>4

(* A task that holds no answer in hand, or the one it held.                 *)
SameHand(t, u) ==
    u.pc \in {"read", "fill"} =>
      u.pc = t.pc /\ DOMAIN u = DOMAIN t /\ \A f \in DOMAIN t \ {"cancelled"} : u[f] = t[f]

LEMMA HandKept ==
    ASSUME NEW c \in Client, Hand(c), SameHand(task[c], task'[c]), Whole(git),
           \A k \in Answered : Due(k)' \/ (~ Due(k) /\ View(git', k) = View(git, k)),
           GraphExcused' \/ (~ GraphExcused /\ SameRefs(git, git') /\ After(git, git'))
    PROVE  Hand(c)'
<1> DEFINE t == task[c]  u == task'[c]
           DueThen(k) == (k \in FileKeys /\ FileDue') \/ (k \notin FileKeys /\ RefDue')
<1> SUFFICES ASSUME u.pc \in {"read", "fill"}
             PROVE  /\ HandFits(u)
                    /\ u.pc = "fill" /\ u.key \in Answered => u.val = View(git', u.key) \/ u.raced \/ DueThen(u.key)
                    /\ u.key = "graph" => InPlace(git', u) \/ u.raced \/ GraphExcused'
  BY DEF Hand, HandFits, Due
<1>1. /\ HandFits(t)
      /\ t.pc = "fill" /\ t.key \in Answered => t.val = View(git, t.key) \/ t.raced \/ Due(t.key)
      /\ t.pc \in {"read", "fill"} /\ t.key = "graph" => InPlace(git, t) \/ t.raced \/ GraphExcused
  BY DEF Hand
<1>2. u.pc = t.pc /\ DOMAIN u = DOMAIN t /\ \A f \in DOMAIN t \ {"cancelled"} : u[f] = t[f]
  BY DEF SameHand
<1> HIDE DEF t, u
<1>3. /\ HandFits(u) /\ u.key = t.key /\ u.raced = t.raced /\ u.skip = t.skip
      /\ t.pc = "read" => u.lanes = t.lanes
      /\ t.pc = "fill" => u.val = t.val
  BY <1>1, <1>2 DEF HandFits
<1> HIDE DEF DueThen
<1>4. u.pc = "fill" /\ u.key \in Answered => u.val = View(git', u.key) \/ u.raced \/ DueThen(u.key)
  <2>1. \A k \in Answered : DueThen(k) \/ (~ Due(k) /\ View(git', k) = View(git, k))
    BY DEF DueThen, Due
  <2> QED
    BY <1>1, <1>2, <1>3, <2>1
<1>5. InPlace(git, t) => InPlace(git, u)
  BY <1>2, <1>3 DEF InPlace
<1>6. ASSUME u.key = "graph", ~ GraphExcused', ~ u.raced
      PROVE  InPlace(git', u)
  <2>1. SameRefs(git, git') /\ After(git, git') /\ InPlace(git, u)
    BY <1>1, <1>2, <1>3, <1>5, <1>6
  <2> QED
    BY <2>1, PlaceKept
<1> QED
  BY <1>3, <1>4, <1>6

LEMMA RepositoryStep ==
    ASSUME Valid, Follows, After(git, git'), UNCHANGED <<cache, accum, excused, swallowed>>,
           \A c \in Client : SameHand(task[c], task'[c]) \/ Hand(c)',
           RefDue => RefDue', FileDue => FileDue',
           SameRefs(git, git') \/ RefDue', SameFiles(git, git') \/ FileDue',
           unreported' \subseteq pending'
    PROVE  Follows'
<1>0. Whole(git)
  BY DEF Valid
<1>1. ASSUME NEW k \in Answered
      PROVE  Due(k)' \/ (~ Due(k) /\ View(git', k) = View(git, k))
  <2>1. CASE k \in FileKeys
    <3>1. SameFiles(git, git') => View(git', k) = View(git, k)
      BY <1>0, <2>1, FileViewsSame
    <3> QED
      BY <2>1, <3>1 DEF Due
  <2>2. CASE k \notin FileKeys
    <3>1. k \in RefKeys
      BY <2>2 DEF Answered
    <3>2. SameRefs(git, git') => View(git', k) = View(git, k)
      BY <1>0, <3>1, RefViewsSame
    <3> QED
      BY <2>2, <3>2 DEF Due
  <2> QED
    BY <2>1, <2>2
<1>2. GraphExcused' \/ (~ GraphExcused /\ SameRefs(git, git') /\ After(git, git'))
  BY DEF GraphExcused
<1>3. \A c \in Client : Hand(c)'
  BY <1>0, <1>1, <1>2, HandKept DEF Follows
<1>4. CacheFits'
  BY DEF Follows, CacheFits
<1>5. CacheFollows'
  <2> SUFFICES ASSUME NEW k \in Answered
               PROVE  cache'[k] \in {NotCached, View(git', k)} \/ k \in excused' \cup swallowed' \/ Due(k)'
    BY DEF CacheFollows, Answered
  <2>1. cache[k] \in {NotCached, View(git, k)} \/ k \in excused \cup swallowed \/ Due(k)
    BY DEF Follows, CacheFollows
  <2> QED
    BY <1>1, <2>1
<1>6. AccumFollows'
  <2> SUFFICES ASSUME "graph" \in Keys, ~ GraphExcused'
               PROVE  Accumulated(git', accum')
    BY DEF AccumFollows
  <2>1. Accumulated(git, accum) /\ IsSequence(accum.rows) /\ SameRefs(git, git') /\ After(git, git')
    BY <1>2 DEF Follows, AccumFollows, CacheFits
  <2> QED
    BY <1>0, <2>1, PlaceKept
<1> QED
  BY <1>3, <1>4, <1>5, <1>6 DEF Follows

LEMMA NothingDrawn ==
    ASSUME NEW g, Whole(g)
    PROVE  Accumulated(g, EmptyAccum) /\ IsSequence(EmptyAccum.rows)
<1>1. Len(log(g)) \in Nat /\ EmptyAccum = [rows |-> <<>>, lanes |-> <<>>, complete |-> FALSE]
  BY LogType DEF EmptyAccum
<1>2. PICK f : /\ f[0].lanes = <<>>
               /\ \A k \in 0 .. Len(log(g)) :
                    FromTop(g, k) = [lanes |-> f[k].lanes, rows |-> [i \in 1 .. k |-> DrawnRow(g, f, i)]]
  BY FromTopIs
<1>3. 0 \in 0 .. Len(log(g))
  BY <1>1
<1>4. FromTop(g, 0) = [lanes |-> f[0].lanes, rows |-> [i \in 1 .. 0 |-> DrawnRow(g, f, i)]]
  BY <1>2, <1>3
<1>5. [i \in 1 .. 0 |-> DrawnRow(g, f, i)] = <<>>
  OBVIOUS
<1>6. FromTop(g, 0) = [lanes |-> <<>>, rows |-> <<>>]
  BY <1>2, <1>4, <1>5
<1>7. Len(<<>>) = 0 /\ <<>> \in Seq(Range(<<>>))
  BY EmptySeq
<1> QED
  BY <1>1, <1>6, <1>7 DEF Accumulated, IsSequence

(* A report or an invalidation that is about a key marks the answer in hand.*)
LEMMA RacedIs ==
    ASSUME NEW t, HandFits(t), NEW about
    PROVE  LET u == Raced(about, t) IN
           /\ u.pc = t.pc /\ HandFits(u)
           /\ t.pc \in {"read", "fill"} =>
                /\ \A f \in DOMAIN t \ {"raced"} : u[f] = t[f]
                /\ t.key \in Dropped(about) /\ (t.pc = "fill" \/ t.key = "graph") => u.raced
                /\ t.key \notin Dropped(about) => u = t
<1> DEFINE u == Raced(about, t)  hit == (t.pc = "fill" \/ (t.pc = "read" /\ t.key = "graph")) /\ t.key \in Dropped(about)
<1>1. CASE ~ hit
  <2>1. u = t
    BY <1>1 DEF Raced
  <2> QED
    BY <1>1, <2>1
<1>2. CASE hit
  <2>1. u = [t EXCEPT !.raced = TRUE]
    BY <1>2 DEF Raced
  <2>2. DOMAIN u = DOMAIN t /\ u.raced = TRUE /\ \A f \in DOMAIN t \ {"raced"} : u[f] = t[f]
    BY <1>2, <2>1 DEF HandFits
  <2> HIDE DEF u
  <2>3. u.pc = t.pc /\ u.key = t.key /\ u.skip = t.skip /\ (t.pc = "fill" => u.val = t.val)
    BY <1>2, <2>2 DEF HandFits
  <2>4. HandFits(u)
    BY <1>2, <2>2, <2>3 DEF HandFits
  <2> QED
    BY <1>2, <2>2, <2>3, <2>4 DEF u
<1> QED
  BY <1>1, <1>2

(* Dropping the answers of some kinds of change.                            *)
LEMMA ClearStep ==
    ASSUME Valid, Follows, UNCHANGED git, NEW kinds, NEW about, invalidate(kinds),
           Dropped(kinds) \subseteq Dropped(about),
           Dropped(about) \ Dropped(kinds) \subseteq WorktreeKeys,
           excused' = excused \ Dropped(kinds),
           swallowed' = (swallowed \ Dropped(kinds)) \cup (Dropped(about) \ Dropped(kinds)),
           \A c \in Client : \/ task'[c] = Raced(about, task[c])
                             \/ task'[c].pc \notin {"read", "fill"}
                             \/ task'[c] = Reading("status", 0, <<>>) /\ "status" \in Keys,
           FileKeys \subseteq Dropped(about) \/ (FileDue => FileDue'),
           RefKeys \cup {"graph"} \subseteq Dropped(about) \/ (RefDue => RefDue'),
           unreported' \subseteq pending'
    PROVE  Follows'
<1> DEFINE D == Dropped(kinds)  A == Dropped(about)
<1>0. Whole(git) /\ "graph" \notin WorktreeKeys /\ NotCached = NotCached
  BY DEF Valid, WorktreeKeys
<1>1. /\ cache' = [k \in DOMAIN cache |-> IF k \in D THEN NotCached ELSE cache[k]]
      /\ accum' = IF "graph" \in D THEN EmptyAccum ELSE accum
      /\ D \subseteq A /\ A \ D \subseteq WorktreeKeys
      /\ excused' = excused \ D /\ swallowed' = (swallowed \ D) \cup (A \ D)
      /\ FileKeys \subseteq A \/ (FileDue => FileDue')
      /\ RefKeys \cup {"graph"} \subseteq A \/ (RefDue => RefDue')
  BY DEF invalidate
<1> HIDE DEF D
<1>2. CacheFits'
  <2>1. IsSequence(accum'.rows)
    BY <1>0, <1>1, NothingDrawn DEF Follows, CacheFits
  <2> QED
    BY <1>1, <2>1 DEF Follows, CacheFits
<1> HIDE DEF A
<1>3. ASSUME NEW k \in Answered, k \notin A
      PROVE  Due(k) => Due(k)'
  <2>1. CASE k \in FileKeys
    BY <1>1, <1>3, <2>1 DEF Due
  <2>2. CASE k \notin FileKeys
    BY <1>1, <1>3, <2>2 DEF Due, Answered
  <2> QED
    BY <2>1, <2>2
<1>4. CacheFollows'
  <2> SUFFICES ASSUME NEW k \in Answered
               PROVE  cache'[k] \in {NotCached, View(git, k)} \/ k \in excused' \cup swallowed' \/ Due(k)'
    BY DEF CacheFollows, Answered
  <2>1. cache[k] \in {NotCached, View(git, k)} \/ k \in excused \cup swallowed \/ Due(k)
    BY DEF Follows, CacheFollows
  <2>2. k \in DOMAIN cache
    BY KeysApart DEF Follows, CacheFits
  <2> QED
    BY <1>1, <1>3, <2>1, <2>2
<1>5. AccumFollows'
  <2> SUFFICES ASSUME "graph" \in Keys
               PROVE  Accumulated(git, accum') \/ GraphExcused'
    BY DEF AccumFollows
  <2>1. CASE "graph" \in D
    BY <1>0, <1>1, <2>1, NothingDrawn
  <2>2. CASE "graph" \notin D
    <3>1. accum' = accum /\ ("graph" \in excused => "graph" \in excused') /\ (RefDue => RefDue')
      BY <1>0, <1>1, <2>2
    <3> QED
      BY <3>1 DEF Follows, AccumFollows, GraphExcused
  <2> QED
    BY <2>1, <2>2
<1>6. ASSUME NEW c \in Client
      PROVE  Hand(c)'
  <2> DEFINE t == task[c]  u == task'[c]
             DueThen(k) == (k \in FileKeys /\ FileDue') \/ (k \notin FileKeys /\ RefDue')
  <2>1. /\ HandFits(t)
        /\ t.pc = "fill" /\ t.key \in Answered => t.val = View(git, t.key) \/ t.raced \/ Due(t.key)
        /\ t.pc \in {"read", "fill"} /\ t.key = "graph" => InPlace(git, t) \/ t.raced \/ GraphExcused
    BY DEF Follows, Hand
  <2> SUFFICES /\ HandFits(u)
               /\ u.pc = "fill" /\ u.key \in Answered => u.val = View(git, u.key) \/ u.raced \/ DueThen(u.key)
               /\ u.pc \in {"read", "fill"} /\ u.key = "graph" => InPlace(git, u) \/ u.raced \/ GraphExcused'
    BY DEF Hand, Due
  <2>2. \/ u = Raced(about, t)
        \/ u.pc \notin {"read", "fill"}
        \/ u = Reading("status", 0, <<>>) /\ "status" \in Keys
    OBVIOUS
  <2> HIDE DEF t, u
  <2>3. CASE u.pc \notin {"read", "fill"}
    BY <2>3 DEF HandFits
  <2>4. CASE u = Reading("status", 0, <<>>) /\ "status" \in Keys
    <3>1. u = [pc |-> "read", key |-> "status", cancelled |-> FALSE, raced |-> FALSE, skip |-> 0, lanes |-> <<>>]
      BY <2>4 DEF Reading
    <3>2. DOMAIN u = {"pc", "key", "cancelled", "raced", "skip", "lanes"} /\ u.pc = "read" /\ u.key = "status"
      BY <3>1
    <3> QED
      BY <2>4, <3>2 DEF HandFits
  <2>5. CASE u = Raced(about, t) /\ u.pc \in {"read", "fill"}
    <3>1. /\ u.pc = t.pc /\ HandFits(u)
          /\ \A f \in DOMAIN t \ {"raced"} : u[f] = t[f]
          /\ t.key \in A /\ (t.pc = "fill" \/ t.key = "graph") => u.raced
          /\ t.key \notin A => u = t
      BY <2>1, <2>5, RacedIs DEF A
    <3>2. u.key = t.key
      BY <2>1, <2>5, <3>1 DEF HandFits
    <3>3. ASSUME u.pc = "fill", u.key \in Answered
          PROVE  u.val = View(git, u.key) \/ u.raced \/ DueThen(u.key)
      <4>1. CASE u.key \in A
        BY <3>1, <3>2, <3>3, <4>1
      <4>2. CASE u.key \notin A
        <5>1. u = t
          BY <3>1, <3>2, <4>2
        <5>2. Due(u.key) => DueThen(u.key)
          <6> DEFINE k == u.key
          <6>1. k \in Answered /\ k \notin A
            BY <3>3, <4>2
          <6> HIDE DEF k
          <6>2. Due(k) => DueThen(k)
            BY <1>3, <6>1 DEF Due
          <6> QED
            BY <6>2 DEF k
        <5> HIDE DEF DueThen
        <5> QED
          BY <2>1, <3>3, <5>1, <5>2
      <4> QED
        BY <4>1, <4>2
    <3>4. ASSUME u.key = "graph"
          PROVE  InPlace(git, u) \/ u.raced \/ GraphExcused'
      <4>1. CASE u.key \in A
        BY <3>1, <3>2, <3>4, <4>1
      <4>2. CASE u.key \notin A
        <5>1. u = t /\ "graph" \notin D /\ (RefDue => RefDue') /\ ("graph" \in excused => "graph" \in excused')
          BY <1>1, <3>1, <3>2, <3>4, <4>2
        <5> QED
          BY <2>1, <2>5, <3>4, <5>1 DEF GraphExcused
      <4> QED
        BY <4>1, <4>2
    <3> QED
      BY <3>1, <3>3, <3>4
  <2> QED
    BY <2>2, <2>3, <2>4, <2>5
<1> QED
  BY <1>2, <1>4, <1>5, <1>6 DEF Follows

(* An invalidation that was due stays due.                                  *)
DueTask(t, u) ==
    /\ t.pc \in {"moved", "drop"} => u.pc \in {"moved", "drop"} /\ u.op = t.op
    /\ t.pc = "checkout" => u.pc = "checkout"
LEMMA DueKept ==
    ASSUME watched' => watched, unreported \subseteq unreported', pending \subseteq pending',
           \A c \in Client : DueTask(task[c], task'[c])
    PROVE  (RefDue => RefDue') /\ (FileDue => FileDue')
<1>1. ASSUME NEW kind, Dropping(kind)
      PROVE  Dropping(kind)'
  BY <1>1 DEF Dropping, DueTask
<1>2. ASSUME NEW c \in Client, task[c].pc = "checkout", "GitRef" \in pending
      PROVE  RefDue'
  BY <1>2 DEF DueTask, RefDue
<1> QED
  BY <1>1, <1>2 DEF RefDue, FileDue

LEMMA OneActs ==
    ASSUME Valid, NEW c \in Client, NEW u, task' = [task EXCEPT ![c] = u]
    PROVE  /\ task'[c] = u /\ \A d \in Client \ {c} : task'[d] = task[d]
           /\ \A d \in Client \ {c} : SameHand(task[d], task'[d]) /\ DueTask(task[d], task'[d])
           /\ u.pc \notin {"read", "fill"} => SameHand(task[c], u)
           /\ task[c].pc \notin {"moved", "drop", "checkout"} => DueTask(task[c], u)
<1>1. task'[c] = u /\ \A d \in Client \ {c} : task'[d] = task[d]
  BY OneTask
<1> QED
  BY <1>1 DEF SameHand, DueTask

LEMMA NothingMoves ==
    ASSUME Valid, UNCHANGED git
    PROVE  After(git, git') /\ SameRefs(git, git') /\ SameFiles(git, git')
  BY AfterItself DEF Valid, Safe, SameRefs, SameFiles, HeadOid

LEMMA ReadMissFollows ==
    ASSUME Valid, Follows, NEW c \in Client, IsIdle(c), NEW k \in Keys, NEW skip, NEW lanes,
           ReadMiss(c, k, Reading(k, skip, lanes)),
           k = "graph" => skip = Len(accum.rows) /\ lanes = accum.lanes
    PROVE  Follows'
<1> DEFINE Then(d) ==
        IF d = c THEN Reading(k, skip, lanes)
        ELSE IF task[d].pc = "read" /\ task[d].key = k /\ k \in GenKeys
             THEN [task[d] EXCEPT !.cancelled = TRUE] ELSE task[d]
<1>1. /\ UNCHANGED <<git, cache, accum, pending, watched, unreported, excused, swallowed>>
      /\ \A d \in Client : task'[d] = Then(d)
  BY DEF ReadMiss, ghosts
<1>2. \A d \in Client : HandFits(task[d])
  BY DEF Follows, Hand
<1>3. ASSUME NEW d \in Client, d # c
      PROVE  SameHand(task[d], task'[d]) /\ DueTask(task[d], task'[d])
  <2>1. CASE task'[d] = task[d]
    BY <2>1 DEF SameHand, DueTask
  <2>2. CASE task'[d] # task[d]
    <3> DEFINE t == task[d]  u == task'[d]
    <3>1. t.pc = "read" /\ u = [t EXCEPT !.cancelled = TRUE]
      BY <1>1, <1>3, <2>2
    <3>2. DOMAIN t = {"pc", "key", "cancelled", "raced", "skip", "lanes"}
      BY <1>2, <3>1 DEF HandFits
    <3> HIDE DEF t, u
    <3>3. SameHand(t, u) /\ DueTask(t, u)
      BY <3>1, <3>2 DEF SameHand, DueTask
    <3> QED
      BY <3>3 DEF t, u
  <2> QED
    BY <2>1, <2>2
<1>4. task'[c] = Reading(k, skip, lanes) /\ DueTask(task[c], task'[c])
  BY <1>1 DEF IsIdle, DueTask
<1>5. (RefDue => RefDue') /\ (FileDue => FileDue')
  BY <1>1, <1>3, <1>4, DueKept
<1>6. Hand(c)'
  <2> DEFINE u == task'[c]
  <2>1. u = [pc |-> "read", key |-> k, cancelled |-> FALSE, raced |-> FALSE, skip |-> skip, lanes |-> lanes]
    BY <1>4 DEF Reading
  <2>2. /\ DOMAIN u = {"pc", "key", "cancelled", "raced", "skip", "lanes"}
        /\ u.pc = "read" /\ u.key = k /\ u.skip = skip /\ u.lanes = lanes
    BY <2>1
  <2> SUFFICES HandFits(u) /\ (u.key = "graph" => InPlace(git, u) \/ GraphExcused')
    BY <1>1, <2>2 DEF Hand
  <2> HIDE DEF u
  <2>3. IsSequence(accum.rows) /\ Len(accum.rows) \in Nat
    <3>1. IsSequence(accum.rows)
      BY DEF Follows, CacheFits
    <3> QED
      BY <3>1, LenProperties DEF IsSequence
  <2>4. HandFits(u)
    BY <2>2, <2>3 DEF HandFits
  <2>5. ASSUME k = "graph"
        PROVE  InPlace(git, u) \/ GraphExcused'
    <3>1. Accumulated(git, accum) \/ GraphExcused
      BY <2>5 DEF Follows, AccumFollows
    <3>2. GraphExcused => GraphExcused'
      BY <1>1, <1>5 DEF GraphExcused
    <3>3. Accumulated(git, accum) => InPlace(git, u)
      <4> SUFFICES ASSUME Accumulated(git, accum)
                   PROVE  InPlace(git, u)
        OBVIOUS
      <4> DEFINE n == Len(accum.rows)
      <4>1. n <= Len(log(git)) /\ [lanes |-> accum.lanes, rows |-> accum.rows] = FromTop(git, n)
        BY DEF Accumulated
      <4>2. Len(log(git)) \in Nat
        BY LogType DEF Valid
      <4>3. u.skip = n /\ u.lanes = accum.lanes
        BY <2>2, <2>5
      <4> HIDE DEF n
      <4>4. accum.lanes = FromTop(git, n).lanes /\ n \in 0 .. Len(log(git))
        BY <2>3, <4>1, <4>2 DEF n
      <4> QED
        BY <2>2, <4>3, <4>4 DEF InPlace
    <3> QED
      BY <3>1, <3>2, <3>3
  <2> QED
    BY <2>2, <2>4, <2>5
<1>7. unreported' \subseteq pending'
  BY <1>1 DEF Follows, CacheFits
<1>8. After(git, git') /\ SameRefs(git, git') /\ SameFiles(git, git')
  BY <1>1, NothingMoves
<1> QED
  BY <1>1, <1>3, <1>5, <1>6, <1>7, <1>8, RepositoryStep

LEMMA ReadRepositoryFollows ==
    ASSUME Valid, Follows, NEW c \in Client, ReadRepository(c)
    PROVE  Follows'
<1> DEFINE t == task[c]
           answer == IF t.key = "graph" THEN commit_graph_page(git, t.skip, PageSize, t.lanes) ELSE View(git, t.key)
           filled == [pc |-> "fill", key |-> t.key, val |-> answer, skip |-> t.skip, raced |-> t.raced]
           u == IF t.cancelled THEN Idle ELSE filled
<1>1. /\ UNCHANGED <<git, cache, accum, pending, watched, unreported, excused, swallowed>>
      /\ t.pc = "read" /\ task' = [task EXCEPT ![c] = u]
  BY DEF ReadRepository, ghosts
<1>2. /\ HandFits(t) /\ (t.key = "graph" => InPlace(git, t) \/ t.raced \/ GraphExcused)
      /\ Whole(git) /\ PageSize \in Nat
  BY <1>1, ContextAssumption DEF Follows, Hand, Valid
<1> HIDE DEF u
<1>3. /\ task'[c] = u /\ \A d \in Client \ {c} : SameHand(task[d], task'[d]) /\ DueTask(task[d], task'[d])
      /\ DueTask(t, u)
  BY <1>1, OneActs
<1> HIDE DEF t, answer
<1>4. (RefDue => RefDue') /\ (FileDue => FileDue')
  BY <1>1, <1>3, DueKept DEF t
<1>5. Hand(c)'
  <2>1. CASE t.cancelled
    BY <1>3, <2>1 DEF u, Idle, Hand, HandFits
  <2>2. CASE ~ t.cancelled
    <3>1. u = filled
      BY <2>2 DEF u
    <3>2. /\ DOMAIN u = {"pc", "key", "val", "skip", "raced"} /\ u.pc = "fill" /\ u.key = t.key
          /\ u.val = answer /\ u.skip = t.skip /\ u.raced = t.raced
      BY <3>1
    <3>3. t.key \in Keys /\ (t.key = "graph" => t.skip \in Nat)
      BY <1>1, <1>2 DEF HandFits
    <3>4. ASSUME t.key = "graph"
          PROVE  IsSequence(u.val.rows) /\ (InPlace(git, t) => InPlace(git, u))
      <4>1. u.val = commit_graph_page(git, t.skip, PageSize, t.lanes)
        BY <3>2, <3>4 DEF answer
      <4>2. IsSequence(u.val.rows)
        BY ZenonT(60), <1>2, <3>3, <3>4, <4>1, PageRows
      <4>3. InPlace(git, t) => InPlace(git, u)
        BY <1>1, <3>2, <4>1 DEF InPlace
      <4> QED
        BY <4>2, <4>3
    <3>5. HandFits(u)
      BY <3>2, <3>3, <3>4 DEF HandFits
    <3>6. u.key \in Answered => u.val = View(git, u.key)
      BY <3>2, KeysApart DEF answer
    <3>7. u.key = "graph" => InPlace(git, u) \/ u.raced \/ GraphExcused'
      BY <1>1, <1>2, <1>4, <3>2, <3>4 DEF GraphExcused
    <3> QED
      BY <1>1, <1>3, <3>5, <3>6, <3>7 DEF Hand
  <2> QED
    BY <2>1, <2>2
<1>6. unreported' \subseteq pending'
  BY <1>1 DEF Follows, CacheFits
<1>7. After(git, git') /\ SameRefs(git, git') /\ SameFiles(git, git')
  BY <1>1, NothingMoves
<1>8. \A d \in Client : SameHand(task[d], task'[d]) \/ Hand(d)'
  BY <1>3, <1>5
<1> QED
  BY <1>1, <1>4, <1>6, <1>7, <1>8, RepositoryStep

LEMMA FillFollows ==
    ASSUME Valid, Follows, NEW c \in Client, Fill(c)
    PROVE  Follows'
<1> DEFINE t == task[c]
<1>1. /\ t.pc = "fill" /\ t.key # "graph" /\ UNCHANGED <<git, accum, pending, watched, unreported>>
      /\ cache' = [cache EXCEPT ![t.key] = t.val] /\ swallowed' = swallowed \ {t.key}
      /\ excused' = (IF t.raced THEN excused \cup {t.key} ELSE excused \ {t.key})
      /\ task' = [task EXCEPT ![c] = Idle]
  BY DEF Fill, Marks
<1>2. /\ t.key \in Keys \ {"graph"} /\ Whole(git)
      /\ t.key \in Answered => t.val = View(git, t.key) \/ t.raced \/ Due(t.key)
  BY <1>1 DEF Follows, Hand, HandFits, Valid
<1>3. /\ \A d \in Client : SameHand(task[d], task'[d]) /\ DueTask(task[d], task'[d])
  <2>1. /\ task'[c] = Idle /\ \A d \in Client \ {c} : SameHand(task[d], task'[d]) /\ DueTask(task[d], task'[d])
        /\ Idle.pc \notin {"read", "fill"} => SameHand(task[c], Idle)
        /\ task[c].pc \notin {"moved", "drop", "checkout"} => DueTask(task[c], Idle)
    BY <1>1, OneActs
  <2> QED
    BY <1>1, <2>1 DEF Idle
<1> HIDE DEF t
<1>4. (RefDue => RefDue') /\ (FileDue => FileDue')
  BY <1>1, <1>3, DueKept
<1>5. \A k \in Answered : Due(k) => Due(k)'
  BY <1>4 DEF Due
<1>6. GraphExcused => GraphExcused'
  BY <1>1, <1>4 DEF GraphExcused
<1>7. After(git, git') /\ SameRefs(git, git')
  BY <1>1, NothingMoves
<1>8. ASSUME NEW d \in Client
      PROVE  Hand(d)'
  <2>1. Hand(d) /\ SameHand(task[d], task'[d])
    BY <1>3 DEF Follows
  <2>2. \A k \in Answered : Due(k)' \/ (~ Due(k) /\ View(git', k) = View(git, k))
    BY <1>1, <1>5
  <2> QED
    BY <1>2, <1>6, <1>7, <2>1, <2>2, HandKept
<1>9. CacheFits'
  BY <1>1, <1>2 DEF Follows, CacheFits
<1>10. CacheFollows'
  <2> SUFFICES ASSUME NEW k \in Answered
               PROVE  cache'[k] \in {NotCached, View(git, k)} \/ k \in excused' \cup swallowed' \/ Due(k)'
    BY <1>1 DEF CacheFollows, Answered
  <2>1. cache[k] \in {NotCached, View(git, k)} \/ k \in excused \cup swallowed \/ Due(k)
    BY DEF Follows, CacheFollows
  <2>2. cache = [x \in Keys \ {"graph"} |-> cache[x]] /\ k \in Keys \ {"graph"}
    BY KeysApart DEF Follows, CacheFits
  <2>3. CASE k = t.key
    <3>1. cache'[k] = t.val
      BY <1>1, <2>2, <2>3
    <3> QED
      BY <1>1, <1>2, <1>5, <2>3, <3>1
  <2>4. CASE k # t.key
    <3>1. cache'[k] = cache[k]
      BY <1>1, <2>2, <2>4
    <3> QED
      BY <1>1, <1>5, <2>1, <2>4, <3>1
  <2> QED
    BY <2>3, <2>4
<1>11. AccumFollows'
  BY <1>1, <1>6 DEF Follows, AccumFollows
<1> QED
  BY <1>8, <1>9, <1>10, <1>11 DEF Follows

(* A page in its place brings the accumulated graph further down.           *)
LEMMA PageAppended ==
    ASSUME NEW g, Whole(g), NEW a, IsSequence(a.rows), Accumulated(g, a),
           NEW t, t.pc = "fill", InPlace(g, t), t.skip = Len(a.rows)
    PROVE  Accumulated(g, [rows |-> a.rows \o t.val.rows, lanes |-> t.val.lanes,
                           complete |-> a.complete \/ Len(t.val.rows) < PageSize])
<1> DEFINE n == Len(a.rows)  N == Len(log(g))  m == PageLen(N, n, PageSize)
           q == commit_graph_page(g, n, PageSize, FromTop(g, n).lanes)
           rows == a.rows \o t.val.rows
           b == [rows |-> rows, lanes |-> t.val.lanes, complete |-> a.complete \/ Len(t.val.rows) < PageSize]
<1>1. N \in Nat /\ PageSize \in Nat /\ n \in 0 .. N
  <2>1. N \in Nat /\ PageSize \in Nat /\ n \in Nat /\ n <= N
    BY ContextAssumption, LogType, LenProperties DEF IsSequence, Accumulated
  <2> QED
    BY <2>1
<1>2. [lanes |-> a.lanes, rows |-> a.rows] = FromTop(g, n) /\ t.val = q /\ (a.complete => n = N)
  BY DEF Accumulated, InPlace
<1>3. /\ FromTop(g, n + m) = [lanes |-> q.lanes, rows |-> FromTop(g, n).rows \o q.rows]
      /\ Len(q.rows) = m /\ n + m \in 0 .. N
  BY <1>1, GraphPages
<1>4. Len(FromTop(g, n + m).rows) = n + m
  <2> DEFINE k == n + m
  <2>1. k \in 0 .. N
    BY <1>3
  <2> HIDE DEF k
  <2>2. Len(FromTop(g, k).rows) = k
    BY <1>1, <2>1, GraphPages
  <2> QED
    BY <2>2 DEF k
<1> HIDE DEF q
<1>5. m < PageSize \/ a.complete => n + m = N
  <2>1. m = IF n + PageSize <= N THEN PageSize ELSE IF n <= N THEN N - n ELSE 0
    BY DEF PageLen
  <2> HIDE DEF m, N, n
  <2>2. m < PageSize => n + m = N
    BY <1>1, <2>1
  <2>3. n = N => n + m = N
    BY <1>1, <2>1
  <2> QED
    BY <1>2, <2>2, <2>3 DEF n, N
<1> HIDE DEF m, N, n
<1>6. FromTop(g, n).rows = a.rows
  BY <1>2
<1>7. FromTop(g, n + m) = [lanes |-> t.val.lanes, rows |-> rows]
  BY <1>2, <1>3, <1>6
<1> HIDE DEF rows
<1>8. Len(rows) = n + m
  BY <1>4, <1>7
<1>9. Accumulated(g, b)
  <2>1. b.rows = rows /\ b.lanes = t.val.lanes /\ b.complete = (a.complete \/ Len(t.val.rows) < PageSize)
    OBVIOUS
  <2>2. b.complete => Len(b.rows) = N
    BY <1>2, <1>3, <1>5, <1>8, <2>1
  <2> HIDE DEF b
  <2>3. Len(b.rows) = n + m /\ n + m <= N
    BY <1>1, <1>3, <1>8, <2>1
  <2>4. [lanes |-> b.lanes, rows |-> b.rows] = FromTop(g, Len(b.rows))
    BY <1>7, <2>1, <2>3
  <2> QED
    BY <2>2, <2>3, <2>4 DEF Accumulated, N
<1> QED
  BY <1>9 DEF rows

LEMMA GraphFillFollows ==
    ASSUME Valid, Follows, NEW c \in Client, GraphFill(c)
    PROVE  Follows'
<1> DEFINE t == task[c]
           more == [rows |-> accum.rows \o t.val.rows, lanes |-> t.val.lanes,
                    complete |-> accum.complete \/ Len(t.val.rows) < PageSize]
<1>1. /\ t.pc = "fill" /\ t.key = "graph"
      /\ UNCHANGED <<git, cache, pending, watched, unreported, swallowed>>
      /\ \/ t.skip = Len(accum.rows) /\ accum' = more /\ excused' = IF t.raced THEN excused \cup {"graph"} ELSE excused
         \/ UNCHANGED <<accum, excused>>
      /\ task' = [task EXCEPT ![c] = Idle]
  BY DEF GraphFill, GraphFits
<1>2. /\ IsSequence(t.val.rows) /\ IsSequence(accum.rows) /\ Whole(git) /\ "graph" \in Keys
      /\ InPlace(git, t) \/ t.raced \/ GraphExcused
      /\ Accumulated(git, accum) \/ GraphExcused
  BY <1>1 DEF Follows, Hand, HandFits, CacheFits, AccumFollows, Valid
<1>3. /\ \A d \in Client : SameHand(task[d], task'[d]) /\ DueTask(task[d], task'[d])
  <2>1. /\ task'[c] = Idle /\ \A d \in Client \ {c} : SameHand(task[d], task'[d]) /\ DueTask(task[d], task'[d])
        /\ Idle.pc \notin {"read", "fill"} => SameHand(task[c], Idle)
        /\ task[c].pc \notin {"moved", "drop", "checkout"} => DueTask(task[c], Idle)
    BY <1>1, OneActs
  <2> QED
    BY <1>1, <2>1 DEF Idle
<1> HIDE DEF t
<1>4. (RefDue => RefDue') /\ (FileDue => FileDue') /\ excused \subseteq excused'
      /\ (\A k \in excused' \ excused : k = "graph")
  BY <1>1, <1>3, DueKept
<1>5. \A k \in Answered : Due(k) => Due(k)'
  BY <1>4 DEF Due
<1>6. GraphExcused => GraphExcused'
  BY <1>4 DEF GraphExcused
<1>7. After(git, git') /\ SameRefs(git, git')
  BY <1>1, NothingMoves
<1>8. ASSUME NEW d \in Client
      PROVE  Hand(d)'
  <2>1. Hand(d) /\ SameHand(task[d], task'[d])
    BY <1>3 DEF Follows
  <2>2. \A k \in Answered : Due(k)' \/ (~ Due(k) /\ View(git', k) = View(git, k))
    BY <1>1, <1>5
  <2> QED
    BY <1>2, <1>6, <1>7, <2>1, <2>2, HandKept
<1>9. CacheFits'
  <2>1. IsSequence(accum.rows \o t.val.rows)
    <3> DEFINE a == accum.rows  b == t.val.rows  S == Range(a) \cup Range(b)  s == a \o b
    <3>1. a \in Seq(Range(a)) /\ b \in Seq(Range(b)) /\ Range(a) \subseteq S /\ Range(b) \subseteq S
      BY <1>2 DEF IsSequence
    <3> HIDE DEF a, b, S
    <3>2. a \in Seq(S) /\ b \in Seq(S)
      BY <3>1, SeqMonotonic
    <3>3. s \in Seq(S)
      BY <3>2, ConcatProperties
    <3> HIDE DEF s
    <3>4. \A i \in 1 .. Len(s) : s[i] \in Range(s)
      BY <3>3, LenProperties DEF Range
    <3>5. s \in Seq(Range(s))
      BY <3>3, <3>4, SeqRefine
    <3> QED
      BY <3>5 DEF IsSequence, s, a, b
  <2>2. accum'.rows \in {accum.rows, accum.rows \o t.val.rows}
    <3>1. more.rows = accum.rows \o t.val.rows
      OBVIOUS
    <3> HIDE DEF more
    <3> QED
      BY <1>1, <3>1
  <2>3. IsSequence(accum'.rows)
    BY <1>2, <2>1, <2>2
  <2> QED
    BY <1>1, <2>3 DEF Follows, CacheFits
<1>10. CacheFollows'
  <2> SUFFICES ASSUME NEW k \in Answered
               PROVE  cache'[k] \in {NotCached, View(git, k)} \/ k \in excused' \cup swallowed' \/ Due(k)'
    BY <1>1 DEF CacheFollows, Answered
  <2> QED
    BY <1>1, <1>4, <1>5 DEF Follows, CacheFollows
<1>11. AccumFollows'
  <2> SUFFICES ASSUME ~ GraphExcused'
               PROVE  Accumulated(git, accum')
    BY <1>1 DEF AccumFollows
  <2>1. Accumulated(git, accum) /\ ~ GraphExcused
    BY <1>2, <1>6
  <2>2. CASE accum' = accum
    BY <2>1, <2>2
  <2>3. CASE t.skip = Len(accum.rows) /\ accum' = more /\ excused' = IF t.raced THEN excused \cup {"graph"} ELSE excused
    <3>1. ~ t.raced
      BY <2>3 DEF GraphExcused
    <3>2. InPlace(git, t)
      BY <1>2, <2>1, <3>1
    <3> QED
      BY <1>1, <1>2, <2>1, <2>3, <3>2, PageAppended
  <2> QED
    BY <1>1, <2>2, <2>3
<1> QED
  BY <1>8, <1>9, <1>10, <1>11 DEF Follows

-----------------------------------------------------------------------------
(* Steps that drop answers                                                   *)

LEMMA DroppedKeys ==
    /\ \A kinds : "WorkingTree" \in kinds => FileKeys \subseteq Dropped(kinds)
    /\ \A kinds : "GitRef" \in kinds => RefKeys \cup {"graph"} \subseteq Dropped(kinds)
    /\ \A k : Dropped({k}) = Cleared(k)
    /\ FileKeys \subseteq Cleared("Index") /\ FileKeys \subseteq Cleared("WorkingTree")
    /\ Dropped({"GitRef", "WorkingTree"}) = RefKeys \cup {"graph"} \cup FileKeys
    /\ Cleared("GitRef") = RefKeys \cup {"graph", "blame"}
<1>1. /\ Cleared("WorkingTree") = FileKeys /\ Cleared("Index") = FileKeys
      /\ Cleared("GitRef") = RefKeys \cup {"graph", "blame"}
  BY DEF Cleared, FileKeys
<1>2. \A k : Dropped({k}) = Cleared(k)
  BY DEF Dropped
<1>3. \A kinds, k : k \in kinds => Cleared(k) \subseteq Dropped(kinds)
  BY DEF Dropped
<1>4. Dropped({"GitRef", "WorkingTree"}) = Cleared("GitRef") \cup Cleared("WorkingTree")
  BY DEF Dropped
<1> QED
  BY <1>1, <1>2, <1>3, <1>4 DEF FileKeys

LEMMA RacedDue ==
    ASSUME NEW t, NEW about
    PROVE  DueTask(t, Raced(about, t))
<1>1. CASE t.pc \in {"moved", "drop", "checkout"}
  <2>1. Raced(about, t) = t
    BY <1>1 DEF Raced
  <2> QED
    BY <2>1 DEF DueTask
<1>2. CASE t.pc \notin {"moved", "drop", "checkout"}
  BY <1>2 DEF DueTask
<1> QED
  BY <1>1, <1>2

LEMMA AfterWriteFollows ==
    ASSUME Valid, Follows, NEW c \in Client, after_write(c)
    PROVE  Follows'
<1> DEFINE t == task[c]  kinds == Drops(t.op)
           mine == IF IsRecorded(t.op) THEN [t EXCEPT !.pc = "record"] ELSE Idle
<1>1. /\ t.pc = "drop" /\ UNCHANGED <<git, pending, watched, unreported>> /\ invalidate(kinds)
      /\ excused' = excused \ Dropped(kinds) /\ swallowed' = swallowed \ Dropped(kinds)
      /\ \A d \in Client : task'[d] = IF d # c THEN Raced(kinds, task[d]) ELSE mine
  BY DEF after_write, Fresh
<1>2. mine.pc \notin {"read", "fill"}
  <2>1. "pc" \in DOMAIN t
    BY DEF Valid, TasksFit, TaskFits
  <2> HIDE DEF t
  <2>2. [t EXCEPT !.pc = "record"].pc = "record" /\ Idle.pc = "idle"
    BY <2>1 DEF Idle
  <2> QED
    BY <2>2
<1> HIDE DEF mine
<1>3. \A d \in Client \ {c} : DueTask(task[d], task'[d])
  BY <1>1, RacedDue
<1>4. FileKeys \subseteq Dropped(kinds) \/ (FileDue => FileDue')
  <2>1. CASE "WorkingTree" \in kinds
    BY <2>1, DroppedKeys
  <2>2. CASE "WorkingTree" \notin kinds
    <3>1. Dropping("WorkingTree") => Dropping("WorkingTree")'
      BY <1>3, <2>2 DEF Dropping, DueTask
    <3> QED
      BY <1>1, <3>1 DEF FileDue
  <2> QED
    BY <2>1, <2>2
<1>5. RefKeys \cup {"graph"} \subseteq Dropped(kinds) \/ (RefDue => RefDue')
  <2>1. CASE "GitRef" \in kinds
    BY <2>1, DroppedKeys
  <2>2. CASE "GitRef" \notin kinds
    <3>1. Dropping("GitRef") => Dropping("GitRef")'
      BY <1>3, <2>2 DEF Dropping, DueTask
    <3>2. ASSUME NEW d \in Client, task[d].pc = "checkout", "GitRef" \in pending
          PROVE  RefDue'
      <4>1. task'[d].pc = "checkout" /\ "GitRef" \in pending'
        BY <1>1, <1>3, <3>2 DEF DueTask
      <4> QED
        BY <4>1 DEF RefDue
    <3> QED
      BY <1>1, <3>1, <3>2 DEF RefDue
  <2> QED
    BY <2>1, <2>2
<1>6. \A d \in Client : task'[d] = Raced(kinds, task[d]) \/ task'[d].pc \notin {"read", "fill"}
  BY <1>1, <1>2
<1>7. unreported' \subseteq pending' /\ swallowed' = (swallowed \ Dropped(kinds)) \cup (Dropped(kinds) \ Dropped(kinds))
  BY <1>1 DEF Follows, CacheFits
<1> HIDE DEF kinds
<1> QED
  BY <1>1, <1>4, <1>5, <1>6, <1>7, ClearStep

LEMMA RefreshFollows ==
    ASSUME Valid, Follows, NEW c \in Client, refresh_status(c)
    PROVE  Follows'
<1> DEFINE kinds == {"WorkingTree"}
<1>1. /\ IsIdle(c) /\ "status" \in Keys /\ UNCHANGED <<git, pending, watched, unreported>> /\ invalidate(kinds)
      /\ excused' = excused \ Dropped(kinds) /\ swallowed' = swallowed \ Dropped(kinds)
      /\ \A d \in Client : task'[d] = IF d = c THEN Reading("status", 0, <<>>) ELSE Raced(kinds, task[d])
  BY DEF refresh_status, Fresh
<1>2. \A d \in Client : DueTask(task[d], task'[d])
  <2>1. DueTask(task[c], task'[c])
    BY <1>1 DEF IsIdle, DueTask
  <2> QED
    BY <1>1, <2>1, RacedDue
<1>3. RefDue => RefDue'
  BY <1>1, <1>2, DueKept
<1>4. FileKeys \subseteq Dropped(kinds)
  BY DroppedKeys
<1>5. unreported' \subseteq pending' /\ swallowed' = (swallowed \ Dropped(kinds)) \cup (Dropped(kinds) \ Dropped(kinds))
  BY <1>1 DEF Follows, CacheFits
<1>6. \A d \in Client : task'[d] = Raced(kinds, task[d]) \/ (task'[d] = Reading("status", 0, <<>>) /\ "status" \in Keys)
  BY <1>1
<1> HIDE DEF kinds
<1> QED
  BY <1>1, <1>3, <1>4, <1>5, <1>6, ClearStep

LEMMA WatcherFollows ==
    ASSUME Valid, Follows, WatcherFires
    PROVE  Follows'
<1>1. PICK batch \in (SUBSET pending) \ {{}} :
        LET kind == coalesce(batch)
            about == IF kind = "GitRef" THEN {"GitRef", "WorkingTree"} ELSE {kind}
        IN  /\ pending' = pending \ batch /\ unreported' = unreported \ batch
            /\ invalidate({kind}) /\ excused' = excused \ Cleared(kind)
            /\ swallowed' = (swallowed \ Cleared(kind)) \cup (Dropped(about) \ Cleared(kind))
            /\ task' = [c \in Client |-> Raced(about, task[c])]
            /\ UNCHANGED <<git, nav, watched, requests, outside, tracked>>
  BY DEF WatcherFires
<1> DEFINE kind == coalesce(batch)  about == IF kind = "GitRef" THEN {"GitRef", "WorkingTree"} ELSE {kind}
<1>2. /\ kind \in {"GitRef", "Index", "WorkingTree"} /\ ("GitRef" \in batch <=> kind = "GitRef")
  BY DEF coalesce
<1>3. /\ pending' = pending \ batch /\ unreported' = unreported \ batch
      /\ invalidate({kind}) /\ excused' = excused \ Cleared(kind)
      /\ swallowed' = (swallowed \ Cleared(kind)) \cup (Dropped(about) \ Cleared(kind))
      /\ \A c \in Client : task'[c] = Raced(about, task[c])
      /\ UNCHANGED <<git, watched>>
  BY <1>1
<1> HIDE DEF kind
<1>4. /\ Dropped({kind}) = Cleared(kind) /\ Cleared(kind) \subseteq Dropped(about)
      /\ Dropped(about) \ Cleared(kind) \subseteq WorktreeKeys /\ FileKeys \subseteq Dropped(about)
  <2>1. CASE kind = "GitRef"
    <3>1. about = {"GitRef", "WorkingTree"}
      BY <2>1
    <3> QED
      BY <2>1, <3>1, DroppedKeys DEF FileKeys
  <2>2. CASE kind # "GitRef"
    <3>1. about = {kind}
      BY <2>2
    <3> QED
      BY <1>2, <2>2, <3>1, DroppedKeys
  <2> QED
    BY <2>1, <2>2
<1>5. RefKeys \cup {"graph"} \subseteq Dropped(about) \/ (RefDue => RefDue')
  <2>1. CASE kind = "GitRef"
    BY <2>1, DroppedKeys
  <2>2. CASE kind # "GitRef"
    <3>1. "GitRef" \notin batch
      BY <1>2, <2>2
    <3>2. \A c \in Client : DueTask(task[c], task'[c])
      BY <1>3, RacedDue
    <3>3. Dropping("GitRef") => Dropping("GitRef")'
      BY <3>2 DEF Dropping, DueTask
    <3>4. ASSUME NEW d \in Client, task[d].pc = "checkout", "GitRef" \in pending
          PROVE  RefDue'
      <4>1. task'[d].pc = "checkout" /\ "GitRef" \in pending'
        BY <1>3, <3>1, <3>2, <3>4 DEF DueTask
      <4> QED
        BY <4>1 DEF RefDue
    <3> QED
      BY <1>3, <3>1, <3>3, <3>4 DEF RefDue
  <2> QED
    BY <2>1, <2>2
<1>6. unreported' \subseteq pending'
  BY <1>3 DEF Follows, CacheFits
<1> HIDE DEF about
<1> QED
  BY <1>3, <1>4, <1>5, <1>6, ClearStep

LEMMA WatchFollows ==
    ASSUME Valid, Follows, watch_repo
    PROVE  Follows'
<1> DEFINE about == {"GitRef", "WorkingTree"}
<1>1. /\ UNCHANGED <<git, cache, accum, pending, unreported, swallowed>>
      /\ excused' = excused \cup {k \in Keys : Outdated(k)}
      /\ \A c \in Client : task'[c] = Raced(about, task[c])
  BY DEF watch_repo
<1>2. Whole(git) /\ IsSequence(accum.rows)
  BY DEF Valid, Follows, CacheFits
<1>3. CacheFits'
  BY <1>1 DEF Follows, CacheFits
<1>4. CacheFollows'
  <2> SUFFICES ASSUME NEW k \in Answered
               PROVE  cache[k] \in {NotCached, View(git, k)} \/ k \in excused'
    BY <1>1 DEF CacheFollows, Answered
  <2>1. k \in Keys /\ k # "graph"
    BY KeysApart
  <2> QED
    BY <1>1, <2>1 DEF Outdated, Stale
<1>5. AccumFollows'
  <2> SUFFICES ASSUME "graph" \in Keys, ~ Outdated("graph")
               PROVE  Accumulated(git, accum)
    BY <1>1 DEF AccumFollows, GraphExcused
  <2> DEFINE n == Len(accum.rows)  N == Len(log(git))
  <2>1. [lanes |-> accum.lanes, rows |-> accum.rows] = FromTop(git, n) /\ (accum.complete => n = N)
    BY DEF Outdated, Stale, FromTop
  <2>2. n \in Nat /\ N \in Nat
    BY <1>2, LenProperties, LogType DEF IsSequence
  <2>3. Len(FromTop(git, n).rows) = PageLen(N, 0, n)
    <3> HIDE DEF n
    <3> QED
      BY <1>2, <2>2, PageRows DEF FromTop
  <2>4. n = PageLen(N, 0, n)
    BY <2>1, <2>3
  <2>5. n <= N
    <3> HIDE DEF n, N
    <3> QED
      BY <2>2, <2>4 DEF PageLen
  <2> QED
    BY <2>1, <2>5 DEF Accumulated
<1>6. ASSUME NEW c \in Client
      PROVE  Hand(c)'
  <2> DEFINE t == task[c]  u == task'[c]
  <2>1. HandFits(t) /\ u = Raced(about, t)
    BY <1>1 DEF Follows, Hand
  <2> SUFFICES /\ HandFits(u)
               /\ u.pc = "fill" /\ u.key \in Answered => u.raced
               /\ u.pc \in {"read", "fill"} /\ u.key = "graph" => u.raced
    BY DEF Hand
  <2> HIDE DEF t, u
  <2>2. /\ u.pc = t.pc /\ HandFits(u)
        /\ t.pc \in {"read", "fill"} =>
             /\ \A f \in DOMAIN t \ {"raced"} : u[f] = t[f]
             /\ t.key \in Dropped(about) /\ (t.pc = "fill" \/ t.key = "graph") => u.raced
    BY <2>1, RacedIs
  <2>3. t.pc \in {"read", "fill"} => u.key = t.key
    BY <2>1, <2>2 DEF HandFits
  <2>4. Answered \cup {"graph"} \subseteq Dropped(about)
    BY DroppedKeys DEF Answered
  <2> QED
    BY <2>2, <2>3, <2>4
<1> QED
  BY <1>3, <1>4, <1>5, <1>6 DEF Follows

-----------------------------------------------------------------------------
(* Steps that change the repository, and steps that change neither it nor an *)
(* answer                                                                    *)

LEMMA ClientStep ==
    ASSUME Valid, Follows, NEW c \in Client, NEW u, task' = [task EXCEPT ![c] = u],
           u.pc \notin {"read", "fill"}, DueTask(task[c], u), After(git, git'),
           UNCHANGED <<cache, accum, watched, excused, swallowed>>,
           unreported \subseteq unreported', pending \subseteq pending', unreported' \subseteq pending',
           SameRefs(git, git') \/ RefDue', SameFiles(git, git') \/ FileDue'
    PROVE  Follows'
<1>1. \A d \in Client : SameHand(task[d], task'[d]) /\ DueTask(task[d], task'[d])
  BY OneActs
<1>2. (RefDue => RefDue') /\ (FileDue => FileDue')
  BY <1>1, DueKept
<1> QED
  BY <1>1, <1>2, RepositoryStep

LEMMA CommandStep ==
    ASSUME Valid, Follows, NEW c \in Client, NEW u, task' = [task EXCEPT ![c] = u],
           u.pc \notin {"read", "fill"}, DueTask(task[c], u),
           UNCHANGED <<git, cache, accum, pending, watched, unreported, excused, swallowed>>
    PROVE  Follows'
<1>1. After(git, git') /\ SameRefs(git, git') /\ SameFiles(git, git')
  BY NothingMoves
<1>2. unreported' \subseteq pending'
  BY DEF Follows, CacheFits
<1> QED
  BY <1>1, <1>2, ClientStep

LEMMA BecomesDue ==
    ASSUME CacheFits, NEW h, NEW own \in BOOLEAN, Becomes(h, own), UNCHANGED watched
    PROVE  /\ git' = h /\ pending \subseteq pending' /\ unreported \subseteq unreported'
           /\ unreported' \subseteq pending'
           /\ h.upstream = git.upstream =>
                /\ SameRefs(git, h) \/ ~ watched' \/ "GitRef" \in pending'
                /\ own \/ SameRefs(git, h) \/ RefDue'
           /\ own \/ SameFiles(git, h) \/ FileDue'
<1> DEFINE kinds == IF watched THEN Touched(git, h) ELSE {}
<1>1. /\ git' = h /\ pending' = pending \cup kinds
      /\ unreported' = IF own THEN unreported ELSE unreported \cup kinds
  BY DEF Becomes
<1>2. unreported \subseteq pending
  BY DEF CacheFits
<1>3. h.upstream = git.upstream => SameRefs(git, h) \/ ~ watched \/ "GitRef" \in kinds
  BY DEF Touched, SameRefs
<1>4. SameFiles(git, h) \/ ~ watched \/ kinds # {}
  BY DEF Touched, SameFiles, HeadOid
<1> HIDE DEF kinds
<1> QED
  BY <1>1, <1>2, <1>3, <1>4 DEF RefDue, FileDue

LEMMA RunWriteFollows ==
    ASSUME Valid, Follows, NEW c \in Client, RunWrite(c)
    PROVE  Follows'
<1> DEFINE t == task[c]
<1>1. /\ Whole(git) /\ t.pc = "run" /\ WriteFits(git, t) /\ "pc" \in DOMAIN t
      /\ t.op \in Operations /\ ArgFits(git, t.op, t.arg)
  BY DEF Valid, TasksFit, RunWrite, TaskFits, WriteFits
<1>2. PICK out \in Outcomes(git, t.op, t.arg) :
        /\ Becomes(out.git, out.res = "Ok" /\ Drops(t.op) # {})
        /\ task' = [task EXCEPT ![c] =
             IF out.res = "Ok" /\ AfterRun(t.op) # "idle" THEN [@ EXCEPT !.pc = AfterRun(t.op)] ELSE Idle]
  BY DEF RunWrite
<1> DEFINE ok == out.res = "Ok"  own == ok /\ Drops(t.op) # {}
           next == [t EXCEPT !.pc = AfterRun(t.op)]
           u == IF ok /\ AfterRun(t.op) # "idle" THEN next ELSE Idle
<1>3. UNCHANGED <<cache, accum, watched, excused, swallowed>> /\ CacheFits
  BY DEF RunWrite, Follows
<1>4. task' = [task EXCEPT ![c] = u]
  BY <1>2
<1>5. next.pc = AfterRun(t.op) /\ next.op = t.op
  <2>1. /\ DOMAIN next = DOMAIN t /\ next.pc = AfterRun(t.op)
        /\ \A f \in DOMAIN t \ {"pc"} : next[f] = t[f]
    <3> HIDE DEF t
    <3> QED BY <1>1, PcOnly
  <2> HIDE DEF next
  <2> QED
    BY <1>1, <2>1 DEF WriteFits
<1> HIDE DEF next
<1>6. AfterRun(t.op) \in {"checkout", "idle", "drop"} /\ Idle.pc = "idle"
  BY DEF AfterRun, Idle
<1>7. u.pc \notin {"read", "fill"} /\ DueTask(t, u)
  BY <1>1, <1>5, <1>6 DEF DueTask
<1>8. After(git, out.git)
  <2> HIDE DEF t
  <2> QED BY <1>1, <1>2, OutcomesKept
<1>9. task'[c] = u
  BY <1>4, OneTask
<1> HIDE DEF u
<1>10. own \in BOOLEAN /\ Becomes(out.git, own)
  BY <1>2
<1>11. /\ git' = out.git /\ pending \subseteq pending' /\ unreported \subseteq unreported'
       /\ unreported' \subseteq pending'
       /\ out.git.upstream = git.upstream =>
            /\ SameRefs(git, out.git) \/ ~ watched' \/ "GitRef" \in pending'
            /\ own \/ SameRefs(git, out.git) \/ RefDue'
       /\ own \/ SameFiles(git, out.git) \/ FileDue'
  <2> HIDE DEF own, t
  <2> QED BY <1>3, <1>10, BecomesDue
<1>12. ~ ok => out.git.upstream = git.upstream
  <2> HIDE DEF t
  <2> QED BY <1>1, <1>2, FailureKeepsUpstream
<1>13. t.op \in FileWrites => SameRefs(git, out.git)
  <2> HIDE DEF t
  <2> QED BY <1>1, <1>2, FileWritesKeepRefs
<1>14. t.op \in RefWrites \cup {"create_and_checkout"} => SameFiles(git, out.git)
  <2> HIDE DEF t
  <2> QED BY <1>1, <1>2, RefWritesKeepFiles
<1>15. ASSUME ok, AfterRun(t.op) = "drop", NEW kind \in Drops(t.op)
       PROVE  Dropping(kind)'
  <2>1. task'[c].pc = "drop" /\ task'[c].op = t.op
    BY <1>5, <1>9, <1>15 DEF u
  <2> QED
    BY <1>15, <2>1 DEF Dropping
<1>16. (SameRefs(git, out.git) \/ RefDue') /\ (SameFiles(git, out.git) \/ FileDue')
  <2>1. CASE ~ ok
    BY <1>11, <1>12, <2>1
  <2>2. CASE ok /\ t.op = "stash_drop"
    <3>1. Drops(t.op) = {} /\ t.op \in FileWrites
      BY <2>2 DEF Drops, FileWrites, IndexWrites, ConflictWrites, StashWrites, TreeWrites, RefWrites, NavMoves
    <3> QED
      BY <1>11, <1>13, <3>1
  <2>3. CASE ok /\ t.op = "create_and_checkout"
    <3>1. task'[c].pc = "checkout"
      BY <1>5, <1>9, <2>3 DEF AfterRun, u
    <3>2. out.git.upstream = git.upstream
      <4>1. out \in create_branch(git, t.arg) /\ "upstream" \in DOMAIN git
        BY <1>1, <1>2, <2>3 DEF Outcomes, Whole, Fields
      <4> HIDE DEF t
      <4> QED
        BY <4>1 DEF create_branch, Ok, Err
    <3>3. "GitRef" \in pending' => RefDue'
      BY <3>1 DEF RefDue
    <3>4. ~ watched' => RefDue'
      BY DEF RefDue
    <3> QED
      BY <1>11, <1>14, <2>3, <3>2, <3>3, <3>4
  <2>4. CASE ok /\ t.op \notin {"stash_drop", "create_and_checkout"}
    <3>1. AfterRun(t.op) = "drop"
      BY <2>4 DEF AfterRun
    <3>2. \/ t.op \in FileWrites /\ "WorkingTree" \in Drops(t.op)
          \/ t.op \in RefWrites /\ "GitRef" \in Drops(t.op)
          \/ {"WorkingTree", "GitRef"} \subseteq Drops(t.op)
      BY <1>1, <2>4 DEF Drops, FileWrites, Operations
    <3>3. "WorkingTree" \in Drops(t.op) => FileDue'
      <4>1. "WorkingTree" \in Drops(t.op) => Dropping("WorkingTree")'
        BY <1>15, <2>4, <3>1
      <4> QED
        BY <4>1 DEF FileDue
    <3>4. "GitRef" \in Drops(t.op) => RefDue'
      <4>1. "GitRef" \in Drops(t.op) => Dropping("GitRef")'
        BY <1>15, <2>4, <3>1
      <4> QED
        BY <4>1 DEF RefDue
    <3> QED
      BY <1>13, <1>14, <3>2, <3>3, <3>4
  <2> QED
    BY <2>1, <2>2, <2>3, <2>4
<1> HIDE DEF t, own, ok
<1> QED
  BY <1>3, <1>4, <1>7, <1>8, <1>11, <1>16, ClientStep DEF t

LEMMA CheckoutCreatedFollows ==
    ASSUME Valid, Follows, NEW c \in Client, CheckoutCreated(c)
    PROVE  Follows'
<1> DEFINE t == task[c]
<1>1. /\ Whole(git) /\ t.pc = "checkout" /\ WriteFits(git, t) /\ "pc" \in DOMAIN t
      /\ t.op = "create_and_checkout" /\ t.arg \in Branch
  BY DEF Valid, TasksFit, CheckoutCreated, TaskFits, WriteFits, ArgFits, BranchNamed
<1>2. PICK out \in checkout_branch(git, t.arg) :
        /\ git' = out.git
        /\ pending' = pending \cup (IF watched THEN Touched(git, out.git) ELSE {})
        /\ unreported' = IF out.res = "Ok" THEN unreported ELSE unreported \cup (pending \cap {"GitRef"})
        /\ task' = [task EXCEPT ![c] = IF out.res = "Ok" THEN [@ EXCEPT !.pc = "drop"] ELSE Idle]
  BY DEF CheckoutCreated
<1> DEFINE next == [t EXCEPT !.pc = "drop"]  u == IF out.res = "Ok" THEN next ELSE Idle
<1>3. UNCHANGED <<cache, accum, watched, excused, swallowed>> /\ task' = [task EXCEPT ![c] = u]
  BY <1>2 DEF CheckoutCreated
<1>4. next.pc = "drop" /\ next.op = t.op
  <2>1. /\ DOMAIN next = DOMAIN t /\ next.pc = "drop"
        /\ \A f \in DOMAIN t \ {"pc"} : next[f] = t[f]
    <3> HIDE DEF t
    <3> QED BY <1>1, PcOnly
  <2> HIDE DEF next
  <2> QED
    BY <1>1, <2>1 DEF WriteFits
<1> HIDE DEF next
<1>5. u.pc \notin {"read", "fill"} /\ Idle.pc = "idle"
  BY <1>4 DEF Idle
<1>6. After(git, git')
  <2>1. Safe(git, out.git)
    <3> HIDE DEF t
    <3> QED BY <1>1, <1>2, CheckoutOperation
  <2> QED
    BY <1>2, <2>1 DEF Safe
<1>7. task'[c] = u /\ \A d \in Client \ {c} : task'[d] = task[d]
  BY <1>3, OneTask
<1>8. pending \subseteq pending' /\ unreported \subseteq unreported' /\ unreported' \subseteq pending'
  BY <1>2 DEF Follows, CacheFits
<1>9. CASE out.res = "Ok"
  <2>1. task'[c].pc = "drop" /\ task'[c].op = "create_and_checkout"
    BY <1>1, <1>4, <1>7, <1>9
  <2>2. {"GitRef", "WorkingTree"} \subseteq Drops("create_and_checkout")
    BY DEF Drops, TreeWrites
  <2>3. Dropping("GitRef")' /\ Dropping("WorkingTree")'
    BY <2>1, <2>2 DEF Dropping
  <2>4. RefDue' /\ FileDue'
    BY <2>3 DEF RefDue, FileDue
  <2>5. \A d \in Client : SameHand(task[d], task'[d])
    BY <1>5, <1>7 DEF SameHand
  <2> HIDE DEF t, u
  <2> QED
    BY <1>3, <1>6, <1>8, <2>4, <2>5, RepositoryStep
<1>10. CASE out.res # "Ok"
  <2>1. git' = git
    <3> HIDE DEF t
    <3> QED
      BY <1>2, <1>10 DEF checkout_branch, Ok, Err
  <2>2. SameRefs(git, git') /\ SameFiles(git, git')
    BY <2>1, NothingMoves
  <2>3. \A d \in Client : SameHand(task[d], task'[d])
    BY <1>5, <1>7 DEF SameHand
  <2>4. ASSUME NEW kind, Dropping(kind)
        PROVE  Dropping(kind)'
    BY <1>1, <1>7, <2>4 DEF Dropping
  <2>5. "GitRef" \in pending => "GitRef" \in unreported'
    BY <1>2, <1>10
  <2>6. RefDue => RefDue'
    BY <1>3, <1>8, <2>4, <2>5 DEF RefDue
  <2>7. FileDue => FileDue'
    BY <1>3, <1>8, <2>4 DEF FileDue
  <2> HIDE DEF t, u
  <2> QED
    BY <1>3, <1>6, <1>8, <2>2, <2>3, <2>6, <2>7, RepositoryStep
<1> QED
  BY <1>9, <1>10

LEMMA NavResetFollows ==
    ASSUME Valid, Follows, NEW c \in Client, apply_nav_reset(c)
    PROVE  Follows'
<1> DEFINE t == task[c]  mode == IF t.hard THEN "Hard" ELSE "Soft"
<1>1. Whole(git) /\ t.pc = "reset" /\ NavFits(git, t) /\ "pc" \in DOMAIN t
  BY DEF Valid, TasksFit, apply_nav_reset, TaskFits
<1>2. PICK out \in reset(git, t.target, mode) :
        /\ Becomes(out.git, out.res = "Ok")
        /\ task' = [task EXCEPT ![c] = IF out.res = "Ok" THEN [@ EXCEPT !.pc = "moved"] ELSE Idle]
  BY DEF apply_nav_reset
<1> DEFINE ok == out.res = "Ok"  next == [t EXCEPT !.pc = "moved"]  u == IF ok THEN next ELSE Idle
<1>3. UNCHANGED <<cache, accum, watched, excused, swallowed>> /\ task' = [task EXCEPT ![c] = u] /\ CacheFits
  BY <1>2 DEF apply_nav_reset, Follows
<1>4. next.pc = "moved" /\ next.op = t.op
  <2>1. /\ DOMAIN next = DOMAIN t /\ next.pc = "moved"
        /\ \A f \in DOMAIN t \ {"pc"} : next[f] = t[f]
    <3> HIDE DEF t
    <3> QED BY <1>1, PcOnly
  <2> HIDE DEF next
  <2> QED
    BY <1>1, <2>1 DEF NavFits
<1> HIDE DEF next
<1>5. u.pc \notin {"read", "fill"} /\ DueTask(t, u)
  BY <1>1, <1>4 DEF Idle, DueTask
<1>6. After(git, out.git)
  <2>1. t.target \in Born(git) /\ mode \in {"Soft", "Mixed", "Hard"}
    BY <1>1 DEF NavFits
  <2> HIDE DEF t, mode
  <2> QED BY <1>1, <1>2, <2>1, ResetOperation
<1>7. task'[c] = u
  BY <1>3, OneTask
<1>8. ~ ok => out.git = git
  <2> HIDE DEF t
  <2> QED
    BY <1>2 DEF reset, Ok, Err
<1>9. /\ git' = out.git /\ pending \subseteq pending' /\ unreported \subseteq unreported'
      /\ unreported' \subseteq pending'
  <2>1. ok \in BOOLEAN /\ Becomes(out.git, ok)
    BY <1>2
  <2> HIDE DEF ok, t
  <2> QED BY <1>3, <2>1, BecomesDue
<1>10. (SameRefs(git, git') \/ RefDue') /\ (SameFiles(git, git') \/ FileDue')
  <2>1. CASE ~ ok
    BY <1>8, <1>9, <2>1, NothingMoves
  <2>2. CASE ok
    <3>1. task'[c].pc = "moved" /\ task'[c].op \in NavMoves
      BY <1>1, <1>4, <1>7, <2>2 DEF NavFits
    <3>2. \A op \in NavMoves : {"GitRef", "WorkingTree"} \subseteq Drops(op)
      BY DEF Drops
    <3>3. Dropping("GitRef")' /\ Dropping("WorkingTree")'
      BY <3>1, <3>2 DEF Dropping
    <3> QED
      BY <3>3 DEF RefDue, FileDue
  <2> QED
    BY <2>1, <2>2
<1> HIDE DEF u, t, ok
<1> QED
  BY <1>3, <1>5, <1>6, <1>9, <1>10, ClientStep DEF t

LEMMA OutsideFollows ==
    ASSUME Valid, Follows, NEW h, After(git, h), h.upstream = git.upstream, Outside(h)
    PROVE  Follows'
<1> DEFINE Then(t) == IF t.pc = "reset" /\ h.wt # git.wt THEN [t EXCEPT !.edited = TRUE] ELSE t
<1>1. /\ Becomes(h, FALSE) /\ UNCHANGED <<cache, accum, watched, excused, swallowed>> /\ CacheFits
      /\ \A d \in Client : task'[d] = Then(task[d])
  BY DEF Outside, Follows
<1>2. ASSUME NEW d \in Client
      PROVE  SameHand(task[d], task'[d]) /\ DueTask(task[d], task'[d])
  <2>1. CASE ~ (task[d].pc = "reset" /\ h.wt # git.wt)
    BY <1>1, <2>1 DEF SameHand, DueTask
  <2>2. CASE task[d].pc = "reset" /\ h.wt # git.wt
    <3> DEFINE t == task[d]  u == [t EXCEPT !.edited = TRUE]
    <3>1. NavFits(git, t)
      BY <2>2 DEF Valid, TasksFit, TaskFits
    <3>2. u.pc = t.pc
      BY <3>1 DEF NavFits
    <3>3. task'[d] = u
      BY <1>1, <2>2
    <3> HIDE DEF u
    <3> QED
      BY <2>2, <3>2, <3>3 DEF SameHand, DueTask
  <2> QED
    BY <2>1, <2>2
<1>3. /\ git' = h /\ pending \subseteq pending' /\ unreported \subseteq unreported'
      /\ unreported' \subseteq pending'
      /\ SameRefs(git, h) \/ RefDue'
      /\ SameFiles(git, h) \/ FileDue'
  BY <1>1, BecomesDue
<1>4. (RefDue => RefDue') /\ (FileDue => FileDue')
  BY <1>1, <1>2, <1>3, DueKept
<1> QED
  BY <1>1, <1>2, <1>3, <1>4, RepositoryStep

(* What the world does to the repository: it grows, no upstream is set.     *)
LEMMA EnvironmentAfter ==
    ASSUME Valid, Environment
    PROVE  \E h : After(git, h) /\ h.upstream = git.upstream /\ Outside(h)
<1>1. Whole(git) /\ "upstream" \in DOMAIN git
  BY DEF Valid, Whole, Fields
<1>2. CASE EditFile
  <2>1. PICK c \in Edits : Outside([git EXCEPT !.wt = c])
    BY <1>2 DEF EditFile
  <2> DEFINE h == [git EXCEPT !.wt = c]
  <2>2. DOMAIN h = Fields /\ \A f \in Fields \ {"wt"} : h[f] = git[f]
    BY <1>1 DEF Whole, Fields
  <2>3. Outside(h)
    BY <2>1
  <2> HIDE DEF h
  <2>4. IsSequence(h.stash) /\ h.upstream = git.upstream
    BY <1>1, <2>2 DEF Whole, Fields
  <2>5. After(git, h)
    BY <1>1, <2>2, <2>4, SameNames DEF Fields
  <2> QED
    BY <2>3, <2>4, <2>5
<1>3. CASE TerminalAdd
  <2>1. PICK out \in stage(git) : Outside(out.git)
    BY <1>3 DEF TerminalAdd
  <2>2. Safe(git, out.git)
    BY <1>1, <2>1, IndexOperations
  <2>3. out.git.upstream = git.upstream
    <3> DEFINE h == [git EXCEPT !.index = git.wt, !.conflict = NoConflict]
    <3>1. out.git \in {git, h}
      BY <2>1 DEF stage, Ok, Err
    <3>2. h.upstream = git.upstream
      BY <1>1
    <3> HIDE DEF h
    <3> QED
      BY <3>1, <3>2
  <2> QED
    BY <2>1, <2>2, <2>3 DEF Safe
<1>4. CASE TerminalCommit
  <2>1. PICK out \in commit(git) : Outside(out.git)
    BY <1>4 DEF TerminalCommit
  <2>2. Safe(git, out.git)
    BY <1>1, <2>1, CommitOperations
  <2>3. out.git.upstream = git.upstream
    <3> DEFINE parents == HeadAsParent(git) \o (IF git.state = "Merging" THEN <<git.other>> ELSE <<>>)
               made == CommitOnHead(git, git.index, parents, "commit")
    <3>1. out.git \in {git, made, Concluded(made)}
      BY <2>1 DEF commit, Ok, Err
    <3>2. SameUpstream(git, made)
      <4> HIDE DEF parents
      <4> QED BY <1>1, UpstreamKept
    <3> HIDE DEF made
    <3>3. SameUpstream(made, Concluded(made))
      BY <1>1, <3>2, UpstreamKept DEF SameUpstream
    <3> QED
      BY <3>1, <3>2, <3>3 DEF SameUpstream
  <2> QED
    BY <2>1, <2>2, <2>3 DEF Safe
<1>5. CASE TerminalReset
  <2> DEFINE p == FirstParent(git, HeadOid(git))
  <2>1. PICK out \in reset(git, p, "Mixed") : Outside(out.git)
    BY <1>5 DEF TerminalReset
  <2>2. p \in Born(git)
    <3>1. Parents(git, HeadOid(git)) # <<>> /\ Rooted(Parents(git, HeadOid(git)), Newest(git))
      BY <1>1, <1>5, ParentsRooted DEF TerminalReset
    <3> QED
      BY <3>1, FirstOfRooted DEF FirstParent, Born
  <2> HIDE DEF p
  <2>3. After(git, out.git)
    BY <1>1, <2>1, <2>2, ResetOperation
  <2>4. out.git.upstream = git.upstream
    <3> DEFINE moved == MoveHead(git, p, "reset")
               m == [moved EXCEPT !.index = Tree(git, p), !.conflict = NoConflict]
    <3>1. out.git = Concluded(m)
      BY <2>1 DEF reset, Ok, Err
    <3>2. SameUpstream(git, moved)
      BY <1>1, UpstreamKept
    <3> HIDE DEF moved
    <3>3. SameUpstream(git, m)
      BY <1>1, <3>2 DEF SameUpstream
    <3> HIDE DEF m
    <3>4. SameUpstream(m, Concluded(m))
      BY <1>1, <3>3, UpstreamKept DEF SameUpstream
    <3> QED
      BY <3>1, <3>3, <3>4 DEF SameUpstream
  <2> QED
    BY <2>1, <2>3, <2>4
<1>6. CASE OthersPush
  <2>1. PICK b \in Branch, c \in Edits :
          LET tip == git.server[b]
              made == NewCommit(git, c, IF tip = 0 THEN <<>> ELSE <<tip>>)
          IN  tip # 0 /\ Tree(git, tip) # c /\ Outside([made EXCEPT !.server[b] = Newest(made)])
    BY <1>6 DEF OthersPush
  <2> DEFINE parents == <<git.server[b]>>  made == NewCommit(git, c, parents)
             h == [made EXCEPT !.server[b] = Newest(made)]
  <2>2. git.server[b] # 0 /\ Outside(h)
    BY <2>1
  <2>3. After(git, h)
    BY <1>1, <2>2, OthersPushAfter
  <2>4. h.upstream = git.upstream
    <3>1. made.upstream = git.upstream /\ "upstream" \in DOMAIN made
      <4> HIDE DEF parents
      <4> QED BY <1>1 DEF NewCommit
    <3> HIDE DEF made
    <3> QED
      BY <3>1
  <2> HIDE DEF h
  <2> QED
    BY <2>2, <2>3, <2>4
<1> QED
  BY <1>2, <1>3, <1>4, <1>5, <1>6 DEF Environment

LEMMA QuietCommands ==
    ASSUME Valid, Follows, NEW c \in Client,
           \/ \E op \in Writes : WriteBegin(c, op)
           \/ record_nav(c)
           \/ \E op \in Navs : NavBegin(c, op)
           \/ NavHint(c) \/ NavPick(c) \/ apply_nav_check(c) \/ NavMoved(c)
    PROVE  Follows'
<1> DEFINE t == task[c]
           Done(u) == task' = [task EXCEPT ![c] = u] /\ u.pc \notin {"read", "fill"} /\ DueTask(t, u)
<1>1. TaskFits(git, t) /\ "pc" \in DOMAIN t
  BY DEF Valid, TasksFit, TaskFits
<1>2. UNCHANGED <<git, cache, accum, pending, watched, unreported, excused, swallowed>>
  BY DEF WriteBegin, record_nav, NavBegin, NavHint, NavPick, apply_nav_check, NavMoved, ghosts
<1> SUFFICES \E u : Done(u)
  BY <1>2, CommandStep
<1>3. \A u : t.pc \notin {"moved", "drop", "checkout"} => DueTask(t, u)
  BY DEF DueTask
<1>4. Idle.pc = "idle"
  BY DEF Idle
<1>5. CASE \E op \in Writes : WriteBegin(c, op)
  <2>0. PICK op \in Writes : WriteBegin(c, op)
    BY <1>5
  <2>1. PICK arg \in Args(op) :
          /\ t.pc = "idle"
          /\ task' = [task EXCEPT ![c] = [pc |-> "run", op |-> op, arg |-> arg, before |-> HeadOid(git)]]
    BY <2>0 DEF WriteBegin, IsIdle
  <2> DEFINE u == [pc |-> "run", op |-> op, arg |-> arg, before |-> HeadOid(git)]
  <2>2. u.pc = "run" /\ task' = [task EXCEPT ![c] = u]
    BY <2>1
  <2> HIDE DEF u, t
  <2> QED
    BY <1>3, <2>1, <2>2
<1>6. CASE record_nav(c)
  <2>1. t.pc = "record" /\ task' = [task EXCEPT ![c] = Idle]
    BY <1>6 DEF record_nav
  <2> HIDE DEF t
  <2> QED
    BY <1>3, <1>4, <2>1
<1>7. CASE \E op \in Navs : NavBegin(c, op)
  <2>1. PICK op \in Navs : NavBegin(c, op)
    BY <1>7
  <2>2. PICK i : t.pc = "idle" /\ task' = [task EXCEPT ![c] = IF HeadOid(git) = 0 THEN Idle
                    ELSE [pc |-> "hint", op |-> op, index |-> i, head |-> HeadOid(git)]]
    BY <2>1 DEF NavBegin, IsIdle
  <2> DEFINE u == IF HeadOid(git) = 0 THEN Idle
                  ELSE [pc |-> "hint", op |-> op, index |-> i, head |-> HeadOid(git)]
  <2>3. u.pc \in {"idle", "hint"} /\ task' = [task EXCEPT ![c] = u]
    BY <1>4, <2>2
  <2> HIDE DEF u, t
  <2> QED
    BY <1>3, <2>2, <2>3
<1>8. CASE NavHint(c)
  <2>1. PICK boot : t.pc = "hint" /\ task' = [task EXCEPT ![c] =
          [pc |-> "pick", op |-> t.op, index |-> t.index, head |-> t.head, boot |-> boot]]
    BY <1>8 DEF NavHint
  <2> DEFINE u == [pc |-> "pick", op |-> t.op, index |-> t.index, head |-> t.head, boot |-> boot]
  <2>2. u.pc = "pick" /\ task' = [task EXCEPT ![c] = u]
    BY <2>1
  <2> HIDE DEF u, t
  <2> QED
    BY <1>3, <2>1, <2>2
<1>9. CASE NavPick(c)
  <2>1. PICK stay, hard, i, oid : t.pc = "pick" /\ task' = [task EXCEPT ![c] = IF stay THEN Idle
            ELSE [pc |-> IF hard THEN "check" ELSE "reset", op |-> t.op, index |-> i,
                  target |-> oid, hard |-> hard, edited |-> FALSE]]
    BY <1>9 DEF NavPick
  <2> DEFINE u == IF stay THEN Idle
                  ELSE [pc |-> IF hard THEN "check" ELSE "reset", op |-> t.op, index |-> i,
                        target |-> oid, hard |-> hard, edited |-> FALSE]
  <2>2. u.pc \in {"idle", "check", "reset"} /\ task' = [task EXCEPT ![c] = u]
    BY <1>4, <2>1
  <2> HIDE DEF u, t
  <2> QED
    BY <1>3, <2>1, <2>2
<1>10. CASE apply_nav_check(c)
  <2> DEFINE next == [t EXCEPT !.pc = "reset"]  u == IF IsDirty(git) THEN Idle ELSE next
  <2>1. t.pc = "check" /\ task' = [task EXCEPT ![c] = u]
    BY <1>10 DEF apply_nav_check
  <2>2. next.pc = "reset"
    <3> HIDE DEF t
    <3> QED BY <1>1, PcOnly
  <2> HIDE DEF next
  <2>3. u.pc \in {"idle", "reset"}
    BY <1>4, <2>2
  <2> HIDE DEF u, t
  <2> QED
    BY <1>3, <2>1, <2>3
<1>11. CASE NavMoved(c)
  <2> DEFINE u == [t EXCEPT !.pc = "drop"]
  <2>1. t.pc = "moved" /\ task' = [task EXCEPT ![c] = u]
    BY <1>11 DEF NavMoved
  <2>2. DOMAIN u = DOMAIN t /\ u.pc = "drop" /\ \A f \in DOMAIN t \ {"pc"} : u[f] = t[f]
    <3> HIDE DEF t
    <3> QED BY <1>1, PcOnly
  <2> HIDE DEF u
  <2>3. u.op = t.op
    BY <1>1, <2>1, <2>2 DEF TaskFits, NavFits
  <2>4. DueTask(t, u)
    BY <2>1, <2>2, <2>3 DEF DueTask
  <2> HIDE DEF t
  <2> QED
    BY <2>1, <2>2, <2>4
<1> QED
  BY <1>5, <1>6, <1>7, <1>8, <1>9, <1>10, <1>11

LEMMA WatchingFollows ==
    ASSUME Valid, Follows, Watching
    PROVE  Follows'
<1>1. CASE OpenOther
  <2>1. /\ UNCHANGED <<git, cache, accum, task, excused, swallowed>>
        /\ ~ watched' /\ unreported' \subseteq pending'
    BY <1>1 DEF OpenOther
  <2>2. RefDue' /\ FileDue' /\ \A c \in Client : SameHand(task[c], task'[c])
    BY <2>1 DEF RefDue, FileDue, SameHand
  <2>3. After(git, git')
    BY <2>1, NothingMoves
  <2> QED
    BY <2>1, <2>2, <2>3, RepositoryStep
<1> QED
  BY <1>1, WatcherFollows, WatchFollows DEF Watching

LEMMA ReadsFollow ==
    ASSUME Valid, Follows, NEW c \in Client, Reads(c)
    PROVE  Follows'
<1>1. ASSUME NEW k \in Keys, ReadBegin(c, k)
      PROVE  Follows'
  <2>1. IsIdle(c) /\ k # "graph" /\ ReadMiss(c, k, Reading(k, 0, <<>>))
    BY <1>1 DEF ReadBegin
  <2> QED
    BY <2>1, ReadMissFollows
<1>2. CASE GraphBegin(c)
  <2>1. IsIdle(c) /\ "graph" \in Keys /\ ReadMiss(c, "graph", Reading("graph", Len(accum.rows), accum.lanes))
    BY <1>2 DEF GraphBegin
  <2> QED
    BY <2>1, ReadMissFollows
<1> QED
  BY <1>1, <1>2, RefreshFollows, ReadRepositoryFollows, FillFollows, GraphFillFollows DEF Reads

-----------------------------------------------------------------------------
(* The theorems                                                              *)

LEMMA InitHolds ==
    ASSUME Init
    PROVE  Inv
<1>1. Whole(git)
  BY StartWhole DEF Init
<1>2. nav \in NavType(git)
  BY EmptySeq DEF Init, EmptyNav, NavType
<1>3. TasksFit(git, task)
  BY IdleFits DEF Init, TasksFit
<1>4. Single
  BY DEF Init, Single, Idle, Aimed, Swept, Resetting
<1> QED
  BY <1>1, <1>2, <1>3, <1>4 DEF Inv, Valid

LEMMA NextUpheld ==
    ASSUME Valid, [Next]_vars
    PROVE  Upheld
<1>1. CASE UNCHANGED vars
  <2>1. /\ UNCHANGED <<git, nav, tracked, task, outside>>
    BY <1>1 DEF vars, ghosts
  <2>2. task' = [d \in Client |-> task'[d]] /\ \A d \in Client : Quiet(git, task[d], task'[d])
    BY <2>1 DEF Valid, TasksFit, Quiet
  <2> QED
    BY <2>1, <2>2, QuietUpheld
<1>2. ASSUME NEW c \in Client, Reads(c)
      PROVE  Upheld
  <2>1. /\ UNCHANGED <<git, nav, outside, tracked>> /\ task' = [d \in Client |-> task'[d]]
        /\ \A d \in Client : Quiet(git, task[d], task'[d])
    BY <1>2, ReadsQuiet
  <2> QED
    BY <2>1, QuietUpheld
<1>3. ASSUME NEW c \in Client, WriteCommands(c)
      PROVE  Upheld
  BY <1>3, WriteBeginUpheld, RunWriteUpheld, CheckoutCreatedUpheld, AfterWriteUpheld, RecordUpheld
     DEF WriteCommands
<1>4. ASSUME NEW c \in Client, NavCommands(c)
      PROVE  Upheld
  BY <1>4, NavBeginUpheld, NavHintUpheld, NavPickUpheld, CheckUpheld, NavResetUpheld, NavMovedUpheld
     DEF NavCommands
<1>5. CASE Environment
  BY <1>5, EnvironmentUpheld
<1>6. CASE Watching
  BY <1>6, WatchingQuiet, QuietUpheld
<1> QED
  BY <1>1, <1>2, <1>3, <1>4, <1>5, <1>6 DEF Next

(* However many commands run at once, every operation of the backends and   *)
(* every change from outside leaves a repository whose names all lead to     *)
(* commits there are, whose history has no gap and which is in the middle of *)
(* something only on a born branch; the timeline only holds commits of it.   *)
(* (git2_backend.rs, cli_backend.rs; undo_nav.rs)                            *)
THEOREM RepositoryAlwaysWhole == Spec => []Valid
<1>1. Init => Valid
  BY InitHolds DEF Inv
<1>2. Valid /\ [Next]_vars => Valid'
  BY NextUpheld DEF Upheld
<1> QED
  BY <1>1, <1>2, PTL DEF Spec

LEMMA OneClientInvariant ==
    ASSUME OneClient
    PROVE  Spec => []Inv
<1>1. Init => Inv
  BY InitHolds
<1>2. Inv /\ [Next]_vars => Inv'
  BY NextUpheld DEF Upheld, Inv
<1> QED
  BY <1>1, <1>2, PTL DEF Spec

(* With one command at a time the cursor of the undo timeline stands on HEAD *)
(* whenever the last move of HEAD is one the timeline was told of: recorded  *)
(* operations, undo, redo and jumps, refused or not.  (undo_nav.rs)          *)
THEOREM TimelineAlwaysOnHead ==
    ASSUME OneClient
    PROVE  Spec => []NavAligned
<1>1. Inv => NavAligned
  BY DEF Inv, Single, NavAligned
<1> QED
  BY <1>1, OneClientInvariant, PTL

(* With one command at a time no step loses a text that is nowhere else,     *)
(* whatever the repository, the operation and its arguments, but for the     *)
(* operations that say so and an edit that slips in behind the check of an   *)
(* undo.  (git2_backend.rs, cli_backend.rs; apply_nav of repo_context.rs)    *)
THEOREM WorkNeverLost ==
    ASSUME OneClient
    PROVE  Spec => WorkIsNeverLost
<1>1. Inv /\ [Next]_vars => [\/ git.wt \in {Absent, Marked} \cup Held(git')
                             \/ outside' # outside
                             \/ \E c \in Client : task'[c] # task[c] /\ Discarding(c)]_vars
  BY NextUpheld DEF Upheld, Inv, Spared
<1> QED
  BY <1>1, OneClientInvariant, PTL DEF Spec, WorkIsNeverLost

LEMMA FollowsFirst ==
    ASSUME Init
    PROVE  Follows
<1>1. Valid
  BY InitHolds DEF Inv
<1>2. Accumulated(git, EmptyAccum) /\ IsSequence(EmptyAccum.rows)
  BY <1>1, NothingDrawn DEF Valid
<1>3. /\ cache = [k \in Keys \ {"graph"} |-> NotCached] /\ accum = EmptyAccum
      /\ \A c \in Client : task[c] = Idle
      /\ unreported = {} /\ swallowed = {}
  BY DEF Init
<1>4. CacheFits
  BY <1>2, <1>3 DEF CacheFits
<1>5. CacheFollows
  BY <1>3, KeysApart DEF CacheFollows
<1>6. \A c \in Client : Hand(c)
  BY <1>3 DEF Hand, HandFits, Idle
<1> QED
  BY <1>2, <1>3, <1>4, <1>5, <1>6 DEF Follows, AccumFollows

LEMMA NextFollows ==
    ASSUME Valid, Follows, [Next]_vars
    PROVE  Follows'
<1>1. CASE UNCHANGED vars
  <2>1. UNCHANGED <<git, cache, accum, task, pending, watched, unreported, excused, swallowed>>
    BY <1>1 DEF vars, ghosts
  <2>2. \A c \in Client : SameHand(task[c], task'[c]) /\ DueTask(task[c], task'[c])
    BY <2>1 DEF SameHand, DueTask
  <2>3. (RefDue => RefDue') /\ (FileDue => FileDue')
    BY <2>1, <2>2, DueKept
  <2>4. After(git, git') /\ SameRefs(git, git') /\ SameFiles(git, git')
    BY <2>1, NothingMoves
  <2>5. unreported' \subseteq pending'
    BY <2>1 DEF Follows, CacheFits
  <2> QED
    BY <2>1, <2>2, <2>3, <2>4, <2>5, RepositoryStep
<1>2. ASSUME NEW c \in Client, WriteCommands(c)
      PROVE  Follows'
  BY <1>2, QuietCommands, RunWriteFollows, CheckoutCreatedFollows, AfterWriteFollows DEF WriteCommands
<1>3. ASSUME NEW c \in Client, NavCommands(c)
      PROVE  Follows'
  BY <1>3, QuietCommands, NavResetFollows DEF NavCommands
<1>4. CASE Environment
  BY <1>4, EnvironmentAfter, OutsideFollows
<1> QED
  BY <1>1, <1>2, <1>3, <1>4, ReadsFollow, WatchingFollows DEF Next

(* A change of refs that is still to be heard of is one GraphDrawn names.   *)
LEMMA RefDueShows ==
    ASSUME Valid, RefDue
    PROVE  "GitRef" \in unreported \/ Settling("GitRef") \/ ~ watched
<1>1. ASSUME NEW c \in Client, task[c].pc = "checkout"
      PROVE  Settling("GitRef")
  <2>1. task[c].op = "create_and_checkout"
    BY <1>1 DEF Valid, TasksFit, TaskFits
  <2>2. "GitRef" \in Drops("create_and_checkout")
    BY DEF Drops, TreeWrites
  <2> QED
    BY <1>1, <2>1, <2>2 DEF Settling
<1> QED
  BY <1>1 DEF RefDue, Dropping, Settling

LEMMA FollowsShows ==
    ASSUME Valid, Follows
    PROVE  CachesFollow
<1>1. RefDue => "GitRef" \in unreported \/ Settling("GitRef") \/ ~ watched
  BY RefDueShows
<1>2. FileDue => unreported # {} \/ Settling("WorkingTree") \/ ~ watched
  BY DEF FileDue, Dropping, Settling
<1>3. RefCachesFollow
  <2> SUFFICES ASSUME NEW k \in Keys \cap (RefKeys \cup {"graph"}), Outdated(k), k \notin excused
               PROVE  RefDue
    BY <1>1 DEF RefCachesFollow
  <2>1. CASE k = "graph"
    <3> SUFFICES ASSUME ~ RefDue
                 PROVE  FALSE
      OBVIOUS
    <3>1. Accumulated(git, accum)
      BY <2>1 DEF Follows, AccumFollows, GraphExcused
    <3>2. /\ [lanes |-> accum.lanes, rows |-> accum.rows] = commit_graph_page(git, 0, Len(accum.rows), <<>>)
          /\ accum.complete => Len(accum.rows) = Len(log(git))
      BY <3>1 DEF Accumulated, FromTop
    <3> QED
      BY <2>1, <3>2 DEF Outdated, Stale
  <2>2. CASE k # "graph"
    <3>1. k \in RefKeys /\ k \in Answered /\ k \notin FileKeys /\ k \notin WorktreeKeys
      BY <2>2, KeysApart DEF Answered, FileKeys
    <3>2. cache[k] \notin {NotCached, View(git, k)}
      BY <2>2 DEF Outdated, Stale
    <3>3. swallowed \subseteq WorktreeKeys
      BY DEF Follows, CacheFits
    <3> QED
      BY <3>1, <3>2, <3>3 DEF Follows, CacheFollows, Due
  <2> QED
    BY <2>1, <2>2
<1>4. FileCachesFollow
  <2> SUFFICES ASSUME NEW k \in Keys \cap (WorktreeKeys \cup {"blame"}), Stale(k),
                      k \notin excused \cup (swallowed \ {"blame"})
               PROVE  FileDue
    BY <1>2 DEF FileCachesFollow
  <2>1. k \in FileKeys /\ k \in Answered /\ k # "graph"
    BY KeysApart DEF Answered, FileKeys
  <2>2. cache[k] \notin {NotCached, View(git, k)}
    BY <2>1 DEF Stale
  <2>3. k \notin excused \cup swallowed
    BY DEF Follows, CacheFits, WorktreeKeys
  <2> QED
    BY <2>1, <2>2, <2>3 DEF Follows, CacheFollows, Due
<1> QED
  BY <1>3, <1>4 DEF CachesFollow

(* However many commands, writes, changes from outside and reports of the   *)
(* watcher interleave, a cached answer that is no longer the repository's,   *)
(* or a graph that is not the first page of the one it would draw now, is    *)
(* one that an invalidation or a report is still due for, or one of those    *)
(* CachesFollow excepts.  (read, invalidate and after_write of               *)
(* repo_context.rs; watcher.rs)                                              *)
THEOREM CachesAlwaysFollow == Spec => []CachesFollow
<1>1. Init => Valid /\ Follows
  BY InitHolds, FollowsFirst DEF Inv
<1>2. Valid /\ Follows /\ [Next]_vars => Valid' /\ Follows'
  BY NextUpheld, NextFollows DEF Upheld
<1>3. Valid /\ Follows => CachesFollow
  BY FollowsShows
<1> QED
  BY <1>1, <1>2, <1>3, PTL DEF Spec

-----------------------------------------------------------------------------
(* What the pages, put together, draw.                                       *)

Undrawn == "graph" \notin Keys => accum.rows = <<>>
LEMMA NextUndrawn ==
    ASSUME Follows, Undrawn, [Next]_vars
    PROVE  Undrawn'
<1> SUFFICES ASSUME "graph" \notin Keys
             PROVE  accum'.rows = <<>>
  BY DEF Undrawn
<1>1. accum.rows = <<>> /\ EmptyAccum.rows = <<>>
  BY DEF Undrawn, EmptyAccum
<1>2. SUFFICES accum' \in {accum, EmptyAccum}
  BY <1>1
<1>3. \A kinds : invalidate(kinds) => accum' \in {accum, EmptyAccum}
  BY DEF invalidate
<1>4. ASSUME NEW c \in Client, Reads(c)
      PROVE  accum' \in {accum, EmptyAccum}
  <2>1. ~ GraphFill(c)
    BY DEF GraphFill, Follows, Hand, HandFits
  <2> QED
    BY <1>3, <1>4, <2>1 DEF Reads, ReadBegin, GraphBegin, ReadMiss, refresh_status, ReadRepository, Fill
<1>5. ASSUME NEW c \in Client, WriteCommands(c)
      PROVE  accum' \in {accum, EmptyAccum}
  BY <1>3, <1>5 DEF WriteCommands, WriteBegin, RunWrite, CheckoutCreated, after_write, record_nav
<1>6. ASSUME NEW c \in Client, NavCommands(c)
      PROVE  accum' \in {accum, EmptyAccum}
  BY <1>6 DEF NavCommands, NavBegin, NavHint, NavPick, apply_nav_check, apply_nav_reset, NavMoved
<1>7. ASSUME Environment
      PROVE  accum' \in {accum, EmptyAccum}
  BY <1>7 DEF Environment, EditFile, TerminalAdd, TerminalCommit, TerminalReset, OthersPush, Outside
<1>8. ASSUME Watching
      PROVE  accum' \in {accum, EmptyAccum}
  BY <1>3, <1>8 DEF Watching, WatcherFires, OpenOther, watch_repo
<1> QED
  BY <1>4, <1>5, <1>6, <1>7, <1>8 DEF Next, vars

LEMMA AccumulatedMeets ==
    ASSUME NEW g, Whole(g), NEW a, IsSequence(a.rows), Accumulated(g, a)
    PROVE  LinesMeet([i \in DOMAIN a.rows |-> a.rows[i].row], History(g))
<1> DEFINE n == Len(a.rows)  all == log(g)  P == History(g)
<1>1. PICK f : /\ f[0].lanes = <<>> /\ Laid(all, P, f)
               /\ \A k \in 0 .. Len(all) :
                    FromTop(g, k) = [lanes |-> f[k].lanes, rows |-> [i \in 1 .. k |-> DrawnRow(g, f, i)]]
  BY FromTopIs
<1>2. n \in 0 .. Len(all) /\ DOMAIN a.rows = 1 .. n
  BY LogType, LenProperties DEF IsSequence, Accumulated
<1>3. a.rows = [i \in 1 .. n |-> DrawnRow(g, f, i)]
  <2>1. a.rows = FromTop(g, n).rows
    BY DEF Accumulated
  <2> QED
    BY <1>1, <1>2, <2>1
<1>4. \A i \in 1 .. n : a.rows[i].row = RowAt(all, P, f, i).row
  BY <1>3 DEF DrawnRow, GraphRow
<1>5. [i \in DOMAIN a.rows |-> a.rows[i].row] = [i \in 1 .. n |-> RowAt(all, P, f, i).row]
  <2> HIDE DEF n, all, P
  <2> QED
    BY <1>2, <1>4
<1>6. LinesMeet([i \in 1 .. n |-> RowAt(all, P, f, i).row], P)
  BY <1>1, <1>2, LogDrawable, DrawingMeets
<1> QED
  BY <1>5, <1>6

LEMMA FollowsDraws ==
    ASSUME Valid, Follows, Undrawn
    PROVE  GraphDrawn
<1> SUFFICES ASSUME "graph" \notin excused, ~ RefDue
             PROVE  LinesMeet([i \in DOMAIN accum.rows |-> accum.rows[i].row], History(git))
  BY RefDueShows DEF GraphDrawn
<1>1. CASE "graph" \in Keys
  <2>1. Accumulated(git, accum) /\ IsSequence(accum.rows) /\ Whole(git)
    BY <1>1 DEF Follows, AccumFollows, GraphExcused, CacheFits, Valid
  <2> QED
    BY <2>1, AccumulatedMeets
<1>2. CASE "graph" \notin Keys
  <2>1. Accumulated(git, EmptyAccum) /\ IsSequence(EmptyAccum.rows) /\ Whole(git)
    BY NothingDrawn DEF Valid
  <2>2. accum.rows = EmptyAccum.rows
    BY <1>2 DEF Undrawn, EmptyAccum
  <2>3. LinesMeet([i \in DOMAIN EmptyAccum.rows |-> EmptyAccum.rows[i].row], History(git))
    BY <2>1, AccumulatedMeets
  <2> QED
    BY <2>2, <2>3
<1> QED
  BY <1>1, <1>2

(* However the requests for pages, the writes, the changes from outside and *)
(* the reports of the watcher interleave, the rows the context has put      *)
(* together are one drawing: the lines that leave a row are those that      *)
(* enter the next, also at the seam of two pages; the line for every parent *)
(* runs straight down until the row of that parent and ends in its commit;  *)
(* and while there are colours enough no two lines side by side share one.  *)
(* But for the exceptions that GraphDrawn lists.  (layout_into of graph.rs, *)
(* commit_graph of repo_context.rs)                                         *)
THEOREM GraphAlwaysDrawn == Spec => []GraphDrawn
<1>1. Init => Valid /\ Follows /\ Undrawn
  <2>1. Init => Undrawn
    BY DEF Init, Undrawn, EmptyAccum
  <2> QED
    BY <2>1, InitHolds, FollowsFirst DEF Inv
<1>2. Valid /\ Follows /\ Undrawn /\ [Next]_vars => Valid' /\ Follows' /\ Undrawn'
  BY NextUpheld, NextFollows, NextUndrawn DEF Upheld
<1>3. Valid /\ Follows /\ Undrawn => GraphDrawn
  BY FollowsDraws
<1> QED
  BY <1>1, <1>2, <1>3, PTL DEF Spec
=============================================================================
