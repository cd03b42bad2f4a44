------------------------- MODULE IssueTriageProofs --------------------------
(***************************************************************************)
(* Proofs about IssueTriage for any issue, any page size, any number of    *)
(* publications, lost answers and comments of others: what the user is     *)
(* told of a publication is true, and no comment is posted twice but where *)
(* the look for its marker cannot see it.                                  *)
(***************************************************************************)
EXTENDS IssueTriage, FiniteSetTheorems, SequenceTheorems, TLAPS

-----------------------------------------------------------------------------
(* The invariant *)

Status == {"Applied", "AlreadyApplied", "Failed"}
Action == [kind : {"label", "comment"}, status : Status]
Issue == [updated_at : Nat, labels : SUBSET Label, comments : Seq(Nat)]
Phase == {"select", "running", "results", "confirm", "publishing", "publish_result"}
Ui == [phase : Phase, seen : Snapshots, snapshot : Snapshots, cached : Snapshots, id : Nat,
       proposed : SUBSET Label, labels : SUBSET Label, reply : BOOLEAN, fresh : BOOLEAN]
Run == [pc : {"idle", "context", "model"}, cancelled : BOOLEAN, snapshot : Snapshots]
PubPC == {"idle", "context", "label", "recover", "count", "page", "post", "snapshot"}
Publication == [pc : PubPC, id : Nat, todo : SUBSET Label, reply : BOOLEAN, current : SUBSET Label,
                actions : Seq(Action), count : Nat, retried : BOOLEAN]

Types ==
    /\ issue \in Issue /\ ui \in Ui /\ run \in Run /\ pub \in Publication
    /\ late \subseteq Nat /\ published \in Nat

(* The dialog waits for the commands it has started.                         *)
DialogWaits ==
    /\ (run.pc # "idle" <=> ui.phase = "running")
    /\ (pub.pc # "idle" <=> ui.phase = "publishing")

(* Of the actions the user chose each is reported or still to be done.       *)
One(b) == IF b THEN 1 ELSE 0
Chosen(u) == Cardinality(u.labels) + One(u.reply)
Unreported(p) == Cardinality(p.todo) + One(p.reply /\ p.pc # "snapshot")
WorkLeft(p, u) ==
    /\ p.id # 0 /\ p.reply = u.reply
    /\ Len(p.actions) + Unreported(p) = Chosen(u)
    /\ p.pc \in {"label", "recover"} => p.todo # {}
    /\ p.pc \in {"count", "page", "post", "snapshot"} => p.todo = {}
    /\ p.pc \in {"count", "page", "post"} => p.reply

(* Where a look is under way, the marker is not behind the comments that     *)
(* were counted; once it has found nothing, it is not on the last page.      *)
Looked ==
    /\ pub.pc = "page" =>
         /\ pub.count \in 1 .. Len(issue.comments)
         /\ overtaken \/ \A i \in DOMAIN issue.comments : issue.comments[i] = pub.id => i <= pub.count
    /\ pub.pc = "post" => overtaken \/ OffLastPage(pub.id)

TriageInv == Types /\ DialogWaits /\ (pub.pc # "idle" => WorkLeft(pub, ui)) /\ Looked /\ ReportsAreTrue

(* What is reported of the comment is true.                                  *)
Told(p, comments) ==
    \A k \in DOMAIN p.actions :
      p.actions[k].kind = "comment" /\ p.actions[k].status # "Failed" => p.id \in Range(comments)

-----------------------------------------------------------------------------
(* Pages *)

LEMMA PageSizes == PageSize \in Nat \ {0}
  BY TriageAssumption

LEMMA PagesBefore ==
    ASSUME NEW a \in Nat
    PROVE  /\ (a \div PageSize) * PageSize \in Nat /\ (a \div PageSize) * PageSize <= a
           /\ a < (a \div PageSize) * PageSize + PageSize
  BY PageSizes

LEMMA PagesGrow ==
    ASSUME NEW a \in Nat, NEW b \in Nat, a <= b
    PROVE  (a \div PageSize) * PageSize <= (b \div PageSize) * PageSize
<1> DEFINE q == a \div PageSize
           r == b \div PageSize
<1>1. q \in Nat /\ r \in Nat /\ PageSize \in Nat \ {0}
  BY PageSizes
<1>2. q * PageSize <= a /\ b < r * PageSize + PageSize
  BY PagesBefore
<1> HIDE DEF q, r
<1>3. q * PageSize \in Nat /\ r * PageSize \in Nat
  BY <1>1
<1>4. CASE q <= r
  <2>1. q * PageSize <= r * PageSize
    BY <1>1, <1>4
  <2> QED BY <2>1 DEF q, r
<1>5. CASE q > r
  <2>1. q * PageSize >= r * PageSize + PageSize
    BY <1>1, <1>5
  <2> QED BY <1>1, <1>2, <1>3, <2>1
<1> QED BY <1>1, <1>4, <1>5

LEMMA MinOfTwo ==
    ASSUME NEW a \in Int, NEW b \in Int
    PROVE  Min({a, b}) \in {a, b} /\ Min({a, b}) <= a /\ Min({a, b}) <= b
<1>1. \E x \in {a, b} : \A y \in {a, b} : x <= y
  <2>1. CASE a <= b
    BY <2>1
  <2>2. CASE b <= a
    BY <2>2
  <2> QED BY <2>1, <2>2
<1> QED BY <1>1 DEF Min

(* The page a look reads is one of the comments; what was counted and is not *)
(* on it is on an earlier page.                                              *)
LEMMA PageIsLast ==
    ASSUME NEW comments \in Seq(Nat), NEW count \in 1 .. Len(comments)
    PROVE  /\ Range(LastPage(comments, count)) \subseteq Range(comments)
           /\ \A i \in DOMAIN comments :
                i <= count /\ comments[i] \notin Range(LastPage(comments, count)) =>
                  i <= ((Len(comments) - 1) \div PageSize) * PageSize
<1> DEFINE before == ((count - 1) \div PageSize) * PageSize
           n == Len(comments)
           last == Min({before + 1 + PageSize - 1, n})
           page == SubSeq(comments, before + 1, last)
<1>1. n \in Nat /\ DOMAIN comments = 1 .. n /\ count \in Nat /\ count - 1 \in Nat /\ n - 1 \in Nat /\ count <= n
  BY LenProperties
<1>2. before \in Nat /\ before <= count - 1 /\ count - 1 < before + PageSize
  BY <1>1, PagesBefore
<1>3. before <= ((n - 1) \div PageSize) * PageSize /\ ((n - 1) \div PageSize) * PageSize \in Nat
  <2> DEFINE a == count - 1
             b == n - 1
  <2>1. a \in Nat /\ b \in Nat /\ a <= b
    BY <1>1
  <2> HIDE DEF a, b
  <2>2. (a \div PageSize) * PageSize <= (b \div PageSize) * PageSize /\ (b \div PageSize) * PageSize \in Nat
    BY <2>1, PagesGrow, PagesBefore
  <2> QED BY <2>2 DEF a, b
<1>4. LastPage(comments, count) = page
  BY DEF LastPage
<1> HIDE DEF before, n
<1>5. last \in Int /\ last <= n /\ (last = before + PageSize \/ last = n)
  <2> DEFINE end == before + 1 + PageSize - 1
  <2>1. end \in Int /\ end = before + PageSize
    BY <1>2, PageSizes
  <2> HIDE DEF end
  <2>2. n \in Int /\ end \in Int
    BY <1>1, <2>1
  <2>3. Min({end, n}) \in {end, n} /\ Min({end, n}) <= n
    BY ONLY <2>2, MinOfTwo
  <2>4. last = Min({end, n})
    BY DEF end
  <2> HIDE DEF last
  <2> QED BY <1>1, <2>1, <2>3, <2>4
<1> HIDE DEF last
<1>6. last >= count /\ before + 1 <= last
  BY <1>1, <1>2, <1>5, PageSizes
<1>7. /\ Len(page) = last - before /\ DOMAIN page = 1 .. last - before
      /\ \A k \in 1 .. last - before : page[k] = comments[before + k]
  <2>1. before + 1 \in Nat /\ last \in Nat /\ \A k \in before + 1 .. last : k \in 1 .. n
    BY <1>1, <1>2, <1>5, <1>6
  <2>2. page \in Seq(Nat)
    BY <1>1, <2>1, SubSeqProperties
  <2>3. Len(page) = last - before
    BY <1>2, <1>5, <1>6, <2>1
  <2>4. \A k \in 1 .. last - before : page[k] = comments[before + k]
    BY <1>1, <1>2, <1>5, <1>6, <2>1, SubSeqProperties
  <2> HIDE DEF page
  <2> QED BY <2>2, <2>3, <2>4, LenProperties
<1> HIDE DEF page
<1>8. Range(page) \subseteq Range(comments)
  <2> SUFFICES ASSUME NEW k \in 1 .. last - before PROVE page[k] \in Range(comments)
    BY <1>7 DEF Range
  <2>1. before + k \in 1 .. n
    BY <1>1, <1>2, <1>5
  <2> QED BY <1>1, <1>7, <2>1 DEF Range
<1>9. ASSUME NEW i \in DOMAIN comments, i <= count, comments[i] \notin Range(page)
      PROVE  i <= before
  <2>1. i \in Nat
    BY <1>1, <1>9
  <2>2. ASSUME i > before PROVE FALSE
    <3>1. i - before \in 1 .. last - before
      BY <1>2, <1>5, <1>6, <1>9, <2>1, <2>2, <1>1
    <3>2. page[i - before] = comments[i] /\ i - before \in DOMAIN page
      BY <1>2, <1>7, <2>1, <3>1
    <3> QED BY <1>9, <3>2 DEF Range
  <2> QED BY <1>2, <2>1, <2>2
<1>10. \A i \in DOMAIN comments : i <= count /\ comments[i] \notin Range(page) =>
          i <= ((n - 1) \div PageSize) * PageSize
  <2> SUFFICES ASSUME NEW i \in DOMAIN comments, i <= count, comments[i] \notin Range(page)
               PROVE  i <= ((n - 1) \div PageSize) * PageSize
    OBVIOUS
  <2>1. i <= before /\ i \in Nat
    BY <1>1, <1>9
  <2> QED BY <1>2, <1>3, <2>1
<1> QED BY <1>4, <1>8, <1>10 DEF n

(* What was off the last page stays off it when others comment.              *)
LEMMA CommentAdded ==
    ASSUME NEW comments \in Seq(Nat), NEW id \in Nat
    PROVE  LET more == Append(comments, id)
           IN  /\ more \in Seq(Nat) /\ Len(more) = Len(comments) + 1
               /\ DOMAIN more = 1 .. Len(comments) + 1 /\ DOMAIN comments = 1 .. Len(comments)
               /\ \A i \in DOMAIN comments : more[i] = comments[i]
               /\ more[Len(comments) + 1] = id
               /\ Range(more) = Range(comments) \cup {id}
<1> DEFINE more == Append(comments, id)
<1>1. DOMAIN comments = 1 .. Len(comments) /\ Len(comments) \in Nat
  BY LenProperties
<1>2. /\ more \in Seq(Nat) /\ Len(more) = Len(comments) + 1
      /\ \A i \in 1 .. Len(comments) : more[i] = comments[i]
      /\ more[Len(comments) + 1] = id
  BY AppendProperties
<1> HIDE DEF more
<1>3. DOMAIN more = 1 .. Len(comments) + 1
  BY <1>2, LenProperties
<1>4. Range(more) = Range(comments) \cup {id}
  <2>1. \A i \in 1 .. Len(comments) + 1 : i \in 1 .. Len(comments) \/ i = Len(comments) + 1
    BY <1>1
  <2>2. 1 .. Len(comments) \subseteq 1 .. Len(comments) + 1 /\ Len(comments) + 1 \in 1 .. Len(comments) + 1
    BY <1>1
  <2>3. \A x \in Range(more) : x \in Range(comments) \cup {id}
    BY <1>1, <1>2, <1>3, <2>1 DEF Range
  <2>4. \A x \in Range(comments) \cup {id} : x \in Range(more)
    BY <1>1, <1>2, <1>3, <2>2 DEF Range
  <2> QED BY <2>3, <2>4
<1> QED BY <1>1, <1>2, <1>3, <1>4 DEF more

-----------------------------------------------------------------------------
(* What is reported and what is left *)

LEMMA LabelsAreFinite ==
    ASSUME NEW S \in SUBSET Label
    PROVE  IsFiniteSet(S) /\ Cardinality(S) \in Nat
<1>1. IsFiniteSet(S)
  BY TriageAssumption, FS_Subset
<1> QED BY <1>1, FS_CardinalityType

LEMMA OneIsCount == \A b \in BOOLEAN : One(b) \in Nat
  BY DEF One

(* A report is one entry more, true if what it says is.                      *)
LEMMA Reports ==
    ASSUME NEW p \in Publication, NEW kind \in {"label", "comment"}, NEW status \in Status, NEW comments,
           Told(p, comments),
           kind = "comment" /\ status # "Failed" => p.id \in Range(comments)
    PROVE  LET q == Report(p, kind, status)
           IN  /\ q \in Publication /\ Told(q, comments) /\ Len(q.actions) = Len(p.actions) + 1
               /\ q.pc = p.pc /\ q.id = p.id /\ q.todo = p.todo /\ q.reply = p.reply
<1> DEFINE more == Append(p.actions, [kind |-> kind, status |-> status])
           a == [kind |-> kind, status |-> status]
<1>1. p.actions \in Seq(Action) /\ a \in Action /\ a.kind = kind /\ a.status = status
  BY DEF Publication, Action
<1> HIDE DEF a
<1>2. DOMAIN p.actions = 1 .. Len(p.actions) /\ Len(p.actions) \in Nat
  BY <1>1, LenProperties
<1>3. /\ more \in Seq(Action) /\ Len(more) = Len(p.actions) + 1
      /\ \A i \in 1 .. Len(p.actions) : more[i] = p.actions[i]
      /\ more[Len(p.actions) + 1] = a
  BY <1>1, AppendProperties DEF a
<1>4. Report(p, kind, status) = [p EXCEPT !.actions = more]
  BY DEF Report, Publication
<1> HIDE DEF more
<1>5. DOMAIN more = 1 .. Len(p.actions) + 1
  BY <1>3, LenProperties
<1> DEFINE q == Report(p, kind, status)
<1>6. /\ q \in Publication /\ q.actions = more /\ q.pc = p.pc /\ q.id = p.id /\ q.todo = p.todo
      /\ q.reply = p.reply
  BY <1>3, <1>4 DEF Publication
<1> HIDE DEF q
<1>7. Told(q, comments)
  <2> SUFFICES ASSUME NEW k \in DOMAIN q.actions, q.actions[k].kind = "comment", q.actions[k].status # "Failed"
               PROVE  q.id \in Range(comments)
    BY DEF Told
  <2>1. k \in 1 .. Len(p.actions) \/ k = Len(p.actions) + 1
    BY <1>2, <1>5, <1>6
  <2>2. CASE k \in 1 .. Len(p.actions)
    BY <1>2, <1>3, <1>6, <2>2 DEF Told
  <2>3. CASE k = Len(p.actions) + 1
    BY <1>1, <1>3, <1>6, <2>3
  <2> QED BY <2>1, <2>2, <2>3
<1> QED BY <1>3, <1>6, <1>7 DEF q

(* After the labels comes the reply, if one was chosen.                      *)
LEMMA AfterLabelsSound ==
    ASSUME NEW p \in Publication, NEW u \in Ui, p.id # 0, p.reply = u.reply,
           Len(p.actions) + (Cardinality(p.todo) + One(p.reply)) = Chosen(u)
    PROVE  LET q == AfterLabels(p)
           IN  /\ q \in Publication /\ WorkLeft(q, u) /\ q.pc \in {"label", "count", "snapshot"}
               /\ q.id = p.id /\ q.actions = p.actions
<1> DEFINE q == AfterLabels(p)
           pc == IF p.todo # {} THEN "label" ELSE IF p.reply THEN "count" ELSE "snapshot"
<1>1. q = [p EXCEPT !.pc = pc]
  BY DEF AfterLabels
<1>2. pc \in {"label", "count", "snapshot"} /\ pc \in PubPC
  BY DEF PubPC
<1>3. (pc = "label" => p.todo # {}) /\ (pc # "label" => p.todo = {}) /\ (pc = "count" => p.reply)
      /\ (pc = "snapshot" => ~p.reply)
  OBVIOUS
<1> HIDE DEF pc, q
<1>4. /\ q \in Publication /\ q.pc = pc /\ q.id = p.id /\ q.actions = p.actions /\ q.todo = p.todo
      /\ q.reply = p.reply
  BY <1>1, <1>2 DEF Publication
<1>5. p.reply \in BOOLEAN
  BY DEF Publication
<1>6. One(q.reply /\ q.pc # "snapshot") = One(p.reply)
  BY <1>2, <1>3, <1>4, <1>5 DEF One
<1>7. WorkLeft(q, u)
  BY <1>2, <1>3, <1>4, <1>6 DEF WorkLeft, Unreported
<1> QED BY <1>2, <1>4, <1>7 DEF q

(* A label that is done leaves one label less.                               *)
LEMMA LabelDoneSound ==
    ASSUME NEW p \in Publication, NEW u \in Ui, NEW status \in Status, NEW comments,
           p.pc \in {"label", "recover"}, WorkLeft(p, u), Told(p, comments)
    PROVE  LET q == LabelDone(p, status)
           IN  /\ q \in Publication /\ WorkLeft(q, u) /\ q.pc \in {"label", "count", "snapshot"}
               /\ q.id = p.id /\ Told(q, comments)
<1> DEFINE l == NextLabel(p)
           rest == p.todo \ {l}
           less == [p EXCEPT !.todo = rest]
           told == Report(less, "label", status)
<1>1. p.todo # {} /\ p.todo \in SUBSET Label /\ p.reply \in BOOLEAN /\ p.id # 0 /\ p.reply = u.reply
      /\ p.actions \in Seq(Action)
  BY DEF WorkLeft, Publication
<1>2. l \in p.todo
  BY <1>1 DEF NextLabel
<1>3. rest \in SUBSET Label /\ Cardinality(rest) = Cardinality(p.todo) - 1 /\ Cardinality(p.todo) \in Nat
  BY <1>1, <1>2, LabelsAreFinite, FS_RemoveElement
<1> HIDE DEF l, rest
<1>4. /\ less \in Publication /\ less.todo = rest /\ less.pc = p.pc /\ less.id = p.id /\ less.reply = p.reply
      /\ less.actions = p.actions
  BY <1>3 DEF Publication
<1>5. LabelDone(p, status) = AfterLabels(told)
  BY DEF LabelDone, rest, l
<1> HIDE DEF less
<1>6. Told(less, comments)
  BY <1>4 DEF Told
<1>7. /\ told \in Publication /\ Told(told, comments) /\ Len(told.actions) = Len(less.actions) + 1
      /\ told.id = less.id /\ told.todo = less.todo /\ told.reply = less.reply
  BY <1>4, <1>6, Reports
<1> HIDE DEF told
<1>8. Len(p.actions) \in Nat /\ One(p.reply) \in Nat
  BY <1>1, LenProperties, OneIsCount
<1>9. Len(p.actions) + (Cardinality(p.todo) + One(p.reply)) = Chosen(u)
  <2>1. p.reply /\ p.pc # "snapshot" <=> p.reply
    OBVIOUS
  <2>2. One(p.reply /\ p.pc # "snapshot") = One(p.reply)
    BY <2>1 DEF One
  <2> QED BY <2>2 DEF WorkLeft, Unreported
<1>10. Len(told.actions) + (Cardinality(told.todo) + One(told.reply)) = Chosen(u)
  BY <1>3, <1>4, <1>7, <1>8, <1>9
<1>11. /\ AfterLabels(told) \in Publication /\ WorkLeft(AfterLabels(told), u)
       /\ AfterLabels(told).pc \in {"label", "count", "snapshot"}
       /\ AfterLabels(told).id = told.id /\ AfterLabels(told).actions = told.actions
  BY <1>1, <1>4, <1>7, <1>10, AfterLabelsSound
<1>12. Told(AfterLabels(told), comments)
  BY <1>7, <1>11 DEF Told
<1> QED BY <1>4, <1>5, <1>7, <1>11, <1>12

(* The reply is reported, and all that was chosen with it.                   *)
LEMMA CommentDoneSound ==
    ASSUME NEW p \in Publication, NEW u \in Ui, NEW status \in Status, NEW comments,
           p.pc \in {"count", "page", "post"}, WorkLeft(p, u), Told(p, comments),
           status # "Failed" => p.id \in Range(comments)
    PROVE  LET q == CommentDone(p, status)
           IN  /\ q \in Publication /\ WorkLeft(q, u) /\ q.pc = "snapshot"
               /\ q.id = p.id /\ Told(q, comments)
<1> DEFINE told == Report(p, "comment", status)
           q == CommentDone(p, status)
<1>1. /\ told \in Publication /\ Told(told, comments) /\ Len(told.actions) = Len(p.actions) + 1
      /\ told.id = p.id /\ told.todo = p.todo /\ told.reply = p.reply
  BY Reports
<1>2. q = [told EXCEPT !.pc = "snapshot"]
  BY DEF CommentDone
<1> HIDE DEF told, q
<1>3. /\ q \in Publication /\ q.pc = "snapshot" /\ q.id = told.id /\ q.todo = told.todo /\ q.reply = told.reply
      /\ q.actions = told.actions
  BY <1>1, <1>2 DEF Publication, PubPC
<1>4. p.todo = {} /\ p.reply /\ p.id # 0 /\ p.reply = u.reply /\ Len(p.actions) + Unreported(p) = Chosen(u)
  BY DEF WorkLeft
<1>5. Unreported(p) = 1 /\ Unreported(q) = 0
  BY <1>1, <1>3, <1>4, FS_EmptySet DEF Unreported, One
<1>6. Len(p.actions) \in Nat
  BY LenProperties DEF Publication
<1>7. Len(q.actions) + Unreported(q) = Chosen(u)
  BY <1>1, <1>3, <1>4, <1>5, <1>6
<1>8. WorkLeft(q, u)
  BY <1>1, <1>3, <1>4, <1>7 DEF WorkLeft
<1>9. Told(q, comments)
  BY <1>1, <1>3 DEF Told
<1> QED BY <1>1, <1>3, <1>8, <1>9 DEF q

-----------------------------------------------------------------------------
(* The dialog and the triage *)

(* While nothing is published, or once it is given up, the dialog moves      *)
(* freely.                                                                   *)
LEMMA DialogMoves ==
    ASSUME TriageInv, pub' = NoPub \/ (pub' = pub /\ pub.pc = "idle"), ui' \in Ui,
           ui'.phase \notin {"publishing", "publish_result"}, run' \in Run,
           run'.pc # "idle" <=> ui'.phase = "running",
           UNCHANGED <<issue, late, published, overtaken>>
    PROVE  TriageInv'
<1>1. NoPub \in Publication /\ NoPub.pc = "idle" /\ DOMAIN NoPub.actions = {}
  BY DEF NoPub, Publication, PubPC
<1>2. pub' \in Publication /\ pub'.pc = "idle"
  BY <1>1 DEF TriageInv, Types
<1>3. ReportsAreTrue'
  <2>1. CASE pub' = pub
    BY <2>1 DEF TriageInv, ReportsAreTrue
  <2>2. CASE pub' = NoPub
    BY <1>1, <2>2 DEF ReportsAreTrue
  <2> QED BY <2>1, <2>2
<1>4. Types' /\ DialogWaits' /\ Looked'
  BY <1>2 DEF TriageInv, Types, DialogWaits, Looked
<1> QED BY <1>2, <1>3, <1>4 DEF TriageInv

LEMMA UiFields ==
    ASSUME ui \in Ui
    PROVE  /\ ui.phase \in Phase /\ ui.seen \in Snapshots /\ ui.snapshot \in Snapshots /\ ui.cached \in Snapshots
           /\ ui.id \in Nat /\ ui.proposed \in SUBSET Label /\ ui.labels \in SUBSET Label
           /\ ui.reply \in BOOLEAN /\ ui.fresh \in BOOLEAN
  BY DEF Ui

LEMMA TakesSnapshot == issue \in Issue => snapshot(issue) \in Snapshots /\ NoSnapshot \in Snapshots
  BY LenProperties DEF Issue, snapshot, Snapshots, NoSnapshot

LEMMA ResultShown ==
    ASSUME NEW u \in Ui, NEW snap \in Snapshots
    PROVE  ShowResult(u, snap) \in Ui /\ ShowResult(u, snap).phase = "results"
  BY DEF ShowResult, Ui, Phase

LEMMA TriageKeeps ==
    ASSUME TriageInv, Triage
    PROVE  TriageInv'
<1>1. ui \in Ui /\ issue \in Issue /\ run \in Run /\ (run.pc # "idle" <=> ui.phase = "running")
  BY DEF TriageInv, Types, DialogWaits
<1>2. pub.pc # "idle" <=> ui.phase = "publishing"
  BY DEF TriageInv, DialogWaits
<1>3. {"running", "select"} \subseteq Phase /\ IdleRun \in Run /\ IdleRun.pc = "idle"
  BY <1>1, TakesSnapshot DEF Phase, IdleRun, Run
<1>4. CASE startTriage
  <2>1. ui' = [ui EXCEPT !.phase = "running"] /\ run' \in Run /\ run'.pc = "context"
    BY <1>1, <1>4, UiFields DEF startTriage, IdleRun, Run
  <2>2. ui' \in Ui /\ ui'.phase = "running"
    BY <1>1, <1>3, <2>1 DEF Ui
  <2>3. pub.pc = "idle" /\ pub' = pub /\ UNCHANGED <<issue, late, published, overtaken>>
    BY <1>2, <1>4 DEF startTriage, bounds
  <2> QED BY <2>1, <2>2, <2>3, DialogMoves
<1>5. CASE cancelTriage
  <2>1. run.pc # "idle" /\ run' = [run EXCEPT !.cancelled = TRUE] /\ ui' = ui
    BY <1>5 DEF cancelTriage
  <2>2. run' \in Run /\ run'.pc = run.pc
    BY <1>1, <2>1 DEF Run
  <2>3. pub.pc = "idle" /\ pub' = pub /\ UNCHANGED <<issue, late, published, overtaken>>
    BY <1>1, <1>2, <1>5, <2>1 DEF cancelTriage, bounds
  <2> QED BY <1>1, <2>1, <2>2, <2>3, DialogMoves
<1>6. ASSUME run.pc # "idle", TriageEnds, pub' = pub, UNCHANGED <<issue, late, published, overtaken>>
      PROVE  TriageInv'
  <2>1. ui' = [ui EXCEPT !.phase = "select"] /\ run' \in Run /\ run'.pc = "idle"
    BY <1>3, <1>6 DEF TriageEnds
  <2>2. ui' \in Ui /\ ui'.phase = "select"
    BY <1>1, <1>3, <2>1 DEF Ui
  <2>3. pub.pc = "idle"
    BY <1>1, <1>2, <1>6
  <2> QED BY <1>6, <2>1, <2>2, <2>3, DialogMoves
<1>7. CASE TriageFails
  BY <1>6, <1>7 DEF TriageFails
<1>8. CASE TriageContext
  <2>1. CASE snapshot(issue) # run.snapshot
    BY <1>6, <1>8, <2>1 DEF TriageContext, bounds
  <2>2. CASE snapshot(issue) = run.snapshot
    <3>1. run.pc = "context" /\ run' = [run EXCEPT !.pc = "model"] /\ ui' = ui
      BY <1>8, <2>2 DEF TriageContext
    <3>2. run' \in Run /\ run'.pc = "model"
      BY <1>1, <3>1 DEF Run
    <3>3. run.pc # "idle" /\ pub.pc = "idle" /\ ui.phase = "running"
      BY <1>1, <1>2, <3>1
    <3>4. pub' = pub /\ UNCHANGED <<issue, late, published, overtaken>>
      BY <1>8 DEF TriageContext, bounds
    <3> QED BY <1>1, <3>1, <3>2, <3>3, <3>4, DialogMoves
  <2> QED BY <2>1, <2>2
<1>9. CASE TriageAnswer
  <2>1. PICK labels : ui' = [ShowResult(ui, run.snapshot) EXCEPT !.proposed = validate_proposal(labels)]
    BY <1>9 DEF TriageAnswer
  <2>2. run.pc # "idle" /\ run' \in Run /\ run'.pc = "idle"
    BY <1>3, <1>9 DEF TriageAnswer
  <2>3. run.snapshot \in Snapshots
    BY <1>1 DEF Run
  <2>4. validate_proposal(labels) \in SUBSET Label
    BY DEF validate_proposal
  <2> DEFINE u == ShowResult(ui, run.snapshot)
  <2>5. u \in Ui /\ u.phase = "results"
    BY <1>1, <2>3, ResultShown
  <2> HIDE DEF u
  <2>6. ui' \in Ui /\ ui'.phase = "results"
    BY <2>1, <2>4, <2>5 DEF Ui, u
  <2>7. pub.pc = "idle" /\ pub' = pub /\ UNCHANGED <<issue, late, published, overtaken>>
    BY <1>1, <1>2, <1>9, <2>2 DEF TriageAnswer, bounds
  <2> QED BY <2>2, <2>6, <2>7, DialogMoves
<1> QED BY <1>4, <1>5, <1>7, <1>8, <1>9 DEF Triage

LEMMA DialogKeeps ==
    ASSUME TriageInv, Dialog
    PROVE  TriageInv'
<1>1. ui \in Ui /\ issue \in Issue /\ run \in Run /\ (run.pc # "idle" <=> ui.phase = "running")
  BY DEF TriageInv, Types, DialogWaits
<1>2. pub.pc # "idle" <=> ui.phase = "publishing"
  BY DEF TriageInv, DialogWaits
<1>3. Phase = {"select", "running", "results", "confirm", "publishing", "publish_result"}
  BY DEF Phase
<1>4. CASE analyzeAgain
  <2>1. /\ ui.phase = "results" /\ ui' = [ui EXCEPT !.phase = "select", !.cached = NoSnapshot]
        /\ UNCHANGED <<issue, run, pub, late, published, overtaken>>
    BY <1>4 DEF analyzeAgain, bounds
  <2>2. ui' \in Ui /\ ui'.phase = "select"
    BY <1>1, <1>3, <2>1, TakesSnapshot DEF Ui
  <2> QED BY <1>1, <1>2, <2>1, <2>2, DialogMoves
<1>5. CASE Reopen
  <2> DEFINE u == [ui EXCEPT !.seen = snapshot(issue)]
  <2>1. /\ ui.phase \notin {"running", "publishing"} /\ pub' = NoPub
        /\ ui' = IF ui.cached = u.seen THEN ShowResult(u, ui.cached)
                 ELSE [u EXCEPT !.phase = "select", !.cached = NoSnapshot]
        /\ UNCHANGED <<issue, run, late, published, overtaken>>
    BY <1>5 DEF Reopen, bounds
  <2>2. u \in Ui
    BY <1>1, TakesSnapshot DEF Ui
  <2> HIDE DEF u
  <2>3. ShowResult(u, ui.cached) \in Ui /\ ShowResult(u, ui.cached).phase = "results"
    BY <1>1, <2>2, ResultShown, UiFields
  <2>4. LET v == [u EXCEPT !.phase = "select", !.cached = NoSnapshot] IN v \in Ui /\ v.phase = "select"
    BY <1>1, <1>3, <2>2, TakesSnapshot DEF Ui
  <2>5. ui' \in Ui /\ ui'.phase \in {"results", "select"}
    BY <2>1, <2>3, <2>4
  <2> QED BY <1>1, <1>2, <2>1, <2>5, DialogMoves
<1>6. CASE back
  <2>1. /\ ui.phase = "confirm" /\ ui' = [ui EXCEPT !.phase = "results"]
        /\ UNCHANGED <<issue, run, pub, late, published, overtaken>>
    BY <1>6 DEF back, bounds
  <2>2. ui' \in Ui /\ ui'.phase = "results"
    BY <1>1, <1>3, <2>1 DEF Ui
  <2> QED BY <1>1, <1>2, <2>1, <2>2, DialogMoves
<1>7. CASE reviewPublication
  <2>1. PICK labels \in SUBSET ui.proposed, reply \in BOOLEAN :
          ui' = [ui EXCEPT !.phase = "confirm", !.labels = labels, !.reply = reply]
    BY <1>7 DEF reviewPublication
  <2>2. ui.phase = "results" /\ UNCHANGED <<issue, run, pub, late, published, overtaken>>
    BY <1>7 DEF reviewPublication, bounds
  <2>3. labels \in SUBSET Label
    BY <1>1, UiFields
  <2>4. ui' \in Ui /\ ui'.phase = "confirm"
    BY <1>1, <1>3, <2>1, <2>3 DEF Ui
  <2> QED BY <1>1, <1>2, <2>2, <2>4, DialogMoves
<1>8. CASE publishSelection
  <2> DEFINE id == IF ui.id = 0 THEN published + 1 ELSE ui.id
  <2>1. /\ ui.phase \in {"confirm", "publish_result"}
        /\ ui' = [ui EXCEPT !.phase = "publishing", !.id = id]
        /\ pub' = [NoPub EXCEPT !.pc = "context", !.id = id, !.todo = ui.labels, !.reply = ui.reply]
        /\ published' = published + 1 /\ UNCHANGED <<issue, run, late, overtaken>>
    BY <1>8 DEF publishSelection
  <2>2. published \in Nat
    BY DEF TriageInv, Types
  <2>3. id \in Nat \ {0}
    BY <1>1, <2>2, UiFields
  <2> HIDE DEF id
  <2>4. ui' \in Ui /\ ui'.phase = "publishing" /\ ui'.labels = ui.labels /\ ui'.reply = ui.reply
    BY <1>1, <1>3, <2>1, <2>3 DEF Ui
  <2>5. ui.labels \in SUBSET Label /\ ui.reply \in BOOLEAN
    BY <1>1, UiFields
  <2>6. /\ pub'.pc = "context" /\ pub'.id = id /\ pub'.todo = ui.labels /\ pub'.reply = ui.reply
        /\ pub'.actions = <<>> /\ pub'.current = {} /\ pub'.count = 0 /\ pub'.retried = FALSE
        /\ DOMAIN pub' = {"pc", "id", "todo", "reply", "current", "actions", "count", "retried"}
    BY <2>1 DEF NoPub
  <2>7. pub' \in Publication
    <3>1. <<>> \in Seq(Action) /\ {} \in SUBSET Label /\ "context" \in PubPC
      BY EmptySeq DEF PubPC
    <3>2. pub' = [pc |-> "context", id |-> id, todo |-> ui.labels, reply |-> ui.reply, current |-> {},
                  actions |-> <<>>, count |-> 0, retried |-> FALSE]
      BY <2>1 DEF NoPub
    <3> QED BY <2>3, <2>5, <3>1, <3>2 DEF Publication
  <2>8. WorkLeft(pub', ui')
    <3>1. Len(pub'.actions) = 0 /\ Cardinality(ui.labels) \in Nat /\ One(ui.reply) \in Nat
      BY <2>5, <2>6, LabelsAreFinite, OneIsCount
    <3>2. One(pub'.reply /\ pub'.pc # "snapshot") = One(ui.reply)
      BY <2>5, <2>6 DEF One
    <3>3. Len(pub'.actions) + Unreported(pub') = Chosen(ui')
      BY <2>4, <2>6, <3>1, <3>2 DEF Unreported, Chosen
    <3> QED BY <2>3, <2>4, <2>6, <3>3 DEF WorkLeft
  <2>9. DOMAIN pub'.actions = {}
    BY <2>6
  <2>10. ReportsAreTrue'
    BY <2>4, <2>9 DEF ReportsAreTrue
  <2>11. Types' /\ DialogWaits' /\ Looked'
    BY <1>1, <2>1, <2>2, <2>4, <2>6, <2>7 DEF TriageInv, Types, DialogWaits, Looked
  <2> QED BY <2>8, <2>10, <2>11 DEF TriageInv
<1> QED BY <1>4, <1>5, <1>6, <1>7, <1>8 DEF Dialog

-----------------------------------------------------------------------------
(* The publication *)

LEMMA ToldStill ==
    ASSUME NEW p, NEW comments, NEW more, Told(p, comments), Range(comments) \subseteq Range(more)
    PROVE  Told(p, more)
  BY DEF Told

LEMMA IssueChanges ==
    ASSUME NEW i \in Issue, NEW j \in Changed(i)
    PROVE  j \in Issue /\ j.comments = i.comments
<1>1. PICK t \in {i.updated_at, i.updated_at + 1} : j = [i EXCEPT !.updated_at = t]
  BY DEF Changed
<1>2. t \in Nat
  BY DEF Issue
<1> QED BY <1>1, <1>2 DEF Issue

LEMMA NoLook ==
    ASSUME NEW S, pub'.pc \in S, S \cap {"page", "post"} = {}
    PROVE  Looked'
<1>1. pub'.pc # "page" /\ pub'.pc # "post"
  OBVIOUS
<1> QED BY <1>1 DEF Looked

(* While a publication is under way the dialog waits for it.                 *)
LEMMA PublicationMoves ==
    ASSUME TriageInv, pub.pc # "idle", pub' \in Publication, pub'.pc # "idle",
           WorkLeft(pub', ui), Told(pub', issue'.comments), Looked',
           issue' \in Issue, late' \subseteq Nat, UNCHANGED <<ui, run, published>>
    PROVE  TriageInv'
<1>1. ui.phase = "publishing" /\ run.pc = "idle"
  BY DEF TriageInv, DialogWaits
<1>2. Types' /\ DialogWaits' /\ WorkLeft(pub, ui)'
  BY <1>1 DEF TriageInv, Types, DialogWaits, WorkLeft, Unreported, Chosen
<1>3. ReportsAreTrue'
  BY <1>1 DEF ReportsAreTrue, Told
<1> QED BY <1>2, <1>3 DEF TriageInv

LEMMA UnderWay ==
    ASSUME TriageInv, pub.pc # "idle"
    PROVE  /\ issue \in Issue /\ ui \in Ui /\ run \in Run /\ pub \in Publication /\ late \subseteq Nat
           /\ issue.comments \in Seq(Nat) /\ pub.id \in Nat
           /\ ui.phase = "publishing" /\ run.pc = "idle"
           /\ WorkLeft(pub, ui) /\ Told(pub, issue.comments)
  BY DEF TriageInv, Types, DialogWaits, ReportsAreTrue, Told, Issue, Publication

LEMMA RefusedKeeps ==
    ASSUME TriageInv, pub.pc # "idle", Refused, UNCHANGED <<issue, run, late, published, overtaken>>
    PROVE  TriageInv'
<1>1. ui \in Ui /\ run \in Run /\ run.pc = "idle"
  BY UnderWay
<1>2. "confirm" \in Phase
  BY DEF Phase
<1>3. ui' \in Ui /\ ui'.phase = "confirm" /\ pub' = NoPub
  BY <1>1, <1>2 DEF Refused, Ui
<1> QED BY <1>1, <1>3, DialogMoves

LEMMA ContextKeeps ==
    ASSUME TriageInv, PublishContext \/ PublishContextFails
    PROVE  TriageInv'
<1>1. pub.pc = "context"
  BY DEF PublishContext, PublishContextFails
<1>2. CASE Refused
  BY <1>1, <1>2, RefusedKeeps DEF PublishContext, PublishContextFails, bounds
<1>3. CASE pub' = AfterLabels([pub EXCEPT !.current = issue.labels])
           /\ UNCHANGED <<issue, ui, run, late, published, overtaken>>
  <2> DEFINE p == [pub EXCEPT !.current = issue.labels]
  <2>1. /\ pub \in Publication /\ ui \in Ui /\ issue \in Issue /\ WorkLeft(pub, ui) /\ Told(pub, issue.comments)
        /\ late \subseteq Nat
    BY <1>1, UnderWay
  <2>2. /\ p \in Publication /\ p.id = pub.id /\ p.todo = pub.todo /\ p.reply = pub.reply /\ p.actions = pub.actions
    BY <2>1 DEF Publication, Issue
  <2>3. p.reply = ui.reply /\ p.id # 0
    BY <2>1, <2>2 DEF WorkLeft
  <2>4. Len(p.actions) + (Cardinality(p.todo) + One(p.reply)) = Chosen(ui)
    <3>1. One(pub.reply /\ pub.pc # "snapshot") = One(pub.reply)
      BY <1>1 DEF One
    <3> QED BY <2>1, <2>2, <3>1 DEF WorkLeft, Unreported
  <2> HIDE DEF p
  <2>5. /\ pub' \in Publication /\ WorkLeft(pub', ui) /\ pub'.pc \in {"label", "count", "snapshot"}
        /\ pub'.id = p.id /\ pub'.actions = p.actions
    BY <1>3, <2>1, <2>2, <2>3, <2>4, AfterLabelsSound DEF p
  <2>6. Told(pub', issue'.comments)
    BY <1>3, <2>1, <2>2, <2>5 DEF Told
  <2>7. Looked'
    BY <2>5, NoLook
  <2> QED BY <1>1, <1>3, <2>1, <2>5, <2>6, <2>7, PublicationMoves
<1> QED BY <1>2, <1>3 DEF PublishContext, PublishContextFails, bounds

LEMMA LabelKeeps ==
    ASSUME TriageInv, AddLabel \/ RecoverLabel
    PROVE  TriageInv'
<1>1. pub.pc \in {"label", "recover"} /\ UNCHANGED <<ui, run, published, overtaken>>
  BY DEF AddLabel, RecoverLabel
<1>2. /\ pub \in Publication /\ ui \in Ui /\ issue \in Issue /\ WorkLeft(pub, ui) /\ Told(pub, issue.comments)
      /\ late \subseteq Nat
  BY <1>1, UnderWay
<1>3. ASSUME NEW p \in Publication, p.pc \in {"label", "recover"}, WorkLeft(p, ui), Told(p, issue.comments),
             NEW status \in Status, pub' = LabelDone(p, status),
             issue' \in Issue, issue'.comments = issue.comments, late' \subseteq Nat
      PROVE  TriageInv'
  <2>1. /\ pub' \in Publication /\ WorkLeft(pub', ui) /\ pub'.pc \in {"label", "count", "snapshot"}
        /\ Told(pub', issue.comments)
    BY <1>2, <1>3, LabelDoneSound
  <2>2. Looked'
    BY <2>1, NoLook
  <2> QED BY <1>1, <1>3, <2>1, <2>2, PublicationMoves
<1>4. {"Applied", "AlreadyApplied", "Failed"} \subseteq Status
  BY DEF Status
<1>5. CASE RecoverLabel
  <2>1. pub' = LabelDone(pub, "AlreadyApplied") \/ pub' = LabelDone(pub, "Failed")
    BY <1>5 DEF RecoverLabel
  <2>2. issue' = issue /\ late' = late
    BY <1>5 DEF RecoverLabel
  <2> QED BY <1>1, <1>2, <1>3, <1>4, <2>1, <2>2
<1>6. CASE AddLabel
  <2> DEFINE l == NextLabel(pub)
             changed == [issue EXCEPT !.labels = @ \cup {l}]
             p == [pub EXCEPT !.current = @ \cup {l}]
             waiting == [pub EXCEPT !.pc = "recover"]
  <2>1. l \in Label
    <3>1. pub.todo # {} /\ pub.todo \subseteq Label
      BY <1>1, <1>2 DEF WorkLeft, Publication
    <3> QED BY <3>1 DEF NextLabel
  <2>2. \/ pub' = LabelDone(pub, "AlreadyApplied") /\ UNCHANGED <<issue, late, lost>>
        \/ Post(changed, LabelDone(p, "Applied"), waiting, {})
    BY <1>6 DEF AddLabel
  <2> HIDE DEF l
  <2>3. changed \in Issue /\ changed.comments = issue.comments
    BY <1>2, <2>1 DEF Issue
  <2>4. /\ p \in Publication /\ p.pc = pub.pc /\ p.id = pub.id /\ p.todo = pub.todo /\ p.reply = pub.reply
        /\ p.actions = pub.actions
    BY <1>2, <2>1 DEF Publication
  <2>5. "recover" \in PubPC
    BY DEF PubPC
  <2>6. /\ waiting \in Publication /\ waiting.pc = "recover" /\ waiting.id = pub.id /\ waiting.todo = pub.todo
        /\ waiting.reply = pub.reply /\ waiting.actions = pub.actions
    BY <1>2, <2>5 DEF Publication
  <2> HIDE DEF changed, p, waiting
  <2>7. WorkLeft(p, ui) /\ Told(p, issue.comments)
    BY <1>2, <2>4 DEF WorkLeft, Unreported, Told
  <2>8. WorkLeft(waiting, ui) /\ Told(waiting, issue.comments)
    <3>1. waiting.pc # "snapshot" /\ pub.pc # "snapshot" /\ pub.todo # {}
      BY <1>1, <1>2, <2>6 DEF WorkLeft
    <3>2. One(waiting.reply /\ waiting.pc # "snapshot") = One(pub.reply /\ pub.pc # "snapshot")
      BY <2>6, <3>1 DEF One
    <3> QED BY <1>2, <2>6, <3>1, <3>2 DEF WorkLeft, Unreported, Told
  <2>9. CASE pub' = LabelDone(pub, "AlreadyApplied") /\ UNCHANGED <<issue, late, lost>>
    BY <1>1, <1>2, <1>3, <1>4, <2>9
  <2>10. CASE Post(changed, LabelDone(p, "Applied"), waiting, {})
    <3>1. issue' \in Issue /\ issue'.comments = issue.comments /\ late' \subseteq Nat
      BY <1>2, <2>3, <2>10, IssueChanges DEF Post
    <3>2. CASE pub' = LabelDone(p, "Applied")
      BY <1>1, <1>3, <1>4, <2>4, <2>7, <3>1, <3>2
    <3>3. CASE pub' = waiting
      <4>1. Looked'
        BY <2>6, <3>3, NoLook
      <4> QED BY <1>1, <2>6, <2>8, <3>1, <3>3, <4>1, PublicationMoves
    <3> QED BY <2>10, <3>2, <3>3 DEF Post
  <2> QED BY <2>2, <2>9, <2>10
<1> QED BY <1>5, <1>6

LEMMA FoundKeeps ==
    ASSUME TriageInv, pub.pc \in {"count", "page"}, NEW there \in BOOLEAN, pub' = Found(pub, there),
           there => pub.id \in Range(issue.comments),
           there \/ overtaken \/ OffLastPage(pub.id),
           UNCHANGED <<issue, ui, run, late, published, overtaken>>
    PROVE  TriageInv'
<1>1. /\ pub \in Publication /\ ui \in Ui /\ issue \in Issue /\ WorkLeft(pub, ui) /\ Told(pub, issue.comments)
      /\ late \subseteq Nat
  BY UnderWay
<1>2. {"Applied", "AlreadyApplied", "Failed"} \subseteq Status /\ "post" \in PubPC
  BY DEF Status, PubPC
<1>3. ASSUME NEW status \in Status, pub' = CommentDone(pub, status), status # "Failed" => there
      PROVE  TriageInv'
  <2>1. pub' \in Publication /\ WorkLeft(pub', ui) /\ pub'.pc = "snapshot" /\ Told(pub', issue.comments)
    BY <1>1, <1>3, CommentDoneSound
  <2>2. Looked'
    BY <2>1 DEF Looked
  <2> QED BY <1>1, <2>1, <2>2, PublicationMoves
<1>4. CASE pub' = [pub EXCEPT !.pc = "post"] /\ ~there
  <2>1. /\ pub' \in Publication /\ pub'.pc = "post" /\ pub'.id = pub.id /\ pub'.todo = pub.todo
        /\ pub'.reply = pub.reply /\ pub'.actions = pub.actions
    BY <1>1, <1>2, <1>4 DEF Publication
  <2>2. WorkLeft(pub', ui)
    <3>1. One(pub'.reply /\ pub'.pc # "snapshot") = One(pub.reply /\ pub.pc # "snapshot")
      BY <2>1 DEF One
    <3> QED BY <1>1, <2>1, <3>1 DEF WorkLeft, Unreported
  <2>3. Told(pub', issue'.comments)
    BY <1>1, <2>1 DEF Told
  <2>4. Looked'
    BY <1>4, <2>1 DEF Looked, OffLastPage
  <2> QED BY <1>1, <2>1, <2>2, <2>3, <2>4, PublicationMoves
<1> QED BY <1>2, <1>3, <1>4 DEF Found

LEMMA ReadFails ==
    ASSUME TriageInv, pub.pc \in {"count", "page"}, pub' = CommentDone(pub, "Failed"),
           UNCHANGED <<issue, ui, run, late, published, overtaken>>
    PROVE  TriageInv'
<1>1. /\ pub \in Publication /\ ui \in Ui /\ issue \in Issue /\ WorkLeft(pub, ui) /\ Told(pub, issue.comments)
      /\ late \subseteq Nat
  BY UnderWay
<1>2. "Failed" \in Status
  BY DEF Status
<1>3. pub' \in Publication /\ WorkLeft(pub', ui) /\ pub'.pc = "snapshot" /\ Told(pub', issue.comments)
  BY <1>1, <1>2, CommentDoneSound
<1>4. Looked'
  BY <1>3 DEF Looked
<1> QED BY <1>1, <1>3, <1>4, PublicationMoves

LEMMA CountKeeps ==
    ASSUME TriageInv, CountComments
    PROVE  TriageInv'
<1>1. pub.pc = "count" /\ UNCHANGED <<issue, ui, run, late, published, overtaken>>
  BY DEF CountComments
<1>2. /\ pub \in Publication /\ ui \in Ui /\ issue \in Issue /\ WorkLeft(pub, ui) /\ Told(pub, issue.comments)
      /\ late \subseteq Nat /\ issue.comments \in Seq(Nat)
  BY <1>1, UnderWay
<1>3. CASE pub' = CommentDone(pub, "Failed")
  BY <1>1, <1>3, ReadFails
<1>4. CASE issue.comments = <<>> /\ pub' = Found(pub, FALSE)
  <2>1. OffLastPage(pub.id)
    BY <1>4 DEF OffLastPage
  <2> QED BY <1>1, <1>4, <2>1, FoundKeeps
<1>5. CASE issue.comments # <<>> /\ pub' = [pub EXCEPT !.pc = "page", !.count = Len(issue.comments)]
  <2>1. Len(issue.comments) \in Nat \ {0} /\ DOMAIN issue.comments = 1 .. Len(issue.comments)
    BY <1>2, <1>5, LenProperties, EmptySeq
  <2>2. "page" \in PubPC
    BY DEF PubPC
  <2>3. /\ pub' \in Publication /\ pub'.pc = "page" /\ pub'.count = Len(issue.comments) /\ pub'.id = pub.id
        /\ pub'.todo = pub.todo /\ pub'.reply = pub.reply /\ pub'.actions = pub.actions
    BY <1>2, <1>5, <2>1, <2>2 DEF Publication
  <2>4. WorkLeft(pub', ui)
    <3>1. One(pub'.reply /\ pub'.pc # "snapshot") = One(pub.reply /\ pub.pc # "snapshot")
      BY <1>1, <2>3 DEF One
    <3> QED BY <1>1, <1>2, <2>3, <3>1 DEF WorkLeft, Unreported
  <2>5. Told(pub', issue'.comments)
    BY <1>1, <1>2, <2>3 DEF Told
  <2>6. Looked'
    BY <1>1, <2>1, <2>3 DEF Looked
  <2> QED BY <1>1, <1>2, <2>3, <2>4, <2>5, <2>6, PublicationMoves
<1> QED BY <1>3, <1>4, <1>5 DEF CountComments

LEMMA LookKeeps ==
    ASSUME TriageInv, comment_marker_exists
    PROVE  TriageInv'
<1> DEFINE page == LastPage(issue.comments, pub.count)
           there == pub.id \in Range(page)
<1>1. pub.pc = "page" /\ UNCHANGED <<issue, ui, run, late, published, overtaken>>
  BY DEF comment_marker_exists
<1>2. pub' = Found(pub, there) \/ pub' = CommentDone(pub, "Failed")
  BY DEF comment_marker_exists
<1>3. issue.comments \in Seq(Nat) /\ pub.count \in 1 .. Len(issue.comments)
  BY <1>1, UnderWay DEF TriageInv, Looked
<1>4. Range(page) \subseteq Range(issue.comments)
  BY <1>3, PageIsLast
<1>5. there \/ overtaken \/ OffLastPage(pub.id)
  <2>1. \A i \in DOMAIN issue.comments :
          i <= pub.count /\ issue.comments[i] \notin Range(page) =>
            i <= ((Len(issue.comments) - 1) \div PageSize) * PageSize
    BY <1>3, PageIsLast
  <2>2. overtaken \/ \A i \in DOMAIN issue.comments : issue.comments[i] = pub.id => i <= pub.count
    BY <1>1 DEF TriageInv, Looked
  <2> HIDE DEF page
  <2> QED BY <2>1, <2>2 DEF OffLastPage
<1>6. there \in BOOLEAN
  OBVIOUS
<1> HIDE DEF there
<1>7. there => pub.id \in Range(issue.comments)
  BY <1>4 DEF there
<1> QED BY <1>1, <1>2, <1>5, <1>6, <1>7, FoundKeeps, ReadFails

LEMMA PostKeeps ==
    ASSUME TriageInv, PostComment
    PROVE  TriageInv'
<1> DEFINE changed == [issue EXCEPT !.comments = Append(@, pub.id)]
           again == [pub EXCEPT !.pc = "count", !.retried = TRUE]
<1>1. pub.pc = "post" /\ UNCHANGED <<ui, run, published, overtaken>>
      /\ Post(changed, CommentDone(pub, "Applied"), again, {pub.id})
  BY DEF PostComment
<1>2. /\ pub \in Publication /\ ui \in Ui /\ issue \in Issue /\ WorkLeft(pub, ui) /\ Told(pub, issue.comments)
      /\ late \subseteq Nat /\ issue.comments \in Seq(Nat) /\ pub.id \in Nat
  BY <1>1, UnderWay
<1>3. "Applied" \in Status /\ "count" \in PubPC
  BY DEF Status, PubPC
<1>4. changed \in Issue /\ changed.comments = Append(issue.comments, pub.id)
  BY <1>2, CommentAdded DEF Issue
<1>5. Range(changed.comments) = Range(issue.comments) \cup {pub.id}
  BY <1>2, <1>4, CommentAdded
<1>6. /\ again \in Publication /\ again.pc = "count" /\ again.id = pub.id /\ again.todo = pub.todo
      /\ again.reply = pub.reply /\ again.actions = pub.actions
  BY <1>2, <1>3 DEF Publication
<1> HIDE DEF changed, again
<1>7. /\ issue' \in Issue /\ late' \subseteq Nat
      /\ Range(issue.comments) \subseteq Range(issue'.comments)
      /\ pub' = CommentDone(pub, "Applied") => pub.id \in Range(issue'.comments)
      /\ pub' = CommentDone(pub, "Applied") \/ pub' = again
  <2>1. CASE /\ issue' \in Changed(changed) /\ UNCHANGED late
             /\ pub' = CommentDone(pub, "Applied") \/ pub' = again
    BY <1>2, <1>4, <1>5, <2>1, IssueChanges
  <2>2. CASE pub' = again /\ late' \in {late, late \cup {pub.id}} /\ UNCHANGED issue
    <3>1. again.pc # CommentDone(pub, "Applied").pc
      <4>1. CommentDone(pub, "Applied").pc = "snapshot"
        <5>1. DOMAIN Report(pub, "comment", "Applied") = DOMAIN pub
          BY DEF Report
        <5> QED BY <1>2, <5>1 DEF CommentDone, Publication
      <4> QED BY <1>6, <4>1
    <3> QED BY <1>2, <2>2, <3>1
  <2> QED BY <1>1, <2>1, <2>2 DEF Post
<1>8. Told(pub, issue'.comments)
  BY <1>2, <1>7, ToldStill
<1>9. CASE pub' = CommentDone(pub, "Applied")
  <2>1. pub' \in Publication /\ WorkLeft(pub', ui) /\ pub'.pc = "snapshot" /\ Told(pub', issue'.comments)
    BY <1>1, <1>2, <1>3, <1>7, <1>8, <1>9, CommentDoneSound
  <2>2. Looked'
    BY <2>1 DEF Looked
  <2> QED BY <1>1, <1>7, <2>1, <2>2, PublicationMoves
<1>10. CASE pub' = again
  <2>1. WorkLeft(again, ui)
    <3>1. One(again.reply /\ again.pc # "snapshot") = One(pub.reply /\ pub.pc # "snapshot")
      BY <1>1, <1>6 DEF One
    <3> QED BY <1>1, <1>2, <1>6, <3>1 DEF WorkLeft, Unreported
  <2>2. Told(again, issue'.comments)
    BY <1>6, <1>8 DEF Told
  <2>3. Looked'
    BY <1>6, <1>10 DEF Looked
  <2> QED BY <1>1, <1>6, <1>7, <1>10, <2>1, <2>2, <2>3, PublicationMoves
<1> QED BY <1>7, <1>9, <1>10

(* The result: all that was chosen is reported.                              *)
LEMMA ResultKeeps ==
    ASSUME TriageInv, PublishResult
    PROVE  TriageInv'
<1>1. pub.pc = "snapshot" /\ pub' = [pub EXCEPT !.pc = "idle"] /\ UNCHANGED <<issue, run, late, published, overtaken>>
  BY DEF PublishResult
<1>2. /\ pub \in Publication /\ ui \in Ui /\ issue \in Issue /\ run \in Run /\ run.pc = "idle" /\ late \subseteq Nat
      /\ WorkLeft(pub, ui) /\ Told(pub, issue.comments)
  BY <1>1, UnderWay
<1>3. /\ pub' \in Publication /\ pub'.pc = "idle" /\ pub'.id = pub.id /\ pub'.actions = pub.actions
  BY <1>1, <1>2 DEF Publication, PubPC
<1>4. ui' \in Ui /\ ui'.phase = "publish_result" /\ ui'.labels = ui.labels /\ ui'.reply = ui.reply
  <2>1. "publish_result" \in Phase /\ NoSnapshot \in Snapshots /\ snapshot(issue) \in Snapshots
    BY <1>2, TakesSnapshot DEF Phase
  <2> QED BY <1>2, <2>1 DEF PublishResult, Ui
<1>5. Len(pub.actions) = Cardinality(ui.labels) + One(ui.reply)
  <2>1. Cardinality(pub.todo) = 0 /\ One(pub.reply /\ pub.pc # "snapshot") = 0
    BY <1>1, <1>2, FS_EmptySet DEF WorkLeft, One
  <2>2. Len(pub.actions) \in Nat
    BY <1>2, LenProperties DEF Publication
  <2> QED BY <1>2, <2>1, <2>2 DEF WorkLeft, Unreported, Chosen
<1>6. ReportsAreTrue'
  BY <1>1, <1>2, <1>3, <1>4, <1>5 DEF ReportsAreTrue, Told, One
<1>7. Types' /\ DialogWaits' /\ Looked'
  BY <1>1, <1>2, <1>3, <1>4 DEF TriageInv, Types, DialogWaits, Looked
<1> QED BY <1>3, <1>6, <1>7 DEF TriageInv

-----------------------------------------------------------------------------
(* Others, and GitHub *)

(* A comment of others, or one carried out late, disturbs no look.           *)
LEMMA IssueGrows ==
    ASSUME TriageInv, issue' \in Issue, late' \subseteq Nat, UNCHANGED <<ui, run, pub, published>>,
           overtaken => overtaken',
           \/ issue'.comments = issue.comments
           \/ \E id \in Nat : /\ issue'.comments = Append(issue.comments, id)
                              /\ id = 0 \/ overtaken'
    PROVE  TriageInv'
<1> DEFINE n == Len(issue.comments)
           m == Len(issue'.comments)
<1>1. issue.comments \in Seq(Nat) /\ issue'.comments \in Seq(Nat)
  BY DEF TriageInv, Types, Issue
<1>2. /\ n \in Nat /\ m \in Nat /\ n <= m /\ DOMAIN issue.comments = 1 .. n /\ DOMAIN issue'.comments = 1 .. m
      /\ Range(issue.comments) \subseteq Range(issue'.comments)
      /\ overtaken' \/ \A i \in DOMAIN issue'.comments :
                         issue'.comments[i] # 0 => i \in DOMAIN issue.comments /\ issue.comments[i] = issue'.comments[i]
  <2>1. CASE issue'.comments = issue.comments
    BY <1>1, <2>1, LenProperties
  <2>2. ASSUME NEW id \in Nat, issue'.comments = Append(issue.comments, id), id = 0 \/ overtaken'
        PROVE  <1>2
    <3>1. /\ m = n + 1 /\ DOMAIN issue'.comments = 1 .. n + 1 /\ DOMAIN issue.comments = 1 .. n /\ n \in Nat
          /\ \A i \in DOMAIN issue.comments : issue'.comments[i] = issue.comments[i]
          /\ issue'.comments[n + 1] = id
          /\ Range(issue'.comments) = Range(issue.comments) \cup {id}
      BY <1>1, <2>2, CommentAdded, LenProperties
    <3> HIDE DEF n, m
    <3>2. \A i \in 1 .. n + 1 : i \in 1 .. n \/ i = n + 1
      BY <3>1
    <3> QED BY <2>2, <3>1, <3>2
  <2> QED BY <2>1, <2>2
<1>3. ReportsAreTrue'
  BY <1>2 DEF TriageInv, ReportsAreTrue
<1>4. CASE pub.pc = "idle"
  <2>1. Types' /\ DialogWaits' /\ Looked'
    BY <1>4 DEF TriageInv, Types, DialogWaits, Looked
  <2> QED BY <1>3, <1>4, <2>1 DEF TriageInv
<1>5. CASE pub.pc # "idle"
  <2>1. /\ WorkLeft(pub, ui) /\ Told(pub, issue.comments) /\ pub \in Publication /\ pub.id \in Nat /\ pub.id # 0
    BY <1>5, UnderWay DEF WorkLeft
  <2>2. Told(pub', issue'.comments)
    BY <1>2, <2>1, ToldStill
  <2>3. pub.pc = "page" => /\ pub.count \in 1 .. m
                           /\ overtaken' \/ \A i \in DOMAIN issue'.comments : issue'.comments[i] = pub.id => i <= pub.count
    <3>1. SUFFICES ASSUME pub.pc = "page"
                   PROVE  /\ pub.count \in 1 .. m
                          /\ overtaken' \/ \A i \in DOMAIN issue'.comments :
                                             issue'.comments[i] = pub.id => i <= pub.count
      OBVIOUS
    <3>2. /\ pub.count \in 1 .. n
          /\ overtaken \/ \A i \in DOMAIN issue.comments : issue.comments[i] = pub.id => i <= pub.count
      BY <3>1 DEF TriageInv, Looked
    <3>3. pub.count \in 1 .. m
      BY <1>2, <3>2
    <3> HIDE DEF n, m
    <3> QED BY <1>2, <2>1, <3>2, <3>3
  <2>4. pub.pc = "post" => overtaken' \/ OffLastPage(pub.id)'
    <3>1. SUFFICES ASSUME pub.pc = "post", ~overtaken', NEW i \in DOMAIN issue'.comments, issue'.comments[i] = pub.id
                   PROVE  i <= ((m - 1) \div PageSize) * PageSize
      BY DEF OffLastPage
    <3>2. i \in DOMAIN issue.comments /\ issue.comments[i] = pub.id
      BY <1>2, <2>1, <3>1
    <3>3. i <= ((n - 1) \div PageSize) * PageSize
      BY <3>1, <3>2 DEF TriageInv, Looked, OffLastPage
    <3> DEFINE a == n - 1
               b == m - 1
    <3>4. a \in Nat /\ b \in Nat /\ a <= b /\ i \in Nat
      BY <1>2, <3>2
    <3> HIDE DEF n, m
    <3>5. i <= (a \div PageSize) * PageSize
      BY <3>3
    <3> HIDE DEF a, b
    <3>6. /\ (a \div PageSize) * PageSize <= (b \div PageSize) * PageSize
          /\ (a \div PageSize) * PageSize \in Nat /\ (b \div PageSize) * PageSize \in Nat
      BY <3>4, PagesGrow, PagesBefore
    <3>7. i <= (b \div PageSize) * PageSize
      BY <3>4, <3>5, <3>6
    <3> QED BY <3>7 DEF b
  <2>5. Looked'
    BY <2>3, <2>4 DEF Looked
  <2>6. WorkLeft(pub', ui)
    BY <2>1
  <2> QED BY <1>5, <2>1, <2>2, <2>5, <2>6, PublicationMoves
<1> QED BY <1>4, <1>5

LEMMA OthersKeep ==
    ASSUME TriageInv, Others
    PROVE  TriageInv'
<1>1. issue \in Issue /\ issue.comments \in Seq(Nat) /\ late \subseteq Nat
  BY DEF TriageInv, Types, Issue
<1>2. ASSUME NEW id \in Nat, issue' \in Changed([issue EXCEPT !.comments = Append(@, id)])
      PROVE  issue' \in Issue /\ issue'.comments = Append(issue.comments, id)
  <2> DEFINE changed == [issue EXCEPT !.comments = Append(@, id)]
  <2>1. changed \in Issue /\ changed.comments = Append(issue.comments, id)
    BY <1>1, CommentAdded DEF Issue
  <2> HIDE DEF changed
  <2>2. issue' \in Changed(changed)
    BY <1>2 DEF changed
  <2> QED BY <2>1, <2>2, IssueChanges
<1>3. CASE OthersComment
  <2>1. UNCHANGED <<ui, run, pub, late, published, overtaken>>
    BY <1>3 DEF OthersComment
  <2>2. issue' \in Issue /\ issue'.comments = Append(issue.comments, 0)
    BY <1>2, <1>3 DEF OthersComment
  <2> QED BY <1>1, <2>1, <2>2, IssueGrows
<1>4. CASE OthersLabel
  <2>1. UNCHANGED <<ui, run, pub, late, published, overtaken>>
    BY <1>4 DEF OthersLabel
  <2>2. PICK labels \in SUBSET Label : issue' \in Changed([issue EXCEPT !.labels = labels])
    <3>1. PICK l \in Label : \/ issue' \in Changed([issue EXCEPT !.labels = @ \cup {l}])
                             \/ issue' \in Changed([issue EXCEPT !.labels = @ \ {l}])
      BY <1>4 DEF OthersLabel
    <3>2. issue.labels \cup {l} \in SUBSET Label /\ issue.labels \ {l} \in SUBSET Label
      BY <1>1 DEF Issue
    <3> QED BY <3>1, <3>2
  <2> DEFINE changed == [issue EXCEPT !.labels = labels]
  <2>3. changed \in Issue /\ changed.comments = issue.comments
    BY <1>1 DEF Issue
  <2> HIDE DEF changed
  <2>4. issue' \in Changed(changed)
    BY <2>2 DEF changed
  <2>5. issue' \in Issue /\ issue'.comments = issue.comments
    BY <2>3, <2>4, IssueChanges
  <2> QED BY <1>1, <2>1, <2>5, IssueGrows
<1>5. CASE LateDelivery
  <2>1. UNCHANGED <<ui, run, pub, published>> /\ overtaken'
    BY <1>5 DEF LateDelivery, bounds
  <2>2. PICK id \in late : /\ issue' \in Changed([issue EXCEPT !.comments = Append(@, id)])
                           /\ late' = late \ {id}
    BY <1>5 DEF LateDelivery
  <2>3. id \in Nat
    BY <1>1
  <2>4. issue' \in Issue /\ issue'.comments = Append(issue.comments, id)
    BY <1>2, <2>2, <2>3
  <2>5. late' \subseteq Nat
    BY <1>1, <2>2
  <2> QED BY <2>1, <2>3, <2>4, <2>5, IssueGrows
<1> QED BY <1>3, <1>4, <1>5 DEF Others

-----------------------------------------------------------------------------
(* The invariant of every behaviour *)

LEMMA InitInv == Init => TriageInv
<1> SUFFICES ASSUME Init PROVE TriageInv
  OBVIOUS
<1>1. PICK labels \in SUBSET Label :
        issue = [updated_at |-> 1, labels |-> labels, comments |-> [i \in 1 .. StartComments |-> 0]]
  BY DEF Init
<1>2. StartComments \in Nat
  BY TriageAssumption
<1>3. [i \in 1 .. StartComments |-> 0] \in Seq(Nat)
  BY <1>2, SeqDef
<1>4. issue \in Issue
  BY <1>1, <1>3 DEF Issue
<1>5. NoSnapshot \in Snapshots /\ snapshot(issue) \in Snapshots
  BY <1>4, TakesSnapshot
<1>6. ui \in Ui /\ ui.phase = "select"
  BY <1>5 DEF Init, Ui, Phase
<1>7. run \in Run /\ run.pc = "idle"
  BY <1>5 DEF Init, IdleRun, Run
<1>8. pub \in Publication /\ pub.pc = "idle" /\ DOMAIN pub.actions = {}
  BY DEF Init, NoPub, Publication, PubPC
<1>9. late \subseteq Nat /\ published \in Nat
  BY DEF Init
<1> QED BY <1>4, <1>6, <1>7, <1>8, <1>9
        DEF TriageInv, Types, DialogWaits, Looked, ReportsAreTrue

LEMMA PublishKeeps ==
    ASSUME TriageInv, Publish
    PROVE  TriageInv'
  BY ContextKeeps, LabelKeeps, CountKeeps, LookKeeps, PostKeeps, ResultKeeps DEF Publish

LEMMA NextInv == TriageInv /\ [Next]_vars => TriageInv'
<1> SUFFICES ASSUME TriageInv, [Next]_vars PROVE TriageInv'
  OBVIOUS
<1>1. CASE Next
  BY <1>1, TriageKeeps, DialogKeeps, PublishKeeps, OthersKeep DEF Next
<1>2. CASE UNCHANGED vars
  BY <1>2 DEF vars, bounds, TriageInv, Types, DialogWaits, WorkLeft, Unreported, Chosen, Looked, OffLastPage,
              ReportsAreTrue
<1> QED BY <1>1, <1>2

(* TriageInv holds in every reachable state.                                 *)
THEOREM TriageInvariant == Spec => []TriageInv
  BY InitInv, NextInv, PTL DEF Spec

(* What the dialog shows of a publication is so: a comment reported as       *)
(* applied is on the issue, and every action that was chosen is reported,    *)
(* whatever requests were lost and however often it was retried              *)
(* (issue.rs, publish).                                                      *)
THEOREM ReportsAlwaysTrue == Spec => []ReportsAreTrue
<1>1. TriageInv => ReportsAreTrue
  BY DEF TriageInv
<1> QED BY <1>1, TriageInvariant, PTL

(* A publication posts its comment a second time only where the look for its *)
(* marker cannot find the first: on an earlier page, or after a request that *)
(* was given up has been carried out (issue.rs, comment_marker_exists).      *)
THEOREM NeverCommentsTwice == Spec => CommentsOnce
<1> DEFINE Twice == PostComment /\ issue' # issue /\ pub.id \in Range(issue.comments)
                      => overtaken \/ OffLastPage(pub.id)
<1>1. TriageInv => Twice
  BY DEF TriageInv, Looked, PostComment
<1>2. TriageInv /\ [Next]_vars => [Twice]_vars
  BY <1>1
<1> HIDE DEF Twice
<1>3. Spec => [][Twice]_vars
  BY <1>2, TriageInvariant, PTL DEF Spec
<1> QED BY <1>3 DEF CommentsOnce, Twice
=============================================================================
