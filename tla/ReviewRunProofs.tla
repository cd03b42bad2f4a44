-------------------------- MODULE ReviewRunProofs --------------------------
(***************************************************************************)
(* Proofs about ReviewRun for any diff, any heads, any calls of the model  *)
(* and any bounds: a stale result publishes nothing, comments are about    *)
(* lines of the commit they are put on, the transcript the model is asked  *)
(* with is paired, and what the user is told of a publication is true.     *)
(***************************************************************************)
EXTENDS ReviewRun, FiniteSetTheorems, SequenceTheorems, TLAPS

-----------------------------------------------------------------------------
(* Types *)

PageCount == Cardinality(Page)
CallId == Nat \X (Key \cup {UnknownTool, "service"}) \X Nat
Call == [id : CallId, key : Key \cup {UnknownTool}]
Comment == [finding : Finding, commit : Nat, submit : Nat]

LoadPC == {"idle", "pages", "check", "done"}
Load == [pc : LoadPC, head : Nat, pages : Seq(Commit), moved : BOOLEAN]
RunPC == {"idle", "head", "load", "request", "tool"}
RunState == [pc : RunPC, load : Load, dialog : Nat, cancelled : BOOLEAN, round : Nat, tool_calls : Nat,
             tool_cache : SUBSET Key, asked : Seq(CallId), answered : Seq(CallId), queue : Seq(Call)]
SubPC == {"idle", "head", "again", "diffs", "last", "post"}
Submission == [pc : SubPC, head : Nat, todo : Seq(Finding), pages : Seq(Commit), published : Nat,
               seen : BOOLEAN, dialog : Nat]
Phase == {"preflight", "select", "running", "results", "published"}
ReportKind == {"none", "published", "partial", "PrUpdated", "error"}
Report == [kind : ReportKind, published : Nat]
Result == [head : Nat, findings : SUBSET Finding, mixed : BOOLEAN]
Ui == [phase : Phase, head : Nat, result : Result, submitting : BOOLEAN, report : Report, dialog : Nat,
       selected : SUBSET Finding]

(* The types of what neither the dialog nor the run keeps for itself.        *)
HostTypes ==
    /\ platform \in {"github", "gitlab"} /\ head \in Commit /\ posted \in Seq(Comment)
    /\ registered \in BOOLEAN /\ sub \in Submission
    /\ pushes \in Nat /\ lost \in Nat /\ dialogs \in Nat /\ submits \in Nat

(* What is read of the diff is of the commit that is read, unless the        *)
(* branch was away from it meanwhile.                                        *)
LoadSound(l, h) ==
    /\ l.pc = "pages" => Len(l.pages) < PageCount
    /\ l.pc \in {"check", "done"} => Len(l.pages) = PageCount
    /\ l.pc \in {"pages", "check"} /\ ~l.moved => l.head = h
    /\ l.pc # "idle" /\ ~l.moved => \A i \in DOMAIN l.pages : l.pages[i] = l.head

(* A result speaks of the lines of its commit, unless its pages are mixed.   *)
ResultSound(r) ==
    /\ IsFiniteSet(r.findings)
    /\ \A f \in r.findings : f[2] = r.head \/ r.mixed

(* The pairing of calls and answers, of any state of a run.                  *)
Paired(r) == IsInjective(r.asked) /\ r.asked = r.answered \o Ids(r.queue)

RunSound(r, h) ==
    /\ LoadSound(r.load, h)
    /\ r.pc \in {"request", "tool"} => r.load.pc = "done"
    /\ r.pc = "tool" <=> r.queue # <<>>
    /\ Paired(r)

(* The reading side: the preflight, the run, and what the dialog and the     *)
(* frontend keep of it.                                                      *)
PreflightSound == load \in Load /\ LoadSound(load, head)
RunningSound == run \in RunState /\ RunSound(run, head)
ShownSound ==
    /\ ui \in Ui /\ ResultSound(ui.result)
    /\ cached \in Result /\ ResultSound(cached)
ReadingInv == HostTypes /\ PreflightSound /\ RunningSound /\ ShownSound

(* A submission beyond its first comparison, or whose commit is the head,    *)
(* has seen its commit as the head.                                          *)
HeadSeen ==
    /\ sub.pc \notin {"idle", "head"} => sub.seen
    /\ sub.pc # "idle" /\ head = sub.head => sub.seen

(* What a submission has on the host: nothing before it publishes and, on    *)
(* GitHub, until it is over; so many discussions as it counted on GitLab.    *)
(* With what it has still to publish, it is what was selected.               *)
SubSound ==
    /\ \A i \in DOMAIN posted : posted[i].submit <= submits
    /\ sub.pc # "idle" =>
         /\ sub.todo # <<>> /\ IsInjective(sub.todo)
         /\ ui.report.kind = "none"
         /\ PostedOnce(submits)
         /\ ui.selected = PublishedBy(submits) \cup Range(sub.todo)
         /\ \A i \in PostedBy(submits), j \in DOMAIN sub.todo : posted[i].finding # sub.todo[j]
         /\ Cardinality(PostedBy(submits)) = sub.published
         /\ sub.pc # "post" \/ platform = "github" => PostedBy(submits) = {}

ReviewInv == ReadingInv /\ HeadSeen /\ SubSound /\ ReportsAreTrue

-----------------------------------------------------------------------------
(* Reading the diff *)

(* The diff has pages.                                                       *)
LEMMA Pages == PageCount \in Nat \ {0} /\ Page = 1 .. PageCount /\ IsFiniteSet(Page)
<1>1. IsFiniteSet(Page) /\ Page # {} /\ Page = 1 .. PageCount
  BY ReviewAssumption DEF PageCount
<1>2. PageCount \in Nat
  BY <1>1, FS_CardinalityType DEF PageCount
<1> QED BY <1>1, <1>2

(* A reading begins with nothing read of the head it was told.               *)
LEMMA LoadingStarts ==
    ASSUME NEW h \in Commit
    PROVE  Loading(h) \in Load /\ LoadSound(Loading(h), h)
<1>1. h \in Nat
  BY ReviewAssumption
<1>2. /\ Loading(h) \in Load /\ Loading(h).pc = "pages" /\ Loading(h).head = h
      /\ Loading(h).pages = <<>> /\ Loading(h).moved = FALSE
  <2>1. <<>> \in Seq(Commit) /\ "pages" \in LoadPC
    BY DEF LoadPC
  <2> QED BY <1>1, <2>1 DEF Loading, IdleLoad, Load
<1>3. Len(<<>>) = 0 /\ DOMAIN <<>> = {}
  OBVIOUS
<1> QED BY <1>1, <1>2, <1>3, Pages DEF Load, LoadPC, LoadSound

(* A page that is read shows the head of that moment, and as long as the     *)
(* branch was not away that is the head which is read.                       *)
LEMMA PageRead ==
    ASSUME NEW l \in Load, LoadSound(l, head), l.pc = "pages", head \in Commit
    PROVE  ReadPage(l) \in Load /\ LoadSound(ReadPage(l), head)
<1> DEFINE pages == Append(l.pages, head)
           pc == IF Len(l.pages) + 1 = PageCount THEN "check" ELSE "pages"
<1>1. l.pages \in Seq(Commit) /\ l.head \in Nat /\ l.moved \in BOOLEAN /\ Len(l.pages) < PageCount
  BY DEF Load, LoadSound
<1>2. /\ pages \in Seq(Commit) /\ Len(pages) = Len(l.pages) + 1
      /\ \A i \in 1 .. Len(l.pages) : pages[i] = l.pages[i]
      /\ pages[Len(l.pages) + 1] = head
      /\ DOMAIN pages = 1 .. Len(l.pages) + 1 /\ DOMAIN l.pages = 1 .. Len(l.pages) /\ Len(l.pages) \in Nat
  BY <1>1
<1>4. pc \in LoadPC /\ pc \in {"pages", "check"}
  BY DEF LoadPC
<1>3. ReadPage(l) = [l EXCEPT !.pages = pages, !.pc = pc]
  BY DEF ReadPage, PageCount
<1> HIDE DEF pages, pc
<1>5. /\ ReadPage(l) \in Load /\ ReadPage(l).pc = pc /\ ReadPage(l).pages = pages
      /\ ReadPage(l).head = l.head /\ ReadPage(l).moved = l.moved
  BY <1>2, <1>3, <1>4 DEF Load
<1>6. Len(pages) <= PageCount /\ (pc = "pages" => Len(pages) < PageCount) /\ (pc = "check" => Len(pages) = PageCount)
  BY <1>1, <1>2, Pages DEF pc
<1>7. ASSUME ~l.moved PROVE l.head = head /\ \A i \in DOMAIN pages : pages[i] = l.head
  <2>1. l.head = head /\ \A i \in DOMAIN l.pages : l.pages[i] = l.head
    BY <1>7 DEF LoadSound
  <2>2. \A i \in 1 .. Len(l.pages) : pages[i] = head
    BY <1>2, <2>1
  <2> QED BY <1>2, <2>1, <2>2
<1> QED BY <1>4, <1>5, <1>6, <1>7 DEF LoadSound

(* A push while the diff is read is remembered.                              *)
LEMMA PushSeen ==
    ASSUME NEW l \in Load, NEW h0, NEW h, LoadSound(l, h0), h # h0
    PROVE  /\ Moved(l, h) \in Load /\ LoadSound(Moved(l, h), h)
           /\ Moved(l, h).pc = l.pc
<1>1. CASE l.pc \in {"pages", "check"} /\ h # l.head
  <2>1. Moved(l, h) = [l EXCEPT !.moved = TRUE]
    BY <1>1 DEF Moved
  <2>2. /\ [l EXCEPT !.moved = TRUE] \in Load
        /\ [l EXCEPT !.moved = TRUE].moved /\ [l EXCEPT !.moved = TRUE].pc = l.pc
        /\ [l EXCEPT !.moved = TRUE].pages = l.pages
    BY DEF Load
  <2> QED BY <2>1, <2>2 DEF LoadSound
<1>2. CASE ~(l.pc \in {"pages", "check"} /\ h # l.head)
  <2>1. Moved(l, h) = l
    BY <1>2 DEF Moved
  <2> QED BY <1>2, <2>1 DEF LoadSound
<1> QED BY <1>1, <1>2

(* The reading is over, and what was read stays.                             *)
LEMMA LoadKept ==
    ASSUME NEW l \in Load, NEW h, LoadSound(l, h), l.pc = "check"
    PROVE  LET d == [l EXCEPT !.pc = "done"] IN
             d \in Load /\ d.pc = "done" /\ LoadSound(d, h)
<1> DEFINE d == [l EXCEPT !.pc = "done"]
<1>1. d \in Load /\ d.pc = "done" /\ d.head = l.head /\ d.pages = l.pages /\ d.moved = l.moved
  BY DEF Load, LoadPC
<1> HIDE DEF d
<1>2. LoadSound(d, h)
  BY <1>1 DEF LoadSound
<1> QED BY <1>1, <1>2 DEF d

(* Nothing was read yet.                                                     *)
LEMMA IdleLoadSound == IdleLoad \in Load /\ \A h : LoadSound(IdleLoad, h)
<1>1. <<>> \in Seq(Commit) /\ DOMAIN <<>> = {}
  OBVIOUS
<1> QED BY <1>1 DEF IdleLoad, Load, LoadPC, LoadSound

-----------------------------------------------------------------------------
(* The model's calls *)

(* The ids of a sequence of calls, and of its tail.                          *)
LEMMA IdsOf ==
    ASSUME NEW q \in Seq(Call)
    PROVE  /\ Ids(q) \in Seq(CallId) /\ Len(Ids(q)) = Len(q)
           /\ \A i \in 1 .. Len(q) : Ids(q)[i] = q[i].id
<1>1. q \in [1 .. Len(q) -> Call] /\ Len(q) \in Nat /\ DOMAIN q = 1 .. Len(q)
  BY LenProperties
<1>2. Ids(q) = [i \in 1 .. Len(q) |-> q[i].id]
  BY <1>1 DEF Ids
<1>3. Ids(q) \in [1 .. Len(q) -> CallId]
  BY <1>1, <1>2 DEF Call
<1>4. Ids(q) \in Seq(CallId)
  BY <1>1, <1>3
<1>5. Len(Ids(q)) = Len(q)
  BY <1>1, <1>2
<1> QED BY <1>2, <1>4, <1>5

(* The first call is answered, and the others remain.                        *)
LEMMA TailIds ==
    ASSUME NEW q \in Seq(Call), q # <<>>
    PROVE  /\ Tail(q) \in Seq(Call)
           /\ Ids(q) = <<Head(q).id>> \o Ids(Tail(q))
           /\ Head(q).id \in CallId
<1>1. /\ Tail(q) \in Seq(Call) /\ Head(q) \in Call /\ Len(Tail(q)) = Len(q) - 1 /\ Head(q) = q[1]
      /\ \A i \in 1 .. Len(Tail(q)) : Tail(q)[i] = q[i + 1]
      /\ Len(q) \in Nat \ {0}
  BY HeadTailProperties, EmptySeq
<1>2. Head(q).id \in CallId
  BY <1>1 DEF Call
<1> DEFINE s == Ids(q)
           t == Ids(Tail(q))
           u == <<Head(q).id>>
<1>3. s \in Seq(CallId) /\ Len(s) = Len(q) /\ \A i \in 1 .. Len(q) : s[i] = q[i].id
  BY IdsOf
<1>4. t \in Seq(CallId) /\ Len(t) = Len(q) - 1 /\ \A i \in 1 .. Len(q) - 1 : t[i] = q[i + 1].id
  <2>1. t \in Seq(CallId) /\ Len(t) = Len(Tail(q)) /\ \A i \in 1 .. Len(Tail(q)) : t[i] = Tail(q)[i].id
    BY <1>1, IdsOf
  <2> QED BY <1>1, <2>1
<1>5. u \in Seq(CallId) /\ Len(u) = 1 /\ u[1] = q[1].id
  BY <1>1, <1>2
<1> HIDE DEF s, t, u
<1>6. /\ u \o t \in Seq(CallId) /\ Len(u \o t) = 1 + (Len(q) - 1)
      /\ \A i \in 1 .. 1 + (Len(q) - 1) : (u \o t)[i] = IF i <= 1 THEN u[i] ELSE t[i - 1]
  <2>1. /\ u \o t \in Seq(CallId) /\ Len(u \o t) = Len(u) + Len(t)
        /\ \A i \in 1 .. Len(u) + Len(t) : (u \o t)[i] = IF i <= Len(u) THEN u[i] ELSE t[i - Len(u)]
    BY <1>4, <1>5, ConcatProperties
  <2> QED BY <1>4, <1>5, <2>1
<1>7. ASSUME NEW i \in 1 .. Len(q) PROVE s[i] = (u \o t)[i]
  <2>1. CASE i = 1
    BY <1>3, <1>5, <1>6, <2>1
  <2>2. CASE i # 1
    <3>1. i - 1 \in 1 .. Len(q) - 1 /\ (i - 1) + 1 = i
      BY <1>1, <2>2
    <3> QED BY <1>3, <1>4, <1>6, <2>2, <3>1
  <2> QED BY <2>1, <2>2
<1>8. s = u \o t
  <2>1. Len(s) = Len(u \o t) /\ \A i \in 1 .. Len(s) : s[i] = (u \o t)[i]
    BY <1>1, <1>3, <1>6, <1>7
  <2> QED BY <1>3, <1>6, <2>1, SeqEqual
<1> QED BY <1>1, <1>2, <1>8 DEF s, t, u

(* Two sequences without repetition and without a common member are put      *)
(* together without repetition.                                              *)
LEMMA ConcatInjective ==
    ASSUME NEW S, NEW s \in Seq(S), NEW t \in Seq(S), IsInjective(s), IsInjective(t),
           Range(t) \cap Range(s) = {}
    PROVE  IsInjective(s \o t)
<1> DEFINE u == s \o t
<1>1. /\ DOMAIN s = 1 .. Len(s) /\ DOMAIN t = 1 .. Len(t) /\ Len(s) \in Nat /\ Len(t) \in Nat
      /\ u \in Seq(S) /\ Len(u) = Len(s) + Len(t) /\ DOMAIN u = 1 .. Len(s) + Len(t)
      /\ \A i \in 1 .. Len(s) + Len(t) : u[i] = IF i <= Len(s) THEN s[i] ELSE t[i - Len(s)]
  BY ConcatProperties, LenProperties
<1> HIDE DEF u
<1>2. \A i \in 1 .. Len(s), j \in 1 .. Len(t) : s[i] # t[j]
  BY <1>1 DEF Range
<1>3. SUFFICES ASSUME NEW i \in 1 .. Len(s) + Len(t), NEW j \in 1 .. Len(s) + Len(t), u[i] = u[j]
               PROVE  i = j
  BY <1>1 DEF IsInjective, u
<1>4. CASE i <= Len(s) /\ j <= Len(s)
  BY <1>1, <1>3, <1>4 DEF IsInjective
<1>5. CASE i > Len(s) /\ j > Len(s)
  <2>1. i - Len(s) \in DOMAIN t /\ j - Len(s) \in DOMAIN t /\ t[i - Len(s)] = t[j - Len(s)]
    BY <1>1, <1>3, <1>5
  <2>2. i - Len(s) = j - Len(s)
    BY <2>1 DEF IsInjective
  <2> QED BY <1>1, <2>2
<1>6. CASE i <= Len(s) /\ j > Len(s)
  <2>1. i \in 1 .. Len(s) /\ j - Len(s) \in 1 .. Len(t)
    BY <1>1, <1>6
  <2> QED BY <1>1, <1>2, <1>3, <1>6, <2>1
<1>7. CASE i > Len(s) /\ j <= Len(s)
  <2>1. j \in 1 .. Len(s) /\ i - Len(s) \in 1 .. Len(t)
    BY <1>1, <1>7
  <2> QED BY <1>1, <1>2, <1>3, <1>7, <2>1
<1> QED BY <1>1, <1>4, <1>5, <1>6, <1>7

(* The calls of one answer have ids of their own.                            *)
LEMMA CallsOf ==
    ASSUME NEW m, NEW keys \in SeqOf(Key \cup {UnknownTool}, m), NEW recovered \in BOOLEAN,
           m \in Int, run.round \in Nat
    PROVE  LET calls == Calls(keys, recovered) IN
             calls \in Seq(Call) /\ IsInjective(Ids(calls)) /\ (keys # <<>> => calls # <<>>)
<1> DEFINE calls == Calls(keys, recovered)
           Keys == Key \cup {UnknownTool}
<1>1. PICK k \in 0 .. m : keys \in [1 .. k -> Keys]
  BY DEF SeqOf
<1>2. k \in Nat /\ DOMAIN keys = 1 .. k
  BY <1>1
<1>3. \A i \in 1 .. k : calls[i] = [id |-> IF recovered THEN <<i, keys[i], 0>> ELSE <<i, "service", run.round>>, key |-> keys[i]]
  BY <1>2 DEF Calls
<1>4. \A i \in 1 .. k : calls[i] \in Call /\ calls[i].id[1] = i
  <2> TAKE i \in 1 .. k
  <2>1. keys[i] \in Keys /\ i \in Nat
    BY <1>1, <1>2
  <2>2. <<i, keys[i], 0>> \in CallId /\ <<i, "service", run.round>> \in CallId
    BY <2>1 DEF CallId
  <2>3. <<i, keys[i], 0>>[1] = i /\ <<i, "service", run.round>>[1] = i
    OBVIOUS
  <2> DEFINE i1 == <<i, keys[i], 0>>
             i2 == <<i, "service", run.round>>
             d == IF recovered THEN i1 ELSE i2
  <2>4. d \in CallId /\ d[1] = i
    BY <2>2, <2>3
  <2>5. calls[i] = [id |-> d, key |-> keys[i]]
    BY <1>3
  <2> HIDE DEF d
  <2> QED BY <2>1, <2>4, <2>5 DEF Call
<1>5. DOMAIN calls = 1 .. k /\ calls \in [1 .. k -> Call]
  BY <1>2, <1>4 DEF Calls
<1>6. calls \in Seq(Call) /\ Len(calls) = k
  BY <1>2, <1>5
<1> HIDE DEF calls
<1>7. IsInjective(Ids(calls))
  <2>1. DOMAIN Ids(calls) = 1 .. k /\ \A i \in 1 .. k : Ids(calls)[i] = calls[i].id
    BY <1>5 DEF Ids
  <2> QED BY <1>4, <2>1 DEF IsInjective
<1>8. keys # <<>> => calls # <<>>
  <2>1. keys # <<>> => k # 0
    BY <1>1, <1>2
  <2> QED BY <1>6, <2>1
<1> QED BY <1>6, <1>7, <1>8 DEF calls

-----------------------------------------------------------------------------
(* What is shown and kept *)

(* No result is a result about nothing.                                      *)
LEMMA NothingSound == Nothing \in Result /\ ResultSound(Nothing)
<1>1. Nothing = [head |-> 0, findings |-> {}, mixed |-> FALSE]
  BY DEF Nothing
<1>2. IsFiniteSet({})
  BY FS_EmptySet
<1> QED BY <1>1, <1>2 DEF Result, ResultSound

(* What the user is told has a kind and a number.                            *)
LEMMA ToldIsReport ==
    ASSUME NEW kind \in ReportKind
    PROVE  Told(kind) \in Report /\ Told(kind).kind = kind
BY DEF Told, Report

(* The findings that are kept are on lines of the pages that were read, one  *)
(* commit to a page.                                                         *)
LEMMA FindingsSound ==
    ASSUME NEW l \in Load, NEW h, LoadSound(l, h), l.pc = "done", NEW findings \in SUBSET Finding
    PROVE  LET r == [head |-> l.head, findings |-> validate_findings(findings, l.pages), mixed |-> l.moved] IN
             r \in Result /\ ResultSound(r)
<1> DEFINE kept == validate_findings(findings, l.pages)
           r == [head |-> l.head, findings |-> kept, mixed |-> l.moved]
           on == [f \in kept |-> f[1]]
<1>1. kept \subseteq Finding /\ \A f \in kept : l.pages[f[1]] = f[2]
  BY DEF validate_findings
<1>2. \A f \in kept : f[1] \in Page /\ f = <<f[1], f[2]>>
  BY <1>1 DEF Finding
<1>3. on \in Injection(kept, Page)
  <2>1. on \in [kept -> Page]
    BY <1>2
  <2>2. ASSUME NEW f \in kept, NEW g \in kept, on[f] = on[g] PROVE f = g
    <3>1. f[1] = g[1]
      BY <2>2
    <3>2. f[2] = g[2]
      BY <3>1, <1>1
    <3> QED BY <3>1, <3>2, <1>2
  <2>3. DOMAIN on = kept
    OBVIOUS
  <2> HIDE DEF on
  <2> QED BY <2>1, <2>2, <2>3 DEF Injection, IsInjective
<1>4. IsFiniteSet(kept)
  BY <1>3, Pages, FS_Injection
<1>5. l.head \in Nat /\ l.moved \in BOOLEAN /\ l.pages \in Seq(Commit)
  BY DEF Load
<1>6. \A f \in kept : f[2] = l.head \/ l.moved
  <2> SUFFICES ASSUME NEW f \in kept, ~l.moved PROVE f[2] = l.head
    OBVIOUS
  <2>1. DOMAIN l.pages = Page
    BY <1>5, Pages, LenProperties DEF LoadSound
  <2>2. l.pages[f[1]] = l.head
    BY <1>2, <2>1 DEF LoadSound
  <2> QED BY <1>1, <2>2
<1> HIDE DEF kept
<1>7. r \in Result /\ ResultSound(r)
  BY <1>1, <1>4, <1>5, <1>6 DEF Result, ResultSound
<1> QED BY <1>7 DEF kept

(* The findings of a result are put in a sequence without repetition.        *)
LEMMA FindingsInOrder ==
    ASSUME NEW S, IsFiniteSet(S), S # {}
    PROVE  /\ SetToSeq(S) \in Seq(S) /\ SetToSeq(S) # <<>> /\ IsInjective(SetToSeq(S))
           /\ Range(SetToSeq(S)) = S
<1> DEFINE n == Cardinality(S)
           s == SetToSeq(S)
<1>1. n \in Nat /\ n # 0
  BY FS_CardinalityType, FS_EmptySet
<1>2. PICK f \in Bijection(1 .. n, S) : TRUE
  BY FS_CardinalityType DEF ExistsBijection
<1>3. f \in [1 .. n -> S] /\ IsInjective(f)
  BY <1>2 DEF Bijection, Injection
<1>4. s \in [1 .. n -> S] /\ IsInjective(s)
  BY <1>3, Zenon DEF SetToSeq
<1> HIDE DEF s
<1>5. s \in Seq(S) /\ Len(s) = n
  BY <1>1, <1>4
<1>6. Range(s) = S
  <2>1. s \in Injection(1 .. n, S) /\ Cardinality(1 .. n) = n
    BY <1>1, <1>4, FS_Interval DEF Injection
  <2> HIDE DEF n
  <2>2. s \in Surjection(1 .. n, S)
    BY <2>1, FS_Injection DEF n
  <2> QED BY <1>4, <2>2 DEF Surjection, Range
<1> QED BY <1>1, <1>4, <1>5, <1>6 DEF s

-----------------------------------------------------------------------------
(* No run *)

(* No run: nothing was asked, and nothing waits for an answer.               *)
LEMMA IdleRunSound ==
    /\ IdleRun \in RunState /\ IdleRun.pc = "idle"
    /\ \A h : RunSound(IdleRun, h)
    /\ \A n \in Nat, l \in Load :
         LET r == [IdleRun EXCEPT !.pc = "head", !.dialog = n, !.load = l] IN
           r \in RunState /\ \A h : LoadSound(l, h) => RunSound(r, h)
<1>1. /\ <<>> \in Seq(CallId) /\ <<>> \in Seq(Call) /\ "idle" \in RunPC /\ "head" \in RunPC /\ {} \in SUBSET Key
      /\ DOMAIN <<>> = {}
  BY DEF RunPC
<1>2. Ids(<<>>) = <<>>
  BY <1>1 DEF Ids
<1>3. <<>> \o <<>> = <<>> /\ IsInjective(<<>>)
  BY <1>1 DEF IsInjective
<1>4. /\ IdleRun \in RunState /\ IdleRun.pc = "idle" /\ IdleRun.load = IdleLoad
      /\ IdleRun.asked = <<>> /\ IdleRun.answered = <<>> /\ IdleRun.queue = <<>>
  BY <1>1, IdleLoadSound DEF IdleRun, RunState
<1>5. \A h : RunSound(IdleRun, h)
  BY <1>2, <1>3, <1>4, IdleLoadSound DEF RunSound, Paired
<1>6. ASSUME NEW n \in Nat, NEW l \in Load
      PROVE  LET r == [IdleRun EXCEPT !.pc = "head", !.dialog = n, !.load = l] IN
               r \in RunState /\ \A h : LoadSound(l, h) => RunSound(r, h)
  <2> DEFINE r == [IdleRun EXCEPT !.pc = "head", !.dialog = n, !.load = l]
  <2>1. /\ r \in RunState /\ r.pc = "head" /\ r.load = l
        /\ r.asked = <<>> /\ r.answered = <<>> /\ r.queue = <<>>
    BY <1>1, <1>4 DEF RunState
  <2> HIDE DEF r
  <2>2. \A h : LoadSound(l, h) => RunSound(r, h)
    BY <1>2, <1>3, <2>1 DEF RunSound, Paired
  <2> QED BY <2>1, <2>2 DEF r
<1> QED BY <1>4, <1>5, <1>6

-----------------------------------------------------------------------------
(* The ends of the commands, and the answers to calls *)

(* The end of a run leaves no run, and shows and keeps its result.           *)
LEMMA RunOverSound ==
    ASSUME ReadingInv, NEW phase \in Phase, NEW result \in Result, ResultSound(result), RunOver(phase, result)
    PROVE  /\ run' \in RunState /\ \A h : RunSound(run', h)
           /\ registered' \in BOOLEAN /\ ShownSound' /\ ui'.report = ui.report /\ ui'.selected = ui.selected
<1>1. ui \in Ui /\ ResultSound(ui.result) /\ cached \in Result /\ ResultSound(cached)
  BY DEF ReadingInv, ShownSound
<1>2. run' \in RunState /\ (\A h : RunSound(run', h)) /\ registered' \in BOOLEAN
  BY IdleRunSound DEF RunOver
<1>3. CASE run.dialog = ui.dialog
  <2>1. ui' = [ui EXCEPT !.phase = phase, !.result = result] /\ cached' \in {cached, result}
    BY <1>3 DEF RunOver
  <2>2. ui' \in Ui /\ ui'.result = result /\ ui'.report = ui.report /\ ui'.selected = ui.selected
    BY <1>1, <2>1 DEF Ui
  <2> QED BY <1>1, <1>2, <2>1, <2>2 DEF ShownSound
<1>4. CASE run.dialog # ui.dialog
  BY <1>1, <1>2, <1>4 DEF RunOver, ShownSound
<1> QED BY <1>3, <1>4

(* A run that fails shows no result.                                         *)
LEMMA RunFailsSound ==
    ASSUME ReadingInv, RunFails
    PROVE  /\ run' \in RunState /\ \A h : RunSound(run', h)
           /\ registered' \in BOOLEAN /\ ShownSound' /\ ui'.report = ui.report /\ ui'.selected = ui.selected
<1>1. "select" \in Phase
  BY DEF Phase
<1> QED BY <1>1, NothingSound, RunOverSound DEF RunFails

(* A run that goes on leaves what is shown.                                  *)
LEMMA RunGoesOnSound ==
    ASSUME ReadingInv, NEW r, RunGoesOn(r)
    PROVE  /\ run' = r /\ registered' \in BOOLEAN /\ ShownSound'
           /\ ui'.report = ui.report /\ ui'.selected = ui.selected
BY DEF RunGoesOn, ReadingInv, ShownSound, HostTypes

(* Answering a call keeps the transcript paired: the answer has the id of    *)
(* the first call that waits for one.                                        *)
LEMMA AnsweredSound ==
    ASSUME ReadingInv, NEW r \in RunState, RunSound(r, head), r.pc = "tool", Answered(r)
    PROVE  /\ run' \in RunState /\ RunSound(run', head)
           /\ registered' \in BOOLEAN /\ ShownSound' /\ ui'.report = ui.report /\ ui'.selected = ui.selected
<1> DEFINE rest == Tail(r.queue)
           answered == Append(r.answered, Head(r.queue).id)
           next == [r EXCEPT !.answered = answered, !.queue = rest]
           again == [next EXCEPT !.pc = "request", !.round = next.round + 1]
<1>1. /\ r.queue \in Seq(Call) /\ r.queue # <<>> /\ r.answered \in Seq(CallId) /\ r.round \in Nat
      /\ r.asked \in Seq(CallId) /\ IsInjective(r.asked) /\ r.asked = r.answered \o Ids(r.queue)
      /\ LoadSound(r.load, head) /\ r.load.pc = "done" /\ r.pc \in RunPC
      /\ r.tool_calls \in Nat /\ r.tool_cache \in SUBSET Key /\ r.load \in Load
  BY DEF RunSound, Paired, RunState
<1>2. /\ rest \in Seq(Call) /\ Head(r.queue).id \in CallId
      /\ Ids(r.queue) = <<Head(r.queue).id>> \o Ids(rest)
  BY <1>1, TailIds
<1>3. answered \in Seq(CallId) /\ answered = r.answered \o <<Head(r.queue).id>>
  <2> DEFINE w == r.answered
             c == Head(r.queue).id
  <2>1. w \in Seq(CallId) /\ c \in CallId
    BY <1>1, <1>2
  <2> HIDE DEF w, c
  <2>2. Append(w, c) \in Seq(CallId) /\ Append(w, c) = w \o <<c>>
    BY <2>1, AppendProperties, AppendIsConcat
  <2> QED BY <2>2 DEF w, c
<1>4. r.asked = answered \o Ids(rest)
  <2> DEFINE u == <<Head(r.queue).id>>
             v == Ids(rest)
             w == r.answered
  <2>1. u \in Seq(CallId) /\ v \in Seq(CallId) /\ w \in Seq(CallId)
    BY <1>1, <1>2, IdsOf
  <2>2. r.asked = w \o (u \o v) /\ answered = w \o u
    BY <1>1, <1>2, <1>3
  <2> HIDE DEF u, v, w, answered, rest
  <2>3. (w \o u) \o v = w \o (u \o v)
    BY <2>1, ConcatAssociative
  <2>4. r.asked = answered \o v
    BY <2>2, <2>3
  <2> QED BY <2>4 DEF v
<1> HIDE DEF rest, answered
<1>5. /\ next \in RunState /\ next.pc = "tool" /\ next.load = r.load /\ next.asked = r.asked
      /\ next.answered = answered /\ next.queue = rest
  BY <1>1, <1>2, <1>3 DEF RunState
<1>6. next.round \in Nat
  BY <1>5 DEF RunState
<1>7. Answered(r) <=> IF rest # <<>> THEN RunGoesOn(next)
                      ELSE IF next.round + 1 < MAX_MODEL_ROUNDS THEN RunGoesOn(again) ELSE RunFails
  <2>1. next.round = r.round
    BY DEF RunState
  <2> QED BY <2>1 DEF Answered, rest, answered
<1> HIDE DEF next
<1>8. CASE rest # <<>>
  <2>1. RunGoesOn(next)
    BY <1>7, <1>8
  <2>2. RunSound(next, head)
    BY <1>1, <1>4, <1>5, <1>8 DEF RunSound, Paired
  <2> QED BY <1>5, <2>1, <2>2, RunGoesOnSound
<1>9. CASE rest = <<>> /\ next.round + 1 < MAX_MODEL_ROUNDS
  <2>1. RunGoesOn(again)
    BY <1>7, <1>9
  <2>2. "request" \in RunPC /\ next.round + 1 \in Nat
    BY <1>6 DEF RunPC
  <2>3. /\ again \in RunState /\ again.pc = "request" /\ again.load = r.load /\ again.asked = r.asked
        /\ again.answered = answered /\ again.queue = rest
    BY <1>1, <1>2, <1>5, <2>2 DEF RunState
  <2> HIDE DEF again
  <2>4. RunSound(again, head)
    BY <1>1, <1>4, <1>9, <2>3 DEF RunSound, Paired
  <2> QED BY <2>1, <2>3, <2>4, RunGoesOnSound
<1>10. CASE rest = <<>> /\ ~(next.round + 1 < MAX_MODEL_ROUNDS)
  <2>1. RunFails
    BY <1>7, <1>10
  <2> QED BY <2>1, RunFailsSound
<1> QED BY <1>8, <1>9, <1>10

(* The end of a submission leaves none, and tells the dialog if it is open.  *)
LEMMA IdleSubSound == IdleSub \in Submission /\ IdleSub.pc = "idle" /\ IdleSub.published = 0
<1>1. <<>> \in Seq(Commit) /\ <<>> \in Seq(Finding) /\ "idle" \in SubPC
  BY DEF SubPC
<1> QED BY <1>1 DEF IdleSub, Submission

(* The dialog is told how its submission ended, or nothing.                  *)
LEMMA SubmitOverSound ==
    ASSUME ReadingInv, NEW report \in Report, SubmitOver(report)
    PROVE  /\ sub' \in Submission /\ sub'.pc = "idle" /\ ShownSound'
           /\ ui'.report \in {ui.report, report} /\ ui'.selected = ui.selected
<1>1. ui \in Ui /\ ResultSound(ui.result) /\ cached \in Result /\ ResultSound(cached)
  BY DEF ReadingInv, ShownSound
<1>2. sub' \in Submission /\ sub'.pc = "idle"
  BY IdleSubSound DEF SubmitOver
<1>3. CASE sub.dialog # ui.dialog
  BY <1>1, <1>2, <1>3 DEF SubmitOver, ShownSound
<1>4. CASE sub.dialog = ui.dialog /\ report.kind = "published"
  <2>1. /\ ui' = [ui EXCEPT !.submitting = FALSE, !.phase = "published", !.report = report]
        /\ cached' = Nothing /\ "published" \in Phase
    BY <1>4 DEF SubmitOver, Phase
  <2>2. ui' \in Ui /\ ui'.result = ui.result /\ ui'.report = report /\ ui'.selected = ui.selected
    BY <1>1, <2>1 DEF Ui
  <2> QED BY <1>1, <1>2, <2>1, <2>2, NothingSound DEF ShownSound
<1>5. CASE sub.dialog = ui.dialog /\ report.kind # "published"
  <2>1. ui' = [ui EXCEPT !.submitting = FALSE, !.report = report] /\ cached' = cached
    BY <1>5 DEF SubmitOver
  <2>2. ui' \in Ui /\ ui'.result = ui.result /\ ui'.report = report /\ ui'.selected = ui.selected
    BY <1>1, <2>1 DEF Ui
  <2> QED BY <1>1, <1>2, <2>1, <2>2 DEF ShownSound
<1> QED BY <1>3, <1>4, <1>5

(* The comments of a sequence of findings, on the commit of the submission.  *)
LEMMA CommentsOf ==
    ASSUME HostTypes, NEW s \in Seq(Finding)
    PROVE  /\ Comments(s) \in Seq(Comment) /\ Len(Comments(s)) = Len(s)
           /\ \A i \in 1 .. Len(s) : Comments(s)[i].finding = s[i] /\ Comments(s)[i].submit = submits
<1>1. s \in [1 .. Len(s) -> Finding] /\ Len(s) \in Nat /\ DOMAIN s = 1 .. Len(s)
  BY LenProperties
<1>2. sub.head \in Nat /\ submits \in Nat
  BY DEF HostTypes, Submission
<1>3. Comments(s) = [i \in 1 .. Len(s) |-> [finding |-> s[i], commit |-> sub.head, submit |-> submits]]
  BY <1>1 DEF Comments
<1>4. Comments(s) \in [1 .. Len(s) -> Comment]
  BY <1>1, <1>2, <1>3 DEF Comment
<1>5. Comments(s) \in Seq(Comment) /\ Len(Comments(s)) = Len(s)
  BY <1>1, <1>4
<1> QED BY <1>3, <1>5

-----------------------------------------------------------------------------
(* The reading side keeps its invariant: every step of the dialog            *)
LEMMA DialogReads ==
    ASSUME ReadingInv, Dialog
    PROVE  ReadingInv'
<1>1. /\ ui \in Ui /\ ResultSound(ui.result) /\ ui.result \in Result /\ cached \in Result /\ ResultSound(cached)
      /\ run \in RunState /\ RunSound(run, head) /\ load \in Load /\ LoadSound(load, head)
      /\ head \in Commit /\ sub \in Submission /\ HostTypes
  BY DEF ReadingInv, HostTypes, PreflightSound, RunningSound, ShownSound, Ui
<1>2. /\ UNCHANGED <<platform, head, posted, pushes, lost, dialogs, submits, registered, sub>> => HostTypes'
      /\ UNCHANGED <<ui, cached>> => ShownSound'
      /\ UNCHANGED <<head, run>> => RunningSound'
      /\ UNCHANGED <<head, load>> => PreflightSound'
  BY <1>1 DEF HostTypes, ShownSound, RunningSound, PreflightSound
<1>3. ASSUME PreflightHead PROVE ReadingInv'
  <2>1. load' = Loading(head) /\ head' = head
    BY <1>3 DEF PreflightHead
  <2>2. PreflightSound'
    BY <1>1, <2>1, LoadingStarts DEF PreflightSound
  <2> QED BY <1>2, <1>3, <2>2 DEF PreflightHead, ReadingInv, bounds
<1>4. ASSUME PreflightPage PROVE ReadingInv'
  <2>1. load' = ReadPage(load) /\ head' = head /\ load.pc = "pages"
    BY <1>4 DEF PreflightPage
  <2>2. PreflightSound'
    BY <1>1, <2>1, PageRead DEF PreflightSound
  <2> QED BY <1>2, <1>4, <2>2 DEF PreflightPage, ReadingInv, bounds
<1>5. ASSUME PreflightDone PROVE ReadingInv'
  <2>1. PreflightSound'
    BY <1>5, IdleLoadSound DEF PreflightDone, PreflightSound
  <2>2. CASE ui' = ui
    BY <1>2, <1>5, <2>1, <2>2 DEF PreflightDone, ReadingInv, bounds
  <2>3. CASE ui' # ui
    <3> DEFINE phase == IF cached.head = load.head THEN "results" ELSE "select"
               result == IF cached.head = load.head THEN cached ELSE Nothing
    <3>1. ui' = [ui EXCEPT !.head = load.head, !.phase = phase, !.result = result]
      BY <1>5, <2>3 DEF PreflightDone
    <3>2. phase \in Phase /\ result \in Result /\ ResultSound(result) /\ load.head \in Nat
      BY <1>1, NothingSound DEF Phase, Load
    <3> HIDE DEF phase, result
    <3>3. ui' \in Ui /\ ui'.result = result
      BY <1>1, <3>1, <3>2 DEF Ui
    <3>4. ShownSound'
      BY <1>1, <1>5, <3>2, <3>3 DEF ShownSound, PreflightDone
    <3> QED BY <1>2, <1>5, <2>1, <3>4 DEF PreflightDone, ReadingInv, bounds
  <2> QED BY <2>2, <2>3
<1>6. ASSUME Close PROVE ReadingInv'
  <2>1. PreflightSound'
    BY <1>6, IdleLoadSound DEF Close, PreflightSound
  <2>2. dialogs' \in Nat
    BY <1>1, <1>6 DEF Close, HostTypes
  <2>3. HostTypes'
    BY <1>1, <1>6, <2>2 DEF Close, HostTypes
  <2>4. ShownSound'
    <3>1. "preflight" \in Phase /\ "none" \in ReportKind /\ 0 \in Nat /\ FALSE \in BOOLEAN
      BY DEF Phase, ReportKind
    <3>2. ui' \in Ui /\ ui'.result = Nothing
      BY <1>1, <1>6, <2>2, <3>1, NothingSound, ToldIsReport DEF Close, Ui
    <3> QED BY <1>1, <1>6, <3>2, NothingSound DEF ShownSound, Close
  <2>5. RunningSound'
    <3>1. /\ [run EXCEPT !.cancelled = TRUE] \in RunState /\ [run EXCEPT !.cancelled = TRUE].pc = run.pc
          /\ [run EXCEPT !.cancelled = TRUE].load = run.load /\ [run EXCEPT !.cancelled = TRUE].asked = run.asked
          /\ [run EXCEPT !.cancelled = TRUE].answered = run.answered
          /\ [run EXCEPT !.cancelled = TRUE].queue = run.queue
      BY <1>1 DEF RunState
    <3>2. RunSound([run EXCEPT !.cancelled = TRUE], head)
      BY <1>1, <3>1 DEF RunSound, Paired
    <3> QED BY <1>1, <1>6, <3>1, <3>2 DEF Close, RunningSound
  <2> QED BY <2>1, <2>3, <2>4, <2>5 DEF ReadingInv
<1>7. ASSUME reviewAgain PROVE ReadingInv'
  <2>1. "select" \in Phase
    BY DEF Phase
  <2>2. ui' \in Ui /\ ui'.result = Nothing
    BY <1>1, <1>7, <2>1, NothingSound DEF reviewAgain, Ui
  <2>3. ShownSound'
    BY <1>7, <2>2, NothingSound DEF reviewAgain, ShownSound
  <2> QED BY <1>2, <1>7, <2>3 DEF reviewAgain, ReadingInv, bounds
<1>8. ASSUME cancelReview PROVE ReadingInv'
  <2> DEFINE r == [run EXCEPT !.cancelled = TRUE]
  <2>1. /\ r \in RunState /\ r.pc = run.pc /\ r.load = run.load
        /\ r.asked = run.asked /\ r.answered = run.answered /\ r.queue = run.queue
    BY <1>1 DEF RunState
  <2>2. run' = r /\ head' = head
    BY <1>8 DEF cancelReview
  <2> HIDE DEF r
  <2>3. RunSound(r, head)
    BY <1>1, <2>1 DEF RunSound, Paired
  <2>4. RunningSound'
    BY <2>1, <2>2, <2>3 DEF RunningSound
  <2> QED BY <1>2, <1>8, <2>4 DEF cancelReview, ReadingInv, bounds
<1>9. ASSUME startReview PROVE ReadingInv'
  <2> DEFINE l == [IdleLoad EXCEPT !.head = ui.head]
             r == [IdleRun EXCEPT !.pc = "head", !.dialog = ui.dialog, !.load = l]
  <2>1. ui.dialog \in Nat /\ ui.head \in Nat
    BY <1>1 DEF Ui
  <2>2. l \in Load /\ LoadSound(l, head)
    <3>1. <<>> \in Seq(Commit) /\ DOMAIN <<>> = {} /\ "idle" \in LoadPC
      BY DEF LoadPC
    <3>2. l \in Load /\ l.pc = "idle" /\ l.pages = <<>>
      BY <2>1, <3>1 DEF IdleLoad, Load
    <3> HIDE DEF l
    <3> QED BY <3>1, <3>2 DEF LoadSound
  <2> HIDE DEF l
  <2>3. r \in RunState /\ RunSound(r, head)
    BY <2>1, <2>2, IdleRunSound
  <2>4. run' = r /\ head' = head
    BY <1>9 DEF startReview, l
  <2> HIDE DEF r
  <2>5. RunningSound'
    BY <2>3, <2>4 DEF RunningSound
  <2>6. "running" \in Phase
    BY DEF Phase
  <2>7. ui' \in Ui /\ ui'.result = ui.result
    BY <1>1, <1>9, <2>6 DEF startReview, Ui
  <2>8. ShownSound'
    BY <1>1, <1>9, <2>7 DEF startReview, ShownSound
  <2>9. HostTypes'
    BY <1>1, <1>9 DEF startReview, HostTypes, bounds
  <2> QED BY <1>2, <1>9, <2>5, <2>8, <2>9 DEF startReview, ReadingInv
<1>10. ASSUME submitReview PROVE ReadingInv'
  <2>1. PICK findings \in SUBSET ui.result.findings :
          /\ findings # {}
          /\ sub' = [IdleSub EXCEPT !.pc = "head", !.head = ui.result.head, !.todo = SetToSeq(findings),
                                    !.seen = CheckHead(ui.result.head), !.dialog = ui.dialog]
          /\ ui' = [ui EXCEPT !.submitting = TRUE, !.report = Told("none"), !.selected = findings]
    BY <1>10 DEF submitReview
  <2>2. SetToSeq(findings) \in Seq(Finding)
    <3>1. IsFiniteSet(findings)
      BY <1>1, FS_Subset DEF ResultSound
    <3>2. findings \subseteq Finding
      BY <1>1 DEF Result
    <3> QED BY <2>1, <3>1, <3>2, FindingsInOrder, SeqMonotonic
  <2>3. ui.result.head \in Nat /\ ui.dialog \in Nat /\ "head" \in SubPC /\ CheckHead(ui.result.head) \in BOOLEAN
    BY <1>1 DEF Result, Ui, SubPC, CheckHead
  <2>4. sub' \in Submission
    <3> DEFINE t == SetToSeq(findings)
               seen == CheckHead(ui.result.head)
    <3> HIDE DEF t, seen
    <3>1. sub' = [IdleSub EXCEPT !.pc = "head", !.head = ui.result.head, !.todo = t,
                                 !.seen = seen, !.dialog = ui.dialog]
      BY <2>1 DEF t, seen
    <3>2. t \in Seq(Finding) /\ seen \in BOOLEAN
      BY <2>2, <2>3 DEF t, seen
    <3> QED BY <2>3, <3>1, <3>2, IdleSubSound DEF Submission
  <2>5. submits' \in Nat
    BY <1>1, <1>10 DEF submitReview, HostTypes
  <2>6. HostTypes'
    BY <1>1, <1>10, <2>4, <2>5 DEF submitReview, HostTypes
  <2>7. ui' \in Ui /\ ui'.result = ui.result
    <3>1. Told("none") \in Report /\ findings \in SUBSET Finding
      BY <1>1, ToldIsReport DEF ReportKind, Result
    <3> QED BY <1>1, <2>1, <3>1 DEF Ui
  <2>8. ShownSound'
    BY <1>1, <1>10, <2>7 DEF submitReview, ShownSound
  <2> QED BY <1>2, <1>10, <2>6, <2>8 DEF submitReview, ReadingInv
<1> QED BY <1>3, <1>4, <1>5, <1>6, <1>7, <1>8, <1>9, <1>10 DEF Dialog

(* ... every step of the run                                                 *)
LEMMA RunReads ==
    ASSUME ReadingInv, Run
    PROVE  /\ ReadingInv' /\ ui'.report = ui.report /\ ui'.selected = ui.selected
           /\ UNCHANGED <<platform, head, posted, sub, submits>>
<1>1. /\ run \in RunState /\ RunSound(run, head) /\ run.load \in Load /\ LoadSound(run.load, head)
      /\ head \in Commit /\ HostTypes
  BY DEF ReadingInv, HostTypes, RunningSound, RunState, RunSound
<1>2. /\ run.asked \in Seq(CallId) /\ run.answered \in Seq(CallId) /\ run.queue \in Seq(Call)
      /\ run.round \in Nat /\ run.tool_cache \in SUBSET Key /\ run.tool_calls \in Nat /\ Paired(run)
  BY <1>1 DEF RunState, RunSound
<1> DEFINE Frame == UNCHANGED <<platform, head, posted, load, sub, pushes, dialogs, submits>> /\ lost' \in Nat
           Ends == /\ run' \in RunState /\ RunSound(run', head)
                   /\ registered' \in BOOLEAN /\ ShownSound' /\ ui'.report = ui.report /\ ui'.selected = ui.selected
<1>3. Frame /\ Ends => ReadingInv' /\ ui'.report = ui.report /\ ui'.selected = ui.selected
  BY <1>1 DEF ReadingInv, HostTypes, PreflightSound, RunningSound
<1>4. UNCHANGED bounds => lost' \in Nat /\ UNCHANGED <<pushes, lost, dialogs, submits>>
  BY <1>1 DEF bounds, HostTypes
<1>5. RunFails => Ends
  BY RunFailsSound
<1>6. ASSUME NEW r \in RunState, RunSound(r, head), RunGoesOn(r) PROVE Ends
  BY <1>6, RunGoesOnSound
<1> HIDE DEF Ends
<1>7. ASSUME RunCancelled PROVE Frame /\ Ends
  BY <1>4, <1>5, <1>7 DEF RunCancelled
<1>8. ASSUME StepFails PROVE Frame /\ Ends
  <2>1. lost' \in Nat
    BY <1>1, <1>8 DEF StepFails, Lose, HostTypes
  <2> QED BY <1>5, <1>8, <2>1 DEF StepFails
<1>9. ASSUME RunHead PROVE Frame /\ Ends
  <2>1. CASE CheckHead(run.load.head)
    <3> DEFINE l == Loading(run.load.head)
               r == [run EXCEPT !.pc = "load", !.load = l]
    <3>1. RunGoesOn(r) /\ run.load.head = head
      BY <1>9, <2>1 DEF RunHead, CheckHead
    <3>2. l \in Load /\ LoadSound(l, head) /\ "load" \in RunPC
      BY <1>1, <3>1, LoadingStarts DEF RunPC
    <3> HIDE DEF l
    <3>3. /\ r \in RunState /\ r.pc = "load" /\ r.load = l
          /\ r.asked = run.asked /\ r.answered = run.answered /\ r.queue = run.queue
      BY <1>1, <3>2 DEF RunState
    <3> HIDE DEF r
    <3>4. RunSound(r, head)
      BY <1>1, <1>9, <3>2, <3>3 DEF RunSound, Paired, RunHead
    <3>5. Ends
      BY <1>6, <3>1, <3>3, <3>4
    <3> QED BY <1>4, <1>9, <3>5 DEF RunHead
  <2>2. CASE ~CheckHead(run.load.head)
    BY <1>4, <1>5, <1>9, <2>2 DEF RunHead
  <2> QED BY <2>1, <2>2
<1>10. ASSUME RunPage PROVE Frame /\ Ends
  <2> DEFINE l == ReadPage(run.load)
             r == [run EXCEPT !.load = l]
  <2>1. RunGoesOn(r)
    BY <1>10 DEF RunPage
  <2>2. l \in Load /\ LoadSound(l, head)
    BY <1>1, <1>10, PageRead DEF RunPage
  <2> HIDE DEF l
  <2>3. /\ r \in RunState /\ r.pc = "load" /\ r.load = l
        /\ r.asked = run.asked /\ r.answered = run.answered /\ r.queue = run.queue
    BY <1>1, <1>10, <2>2 DEF RunState, RunPage
  <2> HIDE DEF r
  <2>4. RunSound(r, head)
    BY <1>1, <1>10, <2>2, <2>3 DEF RunSound, Paired, RunPage
  <2>5. Ends
    BY <1>6, <2>1, <2>3, <2>4
  <2> QED BY <1>4, <1>10, <2>5 DEF RunPage
<1>11. ASSUME RunLoaded PROVE Frame /\ Ends
  <2>1. CASE CheckHead(run.load.head)
    <3> DEFINE l == [run.load EXCEPT !.pc = "done"]
               r == [run EXCEPT !.pc = "request", !.load = l]
    <3>1. RunGoesOn([run EXCEPT !.pc = "request", !.load.pc = "done"])
      BY <1>11, <2>1 DEF RunLoaded
    <3>2. RunGoesOn(r)
      <4>1. [run EXCEPT !.pc = "request", !.load.pc = "done"] = r
        BY <1>1 DEF RunState
      <4> QED BY <3>1, <4>1
    <3>3. l \in Load /\ l.pc = "done" /\ LoadSound(l, head) /\ "request" \in RunPC
      BY <1>1, <1>11, LoadKept DEF RunLoaded, RunPC
    <3> HIDE DEF l
    <3>4. /\ r \in RunState /\ r.pc = "request" /\ r.load = l
          /\ r.asked = run.asked /\ r.answered = run.answered /\ r.queue = run.queue
      BY <1>1, <3>3 DEF RunState
    <3> HIDE DEF r
    <3>5. RunSound(r, head)
      BY <1>1, <1>11, <3>3, <3>4 DEF RunSound, Paired, RunLoaded
    <3>6. Ends
      BY <1>6, <3>2, <3>4, <3>5
    <3> QED BY <1>4, <1>11, <3>6 DEF RunLoaded
  <2>2. CASE ~CheckHead(run.load.head)
    BY <1>4, <1>5, <1>11, <2>2 DEF RunLoaded
  <2> QED BY <2>1, <2>2
<1>12. ASSUME FinalText PROVE Frame /\ Ends
  <2>1. PICK findings \in SUBSET Finding :
          RunOver("results", [head |-> run.load.head, findings |-> validate_findings(findings, run.load.pages),
                              mixed |-> run.load.moved])
    BY <1>12 DEF FinalText
  <2> DEFINE r == [head |-> run.load.head, findings |-> validate_findings(findings, run.load.pages),
                   mixed |-> run.load.moved]
  <2>2. run.load.pc = "done"
    BY <1>1, <1>12 DEF RunSound, FinalText
  <2>3. r \in Result /\ ResultSound(r)
    BY <1>1, <2>2, FindingsSound
  <2>4. "results" \in Phase /\ RunOver("results", r)
    BY <2>1 DEF Phase
  <2> HIDE DEF r
  <2>5. Ends
    BY <2>3, <2>4, RunOverSound DEF Ends
  <2> QED BY <1>4, <1>12, <2>5 DEF FinalText
<1>13. ASSUME ToolCalls PROVE Frame /\ Ends
  <2>1. PICK keys \in SeqOf(Key \cup {UnknownTool}, MaxCalls - Len(run.asked)) \ {<<>>}, recovered \in BOOLEAN :
          LET calls == Calls(keys, recovered) IN
          IF validate_call_ids(calls)
          THEN RunGoesOn([run EXCEPT !.pc = "tool", !.queue = calls, !.asked = @ \o Ids(calls)])
          ELSE RunFails
    BY <1>13 DEF ToolCalls
  <2> DEFINE calls == Calls(keys, recovered)
             asked == run.asked \o Ids(calls)
             r == [run EXCEPT !.pc = "tool", !.queue = calls, !.asked = asked]
  <2>2. CASE validate_call_ids(calls)
    <3>1. RunGoesOn(r)
      BY <2>1, <2>2
    <3>2. calls \in Seq(Call) /\ IsInjective(Ids(calls)) /\ calls # <<>>
      <4>1. MaxCalls - Len(run.asked) \in Int
        BY <1>2, ReviewAssumption
      <4> QED BY <1>2, <4>1, CallsOf
    <3> HIDE DEF calls
    <3>3. Ids(calls) \in Seq(CallId)
      BY <3>2, IdsOf
    <3>4. asked \in Seq(CallId) /\ "tool" \in RunPC
      BY <1>2, <3>3 DEF RunPC
    <3>5. IsInjective(asked)
      BY <1>2, <2>2, <3>2, <3>3, ConcatInjective DEF validate_call_ids, Paired
    <3>6. asked = run.answered \o Ids(calls)
      <4>1. run.queue = <<>>
        BY <1>1, <1>13 DEF RunSound, ToolCalls
      <4>2. Ids(run.queue) = <<>>
        BY <4>1 DEF Ids
      <4>3. run.asked = run.answered \o <<>>
        BY <1>2, <4>2 DEF Paired
      <4>4. run.asked = run.answered
        BY <1>2, <4>3, ConcatEmptySeq
      <4> QED BY <4>4
    <3> HIDE DEF asked
    <3>7. /\ r \in RunState /\ r.pc = "tool" /\ r.load = run.load
          /\ r.asked = asked /\ r.answered = run.answered /\ r.queue = calls
      BY <1>1, <3>2, <3>4 DEF RunState
    <3> HIDE DEF r
    <3>8. RunSound(r, head)
      BY <1>1, <1>13, <3>2, <3>5, <3>6, <3>7 DEF RunSound, Paired, ToolCalls
    <3>9. Ends
      BY <1>6, <3>1, <3>7, <3>8
    <3> QED BY <1>4, <1>13, <3>9 DEF ToolCalls
  <2>3. CASE ~validate_call_ids(calls)
    BY <1>4, <1>5, <1>13, <2>1, <2>3 DEF ToolCalls
  <2> QED BY <2>2, <2>3
<1>14. ASSUME execute_tool PROVE Frame /\ Ends
  <2> DEFINE key == Head(run.queue).key
             read == [run EXCEPT !.tool_cache = @ \cup {key}, !.tool_calls = @ + 1]
             r == IF NeedsRead(run, key) THEN read ELSE run
  <2>1. Answered(r) /\ run.pc = "tool"
    BY <1>14 DEF execute_tool
  <2>2. CASE NeedsRead(run, key)
    <3>1. key \in Key /\ run.tool_cache \cup {key} \in SUBSET Key /\ run.tool_calls + 1 \in Nat
      BY <1>2, <2>2 DEF NeedsRead
    <3> HIDE DEF key
    <3>2. /\ read \in RunState /\ read.pc = run.pc /\ read.load = run.load
          /\ read.asked = run.asked /\ read.answered = run.answered /\ read.queue = run.queue
      BY <1>1, <1>2, <3>1 DEF RunState
    <3> HIDE DEF read
    <3>3. RunSound(read, head)
      BY <1>1, <3>2 DEF RunSound, Paired
    <3>4. Answered(read)
      BY <2>1, <2>2
    <3>5. Ends
      BY <2>1, <3>2, <3>3, <3>4, AnsweredSound DEF Ends
    <3> QED BY <1>4, <1>14, <3>5 DEF execute_tool
  <2>3. CASE ~NeedsRead(run, key)
    <3>1. Answered(run)
      BY <2>1, <2>3
    <3>2. Ends
      BY <1>1, <2>1, <3>1, AnsweredSound DEF Ends
    <3> QED BY <1>4, <1>14, <3>2 DEF execute_tool
  <2> QED BY <2>2, <2>3
<1>15. Frame /\ Ends
  BY <1>7, <1>8, <1>9, <1>10, <1>11, <1>12, <1>13, <1>14 DEF Run
<1> QED BY <1>3, <1>15

(* ... every step of a submission                                            *)
LEMMA SubmitReads ==
    ASSUME ReadingInv, Submit, sub.pc = "idle" \/ sub.todo # <<>>
    PROVE  ReadingInv'
<1>1. /\ sub \in Submission /\ sub.pc \in SubPC /\ sub.pages \in Seq(Commit) /\ sub.todo \in Seq(Finding)
      /\ sub.published \in Nat /\ head \in Commit /\ posted \in Seq(Comment) /\ HostTypes /\ ShownSound
  BY DEF ReadingInv, HostTypes, Submission
<1> DEFINE Frame == UNCHANGED <<platform, head, load, registered, run, pushes, dialogs, submits>> /\ lost' \in Nat
           Kept == sub' \in Submission /\ posted' \in Seq(Comment) /\ ShownSound'
<1>2. Frame /\ Kept => ReadingInv'
  BY <1>1 DEF ReadingInv, HostTypes, PreflightSound, RunningSound
<1>3. UNCHANGED bounds => lost' \in Nat /\ UNCHANGED <<pushes, lost, dialogs, submits>>
  BY <1>1 DEF bounds, HostTypes
<1>4. Lose => lost' \in Nat
  BY <1>1 DEF Lose, HostTypes
<1>5. lost \in Nat
  BY <1>1 DEF HostTypes
<1>6. ASSUME NEW s \in Submission, SubmitGoesOn(s) PROVE sub' \in Submission /\ ShownSound'
  BY <1>1, <1>6 DEF SubmitGoesOn, ShownSound
<1>7. ASSUME NEW kind \in ReportKind, SubmitOver(Told(kind)) PROVE sub' \in Submission /\ ShownSound'
  BY <1>7, ToldIsReport, SubmitOverSound
<1>8. {"published", "PrUpdated", "error"} \subseteq ReportKind
  BY DEF ReportKind
<1>9. /\ \A pc \in {"head", "again", "diffs", "last"} : NextCheck(pc) \in SubPC \ {"idle", "head"}
      /\ \A x \in SubPC : [sub EXCEPT !.pc = x] \in Submission
  <2>1. \A pc \in {"head", "again", "diffs", "last"} : NextCheck(pc) \in SubPC \ {"idle", "head"}
    BY DEF NextCheck, SubPC
  <2> QED BY <1>1, <2>1 DEF Submission
<1>10. /\ \A s \in Seq(Finding) : Comments(s) \in Seq(Comment)
       /\ \A s \in Seq(Finding) : posted \o Comments(s) \in Seq(Comment)
  <2>1. \A s \in Seq(Finding) : Comments(s) \in Seq(Comment)
    BY <1>1, CommentsOf
  <2> QED BY <1>1, <2>1, ConcatProperties
<1>11. ASSUME SubmitHead PROVE Frame /\ Kept
  <2>1. UNCHANGED <<platform, head, load, registered, run, bounds, posted>>
    BY <1>11 DEF SubmitHead
  <2>2. CASE CheckHead(sub.head)
    <3>1. SubmitGoesOn([sub EXCEPT !.pc = NextCheck(sub.pc)])
      BY <1>11, <2>2 DEF SubmitHead
    <3>2. [sub EXCEPT !.pc = NextCheck(sub.pc)] \in Submission
      BY <1>9, <1>11 DEF SubmitHead
    <3>3. sub' \in Submission /\ ShownSound'
      BY <1>6, <3>1, <3>2
    <3> QED BY <1>1, <1>3, <2>1, <3>3
  <2>3. CASE ~CheckHead(sub.head)
    <3>1. sub' \in Submission /\ ShownSound'
      BY <1>7, <1>8, <1>11, <2>3 DEF SubmitHead
    <3> QED BY <1>1, <1>3, <2>1, <3>1
  <2> QED BY <2>2, <2>3
<1>12. ASSUME SubmitDiffs PROVE Frame /\ Kept
  <2> DEFINE pages == Append(sub.pages, head)
             pc == IF Len(pages) = Cardinality(Page) THEN NextCheck(sub.pc) ELSE sub.pc
             s == [sub EXCEPT !.pages = pages, !.pc = pc]
  <2>1. SubmitGoesOn(s)
    BY <1>12 DEF SubmitDiffs
  <2>2. pages \in Seq(Commit) /\ pc \in SubPC
    BY <1>1, <1>9, <1>12 DEF SubmitDiffs
  <2> HIDE DEF pages, pc
  <2>3. s \in Submission
    BY <1>1, <2>2 DEF Submission
  <2>4. sub' \in Submission /\ ShownSound'
    BY <1>6, <2>1, <2>3
  <2> QED BY <1>1, <1>3, <1>12, <2>4 DEF SubmitDiffs
<1>13. ASSUME SubmitReadFails PROVE Frame /\ Kept
  <2>1. sub' \in Submission /\ ShownSound'
    BY <1>7, <1>8, <1>13 DEF SubmitReadFails
  <2> QED BY <1>1, <1>4, <1>13, <2>1 DEF SubmitReadFails
<1>14. ASSUME PostReview PROVE Frame /\ Kept
  <2>1. posted' \in {posted, posted \o Comments(sub.todo)} /\ lost' \in Nat
    BY <1>4, <1>5, <1>14 DEF PostReview
  <2>2. posted' \in Seq(Comment)
    BY <1>1, <1>10, <2>1
  <2>3. sub' \in Submission /\ ShownSound'
    BY <1>7, <1>8, <1>14 DEF PostReview
  <2> QED BY <1>14, <2>1, <2>2, <2>3 DEF PostReview
<1>15. ASSUME PostDiscussion PROVE Frame /\ Kept
  <2> DEFINE one == Comments(SubSeq(sub.todo, 1, 1))
             todo == Tail(sub.todo)
             published == sub.published + 1
             rest == [sub EXCEPT !.todo = todo, !.published = published]
  <2>1. /\ posted' \in {posted, posted \o one} /\ lost' \in Nat
        /\ \/ SubmitOver(Told("published")) \/ SubmitGoesOn(rest)
           \/ SubmitOver(Partial) \/ SubmitOver(Told("error"))
    BY <1>4, <1>5, <1>15 DEF PostDiscussion
  <2>2. SubSeq(sub.todo, 1, 1) \in Seq(Finding) /\ todo \in Seq(Finding) /\ published \in Nat
    <3>1. sub.todo # <<>>
      BY <1>15 DEF PostDiscussion
    <3> QED BY <1>1, <3>1, HeadTailProperties
  <2>3. posted' \in Seq(Comment)
    BY <1>1, <1>10, <2>1, <2>2
  <2> HIDE DEF todo, published
  <2>4. rest \in Submission
    BY <1>1, <2>2 DEF Submission
  <2> HIDE DEF rest
  <2>5. Partial \in Report
    BY <1>1, ToldIsReport DEF Partial, Report, ReportKind
  <2>6. SubmitOver(Partial) => sub' \in Submission /\ ShownSound'
    BY <2>5, SubmitOverSound
  <2>7. sub' \in Submission /\ ShownSound'
    BY <1>6, <1>7, <1>8, <2>1, <2>4, <2>6
  <2> QED BY <1>15, <2>1, <2>3, <2>7 DEF PostDiscussion
<1> QED BY <1>2, <1>11, <1>12, <1>13, <1>14, <1>15 DEF Submit

(* ... and a push.                                                           *)
LEMMA PushReads ==
    ASSUME ReadingInv, Push
    PROVE  ReadingInv'
<1>1. PICK h \in Commit \ {head} :
         /\ head' = h /\ load' = Moved(load, h) /\ run' = [run EXCEPT !.load = Moved(run.load, h)]
         /\ sub' = IF sub.pc # "idle" /\ h = sub.head THEN [sub EXCEPT !.seen = TRUE] ELSE sub
  BY DEF Push
<1>2. PreflightSound'
  BY <1>1, PushSeen DEF ReadingInv, PreflightSound
<1>3. RunningSound'
  <2> DEFINE l == Moved(run.load, h)
             r == [run EXCEPT !.load = l]
  <2>1. run \in RunState /\ RunSound(run, head) /\ run.load \in Load
    BY DEF ReadingInv, RunningSound, RunState
  <2>2. l \in Load /\ LoadSound(l, h) /\ l.pc = run.load.pc
    BY <1>1, <2>1, PushSeen DEF RunSound
  <2> HIDE DEF l
  <2>3. /\ r \in RunState /\ r.pc = run.pc /\ r.load = l
        /\ r.asked = run.asked /\ r.answered = run.answered /\ r.queue = run.queue
    BY <2>1, <2>2 DEF RunState
  <2>4. run' = r /\ head' = h
    BY <1>1 DEF l
  <2> HIDE DEF r
  <2>5. RunSound(r, h)
    BY <2>1, <2>2, <2>3 DEF RunSound, Paired
  <2> QED BY <2>3, <2>4, <2>5 DEF RunningSound
<1>4. HostTypes'
  <2>1. sub' \in Submission
    BY <1>1 DEF ReadingInv, HostTypes, Submission
  <2>2. pushes' \in Nat
    BY DEF ReadingInv, HostTypes, Push
  <2> QED BY <1>1, <2>1, <2>2 DEF ReadingInv, HostTypes, Push
<1>5. ShownSound'
  BY DEF Push, ReadingInv, ShownSound
<1> QED BY <1>2, <1>3, <1>4, <1>5 DEF ReadingInv

(* At the start nothing is read, kept or published.                          *)
LEMMA ReadingStarts == Init => ReadingInv
<1> SUFFICES ASSUME Init PROVE ReadingInv
  OBVIOUS
<1>1. head \in Commit /\ platform \in {"github", "gitlab"} /\ 1 \in Nat
  BY ReviewAssumption DEF Init
<1>2. HostTypes
  <2>1. <<>> \in Seq(Comment)
    OBVIOUS
  <2> QED BY <1>1, <2>1, IdleSubSound DEF Init, HostTypes
<1>3. PreflightSound /\ RunningSound
  BY IdleLoadSound, IdleRunSound DEF Init, PreflightSound, RunningSound
<1>4. ui \in Ui /\ ui.result = Nothing
  <2>1. "preflight" \in Phase /\ Told("none") \in Report
    BY ToldIsReport DEF Phase, ReportKind
  <2> QED BY <2>1, NothingSound DEF Init, Ui
<1>5. ShownSound
  BY <1>4, NothingSound DEF Init, ShownSound
<1> QED BY <1>2, <1>3, <1>5 DEF ReadingInv

(* A step of something else leaves it.                                       *)
LEMMA ReadingStays == ReadingInv /\ UNCHANGED vars => ReadingInv'
BY DEF vars, ReadingInv, HostTypes, PreflightSound, RunningSound, ShownSound

-----------------------------------------------------------------------------
(* The publication *)

(* Steps that leave the submission and the host, and tell the dialog nothing *)
(* or no more than before, keep what is known of the publication.            *)
LEMMA PublicationLeft ==
    ASSUME ReadingInv, HeadSeen, SubSound, ReportsAreTrue, UNCHANGED <<platform, head, posted, sub, submits>>,
           ui'.report \in {ui.report, Told("none")}, ui'.selected = ui.selected
    PROVE  HeadSeen' /\ SubSound' /\ ReportsAreTrue'
<1>1. /\ PostedBy(submits)' = PostedBy(submits) /\ (PostedOnce(submits)' <=> PostedOnce(submits))
      /\ PublishedBy(submits)' = PublishedBy(submits)
  BY DEF PostedBy, PostedOnce, PublishedBy
<1>2. HeadSeen'
  BY DEF HeadSeen
<1>3. Told("none").kind = "none"
  BY DEF Told
<1>4. SubSound'
  BY <1>1, <1>3 DEF SubSound
<1>5. ReportsAreTrue'
  BY <1>1, <1>3 DEF ReportsAreTrue
<1> QED BY <1>2, <1>4, <1>5

(* A new submission has nothing on the host yet, and knows whether its       *)
(* commit is the head.                                                       *)
LEMMA DialogPublishes ==
    ASSUME ReadingInv, HeadSeen, SubSound, ReportsAreTrue, Dialog
    PROVE  HeadSeen' /\ SubSound' /\ ReportsAreTrue'
<1>1. ui \in Ui /\ ResultSound(ui.result) /\ ui.result \in Result /\ HostTypes
  BY DEF ReadingInv, ShownSound, Ui
<1>2. CASE ~submitReview
  <2>1. UNCHANGED <<platform, head, posted, sub, submits>>
    BY <1>2 DEF Dialog, PreflightHead, PreflightPage, PreflightDone, Close, reviewAgain, cancelReview,
                startReview, bounds
  <2>2. ui'.report \in {ui.report, Told("none")} /\ ui'.selected = ui.selected
    <3>1. CASE PreflightDone
      <4> DEFINE phase == IF cached.head = load.head THEN "results" ELSE "select"
                 result == IF cached.head = load.head THEN cached ELSE Nothing
      <4>1. ui' \in {ui, [ui EXCEPT !.head = load.head, !.phase = phase, !.result = result]}
        BY <3>1 DEF PreflightDone
      <4> HIDE DEF phase, result
      <4> QED BY <1>1, <4>1 DEF Ui
    <3>2. CASE Close
      BY <3>2 DEF Close
    <3>3. CASE reviewAgain \/ startReview
      BY <1>1, <3>3 DEF reviewAgain, startReview, Ui
    <3>4. CASE PreflightHead \/ PreflightPage \/ cancelReview
      BY <3>4 DEF PreflightHead, PreflightPage, cancelReview
    <3> QED BY <1>2, <3>1, <3>2, <3>3, <3>4 DEF Dialog
  <2> QED BY <2>1, <2>2, PublicationLeft
<1>3. CASE submitReview
  <2>1. PICK findings \in SUBSET ui.result.findings :
          /\ findings # {}
          /\ sub' = [IdleSub EXCEPT !.pc = "head", !.head = ui.result.head, !.todo = SetToSeq(findings),
                                    !.seen = CheckHead(ui.result.head), !.dialog = ui.dialog]
          /\ ui' = [ui EXCEPT !.submitting = TRUE, !.report = Told("none"), !.selected = findings]
    BY <1>3 DEF submitReview
  <2> DEFINE t == SetToSeq(findings)
             seen == CheckHead(ui.result.head)
  <2>2. t # <<>> /\ IsInjective(t) /\ Range(t) = findings
    <3>1. IsFiniteSet(findings)
      BY <1>1, FS_Subset DEF ResultSound
    <3> QED BY <2>1, <3>1, FindingsInOrder
  <2>3. seen \in BOOLEAN /\ (seen <=> head = ui.result.head)
    BY DEF CheckHead
  <2> HIDE DEF t
  <2>4. /\ sub'.pc = "head" /\ sub'.head = ui.result.head /\ sub'.todo = t /\ sub'.seen = seen
        /\ sub'.published = 0
    BY <2>1, IdleSubSound DEF IdleSub, t
  <2> HIDE DEF seen
  <2>5. /\ ui'.report = Told("none") /\ ui'.selected = findings /\ submits' = submits + 1
        /\ UNCHANGED <<platform, head, posted>>
    BY <1>1, <1>3, <2>1 DEF submitReview, Ui
  <2>6. submits \in Nat /\ posted \in Seq(Comment)
    BY <1>1 DEF HostTypes
  <2>7. \A i \in DOMAIN posted : posted[i].submit \in Nat
    <3>1. \A i \in DOMAIN posted : posted[i] \in Comment
      BY <2>6, LenProperties
    <3> QED BY <3>1 DEF Comment
  <2>8. PostedBy(submits)' = {}
    BY <2>5, <2>6, <2>7 DEF SubSound, PostedBy
  <2>9. Cardinality(PostedBy(submits)') = 0 /\ PostedOnce(submits)' /\ PublishedBy(submits)' = {}
    BY <2>8, FS_EmptySet DEF PostedOnce, PublishedBy
  <2>10. Told("none").kind = "none"
    BY DEF Told
  <2>11. HeadSeen'
    BY <2>3, <2>4, <2>5 DEF HeadSeen
  <2>12. \A i \in DOMAIN posted' : posted'[i].submit <= submits'
    BY <2>5, <2>6, <2>7 DEF SubSound
  <2>13. SubSound'
    BY <2>2, <2>4, <2>5, <2>8, <2>9, <2>10, <2>12 DEF SubSound
  <2>14. ReportsAreTrue'
    BY <2>5, <2>10 DEF ReportsAreTrue
  <2> QED BY <2>11, <2>13, <2>14
<1> QED BY <1>2, <1>3

(* A run publishes nothing.                                                  *)
LEMMA RunPublishes ==
    ASSUME ReadingInv, HeadSeen, SubSound, ReportsAreTrue, Run
    PROVE  HeadSeen' /\ SubSound' /\ ReportsAreTrue'
BY RunReads, PublicationLeft

(* A push onto the commit of a submission is seen by it.                     *)
LEMMA PushPublishes ==
    ASSUME ReadingInv, HeadSeen, SubSound, ReportsAreTrue, Push
    PROVE  HeadSeen' /\ SubSound' /\ ReportsAreTrue'
<1>1. PICK h \in Commit \ {head} :
         /\ head' = h /\ UNCHANGED <<platform, posted, ui, submits>>
         /\ sub' = IF sub.pc # "idle" /\ h = sub.head THEN [sub EXCEPT !.seen = TRUE] ELSE sub
  BY DEF Push
<1>2. sub \in Submission
  BY DEF ReadingInv, HostTypes
<1>3. /\ sub'.pc = sub.pc /\ sub'.todo = sub.todo /\ sub'.published = sub.published /\ sub'.head = sub.head
      /\ sub'.seen \in {sub.seen, TRUE}
      /\ sub.pc # "idle" /\ h = sub.head => sub'.seen = TRUE
  BY <1>1, <1>2 DEF Submission
<1>4. /\ PostedBy(submits)' = PostedBy(submits) /\ (PostedOnce(submits)' <=> PostedOnce(submits))
      /\ PublishedBy(submits)' = PublishedBy(submits)
  BY <1>1 DEF PostedBy, PostedOnce, PublishedBy
<1>5. HeadSeen'
  BY <1>1, <1>3 DEF HeadSeen
<1>6. SubSound'
  BY <1>1, <1>3, <1>4 DEF SubSound
<1>7. ReportsAreTrue'
  BY <1>1, <1>4 DEF ReportsAreTrue
<1> QED BY <1>5, <1>6, <1>7

(* The comments of a submission after it put some more on the host.          *)
LEMMA PostedMore ==
    ASSUME HostTypes, SubSound, NEW s \in Seq(Finding), IsInjective(s),
           PostedOnce(submits), \A i \in PostedBy(submits), j \in DOMAIN s : posted[i].finding # s[j],
           posted' = posted \o Comments(s), submits' = submits
    PROVE  /\ PostedBy(submits)' = PostedBy(submits) \cup (Len(posted) + 1 .. Len(posted) + Len(s))
           /\ PostedOnce(submits)'
           /\ \A i \in DOMAIN posted' : posted'[i].submit <= submits'
           /\ \A i \in PostedBy(submits)' :
                \/ i \in PostedBy(submits) /\ posted'[i].finding = posted[i].finding
                \/ \E j \in DOMAIN s : posted'[i].finding = s[j]
           /\ PublishedBy(submits)' = PublishedBy(submits) \cup Range(s)
<1> DEFINE c == Comments(s)
           n == Len(posted)
           m == Len(s)
<1>1. /\ c \in Seq(Comment) /\ Len(c) = m
      /\ \A i \in 1 .. m : c[i].finding = s[i] /\ c[i].submit = submits
      /\ posted \in Seq(Comment) /\ submits \in Nat /\ n \in Nat /\ m \in Nat
      /\ DOMAIN posted = 1 .. n /\ DOMAIN s = 1 .. m
  BY CommentsOf, LenProperties DEF HostTypes
<1> HIDE DEF c, n, m
<1>2. /\ posted' \in Seq(Comment) /\ DOMAIN posted' = 1 .. n + m
      /\ \A i \in 1 .. n + m : posted'[i] = IF i <= n THEN posted[i] ELSE c[i - n]
  <2>1. /\ posted \o c \in Seq(Comment) /\ Len(posted \o c) = n + m
        /\ \A i \in 1 .. n + m : (posted \o c)[i] = IF i <= n THEN posted[i] ELSE c[i - n]
    BY <1>1, ConcatProperties DEF n
  <2> QED BY <2>1, LenProperties DEF c
<1>3. /\ \A i \in 1 .. n : i \in 1 .. n + m /\ posted'[i] = posted[i]
      /\ \A i \in n + 1 .. n + m :
           /\ i \in 1 .. n + m /\ i - n \in 1 .. m
           /\ posted'[i].finding = s[i - n] /\ posted'[i].submit = submits
      /\ \A i \in 1 .. n + m : i \in 1 .. n \/ i \in n + 1 .. n + m
  <2>1. ASSUME NEW i \in n + 1 .. n + m
        PROVE  /\ i \in 1 .. n + m /\ i - n \in 1 .. m
               /\ posted'[i].finding = s[i - n] /\ posted'[i].submit = submits
    <3>1. i \in 1 .. n + m /\ i - n \in 1 .. m /\ ~(i <= n)
      BY <1>1, <2>1
    <3>2. posted'[i] = c[i - n]
      BY <1>2, <3>1
    <3> QED BY <1>1, <3>1, <3>2
  <2>2. /\ \A i \in 1 .. n : i \in 1 .. n + m /\ posted'[i] = posted[i]
        /\ \A i \in 1 .. n + m : i \in 1 .. n \/ i \in n + 1 .. n + m
    BY <1>1, <1>2
  <2> QED BY <2>1, <2>2
<1>4. PostedBy(submits)' = PostedBy(submits) \cup (n + 1 .. n + m)
  <2>1. PostedBy(submits)' = {i \in 1 .. n + m : posted'[i].submit = submits}
    BY <1>2 DEF PostedBy
  <2>2. PostedBy(submits) = {i \in 1 .. n : posted[i].submit = submits}
    BY <1>1 DEF PostedBy
  <2> QED BY <1>3, <2>1, <2>2
<1>5. PostedBy(submits) \subseteq 1 .. n
  BY <1>1 DEF PostedBy
<1>6. PostedOnce(submits)'
  <2> SUFFICES ASSUME NEW i \in PostedBy(submits)', NEW j \in PostedBy(submits)',
                      posted'[i].finding = posted'[j].finding
               PROVE  i = j
    BY DEF PostedOnce
  <2>1. CASE i \in PostedBy(submits) /\ j \in PostedBy(submits)
    BY <1>3, <1>5, <2>1 DEF PostedOnce
  <2>2. CASE i \in n + 1 .. n + m /\ j \in n + 1 .. n + m
    <3>1. i - n \in DOMAIN s /\ j - n \in DOMAIN s /\ s[i - n] = s[j - n]
      BY <1>1, <1>3, <2>2
    <3>2. i - n = j - n
      BY <3>1 DEF IsInjective
    <3> QED BY <1>1, <2>2, <3>2
  <2>3. ASSUME NEW a \in PostedBy(submits), NEW b \in n + 1 .. n + m
        PROVE  posted'[a].finding # posted'[b].finding
    <3>1. posted'[a] = posted[a] /\ b - n \in DOMAIN s /\ posted'[b].finding = s[b - n]
      BY <1>1, <1>3, <1>5
    <3> QED BY <3>1
  <2>4. ~(i \in PostedBy(submits) /\ j \in n + 1 .. n + m) /\ ~(i \in n + 1 .. n + m /\ j \in PostedBy(submits))
    BY <2>3
  <2> QED BY <1>4, <2>1, <2>2, <2>3, <2>4
<1>7. \A i \in DOMAIN posted' : posted'[i].submit <= submits'
  BY <1>1, <1>2, <1>3 DEF SubSound
<1>8. \A i \in PostedBy(submits)' :
        \/ i \in PostedBy(submits) /\ posted'[i].finding = posted[i].finding
        \/ \E j \in DOMAIN s : posted'[i].finding = s[j]
  BY <1>1, <1>3, <1>4, <1>5
<1>9. PublishedBy(submits)' = PublishedBy(submits) \cup Range(s)
  <2>1. PublishedBy(submits)' = {posted'[i].finding : i \in PostedBy(submits)'}
    BY DEF PublishedBy
  <2>2. ASSUME NEW f \in PublishedBy(submits)' PROVE f \in PublishedBy(submits) \cup Range(s)
    <3>1. PICK i \in PostedBy(submits)' : f = posted'[i].finding
      BY <2>1
    <3>2. CASE i \in PostedBy(submits) /\ posted'[i].finding = posted[i].finding
      BY <3>1, <3>2 DEF PublishedBy
    <3>3. CASE \E j \in DOMAIN s : posted'[i].finding = s[j]
      BY <3>1, <3>3 DEF Range
    <3> QED BY <1>8, <3>2, <3>3
  <2>3. ASSUME NEW f \in PublishedBy(submits) PROVE f \in PublishedBy(submits)'
    <3>1. PICK i \in PostedBy(submits) : f = posted[i].finding
      BY DEF PublishedBy
    <3>2. i \in PostedBy(submits)' /\ posted'[i] = posted[i]
      BY <1>3, <1>4, <1>5
    <3> QED BY <2>1, <3>1, <3>2
  <2>4. ASSUME NEW f \in Range(s) PROVE f \in PublishedBy(submits)'
    <3>1. PICK j \in 1 .. m : f = s[j]
      BY <1>1 DEF Range
    <3>2. j + n \in n + 1 .. n + m /\ (j + n) - n = j
      BY <1>1
    <3>3. j + n \in PostedBy(submits)' /\ posted'[j + n].finding = s[j]
      BY <1>3, <1>4, <3>2
    <3> QED BY <2>1, <3>1, <3>3
  <2> QED BY <2>2, <2>3, <2>4
<1> QED BY <1>4, <1>6, <1>7, <1>8, <1>9 DEF n, m

(* The end of a submission: what was on the host stays, and what the user is *)
(* told has to be true of it.                                                *)
LEMMA SubmissionEnds ==
    ASSUME ReadingInv, NEW report \in Report, SubmitOver(report), ui.report.kind = "none",
           \A i \in DOMAIN posted' : posted'[i].submit <= submits',
           report.kind = "published" => PostedOnce(submits)' /\ PublishedBy(submits)' = ui.selected,
           report.kind = "PrUpdated" => PostedBy(submits)' = {},
           report.kind = "partial" => Cardinality(PostedBy(submits)') - report.published \in {0, 1}
    PROVE  HeadSeen' /\ SubSound' /\ ReportsAreTrue'
<1>1. sub'.pc = "idle" /\ ui'.report \in {ui.report, report} /\ ui'.selected = ui.selected
  BY SubmitOverSound
<1>2. HeadSeen' /\ SubSound'
  BY <1>1 DEF HeadSeen, SubSound
<1>3. CASE ui'.report = ui.report
  BY <1>2, <1>3 DEF ReportsAreTrue
<1>4. CASE ui'.report = report
  BY <1>1, <1>2, <1>4 DEF ReportsAreTrue
<1> QED BY <1>1, <1>2, <1>3, <1>4

(* A submission compares its commit with the head before it publishes; on    *)
(* GitHub its comments come all at once, on GitLab one after the other.      *)
LEMMA SubmitPublishes ==
    ASSUME ReadingInv, HeadSeen, SubSound, ReportsAreTrue, Submit
    PROVE  HeadSeen' /\ SubSound' /\ ReportsAreTrue' /\ (posted' # posted => sub.seen)
<1>1. /\ sub \in Submission /\ sub.pc \in SubPC /\ sub.pages \in Seq(Commit) /\ sub.todo \in Seq(Finding)
      /\ sub.published \in Nat /\ head \in Commit /\ posted \in Seq(Comment) /\ HostTypes /\ submits \in Nat
      /\ platform \in {"github", "gitlab"}
  BY DEF ReadingInv, HostTypes, Submission
<1>2. /\ sub.pc # "idle" /\ sub.todo # <<>> /\ IsInjective(sub.todo) /\ ui.report.kind = "none"
      /\ PostedOnce(submits)
      /\ ui.selected = PublishedBy(submits) \cup Range(sub.todo)
      /\ \A i \in PostedBy(submits), j \in DOMAIN sub.todo : posted[i].finding # sub.todo[j]
      /\ Cardinality(PostedBy(submits)) = sub.published
      /\ sub.pc # "post" \/ platform = "github" => PostedBy(submits) = {}
      /\ \A i \in DOMAIN posted : posted[i].submit <= submits
  BY DEF Submit, SubmitHead, SubmitDiffs, SubmitReadFails, PostReview, PostDiscussion, SubSound
<1>3. UNCHANGED <<posted, submits>> =>
        /\ PostedBy(submits)' = PostedBy(submits) /\ (PostedOnce(submits)' <=> PostedOnce(submits))
        /\ PublishedBy(submits)' = PublishedBy(submits)
        /\ \A i \in DOMAIN posted' : posted'[i].submit <= submits'
  BY <1>2 DEF PostedBy, PostedOnce, PublishedBy
<1>4. ASSUME NEW s, SubmitGoesOn(s) PROVE sub' = s /\ ui' = ui
  BY <1>4 DEF SubmitGoesOn
<1>5. ASSUME NEW s, SubmitGoesOn(s), UNCHANGED <<platform, head, posted, submits>>,
             s.pc \in SubPC \ {"idle", "head"}, sub.seen, s.todo = sub.todo, s.published = sub.published,
             s.seen = sub.seen, sub.pc # "post"
      PROVE  HeadSeen' /\ SubSound' /\ ReportsAreTrue'
  <2>1. sub' = s /\ ui' = ui
    BY <1>4, <1>5
  <2>2. HeadSeen'
    BY <1>5, <2>1 DEF HeadSeen
  <2>3. SubSound'
    BY <1>2, <1>3, <1>5, <2>1 DEF SubSound
  <2>4. ReportsAreTrue'
    BY <1>3, <1>5, <2>1 DEF ReportsAreTrue
  <2> QED BY <2>2, <2>3, <2>4
<1>6. /\ \A pc \in {"head", "again", "diffs", "last"} : NextCheck(pc) \in SubPC \ {"idle", "head"}
      /\ \A x \in SubPC : LET s == [sub EXCEPT !.pc = x] IN
           /\ s.pc = x /\ s.todo = sub.todo /\ s.published = sub.published /\ s.seen = sub.seen
  <2>1. \A pc \in {"head", "again", "diffs", "last"} : NextCheck(pc) \in SubPC \ {"idle", "head"}
    BY DEF NextCheck, SubPC
  <2> QED BY <1>1, <2>1 DEF Submission
<1>7. \A kind \in {"published", "PrUpdated", "error"} : Told(kind) \in Report /\ Told(kind).kind = kind
  BY ToldIsReport DEF ReportKind
<1>8. ASSUME SubmitOver(Told("error")), \A i \in DOMAIN posted' : posted'[i].submit <= submits'
      PROVE  HeadSeen' /\ SubSound' /\ ReportsAreTrue'
  BY <1>2, <1>7, <1>8, SubmissionEnds
<1>9. CASE SubmitHead
  <2>1. UNCHANGED <<platform, head, posted, submits>>
    BY <1>9 DEF SubmitHead, bounds
  <2>2. CASE CheckHead(sub.head)
    <3> DEFINE s == [sub EXCEPT !.pc = NextCheck(sub.pc)]
    <3>1. SubmitGoesOn(s)
      BY <1>9, <2>2 DEF SubmitHead
    <3>2. /\ s.pc \in SubPC \ {"idle", "head"} /\ s.todo = sub.todo /\ s.published = sub.published
          /\ s.seen = sub.seen /\ sub.pc # "post"
      BY <1>6, <1>9 DEF SubmitHead
    <3>3. sub.seen
      BY <1>2, <2>2 DEF HeadSeen, CheckHead
    <3> HIDE DEF s
    <3> QED BY <1>5, <2>1, <3>1, <3>2, <3>3
  <2>3. CASE ~CheckHead(sub.head)
    <3>1. SubmitOver(Told("PrUpdated")) /\ sub.pc # "post"
      BY <1>9, <2>3 DEF SubmitHead
    <3>2. PostedBy(submits)' = {}
      BY <1>2, <1>3, <2>1, <3>1
    <3> QED BY <1>2, <1>3, <1>7, <2>1, <3>1, <3>2, SubmissionEnds
  <2> QED BY <2>1, <2>2, <2>3
<1>10. CASE SubmitDiffs
  <2> DEFINE pages == Append(sub.pages, head)
             pc == IF Len(pages) = Cardinality(Page) THEN NextCheck(sub.pc) ELSE sub.pc
             s == [sub EXCEPT !.pages = pages, !.pc = pc]
  <2>1. SubmitGoesOn(s) /\ UNCHANGED <<platform, head, posted, submits>> /\ sub.pc = "diffs"
    BY <1>10 DEF SubmitDiffs, bounds
  <2>2. sub.seen
    BY <2>1 DEF HeadSeen
  <2>3. pc \in SubPC \ {"idle", "head"}
    BY <1>6, <2>1 DEF SubPC
  <2> HIDE DEF pc, pages
  <2>4. s.pc = pc /\ s.todo = sub.todo /\ s.published = sub.published /\ s.seen = sub.seen
    BY <1>1 DEF Submission
  <2> HIDE DEF s
  <2> QED BY <1>5, <2>1, <2>2, <2>3, <2>4
<1>11. CASE SubmitReadFails
  <2>1. SubmitOver(Told("error")) /\ UNCHANGED <<posted, submits>>
    BY <1>11 DEF SubmitReadFails
  <2> QED BY <1>3, <1>8, <2>1
<1>12. ASSUME NEW s \in Seq(Finding), IsInjective(s), \A j \in DOMAIN s : \E k \in DOMAIN sub.todo : s[j] = sub.todo[k],
              posted' = posted \o Comments(s), submits' = submits
       PROVE  /\ PostedBy(submits)' = PostedBy(submits) \cup (Len(posted) + 1 .. Len(posted) + Len(s))
              /\ PostedOnce(submits)' /\ PublishedBy(submits)' = PublishedBy(submits) \cup Range(s)
              /\ \A i \in DOMAIN posted' : posted'[i].submit <= submits'
              /\ \A i \in PostedBy(submits)' :
                   \/ i \in PostedBy(submits) /\ posted'[i].finding = posted[i].finding
                   \/ \E j \in DOMAIN s : posted'[i].finding = s[j]
  <2>1. \A i \in PostedBy(submits), j \in DOMAIN s : posted[i].finding # s[j]
    BY <1>2, <1>12
  <2> QED BY <1>1, <1>2, <1>12, <2>1, PostedMore
<1>13. CASE PostReview
  <2>1. UNCHANGED <<platform, head, submits>> /\ sub.pc = "post"
    BY <1>13 DEF PostReview
  <2>2. sub.seen
    BY <2>1 DEF HeadSeen
  <2>3. posted' = posted \o Comments(sub.todo) =>
          /\ PostedOnce(submits)' /\ PublishedBy(submits)' = ui.selected
          /\ \A i \in DOMAIN posted' : posted'[i].submit <= submits'
    BY <1>1, <1>2, <1>12, <2>1
  <2>4. CASE posted' = posted \o Comments(sub.todo) /\ SubmitOver(Told("published"))
    BY <1>2, <1>7, <2>2, <2>3, <2>4, SubmissionEnds
  <2>5. CASE posted' \in {posted, posted \o Comments(sub.todo)} /\ SubmitOver(Told("error"))
    BY <1>3, <1>8, <2>1, <2>2, <2>3, <2>5
  <2> QED BY <1>13, <2>4, <2>5 DEF PostReview
<1>14. CASE PostDiscussion
  <2> DEFINE s == SubSeq(sub.todo, 1, 1)
             todo == Tail(sub.todo)
             published == sub.published + 1
             rest == [sub EXCEPT !.todo = todo, !.published = published]
  <2>1. UNCHANGED <<platform, head, submits>> /\ sub.pc = "post" /\ platform = "gitlab"
    BY <1>14 DEF PostDiscussion
  <2>2. sub.seen
    BY <2>1 DEF HeadSeen
  <2>3. /\ Len(sub.todo) \in Nat \ {0} /\ DOMAIN sub.todo = 1 .. Len(sub.todo)
        /\ todo \in Seq(Finding) /\ Len(todo) = Len(sub.todo) - 1 /\ DOMAIN todo = 1 .. Len(sub.todo) - 1
        /\ \A i \in 1 .. Len(sub.todo) - 1 : todo[i] = sub.todo[i + 1]
    BY <1>1, <1>2, HeadTailProperties, EmptySeq, LenProperties
  <2>4. /\ s \in Seq(Finding) /\ Len(s) = 1 /\ DOMAIN s = 1 .. 1 /\ s[1] = sub.todo[1] /\ s # <<>>
        /\ IsInjective(s) /\ \A j \in DOMAIN s : \E k \in DOMAIN sub.todo : s[j] = sub.todo[k]
    <3>1. sub.todo[1] \in Finding
      BY <1>1, <2>3
    <3>2. s \in Seq(Finding) /\ Len(s) = 1 /\ s[1] = sub.todo[1]
      BY <1>1, <2>3, <3>1
    <3> HIDE DEF s
    <3>3. DOMAIN s = 1 .. 1 /\ s # <<>>
      <4>1. DOMAIN s = 1 .. Len(s)
        BY <3>2, LenProperties
      <4>2. Len(<<>>) # 1
        OBVIOUS
      <4> QED BY <3>2, <4>1, <4>2
    <3> QED BY <2>3, <3>2, <3>3 DEF IsInjective
  <2>5. ASSUME posted' = posted \o Comments(s)
        PROVE  /\ PostedOnce(submits)' /\ PublishedBy(submits)' \cup Range(todo) = ui.selected
               /\ \A i \in DOMAIN posted' : posted'[i].submit <= submits'
               /\ Cardinality(PostedBy(submits)') = published
               /\ \A i \in PostedBy(submits)' :
                    \/ i \in PostedBy(submits) /\ posted'[i].finding = posted[i].finding
                    \/ posted'[i].finding = sub.todo[1]
    <3> HIDE DEF s, todo
    <3>1. /\ PostedBy(submits)' = PostedBy(submits) \cup (Len(posted) + 1 .. Len(posted) + Len(s))
          /\ PostedOnce(submits)' /\ PublishedBy(submits)' = PublishedBy(submits) \cup Range(s)
          /\ \A i \in DOMAIN posted' : posted'[i].submit <= submits'
          /\ \A i \in PostedBy(submits)' :
               \/ i \in PostedBy(submits) /\ posted'[i].finding = posted[i].finding
               \/ \E j \in DOMAIN s : posted'[i].finding = s[j]
      BY <1>12, <2>1, <2>4, <2>5
    <3>2. Len(posted) \in Nat /\ DOMAIN posted = 1 .. Len(posted)
      BY <1>1, LenProperties
    <3>3. PostedBy(submits)' = PostedBy(submits) \cup {Len(posted) + 1}
      BY <2>4, <3>1, <3>2
    <3>4. PostedBy(submits) \subseteq 1 .. Len(posted)
      BY <3>2 DEF PostedBy
    <3>5. IsFiniteSet(PostedBy(submits)) /\ Len(posted) + 1 \notin PostedBy(submits)
      <4>1. IsFiniteSet(1 .. Len(posted))
        BY <3>2, FS_Interval
      <4>2. Len(posted) + 1 \notin 1 .. Len(posted)
        BY <3>2
      <4> QED BY <3>4, <4>1, <4>2, FS_Subset
    <3>6. Cardinality(PostedBy(submits)') = Cardinality(PostedBy(submits)) + 1
      BY <3>3, <3>5, FS_AddElement
    <3>7. Range(s) \cup Range(todo) = Range(sub.todo)
      <4>1. Range(s) = {sub.todo[1]} /\ Range(todo) = {todo[i] : i \in 1 .. Len(sub.todo) - 1}
        BY <2>3, <2>4 DEF Range
      <4>2. Range(sub.todo) = {sub.todo[i] : i \in 1 .. Len(sub.todo)}
        BY <2>3 DEF Range
      <4>3. \A i \in 1 .. Len(sub.todo) - 1 : i + 1 \in 1 .. Len(sub.todo) /\ todo[i] = sub.todo[i + 1]
        BY <2>3
      <4>4. \A i \in 1 .. Len(sub.todo) : i = 1 \/ (i - 1 \in 1 .. Len(sub.todo) - 1 /\ todo[i - 1] = sub.todo[i])
        BY <2>3
      <4>5. 1 \in 1 .. Len(sub.todo)
        BY <2>3
      <4> QED BY <4>1, <4>2, <4>3, <4>4, <4>5
    <3> QED BY <1>2, <2>4, <3>1, <3>6, <3>7
  <2>6. CASE /\ posted' = posted \o Comments(s)
             /\ IF todo = <<>> THEN SubmitOver(Told("published")) ELSE SubmitGoesOn(rest)
    <3>1. CASE todo = <<>>
      <4>1. Range(todo) = {}
        BY <3>1 DEF Range
      <4>2. PublishedBy(submits)' = ui.selected
        BY <2>5, <2>6, <4>1
      <4> QED BY <1>2, <1>7, <2>2, <2>5, <2>6, <3>1, <4>2, SubmissionEnds
    <3>2. CASE todo # <<>>
      <4>1. sub' = rest /\ ui' = ui
        BY <1>4, <2>6, <3>2
      <4>2. IsInjective(todo)
        <5>1. \A i \in 1 .. Len(sub.todo) - 1 : i + 1 \in DOMAIN sub.todo
          BY <2>3
        <5> HIDE DEF todo
        <5>2. SUFFICES ASSUME NEW i \in 1 .. Len(sub.todo) - 1, NEW j \in 1 .. Len(sub.todo) - 1, todo[i] = todo[j]
                       PROVE  i = j
          BY <2>3 DEF IsInjective
        <5>3. sub.todo[i + 1] = sub.todo[j + 1] /\ i + 1 \in DOMAIN sub.todo /\ j + 1 \in DOMAIN sub.todo
          BY <2>3, <5>1, <5>2
        <5>4. i + 1 = j + 1
          BY <1>2, <5>3 DEF IsInjective
        <5> QED BY <5>4
      <4>3. \A i \in PostedBy(submits)', j \in DOMAIN todo : posted'[i].finding # todo[j]
        <5> HIDE DEF todo, s
        <5> TAKE i \in PostedBy(submits)', j \in DOMAIN todo
        <5>1. j + 1 \in DOMAIN sub.todo /\ 1 \in DOMAIN sub.todo /\ j + 1 # 1 /\ todo[j] = sub.todo[j + 1]
          BY <2>3
        <5>2. sub.todo[j + 1] # sub.todo[1]
          BY <1>2, <5>1 DEF IsInjective
        <5>3. \/ i \in PostedBy(submits) /\ posted'[i].finding = posted[i].finding
              \/ posted'[i].finding = sub.todo[1]
          BY <2>5, <2>6
        <5> QED BY <1>2, <5>1, <5>2, <5>3
      <4> HIDE DEF todo, published, s
      <4>4. /\ rest.pc = "post" /\ rest.todo = todo /\ rest.published = published /\ rest.seen = sub.seen
            /\ rest.head = sub.head
        BY <1>1, <2>1 DEF Submission
      <4>5. HeadSeen'
        BY <2>1, <2>2, <4>1, <4>4 DEF HeadSeen
      <4>6. SubSound'
        <5>1. \A i \in DOMAIN posted' : posted'[i].submit <= submits'
          BY <2>5, <2>6
        <5>2. PostedOnce(submits)' /\ Cardinality(PostedBy(submits)') = sub'.published
          BY <2>5, <2>6, <4>1, <4>4
        <5>5. ui'.selected = PublishedBy(submits)' \cup Range(sub'.todo)
          BY <2>5, <2>6, <4>1, <4>4
        <5>3. /\ sub'.todo # <<>> /\ IsInjective(sub'.todo) /\ ui'.report.kind = "none"
              /\ sub'.pc = "post" /\ platform' = "gitlab"
          BY <1>2, <2>1, <3>2, <4>1, <4>2, <4>4
        <5>4. \A i \in PostedBy(submits)', j \in DOMAIN sub'.todo : posted'[i].finding # sub'.todo[j]
          BY <4>1, <4>3, <4>4
        <5> QED BY <5>1, <5>2, <5>3, <5>4, <5>5 DEF SubSound
      <4>7. ReportsAreTrue'
        BY <1>2, <4>1 DEF ReportsAreTrue
      <4> QED BY <2>2, <4>5, <4>6, <4>7
    <3> QED BY <3>1, <3>2
  <2>7. CASE posted' \in {posted, posted \o Comments(s)} /\ SubmitOver(Partial)
    <3>1. \A i \in DOMAIN posted' : posted'[i].submit <= submits'
      BY <1>3, <2>1, <2>5, <2>7
    <3>2. Cardinality(PostedBy(submits)') \in {sub.published, sub.published + 1}
      BY <1>2, <1>3, <2>1, <2>5, <2>7
    <3>3. /\ Partial \in Report /\ Partial.kind \in {"partial", "error"}
          /\ Partial.kind = "partial" => Partial.published = sub.published
      BY <1>1, <1>7 DEF Partial, Report, ReportKind
    <3> HIDE DEF s
    <3>4. Cardinality(PostedBy(submits)') - sub.published \in {0, 1}
      BY <1>1, <3>2
    <3> QED BY <1>2, <2>2, <2>7, <3>1, <3>3, <3>4, SubmissionEnds
  <2>8. CASE posted' \in {posted, posted \o Comments(s)} /\ SubmitOver(Told("error"))
    <3>1. \A i \in DOMAIN posted' : posted'[i].submit <= submits'
      BY <1>3, <2>1, <2>5, <2>8
    <3> QED BY <1>8, <2>2, <2>8, <3>1
  <2>9. rest.todo = todo
    BY <1>1 DEF Submission
  <2>10. \/ /\ posted' = posted \o Comments(s)
            /\ IF rest.todo = <<>> THEN SubmitOver(Told("published")) ELSE SubmitGoesOn(rest)
         \/ posted' \in {posted, posted \o Comments(s)} /\ SubmitOver(Partial)
         \/ posted' \in {posted, posted \o Comments(s)} /\ SubmitOver(Told("error"))
    BY <1>14 DEF PostDiscussion
  <2> HIDE DEF s, todo, rest
  <2> QED BY <2>6, <2>7, <2>8, <2>9, <2>10
<1> QED BY <1>9, <1>10, <1>11, <1>13, <1>14 DEF Submit

-----------------------------------------------------------------------------
(* The invariant of the whole specification *)

(* No comments, no submission and no report at the start.                    *)
LEMMA PublicationStarts == Init => HeadSeen /\ SubSound /\ ReportsAreTrue
<1> SUFFICES ASSUME Init PROVE HeadSeen /\ SubSound /\ ReportsAreTrue
  OBVIOUS
<1>1. sub.pc = "idle" /\ ui.report.kind = "none" /\ posted = <<>>
  BY IdleSubSound DEF Init, Told
<1>2. DOMAIN posted = {}
  BY <1>1
<1> QED BY <1>1, <1>2 DEF HeadSeen, SubSound, ReportsAreTrue

(* Every step keeps what is known of the reading and of the publication.     *)
LEMMA ReviewInvariant == Spec => []ReviewInv
<1>1. Init => ReviewInv
  BY ReadingStarts, PublicationStarts DEF ReviewInv
<1>2. ReviewInv /\ [Next]_vars => ReviewInv'
  <2> SUFFICES ASSUME ReviewInv, [Next]_vars PROVE ReviewInv'
    OBVIOUS
  <2> USE DEF ReviewInv
  <2>1. CASE Dialog
    BY <2>1, DialogReads, DialogPublishes
  <2>2. CASE Run
    BY <2>2, RunReads, RunPublishes
  <2>3. CASE Submit
    <3>1. sub.pc = "idle" \/ sub.todo # <<>>
      BY DEF SubSound
    <3> QED BY <2>3, <3>1, SubmitReads, SubmitPublishes
  <2>4. CASE Push
    BY <2>4, PushReads, PushPublishes
  <2>5. CASE UNCHANGED vars
    <3>1. UNCHANGED <<platform, head, posted, sub, submits, ui>>
      BY <2>5 DEF vars
    <3> QED BY <2>5, <3>1, ReadingStays, PublicationLeft
  <2> QED BY <2>1, <2>2, <2>3, <2>4, <2>5 DEF Next
<1> QED BY <1>1, <1>2, PTL DEF Spec

(* Whatever the model asks for in one answer after the other, the transcript *)
(* it is asked with next has an answer to every call, in order, and no id    *)
(* twice.                                                                    *)
THEOREM TranscriptAlwaysPaired == Spec => []TranscriptPaired
<1>1. ReviewInv => TranscriptPaired
  BY DEF ReviewInv, ReadingInv, RunningSound, RunSound, Paired, TranscriptPaired
<1> QED BY <1>1, ReviewInvariant, PTL

(* However the branch moves under the review, a result is about lines of its *)
(* commit, unless the branch left the commit and came back to it while its   *)
(* pages were read.                                                          *)
THEOREM CommentsAlwaysOnReviewedLines == Spec => []CommentsOnReviewedLines
<1>1. ReviewInv => CommentsOnReviewedLines
  BY DEF ReviewInv, ReadingInv, ShownSound, ResultSound, CommentsOnReviewedLines
<1> QED BY <1>1, ReviewInvariant, PTL

(* What the user is told of a publication is true, for any number of         *)
(* findings, lost answers and submissions.                                   *)
THEOREM ReportsAlwaysTrue == Spec => []ReportsAreTrue
<1>1. ReviewInv => ReportsAreTrue
  BY DEF ReviewInv
<1> QED BY <1>1, ReviewInvariant, PTL

(* No comment is posted by a submission during which the reviewed commit was *)
(* never the head, however often the branch is pushed.                       *)
THEOREM StaleNeverPublishes == Spec => StalePublishesNothing
<1>1. ReviewInv /\ [Next]_vars => [posted' # posted => sub.seen]_vars
  <2> SUFFICES ASSUME ReviewInv, Next, posted' # posted PROVE sub.seen
    BY DEF vars
  <2> USE DEF ReviewInv
  <2>1. CASE Dialog
    BY <2>1 DEF Dialog, PreflightHead, PreflightPage, PreflightDone, Close, reviewAgain, cancelReview,
                startReview, submitReview
  <2>2. CASE Run
    BY <2>2, RunReads
  <2>3. CASE Submit
    BY <2>3, SubmitPublishes
  <2>4. CASE Push
    BY <2>4 DEF Push
  <2> QED BY <2>1, <2>2, <2>3, <2>4 DEF Next
<1> QED BY <1>1, ReviewInvariant, PTL DEF Spec, StalePublishesNothing
=============================================================================
