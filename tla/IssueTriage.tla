----------------------------- MODULE IssueTriage -----------------------------
(***************************************************************************)
(* Triage of one GitHub issue and the publication of what the user chose   *)
(* of it: crates/review-agent/src/issue.rs under the commands of           *)
(* app/src-tauri/src/review_commands.rs, driven by the dialog of           *)
(* app/src/components/IssueTriageWorkspace.tsx.                            *)
(*                                                                         *)
(* Every request to GitHub may fail before it has an effect, take effect   *)
(* and lose its answer, or time out and take effect later.  Other people   *)
(* comment on the issue and label it between any two requests.  A comment  *)
(* is its marker: the publish id hidden in our comments, 0 in theirs.      *)
(***************************************************************************)
EXTENDS Integers, Sequences, FiniteSets, SequencesExt, FiniteSetsExt

CONSTANTS Label,          \* labels of the repository
          Unknown,        \* a label the model made up, or deleted meanwhile
          PageSize,       \* MAX_ISSUE_COMMENTS, one page of comments
          StartComments,  \* comments on the issue at the start
          MaxForeign,     \* bound on what others do
          MaxLost,        \* bound on answers lost and requests refused
          MaxPublish      \* bound on publications, retries included

ASSUME TriageAssumption ==
  /\ {PageSize, MaxForeign, MaxLost, MaxPublish, StartComments} \subseteq Nat
  /\ PageSize > 0 /\ IsFiniteSet(Label) /\ Unknown \notin Label

VARIABLES issue,      \* on GitHub: updated_at, labels, comments
          ui,         \* the dialog: phase, snapshot, publish id, selection
          run,        \* the triage command
          pub,        \* the publish command
          late,       \* requests given up that GitHub may still carry out
          foreign, lost, published,   \* bounds
          overtaken   \* history: a request carried out after it was given up

vars == <<issue, ui, run, pub, late, foreign, lost, published, overtaken>>
bounds == <<foreign, lost, published>>

snapshot(i) == [updated_at |-> i.updated_at, comments |-> Len(i.comments)]
NoSnapshot == [updated_at |-> 0, comments |-> 0]

\* updated_at counts seconds: two changes may fall into the same one.
Changed(i) == {[i EXCEPT !.updated_at = t] : t \in {i.updated_at, i.updated_at + 1}}

-----------------------------------------------------------------------------
(* Triage *)

IdleRun == [pc |-> "idle", cancelled |-> FALSE, snapshot |-> NoSnapshot]

startTriage ==
  /\ ui.phase = "select"
  /\ ui' = [ui EXCEPT !.phase = "running"]
  /\ run' = [IdleRun EXCEPT !.pc = "context", !.snapshot = ui.seen]
  /\ UNCHANGED <<issue, pub, late, bounds, overtaken>>

cancelTriage ==
  /\ run.pc # "idle" /\ ~run.cancelled
  /\ run' = [run EXCEPT !.cancelled = TRUE]
  /\ UNCHANGED <<issue, ui, pub, late, bounds, overtaken>>

\* A failed or cancelled analysis leads back to the selection.
TriageEnds == run' = IdleRun /\ ui' = [ui EXCEPT !.phase = "select"]
\* Mutant: a cancelled analysis is not given up.
TriageIgnoresCancel ==
  /\ run.pc # "idle" /\ ~run.cancelled /\ lost < MaxLost
  /\ lost' = lost + 1
  /\ TriageEnds
  /\ UNCHANGED <<issue, pub, late, foreign, published, overtaken>>
TriageFails ==
  /\ run.pc # "idle" /\ (run.cancelled \/ lost < MaxLost)
  /\ lost' = IF run.cancelled THEN lost ELSE lost + 1
  /\ TriageEnds
  /\ UNCHANGED <<issue, pub, late, foreign, published, overtaken>>

\* The context must be the one the user looked at.  A cancellation that
\* arrives with the answer may lose to it and is then seen at the model call.
TriageContext ==
  /\ run.pc = "context"
  /\ IF snapshot(issue) # run.snapshot
     THEN TriageEnds
     ELSE run' = [run EXCEPT !.pc = "model"] /\ UNCHANGED ui
  /\ UNCHANGED <<issue, pub, late, bounds, overtaken>>

\* A new result empties the selection and forgets the publish id.
ShowResult(u, snap) ==
  [u EXCEPT !.phase = "results", !.cached = snap, !.snapshot = snap, !.id = 0,
            !.labels = {}, !.reply = FALSE]

\* What the model proposes is cut down to labels the repository has.
validate_proposal(labels) == labels \cap Label
TriageAnswer ==
  /\ run.pc = "model" /\ ~run.cancelled
  /\ \E labels \in SUBSET (Label \cup {Unknown}) :
       ui' = [ShowResult(ui, run.snapshot) EXCEPT !.proposed = validate_proposal(labels)]
  /\ run' = IdleRun
  /\ UNCHANGED <<issue, pub, late, bounds, overtaken>>

-----------------------------------------------------------------------------
(* The dialog *)

NoPub == [pc |-> "idle", id |-> 0, todo |-> {}, reply |-> FALSE, current |-> {}, actions |-> <<>>,
          count |-> 0, retried |-> FALSE]

analyzeAgain ==
  /\ ui.phase = "results"
  /\ ui' = [ui EXCEPT !.phase = "select", !.cached = NoSnapshot]
  /\ UNCHANGED <<issue, run, pub, late, bounds, overtaken>>

\* Closing the dialog and opening it again reads the issue.  The last result
\* is kept until it is published, and shown again if the issue is the same.
Reopen ==
  /\ ui.phase \notin {"running", "publishing"}
  /\ ui' = LET u == [ui EXCEPT !.seen = snapshot(issue)]
           IN  IF ui.cached = u.seen THEN ShowResult(u, ui.cached)
               ELSE [u EXCEPT !.phase = "select", !.cached = NoSnapshot]
  /\ pub' = NoPub
  /\ UNCHANGED <<issue, run, late, bounds, overtaken>>

back ==
  /\ ui.phase = "confirm"
  /\ ui' = [ui EXCEPT !.phase = "results"]
  /\ UNCHANGED <<issue, run, pub, late, bounds, overtaken>>

reviewPublication ==
  /\ ui.phase = "results"
  /\ \E labels \in SUBSET ui.proposed, reply \in BOOLEAN :
       /\ labels # {} \/ reply
       /\ ui' = [ui EXCEPT !.phase = "confirm", !.labels = labels, !.reply = reply]
  /\ UNCHANGED <<issue, run, pub, late, bounds, overtaken>>

\* From the confirmation, again after an error, or to retry what failed: the
\* same selection under the same publish id.
publishSelection ==
  /\ published < MaxPublish
  /\ ui.phase \in {"confirm", "publish_result"}
  /\ ui.phase = "publish_result" => ui.fresh /\ \E a \in Range(pub.actions) : a.status = "Failed"
  /\ LET id == IF ui.id = 0 THEN published + 1 ELSE ui.id
     IN  /\ ui' = [ui EXCEPT !.phase = "publishing", !.id = id]
         /\ pub' = [NoPub EXCEPT !.pc = "context", !.id = id, !.todo = ui.labels, !.reply = ui.reply]
  /\ published' = published + 1
  /\ UNCHANGED <<issue, run, late, foreign, lost, overtaken>>

-----------------------------------------------------------------------------
(* Publication *)

Refused == ui' = [ui EXCEPT !.phase = "confirm"] /\ pub' = NoPub
Report(p, kind, status) == [p EXCEPT !.actions = Append(@, [kind |-> kind, status |-> status])]
Lose == lost < MaxLost /\ lost' = lost + 1

\* After the labels comes the reply, if there is one.
AfterLabels(p) ==
  IF p.todo # {} THEN [p EXCEPT !.pc = "label"]
  ELSE IF p.reply THEN [p EXCEPT !.pc = "count"] ELSE [p EXCEPT !.pc = "snapshot"]

PublishContext ==
  /\ pub.pc = "context"
  /\ IF snapshot(issue) # ui.snapshot
     THEN Refused
     ELSE pub' = AfterLabels([pub EXCEPT !.current = issue.labels]) /\ UNCHANGED ui
  /\ UNCHANGED <<issue, run, late, bounds, overtaken>>
PublishContextFails ==
  /\ pub.pc = "context" /\ Lose
  /\ Refused
  /\ UNCHANGED <<issue, run, late, foreign, published, overtaken>>

\* A request that changes the issue.  Its answer arrives, or it does not:
\* the request was carried out all the same, was not, or will be later.
Post(changed, ok, failed, delayed) ==
  \/ /\ issue' \in Changed(changed)
     /\ \/ pub' = ok /\ UNCHANGED lost
        \/ pub' = failed /\ Lose
     /\ UNCHANGED late
  \/ /\ pub' = failed /\ Lose
     /\ late' \in {late, late \cup delayed}
     /\ UNCHANGED issue

\* Labels in their sorted order.  One the issue already had is skipped.
NextLabel(p) == CHOOSE l \in p.todo : TRUE
LabelDone(p, status) == AfterLabels(Report([p EXCEPT !.todo = @ \ {NextLabel(p)}], "label", status))
AddLabel ==
  /\ pub.pc = "label"
  /\ LET l == NextLabel(pub) IN
     IF l \in pub.current
     THEN pub' = LabelDone(pub, "AlreadyApplied") /\ UNCHANGED <<issue, late, lost>>
     ELSE Post([issue EXCEPT !.labels = @ \cup {l}],
               LabelDone([pub EXCEPT !.current = @ \cup {l}], "Applied"),
               [pub EXCEPT !.pc = "recover"], {})
  /\ UNCHANGED <<ui, run, foreign, published, overtaken>>

\* After a failure the issue is read again: the label may be there.
RecoverLabel ==
  /\ pub.pc = "recover"
  /\ \/ /\ pub' = LabelDone(pub, IF NextLabel(pub) \in issue.labels THEN "AlreadyApplied" ELSE "Failed")
        /\ UNCHANGED lost
     \/ pub' = LabelDone(pub, "Failed") /\ Lose
  /\ UNCHANGED <<issue, ui, run, late, foreign, published, overtaken>>

CommentDone(p, status) == [Report(p, "comment", status) EXCEPT !.pc = "snapshot"]

\* The marker is looked for on the last page only: one request reads how
\* many comments there are, the next that page.  A look after a failed post
\* counts a failure of its own as "not there".
\* Mutant: the first page is read.
FirstPage(comments, count) == SubSeq(comments, 1, Min({PageSize, Len(comments)}))
LastPage(comments, count) ==
  LET first == ((count - 1) \div PageSize) * PageSize + 1
  IN  SubSeq(comments, first, Min({first + PageSize - 1, Len(comments)}))
\* Mutant: a post without an answer is taken to have worked.
FoundWhenRetried(p, there) ==
  IF there \/ p.retried THEN CommentDone(p, "AlreadyApplied") ELSE [p EXCEPT !.pc = "post"]
Found(p, there) ==
  IF there THEN CommentDone(p, "AlreadyApplied")
  ELSE IF p.retried THEN CommentDone(p, "Failed") ELSE [p EXCEPT !.pc = "post"]
CountComments ==
  /\ pub.pc = "count"
  /\ \/ /\ pub' = IF issue.comments = <<>> THEN Found(pub, FALSE)
                  ELSE [pub EXCEPT !.pc = "page", !.count = Len(issue.comments)]
        /\ UNCHANGED lost
     \/ pub' = CommentDone(pub, "Failed") /\ Lose
  /\ UNCHANGED <<issue, ui, run, late, foreign, published, overtaken>>
comment_marker_exists ==
  /\ pub.pc = "page"
  /\ LET page == LastPage(issue.comments, pub.count)
     IN  \/ pub' = Found(pub, pub.id \in Range(page)) /\ UNCHANGED lost
         \/ pub' = CommentDone(pub, "Failed") /\ Lose
  /\ UNCHANGED <<issue, ui, run, late, foreign, published, overtaken>>

PostComment ==
  /\ pub.pc = "post"
  /\ Post([issue EXCEPT !.comments = Append(@, pub.id)],
          CommentDone(pub, "Applied"),
          [pub EXCEPT !.pc = "count", !.retried = TRUE], {pub.id})
  /\ UNCHANGED <<ui, run, foreign, published, overtaken>>

\* The result carries a fresh snapshot when there is one; a retry needs it.
PublishResult ==
  /\ pub.pc = "snapshot"
  /\ \/ /\ ui' = [ui EXCEPT !.phase = "publish_result", !.cached = NoSnapshot,
                        !.snapshot = snapshot(issue), !.fresh = TRUE]
        /\ UNCHANGED lost
     \/ ui' = [ui EXCEPT !.phase = "publish_result", !.cached = NoSnapshot, !.fresh = FALSE] /\ Lose
  /\ pub' = [pub EXCEPT !.pc = "idle"]
  /\ UNCHANGED <<issue, run, late, foreign, published, overtaken>>

-----------------------------------------------------------------------------
(* Others, and GitHub *)

OthersComment ==
  /\ foreign < MaxForeign
  /\ issue' \in Changed([issue EXCEPT !.comments = Append(@, 0)])
  /\ foreign' = foreign + 1
  /\ UNCHANGED <<ui, run, pub, late, lost, published, overtaken>>
OthersLabel ==
  /\ foreign < MaxForeign
  /\ \E l \in Label : \/ issue' \in Changed([issue EXCEPT !.labels = @ \cup {l}])
                      \/ issue' \in Changed([issue EXCEPT !.labels = @ \ {l}])
  /\ foreign' = foreign + 1
  /\ UNCHANGED <<ui, run, pub, late, lost, published, overtaken>>
LateDelivery ==
  /\ \E id \in late :
       /\ issue' \in Changed([issue EXCEPT !.comments = Append(@, id)])
       /\ late' = late \ {id}
  /\ overtaken' = TRUE
  /\ UNCHANGED <<ui, run, pub, bounds>>

-----------------------------------------------------------------------------
Init ==
  /\ \E labels \in SUBSET Label :
       issue = [updated_at |-> 1, labels |-> labels, comments |-> [i \in 1 .. StartComments |-> 0]]
  /\ ui = [phase |-> "select", seen |-> snapshot(issue), snapshot |-> NoSnapshot, cached |-> NoSnapshot, id |-> 0,
           proposed |-> {}, labels |-> {}, reply |-> FALSE, fresh |-> FALSE]
  /\ run = IdleRun /\ pub = NoPub
  /\ late = {} /\ foreign = 0 /\ lost = 0 /\ published = 0
  /\ overtaken = FALSE

Triage == startTriage \/ cancelTriage \/ TriageFails \/ TriageContext \/ TriageAnswer
Dialog == analyzeAgain \/ Reopen \/ back \/ reviewPublication \/ publishSelection
Publish ==
  \/ PublishContext \/ PublishContextFails \/ AddLabel \/ RecoverLabel
  \/ CountComments \/ comment_marker_exists \/ PostComment \/ PublishResult
Others == OthersComment \/ OthersLabel \/ LateDelivery
Next == Triage \/ Dialog \/ Publish \/ Others

\* Every request to GitHub has a connect and a request timeout.
\* A cancelled analysis polls its flag every ten milliseconds.
Spec ==
  /\ Init /\ [][Next]_vars
  /\ WF_vars(Publish) /\ WF_vars(run.cancelled /\ TriageFails)

-----------------------------------------------------------------------------
(* Properties *)

Snapshots == [updated_at : Nat, comments : Nat]
\* A comment reported as applied, now or by an earlier attempt, is on the
\* issue; every selected action is reported once (issue.rs, publish).
ReportsAreTrue ==
  /\ \A i \in DOMAIN pub.actions :
       pub.actions[i].kind = "comment" /\ pub.actions[i].status # "Failed" =>
         pub.id \in Range(issue.comments)
  /\ ui.phase = "publish_result" =>
       Len(pub.actions) = Cardinality(ui.labels) + (IF ui.reply THEN 1 ELSE 0)

\* The marker is on the issue, but not on the page a look would read.
OffLastPage(id) ==
  \A i \in DOMAIN issue.comments :
    issue.comments[i] = id => i <= ((Len(issue.comments) - 1) \div PageSize) * PageSize
\* A publication never comments twice, however often it is retried and
\* whatever answers are lost, except when others have filled the page with
\* the marker, or GitHub carries out a request that was given up.
CommentsOnce ==
  [][ PostComment /\ issue' # issue /\ pub.id \in Range(issue.comments) => overtaken \/ OffLastPage(pub.id) ]_vars

\* A publication ends, and so does a cancelled analysis: the dialog never
\* stays at "publishing" or, once the user has cancelled, at "running".
CommandsEnd ==
  /\ ui.phase = "publishing" ~> ui.phase # "publishing"
  /\ run.cancelled ~> ui.phase # "running"
=============================================================================
