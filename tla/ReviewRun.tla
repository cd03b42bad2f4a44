------------------------------ MODULE ReviewRun ------------------------------
(***************************************************************************)
(* Review of one pull or merge request and the publication of its          *)
(* findings: crates/review-agent/src/orchestrator.rs over github.rs and    *)
(* gitlab.rs, the commands of app/src-tauri/src/review_commands.rs, driven *)
(* by app/src/components/PrReviewWorkspace.tsx.                            *)
(*                                                                         *)
(* The author of the request pushes, and forces back, while requests are   *)
(* under way.  A head is a number; the request's diff has pages, and what a *)
(* page shows is the head it was read at.  A finding is a page and the     *)
(* head whose lines it is about.  A model call is its outcome: ModelStream *)
(* shows that it has one.                                                  *)
(***************************************************************************)
EXTENDS Integers, Sequences, FiniteSets, SequencesExt

CONSTANTS Platform,          \* "github", "gitlab"
          Page,              \* 1 .. n, the pages of the diff
          Commit,            \* heads the branch may have
          Key,               \* repository reads: tool and arguments
          MAX_MODEL_ROUNDS, MAX_TOOL_CALLS,
          MaxCalls, MaxPush, MaxLost, MaxDialogs, MaxSubmits    \* bounds

ASSUME ReviewAssumption ==
  /\ Platform \subseteq {"github", "gitlab"}
  /\ {MAX_MODEL_ROUNDS, MAX_TOOL_CALLS, MaxCalls, MaxPush, MaxLost, MaxDialogs, MaxSubmits} \subseteq Nat
  /\ IsFiniteSet(Page) /\ Page # {} /\ Page = 1 .. Cardinality(Page)
  /\ 1 \in Commit /\ Commit \subseteq Nat

Finding == Page \X Commit
UnknownTool == "unknown"

VARIABLES platform,
          head,        \* of the request, on the host
          posted,      \* comments on the host: finding, commit, submit
          ui,          \* the dialog, and what was selected when it last submitted
          cached,      \* the last result, kept by the frontend
          load,        \* the preflight of this dialog
          registered,  \* the registry holds a run for this request
          run,         \* the review command
          sub,         \* the submit command
          pushes, lost, dialogs, submits

vars == <<platform, head, posted, ui, cached, load, registered, run, sub, pushes, lost, dialogs, submits>>
bounds == <<pushes, lost, dialogs, submits>>

Nothing == [head |-> 0, findings |-> {}, mixed |-> FALSE]
Told(kind) == [kind |-> kind, published |-> 0]
Lose == lost < MaxLost /\ lost' = lost + 1
CheckHead(h) == head = h

-----------------------------------------------------------------------------
(* Reading the diff at a head: pull_files_at_head *)

IdleLoad == [pc |-> "idle", head |-> 0, pages |-> <<>>, moved |-> FALSE]
Loading(h) == [IdleLoad EXCEPT !.pc = "pages", !.head = h]
ReadPage(l) ==
  [l EXCEPT !.pages = Append(@, head), !.pc = IF Len(l.pages) + 1 = Cardinality(Page) THEN "check" ELSE @]
\* History: the head was away from the one that is read, and may come back.
Moved(l, h) == IF l.pc \in {"pages", "check"} /\ h # l.head THEN [l EXCEPT !.moved = TRUE] ELSE l

-----------------------------------------------------------------------------
(* The dialog *)

IdleRun == [pc |-> "idle", load |-> IdleLoad, dialog |-> 0, cancelled |-> FALSE, round |-> 0, tool_calls |-> 0,
            tool_cache |-> {}, asked |-> <<>>, answered |-> <<>>, queue |-> <<>>]
IdleSub == [pc |-> "idle", head |-> 0, todo |-> <<>>, pages |-> <<>>, published |-> 0, seen |-> FALSE, dialog |-> 0]

\* loadPreflight reads the head and the files at it.
PreflightHead ==
  /\ ui.phase = "preflight" /\ load.pc = "idle"
  /\ load' = Loading(head)
  /\ UNCHANGED <<platform, head, posted, ui, cached, registered, run, sub, bounds>>
PreflightPage ==
  /\ load.pc = "pages"
  /\ load' = ReadPage(load)
  /\ UNCHANGED <<platform, head, posted, ui, cached, registered, run, sub, bounds>>
\* A result kept for this head is shown again.
PreflightDone ==
  /\ load.pc = "check"
  /\ load' = IdleLoad
  /\ IF ~CheckHead(load.head) THEN UNCHANGED ui
     ELSE ui' = [ui EXCEPT !.head = load.head,
                           !.phase = IF cached.head = load.head THEN "results" ELSE "select",
                           !.result = IF cached.head = load.head THEN cached ELSE Nothing]
  /\ UNCHANGED <<platform, head, posted, cached, registered, run, sub, bounds>>

\* Leaving the dialog cancels its run, and nothing of it is shown any more.
Close ==
  /\ dialogs < MaxDialogs /\ dialogs' = dialogs + 1
  /\ ui' = [phase |-> "preflight", head |-> 0, result |-> Nothing, submitting |-> FALSE, report |-> Told("none"),
            dialog |-> dialogs + 1, selected |-> ui.selected]
  /\ load' = IdleLoad
  /\ run' = IF run.pc = "idle" THEN run ELSE [run EXCEPT !.cancelled = TRUE]
  /\ UNCHANGED <<platform, head, posted, cached, registered, sub, pushes, lost, submits>>
reviewAgain ==
  /\ ui.phase = "results" /\ ~ui.submitting
  /\ ui' = [ui EXCEPT !.phase = "select", !.result = Nothing]
  /\ cached' = Nothing
  /\ UNCHANGED <<platform, head, posted, load, registered, run, sub, bounds>>
cancelReview ==
  /\ ui.phase = "running" /\ run.dialog = ui.dialog /\ ~run.cancelled
  /\ run' = [run EXCEPT !.cancelled = TRUE]
  /\ UNCHANGED <<platform, head, posted, ui, cached, load, registered, sub, bounds>>

\* AGENT_RESOURCE_BUSY while a run of an earlier dialog is still registered.
startReview ==
  /\ ui.phase = "select"
  /\ ~registered
  /\ registered' = TRUE
  /\ ui' = [ui EXCEPT !.phase = "running"]
  /\ run' = [IdleRun EXCEPT !.pc = "head", !.dialog = ui.dialog, !.load = [IdleLoad EXCEPT !.head = ui.head]]
  /\ UNCHANGED <<platform, head, posted, cached, load, sub, bounds>>

-----------------------------------------------------------------------------
(* The run *)

\* registry.finish, and the answer to the dialog if it is still open.
RunOver(phase, result) ==
  /\ run' = IdleRun /\ registered' = FALSE
  /\ IF run.dialog = ui.dialog
     THEN /\ ui' = [ui EXCEPT !.phase = phase, !.result = result]
          /\ cached' = IF result = Nothing THEN cached ELSE result
     ELSE UNCHANGED <<ui, cached>>
RunFails == RunOver("select", Nothing)
RunGoesOn(r) == run' = r /\ UNCHANGED <<ui, cached, registered>>

\* Mutant: the flag is only looked at between rounds.
RunCancelledBetweenRounds ==
  /\ run.pc = "request" /\ run.cancelled
  /\ RunFails
  /\ UNCHANGED <<platform, head, posted, load, sub, bounds>>
\* The flag is checked before every step and polled during every wait.
RunCancelled ==
  /\ run.pc # "idle" /\ run.cancelled
  /\ RunFails
  /\ UNCHANGED <<platform, head, posted, load, sub, bounds>>
\* A request failed, the model gave an answer that is not one, or a budget of
\* files or bytes is exceeded.
StepFails ==
  /\ run.pc # "idle" /\ ~run.cancelled /\ Lose
  /\ RunFails
  /\ UNCHANGED <<platform, head, posted, load, sub, pushes, dialogs, submits>>

RunHead ==
  /\ run.pc = "head" /\ ~run.cancelled
  /\ IF CheckHead(run.load.head) THEN RunGoesOn([run EXCEPT !.pc = "load", !.load = Loading(@.head)]) ELSE RunFails
  /\ UNCHANGED <<platform, head, posted, load, sub, bounds>>
RunPage ==
  /\ run.pc = "load" /\ run.load.pc = "pages" /\ ~run.cancelled
  /\ RunGoesOn([run EXCEPT !.load = ReadPage(@)])
  /\ UNCHANGED <<platform, head, posted, load, sub, bounds>>
RunLoaded ==
  /\ run.pc = "load" /\ run.load.pc = "check" /\ ~run.cancelled
  /\ IF CheckHead(run.load.head)
     THEN RunGoesOn([run EXCEPT !.pc = "request", !.load.pc = "done"]) ELSE RunFails
  /\ UNCHANGED <<platform, head, posted, load, sub, bounds>>

\* Mutant: the lines are not looked for in the patches.
KeepAllFindings(findings, pages) == findings
\* Findings that are not on a line of the patches are dropped.
validate_findings(findings, pages) == {f \in findings : pages[f[1]] = f[2]}
FinalText ==
  /\ run.pc = "request" /\ ~run.cancelled
  /\ \E findings \in SUBSET Finding :
       RunOver("results", [head |-> run.load.head, findings |-> validate_findings(findings, run.load.pages),
                           mixed |-> run.load.moved])
  /\ UNCHANGED <<platform, head, posted, load, sub, bounds>>

\* The service makes up an id for every call, or DeepSeek's adapter makes one
\* of the call's place and content.
Calls(keys, recovered) ==
  [i \in DOMAIN keys |-> [id |-> IF recovered THEN <<i, keys[i], 0>> ELSE <<i, "service", run.round>>, key |-> keys[i]]]
Ids(calls) == [i \in DOMAIN calls |-> calls[i].id]
\* Mutant: ids of earlier rounds are forgotten.
ForgetIds(calls) == TRUE
validate_call_ids(calls) == Range(Ids(calls)) \cap Range(run.asked) = {}
ToolCalls ==
  /\ run.pc = "request" /\ ~run.cancelled
  /\ \E keys \in SeqOf(Key \cup {UnknownTool}, MaxCalls - Len(run.asked)) \ {<<>>}, recovered \in BOOLEAN :
       LET calls == Calls(keys, recovered) IN
       IF validate_call_ids(calls)
       THEN RunGoesOn([run EXCEPT !.pc = "tool", !.queue = calls, !.asked = @ \o Ids(calls)])
       ELSE RunFails
  /\ UNCHANGED <<platform, head, posted, load, sub, bounds>>

\* The answers to the calls of one response, then the next round.
Answered(r) ==
  LET rest == Tail(r.queue)
      next == [r EXCEPT !.answered = Append(@, Head(r.queue).id), !.queue = rest]
  IN  IF rest # <<>> THEN RunGoesOn(next)
      ELSE IF r.round + 1 < MAX_MODEL_ROUNDS
           THEN RunGoesOn([next EXCEPT !.pc = "request", !.round = @ + 1]) ELSE RunFails
\* A read that was made before, one beyond the budget, and a tool that does
\* not exist are answered without a read.
NeedsRead(r, key) == key \in Key \ r.tool_cache /\ r.tool_calls < MAX_TOOL_CALLS
execute_tool ==
  /\ run.pc = "tool" /\ ~run.cancelled
  /\ LET key == Head(run.queue).key IN
     Answered(IF NeedsRead(run, key)
              THEN [run EXCEPT !.tool_cache = @ \cup {key}, !.tool_calls = @ + 1]
              ELSE run)
  /\ UNCHANGED <<platform, head, posted, load, sub, bounds>>

-----------------------------------------------------------------------------
(* Publication *)

submitReview ==
  /\ ui.phase = "results" /\ ~ui.submitting /\ sub.pc = "idle" /\ submits < MaxSubmits
  /\ submits' = submits + 1
  /\ \E findings \in SUBSET ui.result.findings :
       /\ findings # {}
       /\ sub' = [IdleSub EXCEPT !.pc = "head", !.head = ui.result.head, !.todo = SetToSeq(findings),
                                 !.seen = CheckHead(ui.result.head), !.dialog = ui.dialog]
       /\ ui' = [ui EXCEPT !.submitting = TRUE, !.report = Told("none"), !.selected = findings]
  /\ UNCHANGED <<platform, head, posted, cached, load, registered, run, pushes, lost, dialogs>>

\* The command ends; the dialog, if still open, shows how.
SubmitOver(report) ==
  /\ sub' = IdleSub
  /\ IF sub.dialog # ui.dialog THEN UNCHANGED <<ui, cached>>
     ELSE IF report.kind = "published"
          THEN /\ ui' = [ui EXCEPT !.submitting = FALSE, !.phase = "published", !.report = report]
               /\ cached' = Nothing
          ELSE ui' = [ui EXCEPT !.submitting = FALSE, !.report = report] /\ UNCHANGED cached
SubmitGoesOn(s) == sub' = s /\ UNCHANGED <<ui, cached>>

\* The command checks the head, and the source again: GitHub once, GitLab
\* before and after it reads the version and the diffs.
NextCheck(pc) ==
  CASE pc = "head" -> "again"
    [] pc = "again" -> IF platform = "github" THEN "post" ELSE "diffs"
    [] pc = "diffs" -> "last"
    [] pc = "last"  -> "post"
\* Mutant: the head is not compared before the publication.
SubmitAnyHead ==
  /\ sub.pc \in {"head", "again", "last"}
  /\ SubmitGoesOn([sub EXCEPT !.pc = NextCheck(@)])
  /\ UNCHANGED <<platform, head, posted, load, registered, run, bounds>>
SubmitHead ==
  /\ sub.pc \in {"head", "again", "last"}
  /\ IF CheckHead(sub.head) THEN SubmitGoesOn([sub EXCEPT !.pc = NextCheck(@)]) ELSE SubmitOver(Told("PrUpdated"))
  /\ UNCHANGED <<platform, head, posted, load, registered, run, bounds>>
SubmitDiffs ==
  /\ sub.pc = "diffs"
  /\ LET pages == Append(sub.pages, head)
     IN  SubmitGoesOn([sub EXCEPT !.pages = pages,
                                  !.pc = IF Len(pages) = Cardinality(Page) THEN NextCheck(@) ELSE @])
  /\ UNCHANGED <<platform, head, posted, load, registered, run, bounds>>
SubmitReadFails ==
  /\ sub.pc \in {"head", "again", "diffs", "last"} /\ Lose
  /\ SubmitOver(Told("error"))
  /\ UNCHANGED <<platform, head, posted, load, registered, run, pushes, dialogs, submits>>

Comments(findings) == [i \in DOMAIN findings |-> [finding |-> findings[i], commit |-> sub.head, submit |-> submits]]
\* GitHub takes all comments in one review or none.
PostReview ==
  /\ sub.pc = "post" /\ platform = "github"
  /\ \/ posted' = posted \o Comments(sub.todo) /\ SubmitOver(Told("published")) /\ UNCHANGED lost
     \/ /\ posted' \in {posted, posted \o Comments(sub.todo)}     \* the answer is lost
        /\ SubmitOver(Told("error")) /\ Lose
  /\ UNCHANGED <<platform, head, load, registered, run, pushes, dialogs, submits>>
\* Mutant: a refusal after the first discussion ends the loop without an error.
PartialIsSuccess == IF sub.published > 0 THEN Told("published") ELSE Told("error")
\* GitLab takes one discussion after the other.  A refusal after the first is
\* reported with their number; a lost connection is not.
Partial ==
  IF sub.published > 0 THEN [kind |-> "partial", published |-> sub.published] ELSE Told("error")
PostDiscussion ==
  /\ sub.pc = "post" /\ platform = "gitlab"
  /\ LET one == Comments(SubSeq(sub.todo, 1, 1))
         rest == [sub EXCEPT !.todo = Tail(@), !.published = @ + 1]
     IN  \/ /\ posted' = posted \o one
            /\ IF rest.todo = <<>> THEN SubmitOver(Told("published")) ELSE SubmitGoesOn(rest)
            /\ UNCHANGED lost
         \/ /\ posted' \in {posted, posted \o one} /\ Lose        \* refused, or an answer that is no JSON
            /\ SubmitOver(Partial)
         \/ /\ posted' \in {posted, posted \o one} /\ Lose
            /\ SubmitOver(Told("error"))
  /\ UNCHANGED <<platform, head, load, registered, run, pushes, dialogs, submits>>

-----------------------------------------------------------------------------
Push ==
  /\ pushes < MaxPush /\ pushes' = pushes + 1
  /\ \E h \in Commit \ {head} :
       /\ head' = h
       /\ load' = Moved(load, h)
       /\ run' = [run EXCEPT !.load = Moved(@, h)]
       /\ sub' = IF sub.pc # "idle" /\ h = sub.head THEN [sub EXCEPT !.seen = TRUE] ELSE sub
  /\ UNCHANGED <<platform, posted, ui, cached, registered, lost, dialogs, submits>>

Init ==
  /\ platform \in Platform /\ head = 1 /\ posted = <<>>
  /\ ui = [phase |-> "preflight", head |-> 0, result |-> Nothing, submitting |-> FALSE, report |-> Told("none"),
           dialog |-> 1, selected |-> {}]
  /\ cached = Nothing /\ load = IdleLoad /\ registered = FALSE /\ run = IdleRun /\ sub = IdleSub
  /\ pushes = 0 /\ lost = 0 /\ dialogs = 1 /\ submits = 0

Dialog ==
  \/ PreflightHead \/ PreflightPage \/ PreflightDone \/ Close \/ reviewAgain \/ cancelReview
  \/ startReview \/ submitReview
Run == RunHead \/ RunPage \/ RunLoaded \/ FinalText \/ ToolCalls \/ execute_tool \/ RunCancelled \/ StepFails
Submit == SubmitHead \/ SubmitDiffs \/ SubmitReadFails \/ PostReview \/ PostDiscussion
Next == Dialog \/ Run \/ Submit \/ Push

\* Requests have timeouts and a model call returns (ModelStream, CallEnds).
Spec == Init /\ [][Next]_vars /\ WF_vars(Run) /\ WF_vars(Submit)

-----------------------------------------------------------------------------
(* Properties *)

\* Providers refuse a transcript in which a call has no answer or an id comes
\* twice: when the model is asked, every call so far was answered, in order.
TranscriptPaired ==
  /\ IsInjective(run.asked)
  /\ run.asked = run.answered \o Ids(run.queue)

\* A comment is about lines of the commit it is put on, although the branch
\* moves under the review, unless it left that commit and came back to it
\* while the diff was read.
CommentsOnReviewedLines ==
  \A f \in ui.result.findings : f[2] = ui.result.head \/ ui.result.mixed

\* A stale result publishes nothing: no comment is posted by a submission
\* during which the reviewed commit was never the head.
StalePublishesNothing == [][ posted' # posted => sub.seen ]_vars

\* The comments of a submission, by their places on the host.
PostedBy(n) == {i \in DOMAIN posted : posted[i].submit = n}
PostedOnce(n) == \A i, j \in PostedBy(n) : posted[i].finding = posted[j].finding => i = j
PublishedBy(n) == {posted[i].finding : i \in PostedBy(n)}
\* What the user is told of a publication is true: every finding that was
\* selected is on the host, once, and no other; nothing is; or so many
\* discussions are and at most one more that was not confirmed.  An error says
\* nothing of what is on the host.
ReportsAreTrue ==
  /\ ui.report.kind = "published" => PostedOnce(submits) /\ PublishedBy(submits) = ui.selected
  /\ ui.report.kind = "PrUpdated" => PostedBy(submits) = {}
  /\ ui.report.kind = "partial" => Cardinality(PostedBy(submits)) - ui.report.published \in {0, 1}

\* A run ends and gives the request free, a publication ends.
CommandsEnd ==
  /\ registered ~> ~registered
  /\ sub.pc # "idle" ~> sub.pc = "idle"
=============================================================================
