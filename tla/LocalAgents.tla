----------------------------- MODULE LocalAgents -----------------------------
(***************************************************************************)
(* The two agents that work on the open repository.  Their panels are in   *)
(* different tabs of app/src/App.tsx, one of which is shown at a time, and *)
(* their runs hold different resources of the registry; a behaviour here   *)
(* is one of a tab.  Leaving a tab is leaving its panel.                   *)
(***************************************************************************)
EXTENDS ChangePlan, HistoryRun

VARIABLE tab
vars == <<planVars, historyVars, tab>>

\* The history agent reads commits only: a clean tree stands for all.
Init ==
  /\ PlanInit /\ HistoryInit /\ tab \in {"changes", "history"}
  /\ tab = "history" => index = head /\ wt = head
Changes == tab = "changes" /\ UNCHANGED <<historyVars, tab>>
History == tab = "history" /\ UNCHANGED <<planVars, tab>>
Next == (Changes /\ PlanNext) \/ (History /\ HistoryNext)

Spec == Init /\ [][Next]_vars

-----------------------------------------------------------------------------
(* Properties *)

PathsIn(files) == {f.path : f \in Range(files)}
FirstOf(id) == SelectSeq(cmd.plan.groups, LAMBDA g : g.id = id)[1]
CommitDone == cmd.pc = "commit" /\ cmd'.pc = "idle" /\ head_id' # head_id
\* Whole and nothing else, and each text file as the plan showed it.
Commits(g) ==
  /\ g.executable
  /\ {p \in Path : head'[p] # head[p]} = PathsIn(g.files)
  /\ PathsIn(g.files) \cap Sensitive = {}
  /\ \A f \in Range(g.files) : f.path \in Opaque \/ f.diff = <<head[f.path], head'[f.path]>>

\* What commit_change_group commits is the group the user confirmed, as the
\* plan showed it, although the files were staged one by one long after the
\* plan was read.  "Stage only the selected group's paths, then commit its
\* confirmed non-empty message", says the plan of the planner
\* (docs/superpowers/plans/2026-08-08-local-change-planning-agent.md:40), and
\* the code does not where an earlier group has the same id, because their
\* areas share a slug: it commits that one, the first of its id.  The other
\* exception is a command during which someone else touched the repository.
CommitIsReviewed ==
  [][ CommitDone /\ ~cmd.raced
        => \/ Commits(cmd.chosen)
           \/ FirstOf(cmd.chosen.id) # cmd.chosen /\ Commits(FirstOf(cmd.chosen.id)) ]_vars

\* A commit of a group that fails, at whichever file, leaves the index as it
\* found it ("the index returns to its previous clean state"), unless
\* unstaging failed too or someone else touched the repository.
RollbackRestores ==
  [][ cmd.kind = "commit" /\ cmd.pc # "idle" /\ cmd'.pc = "idle" /\ head_id' = head_id
        => cmd.raced \/ cmd.stuck \/ index' = cmd.before ]_vars

\* The draft the user read while the answer arrived is the answer: the same
\* texts in the same fields of the same findings, whatever else the document
\* holds, in whichever order, and however often a field is written.  Nothing
\* of an answer that was refused stays.
DraftIsAnswer ==
  inv.pc = "finish" /\ inv.panel = ask.panel =>
    IF inv.ok
    THEN FindingsOnce(inv.doc.root) => historyDraftFromStream(ask.parts) = Answer(inv.doc.root)
    ELSE ask.status \in {"failed", "retrying"} => ask.parts = NoParts

\* An answer that is accepted names, for each path it cites, a commit of the
\* evidence that it also cites and that touches the path.
CitationsGrounded ==
  inv.ok => \A f \in Range(inv.findings) :
              /\ f.commits # {} /\ f.commits \subseteq CommitsOf(inv.evidence)
              /\ \A link \in f.evidence_links : link[2] \in Range(Touches[link[1]])
              /\ f.paths = {link[2] : link \in f.evidence_links}
=============================================================================
