----------------------------- MODULE HistoryRun -----------------------------
(***************************************************************************)
(* The history agent: the evidence collected by app/src-tauri/src/         *)
(* history_commands.rs, the model call and the checks of its answer in     *)
(* crates/review-agent/src/history.rs, and the panel that shows it,        *)
(* app/src/components/HistoryInvestigationWorkspace.tsx.                   *)
(*                                                                         *)
(* A commit is a number, larger for newer; what it touches never changes.  *)
(* Commits are cited by their short name or by a form of it that has to be *)
(* normalised.  A patch has a size.                                        *)
(***************************************************************************)
EXTENDS HistoryStream

CONSTANTS OldCommits, MaxCommit, \* commits 1 .. OldCommits exist at first
          Touches,           \* the paths of each commit, in order
          PatchBytes,        \* the size of the patch of each commit, per path
          Secret,            \* is_sensitive_change_path
          Terms,             \* search terms of the question
          Documents,         \* what the model may answer
          Damaged,           \* texts that are no JSON
          MAX_HISTORY_COMMITS, BASE_HISTORY_COMMITS, MAX_HISTORY_PATCH_BYTES,
          MAX_FILES_PER_COMMIT, MAX_PATCHES_PER_COMMIT,
          Chunk,             \* characters of the answer that arrive at a time
          MaxTries,          \* attempts of one provider call
          MaxAsks, MaxErrors \* bounds

HCommit == 1 .. MaxCommit
HPath == UNION {Range(Touches[c]) : c \in HCommit}
NoScope == "no file"

ASSUME HistoryAssumption ==
  /\ {OldCommits, MaxCommit, MAX_HISTORY_COMMITS, BASE_HISTORY_COMMITS, MAX_HISTORY_PATCH_BYTES,
      MAX_FILES_PER_COMMIT, MAX_PATCHES_PER_COMMIT, MaxTries, MaxAsks, MaxErrors, Terms} \subseteq Nat
  /\ Chunk \in Nat \ {0} /\ OldCommits <= MaxCommit /\ DOMAIN Touches = HCommit /\ PatchBytes \in [HCommit -> Nat]
  /\ BASE_HISTORY_COMMITS <= MAX_HISTORY_COMMITS /\ NoScope \notin HPath /\ Secret \subseteq HPath

VARIABLES tip,         \* the newest commit
          ask,         \* HistoryInvestigationWorkspace
          held,        \* the registry holds a run for this repository's history
          inv,         \* the command
          asks, errors

historyVars == <<tip, ask, held, inv, asks, errors>>

-----------------------------------------------------------------------------
(* The command *)

NoEvidence == <<>>     \* a sequence of [commit, files]
NoRun == [pc |-> "idle", panel |-> 0, cancelled |-> FALSE, scope |-> NoScope, base |-> <<>>, terms |-> 0,
          commits |-> <<>>, todo |-> <<>>, budget |-> 0, evidence |-> NoEvidence,
          tries |-> 0, attempts |-> 0, contract_retry_used |-> FALSE,
          doc |-> [text |-> <<>>, root |-> Scalar, json |-> FALSE], at |-> 0, stream |-> NewStream,
          ok |-> FALSE, findings |-> <<>>]

Same == UNCHANGED <<tip, held, asks, errors>>
Shown(parts, status) == ask' = IF inv.panel = ask.panel THEN [ask EXCEPT !.parts = parts, !.status = status] ELSE ask

\* Every error path reaches runs.finish.
Ends(ok) == inv' = [inv EXCEPT !.pc = "finish", !.ok = ok] /\ UNCHANGED ask

\* AGENT_RESOURCE_BUSY while the run of a panel that was left is registered.
runInvestigation ==
  /\ ~ask.busy /\ asks < MaxAsks /\ asks' = asks + 1
  /\ \E scope \in HPath \cup {NoScope} :
       IF held THEN UNCHANGED <<ask, held, inv>>
       ELSE /\ held' = TRUE
            /\ inv' = [NoRun EXCEPT !.pc = "base", !.panel = ask.panel, !.scope = scope]
            /\ ask' = [ask EXCEPT !.busy = TRUE, !.done = FALSE, !.parts = NoParts, !.status = "none"]
  /\ UNCHANGED <<tip, errors>>
cancel ==
  /\ ask.busy /\ ~inv.cancelled
  /\ inv' = [inv EXCEPT !.cancelled = TRUE]
  /\ UNCHANGED ask /\ Same
\* Leaving the panel cancels its run.
Leave ==
  /\ asks < MaxAsks /\ asks' = asks + 1
  /\ ask' = [panel |-> ask.panel + 1, busy |-> FALSE, done |-> FALSE, parts |-> NoParts, status |-> "none"]
  /\ inv' = IF held /\ inv.panel = ask.panel THEN [inv EXCEPT !.cancelled = TRUE] ELSE inv
  /\ UNCHANGED <<tip, held, errors>>
NewCommit ==
  /\ tip < MaxCommit /\ tip' = tip + 1
  /\ UNCHANGED <<ask, held, inv, asks, errors>>

-----------------------------------------------------------------------------
(* collect_history_evidence *)

Newest(commits, n) == LET s == SetToSortSeq(commits, >) IN SubSeq(s, 1, IF Len(s) < n THEN Len(s) ELSE n)
InScope(c) == inv.scope = NoScope \/ inv.scope \in Range(Touches[c])
add_unique_commit(commits, c) ==
  IF Len(commits) < MAX_HISTORY_COMMITS /\ c \notin Range(commits) THEN Append(commits, c) ELSE commits
AddAll(commits, more) == FoldLeft(add_unique_commit, commits, more)

\* Every loop looks at the flag first.
Looking(pc) == inv.pc = pc /\ ~inv.cancelled
Stops ==
  /\ inv.cancelled
  /\ \/ inv.pc = "base"
     \/ inv.pc = "terms" /\ inv.terms < Terms
     \/ inv.pc = "files" /\ inv.todo # <<>>
  /\ Ends(FALSE) /\ Same
ReadFails ==
  /\ inv.pc \in {"base", "files"} /\ ~inv.cancelled
  /\ errors < MaxErrors /\ errors' = errors + 1
  /\ Ends(FALSE) /\ UNCHANGED <<tip, held, asks>>
\* The log, or the history of the file: the commits that touch it.  No file
\* of the model is ever renamed, so that --follow adds nothing.
read_base ==
  /\ Looking("base")
  /\ LET base == Newest({c \in 1 .. tip : InScope(c)}, MAX_HISTORY_COMMITS) IN
     inv' = [inv EXCEPT !.pc = "terms", !.base = base,
                        !.commits = AddAll(<<>>, SubSeq(base, 1, IF Len(base) < BASE_HISTORY_COMMITS
                                                                 THEN Len(base) ELSE BASE_HISTORY_COMMITS))]
  /\ UNCHANGED ask /\ Same
\* What a term finds; a search that fails finds nothing.
pickaxe ==
  /\ Looking("terms") /\ inv.terms < Terms
  /\ \E hits \in SUBSET (1 .. tip) :
       inv' = [inv EXCEPT !.terms = @ + 1,
                          !.commits = AddAll(@, SetToSortSeq({c \in hits : InScope(c)}, >))]
  /\ UNCHANGED ask /\ Same
\* The rest of the base; blame keeps lines of these commits only.
Selected ==
  /\ inv.pc = "terms" /\ inv.terms = Terms
  /\ LET commits == AddAll(inv.commits, inv.base) IN
     inv' = [inv EXCEPT !.pc = "files", !.commits = commits, !.todo = commits, !.budget = MAX_HISTORY_PATCH_BYTES]
  /\ UNCHANGED ask /\ Same

Bytes(files) == FoldLeft(LAMBDA n, f : n + f.patch, 0, files)
FileEvidence(path, patch) == [path |-> path, patch |-> patch]
\* A patch goes in while it fits; 0 where it does not, or must not.
with_patch(files, path, size, may) ==
  Append(files, FileEvidence(path, IF may /\ size <= inv.budget - Bytes(files) THEN size ELSE 0))
RECURSIVE EvidenceFiles(_, _)
EvidenceFiles(c, n) ==
  IF n = 0 THEN <<>>
  ELSE LET path == Touches[c][n]
       IN  with_patch(EvidenceFiles(c, n - 1), path, PatchBytes[c], n <= MAX_PATCHES_PER_COMMIT /\ path \notin Secret)
scoped_file_evidence(c) == with_patch(<<>>, inv.scope, PatchBytes[c], inv.scope \notin Secret)
FilesOf(c) ==
  IF inv.scope # NoScope THEN scoped_file_evidence(c)
  ELSE EvidenceFiles(c, IF Len(Touches[c]) < MAX_FILES_PER_COMMIT THEN Len(Touches[c]) ELSE MAX_FILES_PER_COMMIT)
commit_files ==
  /\ Looking("files") /\ inv.todo # <<>>
  /\ LET c == Head(inv.todo)
         files == FilesOf(c)
     IN  inv' = [inv EXCEPT !.todo = Tail(@), !.budget = @ - Bytes(files),
                            !.evidence = Append(@, [commit |-> c, files |-> files])]
  /\ UNCHANGED ask /\ Same

-----------------------------------------------------------------------------
(* investigate_history *)

EvidenceBytes(e) == FoldLeft(LAMBDA n, x : n + Bytes(x.files), 0, e)
validate_evidence(e) == Len(e) <= MAX_HISTORY_COMMITS /\ EvidenceBytes(e) <= MAX_HISTORY_PATCH_BYTES
\* The key may be missing, the model may not know the contract, and the
\* encoded evidence may be longer than its patches.
Collected ==
  /\ inv.pc = "files" /\ inv.todo = <<>>
  /\ IF validate_evidence(inv.evidence)
     THEN /\ inv' = [NoRun EXCEPT !.pc = "call", !.panel = inv.panel, !.cancelled = inv.cancelled,
                                  !.evidence = inv.evidence]
          /\ UNCHANGED ask
     ELSE Ends(FALSE)
  /\ Same
NotAsked ==
  /\ inv.pc = "files" /\ inv.todo = <<>>
  /\ errors < MaxErrors /\ errors' = errors + 1
  /\ Ends(FALSE) /\ UNCHANGED <<tip, held, asks>>

\* HistoryEventAugmenter: each attempt is read from its beginning.
AttemptStarts ==
  /\ Looking("call")
  /\ \E doc \in Documents \cup Damaged :
       inv' = [inv EXCEPT !.pc = "stream", !.tries = @ + 1, !.attempts = @ + 1, !.doc = doc, !.at = 0,
                          !.stream = NewStream]
  /\ Shown(NoParts, "starting") /\ Same
OutputTextDelta ==
  /\ Looking("stream") /\ inv.at < Len(inv.doc.text)
  /\ LET to == IF inv.at + Chunk < Len(inv.doc.text) THEN inv.at + Chunk ELSE Len(inv.doc.text)
         said == FoldLeft(LAMBDA got, c : LET next == feed(got.stream, c)
                                          IN  [stream |-> next.stream, parts |-> reduceArtifact(got.parts, next)],
                          [stream |-> inv.stream, parts |-> ask.parts], SubSeq(inv.doc.text, inv.at + 1, to))
     IN  /\ inv' = [inv EXCEPT !.at = to, !.stream = said.stream]
         /\ Shown(said.parts, "streaming")
  /\ Same
\* The attempt fails at any point.  The provider call gives up, or tries
\* again with its text started afresh.
AttemptFails ==
  /\ Looking("stream")
  /\ errors < MaxErrors /\ errors' = errors + 1
  /\ \E again \in {inv.tries < MaxTries, FALSE} :
       /\ inv' = [inv EXCEPT !.pc = IF again THEN "call" ELSE "finish", !.ok = FALSE]
       /\ Shown(NoParts, IF again THEN "retrying" ELSE "failed")
  /\ UNCHANGED <<tip, held, asks>>
CallCancelled ==
  /\ inv.pc \in {"call", "stream"} /\ inv.cancelled
  /\ Ends(FALSE) /\ Same

\* A finding cites commits, in some form, and paths.
Cites == [commits : SUBSET (HCommit \X {"short", "full"}), paths : SUBSET HPath]
CommitsOf(e) == {x.commit : x \in Range(e)}
PathsOf(e, commits) == UNION {{f.path : f \in Range(x.files)} : x \in {y \in Range(e) : y.commit \in commits}}
normalize_commit_citations(e, cites) ==
  [cites EXCEPT !.commits = {IF c[1] \in CommitsOf(e) THEN <<c[1], "short">> ELSE c : c \in @}]
\* Mutant: a path need not belong to a commit it is cited with.
ValidateApart(e, cites) ==
  /\ cites.commits # {} /\ cites.commits \subseteq CommitsOf(e) \X {"short"}
  /\ cites.paths \subseteq PathsOf(e, CommitsOf(e))
validate_investigation(e, cites) ==
  /\ cites.commits # {} /\ cites.commits \subseteq CommitsOf(e) \X {"short"}
  /\ cites.paths \subseteq PathsOf(e, CommitsOf(e))
  /\ cites.paths \subseteq PathsOf(e, {c[1] : c \in cites.commits})
grounded_finding(e, cites) ==
  [commits |-> {c[1] : c \in cites.commits}, paths |-> cites.paths,
   evidence_links |-> {<<c[1], p>> : c \in cites.commits, p \in cites.paths}
                      \cap {<<c, p>> \in CommitsOf(e) \X HPath : p \in PathsOf(e, {c})}]
NotEmpty(answer) ==
  answer.summary # <<>> /\ \A f \in Range(answer.findings) : f.title # <<>> /\ f.explanation # <<>>

\* An answer that is no JSON, or lacks a field, is asked for once more; one
\* that cites what it was not given is not.
ContractFails(again) ==
  /\ inv' = [inv EXCEPT !.pc = IF again THEN "call" ELSE "finish", !.ok = FALSE, !.tries = 0,
                        !.contract_retry_used = TRUE]
  /\ Shown(NoParts, IF again THEN "retrying" ELSE "failed")
\* The whole answer has arrived: decode_history_response.
Completed ==
  /\ Looking("stream") /\ inv.at = Len(inv.doc.text)
  /\ LET root == inv.doc.root IN
     IF ~inv.doc.json \/ ~decode_investigation(root) THEN ContractFails(~inv.contract_retry_used)
     ELSE \E cites \in Cites :
            LET c == normalize_commit_citations(inv.evidence, cites)
                findings == FindingsOf(root)
            IN  IF NotEmpty(Answer(root)) /\ (findings = <<>> \/ validate_investigation(inv.evidence, c))
                THEN /\ inv' = [inv EXCEPT !.pc = "finish", !.ok = TRUE,
                                           !.findings = [i \in DOMAIN findings |-> grounded_finding(inv.evidence, c)]]
                     /\ Shown(ask.parts, "completed")
                ELSE ContractFails(FALSE)
  /\ Same

\* runs.finish, and the answer to the panel if it is still there.
finish ==
  /\ inv.pc = "finish"
  /\ inv' = NoRun /\ held' = FALSE
  /\ ask' = IF inv.panel = ask.panel THEN [ask EXCEPT !.busy = FALSE, !.done = inv.ok] ELSE ask
  /\ UNCHANGED <<tip, asks, errors>>

-----------------------------------------------------------------------------
HistoryInit ==
  /\ tip = OldCommits /\ held = FALSE /\ inv = NoRun
  /\ ask = [panel |-> 1, busy |-> FALSE, done |-> FALSE, parts |-> NoParts, status |-> "none"]
  /\ asks = 0 /\ errors = 0

Asker == runInvestigation \/ cancel \/ Leave \/ NewCommit
Investigation ==
  \/ Stops \/ ReadFails \/ read_base \/ pickaxe \/ Selected \/ commit_files \/ Collected \/ NotAsked
  \/ AttemptStarts \/ OutputTextDelta \/ AttemptFails \/ CallCancelled \/ Completed \/ finish
HistoryNext == Asker \/ Investigation
=============================================================================
