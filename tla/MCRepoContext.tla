---------------------------- MODULE MCRepoContext ----------------------------
EXTENDS RepoContext, TLC

CONSTANTS main, topic, origin, other

T(a, b) == (1 :> a) @@ (2 :> b)
C(tree, parents) == [tree |-> tree, parents |-> parents]

\* A repository just initialised: HEAD on an unborn branch, one file written.
Unborn ==
  [commits |-> <<>>, head |-> main, at |-> 0, refs |-> [b \in Branch |-> 0], tag |-> 0,
   remotes |-> {}, tracking |-> [r \in Remote |-> NoTracking],
   upstream |-> [b \in Branch |-> NoRemote], server |-> NoTracking,
   index |-> Absent, conflict |-> NoConflict, wt |-> T(0, 0), state |-> "Clean", other |-> 0,
   rebase |-> NoRebase, stash |-> <<>>, reflog |-> <<>>]

\* main and topic have parted, and so have main and the main of its remote.
\* Reordering or dropping main's two commits conflicts.
Diverged ==
  [Unborn EXCEPT
     !.commits = <<C(T(0, 0), <<>>), C(T(1, 0), <<1>>), C(T(2, 0), <<2>>),
                   C(T(0, 1), <<1>>), C(T(0, 0), <<2>>)>>,
     !.refs = (main :> 3) @@ (topic :> 4),
     !.remotes = {origin}, !.tracking[origin] = (main :> 2) @@ (topic :> 0),
     !.upstream[main] = origin, !.server = (main :> 5) @@ (topic :> 0),
     !.index = T(2, 0), !.wt = T(2, 0),
     !.reflog = <<[oid |-> 3, kind |-> "commit"], [oid |-> 2, kind |-> "commit"]>>]

\* Opened while a pull or a rebase has stopped, or with an edit not staged.
Stopped ==
  {out.git : out \in pull(Diverged, FALSE) \cup cherry_pick(Diverged, 5) \cup
     interactive_rebase(Diverged, 1, <<[oid |-> 2, action |-> "Drop"], [oid |-> 3, action |-> "Reword"]>>)}
Edited == [Diverged EXCEPT !.wt = T(2, 1)]
EveryRepo == {Unborn, Diverged, Edited} \cup Stopped
\* For the graph: main has merged, and its remote has gone on from one side.
Woven ==
  [Diverged EXCEPT
     !.commits = <<C(T(0, 0), <<>>), C(T(1, 0), <<1>>), C(T(0, 1), <<1>>), C(T(1, 1), <<2, 3>>),
                   C(T(0, 2), <<3>>), C(T(2, 0), <<2>>)>>,
     !.refs = (main :> 4) @@ (topic :> 5),
     !.server = (main :> 6) @@ (topic :> 0),
     !.index = T(1, 1), !.wt = T(1, 1),
     !.reflog = <<[oid |-> 4, kind |-> "merge"], [oid |-> 2, kind |-> "commit"]>>]
WovenRepo == {Woven}
OneEdit == {T(2, 1)}

ClientSymmetry == Permutations(Client)
AllWrites == IndexWrites \cup ConflictWrites \cup StashWrites \cup RefWrites \cup TreeWrites \cup {"stash_drop"}
=============================================================================
