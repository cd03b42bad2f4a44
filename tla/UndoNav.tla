------------------------------- MODULE UndoNav -------------------------------
(***************************************************************************)
(* The timeline of crates/app-service/src/undo_nav.rs: the positions HEAD  *)
(* went through by operations of this program, and a cursor on the one     *)
(* HEAD is at now.  What lies left of the cursor can be undone, what lies  *)
(* right of it redone.  Pure operators on a record                          *)
(*     [timeline |-> sequence of points, cursor |-> 0-based index]          *)
(* as in the source; RepoContext owns the one instance and its lock.  A    *)
(* point's label and timestamp are for display and left out.               *)
(***************************************************************************)
EXTENDS Integers, Sequences

CONSTANTS Oid,      \* commit ids
          NoOid     \* "no HEAD yet", "no hint"

ASSUME NoOidAssumption == NoOid \notin Oid

\* Undoing a commit keeps the content staged (soft reset), undoing what
\* rewrote the working tree restores it (hard reset).
UndoKind == {"Uncommit", "Restore"}

NavPoint == [oid : Oid, kind : UndoKind]
UndoNavs == [timeline : Seq(NavPoint), cursor : Nat]
EmptyNav == [timeline |-> <<>>, cursor |-> 0]

Point(oid, kind) == [oid |-> oid, kind |-> kind]
BasePoint(oid) == Point(oid, "Restore")
InTimeline(nav, i) == i < Len(nav.timeline)
At(nav, i) == nav.timeline[i + 1]

is_aligned(nav, head) == InTimeline(nav, nav.cursor) /\ At(nav, nav.cursor).oid = head

\* A hint is [oid |-> HEAD@{1}, kind |-> ...] when the newest reflog entry can
\* be undone, and its oid is NoOid otherwise.
sync(nav, head, boot) ==
  IF is_aligned(nav, head) THEN nav
  ELSE IF boot.oid = NoOid
       THEN [timeline |-> <<BasePoint(head)>>, cursor |-> 0]
       ELSE [timeline |-> <<BasePoint(boot.oid), Point(head, boot.kind)>>, cursor |-> 1]

\* Mutant: what could be redone stays on the timeline after a new operation.
RecordKeepsTail(nav, before, after, kind) ==
  IF before = after THEN nav
  ELSE IF before # NoOid /\ is_aligned(nav, before)
       THEN [timeline |-> Append(nav.timeline, Point(after, kind)), cursor |-> nav.cursor + 1]
       ELSE [timeline |-> <<Point(after, kind)>>, cursor |-> 0]

\* `before` is HEAD ahead of the operation, `after` HEAD once it is done.
record(nav, before, after, kind) ==
  IF before = after THEN nav
  ELSE LET line == IF before # NoOid /\ is_aligned(nav, before)
                   THEN Append(SubSeq(nav.timeline, 1, nav.cursor + 1), Point(after, kind))
                   ELSE IF before # NoOid
                        THEN <<BasePoint(before), Point(after, kind)>>
                        ELSE <<Point(after, kind)>>
       IN  [timeline |-> line, cursor |-> Len(line) - 1]

\* The move to point i.  What is undone is the operation that led to the
\* cursor's point; what is redone, the one that led to point i.
can_goto(nav, i) == i # nav.cursor /\ i >= 0 /\ InTimeline(nav, i)
point_at(nav, i) ==
  [oid  |-> At(nav, i).oid,
   kind |-> At(nav, IF i < nav.cursor THEN nav.cursor ELSE i).kind]

\* After a successful reset.  Out of range moves are ignored.
commit_undo(nav) == IF nav.cursor > 0 THEN [nav EXCEPT !.cursor = @ - 1] ELSE nav
commit_redo(nav) ==
  IF InTimeline(nav, nav.cursor + 1) THEN [nav EXCEPT !.cursor = @ + 1] ELSE nav
commit_goto(nav, i) == IF InTimeline(nav, i) THEN [nav EXCEPT !.cursor = i] ELSE nav
=============================================================================
