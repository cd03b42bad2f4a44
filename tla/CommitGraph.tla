----------------------------- MODULE CommitGraph -----------------------------
(***************************************************************************)
(* crates/app-service/src/graph.rs: the lanes of the commit graph.  Commits*)
(* come newest first; a lane is a column that waits for a commit, and keeps*)
(* the colour it was given at birth.  Each row says in which column its    *)
(* commit is and which lines cross its upper and its lower half.  The lanes*)
(* after the last row are kept, so that a later page goes on where this one*)
(* stopped.  Columns are counted from 1.                                   *)
(***************************************************************************)
EXTENDS Integers, Sequences, SequencesExt, FiniteSetsExt

CONSTANT NCOLORS
ASSUME ColorAssumption == NCOLORS \in Nat

Free == [sha |-> 0, color |-> 0]
Active(lanes) == {k \in DOMAIN lanes : lanes[k].sha # 0}
Waiting(lanes, sha) == {k \in DOMAIN lanes : lanes[k].sha = sha}
first_free(lanes) == Min(Waiting(lanes, 0) \cup {Len(lanes) + 1})
ensure_len(lanes, k) == IF k > Len(lanes) THEN Append(lanes, Free) ELSE lanes
pick_color(lanes) ==
  LET unused == (0 .. NCOLORS - 1) \ {lanes[k].color : k \in Active(lanes)}
  IN  IF unused = {} THEN 0 ELSE Min(unused)

\* Every lane that waited for the commit ends at it.
Release(lanes, merging) == [k \in DOMAIN lanes |-> IF k \in merging THEN Free ELSE lanes[k]]

\* A parent: joined where a lane waits for it already, the first one goes
\* on in the commit's column, any other opens a lane.
Spawn(s, p, col, color) ==
  LET waits == Waiting(s.lanes, p)
      k == first_free(s.lanes)
      wide == ensure_len(s.lanes, k)
      fresh == pick_color(wide)
  IN  IF waits # {}
      THEN [s EXCEPT !.spawns = Append(@, [to |-> Min(waits), color |-> color])]
      ELSE IF s.spawns = <<>>
      THEN [lanes |-> [s.lanes EXCEPT ![col] = [sha |-> p, color |-> color]],
            spawns |-> <<[to |-> col, color |-> color]>>]
      ELSE [lanes |-> [wide EXCEPT ![k] = [sha |-> p, color |-> fresh]],
            spawns |-> Append(s.spawns, [to |-> k, color |-> fresh])]

\* One row: top is where each line from above goes, bottom the lines that
\* leave the commit and the columns that run straight through.
LayoutRow(before, c, parents) ==
  LET merging == Waiting(before, c)
      col == IF merging = {} THEN first_free(before) ELSE Min(merging)
      wide == ensure_len(before, col)
      color == IF merging = {} THEN pick_color(wide) ELSE wide[col].color
      joined[n \in 0 .. Len(parents)] ==
        IF n = 0 THEN [lanes |-> Release(wide, merging), spawns |-> <<>>]
        ELSE Spawn(joined[n - 1], parents[n], col, color)
      done == joined[Len(parents)]
  IN  [lanes |-> done.lanes,
       row |-> [commit |-> c, column |-> col, color |-> color,
                top |-> [k \in Active(before) |->
                           [to |-> IF k \in merging THEN col ELSE k, color |-> before[k].color]],
                bottom |-> done.spawns,
                through |-> {k \in Active(before) \cap Active(done.lanes) : k # col /\ k \notin merging}]]

LayoutNext(s, c, parents) ==
  LET next == LayoutRow(s.lanes, c, parents[c])
  IN  [lanes |-> next.lanes, rows |-> Append(s.rows, next.row)]
layout_into(commits, parents, lanes) ==
  LET drawn[k \in 0 .. Len(commits)] ==
        IF k = 0 THEN [lanes |-> lanes, rows |-> <<>>]
        ELSE LayoutNext(drawn[k - 1], commits[k], parents)
  IN  drawn[Len(commits)]

-----------------------------------------------------------------------------
(* What a drawing must satisfy *)

\* The columns in which lines leave a row.
Below(row) == {row.bottom[i].to : i \in DOMAIN row.bottom} \cup row.through
Above(row) == DOMAIN row.top
\* No line starts or ends in the air between two rows; while there were never
\* more lines side by side than there are colours, no two of them have one
\* colour; and the line that leaves a commit for its n-th parent runs
\* straight down in its column until it turns to that parent.
LinesMeet(rows, parents) ==
  \A i \in DOMAIN rows :
    /\ i < Len(rows) => Below(rows[i]) = Above(rows[i + 1])
    /\ (\A j \in 1 .. i : Cardinality(Above(rows[j])) <= NCOLORS) =>
         \A k, l \in Above(rows[i]) : k # l => rows[i].top[k].color # rows[i].top[l].color
    /\ LET ps == parents[rows[i].commit] IN
       /\ Len(rows[i].bottom) = Len(ps)
       /\ \A j \in i + 1 .. Len(rows), n \in DOMAIN ps :
            LET k == rows[i].bottom[n].to IN
            rows[j].commit = ps[n] =>
              /\ k \in Above(rows[j]) /\ rows[j].top[k].to = rows[j].column
              /\ \A m \in i + 1 .. j - 1 : k \in rows[m].through
=============================================================================
