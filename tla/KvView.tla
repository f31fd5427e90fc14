------------------------------- MODULE KvView -------------------------------
(***************************************************************************)
(* llama_kv_cache_view_update: what a program is shown of the cells.  The  *)
(* per-cell sequences, cut to n_seq_max, are left out.                     *)
(***************************************************************************)
EXTENDS KvCache

\* The scan of the cells before i: where the empty cells at hand begin (-1 for
\* nowhere), and the longest run that ended and where it began.
Scan ==
    LET scan[i \in 0 .. Size] ==
            IF i = 0 THEN [from |-> -1, max |-> 0, max_from |-> -1]
            ELSE LET v == scan[i - 1]
                     c == i - 1
                 IN  IF IsEmpty(kv, c)
                     THEN IF v.from >= 0 THEN v ELSE [v EXCEPT !.from = c]
                     ELSE IF v.from >= 0 /\ c - v.from > v.max
                          THEN [from |-> -1, max |-> c - v.from, max_from |-> v.from]
                          ELSE [v EXCEPT !.from = -1]
    IN  scan[Size]

\* Mutant of View: a run that reaches the end is not counted.
ViewEnded ==
    [ pos                |-> [i \in Cells |-> kv.pos[i] + kv.delta[i]],
      used_cells         |-> Cardinality(UsedCells(kv)),
      max_contiguous     |-> Scan.max,
      max_contiguous_idx |-> Scan.max_from ]

\* A run that reaches the end counts too.
View ==
    LET last == Scan
        open == last.from >= 0 /\ Size - last.from > last.max
    IN  [ pos                |-> [i \in Cells |-> kv.pos[i] + kv.delta[i]],
          used_cells         |-> Cardinality(UsedCells(kv)),
          max_contiguous     |-> IF open THEN Size - last.from ELSE last.max,
          max_contiguous_idx |-> IF open THEN last.from ELSE last.max_from ]

-----------------------------------------------------------------------------
\* The slot the view shows is one: that many empty cells from there on, and no
\* more of them in a row anywhere; and find_slot agrees that a ubatch fits
\* exactly when it is not longer.
ViewContiguous ==
    \E v \in {View} :
        /\ v.max_contiguous = 0 <=> v.max_contiguous_idx = -1
        /\ v.max_contiguous > 0 => FitsAt(kv, v.max_contiguous, v.max_contiguous_idx)
        /\ \A n \in 1 .. Size : CanPlace(kv, n) <=> n <= v.max_contiguous

=============================================================================
