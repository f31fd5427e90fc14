------------------------------- MODULE KvOps -------------------------------
(***************************************************************************)
(* The operations of llama_kv_cache (llama.cpp/src/llama.cpp), the cache   *)
(* of a transformer model, as operators from a cache to a cache.           *)
(*                                                                         *)
(* A cache is a record.  pos, delta and seq_id are the fields of           *)
(* llama_kv_cell, one function over the cells each; tok and rot are what   *)
(* the K and V tensors hold in the row of the cell: the token it was       *)
(* computed for and the position its K row is rotated to (RoPE).  head,    *)
(* used, has_shift and do_defrag are the fields of llama_kv_cache.         *)
(*                                                                         *)
(* The recurrent (Mamba) branches are not part of this module.             *)
(***************************************************************************)
EXTENDS PosRange, FiniteSets, Sequences

CONSTANTS
    Size,      \* number of cells: llama_kv_cache.size
    Seqs,      \* the sequence ids
    Tokens,    \* the tokens a row can be computed for
    NoToken,   \* what a row holds before it is written, or after a clear
    MaxMoves   \* most block moves of one defragmentation: max_moves

ASSUME SizeAssumption == Size \in Nat \ {0}
ASSUME SeqsAssumption == Seqs \subseteq Nat
ASSUME TokenAssumption == NoToken \notin Tokens
ASSUME MovesAssumption == MaxMoves \in Nat \ {0}

Cells == 0 .. Size - 1

-----------------------------------------------------------------------------
(* Cells.                                                                  *)

IsEmpty(k, i) == k.seq_id[i] = {}

UsedCells(k) == {i \in Cells : ~IsEmpty(k, i)}

Least(S) == CHOOSE x \in S : \A y \in S : x <= y

\* llama_kv_cache_init
InitCache ==
    [ pos       |-> [i \in Cells |-> -1],
      delta     |-> [i \in Cells |-> 0],
      seq_id    |-> [i \in Cells |-> {}],
      tok       |-> [i \in Cells |-> NoToken],
      rot       |-> [i \in Cells |-> 0],
      head      |-> 0,
      used      |-> 0,
      has_shift |-> FALSE,
      do_defrag |-> FALSE ]

\* After a call that freed the cells F, the next search starts at the first
\* of them when that is before the head.
HeadAfterFree(k, F) ==
    IF F # {} /\ Least(F) < k.head THEN Least(F) ELSE k.head

-----------------------------------------------------------------------------
(* The calls of the API.                                                   *)

\* Mutant of Clear: the pending shift is forgotten, its deltas stay.
ClearFlag(k) ==
    [ k EXCEPT !.pos = [i \in Cells |-> -1], !.seq_id = [i \in Cells |-> {}],
               !.tok = [i \in Cells |-> NoToken], !.rot = [i \in Cells |-> 0],
               !.head = 0, !.used = 0, !.has_shift = FALSE ]

\* llama_kv_cache_clear: delta and has_shift are left alone.
Clear(k) ==
    [ k EXCEPT !.pos    = [i \in Cells |-> -1],
               !.seq_id = [i \in Cells |-> {}],
               !.tok    = [i \in Cells |-> NoToken],
               !.rot    = [i \in Cells |-> 0],
               !.head   = 0,
               !.used   = 0 ]

\* The cells llama_kv_cache_seq_rm removes s from, and those it empties.
RmHit(k, s, p0, p1) ==
    {i \in Cells : /\ InRange(k.pos[i], p0, p1)
                   /\ s = AnySeq \/ s \in k.seq_id[i]}

\* Mutant of RmFreed: a cell is freed although other sequences share it.
RmFreedShared(k, s, p0, p1) == RmHit(k, s, p0, p1)

RmFreed(k, s, p0, p1) ==
    {i \in RmHit(k, s, p0, p1) : s = AnySeq \/ k.seq_id[i] = {s}}

SeqRm(k, s, p0, p1) ==
    LET hit   == RmHit(k, s, p0, p1)
        freed == RmFreed(k, s, p0, p1)
    IN  [ k EXCEPT !.seq_id = [i \in Cells |->
                        IF i \in freed THEN {}
                        ELSE IF i \in hit THEN k.seq_id[i] \ {s}
                        ELSE k.seq_id[i]],
                   !.pos  = [i \in Cells |-> IF i \in freed THEN -1 ELSE k.pos[i]],
                   !.used = k.used - Cardinality(freed),
                   !.head = HeadAfterFree(k, freed) ]

SeqCp(k, src, dst, p0, p1) ==
    IF src = dst THEN k
    ELSE [ k EXCEPT
            !.head   = 0,
            !.seq_id = [i \in Cells |->
                IF src \in k.seq_id[i] /\ InRange(k.pos[i], p0, p1)
                THEN k.seq_id[i] \cup {dst}
                ELSE k.seq_id[i]] ]

\* Mutant of SeqKeep: cells that were empty already are counted as freed.
SeqKeepAll(k, s) ==
    LET out == {i \in Cells : s \notin k.seq_id[i]}
    IN  [ k EXCEPT !.seq_id = [i \in Cells |-> IF i \in out THEN {} ELSE {s}],
                   !.pos  = [i \in Cells |-> IF i \in out THEN -1 ELSE k.pos[i]],
                   !.used = k.used - Cardinality(out),
                   !.head = HeadAfterFree(k, out) ]

\* llama_kv_cache_seq_keep: every cell without s is reset, also the cells
\* that were empty already, and the first of them is a candidate for the head.
SeqKeep(k, s) ==
    LET out == {i \in Cells : s \notin k.seq_id[i]}
    IN  [ k EXCEPT !.seq_id = [i \in Cells |-> IF i \in out THEN {} ELSE {s}],
                   !.pos  = [i \in Cells |-> IF i \in out THEN -1 ELSE k.pos[i]],
                   !.used = k.used - Cardinality({i \in out : k.pos[i] >= 0}),
                   !.head = HeadAfterFree(k, out) ]

\* The cells llama_kv_cache_seq_add shifts, and those whose position becomes
\* negative: the latter are freed for all their sequences.
AddHit(k, s, p0, p1) ==
    {i \in Cells : s \in k.seq_id[i] /\ InRange(k.pos[i], p0, p1)}

AddFreed(k, s, p0, p1, d) ==
    {i \in AddHit(k, s, p0, p1) : k.pos[i] + d < 0}

\* Mutant of SeqAdd: a cell shifted below zero stays with its other sequences.
SeqAddOne(k, s, p0, p1, d) ==
    LET hit   == AddHit(k, s, p0, p1)
        freed == AddFreed(k, s, p0, p1, d)
    IN  IF EmptyRange(p0, p1) THEN k
        ELSE [ k EXCEPT
                !.has_shift = k.has_shift \/ hit # {},
                !.delta  = [i \in Cells |-> IF i \in hit THEN @[i] + d ELSE @[i]],
                !.pos    = [i \in Cells |-> IF i \in freed THEN -1
                                            ELSE IF i \in hit THEN @[i] + d ELSE @[i]],
                !.seq_id = [i \in Cells |-> IF i \in freed THEN @[i] \ {s} ELSE @[i]],
                !.used   = k.used - Cardinality(freed),
                !.head   = IF freed # {} THEN Least(freed) ELSE 0 ]

SeqAdd(k, s, p0, p1, d) ==
    LET hit   == AddHit(k, s, p0, p1)
        freed == AddFreed(k, s, p0, p1, d)
    IN  IF EmptyRange(p0, p1) THEN k
        ELSE [ k EXCEPT
                !.has_shift = k.has_shift \/ hit # {},
                !.delta  = [i \in Cells |->
                                IF i \in hit THEN k.delta[i] + d ELSE k.delta[i]],
                !.pos    = [i \in Cells |->
                                IF i \in freed THEN -1
                                ELSE IF i \in hit THEN k.pos[i] + d
                                ELSE k.pos[i]],
                !.seq_id = [i \in Cells |-> IF i \in freed THEN {} ELSE k.seq_id[i]],
                !.used   = k.used - Cardinality(freed),
                !.head   = IF freed # {} THEN Least(freed) ELSE 0 ]

SeqDiv(k, s, p0, p1, d) ==
    LET hit == AddHit(k, s, p0, p1)
    IN  IF EmptyRange(p0, p1) THEN k
        ELSE [ k EXCEPT
                !.has_shift = k.has_shift \/ hit # {},
                !.pos   = [i \in Cells |->
                              IF i \in hit THEN k.pos[i] \div d ELSE k.pos[i]],
                !.delta = [i \in Cells |->
                              IF i \in hit
                              THEN k.delta[i] + (k.pos[i] \div d) - k.pos[i]
                              ELSE k.delta[i]] ]

-----------------------------------------------------------------------------
(* llama_kv_cache_update: the K-shift, then the defragmentation.           *)

\* Mutant of ApplyShift: the deltas stay and are applied again.
ApplyShiftAgain(k) ==
    IF k.has_shift
    THEN [ k EXCEPT !.rot = [i \in Cells |-> @[i] + k.delta[i]], !.has_shift = FALSE ]
    ELSE k

\* The K-shift rotates the K row of every cell by its delta.
ApplyShift(k) ==
    IF k.has_shift
    THEN [ k EXCEPT !.rot       = [i \in Cells |-> k.rot[i] + k.delta[i]],
                    !.delta     = [i \in Cells |-> 0],
                    !.has_shift = FALSE ]
    ELSE k

\* The holes among the first used cells, and the cells behind these.
Holes(k) == {i \in Cells : i < k.used /\ IsEmpty(k, i)}
Movable(k) == {i \in Cells : i >= k.used /\ ~IsEmpty(k, i)}

\* Two cells of one maximal run of empty cells.
SameHole(k, x, y) == \A z \in Cells : (x <= z /\ z <= y) \/ (y <= z /\ z <= x)
                                        => z \in Holes(k)

\* The holes are filled in order, each with as many cells from the end as it
\* is long, and these keep their order inside the hole.  Counted from the end,
\* the cell that goes to h comes after the cells that go to the earlier holes
\* and to the later places of its own hole.
TakenBefore(k, h) ==
    {x \in Holes(k) : IF SameHole(k, x, h) THEN x > h ELSE x < h}

MovesTo(k, t, h) ==
    /\ h \in Holes(k)
    /\ t \in Movable(k)
    /\ Cardinality({u \in Movable(k) : u > t}) = Cardinality(TakenBefore(k, h))

\* A new block move begins with the first cell of a hole and wherever the
\* source cells are not adjacent (cont is false).
BlockStart(k, h) ==
    /\ h \in Holes(k)
    /\ ~ /\ h - 1 \in Holes(k)
         /\ \E t \in Movable(k) : MovesTo(k, t, h) /\ MovesTo(k, t - 1, h - 1)

\* The moves made before n_moves reaches max_moves.
Move(k, t, h) ==
    /\ MovesTo(k, t, h)
    /\ Cardinality({x \in Holes(k) : x <= h /\ BlockStart(k, x)}) <= MaxMoves

\* f holds the value z in the cells that move away.
Moved(k, f, z) ==
    [i \in Cells |->
        IF \E t \in Cells : Move(k, t, i)
        THEN f[CHOOSE t \in Cells : Move(k, t, i)]
        ELSE IF \E h \in Cells : Move(k, i, h) THEN z ELSE f[i]]

\* The tensors' rows are copied; the row moved away from keeps its data.
Copied(k, f) ==
    [i \in Cells |->
        IF \E t \in Cells : Move(k, t, i)
        THEN f[CHOOSE t \in Cells : Move(k, t, i)]
        ELSE f[i]]

Defrag(k) ==
    [ k EXCEPT !.pos    = Moved(k, k.pos, -1),
               !.delta  = Moved(k, k.delta, 0),
               !.seq_id = Moved(k, k.seq_id, {}),
               !.tok    = Copied(k, k.tok),
               !.rot    = Copied(k, k.rot),
               !.head   = IF \E t, h \in Cells : Move(k, t, h) THEN k.used ELSE k.head ]

ApplyDefrag(k) ==
    IF k.do_defrag THEN [ Defrag(k) EXCEPT !.do_defrag = FALSE ] ELSE k

Update(k) == ApplyDefrag(ApplyShift(k))

-----------------------------------------------------------------------------
(* llama_kv_cache_find_slot: n free cells in a row, from the head on, then *)
(* from the start.                                                         *)

Free(k, i) == k.pos[i] < 0

FitsAt(k, n, h) == h + n <= Size /\ \A i \in h .. h + n - 1 : Free(k, i)

Fits(k, n) == {h \in Cells : FitsAt(k, n, h)}

CanPlace(k, n) == n <= Size /\ Fits(k, n) # {}

FindSlot(k, n) ==
    LET ahead == {h \in Fits(k, n) : h >= k.head}
    IN  IF ahead # {} THEN Least(ahead) ELSE Least(Fits(k, n))

\* Mutant of HeadAfterMiss: the search skips n cells, not one.
HeadAfterMissFar(k, n) ==
    IF n > Size THEN k.head ELSE Least({i \in Cells : ~Free(k, i)}) + 1 + n

\* Where a search that finds nothing leaves the head.  Having wrapped it goes on
\* behind each occupied cell in turn, and gives up at the first such place that
\* is not before the one it started from; when it has to wrap again, behind the
\* first occupied cell.
HeadAfterMiss(k, n) ==
    LET from   == IF k.head = 0 THEN Size ELSE k.head
        busy   == {i \in Cells : ~Free(k, i)}
        giveUp == {i \in busy : /\ i + 1 >= from
                                /\ \A j \in busy : j < i => j + 1 + n <= Size}
    IN  IF n > Size THEN k.head
        ELSE IF giveUp # {} THEN Least(giveUp) + 1 ELSE Least(busy) + 1

\* llama_kv_cache_find_slot writes the ubatch, a sequence of tokens with their
\* positions and sequences, to the cells from h on.
Place(k, ubatch, h) ==
    LET n     == Len(ubatch)
        in(i) == h <= i /\ i < h + n
    IN  [ k EXCEPT
            !.pos    = [i \in Cells |-> IF in(i) THEN ubatch[i - h + 1].pos
                                                 ELSE k.pos[i]],
            !.seq_id = [i \in Cells |-> IF in(i)
                                        THEN k.seq_id[i] \cup ubatch[i - h + 1].seqs
                                        ELSE k.seq_id[i]],
            !.head   = h,
            !.used   = k.used + n ]

\* The graph of the ubatch writes the K rows, rotated to the positions of the
\* tokens, and the V rows; then the head goes behind them.
Compute(k, ubatch) ==
    LET n     == Len(ubatch)
        in(i) == k.head <= i /\ i < k.head + n
    IN  [ k EXCEPT
            !.tok  = [i \in Cells |-> IF in(i) THEN ubatch[i - k.head + 1].tok
                                               ELSE k.tok[i]],
            !.rot  = [i \in Cells |-> IF in(i) THEN ubatch[i - k.head + 1].pos
                                               ELSE k.rot[i]],
            !.head = IF k.head + n >= Size THEN 0 ELSE k.head + n ]

-----------------------------------------------------------------------------
(* Saved cells.                                                            *)

\* The saved cells, in the order of the cache.
CellsIn(k, I) ==
    LET at(n) == CHOOSE i \in I : Cardinality({j \in I : j <= i}) = n
    IN  [n \in 1 .. Cardinality(I) |-> at(n)]

Row(k, i, S) == [pos |-> k.pos[i], seqs |-> S, tok |-> k.tok[i], rot |-> k.rot[i]]

\* Mutant of PutRows: the rows go to the first cells, wherever h is.
PutRowsFirst(k, rows, h) ==
    [k EXCEPT !.tok = [i \in Cells |-> IF i < Len(rows) THEN rows[i + 1].tok ELSE @[i]],
              !.rot = [i \in Cells |-> IF i < Len(rows) THEN rows[i + 1].rot ELSE @[i]]]

\* The rows of the cells from h on.
PutRows(k, rows, h) ==
    LET in(i) == h <= i /\ i < h + Len(rows)
    IN  [k EXCEPT !.tok = [i \in Cells |-> IF in(i) THEN rows[i - h + 1].tok ELSE @[i]],
                  !.rot = [i \in Cells |-> IF in(i) THEN rows[i - h + 1].rot ELSE @[i]]]

=============================================================================
