-------------------------- MODULE KvSessionProofs --------------------------
(***************************************************************************)
(* Proofs about KvSession for every cache, every set of sequences and all  *)
(* states received from others.                                            *)
(***************************************************************************)
EXTENDS KvSession, KvCacheProofs

\* No used cell is saved without its sequences.
FileGood(f) ==
    /\ f \in File
    /\ f.whole => \A n \in DOMAIN f.cells : f.cells[n].seqs # {}

\* No row is saved that waits for a shift.
FileSettled(f) == \A n \in DOMAIN f.cells : f.cells[n].rot = f.cells[n].pos

RestoredKind ==
    /\ restored \in Seqs \cup {AnySeq, Nothing}
    /\ restored \in Seqs => ~file.whole /\ file.cells # <<>>
    /\ restored = AnySeq => file.whole

SessionInv ==
    /\ Shape(kv) /\ sbatch \in Seq(Entry) /\ steps \in Nat
    /\ FileGood(file) /\ RestoredKind
    /\ "damaged file" \notin faces => PosIffSeqIn(kv) /\ Exact(kv)
    /\ faces \cap {"damaged file", "pending shift"} = {} => RotationIn(kv) /\ FileSettled(file)
    /\ RestoredExactly

-----------------------------------------------------------------------------
(* Saved cells.                                                            *)

\* What is saved of used cells, with the sequences S.
RowsOf(k, I, S) ==
    [n \in DOMAIN CellsIn(k, I) |-> Row(k, CellsIn(k, I)[n], S[CellsIn(k, I)[n]])]

LEMMA SavedGood ==
    ASSUME NEW k, Shape(k), NEW I \in SUBSET Cells, \A i \in I : k.seq_id[i] # {},
           NEW S \in [Cells -> SUBSET Seqs], NEW cells, cells = RowsOf(k, I, S)
    PROVE  /\ cells \in Seq(Saved)
           /\ (\A i \in I : S[i] # {}) => \A n \in DOMAIN cells : cells[n].seqs # {}
           /\ Settled(k) /\ RotationIn(k) => \A n \in DOMAIN cells : cells[n].rot = cells[n].pos
<1>. DEFINE at == CellsIn(k, I)
            m  == Cardinality(I)
            row(n) == Row(k, at[n], S[at[n]])
<1>1. /\ DOMAIN at = 1 .. m /\ m \in Nat
      /\ \A n \in 1 .. m : at[n] \in I
    BY CellsInside
<1>2. cells = [n \in 1 .. m |-> row(n)]
    BY <1>1 DEF RowsOf
<1>3. k \in Cache
    BY DEF Shape
<1>4. ASSUME NEW n \in 1 .. m
      PROVE  /\ row(n) \in Saved
             /\ row(n).seqs = S[at[n]]
             /\ Settled(k) /\ RotationIn(k) => row(n).rot = row(n).pos
    <2>1. at[n] \in I /\ at[n] \in Cells
        BY <1>1
    <2>. HIDE DEF at, m
    <2>. DEFINE i == at[n]
    <2>2. /\ k.pos[i] \in Int /\ k.delta[i] \in Int /\ S[i] \in SUBSET Seqs
          /\ k.rot[i] \in Int /\ k.tok[i] \in Tokens \cup {NoToken}
        BY <1>3, <2>1 DEF Cache
    <2>3. k.seq_id[i] # {} /\ k.pos[i] >= 0
        BY <2>1 DEF Shape, Held, IsEmpty
    <2>4. Settled(k) /\ RotationIn(k) => k.rot[i] = k.pos[i]
        BY <2>1, <2>2, <2>3 DEF Settled, RotationIn, UsedCells, IsEmpty
    <2>. HIDE DEF i
    <2>. QED
        BY <2>2, <2>3, <2>4 DEF Row, Saved, i
<1>. HIDE DEF at, row, m
<1>5. cells \in Seq(Saved) /\ DOMAIN cells = 1 .. m /\ \A n \in 1 .. m : cells[n] = row(n)
    <2>1. cells \in [1 .. m -> Saved]
        BY <1>2, <1>4
    <2>. QED
        BY <1>1, <1>2, <2>1, SeqDef
<1>. QED
    BY <1>1, <1>4, <1>5

-----------------------------------------------------------------------------
(* Cells that are restored.                                                *)

\* The place of n cells from h on.
Within(i, h, n) == h <= i /\ i < h + n

\* The cells of rows were placed from h on for the one sequence dest.
PlacedAs(k, rows, dest, h, p) ==
    /\ p \in Cache
    /\ p.tok = k.tok /\ p.rot = k.rot /\ p.delta = k.delta /\ p.has_shift = k.has_shift
    /\ p.head = h /\ p.used = k.used + Len(rows)
    /\ \A i \in Cells :
        IF Within(i, h, Len(rows))
        THEN p.pos[i] = rows[i - h + 1].pos /\ p.seq_id[i] = {dest}
        ELSE p.pos[i] = k.pos[i] /\ p.seq_id[i] = k.seq_id[i]

\* The rows were written.
WrittenAs(p, rows, h, r) ==
    /\ r \in Cache
    /\ r.pos = p.pos /\ r.seq_id = p.seq_id
    /\ r.delta = p.delta /\ r.has_shift = p.has_shift
    /\ r.head = p.head /\ r.used = p.used
    /\ \A i \in Cells :
        IF Within(i, h, Len(rows))
        THEN r.tok[i] = rows[i - h + 1].tok /\ r.rot[i] = rows[i - h + 1].rot
        ELSE r.tok[i] = p.tok[i] /\ r.rot[i] = p.rot[i]

LEMMA RowAt ==
    ASSUME NEW rows \in Seq(Saved), NEW h \in Int, NEW i \in Int, Within(i, h, Len(rows))
    PROVE  /\ i - h + 1 \in 1 .. Len(rows)
           /\ i - h + 1 \in DOMAIN rows
           /\ rows[i - h + 1] \in Saved
           /\ rows[i - h + 1].pos \in Nat /\ rows[i - h + 1].rot \in Int
           /\ rows[i - h + 1].seqs \in SUBSET Seqs
           /\ rows[i - h + 1].tok \in Tokens \cup {NoToken}
<1>1. Len(rows) \in Nat /\ DOMAIN rows = 1 .. Len(rows)
    BY LenProperties
<1>2. i - h + 1 \in 1 .. Len(rows)
    BY <1>1 DEF Within
<1>3. rows[i - h + 1] \in Saved
    BY <1>2, ElementOfSeq
<1>. QED
    BY <1>1, <1>2, <1>3 DEF Saved

LEMMA PlaceForOne ==
    ASSUME NEW k, Shape(k), NEW rows \in Seq(Saved), NEW dest \in Seqs,
           NEW h \in Fits(k, Len(rows)), NEW u, Len(u) = Len(rows),
           \A n \in 1 .. Len(rows) : u[n].pos = rows[n].pos /\ u[n].seqs = {dest}
    PROVE  PlacedAs(k, rows, dest, h, Place(k, u, h))
<1>. DEFINE m == Len(rows)
            in(i) == Within(i, h, m)
            np == [i \in Cells |-> IF in(i) THEN u[i - h + 1].pos ELSE k.pos[i]]
            ns == [i \in Cells |-> IF in(i) THEN k.seq_id[i] \cup u[i - h + 1].seqs
                                            ELSE k.seq_id[i]]
            nu == k.used + m
            p  == Place(k, u, h)
<1>0. k \in Cache /\ m \in Nat
    BY LenProperties DEF Shape
<1>1. h \in Int /\ Cells \subseteq Int
    BY SizeAssumption DEF Fits, Cells
<1>2. \A i \in Cells : in(i) => /\ rows[i - h + 1].pos \in Nat
                                /\ u[i - h + 1].pos = rows[i - h + 1].pos
                                /\ u[i - h + 1].seqs = {dest}
    BY <1>1, RowAt
<1>3. \A i \in Cells : in(i) => k.seq_id[i] = {}
    <2>. SUFFICES ASSUME NEW i \in Cells, in(i) PROVE k.seq_id[i] = {}
        OBVIOUS
    <2>1. k.pos[i] < 0 /\ k.pos[i] \in Int
        BY <1>0, <1>1 DEF Fits, FitsAt, Free, Within, Cache
    <2>. QED
        BY <2>1 DEF Shape, Held, IsEmpty
<1>4. p = [k EXCEPT !.pos = np, !.seq_id = ns, !.head = h, !.used = nu]
    BY DEF Place, Within
<1>5. \A i \in Cells :
        IF in(i) THEN np[i] = rows[i - h + 1].pos /\ ns[i] = {dest}
        ELSE np[i] = k.pos[i] /\ ns[i] = k.seq_id[i]
    BY <1>2, <1>3
<1>6. \A i \in Cells : k.pos[i] \in Int /\ k.seq_id[i] \in SUBSET Seqs
    BY <1>0 DEF Cache
<1>7. np \in [Cells -> Int] /\ ns \in [Cells -> SUBSET Seqs] /\ nu \in Int
    <2>1. \A i \in Cells : np[i] \in Int /\ ns[i] \in SUBSET Seqs
        <3>. HIDE DEF np, ns, in
        <3>. QED
            BY <1>2, <1>5, <1>6
    <2>2. nu \in Int
        BY <1>0 DEF Cache
    <2>3. np = [i \in Cells |-> np[i]] /\ ns = [i \in Cells |-> ns[i]]
        OBVIOUS
    <2>. HIDE DEF np, ns, nu
    <2>. QED
        BY <2>1, <2>2, <2>3
<1>. HIDE DEF np, ns, nu, p, in
<1>8. /\ p \in Cache
      /\ p.pos = np /\ p.seq_id = ns /\ p.head = h /\ p.used = nu
      /\ p.tok = k.tok /\ p.rot = k.rot /\ p.delta = k.delta /\ p.has_shift = k.has_shift
    BY <1>0, <1>1, <1>4, <1>7 DEF Cache
<1>9. PlacedAs(k, rows, dest, h, p)
    BY <1>5, <1>8 DEF PlacedAs, nu, in
<1>. QED
    BY <1>9 DEF p

LEMMA RowsWritten ==
    ASSUME NEW p \in Cache, NEW rows \in Seq(Saved), NEW h \in Int
    PROVE  WrittenAs(p, rows, h, PutRows(p, rows, h))
<1>. DEFINE in(i) == Within(i, h, Len(rows))
            nt == [i \in Cells |-> IF in(i) THEN rows[i - h + 1].tok ELSE p.tok[i]]
            nr == [i \in Cells |-> IF in(i) THEN rows[i - h + 1].rot ELSE p.rot[i]]
            r  == PutRows(p, rows, h)
<1>1. r = [p EXCEPT !.tok = nt, !.rot = nr]
    BY DEF PutRows, Within, Cache
<1>2. \A i \in Cells : in(i) => /\ rows[i - h + 1].rot \in Int
                                /\ rows[i - h + 1].tok \in Tokens \cup {NoToken}
    BY RowAt, SizeAssumption DEF Cells
<1>3. \A i \in Cells :
        IF in(i) THEN nt[i] = rows[i - h + 1].tok /\ nr[i] = rows[i - h + 1].rot
        ELSE nt[i] = p.tok[i] /\ nr[i] = p.rot[i]
    OBVIOUS
<1>4. nt \in [Cells -> Tokens \cup {NoToken}] /\ nr \in [Cells -> Int]
    <2>. HIDE DEF in
    <2>. QED
        BY <1>2 DEF Cache
<1>. HIDE DEF nt, nr, r, in
<1>5. /\ r \in Cache
      /\ r.tok = nt /\ r.rot = nr /\ r.pos = p.pos /\ r.seq_id = p.seq_id
      /\ r.delta = p.delta /\ r.has_shift = p.has_shift
      /\ r.head = p.head /\ r.used = p.used
    BY <1>1, <1>4 DEF Cache
<1>6. WrittenAs(p, rows, h, r)
    BY <1>3, <1>5 DEF WrittenAs, in
<1>. QED
    BY <1>6 DEF r

\* A cache with restored cells is in shape, and its books are right.
LEMMA PlacedShape ==
    ASSUME NEW k, Shape(k), NEW rows \in Seq(Saved), rows # <<>>, NEW dest \in Seqs,
           NEW h \in Fits(k, Len(rows)), NEW p, PlacedAs(k, rows, dest, h, p)
    PROVE  /\ Shape(p)
           /\ PosIffSeqIn(k) => PosIffSeqIn(p)
           /\ Exact(k) => Exact(p)
<1>. DEFINE m == Len(rows)
            F == h .. h + m - 1
<1>0. k \in Cache /\ p \in Cache /\ m \in Nat \ {0} /\ dest \in Nat
    BY EmptySeq, LenProperties, SeqsAssumption DEF Shape, PlacedAs
<1>1. /\ h \in Cells /\ h \in Int /\ h \in 0 .. Size /\ h + m <= Size
      /\ Cells \subseteq Int
    BY SizeAssumption DEF Fits, FitsAt, Cells
<1>2. \A i \in Cells : Within(i, h, m) => p.pos[i] >= 0 /\ p.seq_id[i] = {dest}
    <2>. SUFFICES ASSUME NEW i \in Cells, Within(i, h, m)
                  PROVE  p.pos[i] >= 0 /\ p.seq_id[i] = {dest}
        OBVIOUS
    <2>1. rows[i - h + 1].pos \in Nat
        BY <1>1, RowAt
    <2>. QED
        BY <2>1 DEF PlacedAs
<1>3. \A i \in Cells : ~Within(i, h, m) =>
                        p.pos[i] = k.pos[i] /\ p.seq_id[i] = k.seq_id[i]
    BY DEF PlacedAs
<1>4. p.delta = k.delta /\ p.has_shift = k.has_shift /\ p.head = h /\ p.used = k.used + m
    BY DEF PlacedAs
<1>5. Shape(p)
    BY <1>0, <1>1, <1>2, <1>3, <1>4 DEF Shape, Held, IsEmpty, ShiftFlagIn, HeadInRangeIn
<1>6. PosIffSeqIn(k) => PosIffSeqIn(p)
    BY <1>2, <1>3 DEF PosIffSeqIn, IsEmpty
<1>7. F \in SUBSET Cells /\ \A i \in Cells : i \in F <=> Within(i, h, m)
    BY <1>0, <1>1, SizeAssumption DEF Within, Cells
<1>8. Cardinality(F) = m
    <2>1. h \in Int /\ h + m - 1 \in Int
        BY <1>0, <1>1
    <2>2. Cardinality(F) = IF h > h + m - 1 THEN 0 ELSE h + m - 1 - h + 1
        BY <2>1, FS_Interval
    <2>. HIDE DEF F, m
    <2>. QED
        BY <1>0, <1>1, <2>2
<1>9. \A i \in F : k.seq_id[i] = {}
    <2>. SUFFICES ASSUME NEW i \in Cells, Within(i, h, m) PROVE k.seq_id[i] = {}
        BY <1>7
    <2>1. k.pos[i] < 0 /\ k.pos[i] \in Int
        BY <1>0, <1>1 DEF Fits, FitsAt, Free, Within, Cache
    <2>. QED
        BY <2>1 DEF Shape, Held, IsEmpty
<1>. HIDE DEF F, m
<1>10. F \cap UsedCells(k) = {} /\ UsedCells(p) = UsedCells(k) \cup F
    BY <1>2, <1>3, <1>7, <1>9 DEF UsedCells, IsEmpty
<1>11. Exact(k) => Exact(p)
    BY <1>4, <1>7, <1>8, <1>10, ExactMore
<1>. QED
    BY <1>5, <1>6, <1>11

LEMMA WrittenShape ==
    ASSUME NEW p, Shape(p), NEW rows, NEW h, NEW r, WrittenAs(p, rows, h, r)
    PROVE  /\ Shape(r)
           /\ PosIffSeqIn(p) => PosIffSeqIn(r)
           /\ Exact(p) => Exact(r)
BY DEF WrittenAs, Shape, Held, PosIffSeqIn, Exact, UsedCells, IsEmpty, ShiftFlagIn,
       HeadInRangeIn

\* No delta of a former token is left for a restored row.
LEMMA RestoredRotation ==
    ASSUME NEW k, Shape(k), Settled(k), RotationIn(k), NEW rows \in Seq(Saved),
           \A n \in DOMAIN rows : rows[n].rot = rows[n].pos, NEW dest \in Seqs,
           NEW h \in Fits(k, Len(rows)), NEW p, PlacedAs(k, rows, dest, h, p),
           NEW r, WrittenAs(p, rows, h, r)
    PROVE  RotationIn(r)
<1>. SUFFICES ASSUME NEW i \in Cells, r.seq_id[i] # {}
              PROVE  r.rot[i] + r.delta[i] = r.pos[i]
    BY DEF RotationIn, UsedCells, IsEmpty
<1>1. h \in Int /\ i \in Int
    BY SizeAssumption DEF Fits, Cells
<1>2. r.delta[i] = 0
    BY DEF WrittenAs, PlacedAs, Settled
<1>3. CASE Within(i, h, Len(rows))
    <2>1. rows[i - h + 1].rot = rows[i - h + 1].pos /\ rows[i - h + 1].pos \in Nat
        BY <1>1, <1>3, RowAt
    <2>. QED
        BY <1>2, <1>3, <2>1 DEF WrittenAs, PlacedAs
<1>4. CASE ~Within(i, h, Len(rows))
    <2>1. r.rot[i] = k.rot[i] /\ r.pos[i] = k.pos[i] /\ k.seq_id[i] # {}
        BY <1>4 DEF WrittenAs, PlacedAs
    <2>2. k.rot[i] + k.delta[i] = k.pos[i] /\ k.delta[i] = 0
        BY <2>1 DEF RotationIn, UsedCells, IsEmpty, Settled
    <2>. QED
        BY <1>2, <2>1, <2>2
<1>. QED
    BY <1>3, <1>4

\* The first n cells of a saved state are those of a cache just cleared.
SetAs(k, rows, n, q) ==
    /\ q \in Cache
    /\ q.delta = k.delta /\ q.has_shift = k.has_shift /\ q.head = 0
    /\ \A i \in Cells : IF i < n THEN q.pos[i] = rows[i + 1].pos /\ q.seq_id[i] = rows[i + 1].seqs
                                  ELSE q.pos[i] = -1 /\ q.seq_id[i] = {}

LEMMA CellsSet ==
    ASSUME NEW k \in Cache, file.cells \in Seq(Saved), NEW n \in 0 .. Len(file.cells)
    PROVE  SetAs(k, file.cells, n, SetCells(Clear(k), n))
<1>. DEFINE c  == Clear(k)
            np == [i \in Cells |-> IF i < n THEN file.cells[i + 1].pos ELSE c.pos[i]]
            ns == [i \in Cells |-> IF i < n THEN file.cells[i + 1].seqs ELSE c.seq_id[i]]
            q  == SetCells(c, n)
<1>1. /\ c \in Cache
      /\ c.delta = k.delta /\ c.has_shift = k.has_shift /\ c.head = 0
      /\ \A i \in Cells : c.pos[i] = -1 /\ c.seq_id[i] = {}
    BY Cleared
<1>. HIDE DEF c
<1>2. q = [c EXCEPT !.pos = np, !.seq_id = ns]
    BY <1>1 DEF SetCells, Cache
<1>3. \A i \in Cells : i < n => /\ file.cells[i + 1].pos \in Nat
                                /\ file.cells[i + 1].seqs \in SUBSET Seqs
    <2>. SUFFICES ASSUME NEW i \in Cells, i < n
                  PROVE  file.cells[i + 1] \in Saved
        BY DEF Saved
    <2>1. i + 1 \in 1 .. Len(file.cells)
        BY LenProperties, SizeAssumption DEF Cells
    <2>. QED
        BY <2>1, ElementOfSeq
<1>4. \A i \in Cells : IF i < n THEN np[i] = file.cells[i + 1].pos /\ ns[i] = file.cells[i + 1].seqs
                                ELSE np[i] = -1 /\ ns[i] = {}
    BY <1>1
<1>5. np \in [Cells -> Int] /\ ns \in [Cells -> SUBSET Seqs]
    BY <1>1, <1>3
<1>. HIDE DEF np, ns, q
<1>6. /\ q \in Cache
      /\ q.pos = np /\ q.seq_id = ns
      /\ q.delta = k.delta /\ q.has_shift = k.has_shift /\ q.head = 0
    BY <1>1, <1>2, <1>5 DEF Cache
<1>7. SetAs(k, file.cells, n, q)
    BY <1>4, <1>6 DEF SetAs
<1>. QED
    BY <1>7 DEF q, c

LEMMA SetPositions ==
    ASSUME NEW rows \in Seq(Saved), NEW n \in 0 .. Len(rows), NEW i \in Cells, i < n
    PROVE  i + 1 \in DOMAIN rows /\ rows[i + 1].pos \in Nat /\ rows[i + 1].seqs \in SUBSET Seqs
<1>1. i + 1 \in 1 .. Len(rows) /\ DOMAIN rows = 1 .. Len(rows)
    BY LenProperties, SizeAssumption DEF Cells
<1>2. rows[i + 1] \in Saved
    BY <1>1, ElementOfSeq
<1>. QED
    BY <1>1, <1>2 DEF Saved

\* Such a cache is in shape, and so it is when the last of its cells lacks
\* sequences.
LEMMA SetShape ==
    ASSUME NEW k, Shape(k), NEW rows \in Seq(Saved), NEW n \in 0 .. Len(rows),
           NEW q, SetAs(k, rows, n, q)
    PROVE  /\ Shape(q)
           /\ \A j \in Cells, S \in SUBSET Seqs :
                j < n => Shape([q EXCEPT !.seq_id[j] = S])
<1>1. \A i \in Cells : i < n => q.pos[i] >= 0
    BY SetPositions DEF SetAs
<1>2. Shape(q)
    BY <1>1, SizeAssumption DEF SetAs, Shape, Held, IsEmpty, ShiftFlagIn, HeadInRangeIn
<1>3. ASSUME NEW j \in Cells, NEW S \in SUBSET Seqs, j < n
      PROVE  Shape([q EXCEPT !.seq_id[j] = S])
    <2>. DEFINE ns == [q.seq_id EXCEPT ![j] = S]
                r  == [q EXCEPT !.seq_id = ns]
    <2>0. q \in Cache
        BY DEF SetAs
    <2>1. [q EXCEPT !.seq_id[j] = S] = r
        OBVIOUS
    <2>2. ns \in [Cells -> SUBSET Seqs] /\ \A i \in Cells : i # j => ns[i] = q.seq_id[i]
        BY <2>0 DEF Cache
    <2>. HIDE DEF ns
    <2>3. /\ r \in Cache /\ r.seq_id = ns
          /\ r.pos = q.pos /\ r.delta = q.delta /\ r.has_shift = q.has_shift /\ r.head = q.head
        BY <2>0, <2>2 DEF Cache
    <2>. HIDE DEF r
    <2>4. Shape(r)
        BY <1>1, <1>2, <1>3, <2>2, <2>3 DEF Shape, Held, IsEmpty, ShiftFlagIn, HeadInRangeIn
    <2>. QED
        BY <2>1, <2>4
<1>. QED
    BY <1>2, <1>3

-----------------------------------------------------------------------------
(* What was restored is what was saved.                                    *)

ExactlySeq(k, rows, s) ==
    LET mine == {i \in Cells : s \in k.seq_id[i]}
    IN  /\ \E f \in Bijection(DOMAIN rows, mine) :
            \A n \in DOMAIN rows : RowOf(k, f[n]) = SavedRow(rows[n])
        /\ \A i \in mine : k.seq_id[i] = {s}

ExactlyAll(k, rows) ==
    \E f \in Bijection(DOMAIN rows, UsedCells(k)) :
        \A n \in DOMAIN rows : RowOf(k, f[n]) = SavedRow(rows[n]) /\ k.seq_id[f[n]] = rows[n].seqs

\* The n-th of the cells from h on.
LEMMA RowByRow ==
    ASSUME NEW h \in Cells, NEW rows \in Seq(Saved), h + Len(rows) <= Size
    PROVE  LET f == [n \in DOMAIN rows |-> h + n - 1]
           IN  /\ f \in Bijection(DOMAIN rows, {i \in Cells : Within(i, h, Len(rows))})
               /\ \A n \in DOMAIN rows : /\ f[n] \in Cells /\ Within(f[n], h, Len(rows))
                                         /\ f[n] - h + 1 = n
<1>. DEFINE m == Len(rows)
            F == {i \in Cells : Within(i, h, m)}
            f == [n \in DOMAIN rows |-> h + n - 1]
<1>1. m \in Nat /\ DOMAIN rows = 1 .. m /\ h \in Int /\ h >= 0 /\ Cells \subseteq Int
    BY LenProperties, SizeAssumption DEF Cells
<1>. HIDE DEF m
<1>2. \A n \in 1 .. m : /\ f[n] = h + n - 1 /\ f[n] \in Cells
                         /\ Within(f[n], h, m) /\ f[n] - h + 1 = n
    <2>. TAKE n \in 1 .. m
    <2>1. f[n] = h + n - 1
        BY <1>1
    <2>2. h + n - 1 \in Cells /\ Within(h + n - 1, h, m) /\ (h + n - 1) - h + 1 = n
        BY <1>1, SizeAssumption DEF Cells, Within, m
    <2>. QED
        BY <2>1, <2>2
<1>3. f \in [1 .. m -> F]
    BY <1>1, <1>2
<1>4. \A a, b \in 1 .. m : f[a] = f[b] => a = b
    BY <1>2
<1>5. \A i \in F : \E n \in 1 .. m : f[n] = i
    <2>. TAKE i \in F
    <2>1. i - h + 1 \in 1 .. m
        BY <1>1 DEF Within
    <2>2. f[i - h + 1] = h + (i - h + 1) - 1
        BY <1>1, <2>1
    <2>3. f[i - h + 1] = i
        BY <1>1, <2>2
    <2>. QED
        BY <2>1, <2>3
<1>. HIDE DEF f, F
<1>6. f \in Bijection(1 .. m, F)
    BY <1>3, <1>4, <1>5 DEF Bijection, Injection, Surjection, IsInjective
<1>. QED
    BY <1>1, <1>2, <1>6 DEF f, F, m

\* m cells from h on.
LEMMA CountWithin ==
    ASSUME NEW h \in Cells, NEW m \in Nat, h + m <= Size
    PROVE  LET F == {i \in Cells : Within(i, h, m)} IN F \subseteq Cells /\ Cardinality(F) = m
<1>. DEFINE F == {i \in Cells : Within(i, h, m)}
            I == h .. h + m - 1
<1>1. h \in Int /\ h + m - 1 \in Int /\ h >= 0
    BY SizeAssumption DEF Cells
<1>2. \A i : i \in I <=> i \in Cells /\ Within(i, h, m)
    BY <1>1, SizeAssumption DEF Cells, Within
<1>3. F = I
    BY <1>2
<1>4. Cardinality(I) = IF h > h + m - 1 THEN 0 ELSE h + m - 1 - h + 1
    BY <1>1, FS_Interval
<1>. HIDE DEF I
<1>5. Cardinality(I) = m
    BY <1>1, <1>4
<1>. QED
    BY <1>3, <1>5

LEMMA SeqRestored ==
    ASSUME NEW k, NEW rows \in Seq(Saved), NEW dest, \A i \in Cells : dest \notin k.seq_id[i],
           NEW h \in Fits(k, Len(rows)), NEW p, PlacedAs(k, rows, dest, h, p),
           NEW r, WrittenAs(p, rows, h, r)
    PROVE  ExactlySeq(r, rows, dest)
<1>. DEFINE m == Len(rows)
            F == {i \in Cells : Within(i, h, m)}
            mine == {i \in Cells : dest \in r.seq_id[i]}
            f == [n \in DOMAIN rows |-> h + n - 1]
<1>1. h \in Cells /\ h + m <= Size
    BY DEF Fits, FitsAt
<1>2. \A i \in Cells : r.seq_id[i] = IF Within(i, h, m) THEN {dest} ELSE k.seq_id[i]
    BY DEF WrittenAs, PlacedAs
<1>3. mine = F
    BY <1>2
<1>4. /\ f \in Bijection(DOMAIN rows, F)
      /\ \A n \in DOMAIN rows : f[n] \in Cells /\ Within(f[n], h, m) /\ f[n] - h + 1 = n
    BY <1>1, RowByRow
<1>. HIDE DEF f
<1>5. \A n \in DOMAIN rows : RowOf(r, f[n]) = SavedRow(rows[n])
    BY <1>4 DEF WrittenAs, PlacedAs, RowOf, SavedRow
<1>6. \A i \in mine : r.seq_id[i] = {dest}
    BY <1>2
<1>7. f \in Bijection(DOMAIN rows, mine)
    BY <1>3, <1>4
<1>. HIDE DEF F
<1>. QED
    BY <1>5, <1>6, <1>7 DEF ExactlySeq

\* A whole cache that is restored, and its books.
LEMMA AllRestored ==
    ASSUME NEW k, Shape(k), NEW rows \in Seq(Saved), Len(rows) <= Size,
           \A n \in DOMAIN rows : rows[n].seqs # {},
           NEW q, SetAs(k, rows, Len(rows), q), q.used = Len(rows),
           NEW r, WrittenAs(q, rows, 0, r)
    PROVE  /\ ExactlyAll(r, rows) /\ PosIffSeqIn(r) /\ Exact(r)
           /\ Settled(k) /\ (\A n \in DOMAIN rows : rows[n].rot = rows[n].pos) => RotationIn(r)
<1>. DEFINE m == Len(rows)
            F == {i \in Cells : Within(i, 0, m)}
            U == UsedCells(r)
            row(n) == <<<<rows[n].tok, rows[n].pos, rows[n].rot>>, rows[n].seqs>>
<1>0. m \in Nat /\ DOMAIN rows = 1 .. m /\ 0 \in Cells /\ Cells \subseteq Nat /\ 0 + m <= Size
    BY LenProperties, SizeAssumption DEF Cells
<1>1. \A i \in Cells : Within(i, 0, m) <=> i < m
    BY <1>0 DEF Within
<1>2. ASSUME NEW i \in Cells, i < m
      PROVE  /\ i + 1 \in DOMAIN rows
             /\ r.pos[i] = rows[i + 1].pos /\ r.seq_id[i] = rows[i + 1].seqs
             /\ r.tok[i] = rows[i + 1].tok /\ r.rot[i] = rows[i + 1].rot
             /\ rows[i + 1].pos \in Nat /\ rows[i + 1].seqs # {}
    <2>1. i + 1 \in DOMAIN rows /\ rows[i + 1].pos \in Nat
        BY <1>0, <1>2, SetPositions
    <2>2. i - 0 + 1 = i + 1 /\ Within(i, 0, m)
        BY <1>0, <1>1, <1>2
    <2>3. r.tok[i] = rows[i - 0 + 1].tok /\ r.rot[i] = rows[i - 0 + 1].rot
        BY <2>2 DEF WrittenAs
    <2>4. r.pos[i] = rows[i + 1].pos /\ r.seq_id[i] = rows[i + 1].seqs
        BY <1>2 DEF WrittenAs, SetAs
    <2>. QED
        BY <2>1, <2>2, <2>3, <2>4
<1>3. \A i \in Cells : ~(i < m) => r.pos[i] = -1 /\ r.seq_id[i] = {}
    BY DEF WrittenAs, SetAs
<1>4. U = F
    BY <1>1, <1>2, <1>3 DEF UsedCells, IsEmpty
<1>5. Cardinality(F) = m
    BY <1>0, CountWithin
<1>6. Exact(r)
    BY <1>4, <1>5 DEF Exact, WrittenAs
<1>7. PosIffSeqIn(r)
    BY <1>2, <1>3 DEF PosIffSeqIn, IsEmpty
<1>8. \A i \in F : RowOf(r, i) = SavedRow(rows[i - 0 + 1]) /\ r.seq_id[i] = rows[i - 0 + 1].seqs
    <2>. TAKE i \in F
    <2>1. i - 0 + 1 = i + 1
        BY <1>0
    <2>. QED
        BY <1>1, <1>2, <2>1 DEF RowOf, SavedRow
<1>. DEFINE f == [n \in DOMAIN rows |-> 0 + n - 1]
<1>9. /\ f \in Bijection(DOMAIN rows, F)
      /\ \A n \in DOMAIN rows : f[n] \in Cells /\ Within(f[n], 0, m) /\ f[n] - 0 + 1 = n
    BY <1>0, RowByRow
<1>. HIDE DEF f
<1>10. \A n \in DOMAIN rows : RowOf(r, f[n]) = SavedRow(rows[n]) /\ r.seq_id[f[n]] = rows[n].seqs
    BY <1>8, <1>9
<1>. HIDE DEF F
<1>12. ExactlyAll(r, rows)
    BY <1>4, <1>9, <1>10 DEF ExactlyAll
<1>13. ASSUME Settled(k), \A n \in DOMAIN rows : rows[n].rot = rows[n].pos
       PROVE  RotationIn(r)
    <2>. SUFFICES ASSUME NEW i \in Cells, r.seq_id[i] # {}
                  PROVE  r.rot[i] + r.delta[i] = r.pos[i]
        BY DEF RotationIn, UsedCells, IsEmpty
    <2>1. i < m /\ r.delta[i] = 0
        BY <1>3, <1>13 DEF WrittenAs, SetAs, Settled
    <2>. QED
        BY <1>2, <1>13, <2>1
<1>. QED
    BY <1>6, <1>7, <1>12, <1>13

-----------------------------------------------------------------------------
(* The steps.                                                              *)

\* dest removed from every cell: nothing else changes in the cells of others.
LEMMA RemovedEverywhere ==
    ASSUME NEW k, Shape(k), NEW dest \in Seqs, NEW r, r = SeqRm(k, dest, -1, -1)
    PROVE  /\ r.tok = k.tok /\ r.rot = k.rot /\ r.delta = k.delta /\ r.has_shift = k.has_shift
           /\ \A i \in Cells : /\ r.seq_id[i] = k.seq_id[i] \ {dest}
                               /\ r.seq_id[i] # {} => r.pos[i] = k.pos[i]
<1>. DEFINE hit   == RmHit(k, dest, -1, -1)
            freed == RmFreed(k, dest, -1, -1)
            np == [i \in Cells |-> IF i \in freed THEN -1 ELSE k.pos[i]]
            ns == [i \in Cells |-> IF i \in freed THEN {}
                                   ELSE IF i \in hit THEN k.seq_id[i] \ {dest}
                                   ELSE k.seq_id[i]]
<1>0. k \in Cache /\ dest # AnySeq
    BY SeqsAssumption DEF Shape, AnySeq
<1>1. /\ r.seq_id = ns /\ r.pos = np
      /\ r.tok = k.tok /\ r.rot = k.rot /\ r.delta = k.delta /\ r.has_shift = k.has_shift
    BY <1>0 DEF SeqRm, Cache
<1>2. ASSUME NEW i \in Cells
      PROVE  /\ i \in hit <=> dest \in k.seq_id[i]
             /\ i \in freed <=> k.seq_id[i] = {dest}
    <2>1. dest \in k.seq_id[i] => k.pos[i] >= 0
        BY DEF Shape, Held, IsEmpty
    <2>2. i \in hit <=> dest \in k.seq_id[i]
        BY <1>0, <2>1 DEF RmHit, InRange
    <2>. HIDE DEF hit
    <2>. QED
        BY <1>0, <2>2 DEF RmFreed, hit
<1>3. \A i \in Cells : /\ ns[i] = k.seq_id[i] \ {dest}
                       /\ ns[i] # {} => np[i] = k.pos[i]
    <2>. HIDE DEF hit, freed
    <2>. QED
        BY <1>2
<1>. HIDE DEF ns, np
<1>. QED
    BY <1>1, <1>3

LEMMA UbatchOfOne ==
    ASSUME file.cells \in Seq(Saved), NEW dest \in Seqs
    PROVE  /\ Len(AsUbatch(dest)) = Len(file.cells)
           /\ \A n \in 1 .. Len(file.cells) : /\ AsUbatch(dest)[n].pos = file.cells[n].pos
                                              /\ AsUbatch(dest)[n].seqs = {dest}
<1>. DEFINE m == Len(file.cells)
            u == AsUbatch(dest)
<1>1. m \in Nat /\ DOMAIN file.cells = 1 .. m /\ \A n \in 1 .. m : file.cells[n] \in Saved
    BY LenProperties, ElementOfSeq
<1>2. u = [n \in 1 .. m |-> [file.cells[n] EXCEPT !.seqs = {dest}]]
    BY <1>1 DEF AsUbatch
<1>3. \A n \in 1 .. m : /\ [file.cells[n] EXCEPT !.seqs = {dest}] \in Saved
                        /\ [file.cells[n] EXCEPT !.seqs = {dest}].pos = file.cells[n].pos
                        /\ [file.cells[n] EXCEPT !.seqs = {dest}].seqs = {dest}
    BY <1>1 DEF Saved
<1>. HIDE DEF m, u
<1>4. u \in [1 .. m -> Saved] /\ DOMAIN u = 1 .. m
    BY <1>2, <1>3
<1>5. u \in Seq(Saved)
    BY <1>1, <1>4, SeqDef
<1>6. Len(u) = m
    BY <1>1, <1>4, <1>5, LenProperties
<1>. QED
    BY <1>2, <1>3, <1>6 DEF m, u

\* Without a pending shift there is no delta.
LEMMA ReadySettled ==
    ASSUME Ready, Shape(kv), "pending shift" \notin faces
    PROVE  Settled(kv)
BY DEF Ready, Shape, ShiftFlagIn, Settled

\* What the invariant is after a step that restores nothing, or what it says.
LEMMA RestoredInv ==
    ASSUME \/ restored' = Nothing
           \/ /\ restored' \in Seqs
              /\ ~file.whole /\ file.cells # <<>> /\ file' = file
              /\ ExactlySeq(kv', file.cells, restored')
           \/ /\ restored' = AnySeq
              /\ file.whole /\ file' = file
              /\ ExactlyAll(kv', file.cells)
    PROVE  RestoredKind' /\ RestoredExactly'
<1>0. Nothing \notin Seqs /\ AnySeq \notin Seqs /\ Nothing # AnySeq
    BY SeqsAssumption DEF Nothing, AnySeq
<1>1. CASE restored' = Nothing
    BY <1>0, <1>1 DEF RestoredKind, RestoredExactly
<1>2. CASE /\ restored' \in Seqs
           /\ ~file.whole /\ file.cells # <<>> /\ file' = file
           /\ ExactlySeq(kv', file.cells, restored')
    BY <1>0, <1>2 DEF RestoredKind, RestoredExactly, ExactlySeq
<1>3. CASE restored' = AnySeq /\ file.whole /\ file' = file /\ ExactlyAll(kv', file.cells)
    BY <1>0, <1>3 DEF RestoredKind, RestoredExactly, ExactlyAll, UsedCells, IsEmpty
<1>. QED
    BY <1>1, <1>2, <1>3

\* The cells of other sequences than dest stay.
Apart(k, r, dest) ==
    \A i \in Cells :
        k.seq_id[i] \ {dest} # {} =>
            /\ RowOf(r, i) = RowOf(k, i)
            /\ r.seq_id[i] \ {dest} = k.seq_id[i] \ {dest}

LEMMA RemovedApart ==
    ASSUME NEW k, Shape(k), NEW dest \in Seqs, NEW r, r = SeqRm(k, dest, -1, -1)
    PROVE  Apart(k, r, dest)
<1>1. /\ r.tok = k.tok /\ r.rot = k.rot
      /\ \A i \in Cells : /\ r.seq_id[i] = k.seq_id[i] \ {dest}
                          /\ r.seq_id[i] # {} => r.pos[i] = k.pos[i]
    BY RemovedEverywhere
<1>2. ASSUME NEW i \in Cells, k.seq_id[i] \ {dest} # {}
      PROVE  /\ RowOf(r, i) = RowOf(k, i)
             /\ r.seq_id[i] \ {dest} = k.seq_id[i] \ {dest}
    <2>1. r.seq_id[i] = k.seq_id[i] \ {dest}
        BY <1>1
    <2>2. r.seq_id[i] # {}
        BY <1>2, <2>1
    <2>3. r.pos[i] = k.pos[i]
        BY <1>1, <2>2
    <2>4. RowOf(r, i) = RowOf(k, i)
        BY <1>1, <2>3 DEF RowOf
    <2>5. r.seq_id[i] \ {dest} = k.seq_id[i] \ {dest}
        BY <2>1
    <2>. QED
        BY <2>4, <2>5
<1>. QED
    BY <1>2 DEF Apart

LEMMA ApartTwice ==
    ASSUME NEW k, NEW q, NEW r, NEW dest, Apart(k, q, dest), Apart(q, r, dest)
    PROVE  Apart(k, r, dest)
BY DEF Apart

LEMMA PlacedApart ==
    ASSUME NEW k, Shape(k), NEW rows \in Seq(Saved), NEW dest,
           NEW h \in Fits(k, Len(rows)), NEW p, PlacedAs(k, rows, dest, h, p)
    PROVE  /\ Apart(k, p, dest)
           /\ \A r : WrittenAs(p, rows, h, r) => Apart(k, r, dest)
<1>0. h \in Int /\ Cells \subseteq Int /\ Len(rows) \in Nat /\ k \in Cache
    BY LenProperties, SizeAssumption DEF Fits, Cells, Shape
<1>1. ASSUME NEW i \in Cells, k.seq_id[i] \ {dest} # {}
      PROVE  ~Within(i, h, Len(rows))
    <2>1. k.pos[i] >= 0 /\ k.pos[i] \in Int
        BY <1>0, <1>1 DEF Shape, Held, IsEmpty, Cache
    <2>. QED
        BY <1>0, <2>1 DEF Fits, FitsAt, Free, Within
<1>2. Apart(k, p, dest)
    BY <1>1 DEF Apart, PlacedAs, RowOf
<1>3. ASSUME NEW r, WrittenAs(p, rows, h, r)
      PROVE  Apart(k, r, dest)
    BY <1>1, <1>3 DEF Apart, PlacedAs, WrittenAs, RowOf
<1>. QED
    BY <1>2, <1>3

LEMMA SaveStep ==
    ASSUME SessionInv, SaveAll \/ \E s \in Seqs : SaveSeq(s)
    PROVE  SessionInv' /\ kv' = kv
<1>. DEFINE good == "damaged file" \notin faces
            clean == faces \cap {"damaged file", "pending shift"} = {}
<1>0. /\ Shape(kv) /\ sbatch \in Seq(Entry) /\ steps \in Nat
      /\ good => PosIffSeqIn(kv) /\ Exact(kv)
      /\ clean => RotationIn(kv)
      /\ kv \in Cache
    BY DEF SessionInv, Shape
<1>1. /\ Ready /\ restored' = Nothing
      /\ kv' = kv /\ sbatch' = sbatch /\ steps' = steps /\ faces' = faces
    BY DEF SaveAll, SaveSeq, Save
<1>2. clean => Settled(kv)
    BY <1>0, <1>1, ReadySettled
<1>3. FileGood(file') /\ (clean => FileSettled(file'))
    <2>1. CASE SaveAll
        <3>. DEFINE U == UsedCells(kv)
                    S == kv.seq_id
                    cells == RowsOf(kv, U, S)
        <3>1. file' = [whole |-> TRUE, cells |-> cells]
            BY <2>1 DEF SaveAll, Save, RowsOf
        <3>2. /\ U \in SUBSET Cells /\ S \in [Cells -> SUBSET Seqs]
              /\ \A i \in U : kv.seq_id[i] # {}
              /\ \A i \in U : S[i] # {}
            BY <1>0 DEF UsedCells, IsEmpty, Cache
        <3>. HIDE DEF U, S
        <3>3. /\ cells \in Seq(Saved)
              /\ (\A i \in U : S[i] # {}) => \A n \in DOMAIN cells : cells[n].seqs # {}
              /\ Settled(kv) /\ RotationIn(kv) => \A n \in DOMAIN cells : cells[n].rot = cells[n].pos
            BY <1>0, <3>2, SavedGood
        <3>. HIDE DEF cells
        <3>4. \A n \in DOMAIN cells : cells[n].seqs # {}
            BY <3>2, <3>3
        <3>. QED
            BY <1>0, <1>2, <3>1, <3>3, <3>4 DEF FileGood, FileSettled, File
    <2>2. ASSUME NEW s \in Seqs, SaveSeq(s)
          PROVE  FileGood(file') /\ (clean => FileSettled(file'))
        <3>. DEFINE I == {i \in Cells : s \in kv.seq_id[i]}
                    S == [i \in Cells |-> {}]
                    at == CellsIn(kv, I)
                    cells == RowsOf(kv, I, S)
        <3>1. I \in SUBSET Cells /\ (\A i \in I : kv.seq_id[i] # {}) /\ S \in [Cells -> SUBSET Seqs]
            OBVIOUS
        <3>2. \A n \in DOMAIN at : S[at[n]] = {}
            <4>. HIDE DEF I
            <4>. QED
                BY <3>1, CellsInside
        <3>3. file' = [whole |-> FALSE, cells |-> [n \in DOMAIN at |-> Row(kv, at[n], {})]]
            BY <2>2 DEF SaveSeq, Save
        <3>. HIDE DEF I, S
        <3>4. file' = [whole |-> FALSE, cells |-> cells]
            BY <3>2, <3>3 DEF RowsOf
        <3>5. /\ cells \in Seq(Saved)
              /\ Settled(kv) /\ RotationIn(kv) => \A n \in DOMAIN cells : cells[n].rot = cells[n].pos
            BY <1>0, <3>1, SavedGood
        <3>. HIDE DEF cells
        <3>. QED
            BY <1>0, <1>2, <3>4, <3>5 DEF FileGood, FileSettled, File
    <2>. QED
        BY <2>1, <2>2
<1>4. RestoredKind' /\ RestoredExactly'
    BY <1>1, RestoredInv
<1>. QED
    BY <1>0, <1>1, <1>3, <1>4 DEF SessionInv

\* A step that does not save: what is left of the invariant is to be shown of the
\* cache alone.
LEMMA CacheAlone ==
    ASSUME SessionInv, faces' = faces, file' = file, sbatch' \in Seq(Entry), steps' \in Nat,
           RestoredKind', RestoredExactly', Shape(kv'),
           "damaged file" \notin faces => PosIffSeqIn(kv') /\ Exact(kv'),
           faces \cap {"damaged file", "pending shift"} = {} => RotationIn(kv')
    PROVE  SessionInv'
BY DEF SessionInv, FileGood, FileSettled, Exact, Shape, Held, PosIffSeqIn, RotationIn,
       ShiftFlagIn, HeadInRangeIn, UsedCells, IsEmpty

LEMMA RestoreKeeps ==
    ASSUME SessionInv, faces' = faces, sbatch' = sbatch, file' = file, steps' = steps,
           RestoredKind', RestoredExactly', Shape(kv'),
           "damaged file" \notin faces => PosIffSeqIn(kv') /\ Exact(kv'),
           faces \cap {"damaged file", "pending shift"} = {} => RotationIn(kv')
    PROVE  SessionInv'
<1>1. sbatch \in Seq(Entry) /\ steps \in Nat
    BY DEF SessionInv
<1>. QED
    BY <1>1, CacheAlone

\* dest removed from the cache.
LEMMA RemoveKeeps ==
    ASSUME SessionInv, NEW dest \in Seqs, NEW k, k = SeqRm(kv, dest, -1, -1)
    PROVE  /\ Shape(kv) /\ Shape(k) /\ Keeps(kv, k) /\ Apart(kv, k, dest)
           /\ k.delta = kv.delta /\ \A i \in Cells : k.seq_id[i] = kv.seq_id[i] \ {dest}
           /\ "damaged file" \notin faces => PosIffSeqIn(k) /\ Exact(k)
           /\ faces \cap {"damaged file", "pending shift"} = {} => RotationIn(k)
<1>1. /\ Shape(kv)
      /\ "damaged file" \notin faces => PosIffSeqIn(kv) /\ Exact(kv)
      /\ faces \cap {"damaged file", "pending shift"} = {} => RotationIn(kv)
    BY DEF SessionInv
<1>2. Keeps(kv, k)
    BY <1>1, SeqRmKeeps
<1>3. PosIffSeqIn(kv) /\ Exact(kv) => Exact(k)
    BY <1>1, SeqRmExact
<1>4. Apart(kv, k, dest)
    BY <1>1, RemovedApart
<1>5. /\ k.delta = kv.delta
      /\ \A i \in Cells : /\ k.seq_id[i] = kv.seq_id[i] \ {dest}
                          /\ k.seq_id[i] # {} => k.pos[i] = kv.pos[i]
    <2>1. Shape(kv)
        BY <1>1
    <2>. QED
        BY <2>1, RemovedEverywhere
<1>. QED
    BY <1>1, <1>2, <1>3, <1>4, <1>5 DEF Keeps

LEMMA RestoreSeqStep ==
    ASSUME SessionInv, NEW dest \in Seqs, RestoreSeq(dest)
    PROVE  SessionInv' /\ Apart(kv, kv', dest)
<1>. DEFINE rows == file.cells
            k == SeqRm(kv, dest, -1, -1)
            u == AsUbatch(dest)
            h == FindSlot(k, Len(rows))
            p == Place(k, u, h)
            r == PutRows(p, rows, h)
            good == "damaged file" \notin faces
            clean == faces \cap {"damaged file", "pending shift"} = {}
<1>1. /\ Ready /\ ~file.whole /\ rows # <<>> /\ CanPlace(k, Len(rows))
      /\ kv' = r /\ restored' = dest
      /\ sbatch' = sbatch /\ file' = file /\ steps' = steps /\ faces' = faces
    BY DEF RestoreSeq, Restore
<1>2. /\ rows \in Seq(Saved)
      /\ clean => \A n \in DOMAIN rows : rows[n].rot = rows[n].pos
    BY DEF SessionInv, FileGood, FileSettled, File
<1>3. /\ Shape(kv) /\ Shape(k) /\ Apart(kv, k, dest)
      /\ good => PosIffSeqIn(k) /\ Exact(k)
      /\ clean => RotationIn(k)
    BY RemoveKeeps
<1>4. /\ k.delta = kv.delta
      /\ \A i \in Cells : dest \notin k.seq_id[i]
    <2>1. k.delta = kv.delta /\ \A i \in Cells : k.seq_id[i] = kv.seq_id[i] \ {dest}
        BY RemoveKeeps
    <2>. HIDE DEF k
    <2>. QED
        BY <2>1
<1>5. clean => Settled(k)
    BY <1>1, <1>3, <1>4, ReadySettled DEF Settled
<1>6. /\ Len(u) = Len(rows)
      /\ \A n \in 1 .. Len(rows) : u[n].pos = rows[n].pos /\ u[n].seqs = {dest}
    BY <1>2, UbatchOfOne
<1>. HIDE DEF rows, k, u
<1>7. h \in Fits(k, Len(rows)) /\ h \in Int
    BY <1>1, FindSlotFits, SizeAssumption DEF Fits, Cells
<1>. HIDE DEF h
<1>8. PlacedAs(k, rows, dest, h, p)
    BY <1>2, <1>3, <1>6, <1>7, PlaceForOne
<1>. HIDE DEF p
<1>9. WrittenAs(p, rows, h, r)
    BY <1>2, <1>7, <1>8, RowsWritten DEF PlacedAs
<1>. HIDE DEF r
<1>10. Shape(r) /\ (good => PosIffSeqIn(r) /\ Exact(r))
    BY <1>1, <1>2, <1>3, <1>7, <1>8, <1>9, PlacedShape, WrittenShape
<1>11. clean => RotationIn(r)
    BY <1>2, <1>3, <1>5, <1>7, <1>8, <1>9, RestoredRotation
<1>12. ExactlySeq(r, rows, dest)
    BY <1>2, <1>4, <1>7, <1>8, <1>9, SeqRestored
<1>13. Apart(kv, r, dest)
    BY <1>2, <1>3, <1>7, <1>8, <1>9, PlacedApart, ApartTwice
<1>14. RestoredKind' /\ RestoredExactly'
    BY <1>1, <1>12, RestoredInv DEF rows
<1>. QED
    BY <1>1, <1>10, <1>11, <1>13, <1>14, RestoreKeeps

LEMMA RestoreSeqNoSlotStep ==
    ASSUME SessionInv, NEW dest \in Seqs, RestoreSeqNoSlot(dest)
    PROVE  SessionInv' /\ Apart(kv, kv', dest)
<1>. DEFINE m == Len(file.cells)
            k == SeqRm(kv, dest, -1, -1)
            h == HeadAfterMiss(k, m)
            q == [k EXCEPT !.head = h]
            r == SeqRm(q, dest, -1, -1)
            good == "damaged file" \notin faces
            clean == faces \cap {"damaged file", "pending shift"} = {}
<1>1. /\ file.cells # <<>> /\ ~CanPlace(k, m)
      /\ kv' = r /\ restored' = Nothing
      /\ sbatch' = sbatch /\ file' = file /\ steps' = steps /\ faces' = faces
    BY DEF RestoreSeqNoSlot, Restore
<1>2. m \in Nat \ {0}
    <2>1. file.cells \in Seq(Saved)
        BY DEF SessionInv, FileGood, File
    <2>. QED
        BY <1>1, <2>1, EmptySeq, LenProperties
<1>3. /\ Shape(kv) /\ Shape(k) /\ Apart(kv, k, dest)
      /\ good => PosIffSeqIn(k) /\ Exact(k)
      /\ clean => RotationIn(k)
    BY RemoveKeeps
<1>. HIDE DEF m, k
<1>4. h \in 0 .. Size
    BY <1>1, <1>2, <1>3, HeadAfterMissInRange
<1>. HIDE DEF h
<1>5. Keeps(k, q) /\ (Exact(k) => Exact(q))
    BY <1>3, <1>4, HeadKeeps, HeadExact DEF Shape
<1>6. /\ q.tok = k.tok /\ q.pos = k.pos /\ q.rot = k.rot /\ q.seq_id = k.seq_id
    BY <1>3 DEF Shape, Cache
<1>. HIDE DEF q
<1>7. Shape(q) /\ (good => PosIffSeqIn(q) /\ Exact(q)) /\ (clean => RotationIn(q))
    BY <1>3, <1>5 DEF Keeps
<1>8. Keeps(q, r) /\ (good => Exact(r)) /\ Apart(q, r, dest)
    BY <1>7, SeqRmKeeps, SeqRmExact, RemovedApart
<1>. HIDE DEF r
<1>9. Apart(k, q, dest)
    BY <1>6 DEF Apart, RowOf
<1>10. Apart(kv, r, dest)
    BY <1>3, <1>8, <1>9, ApartTwice
<1>11. RestoredKind' /\ RestoredExactly'
    BY <1>1, RestoredInv
<1>12. Shape(r) /\ (good => PosIffSeqIn(r) /\ Exact(r)) /\ (clean => RotationIn(r))
    BY <1>7, <1>8 DEF Keeps
<1>. QED
    BY <1>1, <1>10, <1>11, <1>12, RestoreKeeps

LEMMA RestoreSeqEmptyStep ==
    ASSUME SessionInv, NEW dest \in Seqs, RestoreSeqEmpty(dest)
    PROVE  SessionInv' /\ Apart(kv, kv', dest)
<1>. DEFINE k == SeqRm(kv, dest, -1, -1)
<1>1. /\ ~file.whole /\ file.cells = <<>>
      /\ kv' = k /\ restored' = restored
      /\ sbatch' = sbatch /\ file' = file /\ steps' = steps /\ faces' = faces
    BY DEF RestoreSeqEmpty
<1>2. restored' = Nothing
    BY <1>1 DEF SessionInv, RestoredKind
<1>. HIDE DEF k
<1>3. RestoredKind' /\ RestoredExactly'
    BY <1>2, RestoredInv
<1>. QED
    BY <1>1, <1>3, RemoveKeeps, RestoreKeeps DEF k

\* A damaged file: of the invariant only the shape of the cache is left.
LEMMA RestoreSeqThrowsStep ==
    ASSUME SessionInv, NEW dest \in Seqs, RestoreSeqThrows(dest)
    PROVE  SessionInv' /\ Apart(kv, kv', dest)
<1>. DEFINE rows == file.cells
            k == SeqRm(kv, dest, -1, -1)
            u == AsUbatch(dest)
            h == FindSlot(k, Len(rows))
            p == Place(k, u, h)
<1>1. /\ "damaged file" \in faces /\ rows # <<>>
      /\ kv' = k \/ (CanPlace(k, Len(rows)) /\ kv' = p)
      /\ restored' = Nothing
      /\ sbatch' = sbatch /\ file' = file /\ steps' = steps /\ faces' = faces
    BY DEF RestoreSeqThrows, Restore
<1>2. rows \in Seq(Saved)
    BY DEF SessionInv, FileGood, File
<1>3. Shape(k) /\ Apart(kv, k, dest)
    BY RemoveKeeps
<1>4. /\ Len(u) = Len(rows)
      /\ \A n \in 1 .. Len(rows) : u[n].pos = rows[n].pos /\ u[n].seqs = {dest}
    BY <1>2, UbatchOfOne
<1>. HIDE DEF rows, k, u
<1>5. CanPlace(k, Len(rows)) => Shape(p) /\ Apart(kv, p, dest)
    <2>. SUFFICES ASSUME CanPlace(k, Len(rows)) PROVE Shape(p) /\ Apart(kv, p, dest)
        OBVIOUS
    <2>1. h \in Fits(k, Len(rows))
        BY FindSlotFits
    <2>. HIDE DEF h
    <2>2. PlacedAs(k, rows, dest, h, p)
        BY <1>2, <1>3, <1>4, <2>1, PlaceForOne
    <2>. HIDE DEF p
    <2>. QED
        BY <1>1, <1>2, <1>3, <2>1, <2>2, PlacedShape, PlacedApart, ApartTwice
<1>. HIDE DEF h, p
<1>6. Shape(kv') /\ Apart(kv, kv', dest)
    BY <1>1, <1>3, <1>5
<1>7. RestoredKind' /\ RestoredExactly'
    BY <1>1, RestoredInv
<1>. QED
    BY <1>1, <1>6, <1>7, RestoreKeeps

LEMMA RestoreAllStep ==
    ASSUME SessionInv, RestoreAll
    PROVE  SessionInv'
<1>. DEFINE rows == file.cells
            m == Len(rows)
            c == SetCells(Clear(kv), m)
            q == [c EXCEPT !.used = m]
            h == 0
            r == PutRows(q, rows, h)
            clean == faces \cap {"damaged file", "pending shift"} = {}
<1>1. /\ Ready /\ file.whole /\ m <= Size
      /\ kv' = r /\ restored' = AnySeq
      /\ sbatch' = sbatch /\ file' = file /\ steps' = steps /\ faces' = faces
    BY DEF RestoreAll, Restore
<1>2. /\ rows \in Seq(Saved) /\ \A n \in DOMAIN rows : rows[n].seqs # {}
      /\ clean => \A n \in DOMAIN rows : rows[n].rot = rows[n].pos
    BY <1>1 DEF SessionInv, FileGood, FileSettled, File
<1>3. Shape(kv) /\ kv \in Cache /\ (clean => Settled(kv))
    BY <1>1, ReadySettled DEF SessionInv, Shape
<1>4. m \in Nat /\ m \in 0 .. m
    <2>1. m \in Nat
        BY <1>2, LenProperties
    <2>. QED
        BY <2>1
<1>5. SetAs(kv, rows, m, c)
    BY <1>2, <1>3, <1>4, CellsSet
<1>. HIDE DEF rows, m, c
<1>6. SetAs(kv, rows, m, q) /\ q.used = m /\ q \in Cache
    BY <1>4, <1>5 DEF SetAs, Cache
<1>. HIDE DEF q
<1>7. WrittenAs(q, rows, h, r)
    <2>1. h \in Int
        OBVIOUS
    <2>. HIDE DEF h
    <2>. QED
        BY <1>2, <1>6, <2>1, RowsWritten
<1>. HIDE DEF r
<1>8. Shape(r)
    <2>1. Shape(q)
        BY <1>2, <1>3, <1>4, <1>6, SetShape DEF m
    <2>. QED
        BY <1>7, <2>1, WrittenShape
<1>9. /\ ExactlyAll(r, rows) /\ PosIffSeqIn(r) /\ Exact(r)
      /\ clean => RotationIn(r)
    BY <1>1, <1>2, <1>3, <1>6, <1>7, AllRestored DEF m
<1>10. RestoredKind' /\ RestoredExactly'
    BY <1>1, <1>9, RestoredInv DEF rows
<1>. QED
    BY <1>1, <1>8, <1>9, <1>10, RestoreKeeps

LEMMA RestoreAllTooLargeStep ==
    ASSUME SessionInv, RestoreAllTooLarge
    PROVE  SessionInv'
<1>1. /\ kv' = Clear(kv) /\ restored' = Nothing
      /\ sbatch' = sbatch /\ file' = file /\ steps' = steps /\ faces' = faces
    BY DEF RestoreAllTooLarge, Restore
<1>2. /\ Shape(kv) /\ kv \in Cache
      /\ "damaged file" \notin faces => PosIffSeqIn(kv)
      /\ faces \cap {"damaged file", "pending shift"} = {} => RotationIn(kv)
    BY DEF SessionInv, Shape
<1>3. Keeps(kv, kv') /\ Exact(kv')
    BY <1>1, <1>2, ClearKeeps, ClearExact
<1>4. RestoredKind' /\ RestoredExactly'
    BY <1>1, RestoredInv
<1>. QED
    BY <1>1, <1>2, <1>3, <1>4, RestoreKeeps DEF Keeps

LEMMA RestoreAllThrowsStep ==
    ASSUME SessionInv, RestoreAllThrows
    PROVE  SessionInv'
<1>. DEFINE rows == file.cells
            m == Len(rows)
<1>1. /\ "damaged file" \in faces /\ m <= Size
      /\ restored' = Nothing
      /\ sbatch' = sbatch /\ file' = file /\ steps' = steps /\ faces' = faces
    BY DEF RestoreAllThrows, Restore
<1>2. rows \in Seq(Saved) /\ m \in Nat /\ DOMAIN rows = 1 .. m
    BY LenProperties DEF SessionInv, FileGood, File
<1>3. Shape(kv) /\ kv \in Cache
    BY DEF SessionInv, Shape
<1>4. ASSUME NEW n \in DOMAIN rows, NEW S \in SUBSET rows[n].seqs,
             kv' = [SetCells(Clear(kv), n) EXCEPT !.seq_id[n - 1] = S]
      PROVE  Shape(kv')
    <2>. DEFINE q == SetCells(Clear(kv), n)
    <2>1. n \in 0 .. m /\ n - 1 \in Cells /\ n - 1 < n
        <3>. HIDE DEF rows, m
        <3>1. n \in 1 .. m /\ m \in Nat
            BY <1>2
        <3>2. m <= Size
            BY <1>1
        <3>. QED
            BY <3>1, <3>2, SizeAssumption DEF Cells
    <2>2. S \in SUBSET Seqs
        <3>1. rows[n] \in Saved
            BY <1>2, ElementOfSeq
        <3>. QED
            BY <1>4, <3>1 DEF Saved
    <2>3. SetAs(kv, rows, n, q)
        BY <1>2, <1>3, <2>1, CellsSet
    <2>4. kv' = [q EXCEPT !.seq_id[n - 1] = S]
        BY <1>4
    <2>. HIDE DEF q, rows
    <2>5. \A j \in Cells, T \in SUBSET Seqs : j < n => Shape([q EXCEPT !.seq_id[j] = T])
        BY <1>2, <1>3, <2>1, <2>3, SetShape
    <2>. QED
        BY <2>1, <2>2, <2>4, <2>5
<1>5. ASSUME kv' = [SetCells(Clear(kv), m) EXCEPT !.used = m]
      PROVE  Shape(kv')
    <2>. DEFINE c == SetCells(Clear(kv), m)
                q == [c EXCEPT !.used = m]
    <2>1. m \in Nat /\ m \in 0 .. m
        <3>. HIDE DEF rows, m
        <3>. QED
            BY <1>2
    <2>2. SetAs(kv, rows, m, c)
        BY <1>2, <1>3, <2>1, CellsSet
    <2>3. kv' = q
        BY <1>5
    <2>. HIDE DEF c, rows, m
    <2>4. SetAs(kv, rows, m, q)
        BY <2>1, <2>2 DEF SetAs, Cache
    <2>. HIDE DEF q
    <2>5. Shape(q)
        BY <1>2, <1>3, <2>1, <2>4, SetShape DEF m
    <2>. QED
        BY <2>3, <2>5
<1>6. Shape(kv')
    BY <1>4, <1>5 DEF RestoreAllThrows, Restore
<1>7. RestoredKind' /\ RestoredExactly'
    BY <1>1, RestoredInv
<1>. QED
    BY <1>1, <1>6, <1>7, RestoreKeeps

LEMMA CacheStepKeeps ==
    ASSUME SessionInv, CacheStep
    PROVE  SessionInv'
<1>1. /\ [Next]_vars /\ restored' = Nothing /\ steps' = steps + 1
      /\ file' = file /\ faces' = faces
    BY DEF CacheStep
<1>2. /\ Shape(kv) /\ sbatch \in Seq(Entry) /\ steps \in Nat /\ FileGood(file)
      /\ "damaged file" \notin faces => PosIffSeqIn(kv) /\ Exact(kv)
      /\ faces \cap {"damaged file", "pending shift"} = {} => RotationIn(kv) /\ FileSettled(file)
    BY DEF SessionInv
<1>3. Keeps(kv, kv') /\ sbatch' \in Seq(Entry)
    BY <1>1, <1>2, StepKeeps
<1>4. "damaged file" \notin faces => Exact(kv')
    BY <1>1, <1>2, StepExact
<1>5. RestoredKind' /\ RestoredExactly'
    BY <1>1, RestoredInv
<1>6. steps' \in Nat
    <2>1. steps \in Nat
        BY DEF SessionInv
    <2>. QED
        BY <1>1, <2>1
<1>. QED
    BY <1>1, <1>2, <1>3, <1>4, <1>5, <1>6, CacheAlone DEF Keeps

LEMMA InitKeeps ==
    ASSUME SessionInit
    PROVE  SessionInv
<1>1. kv = InitCache /\ sbatch = <<>> /\ file \in Received /\ restored = Nothing /\ steps = 0
    BY DEF SessionInit, Init
<1>2. Shape(kv) /\ PosIffSeqIn(kv) /\ RotationIn(kv) /\ Exact(kv)
    BY <1>1, InitSound, InitExact, SoundShape
<1>3. FileGood(file) /\ FileSettled(file)
    BY <1>1, ReceivedAssumption DEF FileGood, FileSettled
<1>4. Nothing \notin Seqs /\ AnySeq \notin Seqs /\ Nothing # AnySeq
    BY SeqsAssumption DEF Nothing, AnySeq
<1>5. RestoredKind /\ RestoredExactly
    BY <1>1, <1>4 DEF RestoredKind, RestoredExactly
<1>. QED
    BY <1>1, <1>2, <1>3, <1>5 DEF SessionInv

LEMMA SessionStep ==
    ASSUME SessionInv, [SessionNext]_sessionVars
    PROVE  SessionInv'
<1>1. CASE UNCHANGED sessionVars
    <2>1. /\ kv' = kv /\ restored' = restored
          /\ sbatch' = sbatch /\ file' = file /\ steps' = steps /\ faces' = faces
        BY <1>1 DEF sessionVars
    <2>2. RestoredKind' /\ RestoredExactly'
        BY <2>1 DEF SessionInv, RestoredKind, RestoredExactly
    <2>3. /\ Shape(kv)
          /\ "damaged file" \notin faces => PosIffSeqIn(kv) /\ Exact(kv)
          /\ faces \cap {"damaged file", "pending shift"} = {} => RotationIn(kv)
        BY DEF SessionInv
    <2>. QED
        BY <2>1, <2>2, <2>3, RestoreKeeps
<1>2. ASSUME NEW dest \in Seqs,
             RestoreSeq(dest) \/ RestoreSeqNoSlot(dest)
                \/ RestoreSeqEmpty(dest) \/ RestoreSeqThrows(dest)
      PROVE  SessionInv'
    BY <1>2, RestoreSeqStep, RestoreSeqNoSlotStep, RestoreSeqEmptyStep, RestoreSeqThrowsStep
<1>. QED
    BY <1>1, <1>2, CacheStepKeeps, SaveStep, RestoreAllStep, RestoreAllTooLargeStep,
       RestoreAllThrowsStep
    DEF SessionNext

-----------------------------------------------------------------------------
(* The theorems.                                                           *)

\* The inductive invariant: a cache that any sequence of decodes, edits, saves and
\* restores leaves behind, and a file that can be restored.
THEOREM SessionSound == SessionSpec => []SessionInv
<1>. QED
    BY InitKeeps, SessionStep, PTL DEF SessionSpec

\* Without damaged files used counts the cells, and find_slot and defrag agree on
\* which these are, whatever is saved and restored.
THEOREM BooksStayKept == SessionSpec => []BooksKept
<1>1. SessionInv => BooksKept
    BY DEF SessionInv, BooksKept, UsedExact, PosIffSeq, Exact, PosIffSeqIn
<1>. QED
    BY <1>1, SessionSound, PTL

\* Without pending shifts, too, every row is rotated to the position of its cell.
THEOREM RotationStaysKept == SessionSpec => []RotationKept
<1>1. SessionInv => RotationKept
    BY DEF SessionInv, RotationKept, RotationCoherent, RotationIn
<1>. QED
    BY <1>1, SessionSound, PTL

\* A restore brings back exactly the cells that were saved, in all circumstances.
THEOREM RestoresExactly == SessionSpec => []RestoredExactly
<1>1. SessionInv => RestoredExactly
    BY DEF SessionInv
<1>. QED
    BY <1>1, SessionSound, PTL

\* The restore of a sequence, even one that fails, leaves all the others alone.
THEOREM OthersStayKept == SessionSpec => OthersKept
<1>1. ASSUME SessionInv, NEW dest \in Seqs,
             \/ RestoreSeq(dest) \/ RestoreSeqNoSlot(dest)
             \/ RestoreSeqEmpty(dest) \/ RestoreSeqThrows(dest)
      PROVE  Apart(kv, kv', dest)
    BY <1>1, RestoreSeqStep, RestoreSeqNoSlotStep, RestoreSeqEmptyStep, RestoreSeqThrowsStep
<1>2. SessionInv =>
        [steps' = steps /\ ~file.whole => \A dest \in Seqs :
            \/ RestoreSeq(dest) \/ RestoreSeqNoSlot(dest)
            \/ RestoreSeqEmpty(dest) \/ RestoreSeqThrows(dest)
            => \A i \in Cells :
                kv.seq_id[i] \ {dest} # {} =>
                    /\ RowOf(kv', i) = RowOf(kv, i)
                    /\ kv'.seq_id[i] \ {dest} = kv.seq_id[i] \ {dest}]_sessionVars
    BY <1>1 DEF Apart
<1>. QED
    BY <1>2, SessionSound, PTL DEF SessionSpec, OthersKept

=============================================================================
