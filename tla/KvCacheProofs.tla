--------------------------- MODULE KvCacheProofs ---------------------------
(***************************************************************************)
(* Proofs about KvCache for every size of the cache, every set of          *)
(* sequences and every batch.                                              *)
(*                                                                         *)
(* One lemma per operator of KvOps says that it keeps Sound, the           *)
(* conjunction of what a cache must be like between two operations; the    *)
(* theorems follow by the usual three steps.  Some parts of Sound are lost *)
(* when a state is saved or restored in bad circumstances, and so what is  *)
(* kept is said part by part: Shape is there always, and each other part   *)
(* is kept whether or not the rest is there.  The second half says of each *)
(* operator that the counter of used cells stays exact; the third says     *)
(* what the view shows, and the last that the cache implements the bag of  *)
(* entries of KvStore.                                                     *)
(***************************************************************************)
EXTENDS KvCacheStore, KvView, KvOpsProofs, SequenceTheorems

Sound(k) ==
    /\ k \in Cache
    /\ PosIffSeqIn(k)
    /\ RotationIn(k)
    /\ ShiftFlagIn(k)
    /\ HeadInRangeIn(k)

\* A cell that has a sequence has a position.
Held(k) == \A i \in Cells : ~IsEmpty(k, i) => k.pos[i] >= 0

Shape(k) ==
    /\ k \in Cache
    /\ Held(k)
    /\ ShiftFlagIn(k)
    /\ HeadInRangeIn(k)

\* The step from k to r loses nothing of what k is like.
Keeps(k, r) ==
    /\ Shape(r)
    /\ PosIffSeqIn(k) => PosIffSeqIn(r)
    /\ RotationIn(k) => RotationIn(r)

IInv == Sound(kv) /\ sbatch \in Seq(Entry)

LEMMA SoundShape ==
    ASSUME NEW k
    PROVE  Sound(k) <=> Shape(k) /\ PosIffSeqIn(k) /\ RotationIn(k)
BY DEF Sound, Shape, Held, PosIffSeqIn

LEMMA KeepsSound ==
    ASSUME NEW k, NEW r, Sound(k), Keeps(k, r)
    PROVE  Sound(r)
BY SoundShape DEF Keeps

LEMMA KeepsTwice ==
    ASSUME NEW k, NEW q, NEW r, Keeps(k, q), Keeps(q, r)
    PROVE  Keeps(k, r)
BY DEF Keeps

-----------------------------------------------------------------------------
(* Cells.                                                                  *)

\* The head stays in range when it is moved to a freed cell.
LEMMA HeadAfterFreeInRange ==
    ASSUME NEW k \in Cache, HeadInRangeIn(k), NEW F \in SUBSET Cells
    PROVE  HeadAfterFree(k, F) \in 0 .. Size
<1>1. F \in SUBSET Nat
  BY SizeAssumption DEF Cells
<1>2. F # {} => Least(F) \in Cells
  BY <1>1, LeastIsLeast
<1>3. Cells \subseteq 0 .. Size
  BY SizeAssumption DEF Cells
<1>. QED BY <1>2, <1>3 DEF HeadAfterFree, HeadInRangeIn

-----------------------------------------------------------------------------
(* The operators keep what a cache is like.                                *)

LEMMA InitSound == Sound(InitCache)
BY SizeAssumption
DEF Sound, InitCache, Cache, PosIffSeqIn, RotationIn, ShiftFlagIn, HeadInRangeIn,
    IsEmpty, UsedCells, Cells

LEMMA Cleared ==
    ASSUME NEW k \in Cache
    PROVE  /\ Clear(k) \in Cache
           /\ \A i \in Cells : Clear(k).pos[i] = -1 /\ Clear(k).seq_id[i] = {}
           /\ Clear(k).delta = k.delta /\ Clear(k).has_shift = k.has_shift
           /\ Clear(k).head = 0 /\ Clear(k).used = 0
<1>. DEFINE np == [i \in Cells |-> -1]
            ns == [i \in Cells |-> {}]
            nt == [i \in Cells |-> NoToken]
            nr == [i \in Cells |-> 0]
            z  == 0
            r  == Clear(k)
<1>1. /\ np \in [Cells -> Int] /\ ns \in [Cells -> SUBSET Seqs]
      /\ nt \in [Cells -> Tokens \cup {NoToken}] /\ nr \in [Cells -> Int]
      /\ z \in Int
  OBVIOUS
<1>2. r = [k EXCEPT !.pos = np, !.seq_id = ns, !.tok = nt, !.rot = nr,
                    !.head = z, !.used = z]
  BY DEF Clear
<1>3. z = 0 /\ \A i \in Cells : np[i] = -1 /\ ns[i] = {}
  OBVIOUS
<1>. HIDE DEF np, ns, nt, nr, z, r
<1>4. /\ r \in Cache
      /\ r.pos = np /\ r.seq_id = ns /\ r.head = z /\ r.used = z
      /\ r.delta = k.delta /\ r.has_shift = k.has_shift
  BY <1>1, <1>2 DEF Cache
<1>. QED BY <1>3, <1>4 DEF r

LEMMA ClearKeeps ==
    ASSUME NEW k, Shape(k)
    PROVE  Keeps(k, Clear(k))
<1>1. k \in Cache /\ 0 \in 0 .. Size
  BY SizeAssumption DEF Shape
<1>. QED BY <1>1, Cleared
     DEF Keeps, Shape, Held, PosIffSeqIn, RotationIn, ShiftFlagIn, HeadInRangeIn,
         IsEmpty, UsedCells

LEMMA SeqRmKeeps ==
    ASSUME NEW k, Shape(k), NEW s, NEW p0, NEW p1
    PROVE  Keeps(k, SeqRm(k, s, p0, p1))
<1>. DEFINE hit   == RmHit(k, s, p0, p1)
            freed == RmFreed(k, s, p0, p1)
            np == [i \in Cells |-> IF i \in freed THEN -1 ELSE k.pos[i]]
            ns == [i \in Cells |-> IF i \in freed THEN {}
                                   ELSE IF i \in hit THEN k.seq_id[i] \ {s}
                                   ELSE k.seq_id[i]]
            nh == HeadAfterFree(k, freed)
            nu == k.used - Cardinality(freed)
            r  == SeqRm(k, s, p0, p1)
<1>0. k \in Cache
  BY DEF Shape
<1>1. /\ freed \in SUBSET Cells
      /\ \A i \in hit \ freed : k.seq_id[i] \ {s} # {}
  BY DEF RmHit, RmFreed
<1>2. /\ np \in [Cells -> Int] /\ ns \in [Cells -> SUBSET Seqs]
      /\ nu \in Int /\ nh \in Int /\ nh \in 0 .. Size
  BY <1>1, CellsFinite, HeadAfterFreeInRange, SizeAssumption DEF Shape, Cache
<1>3. r = [k EXCEPT !.seq_id = ns, !.pos = np, !.used = nu, !.head = nh]
  BY DEF SeqRm
<1>4. \A i \in Cells : IF i \in freed THEN np[i] = -1 /\ ns[i] = {}
                      ELSE np[i] = k.pos[i] /\ (ns[i] = {} <=> k.seq_id[i] = {})
  BY <1>1
<1>. HIDE DEF hit, freed, np, ns, nh, nu, r
<1>5. /\ r \in Cache
      /\ r.pos = np /\ r.seq_id = ns /\ r.head = nh /\ r.rot = k.rot
      /\ r.delta = k.delta /\ r.has_shift = k.has_shift
  BY <1>0, <1>2, <1>3 DEF Cache
<1>. QED BY <1>2, <1>4, <1>5
     DEF Keeps, Shape, Held, PosIffSeqIn, RotationIn, ShiftFlagIn, HeadInRangeIn,
         IsEmpty, UsedCells, r

LEMMA SeqCpKeeps ==
    ASSUME NEW k, Shape(k), NEW src \in Seqs, NEW dst \in Seqs, NEW p0, NEW p1
    PROVE  Keeps(k, SeqCp(k, src, dst, p0, p1))
<1>. DEFINE ns == [i \in Cells |->
                    IF src \in k.seq_id[i] /\ InRange(k.pos[i], p0, p1)
                    THEN k.seq_id[i] \cup {dst} ELSE k.seq_id[i]]
            z == 0
            r == [k EXCEPT !.head = z, !.seq_id = ns]
<1>0. k \in Cache
  BY DEF Shape
<1>1. ns \in [Cells -> SUBSET Seqs] /\ z \in Int
  BY <1>0 DEF Cache
<1>2. z \in 0 .. Size /\ \A i \in Cells : ns[i] = {} <=> k.seq_id[i] = {}
  BY SizeAssumption
<1>3. SeqCp(k, src, dst, p0, p1) = IF src = dst THEN k ELSE r
  BY DEF SeqCp
<1>. HIDE DEF ns, z
<1>4. /\ r \in Cache
      /\ r.pos = k.pos /\ r.seq_id = ns /\ r.head = z /\ r.rot = k.rot
      /\ r.delta = k.delta /\ r.has_shift = k.has_shift
  BY <1>0, <1>1 DEF Cache
<1>. HIDE DEF r
<1>5. Keeps(k, r)
  BY <1>2, <1>4
     DEF Keeps, Shape, Held, PosIffSeqIn, RotationIn, ShiftFlagIn, HeadInRangeIn,
         IsEmpty, UsedCells
<1>. QED BY <1>3, <1>5 DEF Keeps

LEMMA SeqKeepKeeps ==
    ASSUME NEW k, Shape(k), NEW s \in Seqs
    PROVE  Keeps(k, SeqKeep(k, s))
<1>. DEFINE out  == {i \in Cells : s \notin k.seq_id[i]}
            gone == {i \in out : k.pos[i] >= 0}
            np == [i \in Cells |-> IF i \in out THEN -1 ELSE k.pos[i]]
            ns == [i \in Cells |-> IF i \in out THEN {} ELSE {s}]
            nh == HeadAfterFree(k, out)
            nu == k.used - Cardinality(gone)
            r  == SeqKeep(k, s)
<1>0. k \in Cache
  BY DEF Shape
<1>1. /\ out \in SUBSET Cells /\ gone \in SUBSET Cells
      /\ \A i \in Cells \ out : k.seq_id[i] # {}
  OBVIOUS
<1>2. /\ np \in [Cells -> Int] /\ ns \in [Cells -> SUBSET Seqs]
      /\ nu \in Int /\ nh \in Int /\ nh \in 0 .. Size
  BY <1>1, CellsFinite, HeadAfterFreeInRange, SizeAssumption DEF Shape, Cache
<1>3. r = [k EXCEPT !.seq_id = ns, !.pos = np, !.used = nu, !.head = nh]
  BY DEF SeqKeep
<1>4. \A i \in Cells : IF i \in out THEN np[i] = -1 /\ ns[i] = {}
                      ELSE np[i] = k.pos[i] /\ ns[i] # {} /\ k.seq_id[i] # {}
  BY <1>1
<1>. HIDE DEF out, gone, np, ns, nh, nu, r
<1>5. /\ r \in Cache
      /\ r.pos = np /\ r.seq_id = ns /\ r.head = nh /\ r.rot = k.rot
      /\ r.delta = k.delta /\ r.has_shift = k.has_shift
  BY <1>0, <1>2, <1>3 DEF Cache
<1>. QED BY <1>2, <1>4, <1>5
     DEF Keeps, Shape, Held, PosIffSeqIn, RotationIn, ShiftFlagIn, HeadInRangeIn,
         IsEmpty, UsedCells, r

LEMMA SeqAddKeeps ==
    ASSUME NEW k, Shape(k), NEW s, NEW p0, NEW p1, NEW d \in Int
    PROVE  Keeps(k, SeqAdd(k, s, p0, p1, d))
<1>. DEFINE hit   == AddHit(k, s, p0, p1)
            freed == AddFreed(k, s, p0, p1, d)
            nf == k.has_shift \/ hit # {}
            nd == [i \in Cells |-> IF i \in hit THEN k.delta[i] + d ELSE k.delta[i]]
            np == [i \in Cells |-> IF i \in freed THEN -1
                                   ELSE IF i \in hit THEN k.pos[i] + d ELSE k.pos[i]]
            ns == [i \in Cells |-> IF i \in freed THEN {} ELSE k.seq_id[i]]
            nu == k.used - Cardinality(freed)
            nh == IF freed # {} THEN Least(freed) ELSE 0
            r  == [k EXCEPT !.has_shift = nf, !.delta = nd, !.pos = np, !.seq_id = ns,
                            !.used = nu, !.head = nh]
<1>0. k \in Cache
  BY DEF Shape
<1>1. /\ freed \in SUBSET Cells /\ freed \in SUBSET Nat /\ freed \subseteq hit
      /\ \A i \in hit : k.seq_id[i] # {}
      /\ \A i \in hit \ freed : k.pos[i] + d >= 0
  BY <1>0, SizeAssumption DEF AddHit, AddFreed, Cells, Cache
<1>2. freed # {} => Least(freed) \in Cells
  BY <1>1, LeastIsLeast
<1>3. nh \in Int /\ nh \in 0 .. Size
  BY <1>2, SizeAssumption DEF Cells
<1>4. /\ nf \in BOOLEAN /\ nd \in [Cells -> Int] /\ np \in [Cells -> Int]
      /\ ns \in [Cells -> SUBSET Seqs] /\ nu \in Int
  BY <1>0, <1>1, CellsFinite DEF Cache
<1>5. \A i \in Cells :
        IF i \in freed THEN np[i] = -1 /\ ns[i] = {}
        ELSE IF i \in hit
             THEN /\ np[i] = k.pos[i] + d /\ np[i] >= 0 /\ nd[i] = k.delta[i] + d
                  /\ ns[i] = k.seq_id[i] /\ ns[i] # {}
             ELSE np[i] = k.pos[i] /\ nd[i] = k.delta[i] /\ ns[i] = k.seq_id[i]
  BY <1>1
<1>6. SeqAdd(k, s, p0, p1, d) = IF EmptyRange(p0, p1) THEN k ELSE r
  BY DEF SeqAdd
<1>7. nf <=> k.has_shift \/ hit # {}
  OBVIOUS
<1>. HIDE DEF nf, nd, np, ns, nu, nh
<1>8. /\ r \in Cache
      /\ r.pos = np /\ r.seq_id = ns /\ r.head = nh /\ r.rot = k.rot
      /\ r.delta = nd /\ r.has_shift = nf
  BY <1>0, <1>3, <1>4 DEF Cache
<1>. HIDE DEF r, hit, freed
<1>9. Held(r) /\ HeadInRangeIn(r) /\ (PosIffSeqIn(k) => PosIffSeqIn(r))
  BY <1>3, <1>5, <1>8 DEF Shape, Held, PosIffSeqIn, HeadInRangeIn, IsEmpty
<1>10. RotationIn(k) => RotationIn(r)
  <2>. SUFFICES ASSUME RotationIn(k), NEW i \in Cells, ns[i] # {}
                PROVE  k.rot[i] + nd[i] = np[i]
    BY <1>8 DEF RotationIn, UsedCells, IsEmpty
  <2>1. k.rot[i] \in Int /\ k.delta[i] \in Int /\ k.pos[i] \in Int
    BY <1>0 DEF Cache
  <2>2. k.seq_id[i] # {}
    BY <1>5
  <2>3. k.rot[i] + k.delta[i] = k.pos[i]
    BY <2>2 DEF RotationIn, UsedCells, IsEmpty
  <2>. QED BY <1>5, <2>1, <2>3
<1>11. ShiftFlagIn(r)
  <2>. SUFFICES ASSUME NEW i \in Cells, nd[i] # 0
                PROVE  nf
    BY <1>8 DEF ShiftFlagIn
  <2>1. CASE i \in hit
    BY <2>1, <1>7
  <2>2. CASE i \notin hit
    BY <2>2, <1>1, <1>4, <1>5, <1>7 DEF Shape, ShiftFlagIn
  <2>. QED BY <2>1, <2>2
<1>. QED BY <1>6, <1>8, <1>9, <1>10, <1>11 DEF Keeps, Shape

\* A position divided by a positive number is not negative.
LEMMA DivNatural ==
    ASSUME NEW p \in Nat, NEW d \in Nat \ {0}
    PROVE  p \div d \in Nat
OBVIOUS

LEMMA SeqDivKeeps ==
    ASSUME NEW k, Shape(k), NEW s, NEW p0, NEW p1, NEW d \in Nat \ {0}
    PROVE  Keeps(k, SeqDiv(k, s, p0, p1, d))
<1>. DEFINE hit == AddHit(k, s, p0, p1)
            nf == k.has_shift \/ hit # {}
            np == [i \in Cells |-> IF i \in hit THEN k.pos[i] \div d ELSE k.pos[i]]
            nd == [i \in Cells |-> IF i \in hit
                                   THEN k.delta[i] + (k.pos[i] \div d) - k.pos[i]
                                   ELSE k.delta[i]]
            r  == [k EXCEPT !.has_shift = nf, !.pos = np, !.delta = nd]
<1>0. k \in Cache
  BY DEF Shape
<1>1. \A i \in hit : /\ i \in Cells /\ k.seq_id[i] # {} /\ k.pos[i] \in Nat
                     /\ k.pos[i] \div d \in Nat
  <2>. SUFFICES ASSUME NEW i \in hit
                PROVE  i \in Cells /\ k.seq_id[i] # {} /\ k.pos[i] \in Nat
    BY DivNatural
  <2>. QED BY <1>0 DEF AddHit, InRange, Cache
<1>2. nf \in BOOLEAN /\ np \in [Cells -> Int] /\ nd \in [Cells -> Int]
  BY <1>0, <1>1 DEF Cache
<1>3. \A i \in Cells :
        IF i \in hit THEN np[i] \in Nat /\ nd[i] = k.delta[i] + np[i] - k.pos[i]
        ELSE np[i] = k.pos[i] /\ nd[i] = k.delta[i]
  BY <1>1
<1>4. SeqDiv(k, s, p0, p1, d) = IF EmptyRange(p0, p1) THEN k ELSE r
  BY DEF SeqDiv
<1>5. nf <=> k.has_shift \/ hit # {}
  OBVIOUS
<1>. HIDE DEF nf, nd, np
<1>6. /\ r \in Cache
      /\ r.pos = np /\ r.seq_id = k.seq_id /\ r.head = k.head /\ r.rot = k.rot
      /\ r.delta = nd /\ r.has_shift = nf
  BY <1>0, <1>2 DEF Cache
<1>. HIDE DEF r, hit
<1>7. Held(r) /\ HeadInRangeIn(r) /\ (PosIffSeqIn(k) => PosIffSeqIn(r))
  BY <1>1, <1>3, <1>6 DEF Shape, Held, PosIffSeqIn, HeadInRangeIn, IsEmpty
<1>8. RotationIn(k) => RotationIn(r)
  <2>. SUFFICES ASSUME RotationIn(k), NEW i \in Cells, k.seq_id[i] # {}
                PROVE  k.rot[i] + nd[i] = np[i]
    BY <1>6 DEF RotationIn, UsedCells, IsEmpty
  <2>1. k.rot[i] \in Int /\ k.delta[i] \in Int /\ k.pos[i] \in Int
    BY <1>0 DEF Cache
  <2>2. k.rot[i] + k.delta[i] = k.pos[i]
    BY DEF RotationIn, UsedCells, IsEmpty
  <2>. QED BY <1>3, <2>1, <2>2
<1>9. ShiftFlagIn(r)
  <2>. SUFFICES ASSUME NEW i \in Cells, nd[i] # 0
                PROVE  nf
    BY <1>6 DEF ShiftFlagIn
  <2>1. CASE i \in hit
    BY <2>1, <1>5
  <2>2. CASE i \notin hit
    BY <2>2, <1>3, <1>5 DEF Shape, ShiftFlagIn
  <2>. QED BY <2>1, <2>2
<1>. QED BY <1>4, <1>6, <1>7, <1>8, <1>9 DEF Keeps, Shape

-----------------------------------------------------------------------------
(* llama_kv_cache_update.                                                  *)

\* No cell waits for a K-shift.
Settled(k) == \A i \in Cells : k.delta[i] = 0

LEMMA ApplyShiftKeeps ==
    ASSUME NEW k, Shape(k)
    PROVE  Keeps(k, ApplyShift(k)) /\ Settled(ApplyShift(k))
<1>. DEFINE nr == [i \in Cells |-> k.rot[i] + k.delta[i]]
            nd == [i \in Cells |-> 0]
            nf == FALSE
            r  == [k EXCEPT !.rot = nr, !.delta = nd, !.has_shift = nf]
<1>0. k \in Cache
  BY DEF Shape
<1>1. CASE ~k.has_shift
  <2>1. ApplyShift(k) = k
    BY <1>1 DEF ApplyShift
  <2>. QED BY <1>1, <2>1 DEF Keeps, Shape, Settled, ShiftFlagIn
<1>2. CASE k.has_shift
  <2>1. ApplyShift(k) = r
    BY <1>2 DEF ApplyShift
  <2>2. /\ nr \in [Cells -> Int] /\ nd \in [Cells -> Int] /\ nf \in BOOLEAN
        /\ \A i \in Cells : nr[i] = k.rot[i] + k.delta[i] /\ nd[i] = 0
    BY <1>0 DEF Cache
  <2>. HIDE DEF nr, nd, nf
  <2>3. /\ r \in Cache
        /\ r.pos = k.pos /\ r.seq_id = k.seq_id /\ r.head = k.head
        /\ r.rot = nr /\ r.delta = nd
    BY <1>0, <2>2 DEF Cache
  <2>. HIDE DEF r
  <2>4. /\ Held(r) /\ HeadInRangeIn(r) /\ ShiftFlagIn(r) /\ Settled(r)
        /\ PosIffSeqIn(k) => PosIffSeqIn(r)
    BY <2>2, <2>3
       DEF Shape, Held, PosIffSeqIn, HeadInRangeIn, ShiftFlagIn, Settled, IsEmpty
  <2>5. RotationIn(k) => RotationIn(r)
    <3>. SUFFICES ASSUME RotationIn(k), NEW i \in Cells, k.seq_id[i] # {}
                  PROVE  nr[i] + nd[i] = k.pos[i]
      BY <2>3 DEF RotationIn, UsedCells, IsEmpty
    <3>1. k.rot[i] + k.delta[i] = k.pos[i] /\ k.pos[i] \in Int
      BY <1>0 DEF RotationIn, UsedCells, IsEmpty, Cache
    <3>. QED BY <2>2, <3>1
  <2>. QED BY <2>1, <2>3, <2>4, <2>5 DEF Keeps, Shape
<1>. QED BY <1>0, <1>1, <1>2 DEF Cache

\* What a cell holds after a defragmentation: all the fields of one cell, or
\* those of a cleared cell with its own row.
LEMMA DefragCell ==
    ASSUME NEW k, NEW i \in Cells
    PROVE  \/ \E t \in Cells : /\ Moved(k, k.pos, -1)[i] = k.pos[t]
                               /\ Moved(k, k.delta, 0)[i] = k.delta[t]
                               /\ Moved(k, k.seq_id, {})[i] = k.seq_id[t]
                               /\ Copied(k, k.tok)[i] = k.tok[t]
                               /\ Copied(k, k.rot)[i] = k.rot[t]
           \/ /\ Moved(k, k.pos, -1)[i] = -1
              /\ Moved(k, k.delta, 0)[i] = 0
              /\ Moved(k, k.seq_id, {})[i] = {}
              /\ Copied(k, k.tok)[i] = k.tok[i]
              /\ Copied(k, k.rot)[i] = k.rot[i]
<1>. DEFINE t == CHOOSE u \in Cells : Move(k, u, i)
<1>1. CASE \E u \in Cells : Move(k, u, i)
  <2>1. t \in Cells
    BY <1>1
  <2>. QED BY <1>1, <2>1 DEF Moved, Copied
<1>2. CASE ~(\E u \in Cells : Move(k, u, i)) /\ \E h \in Cells : Move(k, i, h)
  BY <1>2 DEF Moved, Copied
<1>3. CASE ~(\E u \in Cells : Move(k, u, i)) /\ ~\E h \in Cells : Move(k, i, h)
  BY <1>3 DEF Moved, Copied
<1>. QED BY <1>1, <1>2, <1>3

LEMMA DefragKeeps ==
    ASSUME NEW k, Shape(k), Settled(k)
    PROVE  Keeps(k, Defrag(k)) /\ Settled(Defrag(k))
<1>. DEFINE np == Moved(k, k.pos, -1)
            nd == Moved(k, k.delta, 0)
            ns == Moved(k, k.seq_id, {})
            nt == Copied(k, k.tok)
            nr == Copied(k, k.rot)
            nh == IF \E t, h \in Cells : Move(k, t, h) THEN k.used ELSE k.head
            r  == Defrag(k)
<1>0. k \in Cache
  BY DEF Shape
<1>1. \A i \in Cells :
        \/ \E t \in Cells : /\ np[i] = k.pos[t] /\ nd[i] = k.delta[t] /\ ns[i] = k.seq_id[t]
                            /\ nt[i] = k.tok[t] /\ nr[i] = k.rot[t]
        \/ /\ np[i] = -1 /\ nd[i] = 0 /\ ns[i] = {}
           /\ nt[i] = k.tok[i] /\ nr[i] = k.rot[i]
  BY DefragCell
<1>2. nh \in Int /\ nh \in 0 .. Size
  <2>1. ASSUME NEW t \in Cells, NEW h \in Cells, Move(k, t, h)
        PROVE  k.used \in 0 .. Size
    <3>1. h < k.used /\ t >= k.used
      BY <2>1 DEF Move, MovesTo, Holes, Movable
    <3>2. k.used \in Int
      BY <1>0 DEF Cache
    <3>. HIDE DEF np, nd, ns, nt, nr, nh, r
    <3>. QED BY <3>1, <3>2, SizeAssumption DEF Cells
  <2>. QED BY <1>0, <2>1, SizeAssumption DEF Shape, HeadInRangeIn, Cache
<1>3. /\ np = [i \in Cells |-> np[i]] /\ nd = [i \in Cells |-> nd[i]]
      /\ ns = [i \in Cells |-> ns[i]] /\ nt = [i \in Cells |-> nt[i]]
      /\ nr = [i \in Cells |-> nr[i]]
  BY DEF Moved, Copied
<1>4. r = [k EXCEPT !.pos = np, !.delta = nd, !.seq_id = ns, !.tok = nt, !.rot = nr,
                    !.head = nh]
  BY DEF Defrag
<1>. HIDE DEF np, nd, ns, nt, nr, nh, r
<1>5. \A i \in Cells : /\ np[i] \in Int /\ nd[i] = 0 /\ ns[i] \in SUBSET Seqs
                       /\ nt[i] \in Tokens \cup {NoToken} /\ nr[i] \in Int
                       /\ ns[i] # {} => np[i] >= 0
                       /\ PosIffSeqIn(k) => (ns[i] = {} => np[i] = -1)
                       /\ RotationIn(k) => (ns[i] # {} => nr[i] = np[i])
  <2>. SUFFICES ASSUME NEW i \in Cells
                PROVE  /\ np[i] \in Int /\ nd[i] = 0 /\ ns[i] \in SUBSET Seqs
                       /\ nt[i] \in Tokens \cup {NoToken} /\ nr[i] \in Int
                       /\ ns[i] # {} => np[i] >= 0
                       /\ PosIffSeqIn(k) => (ns[i] = {} => np[i] = -1)
                       /\ RotationIn(k) => (ns[i] # {} => nr[i] = np[i])
    OBVIOUS
  <2>1. \A t \in Cells : /\ k.pos[t] \in Int /\ k.delta[t] = 0 /\ k.seq_id[t] \in SUBSET Seqs
                         /\ k.tok[t] \in Tokens \cup {NoToken} /\ k.rot[t] \in Int
    BY <1>0 DEF Cache, Settled
  <2>2. \A t \in Cells : /\ k.seq_id[t] # {} => k.pos[t] >= 0
                         /\ PosIffSeqIn(k) => (k.seq_id[t] = {} => k.pos[t] = -1)
                         /\ RotationIn(k) => (k.seq_id[t] # {} => k.rot[t] = k.pos[t])
    BY <2>1 DEF Shape, Held, PosIffSeqIn, RotationIn, UsedCells, IsEmpty
  <2>3. CASE \E t \in Cells : /\ np[i] = k.pos[t] /\ nd[i] = k.delta[t]
                              /\ ns[i] = k.seq_id[t] /\ nt[i] = k.tok[t]
                              /\ nr[i] = k.rot[t]
    BY <2>1, <2>2, <2>3
  <2>4. CASE np[i] = -1 /\ nd[i] = 0 /\ ns[i] = {} /\ nt[i] = k.tok[i] /\ nr[i] = k.rot[i]
    BY <2>1, <2>4
  <2>. QED BY <1>1, <2>3, <2>4
<1>6. /\ np \in [Cells -> Int] /\ nd \in [Cells -> Int]
      /\ ns \in [Cells -> SUBSET Seqs] /\ nt \in [Cells -> Tokens \cup {NoToken}]
      /\ nr \in [Cells -> Int]
  BY <1>3, <1>5
<1>7. /\ r \in Cache
      /\ r.pos = np /\ r.delta = nd /\ r.seq_id = ns /\ r.rot = nr /\ r.head = nh
      /\ r.has_shift = k.has_shift
  BY <1>0, <1>2, <1>4, <1>6 DEF Cache
<1>8. /\ Held(r) /\ HeadInRangeIn(r) /\ ShiftFlagIn(r) /\ Settled(r)
      /\ PosIffSeqIn(k) => PosIffSeqIn(r)
  BY <1>2, <1>5, <1>7 DEF Held, PosIffSeqIn, HeadInRangeIn, ShiftFlagIn, Settled, IsEmpty
<1>9. RotationIn(k) => RotationIn(r)
  BY <1>5, <1>7 DEF RotationIn, UsedCells, IsEmpty
<1>. QED BY <1>7, <1>8, <1>9 DEF Keeps, Shape, r

LEMMA UpdateKeeps ==
    ASSUME NEW k, Shape(k)
    PROVE  Keeps(k, Update(k)) /\ Settled(Update(k))
<1>. DEFINE a == ApplyShift(k)
            b == Defrag(a)
            no == FALSE
            r == [b EXCEPT !.do_defrag = no]
<1>1. Keeps(k, a) /\ Settled(a)
  BY ApplyShiftKeeps
<1>2. Keeps(k, b) /\ Settled(b)
  BY <1>1, DefragKeeps, KeepsTwice DEF Keeps
<1>3. b \in Cache /\ no \in BOOLEAN
  BY <1>2 DEF Keeps, Shape
<1>4. Update(k) = IF a.do_defrag THEN r ELSE a
  BY DEF Update, ApplyDefrag
<1>. HIDE DEF a, b, no
<1>5. /\ r \in Cache
      /\ r.pos = b.pos /\ r.delta = b.delta /\ r.seq_id = b.seq_id /\ r.rot = b.rot
      /\ r.head = b.head /\ r.has_shift = b.has_shift
  BY <1>3 DEF Cache
<1>. HIDE DEF r
<1>6. Keeps(k, r) /\ Settled(r)
  BY <1>2, <1>5 DEF Keeps, Shape, Held, Settled, PosIffSeqIn, RotationIn, ShiftFlagIn,
                    HeadInRangeIn, IsEmpty, UsedCells
<1>. QED BY <1>1, <1>4, <1>6

-----------------------------------------------------------------------------
(* llama_decode.                                                           *)

\* Moving the head within the cache, and asking for a defragmentation.
LEMMA HeadKeeps ==
    ASSUME NEW k, Shape(k), NEW h \in 0 .. Size
    PROVE  Keeps(k, [k EXCEPT !.head = h])
<1>. DEFINE r == [k EXCEPT !.head = h]
<1>1. k \in Cache /\ h \in Int
  BY SizeAssumption DEF Shape
<1>2. /\ r \in Cache
      /\ r.pos = k.pos /\ r.delta = k.delta /\ r.seq_id = k.seq_id /\ r.rot = k.rot
      /\ r.head = h /\ r.has_shift = k.has_shift
  BY <1>1 DEF Cache
<1>. HIDE DEF r
<1>3. Keeps(k, r)
  BY <1>2 DEF Keeps, Shape, Held, PosIffSeqIn, RotationIn, ShiftFlagIn, HeadInRangeIn,
         IsEmpty, UsedCells
<1>. QED BY <1>3 DEF r

LEMMA DefragFlagKeeps ==
    ASSUME NEW k, Shape(k), NEW f \in BOOLEAN
    PROVE  Keeps(k, [k EXCEPT !.do_defrag = f])
<1>. DEFINE r == [k EXCEPT !.do_defrag = f]
<1>1. k \in Cache
  BY DEF Shape
<1>2. /\ r \in Cache
      /\ r.pos = k.pos /\ r.delta = k.delta /\ r.seq_id = k.seq_id /\ r.rot = k.rot
      /\ r.head = k.head /\ r.has_shift = k.has_shift
  BY <1>1 DEF Cache
<1>. HIDE DEF r
<1>3. Keeps(k, r)
  BY <1>2 DEF Keeps, Shape, Held, PosIffSeqIn, RotationIn, ShiftFlagIn, HeadInRangeIn,
         IsEmpty, UsedCells
<1>. QED BY <1>3 DEF r

LEMMA PreparedKeeps ==
    ASSUME Shape(kv)
    PROVE  Keeps(kv, Prepared) /\ Settled(Prepared)
<1>. DEFINE k == Update(kv)
            h == IF k.head > k.used + 2 * Len(Ubatch) THEN 0 ELSE k.head
            r == [k EXCEPT !.head = h]
<1>1. Keeps(kv, k) /\ Settled(k)
  BY UpdateKeeps
<1>2. h \in 0 .. Size
  BY <1>1, SizeAssumption DEF Keeps, Shape, HeadInRangeIn
<1>3. Prepared = r
  BY DEF Prepared
<1>4. k \in Cache
  BY <1>1 DEF Keeps, Shape
<1>. HIDE DEF k, h
<1>5. r.delta = k.delta
  BY <1>4 DEF Cache
<1>6. Keeps(k, r)
  BY <1>1, <1>2, HeadKeeps DEF Keeps
<1>. HIDE DEF r
<1>. QED BY <1>1, <1>3, <1>5, <1>6, KeepsTwice DEF Settled

\* A search that finds nothing leaves the head in the cache or right behind it.
LEMMA HeadAfterMissInRange ==
    ASSUME NEW k, Shape(k), NEW n \in Nat \ {0}, ~CanPlace(k, n)
    PROVE  HeadAfterMiss(k, n) \in 0 .. Size
<1>. DEFINE busy == {i \in Cells : ~Free(k, i)}
            from == IF k.head = 0 THEN Size ELSE k.head
            giveUp == {i \in busy : /\ i + 1 >= from
                                    /\ \A j \in busy : j < i => j + 1 + n <= Size}
<1>1. CASE n > Size
  BY <1>1 DEF HeadAfterMiss, Shape, HeadInRangeIn
<1>2. CASE n <= Size
  <2>1. busy # {}
    <3>. SUFFICES ASSUME busy = {} PROVE FALSE
      OBVIOUS
    <3>1. 0 \in Cells /\ \A i \in 0 .. 0 + n - 1 : i \in Cells
      BY <1>2, SizeAssumption DEF Cells
    <3>2. FitsAt(k, n, 0)
      BY <1>2, <3>1, SizeAssumption DEF FitsAt
    <3>. QED BY <1>2, <3>1, <3>2 DEF CanPlace, Fits
  <2>2. busy \in SUBSET Nat /\ giveUp \in SUBSET Nat /\ giveUp \subseteq busy
    BY SizeAssumption DEF Cells
  <2>3. Least(busy) \in Cells
    BY <2>1, <2>2, LeastIsLeast
  <2>4. giveUp # {} => Least(giveUp) \in Cells
    BY <2>2, LeastIsLeast
  <2>5. \A i \in Cells : i + 1 \in 0 .. Size
    BY SizeAssumption DEF Cells
  <2>6. HeadAfterMiss(k, n) = IF giveUp # {} THEN Least(giveUp) + 1 ELSE Least(busy) + 1
    BY <1>2, SizeAssumption DEF HeadAfterMiss
  <2>. HIDE DEF giveUp, busy
  <2>. QED BY <2>3, <2>4, <2>5, <2>6
<1>. QED BY <1>1, <1>2, SizeAssumption

\* Placing a ubatch on free cells and computing it writes rows that are rotated
\* to the positions of their cells: no delta of a former token is left there.
LEMMA PlacedKeeps ==
    ASSUME NEW k, Shape(k), Settled(k), NEW u \in Seq(Entry), u # <<>>,
           NEW h \in Fits(k, Len(u))
    PROVE  Keeps(k, Compute(Place(k, u, h), u))
<1>. DEFINE n  == Len(u)
            in(i) == h <= i /\ i < h + n
            np == [i \in Cells |-> IF in(i) THEN u[i - h + 1].pos ELSE k.pos[i]]
            ns == [i \in Cells |-> IF in(i) THEN k.seq_id[i] \cup u[i - h + 1].seqs
                                            ELSE k.seq_id[i]]
            nu == k.used + n
            p  == Place(k, u, h)
            nt == [i \in Cells |-> IF in(i) THEN u[i - h + 1].tok ELSE p.tok[i]]
            nr == [i \in Cells |-> IF in(i) THEN u[i - h + 1].pos ELSE p.rot[i]]
            nh == IF h + n >= Size THEN 0 ELSE h + n
            r  == Compute(p, u)
<1>1. k \in Cache
  BY DEF Shape
<1>2. n \in Nat \ {0} /\ h \in Cells /\ h \in Int /\ h + n <= Size
  BY EmptySeq, LenProperties, SizeAssumption DEF Fits, FitsAt, Cells
<1>3. \A i \in Cells : in(i) => u[i - h + 1] \in Entry
  <2>. SUFFICES ASSUME NEW i \in Cells, in(i)
                PROVE  i - h + 1 \in 1 .. Len(u)
    BY ElementOfSeq
  <2>. QED BY <1>2, SizeAssumption DEF Cells
<1>4. \A i \in Cells : in(i) => /\ u[i - h + 1].pos \in Nat
                                /\ u[i - h + 1].seqs \in SUBSET Seqs
                                /\ u[i - h + 1].seqs # {}
                                /\ u[i - h + 1].tok \in Tokens
  <2>1. \A e \in Entry : /\ e.pos \in Nat /\ e.seqs \in SUBSET Seqs /\ e.seqs # {}
                         /\ e.tok \in Tokens
    BY MaxPosAssumption DEF Entry
  <2>. HIDE DEF in
  <2>. QED BY <1>3, <2>1
<1>5. np \in [Cells -> Int] /\ ns \in [Cells -> SUBSET Seqs] /\ nu \in Int
  <2>. HIDE DEF in, n
  <2>1. np \in [Cells -> Int]
    BY <1>1, <1>4 DEF Cache
  <2>2. ns \in [Cells -> SUBSET Seqs]
    BY <1>1, <1>4 DEF Cache
  <2>3. nu \in Int
    BY <1>1, <1>2 DEF Cache
  <2>. QED BY <2>1, <2>2, <2>3
<1>6. p = [k EXCEPT !.pos = np, !.seq_id = ns, !.head = h, !.used = nu]
  BY DEF Place
<1>7. /\ p \in Cache
      /\ p.pos = np /\ p.delta = k.delta /\ p.seq_id = ns /\ p.rot = k.rot
      /\ p.tok = k.tok /\ p.head = h /\ p.has_shift = k.has_shift
  <2>. HIDE DEF np, ns, nu, p
  <2>. QED BY <1>1, <1>2, <1>5, <1>6 DEF Cache
<1>8. nt \in [Cells -> Tokens \cup {NoToken}] /\ nr \in [Cells -> Int]
  BY <1>1, <1>4, <1>7 DEF Cache
<1>9. nh \in Int /\ nh \in 0 .. Size
  BY <1>2, SizeAssumption DEF Cells
<1>10. r = [p EXCEPT !.tok = nt, !.rot = nr, !.head = nh]
  BY <1>7 DEF Compute
<1>11. \A i \in Cells :
         IF in(i) THEN np[i] >= 0 /\ nr[i] = np[i] /\ ns[i] # {}
         ELSE np[i] = k.pos[i] /\ nr[i] = k.rot[i] /\ ns[i] = k.seq_id[i]
  BY <1>4, <1>7
<1>12. /\ r \in Cache
       /\ r.pos = np /\ r.delta = k.delta /\ r.seq_id = ns /\ r.rot = nr
       /\ r.head = nh /\ r.has_shift = k.has_shift
  <2>. HIDE DEF np, ns, nu, nt, nr, nh, p, r
  <2>. QED BY <1>7, <1>8, <1>9, <1>10 DEF Cache
<1>. HIDE DEF np, ns, nu, nt, nr, nh, p, r
<1>13. /\ Held(r) /\ HeadInRangeIn(r) /\ ShiftFlagIn(r)
       /\ PosIffSeqIn(k) => PosIffSeqIn(r)
  BY <1>9, <1>11, <1>12
     DEF Shape, Held, PosIffSeqIn, HeadInRangeIn, ShiftFlagIn, IsEmpty
<1>14. RotationIn(k) => RotationIn(r)
  <2>. SUFFICES ASSUME RotationIn(k), NEW i \in Cells, ns[i] # {}
                PROVE  nr[i] + k.delta[i] = np[i]
    BY <1>12 DEF RotationIn, UsedCells, IsEmpty
  <2>1. k.delta[i] = 0 /\ np[i] \in Int
    BY <1>5 DEF Settled
  <2>2. CASE in(i)
    BY <1>11, <2>1, <2>2
  <2>3. CASE ~in(i)
    BY <1>11, <2>1, <2>3 DEF RotationIn, UsedCells, IsEmpty
  <2>. QED BY <2>2, <2>3
<1>. QED BY <1>12, <1>13, <1>14 DEF Keeps, Shape, r, p

-----------------------------------------------------------------------------
(* The theorems.                                                           *)

\* The next ubatch and what follows it, cut off the pending batch.
LEMMA UbatchType ==
    ASSUME sbatch \in Seq(Entry), sbatch # <<>>
    PROVE  /\ Ubatch \in Seq(Entry) /\ Ubatch # <<>> /\ Len(Ubatch) \in Nat \ {0}
           /\ Rest \in Seq(Entry)
<1>. DEFINE m == IF Len(sbatch) < NUbatch THEN Len(sbatch) ELSE NUbatch
<1>1. Len(sbatch) \in Nat \ {0} /\ m \in 1 .. Len(sbatch)
  BY EmptySeq, NUbatchAssumption
<1>2. \A i \in 1 .. Len(sbatch) : sbatch[i] \in Entry
  BY ElementOfSeq
<1>3. Ubatch \in Seq(Entry) /\ Len(Ubatch) = m
  <2>1. \A i \in 1 .. m : sbatch[i] \in Entry
    BY <1>1, <1>2
  <2>2. Ubatch = SubSeq(sbatch, 1, m)
    BY DEF Ubatch
  <2>. HIDE DEF m
  <2>3. m \in Int /\ 1 <= m
    BY <1>1
  <2>. QED BY <2>1, <2>2, <2>3, SubSeqProperties
<1>4. Rest \in Seq(Entry)
  <2>1. \A i \in Len(Ubatch) + 1 .. Len(sbatch) : sbatch[i] \in Entry
    BY <1>1, <1>2, <1>3
  <2>. HIDE DEF m
  <2>. QED BY <1>1, <1>3, <2>1, SubSeqProperties DEF Rest
<1>. QED BY <1>1, <1>3, <1>4, EmptySeq

\* A call and a step of a decode keep what the cache is like.
LEMMA StepKeeps ==
    ASSUME Shape(kv), sbatch \in Seq(Entry), [Next]_vars
    PROVE  Keeps(kv, kv') /\ sbatch' \in Seq(Entry)
<1>1. CASE CallClear
  BY <1>1, ClearKeeps DEF CallClear, Call
<1>2. CASE CallSeqRm
  BY <1>2, SeqRmKeeps DEF CallSeqRm, Call
<1>3. CASE CallSeqCp
  BY <1>3, SeqCpKeeps DEF CallSeqCp, Call
<1>4. CASE CallSeqKeep
  BY <1>4, SeqKeepKeeps DEF CallSeqKeep, Call
<1>5. CASE CallSeqAdd
  BY <1>5, SeqAddKeeps, DeltasAssumption DEF CallSeqAdd, Call
<1>6. CASE CallSeqDiv
  BY <1>6, SeqDivKeeps, DivisorsAssumption DEF CallSeqDiv, Call
<1>7. CASE CallDefrag
  BY <1>7, DefragFlagKeeps DEF CallDefrag, Call
<1>8. CASE CallUpdate
  BY <1>8, UpdateKeeps DEF CallUpdate, Call
<1>9. ASSUME NEW batch \in Batches, DecodeBegin(batch)
      PROVE  Keeps(kv, kv') /\ sbatch' \in Seq(Entry)
  BY <1>9, BatchesAssumption DEF DecodeBegin, Keeps
<1>10. CASE DecodeUbatch
  <2>. DEFINE n == Len(Ubatch)
              h == FindSlot(Prepared, n)
              p == Compute(Place(Prepared, Ubatch, h), Ubatch)
  <2>1. Keeps(kv, Prepared) /\ Settled(Prepared)
    BY PreparedKeeps
  <2>2. /\ Ubatch \in Seq(Entry) /\ Ubatch # <<>> /\ Rest \in Seq(Entry)
    BY <1>10, UbatchType DEF DecodeUbatch
  <2>3. CanPlace(Prepared, n)
    BY <1>10 DEF DecodeUbatch
  <2>4. Keeps(kv, p)
    BY <2>1, <2>2, <2>3, FindSlotFits, PlacedKeeps, KeepsTwice DEF Keeps
  <2>5. PICK queue \in BOOLEAN : kv' = [p EXCEPT !.do_defrag = @ \/ queue]
    BY <1>10 DEF DecodeUbatch
  <2>6. p.do_defrag \in BOOLEAN
    BY <2>4 DEF Keeps, Shape, Cache
  <2>. HIDE DEF p
  <2>7. Keeps(kv, [p EXCEPT !.do_defrag = p.do_defrag \/ queue])
    BY <2>4, <2>6, DefragFlagKeeps, KeepsTwice DEF Keeps
  <2>. QED BY <1>10, <2>2, <2>5, <2>7 DEF DecodeUbatch
<1>11. CASE DecodeNoSlot
  <2>1. Keeps(kv, Prepared)
    BY PreparedKeeps
  <2>2. Len(Ubatch) \in Nat \ {0} /\ ~CanPlace(Prepared, Len(Ubatch))
    BY <1>11, UbatchType DEF DecodeNoSlot
  <2>3. HeadAfterMiss(Prepared, Len(Ubatch)) \in 0 .. Size
    BY <2>1, <2>2, HeadAfterMissInRange DEF Keeps
  <2>4. Keeps(kv, kv')
    BY <1>11, <2>1, <2>3, HeadKeeps, KeepsTwice DEF DecodeNoSlot, Keeps
  <2>5. sbatch' \in Seq(Entry)
    BY <1>11, EmptySeq DEF DecodeNoSlot
  <2>. QED BY <2>4, <2>5
<1>12. CASE UNCHANGED vars
  BY <1>12 DEF vars, Keeps
<1>. QED BY <1>1, <1>2, <1>3, <1>4, <1>5, <1>6, <1>7, <1>8, <1>9, <1>10, <1>11, <1>12
         DEF Next, Decode

\* The inductive invariant is kept by every step.
LEMMA IInvStep == IInv /\ [Next]_vars => IInv'
<1>. SUFFICES ASSUME Sound(kv), sbatch \in Seq(Entry), [Next]_vars PROVE IInv'
  BY DEF IInv
<1>1. Keeps(kv, kv') /\ sbatch' \in Seq(Entry)
  BY SoundShape, StepKeeps
<1>. QED BY <1>1, KeepsSound DEF IInv

LEMMA IInvInit == Init => IInv
BY InitSound, EmptySeq DEF Init, IInv

\* In every reachable state the cache is sound; the theorems below name its
\* parts.
THEOREM Invariance == Spec => []IInv
BY IInvInit, IInvStep, PTL DEF Spec

\* The cache and the pending batch keep their types, and the head its range.
THEOREM TypeCorrect == Spec => []TypeOK
<1>1. IInv => TypeOK
  BY DEF IInv, Sound, TypeOK
<1>. QED BY <1>1, Invariance, PTL

\* find_slot and defrag never disagree on which cells are free, whatever calls
\* were made: a cell has a position exactly when it has a sequence.
THEOREM PositionIffSequence == Spec => []PosIffSeq
<1>1. IInv => PosIffSeq
  BY DEF IInv, Sound, PosIffSeq
<1>. QED BY <1>1, Invariance, PTL

\* The K row of every used cell is rotated to the position of the cell, up to
\* the shift that is still pending for it.
THEOREM RowsRotated == Spec => []RotationCoherent
<1>1. IInv => RotationCoherent
  BY DEF IInv, Sound, RotationCoherent
<1>. QED BY <1>1, Invariance, PTL

\* No shift is pending without has_shift.
THEOREM ShiftsAnnounced == Spec => []ShiftFlagged
<1>1. IInv => ShiftFlagged
  BY DEF IInv, Sound, ShiftFlagged
<1>. QED BY <1>1, Invariance, PTL

-----------------------------------------------------------------------------
(* The counter of used cells, and the assertion of                         *)
(* llama_kv_cache_defrag_internal that rests on it.                        *)

Exact(k) == k.used = Cardinality(UsedCells(k))

-----------------------------------------------------------------------------
(* Counting.                                                               *)

\* A cache that lost the cells F, and counted them, is exact again.
LEMMA ExactLess ==
    ASSUME NEW k, Exact(k), NEW r, NEW F,
           F \subseteq UsedCells(k), UsedCells(r) = UsedCells(k) \ F,
           r.used = k.used - Cardinality(F)
    PROVE  Exact(r)
<1>1. UsedCells(k) \in SUBSET Cells /\ UsedCells(k) \cap F = F
    BY DEF UsedCells
<1>2. IsFiniteSet(UsedCells(k))
    BY <1>1, CellsFinite
<1>3. Cardinality(UsedCells(k) \ F)
        = Cardinality(UsedCells(k)) - Cardinality(UsedCells(k) \cap F)
    BY <1>2, FS_Difference
<1>4. Cardinality(UsedCells(k) \cap F) = Cardinality(F)
    BY <1>1
<1>. QED
    BY <1>3, <1>4 DEF Exact

\* A cache that got the cells F, and counted them, is exact again.
LEMMA ExactMore ==
    ASSUME NEW k, Exact(k), NEW r, NEW F \in SUBSET Cells,
           F \cap UsedCells(k) = {}, UsedCells(r) = UsedCells(k) \cup F,
           r.used = k.used + Cardinality(F)
    PROVE  Exact(r)
<1>1. UsedCells(k) \in SUBSET Cells /\ UsedCells(k) \cap F = {}
    BY DEF UsedCells
<1>2. IsFiniteSet(UsedCells(k)) /\ IsFiniteSet(F) /\ Cardinality(F) \in Nat
      /\ Cardinality(UsedCells(k)) \in Nat
    BY <1>1, CellsFinite
<1>3. Cardinality(UsedCells(k) \cup F)
        = Cardinality(UsedCells(k)) + Cardinality(F) - Cardinality(UsedCells(k) \cap F)
    BY <1>2, FS_Union
<1>4. Cardinality(UsedCells(k) \cap F) = 0
    BY <1>1, FS_EmptySet
<1>. QED
    BY <1>2, <1>3, <1>4 DEF Exact

\* A cache whose occupied cells and counter stay is exact.
LEMMA ExactSame ==
    ASSUME NEW k, Exact(k), NEW r, r.used = k.used,
           \A i \in Cells : r.seq_id[i] = {} <=> k.seq_id[i] = {}
    PROVE  Exact(r)
<1>1. UsedCells(r) = UsedCells(k)
    BY DEF UsedCells, IsEmpty
<1>. QED
    BY <1>1 DEF Exact

-----------------------------------------------------------------------------
(* The calls.                                                              *)

LEMMA InitExact == Exact(InitCache)
<1>1. UsedCells(InitCache) = {} /\ InitCache.used = 0
    BY DEF UsedCells, IsEmpty, InitCache
<1>. QED
    BY <1>1, FS_EmptySet DEF Exact

LEMMA ClearExact ==
    ASSUME NEW k \in Cache
    PROVE  Exact(Clear(k))
<1>1. Clear(k).used = 0 /\ \A i \in Cells : Clear(k).seq_id[i] = {}
    BY DEF Clear, Cache
<1>2. UsedCells(Clear(k)) = {}
    BY <1>1 DEF UsedCells, IsEmpty
<1>. QED
    BY <1>1, <1>2, FS_EmptySet DEF Exact

LEMMA SeqRmExact ==
    ASSUME NEW k, Shape(k), PosIffSeqIn(k), Exact(k), NEW s, NEW p0, NEW p1
    PROVE  Exact(SeqRm(k, s, p0, p1))
<1>. DEFINE hit   == RmHit(k, s, p0, p1)
            freed == RmFreed(k, s, p0, p1)
            ns == [i \in Cells |-> IF i \in freed THEN {}
                                   ELSE IF i \in hit THEN k.seq_id[i] \ {s}
                                   ELSE k.seq_id[i]]
            r  == SeqRm(k, s, p0, p1)
<1>0. k \in Cache
    BY DEF Shape
<1>1. r.seq_id = ns /\ r.used = k.used - Cardinality(freed)
    BY <1>0 DEF SeqRm, Cache
<1>2. freed \subseteq UsedCells(k)
    <2>. SUFFICES ASSUME NEW i \in freed PROVE i \in UsedCells(k)
        OBVIOUS
    <2>1. i \in Cells /\ k.pos[i] >= 0
        BY DEF RmFreed, RmHit, InRange
    <2>. QED
        BY <2>1 DEF PosIffSeqIn, UsedCells
<1>3. \A i \in Cells : ns[i] # {} <=> k.seq_id[i] # {} /\ i \notin freed
    BY DEF RmHit, RmFreed
<1>. HIDE DEF ns, r, freed
<1>4. UsedCells(r) = UsedCells(k) \ freed
    BY <1>1, <1>3 DEF UsedCells, IsEmpty
<1>5. Exact(r)
    BY <1>1, <1>2, <1>4, ExactLess
<1>. QED
    BY <1>5 DEF r

LEMMA SeqCpExact ==
    ASSUME NEW k \in Cache, Exact(k), NEW src, NEW dst, NEW p0, NEW p1
    PROVE  Exact(SeqCp(k, src, dst, p0, p1))
<1>1. CASE src = dst
    BY <1>1 DEF SeqCp
<1>2. CASE src # dst
    <2>. DEFINE ns == [i \in Cells |->
                        IF src \in k.seq_id[i] /\ InRange(k.pos[i], p0, p1)
                        THEN k.seq_id[i] \cup {dst} ELSE k.seq_id[i]]
                r  == SeqCp(k, src, dst, p0, p1)
    <2>1. r.used = k.used /\ r.seq_id = ns
        BY <1>2 DEF SeqCp, Cache
    <2>2. \A i \in Cells : ns[i] = {} <=> k.seq_id[i] = {}
        OBVIOUS
    <2>. HIDE DEF ns, r
    <2>3. Exact(r)
        BY <2>1, <2>2, ExactSame
    <2>. QED
        BY <2>3 DEF r
<1>. QED
    BY <1>1, <1>2

LEMMA SeqKeepExact ==
    ASSUME NEW k, Shape(k), PosIffSeqIn(k), Exact(k), NEW s
    PROVE  Exact(SeqKeep(k, s))
<1>. DEFINE out  == {i \in Cells : s \notin k.seq_id[i]}
            gone == {i \in out : k.pos[i] >= 0}
            ns == [i \in Cells |-> IF i \in out THEN {} ELSE {s}]
            r  == SeqKeep(k, s)
<1>0. k \in Cache
    BY DEF Shape
<1>1. r.seq_id = ns /\ r.used = k.used - Cardinality(gone)
    BY <1>0 DEF SeqKeep, Cache
<1>2. \A i \in Cells : i \in gone <=> i \in out /\ k.seq_id[i] # {}
    BY DEF PosIffSeqIn, IsEmpty
<1>3. \A i \in Cells : ns[i] # {} <=> k.seq_id[i] # {} /\ i \notin gone
    BY <1>2
<1>4. gone \subseteq UsedCells(k)
    BY <1>2 DEF UsedCells, IsEmpty
<1>. HIDE DEF ns, r, gone
<1>5. UsedCells(r) = UsedCells(k) \ gone
    BY <1>1, <1>3 DEF UsedCells, IsEmpty
<1>6. Exact(r)
    BY <1>1, <1>4, <1>5, ExactLess
<1>. QED
    BY <1>6 DEF r

LEMMA SeqAddExact ==
    ASSUME NEW k \in Cache, Exact(k), NEW s, NEW p0, NEW p1, NEW d
    PROVE  Exact(SeqAdd(k, s, p0, p1, d))
<1>1. CASE EmptyRange(p0, p1)
    BY <1>1 DEF SeqAdd
<1>2. CASE ~EmptyRange(p0, p1)
    <2>. DEFINE freed == AddFreed(k, s, p0, p1, d)
                ns == [i \in Cells |-> IF i \in freed THEN {} ELSE k.seq_id[i]]
                r  == SeqAdd(k, s, p0, p1, d)
    <2>1. r.seq_id = ns /\ r.used = k.used - Cardinality(freed)
        BY <1>2 DEF SeqAdd, Cache
    <2>2. freed \subseteq UsedCells(k)
        BY DEF AddFreed, AddHit, UsedCells, IsEmpty
    <2>3. \A i \in Cells : ns[i] # {} <=> k.seq_id[i] # {} /\ i \notin freed
        OBVIOUS
    <2>. HIDE DEF ns, r, freed
    <2>4. UsedCells(r) = UsedCells(k) \ freed
        BY <2>1, <2>3 DEF UsedCells, IsEmpty
    <2>5. Exact(r)
        BY <2>1, <2>2, <2>4, ExactLess
    <2>. QED
        BY <2>5 DEF r
<1>. QED
    BY <1>1, <1>2

LEMMA SeqDivExact ==
    ASSUME NEW k \in Cache, Exact(k), NEW s, NEW p0, NEW p1, NEW d
    PROVE  Exact(SeqDiv(k, s, p0, p1, d))
<1>. DEFINE r == SeqDiv(k, s, p0, p1, d)
<1>1. r.used = k.used /\ r.seq_id = k.seq_id
    BY DEF SeqDiv, Cache
<1>. HIDE DEF r
<1>2. Exact(r)
    BY <1>1, ExactSame
<1>. QED
    BY <1>2 DEF r

-----------------------------------------------------------------------------
(* llama_kv_cache_defrag_internal.                                         *)

\* One cell goes to a hole, and a cell goes to one hole.
LEMMA MoveOneToOne ==
    ASSUME NEW k, NEW t, NEW u, NEW g, NEW h, Move(k, t, g), Move(k, u, h)
    PROVE  t = u <=> g = h
BY MovesToOneToOne DEF Move

\* The cells a defragmentation empties and those it fills, and where each goes.
From(k) == {t \in Cells : \E h \in Cells : Move(k, t, h)}
To(k) == {h \in Cells : \E t \in Cells : Move(k, t, h)}
Goes(k) == [t \in From(k) |-> CHOOSE h \in Cells : Move(k, t, h)]

LEMMA GoesOneToOne ==
    ASSUME NEW k
    PROVE  /\ \A t \in From(k) : Move(k, t, Goes(k)[t])
           /\ Goes(k) \in Bijection(From(k), To(k))
           /\ From(k) \subseteq UsedCells(k)
           /\ To(k) \subseteq Cells /\ To(k) \cap UsedCells(k) = {}
<1>1. \A t, h : Move(k, t, h) =>
            t \in Cells /\ h \in Cells /\ k.seq_id[t] # {} /\ k.seq_id[h] = {}
    BY DEF Move, MovesTo, Holes, Movable, IsEmpty
<1>2. \A t \in From(k) : Move(k, t, Goes(k)[t]) /\ Goes(k)[t] \in To(k)
    BY <1>1 DEF From, To, Goes
<1>3. Goes(k) \in Bijection(From(k), To(k))
    <2>1. Goes(k) \in [From(k) -> To(k)]
        BY <1>2 DEF Goes
    <2>2. \A t, u \in From(k) : Goes(k)[t] = Goes(k)[u] => t = u
        BY <1>2, MoveOneToOne
    <2>3. \A h \in To(k) : \E t \in From(k) : Goes(k)[t] = h
        <3>. TAKE h \in To(k)
        <3>1. PICK t \in Cells : Move(k, t, h)
            BY DEF To
        <3>2. t \in From(k)
            BY <1>1, <3>1 DEF From
        <3>3. Move(k, t, Goes(k)[t])
            BY <1>2, <3>2
        <3>4. Goes(k)[t] = h
            BY <3>1, <3>3, MoveOneToOne
        <3>. QED
            BY <3>2, <3>4
    <2>. QED
        BY <2>1, <2>2, <2>3, Fun_IsBij
<1>. QED
    BY <1>1, <1>2, <1>3 DEF UsedCells, IsEmpty, From, To

LEMMA DefragUsed ==
    ASSUME NEW k \in Cache
    PROVE  UsedCells(Defrag(k)) = (UsedCells(k) \ From(k)) \cup To(k)
<1>. DEFINE ns == Moved(k, k.seq_id, {})
            r  == Defrag(k)
<1>1. r.seq_id = ns
    BY DEF Defrag, Cache
<1>2. \A i \in Cells : ns[i] # {} <=> i \in (UsedCells(k) \ From(k)) \cup To(k)
    <2>. TAKE i \in Cells
    <2>1. CASE i \in To(k)
        <3>1. PICK t \in Cells : Move(k, t, i) /\ t = CHOOSE u \in Cells : Move(k, u, i)
            BY <2>1 DEF To
        <3>2. ns[i] = k.seq_id[t]
            BY <3>1 DEF Moved
        <3>3. k.seq_id[t] # {}
            BY <3>1 DEF Move, MovesTo, Movable, IsEmpty
        <3>. QED
            BY <2>1, <3>2, <3>3
    <2>2. CASE i \notin To(k)
        <3>1. ns[i] = IF i \in From(k) THEN {} ELSE k.seq_id[i]
            BY <2>2 DEF Moved, To, From
        <3>. QED
            BY <2>2, <3>1 DEF UsedCells, IsEmpty
    <2>. QED
        BY <2>1, <2>2
<1>. HIDE DEF ns, r
<1>3. UsedCells(k) \subseteq Cells /\ To(k) \subseteq Cells
    BY DEF UsedCells, To
<1>4. UsedCells(r) = (UsedCells(k) \ From(k)) \cup To(k)
    BY <1>1, <1>2, <1>3 DEF UsedCells, IsEmpty
<1>. QED
    BY <1>4 DEF r

\* A defragmentation moves as many cells as it fills, whatever limit of moves it
\* stops at.
LEMMA DefragExact ==
    ASSUME NEW k \in Cache, Exact(k)
    PROVE  Exact(Defrag(k))
<1>. DEFINE from == From(k)
            to   == To(k)
            r    == Defrag(k)
            U    == UsedCells(k)
<1>4. Cardinality(from) = Cardinality(to) /\ IsFiniteSet(from) /\ IsFiniteSet(to)
    <2>1. ExistsBijection(from, to)
        BY GoesOneToOne, Fun_ExistsBij
    <2>2. from \in SUBSET Cells /\ to \in SUBSET Cells
        BY DEF From, To
    <2>. HIDE DEF from, to
    <2>. QED
        BY <2>1, <2>2, CellsFinite, FS_Bijection
<1>5. r.used = k.used
    BY DEF Defrag, Cache
<1>7. /\ from \subseteq U /\ to \cap U = {} /\ U \subseteq Cells /\ to \subseteq Cells
    BY GoesOneToOne DEF UsedCells
<1>8. UsedCells(r) = (U \ from) \cup to
    BY DefragUsed
<1>. HIDE DEF from, to, r, U
<1>9. IsFiniteSet(U) /\ IsFiniteSet(U \ from) /\ Cardinality(U) \in Nat
      /\ Cardinality(from) \in Nat
    BY <1>4, <1>7, CellsFinite, FS_Difference, FS_CardinalityType
<1>10. Cardinality(U \ from) = Cardinality(U) - Cardinality(from)
    <2>1. U \cap from = from
        BY <1>7
    <2>2. Cardinality(U \cap from) = Cardinality(from)
        BY <2>1
    <2>3. Cardinality(U \ from) = Cardinality(U) - Cardinality(U \cap from)
        BY <1>9, FS_Difference
    <2>. QED
        BY <2>2, <2>3
<1>11. Cardinality((U \ from) \cup to) = Cardinality(U \ from) + Cardinality(to)
    <2>1. (U \ from) \cap to = {}
        BY <1>7
    <2>2. Cardinality((U \ from) \cap to) = 0
        BY <2>1, FS_EmptySet
    <2>3. Cardinality((U \ from) \cup to) =
            Cardinality(U \ from) + Cardinality(to) - Cardinality((U \ from) \cap to)
        BY <1>4, <1>9, FS_Union
    <2>4. Cardinality(U \ from) \in Nat /\ Cardinality(to) \in Nat
        BY <1>4, <1>9, FS_CardinalityType
    <2>. QED
        BY <2>2, <2>3, <2>4
<1>12. Cardinality(UsedCells(r)) = Cardinality(U)
    BY <1>4, <1>8, <1>9, <1>10, <1>11
<1>13. Exact(r)
    BY <1>5, <1>12 DEF Exact, U
<1>. QED
    BY <1>13 DEF r

LEMMA UpdateExact ==
    ASSUME NEW k, Shape(k), Exact(k)
    PROVE  Exact(Update(k))
<1>. DEFINE a == ApplyShift(k)
            b == Defrag(a)
            r == [b EXCEPT !.do_defrag = FALSE]
<1>1. Shape(a) /\ Settled(a)
    BY ApplyShiftKeeps DEF Keeps
<1>2. a.used = k.used /\ a.seq_id = k.seq_id
    BY DEF ApplyShift, Shape, Cache
<1>3. Update(k) = IF a.do_defrag THEN r ELSE a
    BY DEF Update, ApplyDefrag
<1>. HIDE DEF a
<1>4. Exact(a)
    BY <1>2, ExactSame
<1>5. Exact(b) /\ b \in Cache
    BY <1>1, <1>4, DefragExact, DefragKeeps DEF Keeps, Shape
<1>. HIDE DEF b
<1>6. r.used = b.used /\ r.seq_id = b.seq_id
    BY <1>5 DEF Cache
<1>. HIDE DEF r
<1>7. Exact(r)
    BY <1>5, <1>6, ExactSame
<1>. QED
    BY <1>3, <1>4, <1>7

-----------------------------------------------------------------------------
(* llama_decode.                                                           *)

LEMMA HeadExact ==
    ASSUME NEW k \in Cache, Exact(k), NEW h
    PROVE  Exact([k EXCEPT !.head = h])
<1>. DEFINE r == [k EXCEPT !.head = h]
<1>1. r.used = k.used /\ r.seq_id = k.seq_id
    BY DEF Cache
<1>. HIDE DEF r
<1>2. Exact(r)
    BY <1>1, ExactSame
<1>. QED
    BY <1>2 DEF r

LEMMA DefragFlagExact ==
    ASSUME NEW k \in Cache, Exact(k), NEW f
    PROVE  Exact([k EXCEPT !.do_defrag = f])
<1>. DEFINE r == [k EXCEPT !.do_defrag = f]
<1>1. r.used = k.used /\ r.seq_id = k.seq_id
    BY DEF Cache
<1>. HIDE DEF r
<1>2. Exact(r)
    BY <1>1, ExactSame
<1>. QED
    BY <1>2 DEF r

LEMMA PreparedExact ==
    ASSUME Shape(kv), Exact(kv)
    PROVE  Exact(Prepared)
<1>. DEFINE k == Update(kv)
            h == IF k.head > k.used + 2 * Len(Ubatch) THEN 0 ELSE k.head
<1>1. Exact(k) /\ k \in Cache
    BY UpdateExact, UpdateKeeps DEF Keeps, Shape
<1>2. Prepared = [k EXCEPT !.head = h]
    BY DEF Prepared
<1>. HIDE DEF k, h
<1>. QED
    BY <1>1, <1>2, HeadExact

\* The cells a ubatch is placed in were free, and are used now.
LEMMA PlacedUsed ==
    ASSUME NEW k, Shape(k), NEW u \in Seq(Entry), u # <<>>, NEW h \in Fits(k, Len(u))
    PROVE  LET F == h .. h + Len(u) - 1
               r == Compute(Place(k, u, h), u)
           IN  /\ F \in SUBSET Cells /\ F \cap UsedCells(k) = {}
               /\ Cardinality(F) = Len(u)
               /\ UsedCells(r) = UsedCells(k) \cup F
               /\ r.used = k.used + Len(u)
<1>. DEFINE n  == Len(u)
            F  == h .. h + n - 1
            in(i) == h <= i /\ i < h + n
            ns == [i \in Cells |-> IF in(i) THEN k.seq_id[i] \cup u[i - h + 1].seqs
                                            ELSE k.seq_id[i]]
            p  == Place(k, u, h)
            r  == Compute(p, u)
<1>0. k \in Cache
    BY DEF Shape
<1>1. n \in Nat \ {0} /\ h \in Nat /\ h + n <= Size
    BY EmptySeq, LenProperties, SizeAssumption DEF Fits, FitsAt, Cells
<1>2. \A i \in F : i \in Cells /\ k.seq_id[i] = {}
    <2>1. \A i \in F : i \in Cells /\ k.pos[i] < 0
        BY <1>1, SizeAssumption DEF Fits, FitsAt, Free, Cells
    <2>3. \A i \in Cells : k.pos[i] \in Int
        BY <1>0 DEF Cache
    <2>4. \A i \in Cells : k.pos[i] < 0 => IsEmpty(k, i)
        BY <2>3 DEF Shape, Held
    <2>. HIDE DEF F
    <2>. QED
        BY <2>1, <2>4 DEF IsEmpty
<1>3. \A i \in F : u[i - h + 1].seqs # {}
    <2>. SUFFICES ASSUME NEW i \in F
                  PROVE  u[i - h + 1] \in Entry
        BY DEF Entry
    <2>1. i - h + 1 \in 1 .. Len(u)
        BY <1>1
    <2>. QED
        BY <2>1, ElementOfSeq
<1>4. p.seq_id = ns /\ p.used = k.used + n /\ DOMAIN p = DOMAIN k
    BY <1>0 DEF Place, Cache
<1>5. r.seq_id = p.seq_id /\ r.used = p.used
    BY DEF Compute
<1>6. \A i \in Cells : in(i) <=> i \in F
    BY <1>1, SizeAssumption DEF Cells
<1>7. \A i \in Cells : ns[i] # {} <=> k.seq_id[i] # {} \/ i \in F
    <2>. HIDE DEF in, F
    <2>. QED
        BY <1>3, <1>6
<1>8. F \in SUBSET Cells /\ F \cap UsedCells(k) = {}
    BY <1>2 DEF UsedCells, IsEmpty
<1>9. Cardinality(F) = n
    <2>1. h \in Int /\ h + n - 1 \in Int
        BY <1>1
    <2>2. Cardinality(F) = IF h > h + n - 1 THEN 0 ELSE h + n - 1 - h + 1
        BY <2>1, FS_Interval
    <2>. HIDE DEF F, n
    <2>. QED
        BY <1>1, <2>2
<1>. HIDE DEF F, ns, p, r, in, n
<1>10. UsedCells(r) = UsedCells(k) \cup F
    BY <1>4, <1>5, <1>7, <1>8 DEF UsedCells, IsEmpty
<1>. QED
    BY <1>4, <1>5, <1>8, <1>9, <1>10 DEF r, p, F, n

\* Each of them is counted once.
LEMMA PlacedExact ==
    ASSUME NEW k, Shape(k), Exact(k), NEW u \in Seq(Entry), u # <<>>,
           NEW h \in Fits(k, Len(u))
    PROVE  Exact(Compute(Place(k, u, h), u))
<1>. DEFINE F == h .. h + Len(u) - 1
            r == Compute(Place(k, u, h), u)
<1>1. /\ F \in SUBSET Cells /\ F \cap UsedCells(k) = {} /\ Cardinality(F) = Len(u)
      /\ UsedCells(r) = UsedCells(k) \cup F /\ r.used = k.used + Len(u)
    BY PlacedUsed
<1>. HIDE DEF F, r
<1>2. Exact(r)
    BY <1>1, ExactMore
<1>. QED
    BY <1>2 DEF r

-----------------------------------------------------------------------------
(* The theorems.                                                           *)

CountInv == IInv /\ Exact(kv)

LEMMA CountInit == Init => CountInv
BY IInvInit, InitExact DEF Init, CountInv

LEMMA StepExact ==
    ASSUME Shape(kv), PosIffSeqIn(kv), Exact(kv), sbatch \in Seq(Entry), [Next]_vars
    PROVE  Exact(kv')
<1>0. kv \in Cache
    BY DEF Shape
<1>1. CASE CallClear
    BY <1>0, <1>1, ClearExact DEF CallClear, Call
<1>2. CASE CallSeqRm
    BY <1>0, <1>2, SeqRmExact DEF CallSeqRm, Call
<1>3. CASE CallSeqCp
    BY <1>0, <1>3, SeqCpExact DEF CallSeqCp, Call
<1>4. CASE CallSeqKeep
    BY <1>0, <1>4, SeqKeepExact DEF CallSeqKeep, Call
<1>5. CASE CallSeqAdd
    BY <1>0, <1>5, SeqAddExact DEF CallSeqAdd, Call
<1>6. CASE CallSeqDiv
    BY <1>0, <1>6, SeqDivExact DEF CallSeqDiv, Call
<1>7. CASE CallDefrag
    BY <1>0, <1>7, DefragFlagExact DEF CallDefrag, Call
<1>8. CASE CallUpdate
    BY <1>0, <1>8, UpdateExact DEF CallUpdate, Call
<1>9. ASSUME NEW batch \in Batches, DecodeBegin(batch)
      PROVE  Exact(kv')
    BY <1>0, <1>9 DEF DecodeBegin
<1>10. CASE DecodeUbatch
    <2>. DEFINE n == Len(Ubatch)
                h == FindSlot(Prepared, n)
                p == Compute(Place(Prepared, Ubatch, h), Ubatch)
    <2>1. Shape(Prepared) /\ Settled(Prepared) /\ Exact(Prepared)
        BY PreparedKeeps, PreparedExact DEF Keeps
    <2>2. Ubatch \in Seq(Entry) /\ Ubatch # <<>>
        BY <1>0, <1>10, UbatchType DEF DecodeUbatch
    <2>3. h \in Fits(Prepared, n)
        BY <1>10, FindSlotFits DEF DecodeUbatch
    <2>4. Exact(p) /\ p \in Cache
        BY <2>1, <2>2, <2>3, PlacedExact, PlacedKeeps DEF Keeps, Shape
    <2>5. PICK queue \in BOOLEAN : kv' = [p EXCEPT !.do_defrag = @ \/ queue]
        BY <1>10 DEF DecodeUbatch
    <2>. HIDE DEF p
    <2>6. Exact([p EXCEPT !.do_defrag = p.do_defrag \/ queue])
        BY <2>4, DefragFlagExact
    <2>. QED
        BY <2>5, <2>6
<1>11. CASE DecodeNoSlot
    <2>1. Prepared \in Cache /\ Exact(Prepared)
        BY PreparedKeeps, PreparedExact DEF Keeps, Shape
    <2>2. kv' = [Prepared EXCEPT !.head = HeadAfterMiss(Prepared, Len(Ubatch))]
        BY <1>11 DEF DecodeNoSlot
    <2>. QED
        BY <2>1, <2>2, HeadExact
<1>12. CASE UNCHANGED vars
    BY <1>0, <1>12 DEF vars
<1>. QED
    BY <1>1, <1>2, <1>3, <1>4, <1>5, <1>6, <1>7, <1>8, <1>9, <1>10, <1>11, <1>12
       DEF Next, Decode

LEMMA CountStep == CountInv /\ [Next]_vars => CountInv'
<1>. SUFFICES ASSUME CountInv, [Next]_vars PROVE Exact(kv')
    BY IInvStep DEF CountInv, Exact, UsedCells, IsEmpty
<1>1. Shape(kv) /\ PosIffSeqIn(kv) /\ Exact(kv) /\ sbatch \in Seq(Entry)
    BY SoundShape DEF CountInv, IInv
<1>. QED
    BY <1>1, StepExact

LEMMA Counted == Spec => []CountInv
BY CountInit, CountStep, PTL DEF Spec

\* cache.used is the number of used cells, whatever calls were made and however
\* decodes ended.
THEOREM CounterExact == Spec => []UsedExact
<1>1. CountInv => UsedExact
    BY DEF CountInv, Exact, UsedExact
<1>. QED
    BY <1>1, Counted, PTL

\* A defragmentation may begin at any time: there are as many holes as cells to
\* fill them.
THEOREM HolesFilled == Spec => [](Cardinality(Holes(kv)) = Cardinality(Movable(kv)))
<1>1. CountInv => Cardinality(Holes(kv)) = Cardinality(Movable(kv))
    BY HolesMatch DEF CountInv, Exact
<1>. QED
    BY <1>1, Counted, PTL

-----------------------------------------------------------------------------
(* llama_kv_cache_view_update.                                             *)

Runs == [from : Int, max : Int, max_from : Int]

\* The scan of one more cell, c.
ScanCell(v, c) ==
    IF IsEmpty(kv, c)
    THEN IF v.from >= 0 THEN v ELSE [v EXCEPT !.from = c]
    ELSE IF v.from >= 0 /\ c - v.from > v.max
         THEN [from |-> -1, max |-> c - v.from, max_from |-> v.from]
         ELSE [v EXCEPT !.from = -1]

NoRun == [from |-> -1, max |-> 0, max_from |-> -1]

\* The scan has a value for every part of the cache.
LEMMA ScanRuns ==
    \E f :
        /\ Scan = f[Size]
        /\ f[0] = NoRun
        /\ \A i \in 1 .. Size : f[i] = ScanCell(f[i - 1], i - 1)
<1>. DEFINE all(f) == [i \in 0 .. Size |-> IF i = 0 THEN NoRun ELSE ScanCell(f[i - 1], i - 1)]
            g == [i \in 1 .. Size |-> [v \in Runs |-> ScanCell(v, i - 1)]]
            F == CHOOSE f : f = all(f)
<1>1. Size \in Nat \ {0} /\ NoRun \in Runs
    BY SizeAssumption DEF NoRun, Runs
<1>2. g \in [1 .. Size -> [Runs -> Runs]]
    <2>1. ASSUME NEW i \in 1 .. Size, NEW v \in Runs
          PROVE  ScanCell(v, i - 1) \in Runs
        BY <1>1 DEF ScanCell, Runs
    <2>. QED
        BY <2>1
<1>3. PICK f \in [0 .. Size -> Runs] :
            f[0] = NoRun /\ \A i \in 1 .. Size : f[i] = g[i][f[i - 1]]
    <2>1. Size \in Nat /\ Steps(g, Size, Runs)
        BY <1>1, <1>2 DEF Steps
    <2>. HIDE DEF g
    <2>2. \E f : Values(f, NoRun, g, Size, Runs)
        BY <1>1, <2>1, LoopHasValues
    <2>. QED
        BY <2>2 DEF Values
<1>4. \A i \in 1 .. Size : f[i] = ScanCell(f[i - 1], i - 1)
    <2>. TAKE i \in 1 .. Size
    <2>1. f[i - 1] \in Runs
        BY <1>1
    <2>. QED
        BY <1>3, <2>1
<1>5. f = all(f)
    BY <1>1, <1>3, <1>4
<1>6. F = all(F)
    BY <1>5
<1>7. Scan = F[Size]
    BY DEF Scan, ScanCell, NoRun
<1>. HIDE DEF F
<1>8. \A i \in 0 .. Size : F[i] = IF i = 0 THEN NoRun ELSE ScanCell(F[i - 1], i - 1)
    BY <1>6
<1>9. F[0] = NoRun /\ \A i \in 1 .. Size : F[i] = ScanCell(F[i - 1], i - 1)
    BY <1>1, <1>8
<1>. QED
    BY <1>7, <1>9

EmptyRow(h, n) == \A c \in h .. h + n - 1 : IsEmpty(kv, c)

\* What v says of the cells before i: the run that reaches them, the longest one
\* that ended, and that there is no longer one.
RunOpen(v, i) ==
    /\ v.from = -1 \/ v.from \in 0 .. i - 1
    /\ v.from = -1 => i = 0 \/ ~IsEmpty(kv, i - 1)
    /\ v.from >= 0 => EmptyRow(v.from, i - v.from) /\ (v.from = 0 \/ ~IsEmpty(kv, v.from - 1))

RunEnded(v, i) ==
    /\ v.max \in Nat /\ v.max_from \in Int
    /\ v.max = 0 <=> v.max_from = -1
    /\ v.max > 0 => /\ v.max_from \in Nat /\ v.max_from + v.max <= i
                    /\ EmptyRow(v.max_from, v.max)

RunLongest(v, i) ==
    \A h, n \in Nat : n >= 1 /\ h + n <= i /\ EmptyRow(h, n)
                        => n <= v.max \/ (v.from >= 0 /\ h >= v.from)

RunsTrue(v, i) == v \in Runs /\ RunOpen(v, i) /\ RunEnded(v, i) /\ RunLongest(v, i)

LEMMA ScanCellTrue ==
    ASSUME NEW v, NEW c \in Nat, RunsTrue(v, c)
    PROVE  RunsTrue(ScanCell(v, c), c + 1)
<1>. DEFINE w == ScanCell(v, c)
<1>0. v.from \in Int /\ v.max \in Nat /\ v.max_from \in Int /\ v.from >= -1 /\ v.from < c
    BY DEF RunsTrue, RunOpen, RunEnded, Runs
<1>1. CASE IsEmpty(kv, c) /\ v.from >= 0
    <2>1. w = v
        BY <1>1 DEF ScanCell
    <2>2. EmptyRow(v.from, c - v.from) /\ (v.from = 0 \/ ~IsEmpty(kv, v.from - 1))
        BY <1>1 DEF RunsTrue, RunOpen
    <2>3. EmptyRow(v.from, c + 1 - v.from)
        BY <1>0, <1>1, <2>2 DEF EmptyRow
    <2>4. RunOpen(v, c + 1)
        BY <1>0, <1>1, <2>2, <2>3 DEF RunOpen
    <2>5. RunEnded(v, c + 1)
        BY <1>0 DEF RunsTrue, RunEnded
    <2>6. ASSUME NEW h \in Nat, NEW n \in Nat, n >= 1, h + n <= c + 1, EmptyRow(h, n)
          PROVE  n <= v.max \/ h >= v.from
        <3>1. CASE h + n <= c
            BY <2>6, <3>1 DEF RunsTrue, RunLongest
        <3>2. CASE h + n = c + 1
            <4>1. SUFFICES ASSUME h < v.from PROVE FALSE
                BY <1>0
            <4>2. v.from - 1 \in h .. h + n - 1
                BY <1>0, <3>2, <4>1
            <4>. QED
                BY <1>0, <2>2, <2>6, <4>1, <4>2 DEF EmptyRow
        <3>. QED
            BY <2>6, <3>1, <3>2
    <2>7. RunLongest(v, c + 1)
        BY <1>1, <2>6 DEF RunLongest
    <2>. QED
        BY <2>1, <2>4, <2>5, <2>7 DEF RunsTrue
<1>2. CASE IsEmpty(kv, c) /\ v.from < 0
    <2>0. v.from = -1 /\ (c = 0 \/ ~IsEmpty(kv, c - 1))
        BY <1>0, <1>2 DEF RunsTrue, RunOpen
    <2>1. w.from = c /\ w.max = v.max /\ w.max_from = v.max_from /\ w \in Runs
        BY <1>0, <1>2 DEF ScanCell, RunsTrue, Runs
    <2>. HIDE DEF w
    <2>2. EmptyRow(c, 1)
        BY <1>2 DEF EmptyRow
    <2>3. RunOpen(w, c + 1)
        BY <2>0, <2>1, <2>2 DEF RunOpen
    <2>4. RunEnded(w, c + 1)
        BY <1>0, <2>1 DEF RunsTrue, RunEnded
    <2>5. ASSUME NEW h \in Nat, NEW n \in Nat, n >= 1, h + n <= c + 1, EmptyRow(h, n)
          PROVE  n <= w.max \/ (w.from >= 0 /\ h >= w.from)
        <3>1. CASE h + n <= c
            BY <2>0, <2>1, <2>5, <3>1 DEF RunsTrue, RunLongest
        <3>2. CASE h + n = c + 1 /\ h < c
            <4>1. c - 1 \in h .. h + n - 1 /\ c # 0
                BY <3>2
            <4>. QED
                BY <2>0, <2>5, <4>1 DEF EmptyRow
        <3>. QED
            BY <2>1, <2>5, <3>1, <3>2
    <2>6. RunLongest(w, c + 1)
        BY <2>5 DEF RunLongest
    <2>. QED
        BY <2>1, <2>3, <2>4, <2>6 DEF RunsTrue, w
<1>3. CASE ~IsEmpty(kv, c)
    <2>. DEFINE longer == v.from >= 0 /\ c - v.from > v.max
    <2>1. /\ w.from = -1 /\ w \in Runs
          /\ w.max = IF longer THEN c - v.from ELSE v.max
          /\ w.max_from = IF longer THEN v.from ELSE v.max_from
        BY <1>0, <1>3 DEF ScanCell, RunsTrue, Runs
    <2>. HIDE DEF w
    <2>2. RunOpen(w, c + 1)
        BY <1>3, <2>1 DEF RunOpen
    <2>3. v.from >= 0 => EmptyRow(v.from, c - v.from)
        BY DEF RunsTrue, RunOpen
    <2>4. RunEnded(v, c) /\ RunLongest(v, c)
        BY DEF RunsTrue
    <2>5. RunEnded(w, c + 1)
        BY <1>0, <2>1, <2>3, <2>4 DEF RunEnded
    <2>6. ASSUME NEW h \in Nat, NEW n \in Nat, n >= 1, h + n <= c + 1, EmptyRow(h, n)
          PROVE  n <= w.max
        <3>1. h + n # c + 1
            <4>1. h + n = c + 1 => c \in h .. h + n - 1
                BY <2>6
            <4>. QED
                BY <1>3, <2>6, <4>1 DEF EmptyRow
        <3>2. n <= v.max \/ (v.from >= 0 /\ h >= v.from)
            BY <2>4, <2>6, <3>1 DEF RunLongest
        <3>. QED
            BY <1>0, <2>1, <2>6, <3>1, <3>2
    <2>7. RunLongest(w, c + 1)
        BY <2>6 DEF RunLongest
    <2>. QED
        BY <2>1, <2>2, <2>5, <2>7 DEF RunsTrue, w
<1>. QED
    BY <1>0, <1>1, <1>2, <1>3

LEMMA ScanTrue == RunsTrue(Scan, Size)
<1>1. PICK f : /\ Scan = f[Size] /\ f[0] = NoRun
               /\ \A i \in 1 .. Size : f[i] = ScanCell(f[i - 1], i - 1)
    BY ScanRuns
<1>. DEFINE S == {i \in 0 .. Size : ~RunsTrue(f[i], i)}
<1>2. RunsTrue(NoRun, 0)
    BY DEF RunsTrue, NoRun, Runs, RunOpen, RunEnded, RunLongest
<1>3. S = {}
    <2>0. S \in SUBSET Nat /\ \A i \in S : i \in 0 .. Size /\ ~RunsTrue(f[i], i)
        OBVIOUS
    <2>1. SUFFICES ASSUME S # {} PROVE FALSE
        OBVIOUS
    <2>2. PICK m \in S : \A i \in S : m <= i
        <3>. HIDE DEF S
        <3>. QED
            BY <2>0, <2>1, LeastIsLeast
    <2>3. m # 0
        BY <1>1, <1>2, <2>0
    <2>4. m - 1 \notin S /\ m - 1 \in 0 .. Size /\ m \in 1 .. Size /\ m - 1 \in Nat
        <3>. HIDE DEF S
        <3>. QED
            BY <2>0, <2>2, <2>3, SizeAssumption
    <2>5. RunsTrue(f[m - 1], m - 1)
        BY <2>4
    <2>6. RunsTrue(ScanCell(f[m - 1], m - 1), m - 1 + 1)
        BY <2>4, <2>5, ScanCellTrue
    <2>7. m - 1 + 1 = m /\ f[m] = ScanCell(f[m - 1], m - 1)
        BY <1>1, <2>4
    <2>. QED
        BY <2>0, <2>6, <2>7
<1>4. Size \in 0 .. Size
    BY SizeAssumption
<1>. QED
    BY <1>1, <1>3, <1>4

\* What the view shows is right wherever a cell is free exactly when it is empty.
LEMMA ViewShows == Sound(kv) => ViewContiguous
<1>. SUFFICES ASSUME Sound(kv) PROVE ViewContiguous
    OBVIOUS
<1>. DEFINE v == Scan
            open == v.from >= 0 /\ Size - v.from > v.max
            max == View.max_contiguous
            idx == View.max_contiguous_idx
<1>1. \A i \in Cells : Free(kv, i) <=> IsEmpty(kv, i)
    <2>1. \A i \in Cells : IF IsEmpty(kv, i) THEN kv.pos[i] = -1 ELSE kv.pos[i] >= 0
        BY DEF Sound, PosIffSeqIn
    <2>2. \A i \in Cells : kv.pos[i] \in Int
        BY DEF Sound, Cache
    <2>. QED
        BY <2>1, <2>2 DEF Free
<1>2. RunsTrue(v, Size)
    BY ScanTrue
<1>3. max = (IF open THEN Size - v.from ELSE v.max)
      /\ idx = (IF open THEN v.from ELSE v.max_from)
    BY DEF View
<1>4. View.max_contiguous = max /\ View.max_contiguous_idx = idx
    OBVIOUS
<1>. HIDE DEF v, max, idx
<1>5. v.from \in Int /\ v.max \in Nat /\ v.max_from \in Int /\ v.from >= -1 /\ v.from < Size
    BY <1>2, SizeAssumption DEF RunsTrue, RunOpen, RunEnded, Runs
<1>6. max \in Nat /\ (max = 0 <=> idx = -1)
      /\ (max > 0 => idx \in Nat /\ idx + max <= Size /\ EmptyRow(idx, max))
    BY <1>2, <1>3, <1>5, SizeAssumption DEF RunsTrue, RunOpen, RunEnded
<1>7. ASSUME NEW n \in Nat, n >= 1, NEW h \in Nat
      PROVE  FitsAt(kv, n, h) <=> h + n <= Size /\ EmptyRow(h, n)
    <2>1. h + n <= Size => \A c \in h .. h + n - 1 : c \in Cells
        BY SizeAssumption DEF Cells
    <2>. QED
        BY <1>1, <2>1 DEF FitsAt, EmptyRow
<1>8. max > 0 => FitsAt(kv, max, idx)
    BY <1>6, <1>7
<1>9. ASSUME NEW n \in 1 .. Size, CanPlace(kv, n)
      PROVE  n <= max
    <2>1. PICK h \in Cells : FitsAt(kv, n, h)
        BY <1>9 DEF CanPlace, Fits
    <2>2. h \in Nat /\ n \in Nat /\ n >= 1
        BY SizeAssumption DEF Cells
    <2>3. h + n <= Size /\ EmptyRow(h, n)
        BY <1>7, <2>1, <2>2
    <2>4. n <= v.max \/ (v.from >= 0 /\ h >= v.from)
        BY <1>2, <2>2, <2>3 DEF RunsTrue, RunLongest
    <2>. QED
        BY <1>3, <1>5, <2>2, <2>3, <2>4, SizeAssumption
<1>10. ASSUME NEW n \in 1 .. Size, n <= max
       PROVE  CanPlace(kv, n)
    <2>1. n \in Nat /\ n >= 1 /\ n <= Size /\ max > 0
        BY <1>6, <1>10, SizeAssumption
    <2>2. idx \in Cells /\ idx \in Nat /\ idx + n <= Size
        BY <1>6, <1>10, <2>1, SizeAssumption DEF Cells
    <2>3. EmptyRow(idx, n)
        BY <1>6, <1>10, <2>1, <2>2 DEF EmptyRow
    <2>4. FitsAt(kv, n, idx)
        BY <1>7, <2>1, <2>2, <2>3
    <2>. QED
        BY <2>1, <2>2, <2>4 DEF CanPlace, Fits
<1>. QED
    BY <1>4, <1>6, <1>8, <1>9, <1>10 DEF ViewContiguous

\* llama_kv_cache_view shows the longest run of empty cells and where it begins,
\* and find_slot agrees.
THEOREM ViewTrue == Spec => []ViewContiguous
<1>1. IInv => ViewContiguous
    BY ViewShows DEF IInv
<1>. QED
    BY <1>1, Invariance, PTL

-----------------------------------------------------------------------------
(* The cache as a bag of entries.                                          *)

CopiesOf(bag) == UNION {{e} \X (1 .. bag[e]) : e \in DOMAIN bag}

\* The cells that hold the entry e.
Holding(k, e) == {i \in UsedCells(k) : EntryOf(k, i) = e}

-----------------------------------------------------------------------------
(* Cells and the copies they hold.                                         *)

LEMMA ContentsOf ==
    ASSUME NEW k
    PROVE  /\ DOMAIN Contents(k) = {EntryOf(k, i) : i \in UsedCells(k)}
           /\ \A e \in DOMAIN Contents(k) : Contents(k)[e] = Cardinality(Holding(k, e))
BY DEF Contents, Holding

LEMMA HoldingFinite ==
    ASSUME NEW k, NEW e
    PROVE  IsFiniteSet(Holding(k, e)) /\ Cardinality(Holding(k, e)) \in Nat
<1>1. Holding(k, e) \in SUBSET Cells
    BY DEF Holding, UsedCells
<1>. QED
    BY <1>1, CellsFinite

\* Two caches hold the same when every entry is held by as many cells.
LEMMA SameContents ==
    ASSUME NEW k, NEW r,
           {EntryOf(k, i) : i \in UsedCells(k)} = {EntryOf(r, i) : i \in UsedCells(r)},
           \A e : Cardinality(Holding(k, e)) = Cardinality(Holding(r, e))
    PROVE  Contents(k) = Contents(r)
BY DEF Contents, Holding

\* The used cells and the copies of the entries correspond.
LEMMA OneByOne ==
    ASSUME NEW k
    PROVE  \E g \in Bijection(UsedCells(k), CopiesOf(Contents(k))) :
                \A i \in UsedCells(k) : g[i][1] = EntryOf(k, i)
<1>. DEFINE U == UsedCells(k)
            D == DOMAIN Contents(k)
            count(e) == 1 .. Cardinality(Holding(k, e))
            num == [e \in D |-> CHOOSE f : f \in Bijection(Holding(k, e), count(e))]
            g == [i \in U |-> <<EntryOf(k, i), num[EntryOf(k, i)][i]>>]
<1>1. D = {EntryOf(k, i) : i \in U}
    BY ContentsOf
<1>2. \A e \in D : num[e] \in Bijection(Holding(k, e), count(e))
    <2>. TAKE e \in D
    <2>1. ExistsBijection(count(e), Holding(k, e))
        BY HoldingFinite, FS_CardinalityType
    <2>2. ExistsBijection(Holding(k, e), count(e))
        BY <2>1, Fun_ExistsBijSymmetric
    <2>. QED
        BY <2>2 DEF ExistsBijection
<1>3. CopiesOf(Contents(k)) = UNION {{e} \X count(e) : e \in D}
    BY ContentsOf DEF CopiesOf
<1>. HIDE DEF D, num, count
<1>4. \A e \in D : \A i, j \in Holding(k, e) :
        num[e][i] \in count(e) /\ (num[e][i] = num[e][j] => i = j)
    BY <1>2, Fun_BijectionProperties
<1>5. \A e \in D : \A n \in count(e) : \E i \in Holding(k, e) : num[e][i] = n
    BY <1>2, Fun_BijectionProperties
<1>6. \A i \in U : EntryOf(k, i) \in D /\ i \in Holding(k, EntryOf(k, i))
    BY <1>1 DEF Holding
<1>7. g \in [U -> CopiesOf(Contents(k))]
    BY <1>3, <1>4, <1>6
<1>8. ASSUME NEW i \in U, NEW j \in U, g[i] = g[j]
      PROVE  i = j
    <2>1. EntryOf(k, i) = EntryOf(k, j)
          /\ num[EntryOf(k, i)][i] = num[EntryOf(k, j)][j]
        BY <1>8
    <2>. QED
        BY <1>4, <1>6, <2>1
<1>9. ASSUME NEW c \in CopiesOf(Contents(k))
      PROVE  \E i \in U : g[i] = c
    <2>0. PICK e \in D : c \in {e} \X count(e)
        BY <1>3
    <2>1. PICK n \in count(e) : c = <<e, n>>
        BY <2>0
    <2>2. PICK i \in Holding(k, e) : num[e][i] = n
        BY <1>5
    <2>3. i \in U /\ EntryOf(k, i) = e
        BY DEF Holding
    <2>. QED
        BY <2>1, <2>2, <2>3
<1>10. g \in Bijection(U, CopiesOf(Contents(k)))
    BY <1>7, <1>8, <1>9, Fun_IsBij
<1>. QED
    BY <1>10

\* A set of cells and its image under a bijection are equally many.
LEMMA ImageCount ==
    ASSUME NEW S, NEW T, NEW g \in Bijection(S, T), NEW A \in SUBSET S, NEW B \in SUBSET T,
           IsFiniteSet(A), \A i \in S : i \in A <=> g[i] \in B
    PROVE  IsFiniteSet(B) /\ Cardinality(A) = Cardinality(B)
<1>. DEFINE r == [i \in A |-> g[i]]
<1>1. /\ \A i \in S : g[i] \in T
      /\ \A i, j \in S : g[i] = g[j] => i = j
      /\ \A t \in T : \E s \in S : g[s] = t
    BY Fun_BijectionProperties
<1>2. r \in Bijection(A, B)
    <2>1. r \in [A -> B]
        OBVIOUS
    <2>2. \A i, j \in A : r[i] = r[j] => i = j
        BY <1>1
    <2>3. \A t \in B : \E s \in A : r[s] = t
        BY <1>1
    <2>. QED
        BY <2>1, <2>2, <2>3, Fun_IsBij
<1>3. ExistsBijection(A, B)
    BY <1>2, Fun_ExistsBij
<1>. QED
    BY <1>3, FS_Bijection

\* As many copies as used cells.
LEMMA CopiesCount ==
    ASSUME NEW k
    PROVE  Cardinality(CopiesOf(Contents(k))) = Cardinality(UsedCells(k))
<1>1. ExistsBijection(UsedCells(k), CopiesOf(Contents(k)))
    BY OneByOne, Fun_ExistsBij
<1>2. UsedCells(k) \in SUBSET Cells
    BY DEF UsedCells
<1>3. IsFiniteSet(UsedCells(k))
    BY <1>2, CellsFinite
<1>. QED
    BY <1>1, <1>3, FS_Bijection

-----------------------------------------------------------------------------
(* Calls that edit the entries one by one.                                 *)

\* What KvStore makes of the entries of k when it edits e to phi[e].
EditedBy(k, phi) ==
    [x \in {y \in {phi[e] : e \in DOMAIN Contents(k)} : y.seqs # {}} |->
        Cardinality({c \in CopiesOf(Contents(k)) : phi[c[1]] = x})]

\* Every used cell holds the edited entry, and is free when that has lost its
\* last sequence.
LEMMA EditedContents ==
    ASSUME NEW k, NEW r, NEW phi,
           UsedCells(r) = {i \in UsedCells(k) : phi[EntryOf(k, i)].seqs # {}},
           \A i \in UsedCells(r) : EntryOf(r, i) = phi[EntryOf(k, i)]
    PROVE  Contents(r) = EditedBy(k, phi)
<1>. DEFINE U == UsedCells(k)
            C == CopiesOf(Contents(k))
            X == {y \in {phi[e] : e \in DOMAIN Contents(k)} : y.seqs # {}}
            K(x) == {c \in C : phi[c[1]] = x}
<1>1. PICK g \in Bijection(U, C) : \A i \in U : g[i][1] = EntryOf(k, i)
    BY OneByOne
<1>2. {EntryOf(r, i) : i \in UsedCells(r)} = X
    <2>1. DOMAIN Contents(k) = {EntryOf(k, i) : i \in U}
        BY ContentsOf
    <2>. QED
        BY <2>1
<1>3. ASSUME NEW x \in X
      PROVE  Cardinality(Holding(r, x)) = Cardinality(K(x))
    <2>1. x.seqs # {}
        OBVIOUS
    <2>2. Holding(r, x) = {i \in U : phi[EntryOf(k, i)] = x}
        BY <2>1 DEF Holding
    <2>3. \A i \in U : g[i] \in C
        BY Fun_BijectionProperties
    <2>4. \A i \in U : i \in Holding(r, x) <=> g[i] \in K(x)
        BY <1>1, <2>2, <2>3
    <2>5. Holding(r, x) \in SUBSET U /\ K(x) \in SUBSET C
        BY <2>2
    <2>. HIDE DEF K, C, U, X
    <2>6. IsFiniteSet(Holding(r, x))
        BY HoldingFinite
    <2>. QED
        BY <2>4, <2>5, <2>6, ImageCount
<1>. HIDE DEF X
<1>4. Contents(r) = [x \in X |-> Cardinality(Holding(r, x))]
    BY <1>2 DEF Contents, Holding
<1>5. Contents(r) = [x \in X |-> Cardinality(K(x))]
    BY <1>3, <1>4
<1>. QED
    BY <1>5 DEF X, EditedBy

\* The entries of the used cells are those of the bag, and every copy is of one.
LEMMA EntriesOf ==
    ASSUME NEW k
    PROVE  /\ \A i \in UsedCells(k) : EntryOf(k, i) \in DOMAIN Contents(k)
           /\ \A c \in CopiesOf(Contents(k)) : c[1] \in DOMAIN Contents(k)
<1>1. DOMAIN Contents(k) = {EntryOf(k, i) : i \in UsedCells(k)}
    BY ContentsOf
<1>2. ASSUME NEW c \in CopiesOf(Contents(k))
      PROVE  c[1] \in DOMAIN Contents(k)
    <2>. DEFINE D == DOMAIN Contents(k)
                count(e) == 1 .. Contents(k)[e]
    <2>1. CopiesOf(Contents(k)) = UNION {{e} \X count(e) : e \in D}
        BY DEF CopiesOf
    <2>. HIDE DEF D, count
    <2>2. PICK e \in D : c \in {e} \X count(e)
        BY <2>1
    <2>3. c[1] = e
        BY <2>2
    <2>. QED
        BY <2>3 DEF D
<1>. QED
    BY <1>1, <1>2

\* The operators of KvStore that KvCache has as well.
LEMMA StoreNames ==
    /\ Store!AnySeq = AnySeq
    /\ \A p, p0, p1 : Store!InRange(p, p0, p1) <=> InRange(p, p0, p1)
    /\ \A S : Store!Cardinality(S) = Cardinality(S)
    /\ Store!Copies = CopiesOf(Contents(kv))
    /\ \A bag : Store!BagToSet(bag) = DOMAIN bag
<1>1. Store!AnySeq = AnySeq
    BY DEF Store!AnySeq, AnySeq
<1>2. \A p, p0, p1 : Store!InRange(p, p0, p1) <=> InRange(p, p0, p1)
    BY DEF Store!InRange, InRange
<1>3. \A S : Store!Cardinality(S) = Cardinality(S)
    BY DEF Store!Cardinality, Cardinality
<1>4. Store!Copies = CopiesOf(Contents(kv))
    BY DEF Store!Copies, CopiesOf, Store!BagToSet
<1>5. \A bag : Store!BagToSet(bag) = DOMAIN bag
    BY DEF Store!BagToSet
<1>. QED
    BY <1>1, <1>2, <1>3, <1>4, <1>5

\* The same, cell by cell.
LEMMA EditedCells ==
    ASSUME NEW k, NEW r, NEW phi,
           \A i \in Cells : k.seq_id[i] = {} => r.seq_id[i] = {},
           \A i \in UsedCells(k) : r.seq_id[i] = phi[EntryOf(k, i)].seqs,
           \A i \in UsedCells(k) : r.seq_id[i] # {} => EntryOf(r, i) = phi[EntryOf(k, i)]
    PROVE  Contents(r) = EditedBy(k, phi)
<1>1. \A c : \A i \in Cells : i \in UsedCells(c) <=> c.seq_id[i] # {}
    BY DEF UsedCells, IsEmpty
<1>2. UsedCells(r) \subseteq Cells /\ UsedCells(k) \subseteq Cells
    BY DEF UsedCells
<1>3. UsedCells(r) = {i \in UsedCells(k) : phi[EntryOf(k, i)].seqs # {}}
    BY <1>1, <1>2
<1>4. \A i \in UsedCells(r) : EntryOf(r, i) = phi[EntryOf(k, i)]
    BY <1>1, <1>2, <1>3
<1>. QED
    BY <1>3, <1>4, EditedContents

LEMMA SeqRmStore ==
    ASSUME Sound(kv), NEW s, NEW p0, NEW p1, sbatch = <<>>, Call(SeqRm(kv, s, p0, p1))
    PROVE  Store!Remove(s, p0, p1)
<1>. DEFINE r == SeqRm(kv, s, p0, p1)
            f(e) == IF ~InRange(e.pos, p0, p1) THEN e
                    ELSE [e EXCEPT !.seqs = IF s = AnySeq THEN {} ELSE @ \ {s}]
            D == DOMAIN Contents(kv)
            phi == [e \in D |-> f(e)]
            freed == RmFreed(kv, s, p0, p1)
            hit == RmHit(kv, s, p0, p1)
<1>1. r.tok = kv.tok /\ \A i \in Cells :
        /\ r.seq_id[i] = IF i \in freed THEN {}
                         ELSE IF i \in hit THEN kv.seq_id[i] \ {s} ELSE kv.seq_id[i]
        /\ r.pos[i] = IF i \in freed THEN -1 ELSE kv.pos[i]
    BY DEF SeqRm, Sound, Cache
<1>2. \A i \in UsedCells(kv) : i \in Cells /\ kv.seq_id[i] # {}
    BY DEF UsedCells, IsEmpty
<1>3. \A i \in Cells : /\ i \in hit <=> InRange(kv.pos[i], p0, p1) /\ (s = AnySeq \/ s \in kv.seq_id[i])
                       /\ i \in freed <=> i \in hit /\ (s = AnySeq \/ kv.seq_id[i] = {s})
    BY DEF RmHit, RmFreed
<1>4. ASSUME NEW i \in UsedCells(kv)
      PROVE  LET e == phi[EntryOf(kv, i)]
             IN  /\ e = [tok |-> kv.tok[i], pos |-> kv.pos[i], seqs |-> e.seqs]
                 /\ e.seqs = IF ~InRange(kv.pos[i], p0, p1) THEN kv.seq_id[i]
                             ELSE IF s = AnySeq THEN {} ELSE kv.seq_id[i] \ {s}
    <2>1. phi[EntryOf(kv, i)] = f(EntryOf(kv, i))
        BY EntriesOf
    <2>. HIDE DEF phi
    <2>. QED
        BY <2>1 DEF EntryOf
<1>. HIDE DEF phi, r, hit, freed
<1>5. \A i \in Cells : kv.seq_id[i] = {} => r.seq_id[i] = {}
    BY <1>1, <1>3
<1>6. ASSUME NEW i \in UsedCells(kv)
      PROVE  /\ r.seq_id[i] = phi[EntryOf(kv, i)].seqs
             /\ r.seq_id[i] # {} => EntryOf(r, i) = phi[EntryOf(kv, i)]
    <2>. DEFINE e == phi[EntryOf(kv, i)]
    <2>0. i \in Cells
        BY <1>2
    <2>1. e = [tok |-> kv.tok[i], pos |-> kv.pos[i], seqs |-> e.seqs]
        BY <1>4
    <2>2. r.seq_id[i] = e.seqs
        <3>1. CASE i \in freed
            <4>1. InRange(kv.pos[i], p0, p1) /\ (s = AnySeq \/ kv.seq_id[i] = {s})
                BY <1>3, <2>0, <3>1
            <4>2. e.seqs = IF s = AnySeq THEN {} ELSE kv.seq_id[i] \ {s}
                BY <1>4, <4>1
            <4>3. e.seqs = {}
                BY <4>1, <4>2
            <4>. QED
                BY <1>1, <2>0, <3>1, <4>3
        <3>2. CASE i \in hit /\ i \notin freed
            BY <1>1, <1>3, <1>4, <2>0, <3>2
        <3>3. CASE i \notin hit
            <4>1. i \notin freed /\ r.seq_id[i] = kv.seq_id[i]
                BY <1>1, <1>3, <2>0, <3>3
            <4>2. CASE ~InRange(kv.pos[i], p0, p1)
                BY <1>4, <4>1, <4>2
            <4>3. CASE InRange(kv.pos[i], p0, p1)
                <5>1. s # AnySeq /\ s \notin kv.seq_id[i]
                    BY <1>3, <2>0, <3>3, <4>3
                <5>2. e.seqs = kv.seq_id[i] \ {s}
                    BY <1>4, <4>3, <5>1
                <5>. QED
                    BY <4>1, <5>1, <5>2
            <4>. QED
                BY <4>2, <4>3
        <3>. QED
            BY <3>1, <3>2, <3>3
    <2>3. r.seq_id[i] # {} => r.pos[i] = kv.pos[i] /\ r.tok[i] = kv.tok[i]
        BY <1>1, <2>0
    <2>. HIDE DEF e
    <2>4. r.seq_id[i] # {} => EntryOf(r, i) = e
        BY <2>1, <2>2, <2>3 DEF EntryOf
    <2>. QED
        BY <2>2, <2>4 DEF e
<1>7. Contents(r) = EditedBy(kv, phi)
    BY <1>5, <1>6, EditedCells
<1>8. \A e \in D : phi[e] = f(e)
    BY DEF phi
<1>. HIDE DEF f, D
<1>9. {phi[e] : e \in D} = {f(e) : e \in D}
    BY <1>8
<1>10. \A x : {c \in CopiesOf(Contents(kv)) : phi[c[1]] = x}
                = {c \in CopiesOf(Contents(kv)) : f(c[1]) = x}
    BY <1>8, EntriesOf DEF D
<1>11. Contents(r) =
            [x \in {y \in {f(e) : e \in D} : y.seqs # {}} |->
                Cardinality({c \in CopiesOf(Contents(kv)) : f(c[1]) = x})]
    BY <1>7, <1>9, <1>10 DEF EditedBy, D
<1>12. Contents(kv)' = Contents(r) /\ sbatch' = sbatch
    BY DEF Call, r
<1>. QED
    BY <1>11, <1>12, StoreNames DEF Store!Remove, Store!Edit, Store!Edited, f, D

LEMMA SeqCpStore ==
    ASSUME Sound(kv), NEW src, NEW dst, NEW p0, NEW p1, sbatch = <<>>,
           Call(SeqCp(kv, src, dst, p0, p1))
    PROVE  Store!Copy(src, dst, p0, p1)
<1>. DEFINE r == SeqCp(kv, src, dst, p0, p1)
            f(e) == IF src \in e.seqs /\ InRange(e.pos, p0, p1)
                    THEN [e EXCEPT !.seqs = @ \cup {dst}] ELSE e
            D == DOMAIN Contents(kv)
            phi == [e \in D |-> f(e)]
            both(i) == src \in kv.seq_id[i] /\ InRange(kv.pos[i], p0, p1)
<1>1. r.tok = kv.tok /\ r.pos = kv.pos /\ \A i \in Cells :
        r.seq_id[i] = IF both(i) THEN kv.seq_id[i] \cup {dst} ELSE kv.seq_id[i]
    <2>1. CASE src = dst
        <3>1. r = kv
            BY <2>1 DEF SeqCp
        <3>2. \A i \in Cells : both(i) => kv.seq_id[i] \cup {dst} = kv.seq_id[i]
            BY <2>1
        <3>. QED
            BY <3>1, <3>2
    <2>2. CASE src # dst
        BY <2>2 DEF SeqCp, Sound, Cache
    <2>. QED
        BY <2>1, <2>2
<1>2. \A i \in UsedCells(kv) : i \in Cells /\ kv.seq_id[i] # {}
    BY DEF UsedCells, IsEmpty
<1>4. ASSUME NEW i \in UsedCells(kv)
      PROVE  LET e == phi[EntryOf(kv, i)]
             IN  /\ e = [tok |-> kv.tok[i], pos |-> kv.pos[i], seqs |-> e.seqs]
                 /\ e.seqs = IF both(i) THEN kv.seq_id[i] \cup {dst} ELSE kv.seq_id[i]
    <2>1. phi[EntryOf(kv, i)] = f(EntryOf(kv, i))
        BY EntriesOf
    <2>. HIDE DEF phi
    <2>2. CASE both(i)
        BY <2>1, <2>2 DEF EntryOf
    <2>3. CASE ~both(i)
        <3>1. phi[EntryOf(kv, i)] = EntryOf(kv, i)
            BY <2>1, <2>3 DEF EntryOf
        <3>. QED
            BY <2>3, <3>1 DEF EntryOf
    <2>. QED
        BY <2>2, <2>3
<1>. HIDE DEF phi, r
<1>5. \A i \in Cells : kv.seq_id[i] = {} => r.seq_id[i] = {}
    BY <1>1
<1>. HIDE DEF both
<1>6. ASSUME NEW i \in UsedCells(kv)
      PROVE  /\ r.seq_id[i] = phi[EntryOf(kv, i)].seqs
             /\ r.seq_id[i] # {} => EntryOf(r, i) = phi[EntryOf(kv, i)]
    BY <1>1, <1>2, <1>4 DEF EntryOf
<1>7. Contents(r) = EditedBy(kv, phi)
    BY <1>5, <1>6, EditedCells
<1>8. \A e \in D : phi[e] = f(e)
    BY DEF phi
<1>. HIDE DEF f, D
<1>9. {phi[e] : e \in D} = {f(e) : e \in D}
    BY <1>8
<1>10. \A x : {c \in CopiesOf(Contents(kv)) : phi[c[1]] = x}
                = {c \in CopiesOf(Contents(kv)) : f(c[1]) = x}
    BY <1>8, EntriesOf DEF D
<1>11. Contents(r) =
            [x \in {y \in {f(e) : e \in D} : y.seqs # {}} |->
                Cardinality({c \in CopiesOf(Contents(kv)) : f(c[1]) = x})]
    BY <1>7, <1>9, <1>10 DEF EditedBy, D
<1>12. Contents(kv)' = Contents(r) /\ sbatch' = sbatch
    BY DEF Call, r
<1>. QED
    BY <1>11, <1>12, StoreNames DEF Store!Copy, Store!Edit, Store!Edited, f, D

LEMMA SeqKeepStore ==
    ASSUME Sound(kv), NEW s, sbatch = <<>>, Call(SeqKeep(kv, s))
    PROVE  Store!Keep(s)
<1>. DEFINE r == SeqKeep(kv, s)
            f(e) == [e EXCEPT !.seqs = @ \cap {s}]
            D == DOMAIN Contents(kv)
            phi == [e \in D |-> f(e)]
<1>1. r.tok = kv.tok /\ \A i \in Cells :
        /\ r.seq_id[i] = IF s \notin kv.seq_id[i] THEN {} ELSE {s}
        /\ r.pos[i] = IF s \notin kv.seq_id[i] THEN -1 ELSE kv.pos[i]
    BY DEF SeqKeep, Sound, Cache
<1>2. \A i \in UsedCells(kv) : i \in Cells
    BY DEF UsedCells
<1>4. ASSUME NEW i \in UsedCells(kv)
      PROVE  LET e == phi[EntryOf(kv, i)]
             IN  /\ e = [tok |-> kv.tok[i], pos |-> kv.pos[i], seqs |-> e.seqs]
                 /\ e.seqs = kv.seq_id[i] \cap {s}
    <2>1. phi[EntryOf(kv, i)] = f(EntryOf(kv, i))
        BY EntriesOf
    <2>. HIDE DEF phi
    <2>. QED
        BY <2>1 DEF EntryOf
<1>. HIDE DEF phi, r
<1>5. \A i \in Cells : kv.seq_id[i] = {} => r.seq_id[i] = {}
    BY <1>1
<1>6. ASSUME NEW i \in UsedCells(kv)
      PROVE  /\ r.seq_id[i] = phi[EntryOf(kv, i)].seqs
             /\ r.seq_id[i] # {} => EntryOf(r, i) = phi[EntryOf(kv, i)]
    <2>. DEFINE e == phi[EntryOf(kv, i)]
    <2>1. e.seqs = IF s \notin kv.seq_id[i] THEN {} ELSE {s}
        BY <1>4
    <2>. QED
        BY <1>1, <1>2, <1>4, <2>1 DEF EntryOf
<1>7. Contents(r) = EditedBy(kv, phi)
    BY <1>5, <1>6, EditedCells
<1>8. \A e \in D : phi[e] = f(e)
    BY DEF phi
<1>. HIDE DEF f, D
<1>9. {phi[e] : e \in D} = {f(e) : e \in D}
    BY <1>8
<1>10. \A x : {c \in CopiesOf(Contents(kv)) : phi[c[1]] = x}
                = {c \in CopiesOf(Contents(kv)) : f(c[1]) = x}
    BY <1>8, EntriesOf DEF D
<1>11. Contents(r) =
            [x \in {y \in {f(e) : e \in D} : y.seqs # {}} |->
                Cardinality({c \in CopiesOf(Contents(kv)) : f(c[1]) = x})]
    BY <1>7, <1>9, <1>10 DEF EditedBy, D
<1>12. Contents(kv)' = Contents(r) /\ sbatch' = sbatch
    BY DEF Call, r
<1>. QED
    BY <1>11, <1>12, StoreNames DEF Store!Keep, Store!Edit, Store!Edited, f, D

\* A range that seq_add and seq_div take for empty holds no position.
LEMMA EmptyRangeEmpty ==
    ASSUME NEW p0 \in Int, NEW p1 \in Int, EmptyRange(p0, p1), NEW p \in Int
    PROVE  ~InRange(p, p0, p1)
BY DEF EmptyRange, InRange

LEMMA SeqAddStore ==
    ASSUME Sound(kv), NEW s, NEW p0 \in Int, NEW p1 \in Int, NEW d, sbatch = <<>>,
           Call(SeqAdd(kv, s, p0, p1, d))
    PROVE  Store!Shift(s, p0, p1, d)
<1>. DEFINE r == SeqAdd(kv, s, p0, p1, d)
            f(e) == IF s \notin e.seqs \/ ~InRange(e.pos, p0, p1) THEN e
                    ELSE IF e.pos + d < 0 THEN [e EXCEPT !.seqs = {}]
                    ELSE [e EXCEPT !.pos = @ + d]
            D == DOMAIN Contents(kv)
            phi == [e \in D |-> f(e)]
            both(i) == s \in kv.seq_id[i] /\ InRange(kv.pos[i], p0, p1)
            gone(i) == both(i) /\ kv.pos[i] + d < 0
<1>1. r.tok = kv.tok /\ \A i \in Cells :
        /\ r.seq_id[i] = IF gone(i) THEN {} ELSE kv.seq_id[i]
        /\ r.pos[i] = IF gone(i) THEN -1 ELSE IF both(i) THEN kv.pos[i] + d ELSE kv.pos[i]
    <2>1. CASE EmptyRange(p0, p1)
        <3>1. \A i \in Cells : kv.pos[i] \in Int
            BY DEF Sound, Cache
        <3>2. \A i \in Cells : ~InRange(kv.pos[i], p0, p1)
            BY <2>1, <3>1, EmptyRangeEmpty
        <3>. QED
            BY <2>1, <3>2 DEF SeqAdd
    <2>2. CASE ~EmptyRange(p0, p1)
        BY <2>2 DEF SeqAdd, AddHit, AddFreed, Sound, Cache
    <2>. QED
        BY <2>1, <2>2
<1>2. \A i \in UsedCells(kv) : i \in Cells /\ kv.seq_id[i] # {}
    BY DEF UsedCells, IsEmpty
<1>4. ASSUME NEW i \in UsedCells(kv)
      PROVE  LET e == phi[EntryOf(kv, i)]
             IN  /\ e.seqs = IF gone(i) THEN {} ELSE kv.seq_id[i]
                 /\ ~gone(i) =>
                        e = [tok |-> kv.tok[i], seqs |-> kv.seq_id[i],
                             pos |-> IF both(i) THEN kv.pos[i] + d ELSE kv.pos[i]]
    <2>1. phi[EntryOf(kv, i)] = f(EntryOf(kv, i))
        BY EntriesOf
    <2>. HIDE DEF phi
    <2>. QED
        BY <2>1 DEF EntryOf
<1>. HIDE DEF phi, r
<1>5. \A i \in Cells : kv.seq_id[i] = {} => r.seq_id[i] = {}
    BY <1>1
<1>. HIDE DEF both, gone
<1>6. ASSUME NEW i \in UsedCells(kv)
      PROVE  /\ r.seq_id[i] = phi[EntryOf(kv, i)].seqs
             /\ r.seq_id[i] # {} => EntryOf(r, i) = phi[EntryOf(kv, i)]
    <2>1. CASE gone(i)
        BY <1>1, <1>2, <1>4, <2>1
    <2>2. CASE ~gone(i)
        BY <1>1, <1>2, <1>4, <2>2 DEF EntryOf
    <2>. QED
        BY <2>1, <2>2
<1>7. Contents(r) = EditedBy(kv, phi)
    BY <1>5, <1>6, EditedCells
<1>8. \A e \in D : phi[e] = f(e)
    BY DEF phi
<1>. HIDE DEF f, D
<1>9. {phi[e] : e \in D} = {f(e) : e \in D}
    BY <1>8
<1>10. \A x : {c \in CopiesOf(Contents(kv)) : phi[c[1]] = x}
                = {c \in CopiesOf(Contents(kv)) : f(c[1]) = x}
    BY <1>8, EntriesOf DEF D
<1>11. Contents(r) =
            [x \in {y \in {f(e) : e \in D} : y.seqs # {}} |->
                Cardinality({c \in CopiesOf(Contents(kv)) : f(c[1]) = x})]
    BY <1>7, <1>9, <1>10 DEF EditedBy, D
<1>12. Contents(kv)' = Contents(r) /\ sbatch' = sbatch
    BY DEF Call, r
<1>. QED
    BY <1>11, <1>12, StoreNames DEF Store!Shift, Store!Edit, Store!Edited, f, D

LEMMA SeqDivStore ==
    ASSUME Sound(kv), NEW s, NEW p0 \in Int, NEW p1 \in Int, NEW d, sbatch = <<>>,
           Call(SeqDiv(kv, s, p0, p1, d))
    PROVE  Store!Divide(s, p0, p1, d)
<1>. DEFINE r == SeqDiv(kv, s, p0, p1, d)
            f(e) == IF s \in e.seqs /\ InRange(e.pos, p0, p1)
                    THEN [e EXCEPT !.pos = @ \div d] ELSE e
            D == DOMAIN Contents(kv)
            phi == [e \in D |-> f(e)]
            both(i) == s \in kv.seq_id[i] /\ InRange(kv.pos[i], p0, p1)
<1>1. r.tok = kv.tok /\ r.seq_id = kv.seq_id /\ \A i \in Cells :
        r.pos[i] = IF both(i) THEN kv.pos[i] \div d ELSE kv.pos[i]
    <2>1. CASE EmptyRange(p0, p1)
        <3>1. \A i \in Cells : kv.pos[i] \in Int
            BY DEF Sound, Cache
        <3>2. \A i \in Cells : ~InRange(kv.pos[i], p0, p1)
            BY <2>1, <3>1, EmptyRangeEmpty
        <3>. QED
            BY <2>1, <3>2 DEF SeqDiv
    <2>2. CASE ~EmptyRange(p0, p1)
        BY <2>2 DEF SeqDiv, AddHit, Sound, Cache
    <2>. QED
        BY <2>1, <2>2
<1>2. \A i \in UsedCells(kv) : i \in Cells
    BY DEF UsedCells
<1>4. ASSUME NEW i \in UsedCells(kv)
      PROVE  LET e == phi[EntryOf(kv, i)]
             IN  /\ e = [tok |-> kv.tok[i], pos |-> e.pos, seqs |-> kv.seq_id[i]]
                 /\ e.pos = IF both(i) THEN kv.pos[i] \div d ELSE kv.pos[i]
    <2>1. phi[EntryOf(kv, i)] = f(EntryOf(kv, i))
        BY EntriesOf
    <2>. HIDE DEF phi
    <2>. QED
        BY <2>1 DEF EntryOf
<1>. HIDE DEF phi, r
<1>5. \A i \in Cells : kv.seq_id[i] = {} => r.seq_id[i] = {}
    BY <1>1
<1>. HIDE DEF both
<1>6. ASSUME NEW i \in UsedCells(kv)
      PROVE  /\ r.seq_id[i] = phi[EntryOf(kv, i)].seqs
             /\ r.seq_id[i] # {} => EntryOf(r, i) = phi[EntryOf(kv, i)]
    <2>. DEFINE e == phi[EntryOf(kv, i)]
    <2>1. e = [tok |-> kv.tok[i], pos |-> e.pos, seqs |-> kv.seq_id[i]]
        BY <1>4
    <2>2. e.pos = r.pos[i]
        BY <1>1, <1>2, <1>4
    <2>. HIDE DEF e
    <2>3. r.seq_id[i] = e.seqs /\ EntryOf(r, i) = e
        BY <1>1, <2>1, <2>2 DEF EntryOf
    <2>. QED
        BY <2>3 DEF e
<1>7. Contents(r) = EditedBy(kv, phi)
    BY <1>5, <1>6, EditedCells
<1>8. \A e \in D : phi[e] = f(e)
    BY DEF phi
<1>. HIDE DEF f, D
<1>9. {phi[e] : e \in D} = {f(e) : e \in D}
    BY <1>8
<1>10. \A x : {c \in CopiesOf(Contents(kv)) : phi[c[1]] = x}
                = {c \in CopiesOf(Contents(kv)) : f(c[1]) = x}
    BY <1>8, EntriesOf DEF D
<1>11. Contents(r) =
            [x \in {y \in {f(e) : e \in D} : y.seqs # {}} |->
                Cardinality({c \in CopiesOf(Contents(kv)) : f(c[1]) = x})]
    BY <1>7, <1>9, <1>10 DEF EditedBy, D
<1>12. Contents(kv)' = Contents(r) /\ sbatch' = sbatch
    BY DEF Call, r
<1>. QED
    BY <1>11, <1>12, StoreNames DEF Store!Divide, Store!Edit, Store!Edited, f, D

LEMMA ClearStore ==
    ASSUME Sound(kv), sbatch = <<>>, Call(Clear(kv))
    PROVE  Store!Edit(Store!EmptyBag)
<1>1. \A i \in Cells : kv'.seq_id[i] = {}
    BY DEF Call, Clear, Sound, Cache
<1>2. UsedCells(kv') = {}
    BY <1>1 DEF UsedCells, IsEmpty
<1>3. Contents(kv') = [e \in {} |-> 1]
    BY <1>2 DEF Contents
<1>. QED
    BY <1>3 DEF Store!Edit, Store!EmptyBag, Store!SetToBag, Call

-----------------------------------------------------------------------------
(* Calls that leave the entries alone.                                     *)

LEMMA KeptContents ==
    ASSUME NEW k, NEW r, r.seq_id = k.seq_id, r.pos = k.pos, r.tok = k.tok
    PROVE  Contents(r) = Contents(k)
<1>1. UsedCells(r) = UsedCells(k)
    BY DEF UsedCells, IsEmpty
<1>2. \A i : EntryOf(r, i) = EntryOf(k, i)
    BY DEF EntryOf
<1>. QED
    BY <1>1, <1>2 DEF Contents

\* Only the places of the entries change.
LEMMA PermutedContents ==
    ASSUME NEW k, NEW r, NEW g \in Bijection(UsedCells(k), UsedCells(r)),
           \A i \in UsedCells(k) : EntryOf(r, g[i]) = EntryOf(k, i)
    PROVE  Contents(r) = Contents(k)
<1>1. /\ \A i \in UsedCells(k) : g[i] \in UsedCells(r)
      /\ \A j \in UsedCells(r) : \E i \in UsedCells(k) : g[i] = j
    BY Fun_BijectionProperties
<1>2. {EntryOf(r, i) : i \in UsedCells(r)} = {EntryOf(k, i) : i \in UsedCells(k)}
    BY <1>1
<1>3. ASSUME NEW e
      PROVE  Cardinality(Holding(k, e)) = Cardinality(Holding(r, e))
    <2>1. /\ Holding(k, e) \in SUBSET UsedCells(k) /\ Holding(r, e) \in SUBSET UsedCells(r)
          /\ \A i \in UsedCells(k) : i \in Holding(k, e) <=> g[i] \in Holding(r, e)
        BY <1>1 DEF Holding
    <2>. QED
        BY <2>1, HoldingFinite, ImageCount
<1>. QED
    BY <1>2, <1>3, SameContents

LEMMA DefragContents ==
    ASSUME NEW k \in Cache
    PROVE  Contents(Defrag(k)) = Contents(k)
<1>. DEFINE U == UsedCells(k)
            F == From(k)
            T == To(k)
            go == Goes(k)
            r == Defrag(k)
            g == [i \in U |-> IF i \in F THEN go[i] ELSE i]
<1>1. /\ \A t \in F : Move(k, t, go[t]) /\ go[t] \in T
      /\ \A t, u \in F : go[t] = go[u] => t = u
      /\ \A h \in T : \E t \in F : go[t] = h
      /\ F \subseteq U /\ T \subseteq Cells /\ T \cap U = {} /\ U \subseteq Cells
    BY GoesOneToOne, Fun_BijectionProperties DEF UsedCells
<1>2. UsedCells(r) = (U \ F) \cup T
    BY DefragUsed
<1>3. r.pos = Moved(k, k.pos, -1) /\ r.seq_id = Moved(k, k.seq_id, {})
      /\ r.tok = Copied(k, k.tok)
    BY DEF Defrag, Cache
<1>4. ASSUME NEW i \in U
      PROVE  EntryOf(r, g[i]) = EntryOf(k, i)
    <2>1. CASE i \in F
        <3>. DEFINE h == go[i]
        <3>1. Move(k, i, h) /\ h \in Cells /\ i \in Cells
            BY <1>1, <2>1
        <3>2. (CHOOSE t \in Cells : Move(k, t, h)) = i
            BY <3>1, MoveOneToOne
        <3>. HIDE DEF h
        <3>3. Moved(k, k.pos, -1)[h] = k.pos[i] /\ Moved(k, k.seq_id, {})[h] = k.seq_id[i]
              /\ Copied(k, k.tok)[h] = k.tok[i]
            BY <3>1, <3>2 DEF Moved, Copied
        <3>4. g[i] = h
            BY <2>1 DEF h
        <3>. QED
            BY <1>3, <3>3, <3>4 DEF EntryOf
    <2>2. CASE i \notin F
        <3>1. i \in Cells /\ g[i] = i /\ i \notin T
            BY <1>1, <2>2
        <3>2. (~\E t \in Cells : Move(k, t, i)) /\ (~\E h \in Cells : Move(k, i, h))
            BY <2>2, <3>1 DEF From, To
        <3>3. Moved(k, k.pos, -1)[i] = k.pos[i] /\ Moved(k, k.seq_id, {})[i] = k.seq_id[i]
              /\ Copied(k, k.tok)[i] = k.tok[i]
            BY <3>1, <3>2 DEF Moved, Copied
        <3>. QED
            BY <1>3, <3>1, <3>3 DEF EntryOf
    <2>. QED
        BY <2>1, <2>2
<1>. HIDE DEF U, F, T, go, r
<1>5. g \in Bijection(U, UsedCells(r))
    <2>1. g \in [U -> UsedCells(r)]
        BY <1>1, <1>2
    <2>2. \A i, j \in U : g[i] = g[j] => i = j
        BY <1>1
    <2>3. \A h \in UsedCells(r) : \E i \in U : g[i] = h
        BY <1>1, <1>2
    <2>. QED
        BY <2>1, <2>2, <2>3, Fun_IsBij
<1>. HIDE DEF g
<1>6. Contents(r) = Contents(k)
    BY <1>4, <1>5, PermutedContents DEF U
<1>. QED
    BY <1>6 DEF r

LEMMA UpdateContents ==
    ASSUME NEW k, Sound(k)
    PROVE  Contents(Update(k)) = Contents(k)
<1>. DEFINE a == ApplyShift(k)
            b == Defrag(a)
            r == [b EXCEPT !.do_defrag = FALSE]
<1>1. a.seq_id = k.seq_id /\ a.pos = k.pos /\ a.tok = k.tok
    BY DEF ApplyShift, Sound, Cache
<1>2. a \in Cache /\ Sound(a) /\ Settled(a)
    BY SoundShape, ApplyShiftKeeps, KeepsSound DEF Sound
<1>3. Update(k) = IF a.do_defrag THEN r ELSE a
    BY DEF Update, ApplyDefrag
<1>. HIDE DEF a
<1>4. Contents(a) = Contents(k)
    BY <1>1, KeptContents
<1>5. Contents(b) = Contents(a) /\ b \in Cache
    BY <1>2, DefragContents, SoundShape, DefragKeeps DEF Keeps, Shape
<1>. HIDE DEF b
<1>6. r.seq_id = b.seq_id /\ r.pos = b.pos /\ r.tok = b.tok
    BY <1>5 DEF Cache
<1>. HIDE DEF r
<1>7. Contents(r) = Contents(b)
    BY <1>6, KeptContents
<1>. QED
    BY <1>3, <1>4, <1>5, <1>7

LEMMA HeadContents ==
    ASSUME NEW k \in Cache, NEW h
    PROVE  Contents([k EXCEPT !.head = h]) = Contents(k)
<1>. DEFINE r == [k EXCEPT !.head = h]
<1>1. r.seq_id = k.seq_id /\ r.pos = k.pos /\ r.tok = k.tok
    BY DEF Cache
<1>. HIDE DEF r
<1>2. Contents(r) = Contents(k)
    BY <1>1, KeptContents
<1>. QED
    BY <1>2 DEF r

LEMMA FlagContents ==
    ASSUME NEW k \in Cache, NEW f
    PROVE  Contents([k EXCEPT !.do_defrag = f]) = Contents(k)
<1>. DEFINE r == [k EXCEPT !.do_defrag = f]
<1>1. r.seq_id = k.seq_id /\ r.pos = k.pos /\ r.tok = k.tok
    BY DEF Cache
<1>. HIDE DEF r
<1>2. Contents(r) = Contents(k)
    BY <1>1, KeptContents
<1>. QED
    BY <1>2 DEF r

LEMMA PreparedContents ==
    ASSUME Sound(kv)
    PROVE  Contents(Prepared) = Contents(kv)
<1>. DEFINE k == Update(kv)
            h == IF k.head > k.used + 2 * Len(Ubatch) THEN 0 ELSE k.head
<1>1. k \in Cache /\ Contents(k) = Contents(kv)
    BY SoundShape, UpdateKeeps, UpdateContents DEF Keeps, Shape
<1>2. Prepared = [k EXCEPT !.head = h]
    BY DEF Prepared
<1>. HIDE DEF k, h
<1>. QED
    BY <1>1, <1>2, HeadContents

-----------------------------------------------------------------------------
(* llama_decode.                                                           *)

BagOf(u) == [e \in {u[j] : j \in DOMAIN u} |-> Cardinality({j \in DOMAIN u : u[j] = e})]

Together(old, new) ==
    [e \in DOMAIN old \cup DOMAIN new |->
        (IF e \in DOMAIN old THEN old[e] ELSE 0) + (IF e \in DOMAIN new THEN new[e] ELSE 0)]

LEMMA UsedFinite ==
    ASSUME NEW k
    PROVE  /\ UsedCells(k) \in SUBSET Cells
           /\ IsFiniteSet(UsedCells(k)) /\ Cardinality(UsedCells(k)) \in Nat
<1>1. UsedCells(k) \in SUBSET Cells
    BY DEF UsedCells
<1>. QED
    BY <1>1, CellsFinite

\* What was placed fitted.
LEMMA PlacedRoom ==
    ASSUME NEW k, Sound(k), NEW u \in Seq(Entry), u # <<>>, NEW h \in Fits(k, Len(u))
    PROVE  Cardinality(UsedCells(k)) + Len(u) <= Size
<1>. DEFINE F == h .. h + Len(u) - 1
            U == UsedCells(k)
<1>1. F \in SUBSET Cells /\ F \cap U = {} /\ Cardinality(F) = Len(u)
    BY PlacedUsed, SoundShape
<1>2. /\ U \in SUBSET Cells /\ IsFiniteSet(U) /\ IsFiniteSet(F)
      /\ Cardinality(U) \in Nat /\ Cardinality(F) \in Nat
    BY <1>1, UsedFinite, CellsFinite
<1>3. IsFiniteSet(Cells) /\ Cardinality(Cells) = Size
    <2>1. 0 \in Int /\ Size - 1 \in Int /\ ~(0 > Size - 1)
        BY SizeAssumption
    <2>2. IsFiniteSet(0 .. Size - 1)
          /\ Cardinality(0 .. Size - 1) = IF 0 > Size - 1 THEN 0 ELSE Size - 1 - 0 + 1
        BY <2>1, FS_Interval
    <2>. QED
        BY <2>1, <2>2, SizeAssumption DEF Cells
<1>. HIDE DEF F, U
<1>4. Cardinality(U \cap F) = 0
    BY <1>1, FS_EmptySet
<1>5. Cardinality(U \cup F) = Cardinality(U) + Cardinality(F) - Cardinality(U \cap F)
    BY <1>2, FS_Union
<1>6. U \cup F \in SUBSET Cells
    BY <1>1, <1>2
<1>7. Cardinality(U \cup F) <= Cardinality(Cells)
    BY <1>3, <1>6, FS_Subset
<1>. QED
    BY <1>1, <1>2, <1>3, <1>4, <1>5, <1>7 DEF U

LEMMA PlacedContents ==
    ASSUME NEW k, Sound(k), NEW u \in Seq(Entry), u # <<>>, NEW h \in Fits(k, Len(u))
    PROVE  Contents(Compute(Place(k, u, h), u)) = Together(Contents(k), BagOf(u))
<1>. DEFINE n == Len(u)
            F == h .. h + n - 1
            U == UsedCells(k)
            p == Place(k, u, h)
            r == Compute(p, u)
            at(i) == u[i - h + 1]
            In(e) == {i \in F : at(i) = e}
            Has(e) == {j \in DOMAIN u : u[j] = e}
<1>1. /\ F \in SUBSET Cells /\ F \cap U = {} /\ UsedCells(r) = U \cup F
      /\ U \subseteq Cells
    BY PlacedUsed, SoundShape, UsedFinite
<1>2. n \in Nat /\ h \in Int /\ DOMAIN u = 1 .. n
    BY SizeAssumption DEF Fits, Cells
<1>3. \A i \in Cells : i \in F <=> h <= i /\ i < h + n
    BY <1>2, SizeAssumption DEF Cells
<1>4. \A i \in F : at(i) \in Entry
    <2>1. \A i \in F : i - h + 1 \in 1 .. n
        BY <1>2
    <2>. QED
        BY <2>1, ElementOfSeq
<1>5. /\ p.head = h /\ p.tok = k.tok /\ DOMAIN p = DOMAIN k
      /\ p.pos = [i \in Cells |-> IF h <= i /\ i < h + n THEN at(i).pos ELSE k.pos[i]]
      /\ p.seq_id = [i \in Cells |-> IF h <= i /\ i < h + n
                                     THEN k.seq_id[i] \cup at(i).seqs ELSE k.seq_id[i]]
    BY DEF Place, Sound, Cache
<1>6. /\ r.pos = p.pos /\ r.seq_id = p.seq_id
      /\ r.tok = [i \in Cells |-> IF p.head <= i /\ i < p.head + n
                                  THEN u[i - p.head + 1].tok ELSE p.tok[i]]
    BY <1>5 DEF Compute, Sound, Cache
<1>. HIDE DEF F, r, p, n
<1>7. \A i \in F : EntryOf(r, i) = at(i)
    <2>. TAKE i \in F
    <2>1. i \in Cells /\ h <= i /\ i < h + n /\ k.seq_id[i] = {}
        BY <1>1, <1>3 DEF UsedCells, IsEmpty
    <2>2. r.pos[i] = at(i).pos /\ r.seq_id[i] = at(i).seqs /\ r.tok[i] = at(i).tok
        BY <1>5, <1>6, <2>1
    <2>3. at(i) \in Entry
        BY <1>4
    <2>. HIDE DEF at
    <2>4. at(i) = [tok |-> at(i).tok, pos |-> at(i).pos, seqs |-> at(i).seqs]
        BY <2>3 DEF Entry
    <2>. QED
        BY <2>2, <2>4 DEF EntryOf
<1>8. \A i \in U : EntryOf(r, i) = EntryOf(k, i)
    <2>. TAKE i \in U
    <2>1. i \in Cells /\ ~(h <= i /\ i < h + n)
        BY <1>1, <1>3
    <2>2. r.pos[i] = k.pos[i] /\ r.seq_id[i] = k.seq_id[i] /\ r.tok[i] = k.tok[i]
        BY <1>5, <1>6, <2>1
    <2>. QED
        BY <2>2 DEF EntryOf
<1>9. \A j \in 1 .. n : j + h - 1 \in F /\ at(j + h - 1) = u[j]
    BY <1>2 DEF F
<1>10. \A i \in F : i - h + 1 \in 1 .. n
    BY <1>2 DEF F
<1>11. ASSUME NEW e
       PROVE  /\ IsFiniteSet(In(e)) /\ Cardinality(In(e)) \in Nat
              /\ Cardinality(In(e)) = Cardinality(Has(e))
    <2>. DEFINE g == [i \in F |-> i - h + 1]
    <2>1. g \in Bijection(F, 1 .. n)
        <3>1. g \in [F -> 1 .. n]
            BY <1>10
        <3>2. \A i, j \in F : g[i] = g[j] => i = j
            BY <1>2 DEF F
        <3>3. \A j \in 1 .. n : \E i \in F : g[i] = j
            <4>. TAKE j \in 1 .. n
            <4>1. j + h - 1 \in F /\ (j + h - 1) - h + 1 = j
                BY <1>2, <1>9
            <4>. QED
                BY <4>1
        <3>. QED
            BY <3>1, <3>2, <3>3, Fun_IsBij
    <2>2. In(e) \in SUBSET F /\ In(e) \in SUBSET Cells /\ Has(e) \in SUBSET (1 .. n)
        BY <1>1, <1>2
    <2>3. \A i \in F : i \in In(e) <=> g[i] \in Has(e)
        BY <1>2, <1>10
    <2>. HIDE DEF g, In, Has
    <2>4. IsFiniteSet(In(e)) /\ Cardinality(In(e)) \in Nat
        BY <2>2, CellsFinite
    <2>. DEFINE A == In(e)
                B == Has(e)
                N == 1 .. n
    <2>5. g \in Bijection(F, N) /\ A \in SUBSET F /\ B \in SUBSET N /\ IsFiniteSet(A)
          /\ \A i \in F : i \in A <=> g[i] \in B
        BY <2>1, <2>2, <2>3, <2>4
    <2>. HIDE DEF A, B, N
    <2>6. Cardinality(A) = Cardinality(B)
        BY <2>5, ImageCount
    <2>7. Cardinality(In(e)) = Cardinality(Has(e))
        BY <2>6 DEF A, B
    <2>. QED
        BY <2>4, <2>7
<1>12. ASSUME NEW e
       PROVE  Cardinality(Holding(r, e)) = Cardinality(Holding(k, e)) + Cardinality(Has(e))
    <2>1. Holding(r, e) = Holding(k, e) \cup In(e)
        BY <1>1, <1>7, <1>8 DEF Holding
    <2>2. Holding(k, e) \cap In(e) = {}
        BY <1>1 DEF Holding
    <2>. HIDE DEF In, Has
    <2>3. Cardinality(Holding(k, e) \cap In(e)) = 0
        BY <2>2, FS_EmptySet
    <2>4. Cardinality(Holding(k, e) \cup In(e)) = Cardinality(Holding(k, e))
            + Cardinality(In(e)) - Cardinality(Holding(k, e) \cap In(e))
        BY <1>11, HoldingFinite, FS_Union
    <2>. QED
        BY <1>11, <2>1, <2>3, <2>4, HoldingFinite
<1>13. DOMAIN Contents(r) = DOMAIN Contents(k) \cup DOMAIN BagOf(u)
    <2>1. {EntryOf(r, i) : i \in U \cup F} = {EntryOf(k, i) : i \in U} \cup {at(i) : i \in F}
        BY <1>7, <1>8
    <2>2. {at(i) : i \in F} = {u[j] : j \in 1 .. n}
        BY <1>9, <1>10
    <2>. QED
        BY <1>1, <1>2, <2>1, <2>2, ContentsOf DEF BagOf
<1>14. \A e : e \notin DOMAIN Contents(k) => Cardinality(Holding(k, e)) = 0
    <2>. TAKE e
    <2>1. e \notin DOMAIN Contents(k) => Holding(k, e) = {}
        BY ContentsOf DEF Holding
    <2>. QED
        BY <2>1, FS_EmptySet
<1>15. \A e : e \notin DOMAIN BagOf(u) => Cardinality(Has(e)) = 0
    <2>. TAKE e
    <2>1. e \notin DOMAIN BagOf(u) => Has(e) = {}
        BY DEF BagOf
    <2>. QED
        BY <2>1, FS_EmptySet
<1>16. \A e \in DOMAIN BagOf(u) : BagOf(u)[e] = Cardinality(Has(e))
    BY DEF BagOf
<1>17. Contents(r) = [e \in DOMAIN Contents(r) |-> Contents(r)[e]]
    BY DEF Contents
<1>. HIDE DEF Has
<1>18. \A e \in DOMAIN Contents(r) : Contents(r)[e] =
        (IF e \in DOMAIN Contents(k) THEN Contents(k)[e] ELSE 0)
            + (IF e \in DOMAIN BagOf(u) THEN BagOf(u)[e] ELSE 0)
    <2>. TAKE e \in DOMAIN Contents(r)
    <2>1. Contents(r)[e] = Cardinality(Holding(k, e)) + Cardinality(Has(e))
        BY <1>12, ContentsOf
    <2>2. Cardinality(Holding(k, e)) =
            IF e \in DOMAIN Contents(k) THEN Contents(k)[e] ELSE 0
        BY <1>14, ContentsOf
    <2>3. Cardinality(Has(e)) = IF e \in DOMAIN BagOf(u) THEN BagOf(u)[e] ELSE 0
        BY <1>15, <1>16
    <2>. QED
        BY <2>1, <2>2, <2>3
<1>. QED
    BY <1>13, <1>17, <1>18 DEF r, p, Together

\* When no n free cells are in a row, each free cell is one of the n - 1 first
\* behind a used cell or behind the start.
LEMMA NoSlotFew ==
    ASSUME NEW k, Sound(k), NEW n \in Nat \ {0}, ~CanPlace(k, n)
    PROVE  LET m == Cardinality(UsedCells(k))
           IN  Size - m <= (n - 1) * (m + 1)
<1>. DEFINE U == UsedCells(k)
            m == Cardinality(U)
            F == Cells \ U
            B == U \cup {-1}
            N == 1 .. n - 1
            back(i) == {d \in Nat : d >= 1 /\ i - d \in B}
            g == [i \in F |-> <<i - Least(back(i)), Least(back(i))>>]
<1>1. /\ U \in SUBSET Cells /\ IsFiniteSet(U) /\ m \in Nat
      /\ IsFiniteSet(F) /\ F \in SUBSET Cells
    BY UsedFinite, CellsFinite
<1>2. Cardinality(F) = Size - m
    <2>1. IsFiniteSet(Cells) /\ Cardinality(Cells) = Size
        <3>1. 0 \in Int /\ Size - 1 \in Int /\ ~(0 > Size - 1)
            BY SizeAssumption
        <3>2. IsFiniteSet(0 .. Size - 1)
              /\ Cardinality(0 .. Size - 1) = IF 0 > Size - 1 THEN 0 ELSE Size - 1 - 0 + 1
            BY <3>1, FS_Interval
        <3>. QED
            BY <3>1, <3>2, SizeAssumption DEF Cells
    <2>2. Cardinality(Cells \ U) = Cardinality(Cells) - Cardinality(Cells \cap U)
        BY <2>1, FS_Difference
    <2>3. Cells \cap U = U
        BY <1>1
    <2>. QED
        BY <2>1, <2>2, <2>3
<1>3. IsFiniteSet(B) /\ Cardinality(B) = m + 1
    <2>1. -1 \notin U
        BY <1>1, SizeAssumption DEF Cells
    <2>. HIDE DEF U
    <2>2. IsFiniteSet(U \cup {-1})
          /\ Cardinality(U \cup {-1}) = IF -1 \in U THEN Cardinality(U) ELSE Cardinality(U) + 1
        BY <1>1, FS_AddElement
    <2>. QED
        BY <2>1, <2>2
<1>4. IsFiniteSet(N) /\ Cardinality(N) = n - 1
    <2>1. 1 \in Int /\ n - 1 \in Int
        OBVIOUS
    <2>2. IsFiniteSet(1 .. n - 1)
          /\ Cardinality(1 .. n - 1) = IF 1 > n - 1 THEN 0 ELSE n - 1 - 1 + 1
        BY <2>1, FS_Interval
    <2>. QED
        BY <2>2
<1>5. \A i \in Cells : Free(k, i) <=> i \notin U
    <2>1. \A i \in Cells : IF IsEmpty(k, i) THEN k.pos[i] = -1 ELSE k.pos[i] >= 0
        BY DEF Sound, PosIffSeqIn
    <2>2. \A i \in Cells : k.pos[i] \in Int
        BY DEF Sound, Cache
    <2>. QED
        BY <2>1, <2>2 DEF Free, UsedCells
<1>6. ASSUME NEW i \in F
      PROVE  /\ Least(back(i)) \in back(i)
             /\ \A d \in back(i) : Least(back(i)) <= d
    <2>1. i + 1 \in back(i) /\ back(i) \in SUBSET Nat
        BY <1>1, SizeAssumption DEF Cells
    <2>. HIDE DEF back
    <2>. QED
        BY <2>1, LeastIsLeast
<1>7. CASE n > Size
    <2>1. (n - 1) * (m + 1) >= n - 1
        <3>1. n - 1 \in Nat
            OBVIOUS
        <3>. HIDE DEF m
        <3>2. \A a \in Nat : (n - 1) * (a + 1) >= n - 1
            BY <3>1
        <3>. QED
            BY <1>1, <3>2
    <2>. QED
        BY <1>1, <1>7, <2>1, SizeAssumption
<1>8. CASE n <= Size
    <2>1. \A h \in Cells : ~FitsAt(k, n, h)
        BY <1>8 DEF CanPlace, Fits
    <2>2. ASSUME NEW i \in F
          PROVE  Least(back(i)) \in N
        <3>. DEFINE d == Least(back(i))
        <3>0. i \in Cells /\ i \in Nat /\ i < Size
            BY <1>1, SizeAssumption DEF Cells
        <3>1. d \in Nat /\ d >= 1 /\ i - d \in B /\ \A c \in back(i) : d <= c
            BY <1>6
        <3>2. SUFFICES ASSUME d >= n PROVE FALSE
            BY <3>1
        <3>3. i - d >= -1
            BY <1>1, <3>1, SizeAssumption DEF Cells
        <3>4. \A c \in Nat : c >= 1 /\ c < d => i - c \notin B
            BY <3>1
        <3>. HIDE DEF d
        <3>5. i - n + 1 \in Cells /\ i - n + 1 + n <= Size
            BY <3>0, <3>1, <3>2, <3>3, SizeAssumption DEF Cells
        <3>6. ASSUME NEW j \in (i - n + 1) .. (i - n + 1) + n - 1
              PROVE  Free(k, j)
            <4>1. j \in Cells
                BY <3>0, <3>5, SizeAssumption DEF Cells
            <4>2. CASE j = i
                BY <1>5, <4>1, <4>2
            <4>3. CASE j # i
                <5>1. i - j \in Nat /\ i - j >= 1 /\ i - j < d /\ i - (i - j) = j
                    BY <3>0, <3>1, <3>2, <4>1, <4>3, SizeAssumption DEF Cells
                <5>2. j \notin B
                    BY <3>4, <5>1
                <5>. QED
                    BY <1>5, <4>1, <5>2
            <4>. QED
                BY <4>2, <4>3
        <3>7. FitsAt(k, n, i - n + 1)
            BY <3>5, <3>6 DEF FitsAt
        <3>. QED
            BY <2>1, <3>5, <3>7
    <2>3. g \in Injection(F, B \X N)
        <3>1. \A i \in F : i - Least(back(i)) \in B /\ Least(back(i)) \in Nat /\ i \in Int
            BY <1>1, <1>6, SizeAssumption DEF Cells
        <3>2. g \in [F -> B \X N]
            BY <2>2, <3>1
        <3>3. ASSUME NEW i \in F, NEW j \in F, g[i] = g[j]
              PROVE  i = j
            <4>1. i - Least(back(i)) = j - Least(back(j)) /\ Least(back(i)) = Least(back(j))
                BY <3>3
            <4>. HIDE DEF back
            <4>. QED
                BY <3>1, <4>1
        <3>. QED
            BY <3>2, <3>3, Fun_IsInj
    <2>4. IsFiniteSet(B \X N) /\ Cardinality(B \X N) = (m + 1) * (n - 1)
        BY <1>3, <1>4, FS_Product
    <2>5. Cardinality(F) <= Cardinality(B \X N)
        BY <2>3, <2>4, FS_Injection
    <2>6. (m + 1) * (n - 1) = (n - 1) * (m + 1)
        BY <1>1
    <2>. QED
        BY <1>2, <2>4, <2>5, <2>6
<1>. QED
    BY <1>7, <1>8, SizeAssumption

-----------------------------------------------------------------------------
(* The refinement.                                                         *)

\* What KvStore counts, and the ubatch it takes.
LEMMA StoreCounts ==
    /\ Store!Cardinality(Store!Copies) = Cardinality(UsedCells(kv))
    /\ Store!NextUbatch = Ubatch
    /\ Store!BagOfSeq(Ubatch) = BagOf(Ubatch)
<1>1. Store!Cardinality(Store!Copies) = Cardinality(UsedCells(kv))
    BY StoreNames, CopiesCount
<1>2. Store!NextUbatch = Ubatch
    BY DEF Store!NextUbatch, Ubatch
<1>3. Store!BagOfSeq(Ubatch) = BagOf(Ubatch)
    BY StoreNames DEF Store!BagOfSeq, BagOf
<1>. QED
    BY <1>1, <1>2, <1>3

LEMMA InitStore == Init => Store!StoreInit
<1>. SUFFICES ASSUME Init PROVE Store!StoreInit
    OBVIOUS
<1>1. \A i \in Cells : kv.seq_id[i] = {}
    BY DEF Init, InitCache
<1>2. UsedCells(kv) = {}
    BY <1>1 DEF UsedCells, IsEmpty
<1>3. Contents(kv) = [e \in {} |-> 1]
    BY <1>2 DEF Contents
<1>. QED
    BY <1>3 DEF Store!StoreInit, Store!EmptyBag, Store!SetToBag, Init

LEMMA DecodeUbatchStore ==
    ASSUME CountInv, DecodeUbatch
    PROVE  Store!Add
<1>. DEFINE n == Len(Ubatch)
            k == Prepared
            h == FindSlot(k, n)
            p == Compute(Place(k, Ubatch, h), Ubatch)
<1>1. Sound(k) /\ Settled(k) /\ Contents(k) = Contents(kv)
    BY SoundShape, PreparedKeeps, KeepsSound, PreparedContents DEF CountInv, IInv
<1>2. Ubatch \in Seq(Entry) /\ Ubatch # <<>> /\ sbatch # <<>>
    BY UbatchType DEF DecodeUbatch, CountInv, IInv
<1>3. h \in Fits(k, n)
    BY FindSlotFits DEF DecodeUbatch
<1>4. Cardinality(UsedCells(k)) + n <= Size
    BY <1>1, <1>2, <1>3, PlacedRoom
<1>5. Cardinality(UsedCells(k)) = Cardinality(UsedCells(kv))
    BY <1>1, CopiesCount
<1>6. Sound(p)
    BY <1>1, <1>2, <1>3, SoundShape, PlacedKeeps, KeepsSound
<1>7. PICK queue \in BOOLEAN : kv' = [p EXCEPT !.do_defrag = @ \/ queue]
    BY DEF DecodeUbatch
<1>8. Contents(p) = Together(Contents(k), BagOf(Ubatch))
    BY <1>1, <1>2, <1>3, PlacedContents
<1>. HIDE DEF p, k, h
<1>9. Contents([p EXCEPT !.do_defrag = p.do_defrag \/ queue]) = Contents(p)
    BY <1>6, FlagContents DEF Sound
<1>10. Contents(kv)' = Contents(p)
    BY <1>7, <1>9
<1>11. Contents(kv)' = Store!(+)(Contents(kv), BagOf(Ubatch))
    BY <1>1, <1>8, <1>10 DEF Store!(+), Together
<1>12. sbatch' = Rest
    BY DEF DecodeUbatch
<1>. QED
    BY <1>2, <1>4, <1>5, <1>11, <1>12, StoreCounts DEF Store!Add, Rest

LEMMA DecodeNoSlotStore ==
    ASSUME CountInv, DecodeNoSlot
    PROVE  Store!Fail
<1>. DEFINE n == Len(Ubatch)
            k == Prepared
            m == Cardinality(UsedCells(kv))
<1>1. Sound(k) /\ Contents(k) = Contents(kv)
    BY SoundShape, PreparedKeeps, KeepsSound, PreparedContents DEF CountInv, IInv
<1>2. n \in Nat \ {0} /\ sbatch # <<>>
    BY UbatchType DEF DecodeNoSlot, CountInv, IInv
<1>3. Cardinality(UsedCells(k)) = m
    BY <1>1, CopiesCount
<1>4. ~CanPlace(k, n) /\ sbatch' = <<>>
      /\ kv' = [k EXCEPT !.head = HeadAfterMiss(k, n)]
    BY DEF DecodeNoSlot
<1>5. Size - m <= (n - 1) * (m + 1)
    BY <1>1, <1>2, <1>3, <1>4, NoSlotFew
<1>. HIDE DEF k
<1>6. Contents(kv)' = Contents(kv)
    BY <1>1, <1>4, HeadContents DEF Sound
<1>. QED
    BY <1>2, <1>4, <1>5, <1>6, StoreCounts DEF Store!Fail

LEMMA StepStore == CountInv /\ [Next]_vars => [Store!StoreNext]_(Store!storeVars)
<1>. SUFFICES ASSUME CountInv, [Next]_vars
              PROVE  Store!StoreNext \/ UNCHANGED Store!storeVars
    OBVIOUS
<1>0. Sound(kv) /\ kv \in Cache /\ sbatch \in Seq(Entry)
    BY DEF CountInv, IInv, Sound
<1>. DEFINE Same == Contents(kv)' = Contents(kv) /\ sbatch' = sbatch
<1>a. ASSUME Same PROVE UNCHANGED Store!storeVars
    BY <1>a DEF Store!storeVars
<1>b. Bounds \subseteq Int /\ Bounds = Store!Bounds
    BY MaxPosAssumption DEF Bounds, Store!Bounds
<1>1. CASE CallClear
    <2>1. Store!Edit(Store!EmptyBag)
        BY <1>0, <1>1, ClearStore DEF CallClear, Call
    <2>. QED
        BY <2>1 DEF Store!StoreNext, Store!Calls
<1>2. CASE CallSeqRm
    <2>1. PICK s \in Seqs \cup {AnySeq}, p0 \in Bounds, p1 \in Bounds :
            Call(SeqRm(kv, s, p0, p1))
        BY <1>2 DEF CallSeqRm
    <2>2. Store!Remove(s, p0, p1)
        BY <1>0, <2>1, SeqRmStore DEF Call
    <2>. QED
        BY <1>b, <2>2, StoreNames DEF Store!StoreNext, Store!Calls
<1>3. CASE CallSeqCp
    <2>1. PICK src \in Seqs, dst \in Seqs, p0 \in Bounds, p1 \in Bounds :
            Call(SeqCp(kv, src, dst, p0, p1))
        BY <1>3 DEF CallSeqCp
    <2>2. Store!Copy(src, dst, p0, p1)
        BY <1>0, <2>1, SeqCpStore DEF Call
    <2>. QED
        BY <1>b, <2>2 DEF Store!StoreNext, Store!Calls
<1>4. CASE CallSeqKeep
    <2>1. PICK s \in Seqs : Call(SeqKeep(kv, s))
        BY <1>4 DEF CallSeqKeep
    <2>2. Store!Keep(s)
        BY <1>0, <2>1, SeqKeepStore DEF Call
    <2>. QED
        BY <2>2 DEF Store!StoreNext, Store!Calls
<1>5. CASE CallSeqAdd
    <2>1. PICK s \in Seqs, p0 \in Bounds, p1 \in Bounds, d \in Deltas :
            Call(SeqAdd(kv, s, p0, p1, d))
        BY <1>5 DEF CallSeqAdd
    <2>2. Store!Shift(s, p0, p1, d)
        BY <1>0, <1>b, <2>1, SeqAddStore DEF Call
    <2>. QED
        BY <1>b, <2>2 DEF Store!StoreNext, Store!Calls
<1>6. CASE CallSeqDiv
    <2>1. PICK s \in Seqs, p0 \in Bounds, p1 \in Bounds, d \in Divisors :
            Call(SeqDiv(kv, s, p0, p1, d))
        BY <1>6 DEF CallSeqDiv
    <2>2. Store!Divide(s, p0, p1, d)
        BY <1>0, <1>b, <2>1, SeqDivStore DEF Call
    <2>. QED
        BY <1>b, <2>2 DEF Store!StoreNext, Store!Calls
<1>7. CASE CallDefrag
    <2>1. Contents([kv EXCEPT !.do_defrag = TRUE]) = Contents(kv)
        BY <1>0, FlagContents
    <2>2. Same
        BY <1>7, <2>1 DEF CallDefrag, Call
    <2>. QED
        BY <1>a, <2>2
<1>8. CASE CallUpdate
    <2>1. Contents(Update(kv)) = Contents(kv)
        BY <1>0, UpdateContents
    <2>2. Same
        BY <1>8, <2>1 DEF CallUpdate, Call
    <2>. QED
        BY <1>a, <2>2
<1>9. ASSUME NEW batch \in Batches, DecodeBegin(batch)
      PROVE  Store!StoreNext
    BY <1>9 DEF DecodeBegin, Store!StoreNext, Store!Begin
<1>10. CASE DecodeUbatch
    BY <1>10, DecodeUbatchStore DEF Store!StoreNext
<1>11. CASE DecodeNoSlot
    BY <1>11, DecodeNoSlotStore DEF Store!StoreNext
<1>12. CASE UNCHANGED vars
    BY <1>12 DEF vars, Store!storeVars
<1>. QED
    BY <1>1, <1>2, <1>3, <1>4, <1>5, <1>6, <1>7, <1>8, <1>9, <1>10, <1>11, <1>12
       DEF Next, Decode

\* The cache implements the bag: whatever head, used, the pending shifts and the
\* places of the cells are, a call edits the entries it is about and no others, a
\* decode adds its tokens, each once, and it gives up only when so few cells are
\* free that no run of them may be long enough.
THEOREM StoreImplemented == Spec => ImplementsStore
BY InitStore, StepStore, Counted, PTL DEF Spec, ImplementsStore, Store!StoreSpec

=============================================================================
