-------------------------- MODULE GraphAllocProofs --------------------------
(***************************************************************************)
(* The places that are found for the tensors of a graph are right, for     *)
(* every graph, every batch and every size of the tensors.                 *)
(***************************************************************************)
EXTENDS GraphAlloc, FiniteSetTheorems, SequenceTheorems, WellFoundedInduction, TLAPS

-----------------------------------------------------------------------------
(* Numbers and sequences.                                                  *)

LEMMA LeastNatural ==
    ASSUME NEW S \in SUBSET Nat, S # {}
    PROVE  \E x \in S : \A y \in S : x <= y
<1>1. PICK x \in S : \A y \in S : ~(<<y, x>> \in OpToRel(<, Nat))
    BY NatLessThanWellFounded, WFMin
<1>2. \A y \in S : ~(y < x)
    BY <1>1 DEF OpToRel
<1>3. \A y \in S : x <= y
    BY <1>2
<1>. QED
    BY <1>3

LEMMA GreatestNatural ==
    ASSUME NEW n \in Nat, NEW S \in SUBSET (0 .. n), S # {}
    PROVE  \E x \in S : \A y \in S : y <= x
<1>. DEFINE T == {z \in Nat : \E y \in S : z = n - y}
<1>0. \A y \in S : y \in 0 .. n /\ n - y \in Nat
    OBVIOUS
<1>1. T \in SUBSET Nat /\ T # {}
    BY <1>0
<1>. HIDE DEF T
<1>2. PICK z \in T : \A y \in T : z <= y
    BY <1>1, LeastNatural
<1>. USE DEF T
<1>3. PICK x \in S : z = n - x
    BY <1>2
<1>4. ASSUME NEW y \in S
      PROVE  y <= x
    <2>1. n - y \in T
        BY <1>0, <1>4
    <2>2. n - x <= n - y
        BY <1>2, <1>3, <2>1
    <2>. QED
        BY <1>0, <2>2
<1>. QED
    BY <1>4

LEMMA RemovedAt ==
    ASSUME NEW V, NEW q \in Seq(V), NEW i \in 1 .. Len(q)
    PROVE  /\ RemoveAt(q, i) \in Seq(V)
           /\ DOMAIN RemoveAt(q, i) = 1 .. Len(q) - 1
           /\ \A j \in 1 .. Len(q) - 1 : RemoveAt(q, i)[j] = IF j < i THEN q[j] ELSE q[j + 1]
<1>. DEFINE a == SubSeq(q, 1, i - 1)
            b == SubSeq(q, i + 1, Len(q))
<1>0. Len(q) \in Nat /\ i \in Nat
    BY LenProperties
<1>1. /\ a \in Seq(V) /\ Len(a) = i - 1
      /\ \A j \in 1 .. i - 1 : a[j] = q[j]
    <2>1. \A j \in 1 .. i - 1 : j \in 1 .. Len(q)
        BY <1>0
    <2>2. 1 \in 1 .. Len(q) + 1 /\ i - 1 \in 1 - 1 .. Len(q)
        BY <1>0
    <2>3. /\ SubSeq(q, 1, i - 1) \in Seq(V)
          /\ Len(SubSeq(q, 1, i - 1)) = IF 1 <= i - 1 THEN i - 1 - 1 + 1 ELSE 0
          /\ \A j \in 1 .. i - 1 - 1 + 1 : SubSeq(q, 1, i - 1)[j] = q[1 + j - 1]
        BY <2>1, <2>2, SubSeqProperties
    <2>. QED
        BY <1>0, <2>3
<1>2. /\ b \in Seq(V) /\ Len(b) = Len(q) - i
      /\ \A j \in 1 .. Len(q) - i : b[j] = q[i + j]
    <2>2. i + 1 \in 1 .. Len(q) + 1 /\ Len(q) \in i + 1 - 1 .. Len(q)
        BY <1>0
    <2>3. /\ SubSeq(q, i + 1, Len(q)) \in Seq(V)
          /\ Len(SubSeq(q, i + 1, Len(q))) = IF i + 1 <= Len(q) THEN Len(q) - (i + 1) + 1 ELSE 0
          /\ \A j \in 1 .. Len(q) - (i + 1) + 1 :
                SubSeq(q, i + 1, Len(q))[j] = q[i + 1 + j - 1]
        BY <2>2, SubSeqProperties
    <2>. QED
        BY <1>0, <2>3
<1>. HIDE DEF a, b
<1>3. /\ a \o b \in Seq(V) /\ Len(a \o b) = Len(q) - 1
      /\ \A j \in 1 .. Len(a) + Len(b) : (a \o b)[j] = IF j <= Len(a) THEN a[j] ELSE b[j - Len(a)]
    <2>1. a \in Seq(V) /\ b \in Seq(V)
        BY <1>1, <1>2
    <2>2. /\ a \o b \in Seq(V) /\ Len(a \o b) = Len(a) + Len(b)
          /\ \A j \in 1 .. Len(a) + Len(b) : (a \o b)[j] = IF j <= Len(a) THEN a[j] ELSE b[j - Len(a)]
        BY <2>1, ConcatProperties
    <2>. QED
        BY <1>0, <1>1, <1>2, <2>2
<1>4. DOMAIN (a \o b) = 1 .. Len(q) - 1
    BY <1>3, LenProperties
<1>5. ASSUME NEW j \in 1 .. Len(q) - 1
      PROVE  (a \o b)[j] = IF j < i THEN q[j] ELSE q[j + 1]
    <2>1. CASE j < i
        BY <1>0, <1>1, <1>2, <1>3, <2>1
    <2>2. CASE ~(j < i)
        <3>1. (a \o b)[j] = b[j - (i - 1)] /\ j - (i - 1) \in 1 .. Len(q) - i
            BY <1>0, <1>1, <1>2, <1>3, <2>2
        <3>2. b[j - (i - 1)] = q[i + (j - (i - 1))]
            BY <1>2, <3>1
        <3>3. i + (j - (i - 1)) = j + 1
            BY <1>0
        <3>. QED
            BY <2>2, <3>1, <3>2, <3>3
    <2>. QED
        BY <2>1, <2>2
<1>6. RemoveAt(q, i) = a \o b
    BY DEF RemoveAt, a, b
<1>. QED
    BY <1>3, <1>4, <1>5, <1>6

LEMMA InsertedAt ==
    ASSUME NEW V, NEW q \in Seq(V), NEW i \in 1 .. Len(q) + 1, NEW e \in V,
           NEW t, t = InsertAt(q, i, e)
    PROVE  /\ t \in Seq(V) /\ DOMAIN t = 1 .. Len(q) + 1
           /\ t[i] = e
           /\ \A j \in 1 .. Len(q) + 1 : j < i => t[j] = q[j]
           /\ \A j \in 1 .. Len(q) : ~(j < i) => t[j + 1] = q[j]
<1>. DEFINE a == SubSeq(q, 1, i - 1)
            b == SubSeq(q, i, Len(q))
            c == a \o <<e>>
<1>0. Len(q) \in Nat /\ i \in Nat
    BY LenProperties
<1>1. /\ a \in Seq(V) /\ Len(a) = i - 1
      /\ \A j \in 1 .. i - 1 : a[j] = q[j]
    <2>1. \A j \in 1 .. i - 1 : j \in 1 .. Len(q)
        BY <1>0
    <2>2. 1 \in 1 .. Len(q) + 1 /\ i - 1 \in 1 - 1 .. Len(q)
        BY <1>0
    <2>3. /\ SubSeq(q, 1, i - 1) \in Seq(V)
          /\ Len(SubSeq(q, 1, i - 1)) = IF 1 <= i - 1 THEN i - 1 - 1 + 1 ELSE 0
          /\ \A j \in 1 .. i - 1 - 1 + 1 : SubSeq(q, 1, i - 1)[j] = q[1 + j - 1]
        BY <2>1, <2>2, SubSeqProperties
    <2>. QED
        BY <1>0, <2>3
<1>2. /\ b \in Seq(V) /\ Len(b) = Len(q) - i + 1
      /\ \A j \in 1 .. Len(q) - i + 1 : b[j] = q[i + j - 1]
    <2>2. i \in 1 .. Len(q) + 1 /\ Len(q) \in i - 1 .. Len(q)
        BY <1>0
    <2>3. /\ SubSeq(q, i, Len(q)) \in Seq(V)
          /\ Len(SubSeq(q, i, Len(q))) = IF i <= Len(q) THEN Len(q) - i + 1 ELSE 0
          /\ \A j \in 1 .. Len(q) - i + 1 : SubSeq(q, i, Len(q))[j] = q[i + j - 1]
        BY <2>2, SubSeqProperties
    <2>. QED
        BY <1>0, <2>3
<1>. HIDE DEF a, b
<1>3. /\ c \in Seq(V) /\ Len(c) = i
      /\ \A j \in 1 .. i : c[j] = IF j < i THEN q[j] ELSE e
    <2>1. a \in Seq(V) /\ <<e>> \in Seq(V) /\ Len(<<e>>) = 1 /\ <<e>>[1] = e
        BY <1>1
    <2>2. /\ c \in Seq(V) /\ Len(c) = Len(a) + Len(<<e>>)
          /\ \A j \in 1 .. Len(a) + Len(<<e>>) :
                c[j] = IF j <= Len(a) THEN a[j] ELSE <<e>>[j - Len(a)]
        BY <2>1, ConcatProperties
    <2>3. Len(c) = i /\ \A j \in 1 .. i : c[j] = IF j <= i - 1 THEN a[j] ELSE <<e>>[j - (i - 1)]
        BY <1>0, <1>1, <2>1, <2>2
    <2>4. ASSUME NEW j \in 1 .. i
          PROVE  c[j] = IF j < i THEN q[j] ELSE e
        <3>1. CASE j < i
            BY <1>0, <1>1, <2>3, <3>1
        <3>2. CASE ~(j < i)
            <4>1. j = i /\ j - (i - 1) = 1 /\ ~(j <= i - 1)
                BY <1>0, <3>2
            <4>2. c[j] = <<e>>[j - (i - 1)]
                BY <2>3, <4>1
            <4>. QED
                BY <2>1, <3>2, <4>1, <4>2
        <3>. QED
            BY <3>1, <3>2
    <2>. HIDE DEF c
    <2>. QED
        BY <2>2, <2>3, <2>4
<1>. HIDE DEF c
<1>4. /\ c \o b \in Seq(V) /\ Len(c \o b) = Len(q) + 1
      /\ \A j \in 1 .. Len(q) + 1 : (c \o b)[j] = IF j <= i THEN c[j] ELSE b[j - i]
    <2>1. /\ c \o b \in Seq(V) /\ Len(c \o b) = Len(c) + Len(b)
          /\ \A j \in 1 .. Len(c) + Len(b) : (c \o b)[j] = IF j <= Len(c) THEN c[j] ELSE b[j - Len(c)]
        BY <1>2, <1>3, ConcatProperties
    <2>2. Len(c) + Len(b) = Len(q) + 1
        BY <1>0, <1>2, <1>3
    <2>. QED
        BY <1>3, <2>1, <2>2
<1>5. DOMAIN (c \o b) = 1 .. Len(q) + 1
    BY <1>4, LenProperties
<1>6. ASSUME NEW j \in 1 .. Len(q) + 1
      PROVE  (c \o b)[j] = IF j < i THEN q[j] ELSE IF j = i THEN e ELSE q[j - 1]
    <2>1. CASE j <= i
        BY <1>0, <1>3, <1>4, <2>1
    <2>2. CASE ~(j <= i)
        <3>1. (c \o b)[j] = b[j - i] /\ j - i \in 1 .. Len(q) - i + 1
            BY <1>0, <1>4, <2>2
        <3>2. b[j - i] = q[i + (j - i) - 1]
            BY <1>2, <3>1
        <3>3. i + (j - i) - 1 = j - 1
            BY <1>0
        <3>. QED
            BY <1>0, <2>2, <3>1, <3>2, <3>3
    <2>. QED
        BY <2>1, <2>2
<1>7. t = c \o b
    BY DEF InsertAt, a, b, c
<1>8. ASSUME NEW j \in 1 .. Len(q), ~(j < i)
      PROVE  t[j + 1] = q[j]
    <2>1. j + 1 \in 1 .. Len(q) + 1 /\ ~(j + 1 < i) /\ j + 1 # i /\ (j + 1) - 1 = j
        BY <1>0, <1>8
    <2>. QED
        BY <1>6, <1>7, <2>1
<1>. QED
    BY <1>0, <1>4, <1>5, <1>6, <1>7, <1>8

-----------------------------------------------------------------------------
(* A list of free blocks.                                                  *)

ABlock == [offset : Nat, size : Nat]

In(block, u) == block.offset <= u /\ u < End(block)

FreeAt(blocks, u) == \E i \in DOMAIN blocks : In(blocks[i], u)

\* No unit is in two blocks.
Once(blocks) ==
    \A i, j \in DOMAIN blocks : \A u \in Nat : In(blocks[i], u) /\ In(blocks[j], u) => i = j

\* A list without empty blocks is in order, and those that touch are merged.
InOrder(blocks) ==
    /\ \A i \in DOMAIN blocks : blocks[i].size > 0
    /\ \A i, j \in DOMAIN blocks : i < j => End(blocks[i]) < blocks[j].offset

\* Blocks in order, of which i and the next may touch.
InOrderBut(blocks, i) ==
    /\ \A x \in DOMAIN blocks : blocks[x].size > 0
    /\ \A x, y \in DOMAIN blocks : x < y =>
        /\ End(blocks[x]) <= blocks[y].offset
        /\ End(blocks[x]) = blocks[y].offset => x = i /\ y = i + 1

Within(blocks) == \A i \in DOMAIN blocks : End(blocks[i]) <= Arena

\* A block that begins at limit or before is the rest of the buffer.
Rest(blocks, limit) == \E i \in DOMAIN blocks : End(blocks[i]) = Arena /\ blocks[i].offset <= limit

-----------------------------------------------------------------------------
(* The allocator while the tensors D are placed.                           *)

AnAlloc ==
    [ blocks    : [Buffers -> Seq(ABlock)],
      max_size  : [Buffers -> Nat],
      children  : [Tensors -> Nat],
      views     : [Tensors -> Nat],
      allocated : [Tensors -> BOOLEAN],
      place     : [Tensors -> Buffers],
      offset    : [Tensors -> Nat] ]

Own == {k \in Tensors : ~IsView(k)}

\* Unit u of its buffer belongs to tensor k.
At(a, k, u) == a.offset[k] <= u /\ u < a.offset[k] + Size(k)

Clash(a, j, k) == a.place[j] = a.place[k] /\ \E u \in Nat : At(a, j, u) /\ At(a, k, u)

Largest == CHOOSE w \in 0 .. Arena : /\ \A k \in Own : Size(k) <= w
                                     /\ w * Cardinality(Own) < Arena

Blocks(a, D) ==
    \A b \in Buffers :
        /\ Once(a.blocks[b])
        /\ Rest(a.blocks[b], Largest * Cardinality(D))
        /\ Within(a.blocks[b])
        /\ (\A k \in Own : Size(k) > 0) => InOrder(a.blocks[b])

Peaks(a, D) ==
    /\ \A k \in D : a.offset[k] + Size(k) <= a.max_size[a.place[k]]
    /\ \A b \in Buffers : a.max_size[b] <= Arena

Tiles(a) ==
    /\ \A b \in Buffers : \A u \in 0 .. Arena - 1 :
        FreeAt(a.blocks[b], u) \/ \E k \in Tensors : a.allocated[k] /\ a.place[k] = b /\ At(a, k, u)
    /\ \A k \in Tensors : a.allocated[k] =>
        \A u \in Nat : At(a, k, u) => ~FreeAt(a.blocks[a.place[k]], u)
    /\ \A j, k \in Tensors : a.allocated[j] /\ a.allocated[k] /\ Clash(a, j, k) => j = k

TileInv(a, D) ==
    /\ a \in AnAlloc
    /\ D \subseteq Own /\ \A k \in Tensors : a.allocated[k] => k \in D
    /\ Blocks(a, D)
    /\ Peaks(a, D)
    /\ Tiles(a)

-----------------------------------------------------------------------------
(* Who needs a tensor.                                                     *)

Using(R, p) == {e \in R : Source(e) = p}

\* The views of p that are still to be read, or never are; R are the uses to come.
LiveViews(R, p) ==
    {v \in Tensors : /\ graph[v].op = "view" /\ graph[v].root = p
                     /\ Using(Uses, v) = {} \/ Using(R, v) # {}}

CountInv(a, R) ==
    \A p \in Tensors : /\ a.children[p] = Cardinality(Using(R, p))
                       /\ a.views[p] = Cardinality(LiveViews(R, p))

Held(R, p) == graph[p].out \/ Using(R, p) # {} \/ LiveViews(R, p) # {}

KeptInv(a, D, F) == \A p \in D : Held(F, p) => a.allocated[p]

\* What is to be found at p's place after node w was computed; the copy that follows
\* a dep reads the sources of the dep.
Needed(p, w) ==
    \/ graph[p].out
    \/ p = Root(Len(graph))
    \/ \E e \in Uses : (e[1] > w \/ (e[1] = w /\ graph[w].op = "dep")) /\ Root(Source(e)) = p

\* A leaf is there from the start.
Before(p, w) == p \in Leafs(graph) \/ p < w

ApartInv(a, D) ==
    \A p, w \in D : Clash(a, p, w) /\ p # w =>
        /\ p \notin Leafs(graph) \/ w \notin Leafs(graph)
        /\ w \notin Leafs(graph) /\ Before(p, w) => ~Needed(p, w)

From(m) == {e \in Uses : e[1] >= m}
PlacedBefore(m) == {k \in Own : Before(k, m)}

Planned(a, m) ==
    /\ TileInv(a, PlacedBefore(m))
    /\ CountInv(a, From(m))
    /\ KeptInv(a, PlacedBefore(m), From(m))
    /\ ApartInv(a, PlacedBefore(m))

\* Node m was placed, and j of its sources are released.
UsesLeft(m, j) == {e \in Uses : e[1] > m \/ (e[1] = m /\ e[2] > j)}

Releasing(a, m, j) ==
    /\ TileInv(a, PlacedBefore(m + 1))
    /\ CountInv(a, UsesLeft(m, j))
    /\ KeptInv(a, PlacedBefore(m + 1), From(m + 1))
    /\ ApartInv(a, PlacedBefore(m + 1))

-----------------------------------------------------------------------------
(* The places that were found, and the memory.                             *)

AnAssignment(g) == [DOMAIN g -> [place : Buffers, offset : Nat, size : Nat]]

\* What is known of an assignment for a graph: g is the one it was made for.
Overlap(at, j, k) ==
    /\ at[j].place = at[k].place
    /\ \E u \in Nat : /\ at[j].offset <= u /\ u < at[j].offset + at[j].size
                      /\ at[k].offset <= u /\ u < at[k].offset + at[k].size

AssignedInv ==
    /\ buffer_size \in [Buffers -> 0 .. Arena]
    /\ assigned.counts = Counts(graph) =>
        /\ assigned.at \in AnAssignment(graph)
        /\ \A k \in Own : assigned.at[k].offset + assigned.at[k].size <= buffer_size[assigned.at[k].place]
        /\ \A p, w \in Own : Overlap(assigned.at, p, w) /\ p # w =>
            /\ p \notin Leafs(graph) \/ w \notin Leafs(graph)
            /\ w \notin Leafs(graph) /\ Before(p, w) => ~Needed(p, w)

Ready ==
    /\ assigned.counts = Counts(graph)
    /\ \A k \in Own : Size(k) <= assigned.at[k].size

\* Before node m is computed, all that is needed of those before it is in memory.
InMemory(m) == \A p \in PlacedBefore(m) : Needed(p, m - 1) => Holds(p)

\* The graph and the batch are among those of the constants.
Given == model \in Models /\ graph \in {model, Shift} /\ batch \in Batches

IInv ==
    /\ TypeOK
    /\ model \in Models
    /\ phase = "place" /\ next > 0 => Planned(alloc, next)
    /\ AssignedInv
    /\ phase = "idle" => assigned.counts \in {<<0, 0>>, Counts(graph)}
    /\ phase \in {"load", "compute", "done"} => Ready
    /\ phase = "compute" => next \in Tensors
    /\ phase = "done" => next = Len(graph) + 1
    /\ phase \in {"compute", "done"} => InMemory(next)

-----------------------------------------------------------------------------
(* What happens to a list of blocks.                                       *)

\* A block other than the i-th has unit u.
OtherAt(q, i, u) == \E j \in DOMAIN q : j # i /\ In(q[j], u)

LEMMA BlocksTyped ==
    ASSUME NEW q \in Seq(ABlock)
    PROVE  /\ DOMAIN q = 1 .. Len(q) /\ Len(q) \in Nat
           /\ \A i \in DOMAIN q : q[i] \in ABlock /\ q[i].size \in Nat /\ q[i].offset \in Nat
<1>1. DOMAIN q = 1 .. Len(q) /\ Len(q) \in Nat
    BY LenProperties
<1>2. \A i \in DOMAIN q : q[i] \in ABlock
    BY <1>1, ElementOfSeq
<1>. QED
    BY <1>1, <1>2 DEF ABlock

LEMMA RemovedBlock ==
    ASSUME NEW q \in Seq(ABlock), NEW i \in DOMAIN q, NEW t, t = RemoveAt(q, i)
    PROVE  /\ t \in Seq(ABlock)
           /\ \A u : FreeAt(t, u) <=> OtherAt(q, i, u)
           /\ Once(q) => Once(t)
           /\ InOrder(q) => InOrder(t)
           /\ Within(q) => Within(t)
           /\ \A j \in DOMAIN q : j # i => \E x \in DOMAIN t : t[x] = q[j]
<1>1. PICK n : n = Len(q)
    OBVIOUS
<1>2. /\ n \in Nat /\ DOMAIN q = 1 .. n /\ i \in 1 .. n /\ i \in Nat
      /\ t \in Seq(ABlock) /\ DOMAIN t = 1 .. n - 1
      /\ \A j \in 1 .. n - 1 : t[j] = IF j < i THEN q[j] ELSE q[j + 1]
    BY <1>1, RemovedAt, LenProperties
<1>. DEFINE old(j) == IF j < i THEN j ELSE j + 1
            new(j) == IF j < i THEN j ELSE j - 1
<1>3. \A j \in 1 .. n - 1 : old(j) \in 1 .. n /\ old(j) # i /\ t[j] = q[old(j)]
    BY <1>2
<1>4. \A j \in 1 .. n : j # i => new(j) \in 1 .. n - 1 /\ old(new(j)) = j
    BY <1>2
<1>5. \A x, y \in 1 .. n - 1 : (old(x) = old(y) => x = y) /\ (x < y => old(x) < old(y))
    BY <1>2
<1>. HIDE DEF old, new
<1>6. ASSUME NEW u
      PROVE  FreeAt(t, u) <=> OtherAt(q, i, u)
    <2>1. ASSUME FreeAt(t, u) PROVE OtherAt(q, i, u)
        BY <1>2, <1>3, <2>1 DEF FreeAt, OtherAt
    <2>2. ASSUME OtherAt(q, i, u) PROVE FreeAt(t, u)
        BY <1>2, <1>3, <1>4, <2>2 DEF FreeAt, OtherAt
    <2>. QED
        BY <2>1, <2>2
<1>7. Once(q) => Once(t)
    BY <1>2, <1>3, <1>5 DEF Once
<1>8. ASSUME InOrder(q)
      PROVE  InOrder(t)
    <2>1. \A j \in DOMAIN t : t[j].size > 0
        BY <1>2, <1>3, <1>8 DEF InOrder
    <2>2. ASSUME NEW x \in DOMAIN t, NEW y \in DOMAIN t, x < y
          PROVE  End(t[x]) < t[y].offset
        <3>1. PICK i1, j1 : i1 = old(x) /\ j1 = old(y)
            OBVIOUS
        <3>2. /\ i1 \in DOMAIN q /\ j1 \in DOMAIN q /\ i1 < j1
              /\ t[x] = q[i1] /\ t[y] = q[j1]
            BY <1>2, <1>3, <1>5, <2>2, <3>1
        <3>3. End(q[i1]) < q[j1].offset
            BY <1>8, <3>2 DEF InOrder
        <3>. QED
            BY <3>2, <3>3
    <2>. QED
        BY <2>1, <2>2 DEF InOrder
<1>9. ASSUME NEW j \in DOMAIN q, j # i
      PROVE  \E x \in DOMAIN t : t[x] = q[j]
    BY <1>2, <1>3, <1>4, <1>9
<1>10. Within(q) => Within(t)
    BY <1>2, <1>3 DEF Within
<1>. QED
    BY <1>2, <1>6, <1>7, <1>8, <1>9, <1>10

LEMMA ChangedBlock ==
    ASSUME NEW q \in Seq(ABlock), NEW i \in DOMAIN q, NEW b \in ABlock,
           NEW t, t = [q EXCEPT ![i] = b]
    PROVE  /\ t \in Seq(ABlock) /\ DOMAIN t = DOMAIN q
           /\ t[i] = b /\ \A j \in DOMAIN q : j # i => t[j] = q[j]
           /\ \A u : FreeAt(t, u) <=> OtherAt(q, i, u) \/ In(b, u)
           /\ Once(q) /\ (\A u \in Nat : In(b, u) => ~OtherAt(q, i, u)) => Once(t)
<1>1. t \in Seq(ABlock) /\ Len(t) = Len(q)
    BY ExceptSeq
<1>2. DOMAIN t = DOMAIN q /\ t[i] = b /\ \A j \in DOMAIN q : j # i => t[j] = q[j]
    OBVIOUS
<1>3. \A u : FreeAt(t, u) <=> OtherAt(q, i, u) \/ In(b, u)
    BY <1>2 DEF FreeAt, OtherAt
<1>4. ASSUME Once(q), \A u \in Nat : In(b, u) => ~OtherAt(q, i, u)
      PROVE  Once(t)
    BY <1>2, <1>4 DEF Once, OtherAt
<1>. QED
    BY <1>1, <1>2, <1>3, <1>4

LEMMA InsertedBlock ==
    ASSUME NEW q \in Seq(ABlock), NEW i \in 1 .. Len(q) + 1, NEW b \in ABlock,
           NEW t, t = InsertAt(q, i, b)
    PROVE  /\ t \in Seq(ABlock)
           /\ \A u : FreeAt(t, u) <=> FreeAt(q, u) \/ In(b, u)
           /\ Once(q) /\ (\A u \in Nat : In(b, u) => ~FreeAt(q, u)) => Once(t)
           /\ InOrder(q) /\ b.size > 0 /\ (\A j \in DOMAIN q :
                    IF j < i THEN End(q[j]) < b.offset ELSE End(b) < q[j].offset)
                => InOrder(t)
           /\ Within(q) /\ End(b) <= Arena => Within(t)
           /\ \A j \in DOMAIN q : \E x \in DOMAIN t : t[x] = q[j]
<1>1. PICK n : n = Len(q)
    OBVIOUS
<1>0. n \in Nat /\ DOMAIN q = 1 .. n
    BY <1>1, LenProperties
<1>2. /\ n \in Nat /\ DOMAIN q = 1 .. n /\ i \in 1 .. n + 1 /\ i \in Nat
      /\ t \in Seq(ABlock) /\ DOMAIN t = 1 .. n + 1
      /\ t[i] = b
      /\ \A j \in 1 .. n + 1 : j < i => t[j] = q[j]
      /\ \A j \in 1 .. n : ~(j < i) => t[j + 1] = q[j]
    <2>1. /\ t \in Seq(ABlock) /\ DOMAIN t = 1 .. Len(q) + 1
          /\ t[i] = b
          /\ \A j \in 1 .. Len(q) + 1 : j < i => t[j] = q[j]
          /\ \A j \in 1 .. Len(q) : ~(j < i) => t[j + 1] = q[j]
        <3>1. /\ q \in Seq(ABlock) /\ i \in 1 .. Len(q) + 1 /\ b \in ABlock
              /\ t = InsertAt(q, i, b)
            OBVIOUS
        <3>2. t \in Seq(ABlock) /\ DOMAIN t = 1 .. Len(q) + 1
            BY <3>1, InsertedAt
        <3>3. t[i] = b
            BY <3>1, InsertedAt
        <3>4. \A j \in 1 .. Len(q) + 1 : j < i => t[j] = q[j]
            BY <3>1, InsertedAt
        <3>5. \A j \in 1 .. Len(q) : ~(j < i) => t[j + 1] = q[j]
            BY <3>1, InsertedAt
        <3>. QED
            BY <3>2, <3>3, <3>4, <3>5
    <2>. QED
        BY <1>0, <1>1, <2>1
<1>. DEFINE new(j) == IF j < i THEN j ELSE j + 1
            old(j) == IF j < i THEN j ELSE j - 1
<1>3. t[i] = b /\ i \in 1 .. n + 1
    BY <1>2
<1>4. ASSUME NEW j \in 1 .. n + 1, j # i
      PROVE  old(j) \in 1 .. n /\ t[j] = q[old(j)]
    <2>1. CASE j < i
        BY <1>2, <1>4, <2>1
    <2>2. CASE ~(j < i)
        <3>1. j - 1 \in 1 .. n /\ ~(j - 1 < i) /\ (j - 1) + 1 = j
            BY <1>2, <1>4, <2>2
        <3>. QED
            BY <1>2, <2>2, <3>1
    <2>. QED
        BY <2>1, <2>2
<1>5. \A j \in 1 .. n : new(j) \in 1 .. n + 1 /\ new(j) # i /\ old(new(j)) = j
    BY <1>2
<1>6. \A x, y \in 1 .. n + 1 : x # i /\ y # i =>
            (old(x) = old(y) => x = y) /\ (x < y => old(x) < old(y))
    BY <1>2
<1>61. \A x \in 1 .. n + 1 : (x < i => old(x) < i) /\ (x > i => ~(old(x) < i))
    BY <1>2
<1>. HIDE DEF old, new
<1>7. ASSUME NEW u
      PROVE  FreeAt(t, u) <=> FreeAt(q, u) \/ In(b, u)
    <2>1. ASSUME FreeAt(t, u) PROVE FreeAt(q, u) \/ In(b, u)
        BY <1>2, <1>3, <1>4, <2>1 DEF FreeAt
    <2>2. ASSUME FreeAt(q, u) PROVE FreeAt(t, u)
        <3>1. PICK j \in DOMAIN q : In(q[j], u)
            BY <2>2 DEF FreeAt
        <3>2. PICK x : x = new(j)
            OBVIOUS
        <3>3. x \in DOMAIN t /\ t[x] = q[j]
            BY <1>2, <1>4, <1>5, <3>1, <3>2
        <3>. QED
            BY <3>1, <3>3 DEF FreeAt
    <2>3. ASSUME In(b, u) PROVE FreeAt(t, u)
        BY <1>2, <1>3, <2>3 DEF FreeAt
    <2>. QED
        BY <2>1, <2>2, <2>3
<1>8. ASSUME Once(q), \A u \in Nat : In(b, u) => ~FreeAt(q, u)
      PROVE  Once(t)
    <2>1. ASSUME NEW x \in DOMAIN t, NEW y \in DOMAIN t, NEW u \in Nat, In(t[x], u), In(t[y], u)
          PROVE  x = y
        <3>1. CASE x # i /\ y # i
            BY <1>2, <1>4, <1>6, <1>8, <2>1, <3>1 DEF Once
        <3>2. CASE x = i /\ y # i
            BY <1>2, <1>3, <1>4, <1>8, <2>1, <3>2 DEF FreeAt
        <3>3. CASE x # i /\ y = i
            BY <1>2, <1>3, <1>4, <1>8, <2>1, <3>3 DEF FreeAt
        <3>. QED
            BY <3>1, <3>2, <3>3
    <2>. QED
        BY <2>1 DEF Once
<1>9. ASSUME InOrder(q), b.size > 0,
             \A j \in DOMAIN q : IF j < i THEN End(q[j]) < b.offset ELSE End(b) < q[j].offset
      PROVE  InOrder(t)
    <2>1. \A j \in DOMAIN t : t[j].size > 0
        BY <1>2, <1>3, <1>4, <1>9 DEF InOrder
    <2>2. ASSUME NEW x \in DOMAIN t, NEW y \in DOMAIN t, x < y
          PROVE  End(t[x]) < t[y].offset
        <3>1. CASE x # i /\ y # i
            <4>1. PICK i1, j1 : i1 = old(x) /\ j1 = old(y)
                OBVIOUS
            <4>2. /\ i1 \in DOMAIN q /\ j1 \in DOMAIN q /\ i1 < j1
                  /\ t[x] = q[i1] /\ t[y] = q[j1]
                BY <1>2, <1>4, <1>6, <2>2, <3>1, <4>1
            <4>3. End(q[i1]) < q[j1].offset
                BY <1>9, <4>2 DEF InOrder
            <4>. QED
                BY <4>2, <4>3
        <3>2. CASE x = i
            <4>1. y > i /\ y # i
                BY <1>2, <2>2, <3>2
            <4>. QED
                BY <1>2, <1>3, <1>4, <1>61, <1>9, <2>2, <3>2, <4>1
        <3>3. CASE y = i
            <4>1. x < i /\ x # i
                BY <1>2, <2>2, <3>3
            <4>. QED
                BY <1>2, <1>3, <1>4, <1>61, <1>9, <2>2, <3>3, <4>1
        <3>. QED
            BY <3>1, <3>2, <3>3
    <2>. QED
        BY <2>1, <2>2 DEF InOrder
<1>10. ASSUME NEW j \in DOMAIN q
       PROVE  \E x \in DOMAIN t : t[x] = q[j]
    <2>1. PICK x : x = new(j)
        OBVIOUS
    <2>2. x \in DOMAIN t /\ t[x] = q[j]
        BY <1>2, <1>4, <1>5, <2>1
    <2>. QED
        BY <2>2
<1>11. ASSUME Within(q), End(b) <= Arena
       PROVE  Within(t)
    BY <1>2, <1>3, <1>4, <1>11 DEF Within
<1>. QED
    BY <1>2, <1>7, <1>8, <1>9, <1>10, <1>11

LEMMA FirstOnes ==
    ASSUME NEW n \in Nat, NEW S \in SUBSET (1 .. n)
    PROVE  /\ Cardinality(S) \in Nat /\ Cardinality(S) + 1 \in 1 .. n + 1
           /\ (\A j \in S : \A i \in 1 .. n : i < j => i \in S)
                => \A j \in 1 .. n : j \in S <=> j < Cardinality(S) + 1
<1>1. IsFiniteSet(1 .. n) /\ Cardinality(1 .. n) = n
    BY FS_Interval
<1>2. Cardinality(S) \in Nat /\ Cardinality(S) <= n
    BY <1>1, FS_Subset, FS_CardinalityType
<1>3. ASSUME \A j \in S : \A i \in 1 .. n : i < j => i \in S
      PROVE  \A j \in 1 .. n : j \in S <=> j < Cardinality(S) + 1
    <2>1. CASE S = {}
        <3>1. Cardinality(S) = 0
            BY <2>1, FS_EmptySet
        <3>. QED
            BY <2>1, <3>1
    <2>2. CASE S # {}
        <3>1. S \in SUBSET (0 .. n)
            OBVIOUS
        <3>2. PICK x \in S : \A y \in S : y <= x
            BY <2>2, <3>1, GreatestNatural
        <3>3. x \in Nat /\ x >= 1 /\ x <= n
            BY <3>2
        <3>4. S = 1 .. x
            <4>1. \A y \in S : y \in 1 .. x
                BY <3>2, <3>3
            <4>2. \A y \in 1 .. x : y \in S
                BY <1>3, <3>2, <3>3
            <4>. QED
                BY <4>1, <4>2
        <3>5. Cardinality(1 .. x) = x
            BY <3>3, FS_Interval
        <3>6. Cardinality(S) = x
            BY <3>4, <3>5
        <3>. QED
            BY <3>3, <3>4, <3>6
    <2>. QED
        BY <2>1, <2>2
<1>. QED
    BY <1>2, <1>3

\* While the rest of the buffer is large enough, a block is found that is.
LEMMA BestFitFits ==
    ASSUME NEW q \in Seq(ABlock), NEW size \in Nat, NEW limit \in Nat,
           Rest(q, limit), limit + size < Arena
    PROVE  BestFit(q, size) \in DOMAIN q /\ q[BestFit(q, size)].size >= size
<1>. DEFINE fit == Fitting(q, size)
            Best(i) == \A j \in fit :
                q[i].size < q[j].size \/ (q[i].size = q[j].size /\ i >= j)
<1>0. PICK n : n = Len(q)
    OBVIOUS
<1>1. n \in Nat /\ DOMAIN q = 1 .. n /\ Arena \in Nat
    BY <1>0, LenProperties, ArenaAssumption
<1>2. fit = {i \in 1 .. n - 1 : q[i].size >= size}
    BY <1>0 DEF Fitting
<1>3. \A i \in DOMAIN q : q[i] \in ABlock /\ q[i].size \in Nat /\ q[i].offset \in Nat
    BY BlocksTyped
<1>4. CASE fit = {}
    <2>1. PICK i \in DOMAIN q : End(q[i]) = Arena /\ q[i].offset <= limit
        BY DEF Rest
    <2>2. q[i].size >= size
        BY <1>1, <1>3, <2>1 DEF End
    <2>3. i = n
        BY <1>1, <1>2, <1>4, <2>2
    <2>4. BestFit(q, size) = n
        BY <1>0, <1>4 DEF BestFit
    <2>. QED
        BY <1>1, <2>1, <2>2, <2>3, <2>4
<1>5. CASE fit # {}
    <2>. DEFINE S == {z \in Nat : \E i \in fit : z = q[i].size}
    <2>1. \A i \in fit : i \in DOMAIN q /\ i \in 0 .. n /\ q[i].size \in Nat /\ q[i].size >= size
        BY <1>1, <1>2, <1>3
    <2>2. S \in SUBSET Nat /\ S # {}
        BY <1>5, <2>1
    <2>. HIDE DEF fit, S
    <2>3. PICK z \in S : \A y \in S : z <= y
        BY <2>2, LeastNatural
    <2>. DEFINE T == {i \in fit : q[i].size = z}
    <2>4. T \in SUBSET (0 .. n) /\ T # {}
        BY <2>1, <2>3 DEF S
    <2>. HIDE DEF T
    <2>5. PICK x \in T : \A y \in T : y <= x
        BY <1>1, <2>4, GreatestNatural
    <2>6. x \in fit /\ q[x].size = z /\ x \in 0 .. n /\ z \in Nat
        BY <2>1, <2>5 DEF T
    <2>7. ASSUME NEW j \in fit
          PROVE  \/ q[x].size < q[j].size
                 \/ q[x].size = q[j].size /\ x >= j
        <3>1. q[j].size \in S /\ q[j].size \in Nat /\ j \in 0 .. n
            BY <2>1 DEF S
        <3>2. z <= q[j].size
            BY <2>3, <3>1
        <3>3. q[j].size = z => j <= x
            BY <2>5 DEF T
        <3>. QED
            BY <2>6, <3>1, <3>2, <3>3
    <2>8. Best(x)
        BY <2>7
    <2>. HIDE DEF Best
    <2>9. (CHOOSE i \in fit : Best(i)) \in fit
        BY <2>6, <2>8
    <2>. USE DEF Best
    <2>10. BestFit(q, size) \in fit
        BY <1>5, <2>9 DEF BestFit, fit
    <2>. QED
        BY <2>1, <2>10
<1>. QED
    BY <1>4, <1>5

\* A tensor is placed at the start of a block.
LEMMA TakenBlock ==
    ASSUME NEW q \in Seq(ABlock), Once(q), NEW i \in DOMAIN q,
           NEW size \in Nat, size <= q[i].size, NEW t, t = Taken(q, i, size)
    PROVE  /\ t \in Seq(ABlock)
           /\ Once(t)
           /\ \A u \in Nat : FreeAt(t, u) <=>
                /\ FreeAt(q, u)
                /\ ~(q[i].offset <= u /\ u < q[i].offset + size)
           /\ InOrder(q) => InOrder(t)
           /\ Within(q) => Within(t)
           /\ \A limit \in Nat : Rest(q, limit) /\ limit + size < Arena => Rest(t, limit + size)
<1>0. /\ \A j \in DOMAIN q : q[j] \in ABlock /\ q[j].size \in Nat /\ q[j].offset \in Nat
      /\ DOMAIN q \subseteq Nat /\ Arena \in Nat
    BY BlocksTyped, ArenaAssumption
<1>1. CASE q[i].size = size
    <2>1. t = RemoveAt(q, i)
        BY <1>1 DEF Taken
    <2>2. /\ t \in Seq(ABlock)
          /\ \A u : FreeAt(t, u) <=> OtherAt(q, i, u)
          /\ Once(t) /\ (InOrder(q) => InOrder(t)) /\ (Within(q) => Within(t))
          /\ \A j \in DOMAIN q : j # i => \E x \in DOMAIN t : t[x] = q[j]
        BY <2>1, RemovedBlock
    <2>3. ASSUME NEW u \in Nat
          PROVE  OtherAt(q, i, u) <=> FreeAt(q, u) /\ ~(q[i].offset <= u /\ u < q[i].offset + size)
        <3>1. In(q[i], u) <=> q[i].offset <= u /\ u < q[i].offset + size
            BY <1>1 DEF In, End
        <3>2. OtherAt(q, i, u) <=> FreeAt(q, u) /\ ~In(q[i], u)
            BY DEF OtherAt, FreeAt, Once
        <3>. QED
            BY <3>1, <3>2
    <2>4. ASSUME NEW limit \in Nat, Rest(q, limit), limit + size < Arena
          PROVE  Rest(t, limit + size)
        <3>1. PICK j \in DOMAIN q : End(q[j]) = Arena /\ q[j].offset <= limit
            BY <2>4 DEF Rest
        <3>2. j # i
            BY <1>0, <1>1, <2>4, <3>1 DEF End
        <3>3. PICK x \in DOMAIN t : t[x] = q[j]
            BY <2>2, <3>2
        <3>4. t[x].offset <= limit + size /\ End(t[x]) = Arena
            BY <1>0, <3>1, <3>3
        <3>. QED
            BY <3>4 DEF Rest
    <2>. QED
        BY <2>2, <2>3, <2>4
<1>2. CASE q[i].size # size
    <2>0. PICK b : b = Block(q[i].offset + size, q[i].size - size)
        OBVIOUS
    <2>1. b \in ABlock /\ b.offset = q[i].offset + size /\ b.size = q[i].size - size /\ b.size > 0
        BY <1>0, <1>2, <2>0 DEF Block, ABlock
    <2>2. t = [q EXCEPT ![i] = b]
        BY <1>2, <2>0 DEF Taken
    <2>3. End(b) = End(q[i])
        <3>1. q[i].offset \in Nat /\ q[i].size \in Nat
            BY <1>0
        <3>2. b.offset + b.size = q[i].offset + q[i].size
            BY <2>1, <3>1
        <3>. QED
            BY <3>2 DEF End
    <2>4. \A u \in Nat : In(b, u) <=>
            In(q[i], u) /\ ~(q[i].offset <= u /\ u < q[i].offset + size)
        BY <1>0, <2>1, <2>3 DEF In
    <2>5. \A u \in Nat : In(b, u) => ~OtherAt(q, i, u)
        BY <2>4 DEF OtherAt, Once
    <2>6. /\ t \in Seq(ABlock) /\ DOMAIN t = DOMAIN q
          /\ t[i] = b /\ \A j \in DOMAIN q : j # i => t[j] = q[j]
          /\ \A u : FreeAt(t, u) <=> OtherAt(q, i, u) \/ In(b, u)
          /\ Once(t)
        BY <2>1, <2>2, <2>5, ChangedBlock
    <2>7. ASSUME NEW u \in Nat
          PROVE  FreeAt(t, u) <=> FreeAt(q, u) /\ ~(q[i].offset <= u /\ u < q[i].offset + size)
        <3>1. q[i].offset <= u /\ u < q[i].offset + size => In(q[i], u)
            BY <1>0 DEF In, End
        <3>2. FreeAt(q, u) <=> OtherAt(q, i, u) \/ In(q[i], u)
            BY DEF FreeAt, OtherAt
        <3>3. ~(OtherAt(q, i, u) /\ In(q[i], u))
            BY DEF OtherAt, Once
        <3>. QED
            BY <2>4, <2>6, <3>1, <3>2, <3>3
    <2>8. ASSUME InOrder(q)
          PROVE  InOrder(t)
        <3>1. \A j \in DOMAIN t : t[j].size > 0
            BY <2>1, <2>6, <2>8 DEF InOrder
        <3>2. ASSUME NEW x \in DOMAIN t, NEW y \in DOMAIN t, x < y
              PROVE  End(t[x]) < t[y].offset
            <4>1. End(q[x]) < q[y].offset
                BY <2>6, <2>8, <3>2 DEF InOrder
            <4>2. x = i => y # i /\ End(t[x]) = End(q[x]) /\ t[y].offset = q[y].offset
                BY <1>0, <2>3, <2>6, <3>2
            <4>3. x # i => End(t[x]) = End(q[x])
                BY <2>6
            <4>4. t[y].offset >= q[y].offset
                BY <1>0, <2>1, <2>6
            <4>5. End(q[x]) \in Nat /\ q[y].offset \in Nat /\ t[y].offset \in Nat
                BY <1>0, <2>1, <2>6 DEF End
            <4>. QED
                BY <4>1, <4>2, <4>3, <4>4, <4>5
        <3>. QED
            BY <3>1, <3>2 DEF InOrder
    <2>9. ASSUME NEW limit \in Nat, Rest(q, limit), limit + size < Arena
          PROVE  Rest(t, limit + size)
        <3>1. PICK j \in DOMAIN q : End(q[j]) = Arena /\ q[j].offset <= limit
            BY <2>9 DEF Rest
        <3>2. End(t[j]) = Arena /\ t[j].offset <= limit + size
            BY <1>0, <2>1, <2>3, <2>6, <3>1
        <3>. QED
            BY <2>6, <3>1, <3>2 DEF Rest
    <2>10. Within(q) => Within(t)
        BY <2>3, <2>6 DEF Within
    <2>. QED
        BY <2>6, <2>7, <2>8, <2>9, <2>10
<1>. QED
    BY <1>1, <1>2

\* Blocks that touch become one.
LEMMA MergedBlock ==
    ASSUME NEW q \in Seq(ABlock), Once(q), NEW i \in Nat, NEW t, t = Merged(q, i)
    PROVE  /\ t \in Seq(ABlock)
           /\ Once(t)
           /\ \A u \in Nat : FreeAt(t, u) <=> FreeAt(q, u)
           /\ InOrderBut(q, i) => InOrder(t)
           /\ Within(q) => Within(t)
           /\ \A limit \in Nat :
                Rest(q, limit) /\ Within(q) => Rest(t, limit)
<1>0. PICK n : n = Len(q)
    OBVIOUS
<1>1. /\ n \in Nat /\ DOMAIN q = 1 .. n /\ Arena \in Nat
      /\ \A j \in DOMAIN q : q[j] \in ABlock /\ q[j].size \in Nat /\ q[j].offset \in Nat
    BY <1>0, BlocksTyped, ArenaAssumption
<1>2. CASE i \in 1 .. n - 1 /\ End(q[i]) = q[i + 1].offset
    <2>1. PICK r : r = RemoveAt(q, i + 1)
        OBVIOUS
    <2>2. PICK s : s = q[i].size + q[i + 1].size
        OBVIOUS
    <2>21. PICK b : b = Block(q[i].offset, s)
        OBVIOUS
    <2>3. i \in DOMAIN q /\ i + 1 \in DOMAIN q /\ i + 1 \in 1 .. Len(q) /\ i # i + 1
        BY <1>0, <1>1, <1>2
    <2>4. /\ r \in Seq(ABlock)
          /\ \A u : FreeAt(r, u) <=> OtherAt(q, i + 1, u)
          /\ Once(r) /\ (InOrder(q) => InOrder(r)) /\ (Within(q) => Within(r))
          /\ \A j \in DOMAIN q : j # i + 1 => \E x \in DOMAIN r : r[x] = q[j]
        BY <2>1, <2>3, RemovedBlock
    <2>5. /\ DOMAIN r = 1 .. n - 1
          /\ \A j \in 1 .. n - 1 : r[j] = IF j < i + 1 THEN q[j] ELSE q[j + 1]
        BY <1>0, <2>1, <2>3, RemovedAt
    <2>6. r[i] = q[i] /\ i \in DOMAIN r
        BY <1>1, <1>2, <2>5
    <2>7. /\ b \in ABlock /\ b.offset = q[i].offset /\ b.size = q[i].size + q[i + 1].size
          /\ End(b) = End(q[i + 1])
        <3>1. /\ q[i].offset \in Nat /\ q[i].size \in Nat /\ q[i + 1].size \in Nat
            BY <1>1, <2>3
        <3>11. s \in Nat
            BY <2>2, <3>1
        <3>12. b \in ABlock /\ b.offset = q[i].offset /\ b.size = s
            BY <2>21, <3>1, <3>11 DEF Block, ABlock
        <3>2. /\ b \in ABlock /\ b.offset = q[i].offset /\ b.size = q[i].size + q[i + 1].size
            BY <2>2, <3>12
        <3>3. b.offset + b.size = q[i].offset + q[i].size + q[i + 1].size
            BY <3>1, <3>2
        <3>. QED
            BY <1>2, <3>2, <3>3 DEF End
    <2>8. t = [r EXCEPT ![i] = b]
        BY <1>0, <1>2, <2>1, <2>2, <2>21, <2>6 DEF Merged
    <2>9. ASSUME NEW u \in Nat
          PROVE  In(b, u) <=> In(q[i], u) \/ In(q[i + 1], u)
        <3>1. /\ q[i].offset \in Nat /\ q[i].size \in Nat
              /\ q[i + 1].offset \in Nat /\ q[i + 1].size \in Nat
            BY <1>1, <2>3
        <3>2. /\ q[i].offset <= q[i + 1].offset
              /\ q[i + 1].offset <= End(q[i + 1])
              /\ End(q[i + 1]) \in Nat
            <4>1. PICK j : j = i + 1
                OBVIOUS
            <4>2. PICK o, z, p, w : o = q[i].offset /\ z = q[i].size /\ p = q[j].offset /\ w = q[j].size
                OBVIOUS
            <4>3. o \in Nat /\ z \in Nat /\ p \in Nat /\ w \in Nat /\ o + z = p /\ End(q[j]) = p + w
                BY <1>2, <3>1, <4>1, <4>2 DEF End
            <4>4. o <= p /\ p <= p + w /\ p + w \in Nat
                BY <4>3
            <4>. QED
                BY <4>1, <4>2, <4>3, <4>4
        <3>. QED
            BY <1>2, <2>7, <3>1, <3>2 DEF In
    <2>10. \A u \in Nat : In(b, u) => ~OtherAt(r, i, u)
        <3>1. SUFFICES ASSUME NEW u \in Nat, In(b, u), NEW j \in DOMAIN r, j # i, In(r[j], u)
                       PROVE  FALSE
            BY DEF OtherAt
        <3>2. PICK x : x = IF j < i + 1 THEN j ELSE j + 1
            OBVIOUS
        <3>3. x \in DOMAIN q /\ x # i /\ x # i + 1 /\ r[j] = q[x]
            BY <1>1, <1>2, <2>5, <3>1, <3>2
        <3>4. In(q[x], u) /\ (In(q[i], u) \/ In(q[i + 1], u))
            BY <2>9, <3>1, <3>3
        <3>. QED
            BY <2>3, <3>3, <3>4 DEF Once
    <2>11. /\ t \in Seq(ABlock) /\ DOMAIN t = DOMAIN r
           /\ t[i] = b /\ \A j \in DOMAIN r : j # i => t[j] = r[j]
           /\ \A u : FreeAt(t, u) <=> OtherAt(r, i, u) \/ In(b, u)
           /\ Once(t)
        <3>1. r \in Seq(ABlock) /\ i \in DOMAIN r /\ b \in ABlock /\ t = [r EXCEPT ![i] = b] /\ Once(r)
            BY <2>4, <2>6, <2>7, <2>8
        <3>. QED
            BY <2>10, <3>1, ChangedBlock
    <2>12. ASSUME NEW u \in Nat
           PROVE  FreeAt(t, u) <=> FreeAt(q, u)
        <3>1. FreeAt(r, u) <=> OtherAt(r, i, u) \/ In(r[i], u)
            BY <2>6 DEF FreeAt, OtherAt
        <3>2. FreeAt(q, u) <=> OtherAt(q, i + 1, u) \/ In(q[i + 1], u)
            BY <2>3 DEF FreeAt, OtherAt
        <3>. QED
            BY <2>4, <2>6, <2>9, <2>11, <3>1, <3>2
    <2>13. ASSUME InOrderBut(q, i)
           PROVE  InOrder(t)
        <3>0. \A j \in DOMAIN q : q[j].size > 0
            BY <2>13 DEF InOrderBut
        <3>1. \A j \in DOMAIN t : t[j].size > 0
            <4>1. b.size > 0
                BY <1>1, <2>3, <2>7, <3>0
            <4>2. ASSUME NEW j \in DOMAIN r
                  PROVE  r[j].size > 0
                <5>1. PICK x : x = IF j < i + 1 THEN j ELSE j + 1
                    OBVIOUS
                <5>2. x \in DOMAIN q /\ r[j] = q[x]
                    BY <1>1, <2>5, <4>2, <5>1
                <5>. QED
                    BY <3>0, <5>2
            <4>. QED
                BY <2>11, <4>1, <4>2
        <3>2. ASSUME NEW x \in DOMAIN t, NEW y \in DOMAIN t, x < y
              PROVE  End(t[x]) < t[y].offset
            <4>0. x \in 1 .. n - 1 /\ y \in 1 .. n - 1
                BY <2>5, <2>11
            <4>1. PICK x1 : x1 = IF x < i THEN x ELSE x + 1
                OBVIOUS
            <4>2. PICK y1 : y1 = IF y < i + 1 THEN y ELSE y + 1
                OBVIOUS
            <4>3. x1 \in DOMAIN q /\ y1 \in DOMAIN q /\ x1 < y1 /\ ~(x1 = i /\ y1 = i + 1)
                BY <1>1, <1>2, <3>2, <4>0, <4>1, <4>2
            <4>4. End(t[x]) = End(q[x1])
                <5>1. CASE x = i
                    BY <1>1, <1>2, <2>7, <2>11, <4>1, <5>1
                <5>2. CASE x # i
                    <6>1. t[x] = r[x] /\ r[x] = IF x < i + 1 THEN q[x] ELSE q[x + 1]
                        BY <2>5, <2>11, <4>0, <5>2
                    <6>2. (x < i + 1) <=> (x < i)
                        BY <1>1, <1>2, <4>0, <5>2
                    <6>. QED
                        BY <4>1, <6>1, <6>2
                <5>. QED
                    BY <5>1, <5>2
            <4>5. t[y].offset = q[y1].offset
                <5>1. CASE y = i
                    BY <1>1, <1>2, <2>7, <2>11, <4>2, <5>1
                <5>2. CASE y # i
                    <6>1. t[y] = r[y] /\ r[y] = IF y < i + 1 THEN q[y] ELSE q[y + 1]
                        BY <2>5, <2>11, <4>0, <5>2
                    <6>. QED
                        BY <4>2, <6>1
                <5>. QED
                    BY <5>1, <5>2
            <4>6. /\ End(q[x1]) <= q[y1].offset
                  /\ End(q[x1]) # q[y1].offset
                BY <2>13, <4>3 DEF InOrderBut
            <4>7. End(q[x1]) \in Nat /\ q[y1].offset \in Nat
                BY <1>1, <4>3 DEF End
            <4>. QED
                BY <4>4, <4>5, <4>6, <4>7
        <3>. QED
            BY <3>1, <3>2 DEF InOrder
    <2>14. ASSUME NEW limit \in Nat, Rest(q, limit), Within(q)
           PROVE  Rest(t, limit)
        <3>1. PICK j \in DOMAIN q : End(q[j]) = Arena /\ q[j].offset <= limit
            BY <2>14 DEF Rest
        <3>2. /\ q[i].offset \in Nat /\ q[i].size \in Nat
              /\ q[i + 1].offset \in Nat /\ q[i + 1].size \in Nat
            BY <1>1, <2>3
        <3>3. CASE j # i /\ j # i + 1
            <4>1. PICK x : x = IF j < i + 1 THEN j ELSE j - 1
                OBVIOUS
            <4>2. x \in DOMAIN r /\ x # i /\ r[x] = q[j]
                BY <1>1, <1>2, <2>5, <3>1, <3>3, <4>1
            <4>. QED
                BY <2>11, <3>1, <4>2 DEF Rest
        <3>4. CASE j = i + 1
            <4>1. b.offset <= limit /\ End(b) = Arena
                BY <1>2, <2>7, <3>1, <3>2, <3>4 DEF End
            <4>. QED
                BY <2>6, <2>11, <4>1 DEF Rest
        <3>5. CASE j = i
            <4>1. End(q[i + 1]) <= Arena
                BY <2>3, <2>14 DEF Within
            <4>2. q[i + 1].offset = Arena
                BY <1>2, <3>1, <3>5
            <4>3. End(b) = Arena
                BY <1>1, <2>7, <3>2, <4>1, <4>2 DEF End
            <4>. QED
                BY <2>6, <2>7, <2>11, <3>1, <3>5, <4>3 DEF Rest
        <3>. QED
            BY <3>3, <3>4, <3>5
    <2>15. Within(q) => Within(t)
        BY <2>3, <2>4, <2>7, <2>11 DEF Within
    <2>. QED
        BY <2>11, <2>12, <2>13, <2>14, <2>15
<1>3. CASE ~(i \in 1 .. n - 1 /\ End(q[i]) = q[i + 1].offset)
    <2>1. t = q
        BY <1>0, <1>3 DEF Merged
    <2>2. ASSUME InOrderBut(q, i)
          PROVE  InOrder(q)
        <3>1. ASSUME NEW x \in DOMAIN q, NEW y \in DOMAIN q, x < y
              PROVE  End(q[x]) < q[y].offset
            <4>1. End(q[x]) \in Nat /\ q[y].offset \in Nat
                BY <1>1 DEF End
            <4>2. End(q[x]) <= q[y].offset
                BY <2>2, <3>1 DEF InOrderBut
            <4>3. ASSUME End(q[x]) = q[y].offset
                  PROVE  FALSE
                <5>1. x = i /\ y = i + 1
                    BY <2>2, <3>1, <4>3 DEF InOrderBut
                <5>2. i \in 1 .. n - 1
                    BY <1>1, <5>1
                <5>. QED
                    BY <1>3, <4>3, <5>1, <5>2
            <4>. QED
                BY <4>1, <4>2, <4>3
        <3>. QED
            BY <2>2, <3>1 DEF InOrder, InOrderBut
    <2>. QED
        BY <2>1, <2>2
<1>. QED
    BY <1>2, <1>3

\* A tensor's place is given back.
LEMMA GivenBackBlock ==
    ASSUME NEW q \in Seq(ABlock), Once(q), NEW offset \in Nat, NEW size \in Nat,
           \A u \in Nat : offset <= u /\ u < offset + size => ~FreeAt(q, u),
           NEW t, t = GivenBack(q, offset, size)
    PROVE  /\ t \in Seq(ABlock)
           /\ Once(t)
           /\ \A u \in Nat : FreeAt(t, u) <=> FreeAt(q, u) \/ (offset <= u /\ u < offset + size)
           /\ InOrder(q) /\ size > 0 => InOrder(t)
           /\ Within(q) /\ offset + size <= Arena =>
                Within(t) /\ \A limit \in Nat : Rest(q, limit) => Rest(t, limit)
<1>. DEFINE touching == Touching(q, offset, size)
            before == {i \in 1 .. Len(q) : q[i].offset < offset}
<1>0. PICK n : n = Len(q)
    OBVIOUS
<1>1. /\ n \in Nat /\ DOMAIN q = 1 .. n /\ Arena \in Nat
      /\ \A j \in DOMAIN q : q[j] \in ABlock /\ q[j].size \in Nat /\ q[j].offset \in Nat
    BY <1>0, BlocksTyped, ArenaAssumption
<1>2. \A j \in DOMAIN q : End(q[j]) \in Nat /\ End(q[j]) = q[j].offset + q[j].size
    BY <1>1 DEF End
<1>3. PICK end : end = offset + size
    OBVIOUS
<1>4. end \in Nat /\ offset <= end
    BY <1>3
<1>5. \A u \in Nat : offset <= u /\ u < end => ~FreeAt(q, u)
    BY <1>3
<1>6. touching = {j \in 1 .. n : End(q[j]) = offset \/ end = q[j].offset}
    BY <1>0, <1>3 DEF Touching
<1>. HIDE DEF touching
\* A block lies before the place or behind it.
<1>7. ASSUME NEW j \in DOMAIN q, q[j].size > 0, size > 0
      PROVE  End(q[j]) <= offset \/ end <= q[j].offset
    <2>1. SUFFICES ASSUME End(q[j]) > offset, end > q[j].offset
                   PROVE  FALSE
        BY <1>1, <1>2, <1>4
    <2>2. PICK o, z : o = q[j].offset /\ z = q[j].size
        OBVIOUS
    <2>3. o \in Nat /\ z \in Nat /\ z > 0 /\ End(q[j]) = o + z
        BY <1>1, <1>2, <1>7, <2>2
    <2>4. PICK u : u = IF o > offset THEN o ELSE offset
        OBVIOUS
    <2>5. u \in Nat /\ offset <= u /\ u < end /\ o <= u /\ u < o + z
        BY <1>3, <1>4, <1>7, <2>1, <2>2, <2>3, <2>4
    <2>6. FreeAt(q, u)
        BY <2>2, <2>3, <2>5 DEF FreeAt, In
    <2>. QED
        BY <1>5, <2>5, <2>6
<1>8. CASE touching = {}
    <2>1. PICK i : i = Cardinality(before) + 1
        OBVIOUS
    <2>2. PICK b : b = Block(offset, size)
        OBVIOUS
    <2>3. b \in ABlock /\ b.offset = offset /\ b.size = size /\ End(b) = end
        BY <1>3, <2>2 DEF Block, ABlock, End
    <2>4. t = InsertAt(q, i, b)
        BY <1>8, <2>1, <2>2 DEF GivenBack, touching
    <2>5. /\ i \in 1 .. n + 1
          /\ (\A j \in before : \A x \in 1 .. n : x < j => x \in before)
                => \A j \in 1 .. n : j \in before <=> j < i
        BY <1>0, <1>1, <2>1, FirstOnes
    <2>6. \A u \in Nat : In(b, u) <=> offset <= u /\ u < end
        BY <2>3 DEF In
    <2>7. i \in 1 .. Len(q) + 1 /\ b \in ABlock /\ t = InsertAt(q, i, b)
        BY <1>0, <2>3, <2>4, <2>5
    <2>8. /\ t \in Seq(ABlock)
          /\ Once(q) /\ (\A u \in Nat : In(b, u) => ~FreeAt(q, u)) => Once(t)
        BY <2>7, InsertedBlock
    <2>9. \A u : FreeAt(t, u) <=> FreeAt(q, u) \/ In(b, u)
        BY <2>7, InsertedBlock
    <2>10. InOrder(q) /\ b.size > 0 /\ (\A j \in DOMAIN q :
                    IF j < i THEN End(q[j]) < b.offset ELSE End(b) < q[j].offset)
                => InOrder(t)
        BY <2>7, InsertedBlock
    <2>11. Within(q) /\ End(b) <= Arena => Within(t)
        BY <2>7, InsertedBlock
    <2>12. \A j \in DOMAIN q : \E x \in DOMAIN t : t[x] = q[j]
        BY <2>7, InsertedBlock
    <2>13. ASSUME InOrder(q), size > 0
          PROVE  InOrder(t)
        <3>1. ASSUME NEW j \in before, NEW x \in 1 .. n, x < j
              PROVE  x \in before
            <4>1. j \in 1 .. n /\ q[j].offset < offset
                BY <1>0
            <4>2. End(q[x]) < q[j].offset
                BY <1>1, <2>13, <3>1, <4>1 DEF InOrder
            <4>3. q[x].offset < offset
                BY <1>1, <1>2, <4>1, <4>2
            <4>. QED
                BY <1>0, <4>3
        <3>2. \A j \in 1 .. n : j \in before <=> j < i
            BY <2>5, <3>1
        <3>3. ASSUME NEW j \in DOMAIN q
              PROVE  IF j < i THEN End(q[j]) < b.offset ELSE End(b) < q[j].offset
            <4>1. End(q[j]) <= offset \/ end <= q[j].offset
                BY <1>7, <2>13 DEF InOrder
            <4>2. End(q[j]) # offset /\ end # q[j].offset
                BY <1>1, <1>6, <1>8
            <4>3. q[j].size > 0 /\ q[j].offset \in Nat /\ q[j].size \in Nat
                BY <1>1, <2>13 DEF InOrder
            <4>4. j < i <=> q[j].offset < offset
                BY <1>0, <1>1, <3>2
            <4>5. End(q[j]) = q[j].offset + q[j].size
                BY <1>2
            <4>. QED
                BY <1>3, <1>4, <2>3, <2>13, <4>1, <4>2, <4>3, <4>4, <4>5
        <3>. QED
            BY <2>3, <2>10, <2>13, <3>3
    <2>14. ASSUME NEW limit, Rest(q, limit)
          PROVE  Rest(t, limit)
        BY <2>12, <2>14 DEF Rest
    <2>15. t \in Seq(ABlock) /\ Once(t)
        <3>1. \A u \in Nat : In(b, u) => ~FreeAt(q, u)
            BY <1>5, <2>6
        <3>. QED
            BY <2>8, <3>1
    <2>16. \A u \in Nat : FreeAt(t, u) <=> FreeAt(q, u) \/ (offset <= u /\ u < end)
        BY <2>6, <2>9
    <2>17. Within(q) /\ end <= Arena => Within(t)
        BY <2>3, <2>11
    <2>. QED
        BY <1>3, <2>13, <2>14, <2>15, <2>16, <2>17
<1>9. CASE touching # {}
    <2>. DEFINE first == CHOOSE i \in touching : \A j \in touching : i <= j
    <2>1. first \in touching /\ \A j \in touching : first <= j
        <3>1. touching \in SUBSET Nat
            BY <1>1, <1>6
        <3>2. \E i \in touching : \A j \in touching : i <= j
            BY <1>9, <3>1, LeastNatural
        <3>. QED
            BY <3>2
    <2>2. PICK i : i = first
        OBVIOUS
    <2>3. t = IF End(q[i]) = offset
              THEN Merged([q EXCEPT ![i].size = @ + size], i)
              ELSE Merged([q EXCEPT ![i] = Block(offset, @.size + size)], i - 1)
        BY <1>9, <2>2 DEF GivenBack, touching
    <2>. HIDE DEF first
    <2>4. /\ i \in 1 .. n /\ i \in DOMAIN q /\ i \in Nat
          /\ End(q[i]) = offset \/ end = q[i].offset
          /\ \A j \in DOMAIN q : j < i => End(q[j]) # offset /\ end # q[j].offset
        <3>1. i \in 1 .. n /\ (End(q[i]) = offset \/ end = q[i].offset)
            BY <1>6, <2>1, <2>2
        <3>2. ASSUME NEW j \in DOMAIN q, j < i
              PROVE  j \notin touching
            BY <1>1, <2>1, <2>2, <3>1, <3>2
        <3>. QED
            BY <1>1, <1>6, <3>1, <3>2
    <2>5. PICK o, z : o = q[i].offset /\ z = q[i].size
        OBVIOUS
    <2>6. o \in Nat /\ z \in Nat /\ End(q[i]) = o + z /\ q[i] \in ABlock
        BY <1>1, <1>2, <2>4, <2>5
    \* The block that grew, and the place where it may touch the next.
    <2>7. \E b \in ABlock, m \in Nat :
            /\ t = Merged([q EXCEPT ![i] = b], m)
            /\ \A u \in Nat : In(b, u) <=> In(q[i], u) \/ (offset <= u /\ u < end)
            /\ b.size = z + size
            /\ \/ m = i /\ b.offset = o /\ End(b) = end /\ o + z = offset
               \/ m = i - 1 /\ b.offset = offset /\ End(b) = o + z /\ end = o /\ o + z # offset
        <3>1. CASE End(q[i]) = offset
            <4>1. PICK b : b = Block(o, z + size)
                OBVIOUS
            <4>2. b \in ABlock /\ b.offset = o /\ b.size = z + size /\ b = [q[i] EXCEPT !.size = @ + size]
                BY <2>5, <2>6, <4>1 DEF Block, ABlock
            <4>3. End(b) = end
                BY <1>3, <2>6, <3>1, <4>2 DEF End
            <4>4. t = Merged([q EXCEPT ![i] = b], i)
                BY <2>3, <2>4, <3>1, <4>2
            <4>5. \A u \in Nat : In(b, u) <=> In(q[i], u) \/ (offset <= u /\ u < end)
                BY <1>4, <2>5, <2>6, <3>1, <4>2, <4>3 DEF In
            <4>. QED
                BY <2>4, <2>6, <3>1, <4>2, <4>3, <4>4, <4>5
        <3>2. CASE End(q[i]) # offset
            <4>0. end = o
                BY <2>4, <2>5, <3>2
            <4>1. PICK b : b = Block(offset, z + size)
                OBVIOUS
            <4>2. b \in ABlock /\ b.offset = offset /\ b.size = z + size
                BY <2>6, <4>1 DEF Block, ABlock
            <4>3. End(b) = o + z
                BY <1>3, <2>6, <4>0, <4>2 DEF End
            <4>4. t = Merged([q EXCEPT ![i] = b], i - 1)
                BY <2>3, <2>4, <2>5, <3>2, <4>1
            <4>5. \A u \in Nat : In(b, u) <=> In(q[i], u) \/ (offset <= u /\ u < end)
                <5>1. ASSUME NEW u \in Nat
                      PROVE  /\ In(b, u) <=> offset <= u /\ u < o + z
                             /\ In(q[i], u) <=> o <= u /\ u < o + z
                    BY <2>5, <2>6, <4>2, <4>3 DEF In
                <5>. QED
                    BY <1>4, <2>6, <4>0, <5>1
            <4>6. i - 1 \in Nat
                BY <2>4
            <4>. QED
                BY <2>6, <3>2, <4>0, <4>2, <4>3, <4>4, <4>5, <4>6
        <3>. QED
            BY <3>1, <3>2
    <2>8. PICK b \in ABlock, m \in Nat :
            /\ t = Merged([q EXCEPT ![i] = b], m)
            /\ \A u \in Nat : In(b, u) <=> In(q[i], u) \/ (offset <= u /\ u < end)
            /\ b.size = z + size
            /\ \/ m = i /\ b.offset = o /\ End(b) = end /\ o + z = offset
               \/ m = i - 1 /\ b.offset = offset /\ End(b) = o + z /\ end = o /\ o + z # offset
        BY <2>7
    <2>9. PICK r : r = [q EXCEPT ![i] = b]
        OBVIOUS
    <2>10. \A u \in Nat : In(b, u) => ~OtherAt(q, i, u)
        <3>1. \A u \in Nat : OtherAt(q, i, u) => FreeAt(q, u) /\ ~In(q[i], u)
            BY <2>4 DEF OtherAt, FreeAt, Once
        <3>. QED
            BY <1>5, <2>8, <3>1
    <2>11. /\ r \in Seq(ABlock) /\ DOMAIN r = DOMAIN q
           /\ r[i] = b /\ \A j \in DOMAIN q : j # i => r[j] = q[j]
           /\ \A u : FreeAt(r, u) <=> OtherAt(q, i, u) \/ In(b, u)
           /\ Once(r)
        <3>1. i \in DOMAIN q /\ b \in ABlock /\ r = [q EXCEPT ![i] = b]
            BY <2>4, <2>8, <2>9
        <3>. QED
            BY <2>10, <3>1, ChangedBlock
    <2>12. ASSUME NEW u \in Nat
           PROVE  FreeAt(r, u) <=> FreeAt(q, u) \/ (offset <= u /\ u < end)
        <3>1. FreeAt(q, u) <=> OtherAt(q, i, u) \/ In(q[i], u)
            BY <2>4 DEF FreeAt, OtherAt
        <3>. QED
            BY <2>8, <2>11, <3>1
    <2>13. ASSUME InOrder(q), size > 0
           PROVE  InOrderBut(r, m)
        <3>0. \A j \in DOMAIN q : q[j].size > 0
            BY <2>13 DEF InOrder
        <3>1. \A j \in DOMAIN r : r[j].size > 0
            BY <2>6, <2>8, <2>11, <2>13, <3>0
        <3>2. ASSUME NEW x \in DOMAIN r, NEW y \in DOMAIN r, x < y
              PROVE  /\ End(r[x]) <= r[y].offset
                     /\ End(r[x]) = r[y].offset => x = m /\ y = m + 1
            <4>1. End(q[x]) < q[y].offset
                BY <2>11, <2>13, <3>2 DEF InOrder
            <4>2. x \in DOMAIN q /\ y \in DOMAIN q /\ x \in Nat /\ y \in Nat
                BY <1>1, <2>11
            <4>3. End(q[x]) \in Nat /\ q[y].offset \in Nat
                BY <1>1, <1>2, <4>2
            <4>4. CASE x # i /\ y # i
                BY <2>11, <4>1, <4>2, <4>3, <4>4
            <4>5. CASE x = i
                <5>1. r[x] = b /\ r[y] = q[y] /\ y # i
                    BY <2>11, <3>2, <4>2, <4>5
                <5>2. CASE m = i - 1
                    <6>1. End(r[x]) = End(q[x])
                        BY <2>4, <2>6, <2>8, <4>5, <5>1, <5>2
                    <6>. QED
                        BY <4>1, <4>3, <5>1, <6>1
                <5>3. CASE m = i
                    <6>1. End(r[x]) = end /\ offset < q[y].offset
                        BY <2>4, <2>6, <2>8, <4>1, <4>5, <5>1, <5>3
                    <6>2. End(q[y]) <= offset \/ end <= q[y].offset
                        BY <1>7, <2>13, <3>0, <4>2
                    <6>3. end <= q[y].offset
                        <7>1. End(q[y]) >= q[y].offset
                            BY <1>1, <1>2, <4>2
                        <7>. QED
                            BY <1>1, <1>2, <4>2, <6>1, <6>2, <7>1
                    <6>4. ASSUME y # m + 1
                          PROVE  end # q[y].offset
                        <7>1. i + 1 \in DOMAIN q /\ i + 1 < y /\ i + 1 # i
                            BY <1>1, <2>4, <3>2, <4>2, <4>5, <5>3, <6>4
                        <7>2. PICK w : w = i + 1
                            OBVIOUS
                        <7>3. w \in DOMAIN q /\ w < y /\ i < w
                            BY <2>4, <7>1, <7>2
                        <7>4. End(q[w]) < q[y].offset /\ End(q[i]) < q[w].offset
                            BY <2>4, <2>13, <4>2, <7>3 DEF InOrder
                        <7>5. End(q[w]) <= offset \/ end <= q[w].offset
                            BY <1>7, <2>13, <3>0, <7>3
                        <7>6. /\ q[w].offset \in Nat /\ End(q[w]) \in Nat /\ q[w].offset <= End(q[w])
                              /\ q[y].offset \in Nat /\ End(q[i]) \in Nat
                            BY <1>1, <1>2, <2>4, <4>2, <7>3
                        <7>7. End(q[i]) = offset
                            BY <2>4, <2>6, <2>8, <5>3
                        <7>. QED
                            BY <1>4, <7>4, <7>5, <7>6, <7>7
                    <6>. QED
                        BY <4>5, <5>1, <5>3, <6>1, <6>3, <6>4
                <5>. QED
                    BY <2>8, <5>2, <5>3
            <4>6. CASE y = i
                <5>1. r[y] = b /\ r[x] = q[x] /\ x # i
                    BY <2>11, <3>2, <4>2, <4>6
                <5>2. CASE m = i
                    <6>1. r[y].offset = q[y].offset
                        BY <2>4, <2>5, <2>6, <2>8, <4>6, <5>1, <5>2
                    <6>. QED
                        BY <4>1, <4>3, <5>1, <6>1
                <5>3. CASE m = i - 1
                    <6>1. r[y].offset = offset /\ end = q[y].offset
                        BY <2>4, <2>5, <2>6, <2>8, <4>6, <5>1, <5>3
                    <6>2. End(q[x]) <= offset \/ end <= q[x].offset
                        BY <1>7, <2>13, <3>0, <4>2
                    <6>3. q[x].offset <= End(q[x]) /\ q[x].offset \in Nat
                        BY <1>1, <1>2, <4>2
                    <6>4. End(q[x]) # offset
                        BY <2>4, <3>2, <4>2, <4>6
                    <6>. QED
                        BY <1>4, <4>1, <4>3, <5>1, <6>1, <6>2, <6>3, <6>4
                <5>. QED
                    BY <2>8, <5>2, <5>3
            <4>. QED
                BY <4>4, <4>5, <4>6
        <3>. QED
            BY <3>1, <3>2 DEF InOrderBut
    <2>14. ASSUME NEW limit \in Nat, Rest(q, limit), end <= Arena
           PROVE  Rest(r, limit)
        <3>1. PICK j \in DOMAIN q : End(q[j]) = Arena /\ q[j].offset <= limit
            BY <2>14 DEF Rest
        <3>2. CASE j # i
            BY <2>11, <3>1, <3>2 DEF Rest
        <3>3. CASE j = i
            <4>1. o + z = Arena /\ o <= limit
                BY <2>5, <2>6, <3>1, <3>3
            <4>2. End(b) = Arena /\ b.offset <= limit
                BY <1>1, <1>3, <1>4, <2>6, <2>8, <2>14, <4>1
            <4>. QED
                BY <2>4, <2>11, <4>2 DEF Rest
        <3>. QED
            BY <3>2, <3>3
    <2>15. ASSUME Within(q), end <= Arena
           PROVE  Within(r)
        <3>1. End(b) <= Arena
            BY <2>4, <2>6, <2>8, <2>15 DEF Within
        <3>. QED
            BY <2>11, <2>15, <3>1 DEF Within
    <2>16. /\ t \in Seq(ABlock)
           /\ Once(t)
           /\ \A u \in Nat : FreeAt(t, u) <=> FreeAt(r, u)
           /\ InOrderBut(r, m) => InOrder(t)
           /\ Within(r) => Within(t)
           /\ \A limit \in Nat :
                Rest(r, limit) /\ Within(r) => Rest(t, limit)
        BY <2>8, <2>9, <2>11, MergedBlock
    <2>. QED
        BY <1>3, <2>12, <2>13, <2>14, <2>15, <2>16
<1>. QED
    BY <1>8, <1>9

-----------------------------------------------------------------------------
(* Loops.                                                                  *)

\* A loop of n steps, of which the ith takes a value of V[i - 1] to one of V[i].
Steps(g, n, V) == \A i \in 1 .. n : g[i] \in [V[i - 1] -> V[i]]

Values(f, init, g, n) ==
    /\ DOMAIN f = 0 .. n
    /\ f[0] = init
    /\ \A i \in 1 .. n : f[i] = g[i][f[i - 1]]

\* What holds at first and is kept by every step holds after every step.
LEMMA LoopStays ==
    ASSUME NEW n \in Nat, NEW V, NEW f, f[0] \in V[0],
           \A i \in 1 .. n : f[i - 1] \in V[i - 1] => f[i] \in V[i]
    PROVE  \A i \in 0 .. n : f[i] \in V[i]
<1>. DEFINE Bad == {i \in 0 .. n : f[i] \notin V[i]}
<1>1. SUFFICES ASSUME Bad # {}
               PROVE  FALSE
    OBVIOUS
<1>2. PICK m \in Bad : \A y \in Bad : m <= y
    <2>1. Bad \in SUBSET Nat
        OBVIOUS
    <2>. HIDE DEF Bad
    <2>. QED
        BY <1>1, <2>1, LeastNatural
<1>3. m \in 0 .. n /\ f[m] \notin V[m]
    OBVIOUS
<1>4. m # 0
    BY <1>3
<1>5. PICK k : k = m - 1
    OBVIOUS
<1>6. k \in 0 .. n /\ ~(m <= k) /\ m \in 1 .. n /\ m - 1 = k
    BY <1>3, <1>4, <1>5
<1>7. f[k] \in V[k]
    BY <1>2, <1>6
<1>. QED
    BY <1>3, <1>6, <1>7

\* The equation that defines such a loop has a solution.
LEMMA LoopHasValues ==
    ASSUME NEW n \in Nat, NEW V, NEW g, Steps(g, n, V), NEW init \in V[0]
    PROVE  \E f : Values(f, init, g, n)
<1>. DEFINE S == {m \in 0 .. n : ~\E f : Values(f, init, g, m)}
<1>1. SUFFICES ASSUME S # {}
               PROVE  FALSE
    OBVIOUS
<1>2. PICK m \in S : \A y \in S : m <= y
    <2>1. S \in SUBSET Nat
        OBVIOUS
    <2>. HIDE DEF S
    <2>. QED
        BY <1>1, <2>1, LeastNatural
<1>3. m \in 0 .. n /\ ~\E f : Values(f, init, g, m)
    OBVIOUS
<1>4. CASE m = 0
    <2>1. Values([i \in 0 .. 0 |-> init], init, g, 0)
        BY DEF Values
    <2>. QED
        BY <1>3, <1>4, <2>1
<1>5. CASE m # 0
    <2>1. PICK k : k = m - 1
        OBVIOUS
    <2>2. k \in 0 .. n /\ ~(m <= k) /\ m \in 1 .. n /\ m = k + 1 /\ k \in Nat
        BY <1>3, <1>5, <2>1
    <2>3. PICK f : Values(f, init, g, k)
        BY <1>2, <2>2
    <2>4. PICK h : h = [i \in 0 .. m |-> IF i = m THEN g[m][f[k]] ELSE f[i]]
        OBVIOUS
    <2>5. DOMAIN h = 0 .. m /\ h[0] = init
        BY <1>3, <1>5, <2>2, <2>3, <2>4 DEF Values
    <2>6. ASSUME NEW i \in 1 .. m
          PROVE  h[i] = g[i][h[i - 1]]
        <3>1. PICK j : j = i - 1
            OBVIOUS
        <3>2. j \in 0 .. k /\ j # m /\ i \in 0 .. m /\ j \in 0 .. m
            BY <2>2, <3>1
        <3>3. h[j] = f[j]
            BY <2>4, <3>2
        <3>4. CASE i = m
            BY <2>2, <2>4, <3>1, <3>2, <3>3, <3>4
        <3>5. CASE i # m
            <4>1. i \in 1 .. k /\ h[i] = f[i]
                BY <2>2, <2>4, <3>2, <3>5
            <4>. QED
                BY <2>3, <3>1, <3>3, <4>1 DEF Values
        <3>. QED
            BY <3>4, <3>5
    <2>7. Values(h, init, g, m)
        BY <2>5, <2>6 DEF Values
    <2>. QED
        BY <1>3, <2>7
<1>. QED
    BY <1>4, <1>5

-----------------------------------------------------------------------------
(* Graphs.                                                                 *)

LEMMA GraphFacts ==
    ASSUME Given
    PROVE  /\ Len(graph) \in Nat \ {0} /\ Tensors = 1 .. Len(graph) /\ Tensors \subseteq Nat
           /\ \A k \in Tensors :
                /\ graph[k].src \in Seq(Nat) /\ graph[k].op \in Ops
                /\ graph[k].out \in BOOLEAN /\ graph[k].buffer \in Buffers
                /\ Size(k) \in Nat
                /\ graph[k].root \in 0 .. k - 1 /\ k \in Nat
                /\ IsView(k) <=> graph[k].op \in {"view", "dep"}
                /\ IsView(k) => graph[k].root \in Tensors /\ graph[graph[k].root].root = 0
                /\ IsView(k) => ~graph[k].out
                /\ graph[k].op = "leaf" => graph[k].src = <<>>
                                           /\ \E s \in Tensors : k \in Range(graph[s].src)
                /\ graph[k].op = "dep" => k < Len(graph) /\ graph[k + 1].op = "copy"
                /\ graph[k].op = "copy" => k > 1 /\ graph[k - 1].op = "dep" /\ graph[k].src = <<>>
                /\ \A j \in DOMAIN graph[k].src : graph[k].src[j] \in 1 .. k - 1
                                                  /\ graph[graph[k].src[j]].op # "dep"
<1>1. IsGraph(graph) /\ batch \in Nat
    BY GraphsAssumption, BatchesAssumption DEF Given
<1>2. /\ graph # <<>>
      /\ graph \in Seq([src : Seq(Nat), op : Ops, root : Nat, out : BOOLEAN, buffer : Buffers,
                        fixed : Nat, per : Nat])
    BY <1>1 DEF IsGraph
<1>3. Len(graph) \in Nat \ {0} /\ Tensors = 1 .. Len(graph) /\ Tensors \subseteq Nat
    <2>1. Len(graph) \in Nat /\ DOMAIN graph = 1 .. Len(graph)
        BY <1>2, LenProperties
    <2>2. Len(graph) # 0
        BY <1>2, EmptySeq
    <2>. QED
        BY <2>1, <2>2 DEF Tensors
<1>4. ASSUME NEW k \in Tensors
      PROVE  graph[k] \in [src : Seq(Nat), op : Ops, root : Nat, out : BOOLEAN, buffer : Buffers,
                           fixed : Nat, per : Nat]
    BY <1>2, <1>3, ElementOfSeq
<1>5. ASSUME NEW k \in Tensors
      PROVE  /\ graph[k].src \in Seq(Nat) /\ graph[k].op \in Ops
             /\ graph[k].out \in BOOLEAN /\ graph[k].buffer \in Buffers
             /\ graph[k].fixed \in Nat /\ graph[k].per \in Nat
    BY <1>4
<1>6. \A k \in Tensors : Size(k) \in Nat
    BY <1>1, <1>5 DEF Size, SizeOf
<1>7. ASSUME NEW k \in Tensors
      PROVE  /\ \A j \in DOMAIN graph[k].src : graph[k].src[j] \in 1 .. k - 1
                                               /\ graph[graph[k].src[j]].op # "dep"
             /\ graph[k].root \in 0 .. k - 1
             /\ graph[k].op \in {"view", "dep"} <=> graph[k].root # 0
             /\ graph[k].root # 0 => graph[graph[k].root].root = 0 /\ ~graph[k].out
             /\ graph[k].op = "leaf" => graph[k].src = <<>>
                                        /\ \E s \in Tensors : k \in Range(graph[s].src)
             /\ graph[k].op = "dep" => k < Len(graph) /\ graph[k + 1].op = "copy"
             /\ graph[k].op = "copy" => k > 1 /\ graph[k - 1].op = "dep" /\ graph[k].src = <<>>
    BY <1>1 DEF IsGraph, Tensors
<1>8. \A k \in Tensors : graph[k].root # 0 => graph[k].root \in Tensors
    BY <1>3, <1>7
<1>. QED
    BY <1>3, <1>5, <1>6, <1>7, <1>8 DEF IsView

\* Roots are tensors of their own, and an output is one.
LEMMA RootFacts ==
    ASSUME Given
    PROVE  /\ Own \subseteq Tensors /\ Leafs(graph) \subseteq Own
           /\ \A k \in Tensors : Root(k) \in Own /\ Root(k) <= k /\ Root(k) \in Nat
           /\ \A k \in Own : Root(k) = k
           /\ \A k \in Tensors : IsView(k) => Root(k) # k /\ Root(k) = graph[k].root
           /\ \A k \in Tensors : graph[k].out => k \in Own
<1>1. \A k \in Tensors : Root(k) \in Own /\ Root(k) <= k /\ Root(k) \in Nat
    BY GraphFacts DEF Root, Own, IsView
<1>2. Leafs(graph) \subseteq Own
    BY GraphFacts DEF Leafs, Own, Tensors
<1>3. \A k \in Tensors : IsView(k) => Root(k) # k /\ Root(k) = graph[k].root
    BY GraphFacts DEF Root, IsView
<1>. QED
    BY <1>1, <1>2, <1>3, GraphFacts DEF Own, Root

LEMMA UsesFacts ==
    ASSUME Given
    PROVE  /\ IsFiniteSet(Uses)
           /\ \A k \in Tensors : \A j \in DOMAIN graph[k].src :
                <<k, j>> \in Uses /\ Source(<<k, j>>) = graph[k].src[j]
           /\ \A e \in Uses : /\ e[1] \in Tensors /\ e[2] \in DOMAIN graph[e[1]].src
                              /\ e = <<e[1], e[2]>>
                              /\ Source(e) = graph[e[1]].src[e[2]]
                              /\ Source(e) \in Tensors /\ Source(e) < e[1]
                              /\ graph[Source(e)].op # "dep"
<1>. DEFINE of(k) == {k} \X DOMAIN graph[k].src
            sets == {of(k) : k \in Tensors}
<1>1. \A k \in Tensors : IsFiniteSet(of(k))
    <2>1. SUFFICES ASSUME NEW k \in Tensors
                   PROVE  IsFiniteSet(of(k))
        OBVIOUS
    <2>2. Len(graph[k].src) \in Nat /\ DOMAIN graph[k].src = 1 .. Len(graph[k].src)
        BY GraphFacts, LenProperties
    <2>3. IsFiniteSet(DOMAIN graph[k].src)
        BY <2>2, FS_Interval
    <2>. QED
        BY <2>3, FS_Singleton, FS_Product
<1>2. IsFiniteSet(sets)
    <2>1. IsFiniteSet(Tensors)
        BY GraphFacts, FS_Interval
    <2>2. [k \in Tensors |-> of(k)] \in Surjection(Tensors, sets)
        BY DEF Surjection
    <2>. HIDE DEF sets
    <2>. QED
        BY <2>1, <2>2, FS_Surjection
<1>3. Uses = UNION sets
    BY DEF Uses
<1>4. IsFiniteSet(Uses)
    <2>1. \A T \in sets : IsFiniteSet(T)
        BY <1>1
    <2>. HIDE DEF sets
    <2>. QED
        BY <1>2, <1>3, <2>1, FS_UNION
<1>5. \A k \in Tensors : \A j \in DOMAIN graph[k].src :
        <<k, j>> \in Uses /\ Source(<<k, j>>) = graph[k].src[j]
    BY DEF Uses, Source
<1>6. ASSUME NEW e \in Uses
      PROVE  /\ e[1] \in Tensors /\ e[2] \in DOMAIN graph[e[1]].src
             /\ e = <<e[1], e[2]>>
    BY DEF Uses
<1>7. ASSUME NEW e \in Uses
      PROVE  /\ Source(e) = graph[e[1]].src[e[2]]
             /\ Source(e) \in Tensors /\ Source(e) < e[1]
             /\ graph[Source(e)].op # "dep"
    <2>1. PICK k, j : k = e[1] /\ j = e[2]
        OBVIOUS
    <2>2. k \in Tensors /\ j \in DOMAIN graph[k].src /\ Source(e) = graph[k].src[j]
        BY <1>6, <2>1 DEF Source
    <2>3. graph[k].src[j] \in 1 .. k - 1 /\ graph[graph[k].src[j]].op # "dep" /\ k \in 1 .. Len(graph)
        BY <2>2, GraphFacts
    <2>4. Tensors = 1 .. Len(graph) /\ Len(graph) \in Nat
        BY GraphFacts
    <2>5. \A s \in 1 .. k - 1 : s \in Tensors /\ s < k
        BY <2>3, <2>4
    <2>. QED
        BY <2>1, <2>2, <2>3, <2>5
<1>. QED
    BY <1>4, <1>5, <1>6, <1>7

\* How many are using p, and how many views of it are still needed.
LEMMA UsingFinite ==
    ASSUME Given, NEW R \in SUBSET Uses, NEW p
    PROVE  /\ IsFiniteSet(Using(R, p)) /\ Cardinality(Using(R, p)) \in Nat
           /\ IsFiniteSet(LiveViews(R, p)) /\ Cardinality(LiveViews(R, p)) \in Nat
<1>1. IsFiniteSet(Uses) /\ IsFiniteSet(Tensors)
    <2>1. IsFiniteSet(Tensors)
        BY GraphFacts, FS_Interval
    <2>. QED
        BY <2>1, UsesFacts
<1>2. Using(R, p) \in SUBSET Uses /\ LiveViews(R, p) \in SUBSET Tensors
    BY DEF Using, LiveViews
<1>. QED
    BY <1>1, <1>2, FS_Subset, FS_CardinalityType

-----------------------------------------------------------------------------
(* The rest of a buffer is large enough.                                   *)

LEMMA LargestFits ==
    ASSUME Given
    PROVE  /\ Arena \in Nat /\ Largest \in Nat
           /\ \A k \in Own : Size(k) <= Largest
           /\ Largest * Cardinality(Own) < Arena
           /\ IsFiniteSet(Own) /\ Cardinality(Own) \in Nat
<1>1. Arena \in Nat
    BY ArenaAssumption
<1>2. Own = {k \in DOMAIN graph : graph[k].root = 0}
    BY DEF Own, IsView, Tensors
<1>3. \E largest \in 0 .. Arena :
        /\ \A k \in Own : SizeOf(graph, batch, k) <= largest
        /\ largest * Cardinality(Own) < Arena
    BY <1>2, ArenaAssumption DEF Given
<1>4. \E w \in 0 .. Arena : (\A k \in Own : Size(k) <= w) /\ w * Cardinality(Own) < Arena
    BY <1>3 DEF Size
<1>5. /\ Largest \in 0 .. Arena
      /\ \A k \in Own : Size(k) <= Largest
      /\ Largest * Cardinality(Own) < Arena
    BY <1>4 DEF Largest
<1>6. IsFiniteSet(Own)
    <2>1. IsFiniteSet(Tensors)
        BY GraphFacts, FS_Interval
    <2>. QED
        BY <2>1, RootFacts, FS_Subset
<1>. QED
    BY <1>1, <1>5, <1>6, FS_CardinalityType

\* Another tensor takes no more of the rest than is reckoned for each.
LEMMA LimitGrows ==
    ASSUME Given, NEW D \in SUBSET Own, NEW k \in Own \ D,
           NEW limit, limit = Largest * Cardinality(D),
           NEW more, more = Largest * Cardinality(D \cup {k})
    PROVE  limit \in Nat /\ more \in Nat /\ limit + Size(k) <= more /\ more < Arena
<1>1. PICK w, c : w = Largest /\ c = Cardinality(D)
    OBVIOUS
<1>2. w \in Nat /\ Arena \in Nat /\ Size(k) <= w /\ Size(k) \in Nat
    BY <1>1, LargestFits, RootFacts, GraphFacts
<1>3. IsFiniteSet(D) /\ c \in Nat
    BY <1>1, LargestFits, FS_Subset, FS_CardinalityType
<1>4. Cardinality(D \cup {k}) = c + 1
    BY <1>1, <1>3, FS_AddElement
<1>5. PICK t : t = Cardinality(Own)
    OBVIOUS
<1>6. t \in Nat /\ c + 1 <= t /\ w * t < Arena
    <2>1. D \cup {k} \in SUBSET Own
        OBVIOUS
    <2>2. Cardinality(D \cup {k}) <= Cardinality(Own)
        BY <2>1, LargestFits, FS_Subset
    <2>. QED
        BY <1>1, <1>4, <1>5, <2>2, LargestFits
<1>7. limit = w * c /\ more = w * (c + 1) /\ w * (c + 1) = w * c + w
    BY <1>1, <1>2, <1>3, <1>4
<1>8. w * (c + 1) <= w * t
    BY <1>2, <1>3, <1>6
<1>9. w * c \in Nat /\ w * (c + 1) \in Nat /\ w * t \in Nat
    BY <1>2, <1>3, <1>6
<1>. QED
    BY <1>2, <1>6, <1>7, <1>8, <1>9

LEMMA RestGrows ==
    ASSUME NEW q \in Seq(ABlock), NEW limit \in Nat, NEW more \in Nat, limit <= more,
           Rest(q, limit)
    PROVE  Rest(q, more)
<1>1. PICK i \in DOMAIN q : End(q[i]) = Arena /\ q[i].offset <= limit
    BY DEF Rest
<1>2. q[i].offset \in Nat
    BY BlocksTyped
<1>. QED
    BY <1>1, <1>2 DEF Rest

-----------------------------------------------------------------------------
(* Placing a tensor, and giving its place back.                            *)

LEMMA AllocFields ==
    ASSUME NEW a, a \in AnAlloc
    PROVE  /\ \A b \in Buffers : a.blocks[b] \in Seq(ABlock) /\ a.max_size[b] \in Nat
           /\ \A k \in Tensors : /\ a.children[k] \in Nat /\ a.views[k] \in Nat
                                 /\ a.allocated[k] \in BOOLEAN
                                 /\ a.place[k] \in Buffers /\ a.offset[k] \in Nat
BY DEF AnAlloc

LEMMA PeakIs ==
    ASSUME NEW peak \in Nat, NEW offset \in Nat, NEW size \in Nat,
           NEW m, m = Peak(peak, offset, size)
    PROVE  m \in Nat /\ peak <= m /\ offset + size <= m /\ (m = peak \/ m = offset + size)
<1>1. PICK x \in {peak, offset + size} : \A y \in {peak, offset + size} : x >= y
    <2>1. CASE peak >= offset + size
        BY <2>1
    <2>2. CASE ~(peak >= offset + size)
        BY <2>2
    <2>. QED
        BY <2>1, <2>2
<1>2. m \in {peak, offset + size} /\ \A y \in {peak, offset + size} : m >= y
    BY <1>1 DEF Peak, Max
<1>. QED
    BY <1>2

LEMMA NewPlaceFields ==
    ASSUME Given, NEW a, a \in AnAlloc, NEW k, k \in Tensors, NEW b, b \in Buffers,
           NEW q, q = a.blocks[b], NEW s, s = Size(k),
           NEW i, i = BestFit(q, s), i \in DOMAIN q, NEW o, o = q[i].offset,
           NEW r, r = Taken(q, i, s), r \in Seq(ABlock),
           NEW t, t = NewPlace(a, k, b)
    PROVE  /\ t \in AnAlloc
           /\ t.blocks[b] = r /\ \A c \in Buffers : c # b => t.blocks[c] = a.blocks[c]
           /\ t.max_size[b] = Peak(a.max_size[b], o, s)
           /\ \A c \in Buffers : c # b => t.max_size[c] = a.max_size[c]
           /\ t.allocated[k] /\ t.place[k] = b /\ t.offset[k] = o
           /\ \A j \in Tensors : j # k => /\ t.allocated[j] = a.allocated[j]
                                          /\ t.place[j] = a.place[j] /\ t.offset[j] = a.offset[j]
           /\ t.children = a.children /\ t.views = a.views
<1>1. PICK x : x = Peak(a.max_size[b], o, s)
    OBVIOUS
<1>2. o \in Nat /\ s \in Nat /\ x \in Nat
    <2>1. q \in Seq(ABlock) /\ a.max_size[b] \in Nat
        BY AllocFields
    <2>2. o \in Nat /\ s \in Nat
        BY <2>1, BlocksTyped, GraphFacts
    <2>. QED
        BY <1>1, <2>1, <2>2, PeakIs
<1>3. PICK bs, ms, al, pl, os :
        /\ bs = [a.blocks EXCEPT ![b] = r] /\ ms = [a.max_size EXCEPT ![b] = x]
        /\ al = [a.allocated EXCEPT ![k] = TRUE]
        /\ pl = [a.place EXCEPT ![k] = b] /\ os = [a.offset EXCEPT ![k] = o]
    OBVIOUS
<1>4. /\ bs \in [Buffers -> Seq(ABlock)] /\ ms \in [Buffers -> Nat]
      /\ al \in [Tensors -> BOOLEAN] /\ pl \in [Tensors -> Buffers] /\ os \in [Tensors -> Nat]
    BY <1>2, <1>3 DEF AnAlloc
<1>5. t = [a EXCEPT !.blocks = bs, !.max_size = ms, !.allocated = al, !.place = pl, !.offset = os]
    <2>1. t = [a EXCEPT !.blocks[b] = r, !.max_size[b] = x,
                        !.allocated[k] = TRUE, !.place[k] = b, !.offset[k] = o]
        BY <1>1 DEF NewPlace
    <2>. QED
        BY <1>3, <2>1 DEF AnAlloc
<1>6. /\ t \in AnAlloc
      /\ t.blocks = bs /\ t.max_size = ms /\ t.allocated = al /\ t.place = pl /\ t.offset = os
      /\ t.children = a.children /\ t.views = a.views
    BY <1>4, <1>5 DEF AnAlloc
<1>7. t.blocks[b] = r /\ \A c \in Buffers : c # b => t.blocks[c] = a.blocks[c]
    BY <1>3, <1>6 DEF AnAlloc
<1>8. /\ t.max_size[b] = Peak(a.max_size[b], o, s)
      /\ \A c \in Buffers : c # b => t.max_size[c] = a.max_size[c]
    BY <1>1, <1>3, <1>6 DEF AnAlloc
<1>9. t.allocated[k] /\ \A j \in Tensors : j # k => t.allocated[j] = a.allocated[j]
    BY <1>3, <1>6 DEF AnAlloc
<1>10. /\ t.place[k] = b /\ t.offset[k] = o
       /\ \A j \in Tensors : j # k => t.place[j] = a.place[j] /\ t.offset[j] = a.offset[j]
    BY <1>3, <1>6 DEF AnAlloc
<1>. QED
    BY <1>6, <1>7, <1>8, <1>9, <1>10

\* From a to t, tensor k is placed where nothing is.
PlacedFree(t, a, D, k) ==
    /\ TileInv(t, D \cup {k})
    /\ \A j \in Tensors : j # k => /\ t.allocated[j] = a.allocated[j]
                                   /\ t.place[j] = a.place[j] /\ t.offset[j] = a.offset[j]
    /\ t.allocated[k] /\ t.children = a.children /\ t.views = a.views
    /\ \A u \in Nat : At(t, k, u) => FreeAt(a.blocks[t.place[k]], u)

\* A tensor that is placed takes free units only.
LEMMA NewPlaced ==
    ASSUME Given, NEW D, NEW a, TileInv(a, D), NEW k \in Own \ D, NEW b \in Buffers,
           NEW t, t = NewPlace(a, k, b)
    PROVE  PlacedFree(t, a, D, k)
<1>1. PICK limit, more : limit = Largest * Cardinality(D) /\ more = Largest * Cardinality(D \cup {k})
    OBVIOUS
<1>2. a \in AnAlloc /\ D \in SUBSET Own /\ k \in Tensors /\ k \in Own
    BY RootFacts DEF TileInv
<1>3. PICK s : s = Size(k)
    OBVIOUS
<1>4. s \in Nat /\ limit \in Nat /\ more \in Nat /\ limit + s <= more /\ more < Arena /\ Arena \in Nat
    <2>1. limit \in Nat /\ more \in Nat /\ limit + Size(k) <= more /\ more < Arena
        BY <1>1, <1>2, LimitGrows
    <2>. QED
        BY <1>2, <1>3, <2>1, GraphFacts, ArenaAssumption
<1>5. PICK q : q = a.blocks[b]
    OBVIOUS
<1>6. /\ q \in Seq(ABlock) /\ Once(q) /\ Rest(q, limit) /\ Within(q)
      /\ (\A j \in Own : Size(j) > 0) => InOrder(q)
    BY <1>1, <1>2, <1>5, AllocFields DEF TileInv, Blocks
<1>7. PICK i : i = BestFit(q, s)
    OBVIOUS
<1>8. limit + s < Arena
    BY <1>4
<1>9. i \in DOMAIN q /\ q[i].size >= s
    BY <1>4, <1>6, <1>7, <1>8, BestFitFits
<1>10. PICK o, z : o = q[i].offset /\ z = q[i].size
    OBVIOUS
<1>11. o \in Nat /\ z \in Nat /\ s <= z /\ q[i].size \in Nat
    BY <1>4, <1>6, <1>9, <1>10, BlocksTyped
<1>12. PICK r : r = Taken(q, i, s)
    OBVIOUS
<1>13. s <= q[i].size
    BY <1>10, <1>11
<1>14. /\ r \in Seq(ABlock)
       /\ Once(r)
       /\ \A u \in Nat : FreeAt(r, u) <=>
            /\ FreeAt(q, u)
            /\ ~(q[i].offset <= u /\ u < q[i].offset + s)
       /\ InOrder(q) => InOrder(r)
       /\ Within(q) => Within(r)
       /\ \A l \in Nat : Rest(q, l) /\ l + s < Arena => Rest(r, l + s)
    BY <1>4, <1>6, <1>9, <1>12, <1>13, TakenBlock
<1>15. Rest(r, more)
    <2>1. Rest(r, limit + s)
        BY <1>4, <1>6, <1>8, <1>14
    <2>2. limit + s \in Nat
        BY <1>4
    <2>. QED
        BY <1>4, <1>14, <2>1, <2>2, RestGrows
<1>16. /\ t \in AnAlloc
       /\ t.blocks[b] = r /\ \A c \in Buffers : c # b => t.blocks[c] = a.blocks[c]
       /\ t.max_size[b] = Peak(a.max_size[b], o, s)
       /\ \A c \in Buffers : c # b => t.max_size[c] = a.max_size[c]
       /\ t.allocated[k] /\ t.place[k] = b /\ t.offset[k] = o
       /\ \A j \in Tensors : j # k => /\ t.allocated[j] = a.allocated[j]
                                      /\ t.place[j] = a.place[j] /\ t.offset[j] = a.offset[j]
       /\ t.children = a.children /\ t.views = a.views
    <2>1. /\ a \in AnAlloc /\ k \in Tensors /\ b \in Buffers
          /\ q = a.blocks[b] /\ s = Size(k)
          /\ i = BestFit(q, s) /\ i \in DOMAIN q /\ o = q[i].offset
          /\ r = Taken(q, i, s) /\ r \in Seq(ABlock)
          /\ t = NewPlace(a, k, b)
        BY <1>2, <1>3, <1>5, <1>7, <1>9, <1>10, <1>12, <1>14
    <2>2. /\ t \in AnAlloc
          /\ t.blocks[b] = r /\ \A c \in Buffers : c # b => t.blocks[c] = a.blocks[c]
        BY <2>1, NewPlaceFields
    <2>3. /\ t.max_size[b] = Peak(a.max_size[b], o, s)
          /\ \A c \in Buffers : c # b => t.max_size[c] = a.max_size[c]
        BY <2>1, NewPlaceFields
    <2>4. /\ t.allocated[k] /\ t.place[k] = b /\ t.offset[k] = o
          /\ t.children = a.children /\ t.views = a.views
        BY <2>1, NewPlaceFields
    <2>5. \A j \in Tensors : j # k => /\ t.allocated[j] = a.allocated[j]
                                      /\ t.place[j] = a.place[j] /\ t.offset[j] = a.offset[j]
        BY <2>1, NewPlaceFields
    <2>. QED
        BY <1>3, <2>2, <2>3, <2>4, <2>5
\* The units of the new tensor were free, and are no longer.
<1>17. \A u \in Nat : At(t, k, u) <=> o <= u /\ u < o + s
    BY <1>3, <1>16 DEF At
<1>18. \A u \in Nat : At(t, k, u) => FreeAt(q, u)
    <2>1. ASSUME NEW u \in Nat, o <= u, u < o + s
          PROVE  FreeAt(q, u)
        <3>1. In(q[i], u)
            BY <1>4, <1>10, <1>11, <2>1 DEF In, End
        <3>. QED
            BY <1>9, <3>1 DEF FreeAt
    <2>. QED
        BY <1>17, <2>1
<1>19. \A u \in Nat : FreeAt(r, u) <=> FreeAt(q, u) /\ ~At(t, k, u)
    BY <1>10, <1>14, <1>17
<1>20. \A j \in Tensors : j # k => \A u \in Nat : At(t, j, u) <=> At(a, j, u)
    BY <1>16 DEF At
<1>21. ~a.allocated[k]
    BY <1>2 DEF TileInv
<1>22. Blocks(t, D \cup {k})
    <2>1. ASSUME NEW c \in Buffers
          PROVE  /\ Once(t.blocks[c]) /\ Rest(t.blocks[c], more) /\ Within(t.blocks[c])
                 /\ (\A j \in Own : Size(j) > 0) => InOrder(t.blocks[c])
        <3>1. CASE c = b
            BY <1>6, <1>14, <1>15, <1>16, <3>1
        <3>2. CASE c # b
            <4>1. /\ Once(a.blocks[c]) /\ Rest(a.blocks[c], limit) /\ Within(a.blocks[c])
                  /\ (\A j \in Own : Size(j) > 0) => InOrder(a.blocks[c])
                BY <1>1 DEF TileInv, Blocks
            <4>2. limit <= more
                BY <1>4
            <4>3. Rest(a.blocks[c], more)
                BY <1>2, <1>4, <4>1, <4>2, AllocFields, RestGrows
            <4>. QED
                BY <1>16, <3>2, <4>1, <4>3
        <3>. QED
            BY <3>1, <3>2
    <2>. QED
        BY <1>1, <2>1 DEF Blocks
<1>23. Peaks(t, D \cup {k})
    <2>1. PICK m : m = t.max_size[b]
        OBVIOUS
    <2>2. PICK p : p = a.max_size[b]
        OBVIOUS
    <2>3. p \in Nat /\ p <= Arena
        BY <1>2, <2>2, AllocFields DEF TileInv, Peaks
    <2>4. m \in Nat /\ p <= m /\ o + s <= m /\ (m = p \/ m = o + s)
        <3>1. m = Peak(p, o, s) /\ p \in Nat /\ o \in Nat /\ s \in Nat
            BY <1>4, <1>11, <1>16, <2>1, <2>2, <2>3
        <3>. QED
            BY <3>1, PeakIs
    <2>5. o + s <= Arena
        <3>1. End(q[i]) <= Arena /\ End(q[i]) = o + z
            BY <1>6, <1>9, <1>10 DEF Within, End
        <3>. QED
            BY <1>4, <1>11, <3>1
    <2>6. m <= Arena
        BY <2>3, <2>4, <2>5
    <2>7. \A c \in Buffers : t.max_size[c] <= Arena /\ a.max_size[c] <= t.max_size[c]
        <3>1. \A c \in Buffers : a.max_size[c] <= Arena /\ a.max_size[c] \in Nat
            BY <1>2, AllocFields DEF TileInv, Peaks
        <3>. QED
            BY <1>16, <2>1, <2>2, <2>4, <2>6, <3>1
    <2>8. ASSUME NEW j \in D \cup {k}
          PROVE  t.offset[j] + Size(j) <= t.max_size[t.place[j]]
        <3>1. CASE j = k
            BY <1>3, <1>16, <2>1, <2>4, <3>1
        <3>2. CASE j # k
            <4>1. j \in D /\ j \in Tensors
                BY <1>2, <3>2, RootFacts
            <4>2. /\ a.offset[j] + Size(j) <= a.max_size[a.place[j]]
                  /\ a.place[j] \in Buffers /\ a.offset[j] \in Nat /\ Size(j) \in Nat
                BY <1>2, <4>1, AllocFields, GraphFacts DEF TileInv, Peaks
            <4>3. /\ a.max_size[a.place[j]] \in Nat /\ t.max_size[a.place[j]] \in Nat
                BY <1>2, <1>16, <4>2, AllocFields
            <4>. QED
                BY <1>16, <2>7, <3>2, <4>1, <4>2, <4>3
        <3>. QED
            BY <3>1, <3>2
    <2>. QED
        BY <2>7, <2>8 DEF Peaks
<1>24. Tiles(t)
    <2>1. ASSUME NEW c \in Buffers, NEW u \in 0 .. Arena - 1
          PROVE  FreeAt(t.blocks[c], u)
                 \/ \E j \in Tensors : t.allocated[j] /\ t.place[j] = c /\ At(t, j, u)
        <3>0. u \in Nat
            BY <1>4
        <3>1. CASE FreeAt(a.blocks[c], u)
            BY <1>2, <1>5, <1>16, <1>19, <3>0, <3>1
        <3>2. CASE \E j \in Tensors : a.allocated[j] /\ a.place[j] = c /\ At(a, j, u)
            BY <1>16, <1>20, <1>21, <3>0, <3>2
        <3>. QED
            BY <3>1, <3>2 DEF TileInv, Tiles
    <2>2. ASSUME NEW j \in Tensors, t.allocated[j], NEW u \in Nat, At(t, j, u)
          PROVE  ~FreeAt(t.blocks[t.place[j]], u)
        <3>1. CASE j = k
            BY <1>16, <1>19, <2>2, <3>1
        <3>2. CASE j # k
            <4>1. a.allocated[j] /\ At(a, j, u) /\ t.place[j] = a.place[j] /\ a.place[j] \in Buffers
                BY <1>2, <1>16, <1>20, <2>2, <3>2, AllocFields
            <4>2. ~FreeAt(a.blocks[a.place[j]], u)
                BY <4>1 DEF TileInv, Tiles
            <4>3. CASE a.place[j] = b
                BY <1>5, <1>16, <1>19, <4>1, <4>2, <4>3
            <4>4. CASE a.place[j] # b
                BY <1>16, <4>1, <4>2, <4>4
            <4>. QED
                BY <4>3, <4>4
        <3>. QED
            BY <3>1, <3>2
    <2>3. ASSUME NEW j \in Tensors, a.allocated[j], j # k, NEW u \in Nat, At(t, j, u), At(t, k, u),
                 t.place[j] = b
          PROVE  FALSE
        <3>1. At(a, j, u) /\ a.place[j] = b
            BY <1>16, <1>20, <2>3
        <3>2. ~FreeAt(q, u)
            BY <1>5, <2>3, <3>1 DEF TileInv, Tiles
        <3>. QED
            BY <1>18, <2>3, <3>2
    <2>4. ASSUME NEW j \in Tensors, NEW l \in Tensors, t.allocated[j], t.allocated[l],
                 Clash(t, j, l), j # l
          PROVE  FALSE
        <3>1. PICK u \in Nat : At(t, j, u) /\ At(t, l, u) /\ t.place[j] = t.place[l]
            BY <2>4 DEF Clash
        <3>2. j # k
            BY <1>16, <2>3, <2>4, <3>1
        <3>3. l # k
            BY <1>16, <2>3, <2>4, <3>1
        <3>4. a.allocated[j] /\ a.allocated[l] /\ a.place[j] = a.place[l] /\ At(a, j, u) /\ At(a, l, u)
            BY <1>16, <1>20, <2>4, <3>1, <3>2, <3>3
        <3>. QED
            BY <2>4, <3>4 DEF TileInv, Tiles, Clash
    <2>. QED
        BY <2>1, <2>2, <2>4 DEF Tiles
<1>25. \A j \in Tensors : t.allocated[j] => j \in D \cup {k}
    BY <1>16 DEF TileInv
<1>26. TileInv(t, D \cup {k})
    BY <1>2, <1>16, <1>22, <1>23, <1>24, <1>25 DEF TileInv
<1>. QED
    BY <1>5, <1>16, <1>18, <1>26 DEF PlacedFree

\* From a to t, tensor k is placed where p was.
PlacedOver(t, a, D, k, p) ==
    /\ TileInv(t, D \cup {k})
    /\ \A j \in Tensors : j # k => t.place[j] = a.place[j] /\ t.offset[j] = a.offset[j]
    /\ \A j \in Tensors : j # k /\ j # p => t.allocated[j] = a.allocated[j]
    /\ t.allocated[k] /\ t.children = a.children /\ t.views = a.views
    /\ t.place[k] = a.place[p] /\ t.offset[k] = a.offset[p]

\* Tensor k takes the place of p, which is as large.
LEMMA ReusedPlaced ==
    ASSUME Given, NEW D, NEW a, TileInv(a, D), NEW k \in Own \ D,
           NEW p \in D, a.allocated[p], Size(k) = Size(p),
           NEW t, t = Reused(a, k, p)
    PROVE  PlacedOver(t, a, D, k, p)
<1>1. PICK limit, more : limit = Largest * Cardinality(D) /\ more = Largest * Cardinality(D \cup {k})
    OBVIOUS
<1>2. a \in AnAlloc /\ D \in SUBSET Own /\ k \in Tensors /\ k \in Own /\ p \in Tensors /\ p # k
    BY RootFacts DEF TileInv
<1>3. limit \in Nat /\ more \in Nat /\ limit <= more
    <2>1. limit \in Nat /\ more \in Nat /\ limit + Size(k) <= more /\ Size(k) \in Nat
        BY <1>1, <1>2, LimitGrows, GraphFacts
    <2>. QED
        BY <2>1
<1>4. a.place[p] \in Buffers /\ a.offset[p] \in Nat
    BY <1>2, AllocFields
<1>5. t \in AnAlloc
    BY <1>2, <1>4 DEF Reused, AnAlloc
<1>6. /\ t.blocks = a.blocks /\ t.max_size = a.max_size
      /\ t.allocated = [a.allocated EXCEPT ![k] = TRUE, ![p] = FALSE]
      /\ t.place = [a.place EXCEPT ![k] = a.place[p]]
      /\ t.offset = [a.offset EXCEPT ![k] = a.offset[p]]
      /\ t.children = a.children /\ t.views = a.views
    BY <1>2 DEF Reused, AnAlloc
<1>7. /\ \A j \in Tensors : j # k => t.place[j] = a.place[j] /\ t.offset[j] = a.offset[j]
      /\ \A j \in Tensors : j # k /\ j # p => t.allocated[j] = a.allocated[j]
      /\ t.allocated[k] /\ ~t.allocated[p]
      /\ t.place[k] = a.place[p] /\ t.offset[k] = a.offset[p]
    BY <1>2, <1>6 DEF AnAlloc
<1>8. \A j \in Tensors : j # k => \A u \in Nat : At(t, j, u) <=> At(a, j, u)
    BY <1>7 DEF At
<1>9. \A u \in Nat : At(t, k, u) <=> At(a, p, u)
    BY <1>7 DEF At
<1>10. ~a.allocated[k]
    BY <1>2 DEF TileInv
<1>11. Blocks(t, D \cup {k})
    <2>1. ASSUME NEW b \in Buffers
          PROVE  Rest(t.blocks[b], more)
        <3>1. Rest(a.blocks[b], limit)
            BY <1>1 DEF TileInv, Blocks
        <3>. QED
            BY <1>2, <1>3, <1>6, <3>1, AllocFields, RestGrows
    <2>. QED
        BY <1>1, <1>6, <2>1 DEF Blocks, TileInv
<1>12. Peaks(t, D \cup {k})
    BY <1>2, <1>6, <1>7, RootFacts DEF Peaks, TileInv
<1>13. Tiles(t)
    <2>1. ASSUME NEW b \in Buffers, NEW u \in 0 .. Arena - 1
          PROVE  FreeAt(t.blocks[b], u)
                 \/ \E j \in Tensors : t.allocated[j] /\ t.place[j] = b /\ At(t, j, u)
        <3>0. u \in Nat
            BY ArenaAssumption
        <3>1. CASE FreeAt(a.blocks[b], u)
            BY <1>6, <3>1
        <3>2. CASE \E j \in Tensors : a.allocated[j] /\ a.place[j] = b /\ At(a, j, u)
            <4>1. PICK j \in Tensors : a.allocated[j] /\ a.place[j] = b /\ At(a, j, u)
                BY <3>2
            <4>2. CASE j = p
                BY <1>2, <1>7, <1>9, <3>0, <4>1, <4>2
            <4>3. CASE j # p
                BY <1>7, <1>8, <1>10, <3>0, <4>1, <4>3
            <4>. QED
                BY <4>2, <4>3
        <3>. QED
            BY <3>1, <3>2 DEF TileInv, Tiles
    \* The tensor that had what j has now.
    <2>. DEFINE had(j) == IF j = k THEN p ELSE j
    <2>2. ASSUME NEW j \in Tensors, t.allocated[j]
          PROVE  /\ had(j) \in Tensors /\ a.allocated[had(j)] /\ t.place[j] = a.place[had(j)]
                 /\ \A u \in Nat : At(t, j, u) <=> At(a, had(j), u)
        <3>1. CASE j = k
            BY <1>2, <1>7, <1>9, <3>1
        <3>2. CASE j # k
            BY <1>7, <1>8, <2>2, <3>2
        <3>. QED
            BY <3>1, <3>2
    <2>3. \A j, l \in Tensors : t.allocated[j] /\ t.allocated[l] /\ had(j) = had(l) => j = l
        BY <1>7
    <2>. HIDE DEF had
    <2>4. ASSUME NEW j \in Tensors, t.allocated[j], NEW u \in Nat, At(t, j, u)
          PROVE  ~FreeAt(t.blocks[t.place[j]], u)
        BY <1>6, <2>2, <2>4 DEF TileInv, Tiles
    <2>5. ASSUME NEW j \in Tensors, NEW l \in Tensors, t.allocated[j], t.allocated[l], Clash(t, j, l)
          PROVE  j = l
        <3>1. Clash(a, had(j), had(l))
            BY <2>2, <2>5 DEF Clash
        <3>2. had(j) = had(l)
            BY <2>2, <2>5, <3>1 DEF TileInv, Tiles
        <3>. QED
            BY <2>3, <2>5, <3>2
    <2>. QED
        BY <2>1, <2>4, <2>5 DEF Tiles
<1>14. \A j \in Tensors : t.allocated[j] => j \in D \cup {k}
    BY <1>7 DEF TileInv
<1>15. TileInv(t, D \cup {k})
    BY <1>2, <1>5, <1>11, <1>12, <1>13, <1>14 DEF TileInv
<1>. QED
    BY <1>6, <1>7, <1>15 DEF PlacedOver

\* A place that is given back is free, and nothing else changes.
LEMMA FreedPlaced ==
    ASSUME Given, NEW D, NEW a, TileInv(a, D), NEW k \in Tensors, a.allocated[k],
           NEW t, t = Freed(a, k)
    PROVE  /\ TileInv(t, D)
           /\ t.place = a.place /\ t.offset = a.offset
           /\ t.children = a.children /\ t.views = a.views
           /\ \A j \in Tensors : j # k \/ graph[k].out => t.allocated[j] = a.allocated[j]
<1>1. CASE graph[k].out
    BY <1>1 DEF Freed
<1>2. CASE ~graph[k].out
    <2>1. a \in AnAlloc /\ D \subseteq Own /\ k \in D
        BY DEF TileInv
    <2>2. PICK b, o, s, q : b = a.place[k] /\ o = a.offset[k] /\ s = Size(k) /\ q = a.blocks[b]
        OBVIOUS
    <2>3. b \in Buffers /\ o \in Nat /\ s \in Nat /\ q \in Seq(ABlock) /\ Arena \in Nat
        BY <2>1, <2>2, AllocFields, GraphFacts, ArenaAssumption
    <2>4. \A u \in Nat : At(a, k, u) <=> o <= u /\ u < o + s
        BY <2>2 DEF At
    <2>5. PICK limit : limit = Largest * Cardinality(D)
        OBVIOUS
    <2>6. limit \in Nat
        BY <2>1, <2>5, LargestFits, FS_Subset, FS_CardinalityType
    <2>7. Once(q) /\ Within(q) /\ Rest(q, limit) /\ ((\A j \in Own : Size(j) > 0) => InOrder(q))
        BY <2>2, <2>3, <2>5 DEF TileInv, Blocks
    <2>8. \A u \in Nat : o <= u /\ u < o + s => ~FreeAt(q, u)
        BY <2>2, <2>4 DEF TileInv, Tiles
    <2>9. o + s <= Arena
        <3>1. o + s <= a.max_size[b] /\ a.max_size[b] <= Arena /\ a.max_size[b] \in Nat
            BY <2>1, <2>2, <2>3, AllocFields DEF TileInv, Peaks
        <3>. QED
            BY <2>3, <3>1
    <2>10. PICK r : r = GivenBack(q, o, s)
        OBVIOUS
    <2>11. /\ r \in Seq(ABlock)
           /\ Once(r)
           /\ \A u \in Nat : FreeAt(r, u) <=> FreeAt(q, u) \/ (o <= u /\ u < o + s)
           /\ InOrder(q) /\ s > 0 => InOrder(r)
           /\ Within(q) /\ o + s <= Arena =>
                Within(r) /\ \A l \in Nat : Rest(q, l) => Rest(r, l)
        BY <2>3, <2>7, <2>8, <2>10, GivenBackBlock
    <2>12. Within(r) /\ Rest(r, limit)
        BY <2>6, <2>7, <2>9, <2>11
    <2>13. \A u \in Nat : FreeAt(r, u) <=> FreeAt(q, u) \/ At(a, k, u)
        BY <2>4, <2>11
    <2>14. PICK bs, al : bs = [a.blocks EXCEPT ![b] = r] /\ al = [a.allocated EXCEPT ![k] = FALSE]
        OBVIOUS
    <2>15. t = [a EXCEPT !.blocks = bs, !.allocated = al]
        <3>1. t = [a EXCEPT !.blocks[b] = r, !.allocated[k] = FALSE]
            BY <1>2, <2>1, <2>2, <2>10 DEF Freed, AnAlloc
        <3>. QED
            BY <2>1, <2>14, <3>1 DEF AnAlloc
    <2>16. /\ t \in AnAlloc
           /\ t.blocks = [a.blocks EXCEPT ![b] = r] /\ t.max_size = a.max_size
           /\ t.allocated = [a.allocated EXCEPT ![k] = FALSE]
           /\ t.place = a.place /\ t.offset = a.offset
           /\ t.children = a.children /\ t.views = a.views
        <3>1. bs \in [Buffers -> Seq(ABlock)] /\ al \in [Tensors -> BOOLEAN]
            BY <2>1, <2>3, <2>11, <2>14 DEF AnAlloc
        <3>. QED
            BY <2>1, <2>14, <2>15, <3>1 DEF AnAlloc
    <2>17. /\ t.blocks[b] = r /\ \A c \in Buffers : c # b => t.blocks[c] = a.blocks[c]
           /\ ~t.allocated[k] /\ \A j \in Tensors : j # k => t.allocated[j] = a.allocated[j]
        BY <2>1, <2>3, <2>16 DEF AnAlloc
    <2>18. \A j : \A u : At(t, j, u) <=> At(a, j, u)
        BY <2>16 DEF At
    <2>19. Blocks(t, D)
        <3>1. ASSUME NEW c \in Buffers
              PROVE  /\ Once(t.blocks[c]) /\ Rest(t.blocks[c], limit) /\ Within(t.blocks[c])
                     /\ (\A j \in Own : Size(j) > 0) => InOrder(t.blocks[c])
            <4>1. CASE c = b
                <5>1. (\A j \in Own : Size(j) > 0) => s > 0
                    BY <2>1, <2>2
                <5>. QED
                    BY <2>7, <2>11, <2>12, <2>17, <4>1, <5>1
            <4>2. CASE c # b
                BY <2>5, <2>17, <4>2 DEF TileInv, Blocks
            <4>. QED
                BY <4>1, <4>2
        <3>. QED
            BY <2>5, <3>1 DEF Blocks
    <2>20. Peaks(t, D)
        BY <2>16 DEF Peaks, TileInv
    <2>21. Tiles(t)
        <3>1. ASSUME NEW c \in Buffers, NEW u \in 0 .. Arena - 1
              PROVE  FreeAt(t.blocks[c], u)
                     \/ \E j \in Tensors : t.allocated[j] /\ t.place[j] = c /\ At(t, j, u)
            <4>0. u \in Nat
                BY <2>3
            <4>1. CASE FreeAt(a.blocks[c], u)
                BY <2>2, <2>13, <2>17, <4>0, <4>1
            <4>2. CASE \E j \in Tensors : a.allocated[j] /\ a.place[j] = c /\ At(a, j, u)
                <5>1. PICK j \in Tensors : a.allocated[j] /\ a.place[j] = c /\ At(a, j, u)
                    BY <4>2
                <5>2. CASE j = k
                    BY <2>2, <2>13, <2>17, <4>0, <5>1, <5>2
                <5>3. CASE j # k
                    BY <2>16, <2>17, <2>18, <5>1, <5>3
                <5>. QED
                    BY <5>2, <5>3
            <4>. QED
                BY <4>1, <4>2 DEF TileInv, Tiles
        <3>2. ASSUME NEW j \in Tensors, t.allocated[j], NEW u \in Nat, At(t, j, u)
              PROVE  ~FreeAt(t.blocks[t.place[j]], u)
            <4>1. j # k /\ a.allocated[j] /\ At(a, j, u) /\ t.place[j] = a.place[j]
                BY <2>16, <2>17, <2>18, <3>2
            <4>2. ~FreeAt(a.blocks[a.place[j]], u)
                BY <4>1 DEF TileInv, Tiles
            <4>3. a.place[j] \in Buffers
                BY <2>1, AllocFields
            <4>4. CASE a.place[j] = b
                <5>1. ~At(a, k, u)
                    BY <2>2, <4>1, <4>4 DEF TileInv, Tiles, Clash
                <5>. QED
                    BY <2>2, <2>13, <2>17, <4>1, <4>2, <4>4, <5>1
            <4>5. CASE a.place[j] # b
                BY <2>17, <4>1, <4>2, <4>3, <4>5
            <4>. QED
                BY <4>4, <4>5
        <3>3. ASSUME NEW j \in Tensors, NEW l \in Tensors, t.allocated[j], t.allocated[l],
                     Clash(t, j, l)
              PROVE  j = l
            <4>1. a.allocated[j] /\ a.allocated[l] /\ Clash(a, j, l)
                BY <2>16, <2>17, <2>18, <3>3 DEF Clash
            <4>. QED
                BY <4>1 DEF TileInv, Tiles
        <3>. QED
            BY <3>1, <3>2, <3>3 DEF Tiles
    <2>22. TileInv(t, D)
        <3>1. \A j \in Tensors : t.allocated[j] => j \in D
            BY <2>17 DEF TileInv
        <3>. QED
            BY <2>1, <2>16, <2>19, <2>20, <2>21, <3>1 DEF TileInv
    <2>. QED
        BY <1>2, <2>16, <2>17, <2>22
<1>. QED
    BY <1>1, <1>2

-----------------------------------------------------------------------------
(* Who needs a tensor, from one node to the next.                          *)

LEMMA PlacedGrows ==
    ASSUME Given, NEW m \in Tensors
    PROVE  /\ m \in Own /\ m \notin Leafs(graph) =>
                PlacedBefore(m + 1) = PlacedBefore(m) \cup {m} /\ m \notin PlacedBefore(m)
           /\ m \notin Own \/ m \in Leafs(graph) => PlacedBefore(m + 1) = PlacedBefore(m)
           /\ PlacedBefore(m) \subseteq Own
<1>1. /\ \A k \in Own : k \in Nat
      /\ m \in Nat
      /\ Leafs(graph) \subseteq Own
    BY GraphFacts, RootFacts
<1>2. \A k \in Own : k < m + 1 <=> k < m \/ k = m
    BY <1>1
<1>. QED
    BY <1>1, <1>2 DEF PlacedBefore, Before

LEMMA FromShrinks ==
    ASSUME Given, NEW m \in Tensors
    PROVE  /\ From(m) \in SUBSET Uses /\ From(m + 1) \in SUBSET From(m)
           /\ \A e \in Uses : e \in From(m + 1) <=> e[1] > m
           /\ UsesLeft(m, 0) = From(m)
           /\ \A j : UsesLeft(m, j) \in SUBSET Uses /\ From(m + 1) \in SUBSET UsesLeft(m, j)
<1>1. /\ m \in Nat
      /\ \A e \in Uses : e[1] \in Nat /\ e[2] \in Nat /\ e[2] > 0
    <2>1. ASSUME NEW e \in Uses
          PROVE  e[1] \in Nat /\ e[2] \in Nat /\ e[2] > 0
        <3>1. e[1] \in Tensors /\ e[2] \in DOMAIN graph[e[1]].src
            BY UsesFacts
        <3>2. DOMAIN graph[e[1]].src = 1 .. Len(graph[e[1]].src) /\ Len(graph[e[1]].src) \in Nat
            BY <3>1, GraphFacts, LenProperties
        <3>. QED
            BY <3>1, <3>2, GraphFacts
    <2>. QED
        BY <2>1, GraphFacts
<1>2. \A e \in Uses : e[1] >= m + 1 <=> e[1] > m
    BY <1>1
<1>3. \A e \in Uses : e[1] > m \/ (e[1] = m /\ e[2] > 0) <=> e[1] >= m
    BY <1>1
<1>. QED
    BY <1>1, <1>2, <1>3 DEF From, UsesLeft

LEMMA HeldGrows ==
    ASSUME NEW R, NEW F \in SUBSET R, NEW p
    PROVE  /\ Using(F, p) \subseteq Using(R, p)
           /\ LiveViews(F, p) \subseteq LiveViews(R, p)
           /\ Held(F, p) => Held(R, p)
<1>1. \A q : Using(F, q) \subseteq Using(R, q)
    BY DEF Using
<1>2. LiveViews(F, p) \subseteq LiveViews(R, p)
    BY <1>1 DEF LiveViews
<1>. QED
    BY <1>1, <1>2 DEF Held

\* Nothing that is needed after node m goes before it.
LEMMA NeededHeld ==
    ASSUME Given, NEW m \in Own, NEW p \in PlacedBefore(m), Needed(p, m)
    PROVE  Held(From(m + 1), p)
<1>1. m \in Tensors /\ p \in Tensors /\ p \in Own /\ graph[m].op # "dep" /\ ~IsView(m)
    BY GraphFacts, RootFacts DEF Own, PlacedBefore
<1>2. PICK n : n = Len(graph)
    OBVIOUS
<1>3. n \in Nat /\ n \in Tensors /\ \A k \in Tensors : k \in 1 .. n
    BY <1>2, GraphFacts
<1>4. \A e \in Uses : Source(e) # n
    <2>1. ASSUME NEW e \in Uses, Source(e) = n
          PROVE  FALSE
        <3>1. e[1] \in 1 .. n /\ Source(e) < e[1]
            BY <1>3, UsesFacts
        <3>. QED
            BY <1>3, <2>1, <3>1
    <2>. QED
        BY <2>1
<1>5. CASE graph[p].out
    BY <1>5 DEF Held
<1>6. CASE p = Root(n)
    <2>1. CASE IsView(n)
        <3>1. graph[n].op = "view" /\ graph[n].root = p
            <4>1. graph[n].op # "dep"
                BY <1>2, <1>3, GraphFacts
            <4>. QED
                BY <1>3, <1>6, <2>1, <4>1, GraphFacts, RootFacts
        <3>2. Using(Uses, n) = {}
            BY <1>4 DEF Using
        <3>3. n \in LiveViews(From(m + 1), p)
            BY <1>3, <3>1, <3>2 DEF LiveViews
        <3>. QED
            BY <3>3 DEF Held
    <2>2. CASE ~IsView(n)
        <3>1. p = n
            BY <1>6, <2>2 DEF Root
        <3>2. ~(n < m)
            BY <1>1, <1>3
        <3>3. n \notin Leafs(graph)
            <4>1. SUFFICES ASSUME n \in Leafs(graph)
                           PROVE  FALSE
                OBVIOUS
            <4>2. PICK s \in Tensors : n \in Range(graph[s].src)
                BY <1>3, <4>1, GraphFacts DEF Leafs
            <4>3. PICK j \in DOMAIN graph[s].src : graph[s].src[j] = n
                BY <4>2 DEF Range
            <4>4. <<s, j>> \in Uses /\ Source(<<s, j>>) = n
                BY <4>3, UsesFacts
            <4>. QED
                BY <1>4, <4>4
        <3>. QED
            BY <3>1, <3>2, <3>3 DEF PlacedBefore, Before
    <2>. QED
        BY <2>1, <2>2
<1>7. CASE \E e \in Uses : (e[1] > m \/ (e[1] = m /\ graph[m].op = "dep")) /\ Root(Source(e)) = p
    <2>1. PICK e \in Uses : e[1] > m /\ Root(Source(e)) = p
        BY <1>1, <1>7
    <2>2. PICK v : v = Source(e)
        OBVIOUS
    <2>3. v \in Tensors /\ graph[v].op # "dep" /\ e \in From(m + 1)
        BY <1>1, <2>1, <2>2, UsesFacts, FromShrinks
    <2>4. e \in Using(From(m + 1), v)
        BY <2>2, <2>3 DEF Using
    <2>5. CASE IsView(v)
        <3>1. graph[v].op = "view" /\ graph[v].root = p
            BY <2>1, <2>2, <2>3, <2>5, GraphFacts, RootFacts
        <3>2. v \in LiveViews(From(m + 1), p)
            BY <2>3, <2>4, <3>1 DEF LiveViews
        <3>. QED
            BY <3>2 DEF Held
    <2>6. CASE ~IsView(v)
        BY <2>1, <2>2, <2>4, <2>6 DEF Held, Root
    <2>. QED
        BY <2>5, <2>6
<1>. QED
    BY <1>2, <1>5, <1>6, <1>7 DEF Needed

\* A source that is read once more, by node m, and has no views is not held behind m.
LEMMA LastReader ==
    ASSUME Given, NEW m \in Tensors, NEW j \in DOMAIN graph[m].src,
           NEW p, p = graph[m].src[j], ~graph[p].out,
           NEW a, CountInv(a, From(m)), a.children[p] = 1, a.views[p] = 0
    PROVE  ~Held(From(m + 1), p)
<1>1. PICK e : e = <<m, j>>
    OBVIOUS
<1>2. e \in Uses /\ Source(e) = p /\ e[1] = m /\ p \in Tensors /\ m \in Nat
    BY <1>1, UsesFacts, GraphFacts
<1>3. From(m) \in SUBSET Uses /\ From(m + 1) \in SUBSET From(m) /\ e \in From(m) /\ e \notin From(m + 1)
    BY <1>2, FromShrinks DEF From
<1>4. Cardinality(Using(From(m), p)) = 1 /\ Cardinality(LiveViews(From(m), p)) = 0
    BY <1>2 DEF CountInv
<1>5. IsFiniteSet(Using(From(m), p)) /\ IsFiniteSet(LiveViews(From(m), p))
    BY <1>3, UsingFinite
<1>6. PICK x : Using(From(m), p) = {x}
    BY <1>4, <1>5, FS_Singleton
<1>7. e \in Using(From(m), p)
    BY <1>2, <1>3 DEF Using
<1>8. LiveViews(From(m), p) = {}
    BY <1>4, <1>5, FS_EmptySet
<1>9. Using(From(m + 1), p) \subseteq Using(From(m), p) /\ LiveViews(From(m + 1), p) = {}
    <2>1. PICK R, F : R = From(m) /\ F = From(m + 1)
        OBVIOUS
    <2>2. F \in SUBSET R
        BY <1>3, <2>1
    <2>3. LiveViews(F, p) \subseteq LiveViews(R, p)
        BY <2>2, HeldGrows
    <2>4. Using(F, p) \subseteq Using(R, p)
        BY <2>2, HeldGrows
    <2>. QED
        BY <1>8, <2>1, <2>3, <2>4
<1>10. e \notin Using(From(m + 1), p)
    BY <1>3 DEF Using
<1>. QED
    BY <1>6, <1>7, <1>9, <1>10 DEF Held

-----------------------------------------------------------------------------
(* The turn of a node.                                                     *)

\* The parents of a node are placed already.
LEMMA ParentsThere ==
    ASSUME Given, NEW m \in Tensors, NEW a, Planned(a, m), NEW j \in DOMAIN graph[m].src, NEW b
    PROVE  Allocated(a, graph[m].src[j], b) = a
<1>1. PICK p, e : p = graph[m].src[j] /\ e = <<m, j>>
    OBVIOUS
<1>2. e \in Uses /\ Source(e) = p /\ e[1] = m /\ p \in Tensors /\ m \in Nat /\ p < m
    BY <1>1, UsesFacts, GraphFacts
<1>3. CASE IsView(p)
    BY <1>1, <1>3 DEF Allocated
<1>4. CASE ~IsView(p)
    <2>1. p \in PlacedBefore(m)
        BY <1>2, <1>4 DEF PlacedBefore, Before, Own
    <2>2. e \in Using(From(m), p)
        BY <1>2 DEF Using, From
    <2>3. a.allocated[p]
        BY <2>1, <2>2 DEF Planned, KeptInv, Held
    <2>. QED
        BY <1>1, <2>3 DEF Allocated
<1>. QED
    BY <1>3, <1>4

\* Node m is placed where nothing is that is still needed behind it.
LEMMA PlacedApart ==
    ASSUME Given, NEW m \in Own, m \notin Leafs(graph), NEW a, Planned(a, m),
           NEW t, \A j \in Tensors : j # m => t.place[j] = a.place[j] /\ t.offset[j] = a.offset[j],
           \A p \in PlacedBefore(m) : Clash(t, p, m) => ~Needed(p, m)
    PROVE  ApartInv(t, PlacedBefore(m + 1))
<1>1. m \in Tensors /\ PlacedBefore(m + 1) = PlacedBefore(m) \cup {m} /\ m \notin PlacedBefore(m)
    BY PlacedGrows, RootFacts
<1>2. PlacedBefore(m) \subseteq Tensors
    BY RootFacts DEF PlacedBefore
<1>3. ASSUME NEW p \in PlacedBefore(m), NEW w \in PlacedBefore(m), Clash(t, p, w)
      PROVE  Clash(a, p, w)
    BY <1>1, <1>2, <1>3 DEF Clash, At
<1>4. ASSUME NEW w \in PlacedBefore(m), w \notin Leafs(graph)
      PROVE  ~Before(m, w)
    <2>1. w < m /\ w \in Nat /\ m \in Nat
        BY <1>1, <1>2, <1>4, GraphFacts DEF PlacedBefore, Before
    <2>. QED
        BY <2>1 DEF Before
<1>5. ASSUME NEW p \in PlacedBefore(m + 1), NEW w \in PlacedBefore(m + 1), Clash(t, p, w), p # w
      PROVE  /\ p \notin Leafs(graph) \/ w \notin Leafs(graph)
             /\ w \notin Leafs(graph) /\ Before(p, w) => ~Needed(p, w)
    <2>1. CASE p \in PlacedBefore(m) /\ w \in PlacedBefore(m)
        BY <1>3, <1>5, <2>1 DEF Planned, ApartInv
    <2>2. CASE p \in PlacedBefore(m) /\ w = m
        BY <1>5, <2>2
    <2>3. CASE p = m /\ w \in PlacedBefore(m)
        BY <1>4, <2>3
    <2>. QED
        BY <1>1, <1>5, <2>1, <2>2, <2>3
<1>. QED
    BY <1>5 DEF ApartInv

LEMMA NodePlaced ==
    ASSUME Given, NEW m \in Tensors, graph[m].op # "leaf", NEW a, Planned(a, m),
           NEW t, t = Allocated(a, m, graph[m].buffer)
    PROVE  Releasing(t, m, 0)
<1>1. /\ TileInv(a, PlacedBefore(m)) /\ CountInv(a, From(m))
      /\ KeptInv(a, PlacedBefore(m), From(m)) /\ ApartInv(a, PlacedBefore(m))
    BY DEF Planned
<1>2. /\ From(m) \in SUBSET Uses /\ From(m + 1) \in SUBSET From(m) /\ UsesLeft(m, 0) = From(m)
      /\ m \notin Leafs(graph)
    BY FromShrinks DEF Leafs
<1>3. \A p \in PlacedBefore(m) : Held(From(m + 1), p) => a.allocated[p]
    BY <1>1, <1>2, HeldGrows DEF KeptInv
<1>4. CASE IsView(m)
    <2>1. t = a /\ PlacedBefore(m + 1) = PlacedBefore(m)
        BY <1>4, PlacedGrows DEF Allocated, Own
    <2>. QED
        BY <1>1, <1>2, <1>3, <2>1 DEF Releasing, KeptInv
<1>5. CASE ~IsView(m)
    <2>1. m \in Own
        BY <1>5 DEF Own
    <2>2. PICK D : D = PlacedBefore(m)
        OBVIOUS
    <2>3. PlacedBefore(m + 1) = D \cup {m} /\ m \in Own \ D /\ D \subseteq Own /\ D \subseteq Tensors
        BY <1>2, <2>1, <2>2, PlacedGrows, RootFacts
    <2>4. ~a.allocated[m]
        BY <1>1, <2>2, <2>3 DEF TileInv
    <2>5. PICK b, src : b = graph[m].buffer /\ src = graph[m].src
        OBVIOUS
    <2>6. b \in Buffers
        BY <2>5, GraphFacts
    <2>. DEFINE may == {j \in DOMAIN src : graph[m].op = "inplace" /\ MayReuse(a, m, src[j])}
    <2>7. t = IF may # {} THEN Reused(a, m, src[Min(may)]) ELSE NewPlace(a, m, b)
        BY <1>5, <2>4, <2>5 DEF Allocated
    <2>8. CASE may = {}
        <3>1. t = NewPlace(a, m, b)
            BY <2>7, <2>8
        <3>2. /\ TileInv(t, D \cup {m})
              /\ \A j \in Tensors : j # m => /\ t.allocated[j] = a.allocated[j]
                                             /\ t.place[j] = a.place[j] /\ t.offset[j] = a.offset[j]
              /\ t.allocated[m] /\ t.children = a.children /\ t.views = a.views
              /\ \A u \in Nat : At(t, m, u) => FreeAt(a.blocks[t.place[m]], u)
            <4>. HIDE DEF may
            <4>1. TileInv(a, D) /\ m \in Own \ D /\ b \in Buffers /\ t = NewPlace(a, m, b)
                BY <1>1, <2>2, <2>3, <2>6, <3>1
            <4>2. PlacedFree(t, a, D, m)
                BY <4>1, NewPlaced
            <4>. QED
                BY <4>2 DEF PlacedFree
        <3>. HIDE DEF may
        <3>3. CountInv(t, From(m))
            BY <1>1, <3>2 DEF CountInv
        <3>4. KeptInv(t, D \cup {m}, From(m + 1))
            BY <1>3, <2>2, <2>3, <3>2 DEF KeptInv
        <3>5. ASSUME NEW p \in D, Clash(t, p, m), Needed(p, m)
              PROVE  FALSE
            <4>1. a.allocated[p] /\ p \in Tensors /\ p # m
                BY <1>3, <2>1, <2>2, <2>3, <3>5, NeededHeld
            <4>2. PICK u \in Nat : At(t, p, u) /\ At(t, m, u) /\ t.place[p] = t.place[m]
                BY <3>5 DEF Clash
            <4>3. At(a, p, u) /\ a.place[p] = t.place[m]
                BY <3>2, <4>1, <4>2 DEF At
            <4>. QED
                BY <1>1, <3>2, <4>1, <4>2, <4>3 DEF TileInv, Tiles
        <3>6. ApartInv(t, D \cup {m})
            <4>1. \A j \in Tensors : j # m => t.place[j] = a.place[j] /\ t.offset[j] = a.offset[j]
                BY <3>2
            <4>2. \A p \in PlacedBefore(m) : Clash(t, p, m) => ~Needed(p, m)
                BY <2>2, <3>5
            <4>3. ApartInv(t, PlacedBefore(m + 1))
                BY <1>2, <2>1, <4>1, <4>2, PlacedApart
            <4>. QED
                BY <2>3, <4>3
        <3>. QED
            BY <1>2, <2>3, <3>2, <3>3, <3>4, <3>6 DEF Releasing
    <2>9. CASE may # {}
        <3>1. PICK x : x = Min(may)
            OBVIOUS
        <3>2. x \in may
            <4>1. may \in SUBSET Nat
                <5>1. \A y \in DOMAIN src : y \in Nat
                    BY <2>5, GraphFacts, LenProperties
                <5>. QED
                    BY <5>1
            <4>. HIDE DEF may
            <4>2. \E y \in may : \A z \in may : y <= z
                BY <2>9, <4>1, LeastNatural
            <4>. QED
                BY <3>1, <4>2 DEF Min
        <3>3. PICK p : p = src[x]
            OBVIOUS
        <3>4. x \in DOMAIN src /\ MayReuse(a, m, p) /\ t = Reused(a, m, p)
            BY <2>7, <2>9, <3>1, <3>2, <3>3
        <3>. HIDE DEF may
        <3>5. /\ a.allocated[p] /\ ~graph[p].out /\ Size(m) = Size(p)
              /\ a.children[p] = 1 /\ a.views[p] = 0
            BY <3>4 DEF MayReuse
        <3>6. p \in Tensors /\ p < m /\ m \in Nat /\ p \in Nat
            <4>1. <<m, x>> \in Uses /\ Source(<<m, x>>) = p
                BY <2>5, <3>3, <3>4, UsesFacts
            <4>. QED
                BY <4>1, UsesFacts, GraphFacts
        <3>7. p \in D /\ p # m
            BY <1>1, <2>2, <3>5, <3>6 DEF TileInv
        <3>8. /\ TileInv(t, D \cup {m})
              /\ \A j \in Tensors : j # m => t.place[j] = a.place[j] /\ t.offset[j] = a.offset[j]
              /\ \A j \in Tensors : j # m /\ j # p => t.allocated[j] = a.allocated[j]
              /\ t.allocated[m] /\ t.children = a.children /\ t.views = a.views
              /\ t.place[m] = a.place[p] /\ t.offset[m] = a.offset[p]
            <4>1. /\ TileInv(a, D) /\ m \in Own \ D /\ p \in D /\ a.allocated[p] /\ Size(m) = Size(p)
                  /\ t = Reused(a, m, p)
                BY <1>1, <2>2, <2>3, <3>4, <3>5, <3>7
            <4>2. PlacedOver(t, a, D, m, p)
                BY <4>1, ReusedPlaced
            <4>. QED
                BY <4>2 DEF PlacedOver
        <3>9. ~Held(From(m + 1), p)
            BY <1>1, <2>5, <3>3, <3>4, <3>5, LastReader
        <3>10. CountInv(t, From(m))
            BY <1>1, <3>8 DEF CountInv
        <3>11. KeptInv(t, D \cup {m}, From(m + 1))
            BY <1>3, <2>2, <2>3, <3>8, <3>9 DEF KeptInv
        <3>12. ASSUME NEW q \in D, Clash(t, q, m), Needed(q, m)
               PROVE  FALSE
            <4>1. Held(From(m + 1), q) /\ q # p /\ a.allocated[q] /\ q \in Tensors /\ q # m
                BY <1>3, <2>1, <2>2, <2>3, <3>9, <3>12, NeededHeld
            <4>2. PICK u \in Nat : At(t, q, u) /\ At(t, m, u) /\ t.place[q] = t.place[m]
                BY <3>12 DEF Clash
            <4>3. At(a, q, u) /\ At(a, p, u) /\ a.place[q] = a.place[p]
                BY <3>5, <3>8, <4>1, <4>2 DEF At
            <4>. QED
                BY <1>1, <3>5, <3>6, <4>1, <4>3 DEF TileInv, Tiles, Clash
        <3>13. ApartInv(t, D \cup {m})
            <4>1. \A j \in Tensors : j # m => t.place[j] = a.place[j] /\ t.offset[j] = a.offset[j]
                BY <3>8
            <4>2. \A w \in PlacedBefore(m) : Clash(t, w, m) => ~Needed(w, m)
                BY <2>2, <3>12
            <4>3. ApartInv(t, PlacedBefore(m + 1))
                BY <1>2, <2>1, <4>1, <4>2, PlacedApart
            <4>. QED
                BY <2>3, <4>3
        <3>. QED
            BY <1>2, <2>3, <3>8, <3>10, <3>11, <3>13 DEF Releasing
    <2>. QED
        BY <2>8, <2>9
<1>. QED
    BY <1>4, <1>5

-----------------------------------------------------------------------------
(* The parents of a node are released.                                     *)

Without(R, e) == R \ {e}

\* L is R without use e of tensor p, and what is a view that is still read differs by p.
OneLess(L, R, e, p) ==
    /\ Using(L, p) = Using(R, p) \ {e} /\ e \in Using(R, p)
    /\ \A q : q # p => Using(L, q) = Using(R, q)
    /\ Using(L, p) # {} \/ ~IsView(p) => \A q : LiveViews(L, q) = LiveViews(R, q)
    /\ Using(L, p) = {} /\ IsView(p) =>
         /\ LiveViews(L, Root(p)) = LiveViews(R, Root(p)) \ {p}
         /\ p \in LiveViews(R, Root(p))
         /\ \A q : q # Root(p) => LiveViews(L, q) = LiveViews(R, q)
    /\ IsView(p) => LiveViews(R, p) = {}

LEMMA OneReaderLess ==
    ASSUME Given, NEW R \in SUBSET Uses, NEW e \in R, NEW p, p = Source(e),
           NEW L, L = Without(R, e)
    PROVE  OneLess(L, R, e, p)
<1>1. p \in Tensors /\ graph[p].op # "dep" /\ e \in Uses
    BY UsesFacts
<1>2. Using(L, p) = Using(R, p) \ {e} /\ e \in Using(R, p) /\ e \in Using(Uses, p)
    BY <1>1 DEF Using, Without
<1>3. \A q : q # p => Using(L, q) = Using(R, q)
    BY DEF Using, Without
<1>4. IsView(p) <=> graph[p].op = "view"
    BY <1>1, GraphFacts
<1>5. \A q : \A v \in Tensors : v # p => (v \in LiveViews(L, q) <=> v \in LiveViews(R, q))
    BY <1>3 DEF LiveViews
<1>6. \A q : /\ p \in LiveViews(R, q) <=> graph[p].op = "view" /\ graph[p].root = q
             /\ p \in LiveViews(L, q) <=> graph[p].op = "view" /\ graph[p].root = q /\ Using(L, p) # {}
    BY <1>1, <1>2 DEF LiveViews
<1>7. \A q : LiveViews(L, q) \subseteq Tensors /\ LiveViews(R, q) \subseteq Tensors
    BY DEF LiveViews
<1>8. ASSUME Using(L, p) # {} \/ ~IsView(p), NEW q
      PROVE  LiveViews(L, q) = LiveViews(R, q)
    <2>1. p \in LiveViews(L, q) <=> p \in LiveViews(R, q)
        BY <1>4, <1>6, <1>8
    <2>2. \A v : v \in LiveViews(L, q) <=> v \in LiveViews(R, q)
        BY <1>5, <1>7, <2>1
    <2>. QED
        BY <2>2
<1>9. ASSUME Using(L, p) = {}, IsView(p)
      PROVE  /\ LiveViews(L, Root(p)) = LiveViews(R, Root(p)) \ {p}
             /\ p \in LiveViews(R, Root(p))
             /\ \A q : q # Root(p) => LiveViews(L, q) = LiveViews(R, q)
    <2>1. graph[p].root = Root(p)
        BY <1>9 DEF Root
    <2>2. \A q : p \notin LiveViews(L, q) /\ (p \in LiveViews(R, q) <=> q = Root(p))
        BY <1>4, <1>6, <1>9, <2>1
    <2>3. LiveViews(L, Root(p)) = LiveViews(R, Root(p)) \ {p}
        BY <1>5, <1>7, <2>2
    <2>4. ASSUME NEW q, q # Root(p)
          PROVE  LiveViews(L, q) = LiveViews(R, q)
        <3>1. \A v : v \in LiveViews(L, q) <=> v \in LiveViews(R, q)
            BY <1>5, <1>7, <2>2, <2>4
        <3>. QED
            BY <3>1
    <2>. QED
        BY <2>2, <2>3, <2>4
<1>10. ASSUME IsView(p), LiveViews(R, p) # {}
       PROVE  FALSE
    <2>1. PICK v \in Tensors : graph[v].op = "view" /\ graph[v].root = p
        BY <1>10 DEF LiveViews
    <2>2. graph[p].root = 0
        BY <2>1, GraphFacts
    <2>. QED
        BY <1>10, <2>2 DEF IsView
<1>. QED
    BY <1>2, <1>3, <1>8, <1>9, <1>10 DEF OneLess

\* What is about places does not depend on the counts.
LEMMA SamePlaces ==
    ASSUME NEW a, NEW D, TileInv(a, D), NEW t, t \in AnAlloc,
           t.blocks = a.blocks, t.max_size = a.max_size, t.allocated = a.allocated,
           t.place = a.place, t.offset = a.offset
    PROVE  /\ TileInv(t, D)
           /\ \A F : KeptInv(a, D, F) => KeptInv(t, D, F)
           /\ ApartInv(a, D) => ApartInv(t, D)
<1>1. /\ \A k, u : At(t, k, u) <=> At(a, k, u)
      /\ \A j, k : Clash(t, j, k) <=> Clash(a, j, k)
    BY DEF At, Clash
<1>2. Blocks(t, D) /\ Peaks(t, D)
    BY DEF TileInv, Blocks, Peaks
<1>3. Tiles(t)
    BY <1>1 DEF TileInv, Tiles
<1>4. ApartInv(a, D) => ApartInv(t, D)
    BY <1>1 DEF ApartInv
<1>5. \A F : KeptInv(a, D, F) => KeptInv(t, D, F)
    BY DEF KeptInv
<1>6. D \subseteq Own /\ \A k \in Tensors : t.allocated[k] => k \in D
    BY DEF TileInv
<1>. QED
    BY <1>2, <1>3, <1>4, <1>5, <1>6 DEF TileInv

\* Only what nobody needs any more is given back.
LEMMA FreedIfKeeps ==
    ASSUME Given, NEW D, NEW a, TileInv(a, D), NEW R \in SUBSET Uses, CountInv(a, R),
           NEW F \in SUBSET R, KeptInv(a, D, F), ApartInv(a, D), NEW k \in Tensors,
           NEW t, t = FreedIf(a, k)
    PROVE  TileInv(t, D) /\ CountInv(t, R) /\ KeptInv(t, D, F) /\ ApartInv(t, D)
<1>1. CASE ~(a.children[k] = 0 /\ a.views[k] = 0 /\ a.allocated[k])
    BY <1>1 DEF FreedIf
<1>2. CASE a.children[k] = 0 /\ a.views[k] = 0 /\ a.allocated[k]
    <2>1. t = Freed(a, k)
        BY <1>2 DEF FreedIf
    <2>2. /\ TileInv(t, D)
          /\ t.place = a.place /\ t.offset = a.offset
          /\ t.children = a.children /\ t.views = a.views
          /\ \A j \in Tensors : j # k \/ graph[k].out => t.allocated[j] = a.allocated[j]
        BY <1>2, <2>1, FreedPlaced
    <2>3. CountInv(t, R)
        BY <2>2 DEF CountInv
    <2>4. Using(R, k) = {} /\ LiveViews(R, k) = {}
        <3>1. Cardinality(Using(R, k)) = 0 /\ Cardinality(LiveViews(R, k)) = 0
            BY <1>2 DEF CountInv
        <3>. QED
            BY <3>1, UsingFinite, FS_EmptySet
    <2>5. ~graph[k].out => ~Held(F, k)
        BY <2>4, HeldGrows DEF Held
    <2>6. KeptInv(t, D, F)
        BY <2>2, <2>5, RootFacts DEF KeptInv, TileInv
    <2>7. ApartInv(t, D)
        <3>1. \A j, l : Clash(t, j, l) <=> Clash(a, j, l)
            BY <2>2 DEF Clash, At
        <3>. QED
            BY <3>1 DEF ApartInv
    <2>. QED
        BY <2>2, <2>3, <2>6, <2>7
<1>. QED
    BY <1>1, <1>2

LEMMA SourceReleased ==
    ASSUME Given, NEW m \in Tensors, NEW i \in DOMAIN graph[m].src, NEW a,
           NEW j, j = i - 1, Releasing(a, m, j),
           NEW t, t = Released(a, graph[m].src[i])
    PROVE  Releasing(t, m, i)
<1>1. PICK D, F, R, L : /\ D = PlacedBefore(m + 1) /\ F = From(m + 1)
                        /\ R = UsesLeft(m, j) /\ L = UsesLeft(m, i)
    OBVIOUS
<1>2. TileInv(a, D) /\ CountInv(a, R) /\ KeptInv(a, D, F) /\ ApartInv(a, D) /\ a \in AnAlloc
    BY <1>1 DEF Releasing, TileInv
<1>3. R \in SUBSET Uses /\ L \in SUBSET Uses /\ F \in SUBSET L
    BY <1>1, FromShrinks
<1>4. PICK e, p : e = <<m, i>> /\ p = graph[m].src[i]
    OBVIOUS
<1>5. e \in Uses /\ Source(e) = p /\ p \in Tensors
    BY <1>4, UsesFacts
<1>6. e \in R /\ L = R \ {e}
    <2>1. \A x \in Uses : x[1] \in Nat /\ x[2] \in Nat /\ x = <<x[1], x[2]>>
        <3>1. SUFFICES ASSUME NEW x \in Uses
                       PROVE  x[1] \in Nat /\ x[2] \in Nat /\ x = <<x[1], x[2]>>
            OBVIOUS
        <3>2. x[1] \in Tensors /\ x[2] \in DOMAIN graph[x[1]].src /\ x = <<x[1], x[2]>>
            BY UsesFacts
        <3>3. /\ DOMAIN graph[x[1]].src = 1 .. Len(graph[x[1]].src)
              /\ Len(graph[x[1]].src) \in Nat /\ x[1] \in Nat
            BY <3>2, GraphFacts, LenProperties
        <3>. QED
            BY <3>2, <3>3
    <2>2. m \in Nat /\ i \in Nat /\ e[1] = m /\ e[2] = i
        BY <1>4, <1>5, <2>1
    <2>3. \A x \in Uses : x # e <=> ~(x[1] = m /\ x[2] = i)
        BY <1>4, <2>1
    <2>4. \A x \in Uses : x[1] > m \/ (x[1] = m /\ x[2] > i)
                <=> (x[1] > m \/ (x[1] = m /\ x[2] > j)) /\ ~(x[1] = m /\ x[2] = i)
        BY <2>1, <2>2
    <2>5. e \in R
        BY <1>1, <1>5, <2>2 DEF UsesLeft
    <2>. QED
        BY <1>1, <2>3, <2>4, <2>5 DEF UsesLeft
<1>7. /\ Using(L, p) = Using(R, p) \ {e} /\ e \in Using(R, p)
      /\ \A q : q # p => Using(L, q) = Using(R, q)
      /\ Using(L, p) # {} \/ ~IsView(p) => \A q : LiveViews(L, q) = LiveViews(R, q)
      /\ Using(L, p) = {} /\ IsView(p) =>
            /\ LiveViews(L, Root(p)) = LiveViews(R, Root(p)) \ {p}
            /\ p \in LiveViews(R, Root(p))
            /\ \A q : q # Root(p) => LiveViews(L, q) = LiveViews(R, q)
      /\ IsView(p) => LiveViews(R, p) = {}
    <2>1. R \in SUBSET Uses /\ e \in R /\ p = Source(e) /\ L = Without(R, e)
        BY <1>3, <1>5, <1>6 DEF Without
    <2>2. OneLess(L, R, e, p)
        BY <2>1, OneReaderLess
    <2>. QED
        BY <2>2 DEF OneLess
<1>8. PICK c, v : c = a.children[p] - 1 /\ v = a.views[p]
    OBVIOUS
<1>9. c = Cardinality(Using(L, p)) /\ c \in Nat /\ (c = 0 <=> Using(L, p) = {})
    <2>1. IsFiniteSet(Using(R, p)) /\ Cardinality(Using(R, p)) \in Nat
          /\ IsFiniteSet(Using(L, p)) /\ Cardinality(Using(L, p)) \in Nat
        BY <1>3, UsingFinite
    <2>2. Cardinality(Using(L, p)) = Cardinality(Using(R, p)) - 1
        BY <1>7, <2>1, FS_RemoveElement
    <2>3. a.children[p] = Cardinality(Using(R, p))
        BY <1>2, <1>5 DEF CountInv
    <2>. QED
        BY <1>8, <2>1, <2>2, <2>3, FS_EmptySet
<1>10. IsView(p) => v = 0
    BY <1>2, <1>5, <1>7, <1>8, FS_EmptySet DEF CountInv
<1>11. PICK b : b = [a EXCEPT !.children[p] = c]
    OBVIOUS
<1>12. /\ b \in AnAlloc
       /\ b.children = [a.children EXCEPT ![p] = c] /\ b.views = a.views
       /\ b.blocks = a.blocks /\ b.max_size = a.max_size /\ b.allocated = a.allocated
       /\ b.place = a.place /\ b.offset = a.offset
    BY <1>2, <1>9, <1>11 DEF AnAlloc
<1>13. b.children[p] = c /\ \A q \in Tensors : q # p => b.children[q] = a.children[q]
    BY <1>2, <1>5, <1>12 DEF AnAlloc
<1>14. \A q \in Tensors : b.children[q] = Cardinality(Using(L, q))
    BY <1>2, <1>7, <1>9, <1>13 DEF CountInv
<1>15. t = IF c = 0 /\ v = 0 /\ IsView(p)
           THEN FreedIf([b EXCEPT !.views[Root(p)] = @ - 1], Root(p))
           ELSE FreedIf(b, p)
    BY <1>4, <1>8, <1>11, <1>12, <1>13 DEF Released
<1>16. TileInv(b, D) /\ KeptInv(b, D, F) /\ ApartInv(b, D)
    BY <1>2, <1>12, SamePlaces
<1>17. CASE ~(c = 0 /\ IsView(p))
    <2>1. t = FreedIf(b, p)
        BY <1>15, <1>17
    <2>2. \A q : LiveViews(L, q) = LiveViews(R, q)
        BY <1>7, <1>9, <1>17
    <2>3. CountInv(b, L)
        BY <1>2, <1>12, <1>14, <2>2 DEF CountInv
    <2>. QED
        BY <1>1, <1>3, <1>5, <1>16, <2>1, <2>3, FreedIfKeeps DEF Releasing
<1>18. CASE c = 0 /\ IsView(p)
    <2>1. PICK r : r = Root(p)
        OBVIOUS
    <2>2. r \in Tensors
        BY <1>5, <2>1, RootFacts
    <2>3. PICK d : d = [b EXCEPT !.views[r] = @ - 1]
        OBVIOUS
    <2>4. t = FreedIf(d, r)
        BY <1>10, <1>15, <1>18, <2>1, <2>3
    <2>5. /\ LiveViews(L, r) = LiveViews(R, r) \ {p} /\ p \in LiveViews(R, r)
          /\ \A q : q # r => LiveViews(L, q) = LiveViews(R, q)
        BY <1>7, <1>9, <1>18, <2>1
    <2>6. PICK w : w = a.views[r] - 1
        OBVIOUS
    <2>7. w = Cardinality(LiveViews(L, r)) /\ w \in Nat
        <3>1. IsFiniteSet(LiveViews(R, r)) /\ Cardinality(LiveViews(R, r)) \in Nat
              /\ Cardinality(LiveViews(L, r)) \in Nat
            BY <1>3, UsingFinite
        <3>2. Cardinality(LiveViews(L, r)) = Cardinality(LiveViews(R, r)) - 1
            BY <2>5, <3>1, FS_RemoveElement
        <3>3. a.views[r] = Cardinality(LiveViews(R, r))
            BY <1>2, <2>2 DEF CountInv
        <3>. QED
            BY <2>6, <3>1, <3>2, <3>3
    <2>8. d = [b EXCEPT !.views[r] = w]
        BY <1>12, <2>3, <2>6
    <2>9. /\ d \in AnAlloc
          /\ d.children = b.children /\ d.views = [a.views EXCEPT ![r] = w]
          /\ d.blocks = b.blocks /\ d.max_size = b.max_size /\ d.allocated = b.allocated
          /\ d.place = b.place /\ d.offset = b.offset
        BY <1>12, <2>7, <2>8 DEF AnAlloc
    <2>10. \A q \in Tensors : d.views[q] = Cardinality(LiveViews(L, q))
        <3>1. d.views[r] = w /\ \A q \in Tensors : q # r => d.views[q] = a.views[q]
            BY <1>2, <2>2, <2>9 DEF AnAlloc
        <3>2. \A q \in Tensors : a.views[q] = Cardinality(LiveViews(R, q))
            BY <1>2 DEF CountInv
        <3>. QED
            BY <2>5, <2>7, <3>1, <3>2
    <2>11. CountInv(d, L)
        BY <1>14, <2>9, <2>10 DEF CountInv
    <2>12. TileInv(d, D) /\ KeptInv(d, D, F) /\ ApartInv(d, D)
        BY <1>16, <2>9, SamePlaces
    <2>. QED
        BY <1>1, <1>3, <2>2, <2>4, <2>11, <2>12, FreedIfKeeps DEF Releasing
<1>. QED
    BY <1>17, <1>18

LEMMA ParentsPlacedAre ==
    ASSUME Given, NEW m \in Tensors, NEW a, Planned(a, m)
    PROVE  ParentsPlaced(a, m) = a
<1>1. PICK src, n, b : src = graph[m].src /\ n = Len(src) /\ b = graph[m].buffer
    OBVIOUS
<1>2. n \in Nat /\ DOMAIN src = 1 .. n
    BY <1>1, GraphFacts, LenProperties
<1>3. ASSUME NEW i \in 1 .. n
      PROVE  Allocated(a, src[i], b) = a
    <2>1. i \in DOMAIN graph[m].src
        BY <1>1, <1>2
    <2>. QED
        BY <1>1, <2>1, ParentsThere
<1>. DEFINE all(f) == [j \in 0 .. n |-> IF j = 0 THEN a ELSE Allocated(f[j - 1], src[j], b)]
            F == CHOOSE f : f = all(f)
<1>4. F = all(F)
    <2>1. PICK f : f = [j \in 0 .. n |-> a]
        OBVIOUS
    <2>2. \A j \in 0 .. n : j # 0 => j \in 1 .. n /\ j - 1 \in 0 .. n
        BY <1>2
    <2>3. f = all(f)
        BY <1>3, <2>1, <2>2
    <2>. QED
        BY <2>3
<1>5. ParentsPlaced(a, m) = F[n]
    BY <1>1 DEF ParentsPlaced
<1>. HIDE DEF F
<1>6. F[0] = a /\ \A i \in 1 .. n : F[i] = Allocated(F[i - 1], src[i], b)
    BY <1>2, <1>4
<1>7. PICK V : V = [j \in 0 .. n |-> {a}]
    OBVIOUS
<1>8. F[0] \in V[0] /\ \A j \in 0 .. n : V[j] = {a}
    BY <1>2, <1>6, <1>7
<1>9. ASSUME NEW i \in 1 .. n, F[i - 1] \in V[i - 1]
      PROVE  F[i] \in V[i]
    <2>1. i \in 0 .. n /\ i - 1 \in 0 .. n
        BY <1>2
    <2>2. F[i - 1] = a
        BY <1>8, <1>9, <2>1
    <2>. QED
        BY <1>3, <1>6, <1>8, <2>1, <2>2
<1>10. F[n] \in V[n]
    <2>1. \A i \in 0 .. n : F[i] \in V[i]
        BY <1>2, <1>8, <1>9, LoopStays
    <2>. QED
        BY <1>2, <2>1
<1>. QED
    BY <1>2, <1>5, <1>8, <1>10

LEMMA ParentsReleasedAre ==
    ASSUME Given, NEW m \in Tensors, NEW a, Releasing(a, m, 0),
           NEW n, n = Len(graph[m].src)
    PROVE  Releasing(ParentsReleased(a, m), m, n)
<1>1. PICK src : src = graph[m].src
    OBVIOUS
<1>2. n \in Nat /\ DOMAIN src = 1 .. n
    BY <1>1, GraphFacts, LenProperties
<1>3. \A i \in 1 .. n : \A v : Releasing(v, m, i - 1) => Releasing(Released(v, src[i]), m, i)
    BY <1>1, <1>2, SourceReleased
<1>4. PICK V : V = [j \in 0 .. n |-> {v \in AnAlloc : Releasing(v, m, j)}]
    OBVIOUS
<1>5. \A j \in 0 .. n : \A v : v \in V[j] <=> Releasing(v, m, j)
    BY <1>4 DEF Releasing, TileInv
<1>6. \A i \in 1 .. n : i \in 0 .. n /\ i - 1 \in 0 .. n
    BY <1>2
<1>7. \A i \in 1 .. n : \A v \in V[i - 1] : Released(v, src[i]) \in V[i]
    BY <1>3, <1>5, <1>6
<1>8. a \in V[0] /\ 0 \in 0 .. n /\ n \in 0 .. n
    BY <1>2, <1>5
<1>. DEFINE all(f) == [j \in 0 .. n |-> IF j = 0 THEN a ELSE Released(f[j - 1], src[j])]
            F == CHOOSE f : f = all(f)
<1>9. PICK g : g = [i \in 1 .. n |-> [v \in V[i - 1] |-> Released(v, src[i])]]
    OBVIOUS
<1>10. Steps(g, n, V)
    BY <1>7, <1>9 DEF Steps
<1>11. PICK f : Values(f, a, g, n)
    BY <1>2, <1>8, <1>10, LoopHasValues
<1>12. \A i \in 0 .. n : f[i] \in V[i]
    <2>1. f[0] \in V[0]
        BY <1>8, <1>11 DEF Values
    <2>2. ASSUME NEW i \in 1 .. n, f[i - 1] \in V[i - 1]
          PROVE  f[i] \in V[i]
        BY <1>7, <1>9, <1>11, <2>2 DEF Values
    <2>. QED
        BY <1>2, <2>1, <2>2, LoopStays
<1>13. f = all(f)
    <2>1. DOMAIN f = 0 .. n /\ f[0] = a
        BY <1>11 DEF Values
    <2>2. \A i \in 1 .. n : f[i] = Released(f[i - 1], src[i])
        BY <1>6, <1>9, <1>11, <1>12 DEF Values
    <2>3. f \in [0 .. n -> AnAlloc]
        <3>1. \A i \in 0 .. n : f[i] \in AnAlloc
            BY <1>5, <1>12 DEF Releasing, TileInv
        <3>2. f = [i \in 0 .. n |-> f[i]]
            BY <1>11 DEF Values
        <3>. QED
            BY <3>1, <3>2
    <2>4. \A j \in 0 .. n : j = 0 \/ j \in 1 .. n
        BY <1>2
    <2>. QED
        BY <2>1, <2>2, <2>3, <2>4
<1>14. F = all(F)
    BY <1>13
<1>15. ParentsReleased(a, m) = F[n]
    BY <1>1 DEF ParentsReleased
<1>. HIDE DEF F
<1>16. F[0] = a /\ \A i \in 1 .. n : F[i] = Released(F[i - 1], src[i])
    BY <1>2, <1>14
<1>17. \A i \in 0 .. n : F[i] \in V[i]
    <2>1. F[0] \in V[0]
        BY <1>8, <1>16
    <2>2. ASSUME NEW i \in 1 .. n, F[i - 1] \in V[i - 1]
          PROVE  F[i] \in V[i]
        BY <1>7, <1>16, <2>2
    <2>. QED
        BY <1>2, <2>1, <2>2, LoopStays
<1>. QED
    BY <1>5, <1>8, <1>15, <1>17

\* When all its uses are released, only those of the nodes behind it are left.
LEMMA NodeDone ==
    ASSUME Given, NEW m \in Tensors, NEW a, Releasing(a, m, Len(graph[m].src))
    PROVE  Planned(a, m + 1)
<1>1. PICK n : n = Len(graph[m].src)
    OBVIOUS
<1>2. n \in Nat /\ DOMAIN graph[m].src = 1 .. n
    BY <1>1, GraphFacts, LenProperties
<1>3. ASSUME NEW e \in Uses, e[1] = m
      PROVE  ~(e[2] > n)
    <2>1. e[2] \in 1 .. n
        BY <1>2, <1>3, UsesFacts
    <2>. QED
        BY <1>2, <2>1
<1>4. UsesLeft(m, n) = From(m + 1)
    <2>1. From(m + 1) \in SUBSET Uses /\ \A e \in Uses : e \in From(m + 1) <=> e[1] > m
        BY FromShrinks DEF From
    <2>. QED
        BY <1>3, <2>1 DEF UsesLeft
<1>. QED
    BY <1>1, <1>4 DEF Releasing, Planned

\* The turn of a node keeps what the places are planned by.
LEMMA TurnTaken ==
    ASSUME Given, NEW m \in Tensors, graph[m].op # "leaf", NEW a, Planned(a, m)
    PROVE  Planned(Placed(a, m), m + 1)
<1>1. PICK t : t = Allocated(a, m, graph[m].buffer)
    OBVIOUS
<1>2. Releasing(t, m, 0)
    BY <1>1, NodePlaced
<1>3. Placed(a, m) = ParentsReleased(t, m)
    BY <1>1, ParentsPlacedAre DEF Placed
<1>. QED
    BY <1>2, <1>3, ParentsReleasedAre, NodeDone

\* A leaf was placed before, and has no sources.
LEMMA LeafPassed ==
    ASSUME Given, NEW m \in Tensors, graph[m].op = "leaf", NEW a, Planned(a, m)
    PROVE  Planned(a, m + 1)
<1>1. PlacedBefore(m + 1) = PlacedBefore(m)
    <2>1. m \in Leafs(graph)
        BY DEF Leafs, Tensors
    <2>. QED
        BY <2>1, PlacedGrows
<1>2. From(m + 1) = From(m)
    <2>1. ASSUME NEW e \in Uses
          PROVE  e[1] # m
        <3>1. e[2] \in DOMAIN graph[e[1]].src
            BY UsesFacts
        <3>2. graph[m].src = <<>>
            BY GraphFacts
        <3>. QED
            BY <3>1, <3>2
    <2>2. \A e \in Uses : e[1] \in Nat /\ m \in Nat
        BY UsesFacts, GraphFacts
    <2>3. \A e \in Uses : e[1] >= m + 1 <=> e[1] >= m
        BY <2>1, <2>2
    <2>. QED
        BY <2>3 DEF From
<1>. QED
    BY <1>1, <1>2 DEF Planned

-----------------------------------------------------------------------------
(* The leafs are placed.                                                   *)

LeafsUpTo(j) == {k \in Leafs(graph) : k <= j}

LeafsThere(a, j) == TileInv(a, LeafsUpTo(j)) /\ \A k \in LeafsUpTo(j) : a.allocated[k]

LEMMA ClearedTiles ==
    ASSUME Given
    PROVE  LeafsThere(Cleared, 0)
<1>1. Arena \in Nat /\ Arena > 0 /\ Largest \in Nat
    <2>1. PICK w, c : w = Largest /\ c = Cardinality(Own)
        OBVIOUS
    <2>2. w \in Nat /\ c \in Nat /\ w * c < Arena /\ Arena \in Nat
        BY <2>1, LargestFits
    <2>3. w * c \in Nat
        BY <2>2
    <2>. QED
        BY <2>1, <2>2, <2>3
<1>2. LeafsUpTo(0) = {}
    <2>1. \A k \in Leafs(graph) : k \in Nat /\ k > 0
        BY GraphFacts DEF Leafs
    <2>. QED
        BY <2>1 DEF LeafsUpTo
<1>3. PICK q, e : q = AllFree /\ e = Block(0, Arena)
    OBVIOUS
<1>4. e \in ABlock /\ e.offset = 0 /\ e.size = Arena /\ End(e) = Arena
    BY <1>1, <1>3 DEF Block, ABlock, End
<1>5. q = <<e>>
    BY <1>3 DEF AllFree
<1>6. q \in Seq(ABlock) /\ DOMAIN q = {1} /\ q[1] = e
    BY <1>4, <1>5
<1>7. \A u : FreeAt(q, u) <=> 0 <= u /\ u < Arena
    BY <1>4, <1>6 DEF FreeAt, In
<1>8. Once(q) /\ Within(q) /\ InOrder(q)
    BY <1>1, <1>4, <1>6 DEF Once, Within, InOrder
<1>9. Rest(q, 0)
    BY <1>4, <1>6 DEF Rest
<1>10. PICK a : a = Cleared
    OBVIOUS
<1>11. /\ a.blocks = [b \in Buffers |-> q] /\ a.max_size = [b \in Buffers |-> 0]
       /\ a.allocated = [k \in Tensors |-> FALSE]
    BY <1>3, <1>10 DEF Cleared
<1>12. a \in AnAlloc
    BY <1>3, <1>6, <1>10, GraphFacts DEF Cleared, AnAlloc
<1>13. Largest * Cardinality({}) = 0
    BY <1>1, FS_EmptySet
<1>14. Blocks(a, {})
    BY <1>8, <1>9, <1>11, <1>13 DEF Blocks
<1>15. Peaks(a, {})
    BY <1>1, <1>11 DEF Peaks
<1>16. Tiles(a)
    BY <1>1, <1>7, <1>11 DEF Tiles
<1>17. TileInv(a, {})
    BY <1>11, <1>12, <1>14, <1>15, <1>16 DEF TileInv
<1>. QED
    BY <1>2, <1>10, <1>17 DEF LeafsThere

LEMMA LeafTurn ==
    ASSUME Given, NEW k \in Tensors, NEW j, j = k - 1, NEW a, LeafsThere(a, j),
           NEW t, t = IF k \in Leafs(graph) THEN Allocated(a, k, graph[k].buffer) ELSE a
    PROVE  LeafsThere(t, k)
<1>1. /\ k \in Nat /\ j \in Nat /\ \A i \in Leafs(graph) : i \in Nat
      /\ Leafs(graph) \subseteq Own /\ Own \subseteq Tensors
    BY GraphFacts, RootFacts
<1>2. PICK D : D = LeafsUpTo(j)
    OBVIOUS
<1>3. \A i \in Leafs(graph) : i <= k <=> i <= j \/ i = k
    BY <1>1
<1>4. CASE k \notin Leafs(graph)
    <2>1. LeafsUpTo(k) = D
        BY <1>2, <1>3, <1>4 DEF LeafsUpTo
    <2>. QED
        BY <1>2, <1>4, <2>1 DEF LeafsThere
<1>5. CASE k \in Leafs(graph)
    <2>1. LeafsUpTo(k) = D \cup {k} /\ k \in Own \ D
        <3>1. ~(k <= j)
            BY <1>1
        <3>. QED
            BY <1>1, <1>2, <1>3, <1>5, <3>1 DEF LeafsUpTo
    <2>2. PICK b : b = graph[k].buffer
        OBVIOUS
    <2>3. b \in Buffers /\ graph[k].src = <<>> /\ ~IsView(k)
        BY <1>5, <2>1, <2>2, GraphFacts DEF Leafs, Own
    <2>4. TileInv(a, D) /\ ~a.allocated[k]
        BY <1>2, <2>1 DEF LeafsThere, TileInv
    <2>5. t = NewPlace(a, k, b)
        BY <1>5, <2>2, <2>3, <2>4 DEF Allocated
    <2>6. /\ TileInv(t, D \cup {k})
          /\ \A i \in Tensors : i # k => t.allocated[i] = a.allocated[i]
          /\ t.allocated[k]
        <3>1. PlacedFree(t, a, D, k)
            BY <2>1, <2>3, <2>4, <2>5, NewPlaced
        <3>. QED
            BY <3>1 DEF PlacedFree
    <2>7. \A i \in D : i \in Tensors /\ a.allocated[i]
        BY <1>1, <1>2 DEF LeafsThere, LeafsUpTo
    <2>. QED
        BY <2>1, <2>6, <2>7 DEF LeafsThere
<1>. QED
    BY <1>4, <1>5

LEMMA LeafsPlacedAre ==
    ASSUME Given, NEW a, LeafsThere(a, 0), NEW n, n = Len(graph)
    PROVE  LeafsThere(LeafsPlaced(a), n)
<1>. DEFINE turn(v, k) == IF k \in Leafs(graph) THEN Allocated(v, k, graph[k].buffer) ELSE v
<1>1. n \in Nat /\ Tensors = 1 .. n
    BY GraphFacts
<1>2. \A i \in 1 .. n : \A v : LeafsThere(v, i - 1) => LeafsThere(turn(v, i), i)
    BY <1>1, LeafTurn
<1>3. PICK V : V = [j \in 0 .. n |-> {v \in AnAlloc : LeafsThere(v, j)}]
    OBVIOUS
<1>4. \A j \in 0 .. n : \A v : v \in V[j] <=> LeafsThere(v, j)
    BY <1>3 DEF LeafsThere, TileInv
<1>5. \A i \in 1 .. n : i \in 0 .. n /\ i - 1 \in 0 .. n
    BY <1>1
<1>. DEFINE all(f) == [k \in 0 .. n |->
                          IF k = 0 THEN a
                          ELSE IF k \in Leafs(graph) THEN Allocated(f[k - 1], k, graph[k].buffer)
                               ELSE f[k - 1]]
            F == CHOOSE f : f = all(f)
<1>6. \A f : all(f) = [k \in 0 .. n |-> IF k = 0 THEN a ELSE turn(f[k - 1], k)]
    OBVIOUS
<1>7. LeafsPlaced(a) = F[n]
    BY DEF LeafsPlaced
<1>. HIDE DEF turn, all
<1>8. \A i \in 1 .. n : \A v \in V[i - 1] : turn(v, i) \in V[i]
    BY <1>2, <1>4, <1>5
<1>9. a \in V[0] /\ 0 \in 0 .. n /\ n \in 0 .. n
    BY <1>1, <1>4
<1>10. PICK g : g = [i \in 1 .. n |-> [v \in V[i - 1] |-> turn(v, i)]]
    OBVIOUS
<1>11. Steps(g, n, V)
    BY <1>8, <1>10 DEF Steps
<1>12. PICK f : Values(f, a, g, n)
    BY <1>1, <1>9, <1>11, LoopHasValues
<1>13. \A i \in 0 .. n : f[i] \in V[i]
    <2>1. f[0] \in V[0]
        BY <1>9, <1>12 DEF Values
    <2>2. ASSUME NEW i \in 1 .. n, f[i - 1] \in V[i - 1]
          PROVE  f[i] \in V[i]
        BY <1>8, <1>10, <1>12, <2>2 DEF Values
    <2>. QED
        BY <1>1, <2>1, <2>2, LoopStays
<1>14. f = all(f)
    <2>1. DOMAIN f = 0 .. n /\ f[0] = a
        BY <1>12 DEF Values
    <2>2. \A i \in 1 .. n : f[i] = turn(f[i - 1], i)
        BY <1>5, <1>10, <1>12, <1>13 DEF Values
    <2>3. f \in [0 .. n -> AnAlloc]
        <3>1. \A i \in 0 .. n : f[i] \in AnAlloc
            BY <1>4, <1>13 DEF LeafsThere, TileInv
        <3>2. f = [i \in 0 .. n |-> f[i]]
            BY <1>12 DEF Values
        <3>. QED
            BY <3>1, <3>2
    <2>4. \A j \in 0 .. n : j = 0 \/ j \in 1 .. n
        BY <1>1
    <2>. QED
        BY <1>6, <2>1, <2>2, <2>3, <2>4
<1>15. F = all(F)
    BY <1>14
<1>. HIDE DEF F
<1>16. F[0] = a /\ \A i \in 1 .. n : F[i] = turn(F[i - 1], i)
    BY <1>1, <1>15, <1>6
<1>17. \A i \in 0 .. n : F[i] \in V[i]
    <2>1. F[0] \in V[0]
        BY <1>9, <1>16
    <2>2. ASSUME NEW i \in 1 .. n, F[i - 1] \in V[i - 1]
          PROVE  F[i] \in V[i]
        BY <1>8, <1>16, <2>2
    <2>. QED
        BY <1>1, <2>1, <2>2, LoopStays
<1>. QED
    BY <1>4, <1>9, <1>17, <1>7

LEMMA LeafsPlanned ==
    ASSUME Given,
           NEW t, t = [LeafsPlaced(Cleared) EXCEPT !.children = [k \in Tensors |-> Readers(k)],
                                                   !.views = [k \in Tensors |-> Views(k)]]
    PROVE  Planned(t, 1)
<1>1. PICK a, n : a = LeafsPlaced(Cleared) /\ n = Len(graph)
    OBVIOUS
<1>2. LeafsThere(a, n)
    BY <1>1, ClearedTiles, LeafsPlacedAre
<1>3. PICK D : D = LeafsUpTo(n)
    OBVIOUS
<1>4. TileInv(a, D) /\ a \in AnAlloc /\ D \subseteq Own /\ \A k \in D : a.allocated[k] /\ k \in Tensors
    BY <1>2, <1>3, RootFacts DEF LeafsThere, TileInv
<1>5. PlacedBefore(1) = D
    <2>1. \A k \in Own : k \in Nat /\ k >= 1 /\ k <= n
        BY <1>1, GraphFacts, RootFacts
    <2>2. \A k \in Own : ~(k < 1)
        BY <2>1
    <2>. QED
        BY <1>3, <2>1, <2>2, RootFacts DEF PlacedBefore, Before, LeafsUpTo
<1>6. From(1) = Uses
    <2>1. \A e \in Uses : e[1] \in Nat /\ e[1] > 0
        BY UsesFacts, GraphFacts
    <2>2. \A e \in Uses : e[1] >= 1
        BY <2>1
    <2>. QED
        BY <2>2 DEF From
<1>7. \A k \in Tensors : Readers(k) = Cardinality(Using(Uses, k)) /\ Readers(k) \in Nat
    BY UsingFinite DEF Readers, Using
<1>8. \A k \in Tensors : Views(k) = Cardinality(LiveViews(Uses, k)) /\ Views(k) \in Nat
    <2>1. \A k : LiveViews(Uses, k) = {v \in Tensors : graph[v].op = "view" /\ graph[v].root = k}
        BY DEF LiveViews
    <2>2. \A k : Views(k) = Cardinality(LiveViews(Uses, k))
        BY <2>1 DEF Views
    <2>. QED
        BY <2>2, UsingFinite
<1>9. PICK c, w : c = [k \in Tensors |-> Readers(k)] /\ w = [k \in Tensors |-> Views(k)]
    OBVIOUS
<1>10. c \in [Tensors -> Nat] /\ w \in [Tensors -> Nat]
    BY <1>7, <1>8, <1>9
<1>11. t = [a EXCEPT !.children = c, !.views = w]
    BY <1>1, <1>9
<1>12. /\ t \in AnAlloc
       /\ t.blocks = a.blocks /\ t.max_size = a.max_size /\ t.allocated = a.allocated
       /\ t.place = a.place /\ t.offset = a.offset
       /\ t.children = c /\ t.views = w
    BY <1>4, <1>10, <1>11 DEF AnAlloc
<1>13. TileInv(t, D)
    BY <1>4, <1>12, SamePlaces
<1>14. CountInv(t, From(1))
    BY <1>6, <1>7, <1>8, <1>9, <1>12 DEF CountInv
<1>15. KeptInv(t, D, From(1))
    BY <1>4, <1>12 DEF KeptInv
<1>16. ApartInv(t, D)
    <2>1. \A p, q \in D : Clash(t, p, q) => p = q
        BY <1>4, <1>12, <1>13 DEF TileInv, Tiles
    <2>. QED
        BY <2>1 DEF ApartInv
<1>. QED
    BY <1>5, <1>13, <1>14, <1>15, <1>16 DEF Planned

-----------------------------------------------------------------------------
(* The invariant.                                                          *)

\* What is said of a graph and a batch stays true of them.
LEMMA SameGraph ==
    ASSUME UNCHANGED <<graph, batch>>
    PROVE  /\ Tensors' = Tensors /\ Own' = Own /\ Leafs(graph)' = Leafs(graph)
           /\ \A k : Size(k)' = Size(k) /\ Root(k)' = Root(k) /\ (IsView(k)' <=> IsView(k))
           /\ Uses' = Uses /\ \A e : Source(e)' = Source(e)
           /\ \A p, w : (Needed(p, w)' <=> Needed(p, w)) /\ (Before(p, w)' <=> Before(p, w))
           /\ Largest' = Largest
           /\ AnAlloc' = AnAlloc
           /\ \A m : PlacedBefore(m)' = PlacedBefore(m) /\ From(m)' = From(m)
<1>0. graph' = graph /\ batch' = batch
    OBVIOUS
<1>1. Tensors' = Tensors
    BY <1>0 DEF Tensors
<1>2. \A k : Size(k)' = Size(k) /\ Root(k)' = Root(k) /\ (IsView(k)' <=> IsView(k))
    BY <1>0 DEF Size, Root, IsView
<1>3. Own' = Own
    BY <1>1, <1>2 DEF Own
<1>4. Leafs(graph)' = Leafs(graph)
    BY <1>0 DEF Leafs
<1>5. Uses' = Uses /\ \A e : Source(e)' = Source(e)
    BY <1>0 DEF Uses, Source, Tensors
<1>6. \A p, w : Needed(p, w)' <=> Needed(p, w)
    BY <1>0, <1>2, <1>5 DEF Needed
<1>7. \A p, w : Before(p, w)' <=> Before(p, w)
    BY <1>4 DEF Before
<1>8. Largest' = Largest
    BY <1>2, <1>3 DEF Largest
<1>9. AnAlloc' = AnAlloc
    BY <1>1 DEF AnAlloc
<1>10. \A m : PlacedBefore(m)' = PlacedBefore(m) /\ From(m)' = From(m)
    BY <1>3, <1>5, <1>7 DEF PlacedBefore, From
<1>. QED
    BY <1>1, <1>2, <1>3, <1>4, <1>5, <1>6, <1>7, <1>8, <1>9, <1>10

LEMMA SamePlanned ==
    ASSUME UNCHANGED <<graph, batch>>, Planned(alloc', next')
    PROVE  Planned(alloc, next)'
<1>1. /\ TileInv(alloc', PlacedBefore(next')) /\ CountInv(alloc', From(next'))
      /\ KeptInv(alloc', PlacedBefore(next'), From(next'))
      /\ ApartInv(alloc', PlacedBefore(next'))
    BY DEF Planned
<1>2. PlacedBefore(next)' = PlacedBefore(next') /\ From(next)' = From(next')
    BY SameGraph DEF PlacedBefore, From
<1>3. TileInv(alloc, PlacedBefore(next))'
    BY <1>1, <1>2, SameGraph DEF TileInv, Blocks, Peaks, Tiles, Clash, At
<1>4. CountInv(alloc, From(next))'
    <2>1. \A p : Using(From(next), p)' = Using(From(next'), p) /\ Using(Uses, p)' = Using(Uses, p)
        BY <1>2, SameGraph DEF Using
    <2>2. \A p : LiveViews(From(next), p)' = LiveViews(From(next'), p)
        BY <2>1, SameGraph DEF LiveViews
    <2>. QED
        BY <1>1, <2>1, <2>2, SameGraph DEF CountInv
<1>5. KeptInv(alloc, PlacedBefore(next), From(next))'
    BY <1>1, <1>2, SameGraph DEF KeptInv, Held, Using, LiveViews
<1>6. ApartInv(alloc, PlacedBefore(next))'
    BY <1>1, <1>2, SameGraph DEF ApartInv, Clash, At
<1>. QED
    BY <1>3, <1>4, <1>5, <1>6 DEF Planned

LEMMA MaxBatchIs == Max(Batches) \in Batches
<1>1. PICK n \in Batches : \A m \in Batches : m <= n
    BY BatchesAssumption
<1>2. \A m \in Batches : n >= m
    BY <1>1, BatchesAssumption
<1>. QED
    BY <1>2 DEF Max

LEMMA AllocTyped ==
    ASSUME NEW a, NEW D, TileInv(a, D)
    PROVE  /\ a.children \in [DOMAIN a.children -> Nat]
           /\ a.views \in [DOMAIN a.views -> Nat]
           /\ \A b \in Buffers : Len(a.blocks[b]) > 0
           /\ a.max_size \in [Buffers -> 0 .. Arena]
<1>1. a \in AnAlloc
    BY DEF TileInv
<1>2. a.children \in [Tensors -> Nat] /\ a.views \in [Tensors -> Nat] /\ a.max_size \in [Buffers -> Nat]
    BY <1>1 DEF AnAlloc
<1>3. ASSUME NEW b \in Buffers
      PROVE  Len(a.blocks[b]) > 0
    <2>1. a.blocks[b] \in Seq(ABlock)
        BY <1>1, AllocFields
    <2>2. \E i \in DOMAIN a.blocks[b] : TRUE
        BY DEF TileInv, Blocks, Rest
    <2>. QED
        BY <2>1, <2>2, LenProperties
<1>4. \A b \in Buffers : a.max_size[b] \in 0 .. Arena
    BY <1>2, ArenaAssumption DEF TileInv, Peaks
<1>. QED
    BY <1>2, <1>3, <1>4

\* Two graphs with as many leafs and nodes are the same graph.
LEMMA CountsTell ==
    ASSUME NEW m \in Models, NEW g \in {m, Shift}
    PROVE  /\ Counts(g) # <<0, 0>>
           /\ \A h \in {m, Shift} : Counts(g) = Counts(h) => g = h
<1>1. IsGraph(g)
    BY GraphsAssumption
<1>2. g # <<>> /\ \E S : g \in Seq(S)
    BY <1>1 DEF IsGraph
<1>3. Len(g) # 0
    BY <1>2, EmptySeq, LenProperties
<1>4. Counts(g) # <<0, 0>>
    BY <1>3 DEF Counts
<1>5. \A h \in {m, Shift} : Counts(g) = Counts(h) => g = h
    BY GraphsAssumption
<1>. QED
    BY <1>4, <1>5

LEMMA BlankTyped == ASSUME Given PROVE Blank \in [Buffers \X (0 .. Arena - 1) -> 0 .. Len(graph)]
BY GraphFacts DEF Blank

LEMMA InitInv == ASSUME Init PROVE IInv
<1>1. Given
    BY MaxBatchIs DEF Init, Given
<1>2. /\ graph \in {model, Shift} /\ batch \in Batches
      /\ phase = "idle" /\ next = 0 /\ Len(graph) \in Nat \ {0}
    BY <1>1, GraphFacts DEF Init, Given
<1>3. /\ alloc.children \in [DOMAIN alloc.children -> Nat]
      /\ alloc.views \in [DOMAIN alloc.views -> Nat]
      /\ \A b \in Buffers : Len(alloc.blocks[b]) > 0
    BY <1>1, ClearedTiles, AllocTyped DEF LeafsThere, Init
<1>4. buffer_size \in [Buffers -> 0 .. Arena]
    BY ArenaAssumption DEF Init
<1>5. mem \in [Buffers \X (0 .. Arena - 1) -> 0 .. Len(graph)]
    BY <1>1, BlankTyped DEF Init
<1>6. TypeOK
    <2>1. computing \in BOOLEAN
        BY DEF Init
    <2>2. next \in 0 .. Len(graph) + 1
        BY <1>2
    <2>. QED
        BY <1>2, <1>3, <1>4, <1>5, <2>1, <2>2 DEF TypeOK
<1>7. assigned.counts = <<0, 0>>
    BY DEF Init
<1>8. AssignedInv
    BY <1>1, <1>4, <1>7, CountsTell DEF AssignedInv, Given
<1>. QED
    BY <1>1, <1>2, <1>6, <1>7, <1>8 DEF IInv, Given

\* What is known of the places that were found stays known.
LEMMA SameAssigned ==
    ASSUME UNCHANGED <<graph, assigned, buffer_size>>, AssignedInv
    PROVE  AssignedInv'
<1>0. graph' = graph /\ assigned' = assigned /\ buffer_size' = buffer_size
    OBVIOUS
<1>1. /\ Own' = Own
      /\ \A k : Root(k)' = Root(k)
    BY <1>0 DEF Own, Root, IsView, Tensors
<1>2. Uses' = Uses /\ \A e : Source(e)' = Source(e)
    BY <1>0 DEF Uses, Source, Tensors
<1>3. \A p, w : Needed(p, w)' <=> Needed(p, w)
    BY <1>0, <1>1, <1>2 DEF Needed
<1>4. \A p, w : Before(p, w)' <=> Before(p, w)
    BY <1>0 DEF Before
<1>. QED
    BY <1>0, <1>1, <1>3, <1>4 DEF AssignedInv

\* A call begins.
LEMMA Started ==
    ASSUME IInv, Idle, NEW g \in {model, Shift}, NEW n \in Batches, Start(g, n),
           phase' \in {"place", "load"}, computing' \in BOOLEAN
    PROVE  TypeOK' /\ AssignedInv' /\ model' \in Models /\ Given'
<1>1. Given /\ TypeOK /\ AssignedInv
    BY DEF IInv, Given, TypeOK
<1>2. /\ model' = model /\ graph' = g /\ batch' = n /\ next' = 0 /\ mem' = Blank
      /\ alloc' = alloc /\ assigned' = assigned /\ buffer_size' = buffer_size
    BY DEF Start
<1>3. Given'
    BY <1>1, <1>2 DEF Given
<1>4. IsGraph(g)
    BY <1>1, GraphsAssumption DEF Given
<1>5. Len(g) \in Nat
    BY <1>4, LenProperties DEF IsGraph
<1>6. mem' \in [Buffers \X (0 .. Arena - 1) -> 0 .. Len(g)]
    BY <1>2, <1>5 DEF Blank
<1>7. TypeOK'
    BY <1>1, <1>2, <1>3, <1>5, <1>6 DEF TypeOK, Given
<1>8. assigned.counts = Counts(g) => g = graph
    <2>1. assigned.counts \in {<<0, 0>>, Counts(graph)}
        BY DEF IInv, Idle, Ready
    <2>. QED
        BY <1>1, <2>1, CountsTell DEF Given
<1>9. AssignedInv'
    <2>1. CASE g = graph
        BY <1>1, <1>2, <2>1, SameAssigned
    <2>2. CASE g # graph
        <3>1. assigned'.counts # Counts(graph')
            BY <1>2, <1>8, <2>2
        <3>2. buffer_size' \in [Buffers -> 0 .. Arena]
            BY <1>1, <1>2 DEF TypeOK
        <3>. QED
            BY <3>1, <3>2 DEF AssignedInv
    <2>. QED
        BY <2>1, <2>2
<1>. QED
    BY <1>1, <1>2, <1>3, <1>7, <1>9 DEF Given

LEMMA ReserveKeeps == ASSUME IInv, Reserve PROVE IInv'
<1>1. Idle /\ Start(model, Max(Batches)) /\ phase' = "place" /\ computing' = FALSE
    BY DEF Reserve
<1>2. TypeOK' /\ AssignedInv' /\ model' \in Models
    BY <1>1, MaxBatchIs, Started
<1>3. next' = 0
    BY <1>1 DEF Start
<1>. QED
    BY <1>1, <1>2, <1>3 DEF IInv

LEMMA AllocGraphKeeps ==
    ASSUME IInv, NEW g \in {model, Shift}, NEW n \in Batches, AllocGraph(g, n)
    PROVE  IInv'
<1>1. /\ Idle /\ Start(g, n) /\ computing' = TRUE
      /\ phase' = IF NeedsRealloc(g, n) THEN "place" ELSE "load"
    BY DEF AllocGraph
<1>2. TypeOK' /\ AssignedInv' /\ model' \in Models /\ Given'
    BY <1>1, Started
<1>3. next' = 0 /\ graph' = g /\ batch' = n /\ assigned' = assigned
    BY <1>1 DEF Start
<1>4. CASE NeedsRealloc(g, n)
    BY <1>1, <1>2, <1>3, <1>4 DEF IInv
<1>5. CASE ~NeedsRealloc(g, n)
    <2>1. /\ assigned.counts = Counts(g)
          /\ \A k \in DOMAIN g :
                (g[k].op # "leaf" \/ \E s \in DOMAIN g : k \in Range(g[s].src)) /\ g[k].root = 0
                    => ~(SizeOf(g, n, k) > assigned.at[k].size)
        BY <1>5 DEF NeedsRealloc
    <2>2. IsGraph(g)
        BY <1>2, <1>3, GraphsAssumption DEF Given
    <2>3. \A k \in DOMAIN g : g[k].op = "leaf" => \E s \in DOMAIN g : k \in Range(g[s].src)
        BY <2>2 DEF IsGraph
    <2>4. \A k \in DOMAIN g : g[k].root = 0 => ~(SizeOf(g, n, k) > assigned.at[k].size)
        BY <2>1, <2>3
    <2>5. Own' = {k \in DOMAIN g : g[k].root = 0}
        BY <1>3 DEF Own, IsView, Tensors
    <2>6. assigned.at \in AnAssignment(g)
        BY <1>2, <1>3, <2>1 DEF AssignedInv
    <2>7. ASSUME NEW k \in DOMAIN g, g[k].root = 0
          PROVE  SizeOf(g, n, k) <= assigned.at[k].size
        <3>1. assigned.at[k].size \in Nat
            BY <2>6 DEF AnAssignment
        <3>2. SizeOf(g, n, k) \in Nat
            <4>1. g \in Seq([src : Seq(Nat), op : Ops, root : Nat, out : BOOLEAN, buffer : Buffers,
                              fixed : Nat, per : Nat])
                BY <2>2 DEF IsGraph
            <4>2. DOMAIN g = 1 .. Len(g) /\ Len(g) \in Nat
                BY <4>1, LenProperties
            <4>3. g[k] \in [src : Seq(Nat), op : Ops, root : Nat, out : BOOLEAN, buffer : Buffers,
                            fixed : Nat, per : Nat]
                BY <2>7, <4>1, <4>2, ElementOfSeq
            <4>4. g[k].fixed \in Nat /\ g[k].per \in Nat /\ n \in Nat
                BY <4>3, BatchesAssumption
            <4>. QED
                BY <4>4 DEF SizeOf
        <3>. QED
            BY <2>4, <2>7, <3>1, <3>2
    <2>8. Ready'
        BY <1>3, <2>1, <2>5, <2>7 DEF Ready, Size
    <2>. QED
        BY <1>1, <1>2, <1>5, <2>8 DEF IInv
<1>. QED
    BY <1>4, <1>5

\* A step of the placing.
LEMMA PlacingKeeps ==
    ASSUME IInv, phase = "place", NEW m \in 1 .. Len(graph) + 1, next' = m,
           Planned(alloc', m),
           UNCHANGED <<model, graph, batch, phase, computing, assigned, buffer_size, mem>>
    PROVE  IInv'
<1>1. TypeOK /\ AssignedInv /\ Given
    BY DEF IInv, TypeOK, Given
<1>2. Len(graph) \in Nat
    BY <1>1, GraphFacts
<1>3. /\ alloc'.children \in [DOMAIN alloc'.children -> Nat]
      /\ alloc'.views \in [DOMAIN alloc'.views -> Nat]
      /\ \A b \in Buffers : Len(alloc'.blocks[b]) > 0
    BY AllocTyped DEF Planned
<1>4. m \in 0 .. Len(graph) + 1
    BY <1>2
<1>5. TypeOK'
    BY <1>1, <1>3, <1>4 DEF TypeOK
<1>6. AssignedInv'
    BY <1>1, SameAssigned
<1>7. Planned(alloc, next)'
    BY SamePlanned
<1>. QED
    BY <1>5, <1>6, <1>7 DEF IInv

LEMMA PlaceLeafsKeeps == ASSUME IInv, PlaceLeafs PROVE IInv'
<1>1. Given
    BY DEF IInv, TypeOK, Given
<1>2. Planned(alloc', 1)
    BY <1>1, LeafsPlanned DEF PlaceLeafs
<1>3. 1 \in 1 .. Len(graph) + 1
    BY <1>1, GraphFacts
<1>. QED
    BY <1>2, <1>3, PlacingKeeps DEF PlaceLeafs

LEMMA PlaceNodeKeeps == ASSUME IInv, PlaceNode PROVE IInv'
<1>1. Given
    BY DEF IInv, TypeOK, Given
<1>2. PICK m, n : m = next /\ n = next + 1
    OBVIOUS
<1>3. m \in Tensors /\ m > 0 /\ n \in 1 .. Len(graph) + 1 /\ n = m + 1
    BY <1>1, <1>2, GraphFacts DEF PlaceNode
<1>4. Planned(alloc, m)
    BY <1>2, <1>3 DEF IInv, PlaceNode
<1>5. Planned(alloc', n)
    BY <1>1, <1>2, <1>3, <1>4, TurnTaken, LeafPassed DEF PlaceNode
<1>. QED
    BY <1>2, <1>3, <1>5, PlacingKeeps DEF PlaceNode

\* The places become the assignment.
LEMMA AssignKeeps == ASSUME IInv, Assign PROVE IInv'
<1>1. TypeOK /\ Given
    BY DEF IInv, TypeOK, Given
<1>2. PICK n : n = Len(graph)
    OBVIOUS
<1>3. n \in Nat /\ Tensors = 1 .. n /\ next = n + 1
    BY <1>1, <1>2, GraphFacts DEF Assign, TypeOK
<1>4. Planned(alloc, next)
    BY <1>3 DEF IInv, Assign
<1>5. PlacedBefore(next) = Own
    <2>1. \A k \in Own : k < next
        BY <1>1, <1>3, RootFacts
    <2>. QED
        BY <2>1 DEF PlacedBefore, Before
<1>6. TileInv(alloc, Own) /\ ApartInv(alloc, Own) /\ alloc \in AnAlloc
    BY <1>4, <1>5 DEF Planned, TileInv
<1>7. PICK at : at = [k \in Tensors |-> [place |-> alloc.place[k], offset |-> alloc.offset[k],
                                         size |-> Size(k)]]
    OBVIOUS
<1>8. PICK size : size = [b \in Buffers |-> Max({buffer_size[b], alloc.max_size[b]})]
    OBVIOUS
<1>9. /\ assigned' = [counts |-> Counts(graph), at |-> at] /\ buffer_size' = size
      /\ phase' = (IF computing THEN "load" ELSE "idle")
      /\ UNCHANGED <<model, graph, batch, next, computing, alloc, mem>>
    BY <1>7, <1>8 DEF Assign
<1>10. assigned'.counts = Counts(graph) /\ assigned'.at = at
    BY <1>9
<1>11. /\ at \in AnAssignment(graph)
       /\ \A k \in Tensors : /\ at[k].place = alloc.place[k] /\ at[k].offset = alloc.offset[k]
                             /\ at[k].size = Size(k)
    BY <1>1, <1>6, <1>7, AllocFields, GraphFacts DEF AnAssignment, Tensors
<1>12. ASSUME NEW b \in Buffers
       PROVE  size[b] \in 0 .. Arena /\ alloc.max_size[b] <= size[b]
    <2>1. PICK x, y : x = buffer_size[b] /\ y = alloc.max_size[b]
        OBVIOUS
    <2>2. x \in 0 .. Arena /\ y \in 0 .. Arena /\ Arena \in Nat
        BY <1>1, <1>6, <2>1, AllocTyped, ArenaAssumption DEF TypeOK
    <2>3. PICK z \in {x, y} : \A w \in {x, y} : z >= w
        <3>1. CASE x >= y
            BY <2>2, <3>1
        <3>2. CASE ~(x >= y)
            BY <2>2, <3>2
        <3>. QED
            BY <3>1, <3>2
    <2>4. Max({x, y}) \in {x, y} /\ \A w \in {x, y} : Max({x, y}) >= w
        BY <2>3 DEF Max
    <2>5. size[b] = Max({x, y})
        BY <1>8, <2>1
    <2>. QED
        BY <2>1, <2>2, <2>4, <2>5
<1>13. buffer_size' \in [Buffers -> 0 .. Arena]
    BY <1>8, <1>9, <1>12
<1>14. ASSUME NEW k \in Own
       PROVE  at[k].offset + at[k].size <= size[at[k].place]
    <2>1. k \in Tensors
        BY <1>1, RootFacts
    <2>2. PICK o, s, b : o = alloc.offset[k] /\ s = Size(k) /\ b = alloc.place[k]
        OBVIOUS
    <2>3. /\ o + s <= alloc.max_size[b] /\ o \in Nat /\ s \in Nat /\ b \in Buffers
          /\ alloc.max_size[b] \in Nat
        BY <1>1, <1>6, <2>1, <2>2, AllocFields, GraphFacts DEF TileInv, Peaks
    <2>4. alloc.max_size[b] <= size[b] /\ size[b] \in Nat
        BY <1>12, <2>3, ArenaAssumption
    <2>5. o + s <= size[b]
        BY <2>3, <2>4
    <2>. QED
        BY <1>11, <2>1, <2>2, <2>5
<1>15. ASSUME NEW p \in Own, NEW w \in Own, Overlap(at, p, w)
       PROVE  Clash(alloc, p, w)
    <2>1. p \in Tensors /\ w \in Tensors
        BY <1>1, RootFacts
    <2>. QED
        BY <1>11, <1>15, <2>1 DEF Overlap, Clash, At
<1>16. /\ \A p, w \in Own : Overlap(at, p, w) /\ p # w =>
            /\ p \notin Leafs(graph) \/ w \notin Leafs(graph)
            /\ w \notin Leafs(graph) /\ Before(p, w) => ~Needed(p, w)
    BY <1>6, <1>15 DEF ApartInv
<1>17. AssignedInv'
    <2>1. UNCHANGED <<graph, batch>>
        BY <1>9
    <2>2. Own' = Own /\ Leafs(graph)' = Leafs(graph)
          /\ \A p, w : (Needed(p, w)' <=> Needed(p, w)) /\ (Before(p, w)' <=> Before(p, w))
        BY <2>1, SameGraph
    <2>3. assigned'.at \in AnAssignment(graph')
        BY <1>9, <1>10, <1>11
    <2>4. \A k \in Own : assigned'.at[k].offset + assigned'.at[k].size
                            <= buffer_size'[assigned'.at[k].place]
        BY <1>9, <1>10, <1>14
    <2>. QED
        BY <1>10, <1>13, <1>16, <2>2, <2>3, <2>4 DEF AssignedInv
<1>18. Ready'
    <2>1. \A k \in Own : k \in Tensors /\ Size(k) \in Nat
        BY <1>1, RootFacts, GraphFacts
    <2>2. UNCHANGED <<graph, batch>>
        BY <1>9
    <2>3. Own' = Own /\ \A k : Size(k)' = Size(k)
        BY <2>2, SameGraph
    <2>4. \A k \in Own : Size(k) <= at[k].size
        BY <1>11, <2>1
    <2>. QED
        BY <1>9, <1>10, <2>3, <2>4 DEF Ready
<1>19. TypeOK'
    BY <1>1, <1>9, <1>13 DEF TypeOK
<1>. QED
    BY <1>1, <1>9, <1>10, <1>17, <1>18, <1>19 DEF IInv, Given

-----------------------------------------------------------------------------
(* The computation.                                                        *)

\* The units of a tensor lie in the buffer, and within what it was assigned.
LEMMA RegionFacts ==
    ASSUME Given, TypeOK, AssignedInv, Ready, NEW k \in Own
    PROVE  /\ \A u \in Region(k) :
                /\ u \in Buffers \X (0 .. Arena - 1)
                /\ u[1] = assigned.at[k].place /\ u[2] \in Nat
                /\ assigned.at[k].offset <= u[2]
                /\ u[2] < assigned.at[k].offset + assigned.at[k].size
           /\ assigned.at[k].offset + Size(k) <= buffer_size[assigned.at[k].place]
<1>1. k \in Tensors /\ Size(k) \in Nat /\ Arena \in Nat
    BY RootFacts, GraphFacts, ArenaAssumption
<1>2. assigned.at \in AnAssignment(graph)
    BY DEF AssignedInv, Ready
<1>3. PICK b, o, z, s, m : /\ b = assigned.at[k].place /\ o = assigned.at[k].offset
                           /\ z = assigned.at[k].size /\ s = Size(k) /\ m = buffer_size[b]
    OBVIOUS
<1>4. b \in Buffers /\ o \in Nat /\ z \in Nat /\ s \in Nat
    BY <1>1, <1>2, <1>3 DEF AnAssignment, Tensors
<1>5. s <= z /\ o + z <= m /\ m \in Nat /\ m <= Arena
    <2>1. s <= z
        BY <1>3 DEF Ready
    <2>2. o + z <= m
        BY <1>3 DEF AssignedInv, Ready
    <2>3. m \in 0 .. Arena
        BY <1>3, <1>4 DEF AssignedInv
    <2>. QED
        BY <1>1, <2>1, <2>2, <2>3
<1>6. Region(k) = {b} \X (o .. o + s - 1)
    BY <1>3 DEF Region
<1>7. ASSUME NEW u \in Region(k)
      PROVE  /\ u \in Buffers \X (0 .. Arena - 1)
             /\ u[1] = b /\ u[2] \in Nat /\ o <= u[2] /\ u[2] < o + z
    <2>1. PICK x \in o .. o + s - 1 : u = <<b, x>>
        BY <1>6
    <2>2. x \in Nat /\ o <= x /\ x < o + z /\ x \in 0 .. Arena - 1
        BY <1>1, <1>4, <1>5
    <2>. QED
        BY <1>4, <2>1, <2>2
<1>8. o + s <= m
    BY <1>4, <1>5
<1>. QED
    BY <1>3, <1>7, <1>8

\* Tensors that share a unit overlap.
LEMMA SharedUnit ==
    ASSUME Given, TypeOK, AssignedInv, Ready, NEW p \in Own, NEW w \in Own,
           NEW u, u \in Region(p), u \in Region(w)
    PROVE  Overlap(assigned.at, p, w)
<1>1. PICK x : x = u[2]
    OBVIOUS
<1>2. /\ x \in Nat /\ u[1] = assigned.at[p].place /\ u[1] = assigned.at[w].place
      /\ assigned.at[p].offset <= x /\ x < assigned.at[p].offset + assigned.at[p].size
      /\ assigned.at[w].offset <= x /\ x < assigned.at[w].offset + assigned.at[w].size
    BY <1>1, RegionFacts
<1>. QED
    BY <1>2 DEF Overlap

LEMMA SameReady ==
    ASSUME UNCHANGED <<graph, batch, assigned>>
    PROVE  (Ready => Ready') /\ \A k : Region(k)' = Region(k)
<1>1. graph' = graph /\ assigned' = assigned
    OBVIOUS
<1>2. Own' = Own /\ \A k : Size(k)' = Size(k)
    BY SameGraph
<1>3. Ready => Ready'
    BY <1>1, <1>2 DEF Ready
<1>4. \A k : Region(k)' = Region(k)
    BY <1>1, <1>2 DEF Region
<1>. QED
    BY <1>3, <1>4

LEMMA SameMemory ==
    ASSUME Given, UNCHANGED <<graph, batch, assigned>>, NEW m, next' = m,
           \A p \in PlacedBefore(m) : Needed(p, m - 1) => \A u \in Region(p) : mem'[u] = p
    PROVE  InMemory(next)'
<1>1. \A p \in PlacedBefore(m) : Root(p) = p
    BY RootFacts DEF PlacedBefore
<1>2. /\ PlacedBefore(m)' = PlacedBefore(m)
      /\ \A p, w : Needed(p, w)' <=> Needed(p, w)
      /\ \A p : Root(p)' = Root(p) /\ Region(p)' = Region(p)
    BY SameGraph, SameReady
<1>3. PlacedBefore(next)' = PlacedBefore(m)
    BY <1>2 DEF PlacedBefore
<1>. QED
    BY <1>1, <1>2, <1>3 DEF InMemory, Holds

LEMMA LoadKeeps == ASSUME IInv, Load PROVE IInv'
<1>1. TypeOK /\ Given /\ AssignedInv /\ Ready
    BY DEF IInv, TypeOK, Given, Load
<1>2. /\ phase' = "compute" /\ next' = 1
      /\ UNCHANGED <<model, graph, batch, computing, alloc, assigned, buffer_size>>
    BY DEF Load
<1>3. PICK n : n = Len(graph)
    OBVIOUS
<1>4. n \in Nat \ {0} /\ Tensors = 1 .. n
    BY <1>1, <1>3, GraphFacts
<1>5. PICK U : U = Buffers \X (0 .. Arena - 1)
    OBVIOUS
<1>6. mem \in [U -> 0 .. n]
    BY <1>1, <1>3, <1>5 DEF TypeOK
<1>. DEFINE leafs(u) == {k \in Tensors : graph[k].op = "leaf" /\ u \in Region(k)}
<1>7. mem' = [u \in U |-> IF leafs(u) = {} THEN 0 ELSE Max(leafs(u))]
    BY <1>6 DEF Load
<1>8. ASSUME NEW u \in U, leafs(u) # {}
      PROVE  Max(leafs(u)) \in leafs(u)
    <2>1. PICK S : S = leafs(u)
        OBVIOUS
    <2>2. S \in SUBSET (0 .. n) /\ S # {}
        BY <1>4, <1>8, <2>1
    <2>3. PICK x \in S : \A y \in S : y <= x
        BY <1>4, <2>2, GreatestNatural
    <2>4. \A y \in S : x >= y
        BY <1>4, <2>2, <2>3
    <2>5. Max(S) \in S
        BY <2>4 DEF Max
    <2>. QED
        BY <2>1, <2>5
<1>9. ASSUME NEW u \in U
      PROVE  mem'[u] \in 0 .. n
    <2>1. CASE leafs(u) = {}
        BY <1>4, <1>7, <2>1
    <2>2. CASE leafs(u) # {}
        <3>1. leafs(u) \subseteq 0 .. n
            BY <1>4
        <3>2. mem'[u] = Max(leafs(u))
            BY <1>7, <2>2
        <3>. HIDE DEF leafs
        <3>. QED
            BY <1>8, <2>2, <3>1, <3>2
    <2>. QED
        BY <2>1, <2>2
<1>10. mem' \in [U -> 0 .. n]
    BY <1>7, <1>9
<1>11. TypeOK'
    <2>1. next' \in 0 .. n + 1 /\ mem' \in [Buffers \X (0 .. Arena - 1) -> 0 .. n]
        BY <1>2, <1>4, <1>5, <1>10
    <2>. QED
        BY <1>1, <1>2, <1>3, <2>1 DEF TypeOK
<1>12. AssignedInv' /\ Ready'
    BY <1>1, <1>2, SameAssigned, SameReady
\* No other leaf is where a leaf is.
<1>13. ASSUME NEW p \in PlacedBefore(1), NEW u \in Region(p)
       PROVE  mem'[u] = p
    <2>1. p \in Own /\ p \in Leafs(graph) /\ p \in Tensors
        <3>1. p \in Own /\ p \in Tensors /\ ~(p < 1)
            BY <1>1, <1>4, RootFacts DEF PlacedBefore
        <3>. QED
            BY <3>1 DEF PlacedBefore, Before
    <2>2. u \in U
        BY <1>1, <1>5, <2>1, RegionFacts
    <2>3. ASSUME NEW k \in leafs(u)
          PROVE  k = p
        <3>1. k \in Leafs(graph) /\ k \in Own /\ u \in Region(k)
            BY <1>1, RootFacts DEF Leafs, Tensors
        <3>2. Overlap(assigned.at, p, k)
            BY <1>1, <2>1, <3>1, SharedUnit
        <3>. QED
            BY <1>1, <2>1, <3>1, <3>2 DEF AssignedInv, Ready
    <2>4. p \in leafs(u)
        BY <2>1 DEF Leafs, Tensors
    <2>5. mem'[u] = Max(leafs(u))
        BY <1>7, <2>2, <2>4
    <2>. HIDE DEF leafs
    <2>. QED
        BY <1>8, <2>2, <2>3, <2>4, <2>5
<1>14. InMemory(next)'
    BY <1>1, <1>2, <1>13, SameMemory
<1>. QED
    BY <1>1, <1>2, <1>3, <1>4, <1>11, <1>12, <1>14 DEF IInv, Given, Tensors

LEMMA ComputeKeeps == ASSUME IInv, Compute PROVE IInv'
<1>1. TypeOK /\ Given /\ AssignedInv /\ Ready /\ InMemory(next)
    BY DEF IInv, TypeOK, Given, Compute
<1>2. PICK n, k, m : n = Len(graph) /\ k = next /\ m = k + 1
    OBVIOUS
<1>3. /\ n \in Nat \ {0} /\ Tensors = 1 .. n /\ k \in Tensors /\ k \in Nat /\ m - 1 = k
      /\ m \in 0 .. n + 1 /\ (k # n => m \in 1 .. n) /\ (k = n => m = n + 1)
    <2>1. n \in Nat \ {0} /\ Tensors = 1 .. n
        BY <1>1, <1>2, GraphFacts
    <2>2. k \in 1 .. n
        BY <1>2, <2>1 DEF Compute
    <2>. QED
        BY <1>2, <2>1, <2>2
<1>4. /\ next' = m /\ phase' = (IF k = n THEN "done" ELSE "compute") /\ phase = "compute"
      /\ mem' = (IF graph[k].op = "leaf" \/ IsView(k) THEN mem ELSE Written(k))
      /\ UNCHANGED <<model, graph, batch, computing, alloc, assigned, buffer_size>>
    BY <1>2 DEF Compute
<1>5. PICK U : U = Buffers \X (0 .. Arena - 1)
    OBVIOUS
<1>6. mem \in [U -> 0 .. n]
    BY <1>1, <1>2, <1>5 DEF TypeOK
<1>7. mem' \in [U -> 0 .. n]
    <2>1. k \in 0 .. n
        BY <1>3
    <2>. QED
        BY <1>4, <1>6, <2>1 DEF Written
<1>8. TypeOK'
    BY <1>1, <1>2, <1>3, <1>4, <1>5, <1>7 DEF TypeOK
<1>9. AssignedInv' /\ Ready'
    BY <1>1, <1>4, SameAssigned, SameReady
\* What is needed behind k was needed before it, and was there.
<1>10. ASSUME NEW p, Needed(p, k)
       PROVE  Needed(p, k - 1)
    <2>1. \A e \in Uses : e[1] \in Nat
        BY <1>1, UsesFacts, GraphFacts
    <2>2. \A e \in Uses : e[1] > k \/ e[1] = k => e[1] > k - 1
        BY <1>3, <2>1
    <2>. QED
        BY <1>10, <2>2 DEF Needed
<1>11. ASSUME NEW p \in PlacedBefore(k), Needed(p, k)
       PROVE  p \in Own /\ \A u \in Region(p) : mem[u] = p
    <2>1. Holds(p)
        BY <1>1, <1>2, <1>10, <1>11 DEF InMemory
    <2>. QED
        BY <1>1, <2>1, RootFacts DEF Holds, PlacedBefore
<1>12. ASSUME NEW p \in PlacedBefore(m), Needed(p, k)
       PROVE  \A u \in Region(p) : mem'[u] = p
    <2>1. CASE graph[k].op = "leaf" \/ IsView(k)
        <3>1. k \notin Own \/ k \in Leafs(graph)
            BY <1>3, <2>1 DEF Own, Leafs, Tensors
        <3>2. PlacedBefore(m) = PlacedBefore(k)
            BY <1>1, <1>2, <1>3, <3>1, PlacedGrows
        <3>. QED
            BY <1>4, <1>11, <1>12, <2>1, <3>2
    <2>2. CASE ~(graph[k].op = "leaf" \/ IsView(k))
        <3>1. k \in Own /\ k \notin Leafs(graph)
            BY <1>3, <2>2 DEF Own, Leafs, Tensors
        <3>2. PlacedBefore(m) = PlacedBefore(k) \cup {k} /\ k \notin PlacedBefore(k)
            BY <1>1, <1>2, <1>3, <3>1, PlacedGrows
        <3>3. \A u \in U : mem'[u] = IF u \in Region(k) THEN k ELSE mem[u]
            BY <1>4, <1>6, <2>2 DEF Written
        <3>4. CASE p = k
            BY <1>1, <1>5, <3>1, <3>3, <3>4, RegionFacts
        <3>5. CASE p # k
            <4>1. p \in PlacedBefore(k) /\ p \in Own /\ \A u \in Region(p) : mem[u] = p
                BY <1>11, <1>12, <3>2, <3>5
            <4>2. ~Overlap(assigned.at, p, k)
                BY <1>1, <1>12, <3>1, <3>5, <4>1 DEF AssignedInv, Ready, PlacedBefore
            <4>3. ASSUME NEW u \in Region(p)
                  PROVE  u \in U /\ u \notin Region(k)
                BY <1>1, <1>5, <3>1, <4>1, <4>2, RegionFacts, SharedUnit
            <4>. QED
                BY <3>3, <4>1, <4>3
        <3>. QED
            BY <3>4, <3>5
    <2>. QED
        BY <2>1, <2>2
<1>13. InMemory(next)'
    BY <1>1, <1>3, <1>4, <1>12, SameMemory
<1>. QED
    BY <1>1, <1>2, <1>3, <1>4, <1>8, <1>9, <1>13 DEF IInv, Given, Tensors

-----------------------------------------------------------------------------
(* The theorems.                                                           *)

LEMMA StepInv == ASSUME IInv, [Next]_vars PROVE IInv'
<1>1. CASE \E g \in {model, Shift} : \E n \in Batches : AllocGraph(g, n)
    BY <1>1, AllocGraphKeeps
<1>2. CASE Reserve
    BY <1>2, ReserveKeeps
<1>3. CASE PlaceLeafs
    BY <1>3, PlaceLeafsKeeps
<1>4. CASE PlaceNode
    BY <1>4, PlaceNodeKeeps
<1>5. CASE Assign
    BY <1>5, AssignKeeps
<1>6. CASE Load
    BY <1>6, LoadKeeps
<1>7. CASE Compute
    BY <1>7, ComputeKeeps
<1>8. CASE UNCHANGED vars
    <2>1. UNCHANGED <<model, graph, batch, phase, next, computing, alloc, assigned, buffer_size, mem>>
        BY <1>8 DEF vars
    <2>2. TypeOK' /\ model' \in Models
        BY <2>1 DEF IInv, TypeOK
    <2>3. AssignedInv'
        BY <2>1, SameAssigned DEF IInv
    <2>4. phase' = "place" /\ next' > 0 => Planned(alloc, next)'
        BY <2>1, SamePlanned DEF IInv
    <2>5. phase' \in {"load", "compute", "done"} => Ready'
        BY <2>1, SameReady DEF IInv
    <2>6. ASSUME phase' \in {"compute", "done"}
          PROVE  InMemory(next)'
        <3>1. PICK m : m = next
            OBVIOUS
        <3>2. InMemory(m) /\ Given
            BY <2>1, <2>6, <3>1 DEF IInv, TypeOK, Given
        <3>3. \A p \in PlacedBefore(m) : Needed(p, m - 1) => \A u \in Region(p) : mem'[u] = p
            BY <2>1, <3>2, RootFacts DEF InMemory, Holds, PlacedBefore
        <3>. QED
            BY <2>1, <3>1, <3>2, <3>3, SameMemory
    <2>. QED
        BY <2>1, <2>2, <2>3, <2>4, <2>5, <2>6 DEF IInv, Tensors
<1>. QED
    BY <1>1, <1>2, <1>3, <1>4, <1>5, <1>6, <1>7, <1>8 DEF Next

LEMMA InvHolds == Spec => []IInv
BY InitInv, StepInv, PTL DEF Spec

\* The counts of ggml_gallocr_alloc_graph_impl never go below zero, every buffer has a
\* free block, and none grows beyond the arena.
THEOREM TypesKept == Spec => []TypeOK
<1>1. IInv => TypeOK
    BY DEF IInv
<1>. QED
    BY <1>1, InvHolds, PTL

\* ggml_dyn_tallocr_alloc and ggml_dyn_tallocr_free_tensor neither lose a unit nor give
\* it to two tensors, and without empty tensors keep the blocks in order and merged.
THEOREM PlacesTiled == Spec => []Tiled
<1>1. ASSUME IInv, phase = "place", next > 0, NEW b \in Buffers, NEW u \in 0 .. Arena - 1
      PROVE  LET blocks  == alloc.blocks[b]
                 own     == {k \in Tensors : alloc.allocated[k] /\ alloc.place[k] = b}
                 Here(w) == {k \in own : w \in alloc.offset[k] .. alloc.offset[k] + Size(k) - 1}
                 Free(w) == {i \in DOMAIN blocks : w \in blocks[i].offset .. End(blocks[i]) - 1}
             IN  Cardinality(Here(u)) + Cardinality(Free(u)) = 1
    <2>1. PICK blocks, own, in, free :
            /\ blocks = alloc.blocks[b]
            /\ own = {k \in Tensors : alloc.allocated[k] /\ alloc.place[k] = b}
            /\ in = {k \in own : u \in alloc.offset[k] .. alloc.offset[k] + Size(k) - 1}
            /\ free = {i \in DOMAIN blocks : u \in blocks[i].offset .. End(blocks[i]) - 1}
        OBVIOUS
    <2>2. Given /\ TileInv(alloc, PlacedBefore(next)) /\ alloc \in AnAlloc
        BY <1>1 DEF IInv, TypeOK, Given, Planned, TileInv
    <2>3. u \in Nat
        BY ArenaAssumption
    <2>4. \A k \in Tensors : alloc.offset[k] \in Nat /\ Size(k) \in Nat
        BY <2>2, AllocFields, GraphFacts
    <2>5. \A k \in Tensors : u \in alloc.offset[k] .. alloc.offset[k] + Size(k) - 1 <=> At(alloc, k, u)
        BY <2>3, <2>4 DEF At
    <2>6. in = {k \in Tensors : alloc.allocated[k] /\ alloc.place[k] = b /\ At(alloc, k, u)}
        BY <2>1, <2>5
    <2>7. \A i \in DOMAIN blocks : blocks[i].offset \in Nat /\ blocks[i].size \in Nat
        BY <2>1, <2>2, AllocFields, BlocksTyped
    <2>8. \A i \in DOMAIN blocks : u \in blocks[i].offset .. End(blocks[i]) - 1 <=> In(blocks[i], u)
        BY <2>3, <2>7 DEF In, End
    <2>9. free = {i \in DOMAIN blocks : In(blocks[i], u)}
        BY <2>1, <2>8
    <2>10. \A i, j \in free : i = j
        BY <2>1, <2>2, <2>3, <2>9 DEF TileInv, Blocks, Once
    <2>11. \A j, k \in in : j = k
        BY <2>2, <2>3, <2>6 DEF TileInv, Tiles, Clash
    <2>12. in # {} => free = {}
        BY <2>1, <2>2, <2>3, <2>6, <2>9 DEF TileInv, Tiles, FreeAt
    <2>13. in # {} \/ free # {}
        BY <2>1, <2>2, <2>6, <2>9 DEF TileInv, Tiles, FreeAt
    <2>14. ASSUME in # {}
           PROVE  Cardinality(in) + Cardinality(free) = 1
        <3>1. PICK k \in in : TRUE
            BY <2>14
        <3>2. in = {k} /\ free = {}
            BY <2>11, <2>12, <2>14, <3>1
        <3>3. Cardinality(in) = 1 /\ Cardinality(free) = 0
            BY <3>2, FS_Singleton, FS_EmptySet
        <3>. QED
            BY <3>3
    <2>15. ASSUME in = {}
           PROVE  Cardinality(in) + Cardinality(free) = 1
        <3>1. PICK i \in free : TRUE
            BY <2>13, <2>15
        <3>2. free = {i} /\ in = {}
            BY <2>10, <2>15, <3>1
        <3>3. Cardinality(free) = 1 /\ Cardinality(in) = 0
            BY <3>2, FS_Singleton, FS_EmptySet
        <3>. QED
            BY <3>3
    <2>16. Cardinality(in) + Cardinality(free) = 1
        BY <2>14, <2>15
    <2>. QED
        BY <2>1, <2>16, Zenon
<1>2. ASSUME IInv, phase = "place", next > 0, NEW b \in Buffers,
             NEW blocks, blocks = alloc.blocks[b],
             \A k \in Tensors : IsView(k) \/ Size(k) > 0, NEW i \in 1 .. Len(blocks) - 1
      PROVE  End(blocks[i]) < blocks[i + 1].offset
    <2>1. Given /\ TileInv(alloc, PlacedBefore(next)) /\ alloc \in AnAlloc
        BY <1>2 DEF IInv, TypeOK, Given, Planned, TileInv
    <2>2. \A k \in Own : Size(k) > 0
        BY <1>2 DEF Own
    <2>3. InOrder(blocks)
        BY <1>2, <2>1, <2>2 DEF TileInv, Blocks
    <2>4. DOMAIN blocks = 1 .. Len(blocks) /\ Len(blocks) \in Nat
        BY <1>2, <2>1, AllocFields, BlocksTyped
    <2>5. i \in DOMAIN blocks /\ i + 1 \in DOMAIN blocks /\ i < i + 1
        BY <2>4
    <2>. QED
        BY <2>3, <2>5 DEF InOrder
<1>3. ASSUME IInv, phase = "place", next > 0, NEW b \in Buffers,
             \A k \in Tensors : IsView(k) \/ Size(k) > 0,
             NEW i \in 1 .. Len(alloc.blocks[b]) - 1
      PROVE  End(alloc.blocks[b][i]) < alloc.blocks[b][i + 1].offset
    BY <1>2, <1>3
<1>4. IInv => Tiled
    BY <1>1, <1>3, Zenon DEF Tiled
<1>. QED
    BY <1>4, InvHolds, PTL

\* Whatever batch the places were found for, a tensor lies in its buffer, of which
\* ggml_gallocr_needs_realloc only compared the size it had then.
THEOREM TensorsFit == Spec => []Fits
<1>1. ASSUME IInv, phase \in {"load", "compute", "done"}, NEW k \in Tensors, ~IsView(k)
      PROVE  assigned.at[k].offset + Size(k) <= buffer_size[assigned.at[k].place]
    <2>1. Given /\ TypeOK /\ AssignedInv /\ Ready /\ k \in Own
        BY <1>1 DEF IInv, TypeOK, Given, Own
    <2>. QED
        BY <2>1, RegionFacts
<1>2. IInv => Fits
    BY <1>1 DEF Fits
<1>. QED
    BY <1>2, InvHolds, PTL

\* Tensors that share memory are never needed at the same time: a node reads what its
\* sources were computed to, though others were placed over, freed and written since.
THEOREM ReadsSound == Spec => []ReadsRight
<1>1. ASSUME IInv, phase = "compute", NEW s \in Reads(next)
      PROVE  Holds(s)
    <2>1. Given /\ InMemory(next) /\ next \in Tensors
        BY <1>1 DEF IInv, TypeOK, Given
    <2>2. PICK k, r : k = next /\ r = IF graph[k].op = "copy" THEN k - 1 ELSE k
        OBVIOUS
    <2>3. /\ k \in Nat /\ r \in Tensors /\ r <= k /\ Tensors \subseteq Nat
          /\ r = k \/ (r = k - 1 /\ graph[k - 1].op = "dep")
          /\ s \in Range(graph[r].src)
        <3>1. k \in 1 .. Len(graph) /\ Len(graph) \in Nat /\ Tensors = 1 .. Len(graph)
            BY <2>1, <2>2, GraphFacts
        <3>2. graph[k].op = "copy" => k > 1 /\ graph[k - 1].op = "dep"
            BY <2>1, <2>2, GraphFacts
        <3>3. s \in Range(graph[r].src)
            BY <1>1, <2>2 DEF Reads
        <3>. QED
            BY <2>2, <3>1, <3>2, <3>3
    <2>4. PICK j \in DOMAIN graph[r].src : s = graph[r].src[j]
        BY <2>3 DEF Range
    <2>5. PICK e : e = <<r, j>>
        OBVIOUS
    <2>6. e \in Uses /\ e[1] = r /\ Source(e) = s /\ s \in Tensors /\ s < r
        BY <2>1, <2>3, <2>4, <2>5, UsesFacts
    <2>7. PICK p : p = Root(s)
        OBVIOUS
    <2>8. p \in Own /\ p <= s /\ p \in Nat /\ s \in Nat /\ r \in Nat
        BY <2>1, <2>3, <2>6, <2>7, RootFacts
    <2>9. p \in PlacedBefore(k)
        <3>1. p < k
            BY <2>3, <2>6, <2>8
        <3>. QED
            BY <2>8, <3>1 DEF PlacedBefore, Before
    <2>10. Needed(p, k - 1)
        <3>1. r > k - 1 \/ (r = k - 1 /\ graph[k - 1].op = "dep")
            BY <2>3
        <3>. QED
            BY <2>6, <2>7, <3>1 DEF Needed
    <2>11. Holds(p)
        BY <2>1, <2>2, <2>9, <2>10 DEF InMemory
    <2>12. Root(p) = p
        BY <2>1, <2>8, RootFacts
    <2>. QED
        BY <2>7, <2>11, <2>12 DEF Holds
<1>2. ASSUME IInv, phase = "done", NEW k \in Tensors, graph[k].out \/ k = Len(graph)
      PROVE  Holds(k)
    <2>1. Given /\ InMemory(next) /\ next = Len(graph) + 1 /\ Len(graph) \in Nat /\ k \in 1 .. Len(graph)
        <3>1. Given /\ InMemory(next) /\ next = Len(graph) + 1
            BY <1>2 DEF IInv, TypeOK, Given
        <3>. QED
            BY <3>1, GraphFacts
    <2>2. PICK p : p = Root(k)
        OBVIOUS
    <2>3. p \in Own /\ p <= k /\ p \in Nat /\ Root(p) = p
        BY <2>1, <2>2, RootFacts
    <2>4. p \in PlacedBefore(next)
        <3>1. p < next
            BY <2>1, <2>3
        <3>. QED
            BY <2>3, <3>1 DEF PlacedBefore, Before
    <2>5. Needed(p, next - 1)
        <3>1. CASE graph[k].out
            <4>1. p = k
                BY <2>1, <2>2, <3>1, RootFacts
            <4>. QED
                BY <3>1, <4>1 DEF Needed
        <3>2. CASE k = Len(graph)
            BY <2>2, <3>2 DEF Needed
        <3>. QED
            BY <1>2, <3>1, <3>2
    <2>6. Holds(p)
        BY <2>1, <2>4, <2>5 DEF InMemory
    <2>. QED
        BY <2>2, <2>3, <2>6 DEF Holds
<1>3. IInv => ReadsRight
    BY <1>1, <1>2 DEF ReadsRight
<1>. QED
    BY <1>3, InvHolds, PTL

=============================================================================
