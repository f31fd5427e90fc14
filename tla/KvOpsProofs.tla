---------------------------- MODULE KvOpsProofs ----------------------------
(***************************************************************************)
(* What the proofs about the cache and about its loops need of cells, of   *)
(* the least of them, of the slot search, of the order in which a          *)
(* defragmentation fills the holes, and of the order of saved cells.       *)
(***************************************************************************)
EXTENDS KvOps, FiniteSetTheorems, FunctionTheorems, WellFoundedInduction, TLAPS

\* A nonempty set of naturals has a least element, and Least is it.
LEMMA LeastIsLeast ==
    ASSUME NEW S \in SUBSET Nat, S # {}
    PROVE  /\ Least(S) \in S
           /\ \A y \in S : Least(S) <= y
<1>1. PICK x \in S : \A y \in S : ~(<<y, x>> \in OpToRel(<, Nat))
  BY NatLessThanWellFounded, WFMin
<1>2. \A y \in S : ~(y < x)
  BY <1>1 DEF OpToRel
<1>3. \A y \in S : x <= y
  BY <1>2
<1>. QED BY <1>3 DEF Least

\* Every set of cells is finite.
LEMMA CellsFinite ==
    ASSUME NEW F \in SUBSET Cells
    PROVE  /\ IsFiniteSet(F)
           /\ Cardinality(F) \in Nat
<1>1. IsFiniteSet(Cells)
  BY FS_Interval, SizeAssumption DEF Cells
<1>2. IsFiniteSet(F)
  BY <1>1, FS_Subset
<1>. QED BY <1>2, FS_CardinalityType

\* The slot found for n tokens is n free cells in a row.
LEMMA FindSlotFits ==
    ASSUME NEW k, NEW n, CanPlace(k, n)
    PROVE  FindSlot(k, n) \in Fits(k, n)
<1>. DEFINE ahead == {h \in Fits(k, n) : h >= k.head}
<1>1. Fits(k, n) \in SUBSET Nat /\ ahead \in SUBSET Nat /\ ahead \subseteq Fits(k, n)
  BY SizeAssumption DEF Fits, Cells
<1>2. Fits(k, n) # {}
  BY DEF CanPlace
<1>3. Least(Fits(k, n)) \in Fits(k, n)
  BY <1>1, <1>2, LeastIsLeast
<1>4. ahead # {} => Least(ahead) \in ahead
  BY <1>1, LeastIsLeast
<1>. QED BY <1>1, <1>3, <1>4 DEF FindSlot

\* As many holes among the first used cells as cells behind them: what
\* GGML_ASSERT(nf == nh) asserts at each hole.
LEMMA HolesMatch ==
    ASSUME NEW k, k.used = Cardinality(UsedCells(k))
    PROVE  Cardinality(Holes(k)) = Cardinality(Movable(k))
<1>. DEFINE U == UsedCells(k)
            first == 0 .. k.used - 1
            low == {i \in U : i < k.used}
<1>1. U \in SUBSET Cells /\ IsFiniteSet(U) /\ Cardinality(U) \in Nat /\ k.used \in Nat
    <2>1. U \in SUBSET Cells
        BY DEF UsedCells
    <2>. QED
        BY <2>1, CellsFinite
<1>2. k.used <= Size
    <2>1. IsFiniteSet(Cells) /\ Cardinality(Cells) = Size
        BY FS_Interval, SizeAssumption DEF Cells
    <2>2. Cardinality(U) <= Cardinality(Cells)
        BY <1>1, <2>1, FS_Subset
    <2>. QED
        BY <2>1, <2>2
<1>3. IsFiniteSet(first) /\ Cardinality(first) = k.used
    <2>1. k.used - 1 \in Int /\ 0 \in Int
        BY <1>1
    <2>2. /\ IsFiniteSet(first)
          /\ Cardinality(first) = IF 0 > k.used - 1 THEN 0 ELSE k.used - 1 - 0 + 1
        BY <2>1, FS_Interval
    <2>. HIDE DEF first
    <2>. QED
        BY <1>1, <2>2
<1>4. Holes(k) = first \ low
    BY <1>1, <1>2, SizeAssumption DEF Holes, UsedCells, Cells
<1>5. Movable(k) = U \ low
    BY <1>1, SizeAssumption DEF Movable, UsedCells, Cells
<1>6. first \cap low = low /\ U \cap low = low
    BY <1>1, SizeAssumption DEF UsedCells, Cells
<1>7. Cardinality(first \ low) = Cardinality(first) - Cardinality(first \cap low)
    BY <1>3, FS_Difference
<1>8. Cardinality(U \ low) = Cardinality(U) - Cardinality(U \cap low)
    BY <1>1, FS_Difference
<1>. HIDE DEF U, first, low
<1>9. Cardinality(first \cap low) = Cardinality(low) /\ Cardinality(U \cap low) = Cardinality(low)
    BY <1>6
<1>. QED
    BY <1>3, <1>4, <1>5, <1>7, <1>8, <1>9 DEF U

\* SameHole is transitive and symmetric, and a hole has no gaps.
LEMMA HoleFacts ==
    ASSUME NEW k
    PROVE  /\ \A x, y \in Cells : SameHole(k, x, y) <=> SameHole(k, y, x)
           /\ \A x, y, z \in Cells :
                SameHole(k, x, y) /\ SameHole(k, y, z) => SameHole(k, x, z)
           /\ \A x, y, z \in Cells :
                SameHole(k, x, z) /\ x <= y /\ y <= z => SameHole(k, x, y) /\ SameHole(k, y, z)
           /\ \A x \in Holes(k) : SameHole(k, x, x)
<1>1. \A x, y \in Cells : SameHole(k, x, y) <=> SameHole(k, y, x)
    BY DEF SameHole
<1>2. ASSUME NEW x \in Cells, NEW y \in Cells, NEW z \in Cells,
             SameHole(k, x, y), SameHole(k, y, z)
      PROVE  SameHole(k, x, z)
    BY <1>2, SizeAssumption DEF SameHole, Cells
<1>3. ASSUME NEW x \in Cells, NEW y \in Cells, NEW z \in Cells,
             SameHole(k, x, z), x <= y, y <= z
      PROVE  SameHole(k, x, y) /\ SameHole(k, y, z)
    BY <1>3, SizeAssumption DEF SameHole, Cells
<1>4. ASSUME NEW x \in Holes(k)
      PROVE  SameHole(k, x, x)
    BY SizeAssumption DEF SameHole, Cells, Holes
<1>. QED
    BY <1>1, <1>2, <1>3, <1>4

\* Of two holes one is filled after the other.
LEMMA TakenApart ==
    ASSUME NEW k, NEW g \in Holes(k), NEW h \in Holes(k), g < h
    PROVE  Cardinality(TakenBefore(k, g)) # Cardinality(TakenBefore(k, h))
<1>0. g \in Cells /\ h \in Cells /\ Holes(k) \subseteq Cells /\ Cells \subseteq Nat
    BY SizeAssumption DEF Holes, Cells
<1>1. TakenBefore(k, g) \subseteq Cells /\ TakenBefore(k, h) \subseteq Cells
    BY <1>0 DEF TakenBefore
<1>2. CASE SameHole(k, g, h)
    <2>1. h \in TakenBefore(k, g) /\ h \notin TakenBefore(k, h)
        BY <1>0, <1>2, HoleFacts DEF TakenBefore
    <2>2. ASSUME NEW x \in TakenBefore(k, h)
          PROVE  x \in TakenBefore(k, g)
        <3>0. x \in Cells /\ x \in Holes(k)
            BY <1>0 DEF TakenBefore
        <3>1. CASE SameHole(k, x, h)
            <4>1. SameHole(k, x, g)
                BY <1>0, <1>2, <3>0, <3>1, HoleFacts
            <4>2. x > h
                BY <3>1 DEF TakenBefore
            <4>. QED
                BY <1>0, <3>0, <4>1, <4>2 DEF TakenBefore
        <3>2. CASE ~SameHole(k, x, h)
            <4>1. ~SameHole(k, x, g)
                BY <1>0, <1>2, <3>0, <3>2, HoleFacts
            <4>2. x < h
                BY <3>2 DEF TakenBefore
            <4>3. ~(g <= x)
                BY <1>0, <1>2, <3>0, <3>2, <4>2, HoleFacts
            <4>. QED
                BY <1>0, <3>0, <4>1, <4>3 DEF TakenBefore
        <3>. QED
            BY <3>1, <3>2
    <2>3. IsFiniteSet(TakenBefore(k, g)) /\ TakenBefore(k, h) \in SUBSET TakenBefore(k, g)
        BY <1>1, <2>2, CellsFinite
    <2>4. Cardinality(TakenBefore(k, g)) = Cardinality(TakenBefore(k, h)) =>
            TakenBefore(k, g) = TakenBefore(k, h)
        BY <2>3, FS_Subset
    <2>. QED
        BY <2>1, <2>4
<1>3. CASE ~SameHole(k, g, h)
    <2>1. g \in TakenBefore(k, h) /\ g \notin TakenBefore(k, g)
        BY <1>0, <1>3, HoleFacts DEF TakenBefore
    <2>2. ASSUME NEW x \in TakenBefore(k, g)
          PROVE  x \in TakenBefore(k, h)
        <3>0. x \in Cells /\ x \in Holes(k)
            BY <1>0 DEF TakenBefore
        <3>1. CASE SameHole(k, x, g)
            <4>1. ~SameHole(k, x, h)
                BY <1>0, <1>3, <3>0, <3>1, HoleFacts
            <4>2. x > g
                BY <3>1 DEF TakenBefore
            <4>3. ~(h <= x)
                BY <1>0, <1>3, <3>0, <3>1, <4>2, HoleFacts
            <4>. QED
                BY <1>0, <3>0, <4>1, <4>3 DEF TakenBefore
        <3>2. CASE ~SameHole(k, x, g)
            <4>1. x < g
                BY <3>2 DEF TakenBefore
            <4>2. ~SameHole(k, x, h)
                BY <1>0, <1>3, <3>0, <4>1, HoleFacts
            <4>. QED
                BY <1>0, <3>0, <4>1, <4>2 DEF TakenBefore
        <3>. QED
            BY <3>1, <3>2
    <2>3. IsFiniteSet(TakenBefore(k, h)) /\ TakenBefore(k, g) \in SUBSET TakenBefore(k, h)
        BY <1>1, <2>2, CellsFinite
    <2>4. Cardinality(TakenBefore(k, h)) = Cardinality(TakenBefore(k, g)) =>
            TakenBefore(k, h) = TakenBefore(k, g)
        BY <2>3, FS_Subset
    <2>. QED
        BY <2>1, <2>4
<1>. QED
    BY <1>2, <1>3

\* One cell goes to a hole, and a cell goes to one hole.
LEMMA MovesToOneToOne ==
    ASSUME NEW k, NEW t, NEW u, NEW g, NEW h,
           MovesTo(k, t, g), MovesTo(k, u, h)
    PROVE  t = u <=> g = h
<1>. DEFINE later(x) == {y \in Movable(k) : y > x}
<1>0. /\ g \in Holes(k) /\ h \in Holes(k) /\ t \in Movable(k) /\ u \in Movable(k)
      /\ Cardinality(later(t)) = Cardinality(TakenBefore(k, g))
      /\ Cardinality(later(u)) = Cardinality(TakenBefore(k, h))
    BY DEF MovesTo
<1>1. /\ Holes(k) \subseteq Nat /\ Movable(k) \subseteq Nat /\ Movable(k) \subseteq Cells
    BY SizeAssumption DEF Holes, Movable, Cells
<1>2. ASSUME t = u
      PROVE  g = h
    <2>1. ~(g < h) /\ ~(h < g)
        BY <1>0, <1>2, TakenApart
    <2>. QED
        BY <1>0, <1>1, <2>1
<1>3. ASSUME NEW x \in Movable(k), NEW y \in Movable(k), x < y
      PROVE  Cardinality(later(x)) # Cardinality(later(y))
    <2>1. y \in later(x) /\ y \notin later(y) /\ later(y) \in SUBSET later(x)
        BY <1>1, <1>3
    <2>2. IsFiniteSet(later(x))
        BY <1>1, CellsFinite
    <2>. HIDE DEF later
    <2>3. Cardinality(later(x)) = Cardinality(later(y)) => later(x) = later(y)
        BY <2>1, <2>2, FS_Subset
    <2>. QED
        BY <2>1, <2>3
<1>4. ASSUME g = h
      PROVE  t = u
    <2>. HIDE DEF later
    <2>1. ~(t < u) /\ ~(u < t)
        BY <1>0, <1>3, <1>4
    <2>. QED
        BY <1>0, <1>1, <2>1
<1>. QED
    BY <1>2, <1>4

\* A finite set of naturals has a part of any size at its upper end.
LEMMA CutOff ==
    ASSUME NEW F \in SUBSET Nat, IsFiniteSet(F), NEW m \in Nat \ {0}, m <= Cardinality(F)
    PROVE  \E i \in F : Cardinality({j \in F : j >= i}) = m
<1>. DEFINE A(i) == {j \in F : j >= i}
            C == {c \in Nat : c >= m /\ \E i \in F : Cardinality(A(i)) = c}
<1>1. \A i : IsFiniteSet(A(i)) /\ Cardinality(A(i)) \in Nat
    BY FS_Subset, FS_CardinalityType
<1>2. C # {}
    <2>1. F # {}
        BY FS_EmptySet
    <2>2. Least(F) \in F /\ \A j \in F : Least(F) <= j
        BY <2>1, LeastIsLeast
    <2>3. A(Least(F)) = F
        BY <2>2
    <2>. QED
        BY <1>1, <2>2, <2>3
<1>3. PICK c \in C : \A d \in C : c <= d
    <2>1. C \in SUBSET Nat
        OBVIOUS
    <2>. HIDE DEF C
    <2>. QED
        BY <1>2, <2>1, LeastIsLeast
<1>4. PICK i \in F : Cardinality(A(i)) = c
    OBVIOUS
<1>5. c \in Nat /\ c >= m
    OBVIOUS
<1>6. ASSUME c > m
      PROVE  FALSE
    <2>. DEFINE Ai == A(i)
                B == Ai \ {i}
    <2>1. i \in Ai /\ Ai \in SUBSET Nat /\ Ai \subseteq F /\ IsFiniteSet(Ai) /\ Cardinality(Ai) = c
        <3>1. i \in Ai /\ Ai \subseteq F
            OBVIOUS
        <3>2. Cardinality(Ai) = c
            BY <1>4
        <3>. QED
            BY <3>1, <3>2, FS_Subset
    <2>2. \A j \in B : j > i
        OBVIOUS
    <2>3. \A j \in F : j > i => j \in B
        OBVIOUS
    <2>. HIDE DEF Ai
    <2>4. IsFiniteSet(B) /\ Cardinality(B) = c - 1
        BY <2>1, FS_RemoveElement
    <2>5. B \in SUBSET Nat /\ B \subseteq F
        BY <2>1
    <2>. HIDE DEF B
    <2>6. B # {}
        BY <1>5, <1>6, <2>4, FS_EmptySet
    <2>7. Least(B) \in B /\ \A j \in B : Least(B) <= j
        BY <2>5, <2>6, LeastIsLeast
    <2>8. ASSUME NEW j \in F PROVE j \in B <=> j >= Least(B)
        <3>. DEFINE x == Least(B)
        <3>1. x \in B /\ x > i /\ (j \in B => x <= j) /\ (j > i => j \in B)
            BY <2>2, <2>3, <2>7
        <3>2. x \in Nat /\ j \in Nat /\ i \in Nat
            BY <2>5, <3>1
        <3>. HIDE DEF x
        <3>3. j \in B <=> j >= x
            BY <3>1, <3>2
        <3>. QED
            BY <3>3 DEF x
    <2>9. {j \in F : j >= Least(B)} = B
        <3>. DEFINE x == Least(B)
        <3>1. \A j \in F : j \in B <=> j >= x
            BY <2>8
        <3>. HIDE DEF x
        <3>2. {j \in F : j >= x} = B
            BY <2>5, <3>1
        <3>. QED
            BY <3>2 DEF x
    <2>10. c - 1 \in C
        <3>1. c - 1 \in Nat /\ c - 1 >= m
            BY <1>5, <1>6
        <3>2. Least(B) \in F
            BY <2>5, <2>7
        <3>. QED
            BY <2>4, <2>9, <3>1, <3>2
    <2>. QED
        BY <1>3, <1>5, <2>10
<1>. QED
    BY <1>4, <1>5, <1>6

-----------------------------------------------------------------------------
(* Recursive functions.                                                    *)

\* The values of a loop of n steps from init, of which the ith takes v to g[i][v].
Steps(g, n, V) == g \in [1 .. n -> [V -> V]]
Values(f, init, g, n, V) ==
    /\ f \in [0 .. n -> V]
    /\ f[0] = init
    /\ \A i \in 1 .. n : f[i] = g[i][f[i - 1]]

\* Such a loop has values all along: the equation that defines a recursive function has a solution.
LEMMA LoopHasValues ==
    ASSUME NEW n \in Nat, NEW V, NEW init \in V, NEW g, Steps(g, n, V)
    PROVE  \E f : Values(f, init, g, n, V)
<1>. USE DEF Steps
<1>. DEFINE Ok(m, f) == /\ f \in [0 .. m -> V]
                        /\ f[0] = init
                        /\ \A i \in 1 .. m : f[i] = g[i][f[i - 1]]
            S == {m \in 0 .. n : ~\E f : Ok(m, f)}
<1>1. CASE S = {}
    <2>1. PICK f : Ok(n, f)
        BY <1>1
    <2>. QED
        BY <2>1 DEF Values
<1>2. CASE S # {}
    <2>0. S \in SUBSET Nat /\ S \subseteq 0 .. n
        OBVIOUS
    <2>1. PICK m \in S : \A y \in S : m <= y
        <3>. HIDE DEF S
        <3>. QED
            BY <1>2, <2>0, LeastIsLeast
    <2>2. CASE m = 0
        <3>1. Ok(0, [i \in 0 .. 0 |-> init])
            OBVIOUS
        <3>. QED
            BY <2>2, <3>1
    <2>3. CASE m # 0
        <3>1. m \in Nat /\ m - 1 \in 0 .. n /\ m - 1 \notin S /\ m \in 1 .. n
            <4>. HIDE DEF S
            <4>. QED
                BY <2>0, <2>1, <2>3
        <3>2. PICK f : Ok(m - 1, f)
            BY <3>1
        <3>. DEFINE h == [i \in 0 .. m |-> IF i = m THEN g[m][f[m - 1]] ELSE f[i]]
        <3>3. f[m - 1] \in V /\ g[m][f[m - 1]] \in V
            BY <3>1, <3>2
        <3>4. h \in [0 .. m -> V]
            BY <3>1, <3>2, <3>3
        <3>5. h[0] = init
            BY <3>1, <3>2
        <3>6. ASSUME NEW i \in 1 .. m
              PROVE  h[i] = g[i][h[i - 1]]
            BY <3>1, <3>2
        <3>7. Ok(m, h)
            BY <3>4, <3>5, <3>6
        <3>. QED
            BY <3>7
    <2>. QED
        BY <2>2, <2>3
<1>. QED
    BY <1>1, <1>2

-----------------------------------------------------------------------------
(* The cells of a set in the order of the cache.                           *)

\* Each cell of I has a rank of its own among them.
LEMMA RankOneToOne ==
    ASSUME NEW I \in SUBSET Cells, NEW a \in I, NEW b \in I,
           Cardinality({j \in I : j <= a}) = Cardinality({j \in I : j <= b})
    PROVE  a = b
<1>. DEFINE upto(i) == {j \in I : j <= i}
<1>1. IsFiniteSet(I) /\ I \subseteq Nat
    BY CellsFinite, SizeAssumption DEF Cells
<1>2. ASSUME NEW i \in I, NEW j \in I, i < j
      PROVE  Cardinality(upto(i)) # Cardinality(upto(j))
    <2>0. (\A x \in I : x <= i => x <= j) /\ j <= j /\ ~(j <= i)
        BY <1>1, <1>2
    <2>1. upto(i) \in SUBSET upto(j) /\ j \in upto(j) /\ j \notin upto(i) /\ upto(j) \in SUBSET I
        BY <2>0
    <2>. HIDE DEF upto
    <2>2. IsFiniteSet(upto(j))
        BY <1>1, <2>1, FS_Subset
    <2>3. Cardinality(upto(j)) = Cardinality(upto(i)) => upto(j) = upto(i)
        BY <2>1, <2>2, FS_Subset
    <2>. QED
        BY <2>1, <2>3
<1>3. Cardinality(upto(a)) = Cardinality(upto(b))
    OBVIOUS
<1>4. a \in Nat /\ b \in Nat
    BY <1>1
<1>5. ~(a < b) /\ ~(b < a)
    <2>. HIDE DEF upto
    <2>. QED
        BY <1>2, <1>3
<1>. QED
    BY <1>4, <1>5

\* The cells up to one of I are counted from 1 to the number of all of them.
LEMMA RankReached ==
    ASSUME NEW I \in SUBSET Cells, NEW n \in 1 .. Cardinality(I)
    PROVE  \E i \in I : Cardinality({j \in I : j <= i}) = n
<1>. DEFINE upto(i) == {j \in I : j <= i}
            rank == [i \in I |-> Cardinality(upto(i))]
            N == 1 .. Cardinality(I)
<1>1. IsFiniteSet(I) /\ Cardinality(I) \in Nat /\ I \subseteq Nat
    BY CellsFinite, SizeAssumption DEF Cells
<1>2. ASSUME NEW i \in I
      PROVE  IsFiniteSet(upto(i)) /\ rank[i] \in N
    <2>1. upto(i) \in SUBSET I /\ i \in upto(i)
        BY <1>1
    <2>. HIDE DEF upto
    <2>2. /\ IsFiniteSet(upto(i)) /\ Cardinality(upto(i)) <= Cardinality(I)
          /\ Cardinality(upto(i)) \in Nat
        BY <1>1, <2>1, FS_Subset, FS_CardinalityType
    <2>3. Cardinality(upto(i)) # 0
        BY <2>1, <2>2, FS_EmptySet
    <2>. QED
        BY <1>1, <2>2, <2>3
<1>. HIDE DEF upto
<1>4. rank \in Injection(I, N)
    <2>1. rank \in [I -> N]
        BY <1>2
    <2>. HIDE DEF rank
    <2>2. \A i, j \in I : rank[i] = rank[j] => i = j
        BY RankOneToOne DEF rank, upto
    <2>. QED
        BY <2>1, <2>2, Fun_IsInj
<1>5. IsFiniteSet(N) /\ Cardinality(N) = Cardinality(I)
    <2>1. Cardinality(I) \in Int /\ 1 \in Int
        BY <1>1
    <2>2. /\ IsFiniteSet(N)
          /\ Cardinality(N) = IF 1 > Cardinality(I) THEN 0 ELSE Cardinality(I) - 1 + 1
        BY <2>1, FS_Interval
    <2>. HIDE DEF N
    <2>. QED
        BY <1>1, <2>2
<1>. HIDE DEF rank, N
<1>6. rank \in Surjection(I, N)
    BY <1>4, <1>5, FS_Injection
<1>7. n \in N
    BY DEF N
<1>8. PICK i \in I : rank[i] = n
    BY <1>6, <1>7, Fun_SurjectionProperties
<1>. QED
    BY <1>8 DEF rank, upto

LEMMA CellsInside ==
    ASSUME NEW k, NEW I \in SUBSET Cells
    PROVE  /\ DOMAIN CellsIn(k, I) = 1 .. Cardinality(I) /\ Cardinality(I) \in Nat
           /\ \A n \in 1 .. Cardinality(I) : CellsIn(k, I)[n] \in I
<1>1. Cardinality(I) \in Nat
    BY CellsFinite
<1>2. \A n \in 1 .. Cardinality(I) : CellsIn(k, I)[n] \in I
    BY RankReached DEF CellsIn
<1>. QED
    BY <1>1, <1>2 DEF CellsIn

RankOf(I, i) == Cardinality({j \in I : j <= i})

\* CellsIn lists each of them once.
LEMMA CellsListed ==
    ASSUME NEW k, NEW I \in SUBSET Cells
    PROVE  /\ \A a, b \in 1 .. Cardinality(I) : CellsIn(k, I)[a] = CellsIn(k, I)[b] => a = b
           /\ \A i \in I : RankOf(I, i) \in 1 .. Cardinality(I) /\ CellsIn(k, I)[RankOf(I, i)] = i
<1>. DEFINE m == Cardinality(I)
            rank(i) == RankOf(I, i)
<1>1. IsFiniteSet(I) /\ m \in Nat /\ I \subseteq Nat
    BY CellsFinite, SizeAssumption DEF Cells
<1>2. ASSUME NEW n \in 1 .. m
      PROVE  CellsIn(k, I)[n] \in I /\ rank(CellsIn(k, I)[n]) = n
    <2>1. \E i \in I : rank(i) = n
        BY RankReached DEF RankOf
    <2>2. CellsIn(k, I)[n] = CHOOSE i \in I : rank(i) = n
        BY DEF CellsIn, RankOf
    <2>. HIDE DEF rank
    <2>. QED
        BY <2>1, <2>2
<1>3. ASSUME NEW i \in I
      PROVE  rank(i) \in 1 .. m
    <2>. DEFINE upto == {j \in I : j <= i}
    <2>1. upto \in SUBSET I /\ i \in upto
        BY <1>1
    <2>. HIDE DEF upto
    <2>2. IsFiniteSet(upto) /\ Cardinality(upto) <= m /\ Cardinality(upto) \in Nat
        BY <1>1, <2>1, FS_Subset, FS_CardinalityType
    <2>3. Cardinality(upto) # 0
        BY <2>1, <2>2, FS_EmptySet
    <2>4. Cardinality(upto) \in 1 .. m
        BY <1>1, <2>2, <2>3
    <2>. QED
        BY <2>4 DEF upto, RankOf
<1>4. \A a, b \in I : rank(a) = rank(b) => a = b
    BY RankOneToOne DEF RankOf
<1>. HIDE DEF rank, m
<1>5. \A a, b \in 1 .. m : CellsIn(k, I)[a] = CellsIn(k, I)[b] => a = b
    BY <1>2
<1>6. ASSUME NEW i \in I
      PROVE  CellsIn(k, I)[rank(i)] = i
    BY <1>2, <1>3, <1>4
<1>. QED
    BY <1>3, <1>5, <1>6 DEF m, rank

=============================================================================
