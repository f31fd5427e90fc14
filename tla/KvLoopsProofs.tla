--------------------------- MODULE KvLoopsProofs ---------------------------
(***************************************************************************)
(* The loop of llama_kv_cache_find_slot for every size of the cache: it    *)
(* finds the slot KvOps!FindSlot names, and gives up only when there is    *)
(* none.                                                                   *)
(*                                                                         *)
(* The loop counts the cells it tested, not the places.  It makes a first  *)
(* pass from the head it began with to the end and a second from the       *)
(* start, and a third, hopeless one when the second meets the end before   *)
(* enough cells were counted.                                              *)
(***************************************************************************)
EXTENDS KvLoops, KvOpsProofs

Fields == {"pos", "delta", "seq_id", "tok", "rot", "head", "used", "has_shift", "do_defrag"}

Shaped(c) == DOMAIN c = Fields /\ c.head \in 0 .. Size /\ c.used \in 0 .. Size

\* Only the head differs from the cache the search began with.
OnlyHead == k = [k0 EXCEPT !.head = k.head]

NoFit(A) == \A h \in A : ~FitsAt(k0, n, h)

BusyCells == {i \in Cells : ~Free(k0, i)}

\* Every occupied cell before the head was met, and the search went on from it.
MetBusy ==
    /\ k.head > 0 => k.head - 1 \in BusyCells
    /\ \A j \in BusyCells : j + 1 < k.head => j + 1 + n <= Size

FirstPass ==
    /\ k0.head <= k.head
    /\ n_tested = k.head - k0.head
    /\ n_tested < Size
    /\ NoFit(k0.head .. k.head - 1)
    /\ k0.head = 0 => MetBusy

SecondPass ==
    /\ k.head < k0.head
    /\ n_tested = Size - k0.head + k.head
    /\ NoFit(k0.head .. Size - 1) /\ NoFit(0 .. k.head - 1)
    /\ MetBusy

From == IF k0.head = 0 THEN Size ELSE k0.head

GiveUp ==
    {i \in BusyCells : /\ i + 1 >= From
                       /\ \A j \in BusyCells : j < i => j + 1 + n <= Size}

ThirdPass ==
    /\ k.head = 0
    /\ n_tested \in Nat /\ n_tested >= Size
    /\ NoFit(Cells)
    /\ GiveUp = {}

Searching ==
    /\ OnlyHead
    /\ n \in 1 .. Size
    /\ FirstPass \/ SecondPass \/ ThirdPass

SearchInv ==
    /\ Shaped(k)
    /\ pc \in {"search", "found", "none"} => Shaped(k0)
    /\ pc = "search" => Searching
    /\ FoundRight
    /\ NoneRight

-----------------------------------------------------------------------------

LEMMA UsedInRange ==
    ASSUME NEW U \in SUBSET Cells
    PROVE  Cardinality(U) \in 0 .. Size
<1>1. Cardinality(Cells) = Size /\ IsFiniteSet(Cells)
    BY FS_Interval, SizeAssumption DEF Cells
<1>. QED
    BY <1>1, CellsFinite, FS_Subset, SizeAssumption

LEMMA SearchInit == LoopInit => SearchInv
<1>. SUFFICES ASSUME LoopInit PROVE SearchInv
    OBVIOUS
<1>1. PICK U \in SUBSET Cells, h \in 0 .. Size : k = CacheWith(U, h)
    BY DEF LoopInit
<1>2. Shaped(k)
    BY <1>1, UsedInRange DEF Shaped, CacheWith, InitCache, Fields
<1>. QED
    BY <1>2 DEF LoopInit, SearchInv, FoundRight, NoneRight

\* Defragmentation leaves used alone and sets the head to it.
LEMMA DefragShape ==
    ASSUME SearchInv, DefragNext
    PROVE  SearchInv'
<1>1. pc' \notin {"search", "found", "none"}
    BY DEF DefragNext, Stay, Hole, Gap, MoveCell, Scanned, CopyRows
<1>2. Shaped(k')
    <2>1. k' = k \/ (\E to : k' = CellMoved(to)) \/ \E f, g : k' = [k EXCEPT !.tok = f, !.rot = g]
        BY DEF DefragNext, Stay, Hole, Gap, MoveCell, Scanned, CopyRows
    <2>. QED
        BY <2>1 DEF SearchInv, Shaped, CellMoved, Fields
<1>. QED
    BY <1>1, <1>2 DEF SearchInv, FoundRight, NoneRight

LEMMA BeginSearchStep ==
    ASSUME SearchInv, BeginSearch
    PROVE  SearchInv'
<1>1. /\ n' \in 1 .. Size + 1
      /\ k' = [k EXCEPT !.head = HeadBefore(n')] /\ k0' = k'
      /\ pc' = IF n' > Size THEN "none" ELSE "search"
      /\ n_tested' = 0
    BY DEF BeginSearch
<1>2. Shaped(k') /\ k'.head \in 0 .. Size
    BY <1>1, SizeAssumption DEF SearchInv, Shaped, HeadBefore, Fields
<1>3. k' = [k0' EXCEPT !.head = k'.head]
    BY <1>1, <1>2 DEF Shaped, Fields
<1>4. CASE n' > Size
    <2>1. NoneRight'
        BY <1>1, <1>2, <1>3, <1>4, SizeAssumption DEF NoneRight, CanPlace, HeadAfterMiss
    <2>. QED
        BY <1>1, <1>2, <1>4, <2>1 DEF SearchInv, FoundRight
<1>5. CASE n' <= Size
    <2>1. FirstPass'
        BY <1>1, <1>2, <1>5, SizeAssumption
           DEF FirstPass, NoFit, MetBusy, BusyCells, Cells, Shaped, HeadBefore
    <2>2. Searching'
        BY <1>1, <1>3, <1>5, <2>1, SizeAssumption DEF Searching, OnlyHead
    <2>. QED
        BY <1>1, <1>2, <1>5, <2>2, SizeAssumption DEF SearchInv, FoundRight, NoneRight
<1>. QED
    BY <1>1, <1>4, <1>5, SizeAssumption

-----------------------------------------------------------------------------
(* The turns of the search.                                                *)

LEMMA SameCells ==
    ASSUME SearchInv, pc = "search"
    PROVE  /\ \A i : Free(k, i) <=> Free(k0, i)
           /\ k.head \in 0 .. Size /\ k0.head \in 0 .. Size /\ Size \in Nat \ {0}
           /\ n \in 1 .. Size
           /\ \A x \in 0 .. Size : [k EXCEPT !.head = x] = [k0 EXCEPT !.head = x]
           /\ \A x \in 0 .. Size : [k EXCEPT !.head = x].head = x
           /\ BusyCells \in SUBSET Nat
<1>1. /\ DOMAIN k0 = Fields /\ DOMAIN k = Fields
      /\ k = [k0 EXCEPT !.head = k.head]
      /\ k.head \in 0 .. Size /\ k0.head \in 0 .. Size /\ n \in 1 .. Size
    BY DEF SearchInv, Searching, Shaped, OnlyHead
<1>2. k.pos = k0.pos
    BY <1>1 DEF Fields
<1>3. \A x \in 0 .. Size : /\ [k EXCEPT !.head = x] = [k0 EXCEPT !.head = x]
                           /\ [k EXCEPT !.head = x].head = x
    BY <1>1 DEF Fields
<1>. QED
    BY <1>1, <1>2, <1>3, SizeAssumption DEF Free, BusyCells, Cells

\* A place that would reach beyond the last cell is none.
LEMMA WrapStep ==
    ASSUME SearchInv, Wrap
    PROVE  SearchInv'
<1>. DEFINE H == k0.head
<1>1. /\ pc = "search" /\ pc' = "search" /\ k0' = k0 /\ n' = n
      /\ k.head + n > Size
      /\ n_tested' = n_tested + (Size - k.head)
      /\ k' = [k EXCEPT !.head = 0]
    BY DEF Wrap
<1>2. /\ k.head \in 0 .. Size /\ H \in 0 .. Size /\ Size \in Nat \ {0}
      /\ n \in 1 .. Size /\ BusyCells \in SUBSET Nat
      /\ k' = [k0 EXCEPT !.head = 0] /\ k'.head = 0
    BY <1>1, SameCells
<1>3. Shaped(k') /\ Shaped(k0)' /\ OnlyHead'
    BY <1>1, <1>2 DEF SearchInv, Shaped, OnlyHead, Fields
<1>4. NoFit(k.head .. Size - 1)
    BY <1>1, <1>2 DEF NoFit, FitsAt
<1>5. k.head > 0
    BY <1>1, <1>2
<1>7. CASE FirstPass /\ H > 0
    <2>1. n_tested' = Size - H + 0
        BY <1>1, <1>2, <1>7 DEF FirstPass
    <2>2. NoFit(H .. Size - 1)'
        <3>1. NoFit(H .. Size - 1)
            BY <1>2, <1>4, <1>7 DEF FirstPass, NoFit
        <3>. QED
            BY <1>1, <3>1 DEF NoFit
    <2>3. NoFit(0 .. k.head - 1)'
        BY <1>2 DEF NoFit
    <2>4. MetBusy'
        BY <1>1, <1>2 DEF MetBusy, BusyCells, Cells
    <2>5. SecondPass'
        BY <1>1, <1>2, <1>7, <2>1, <2>2, <2>3, <2>4 DEF SecondPass
    <2>. QED
        BY <1>1, <1>2, <1>3, <2>5 DEF SearchInv, Searching, FoundRight, NoneRight
<1>8. CASE (FirstPass /\ H = 0) \/ SecondPass
    <2>1. NoFit(Cells)
        BY <1>2, <1>4, <1>8 DEF FirstPass, SecondPass, NoFit, Cells
    <2>2. n_tested' \in Nat /\ n_tested' >= Size
        BY <1>1, <1>2, <1>8 DEF FirstPass, SecondPass
    <2>3. k.head < From
        BY <1>2, <1>8 DEF FirstPass, SecondPass, From
    <2>4. k.head - 1 \in BusyCells
        BY <1>5, <1>8 DEF FirstPass, SecondPass, MetBusy
    <2>5. GiveUp = {}
        <3>. SUFFICES ASSUME NEW i \in GiveUp PROVE FALSE
            OBVIOUS
        <3>1. i \in Nat /\ i + 1 >= From /\ From \in Nat
            BY <1>2 DEF GiveUp, From
        <3>2. k.head - 1 < i
            BY <1>2, <2>3, <3>1
        <3>3. (k.head - 1) + 1 + n <= Size
            BY <2>4, <3>2 DEF GiveUp
        <3>. QED
            BY <1>1, <1>2, <3>3
    <2>6. ThirdPass'
        BY <1>1, <1>2, <2>1, <2>2, <2>5 DEF ThirdPass, NoFit, GiveUp, BusyCells, From
    <2>. QED
        BY <1>1, <1>2, <1>3, <2>6 DEF SearchInv, Searching, FoundRight, NoneRight
<1>9. CASE ThirdPass
    BY <1>1, <1>2, <1>5, <1>9 DEF ThirdPass
<1>. QED
    BY <1>1, <1>2, <1>7, <1>8, <1>9 DEF SearchInv, Searching

LEMMA FoundStep ==
    ASSUME SearchInv, Found
    PROVE  SearchInv'
<1>1. /\ pc = "search" /\ pc' = "found" /\ k0' = k0 /\ k' = k /\ n' = n
      /\ k.head + n <= Size /\ \A i \in 0 .. n - 1 : Free(k, k.head + i)
    BY DEF Found, searchVars
<1>2. /\ \A i : Free(k, i) <=> Free(k0, i)
      /\ k.head \in 0 .. Size /\ k0.head \in 0 .. Size /\ Size \in Nat \ {0}
      /\ n \in 1 .. Size
    BY <1>1, SameCells
<1>3. FitsAt(k0, n, k.head)
    <2>1. \A i \in k.head .. k.head + n - 1 : i - k.head \in 0 .. n - 1 /\ k.head + (i - k.head) = i
        BY <1>2
    <2>2. \A i \in k.head .. k.head + n - 1 : Free(k, i)
        BY <1>1, <2>1
    <2>. QED
        BY <1>1, <1>2, <2>2 DEF FitsAt
<1>4. k.head \in Fits(k0, n) /\ CanPlace(k0, n)
    BY <1>1, <1>2, <1>3 DEF Fits, CanPlace, Cells
<1>. DEFINE ahead == {h \in Fits(k0, n) : h >= k0.head}
<1>5. Fits(k0, n) \in SUBSET Nat /\ ahead \in SUBSET Nat
    BY SizeAssumption DEF Fits, Cells
<1>6. FindSlot(k0, n) = k.head
    <2>1. CASE FirstPass
        <3>1. k.head \in ahead /\ \A h \in ahead : h >= k.head
            BY <1>2, <1>4, <1>5, <2>1 DEF FirstPass, NoFit, Fits
        <3>2. Least(ahead) \in ahead /\ Least(ahead) <= k.head
            BY <1>5, <3>1, LeastIsLeast
        <3>3. Least(ahead) = k.head
            BY <1>2, <1>5, <3>1, <3>2
        <3>. QED
            BY <3>1, <3>3 DEF FindSlot
    <2>2. CASE SecondPass
        <3>1. ahead = {} /\ \A h \in Fits(k0, n) : h >= k.head
            BY <1>2, <1>5, <2>2 DEF SecondPass, NoFit, Fits, Cells
        <3>2. Least(Fits(k0, n)) \in Fits(k0, n) /\ Least(Fits(k0, n)) <= k.head
            BY <1>4, <1>5, LeastIsLeast
        <3>3. Least(Fits(k0, n)) = k.head
            BY <1>2, <1>5, <3>1, <3>2
        <3>. QED
            BY <3>1, <3>3 DEF FindSlot
    <2>3. CASE ThirdPass
        BY <1>3, <1>4, <2>3 DEF ThirdPass, NoFit, Fits
    <2>. QED
        BY <1>1, <2>1, <2>2, <2>3 DEF SearchInv, Searching
<1>7. OnlyHead /\ Shaped(k) /\ Shaped(k0)
    BY <1>1 DEF SearchInv, Searching
<1>8. FoundRight'
    BY <1>1, <1>4, <1>6, <1>7 DEF FoundRight, OnlyHead
<1>. QED
    BY <1>1, <1>7, <1>8 DEF SearchInv, NoneRight

\* The first occupied cell of a place that does not fit; no place up to it does.
LEMMA SkipStep ==
    ASSUME SearchInv, Skip
    PROVE  SearchInv'
<1>. DEFINE H == k0.head
<1>1. /\ pc = "search" /\ k0' = k0 /\ n' = n
      /\ k.head + n <= Size
    BY DEF Skip
<1>2. PICK i \in 0 .. n - 1 :
            /\ ~Free(k, k.head + i)
            /\ \A j \in 0 .. i - 1 : Free(k, k.head + j)
            /\ k' = [k EXCEPT !.head = k.head + i + 1]
            /\ n_tested' = n_tested + i + 1
            /\ pc' = IF n_tested' >= Size THEN "none" ELSE "search"
    BY <1>1 DEF Skip, AllTested
<1>3. /\ \A x : Free(k, x) <=> Free(k0, x)
      /\ k.head \in 0 .. Size /\ H \in 0 .. Size /\ Size \in Nat \ {0}
      /\ n \in 1 .. Size /\ BusyCells \in SUBSET Nat /\ i \in Nat
    BY <1>1, SameCells
<1>. DEFINE b == k.head + i
<1>4. b \in Nat /\ b + 1 \in 1 .. Size /\ b >= k.head /\ b < k.head + n
    BY <1>1, <1>2, <1>3
<1>5. /\ k' = [k0 EXCEPT !.head = b + 1] /\ k'.head = b + 1
      /\ n_tested' = n_tested + (b + 1 - k.head)
    <2>1. k' = [k EXCEPT !.head = b + 1] /\ b + 1 \in 0 .. Size
        BY <1>2, <1>4
    <2>2. k' = [k0 EXCEPT !.head = b + 1] /\ k'.head = b + 1
        BY <1>1, <2>1, SameCells
    <2>3. n_tested \in Int
        BY <1>1, <1>3 DEF SearchInv, Searching, FirstPass, SecondPass, ThirdPass
    <2>4. n_tested' = n_tested + (b + 1 - k.head)
        BY <1>2, <1>3, <2>3
    <2>. QED
        BY <2>2, <2>4
<1>6. b \in BusyCells /\ \A j \in BusyCells : j < b => j < k.head
    <2>1. b \in BusyCells
        BY <1>2, <1>3, <1>4 DEF BusyCells, Cells
    <2>2. ASSUME NEW j \in BusyCells, j < b, j >= k.head
          PROVE  FALSE
        <3>1. j - k.head \in 0 .. i - 1 /\ k.head + (j - k.head) = j
            BY <1>3, <2>2
        <3>2. Free(k, j)
            BY <1>2, <3>1
        <3>. QED
            BY <1>3, <3>2 DEF BusyCells
    <2>. QED
        BY <1>3, <2>1, <2>2
<1>7. NoFit(k.head .. b)
    <2>. SUFFICES ASSUME NEW h \in k.head .. b, FitsAt(k0, n, h)
                  PROVE  FALSE
        BY DEF NoFit
    <2>1. b \in h .. h + n - 1
        BY <1>3, <1>4
    <2>. QED
        BY <1>6, <2>1 DEF FitsAt, BusyCells
<1>8. OnlyHead' /\ Shaped(k') /\ Shaped(k0)'
    BY <1>1, <1>3, <1>4, <1>5 DEF SearchInv, Shaped, OnlyHead, Fields
<1>. HIDE DEF b
\* All occupied cells up to here were gone on from.
<1>9. MetBusy => /\ \A j \in BusyCells : j < b => j + 1 + n <= Size
                 /\ MetBusy'
    <2>. SUFFICES ASSUME MetBusy
                  PROVE  /\ \A j \in BusyCells : j < b => j + 1 + n <= Size
                         /\ MetBusy'
        OBVIOUS
    <2>1. ASSUME NEW j \in BusyCells, j < b
          PROVE  j + 1 + n <= Size
        <3>1. j < k.head /\ j \in Nat
            BY <1>3, <1>6, <2>1
        <3>2. CASE j + 1 < k.head
            BY <3>2 DEF MetBusy
        <3>3. CASE j + 1 = k.head
            BY <1>1, <1>3, <3>1, <3>3
        <3>. QED
            BY <1>3, <3>1, <3>2, <3>3
    <2>2. BusyCells' = BusyCells
        BY <1>1 DEF BusyCells
    <2>3. MetBusy'
        <3>1. k'.head - 1 = b
            BY <1>4, <1>5
        <3>2. \A j \in BusyCells : j + 1 < k'.head => j < b
            BY <1>3, <1>4, <1>5
        <3>. QED
            BY <1>1, <1>6, <2>1, <2>2, <3>1, <3>2 DEF MetBusy
    <2>. QED
        BY <2>1, <2>3
\* Where the search gives up, it does so as HeadAfterMiss says.
<1>10. ASSUME NoFit(Cells), pc' = "none",
              \/ GiveUp = {} /\ k.head = 0
              \/ GiveUp # {} /\ Least(GiveUp) = b
       PROVE  SearchInv'
    <2>1. ~CanPlace(k0, n)
        BY <1>10 DEF NoFit, CanPlace, Fits
    <2>2. HeadAfterMiss(k0, n) = IF GiveUp # {} THEN Least(GiveUp) + 1 ELSE Least(BusyCells) + 1
        BY <1>3 DEF HeadAfterMiss, GiveUp, BusyCells, From
    <2>3. GiveUp = {} => Least(BusyCells) = b
        <3>. SUFFICES ASSUME GiveUp = {} PROVE Least(BusyCells) = b
            OBVIOUS
        <3>0. k.head = 0
            BY <1>10
        <3>1. /\ Least(BusyCells) \in BusyCells /\ Least(BusyCells) <= b
              /\ Least(BusyCells) \in Nat
            BY <1>3, <1>6, LeastIsLeast
        <3>2. ~(Least(BusyCells) < b)
            BY <1>6, <3>0, <3>1
        <3>. QED
            BY <1>4, <3>1, <3>2
    <2>4. k'.head = HeadAfterMiss(k0, n)
        BY <1>5, <1>10, <2>2, <2>3
    <2>5. NoneRight'
        BY <1>1, <1>5, <2>1, <2>4 DEF NoneRight
    <2>. QED
        BY <1>8, <1>10, <2>5 DEF SearchInv, FoundRight
<1>11. ASSUME Searching', pc' = "search"
       PROVE  SearchInv'
    BY <1>8, <1>11 DEF SearchInv, FoundRight, NoneRight
<1>12. ASSUME MetBusy, b + 1 >= From, k.head < From
       PROVE  GiveUp # {} /\ Least(GiveUp) = b
    <2>1. b \in GiveUp
        BY <1>6, <1>9, <1>12 DEF GiveUp
    <2>2. GiveUp \in SUBSET Nat /\ From \in Nat
        <3>1. GiveUp \subseteq BusyCells
            BY DEF GiveUp
        <3>2. From \in Nat
            BY <1>3 DEF From
        <3>. QED
            BY <1>3, <3>1, <3>2
    <2>3. ASSUME NEW g \in GiveUp PROVE ~(g < b)
        <3>1. g \in BusyCells /\ g + 1 >= From /\ g \in Nat
            BY <2>2 DEF GiveUp
        <3>2. g < b => g + 1 <= k.head
            BY <1>3, <1>6, <3>1
        <3>. QED
            BY <1>3, <1>12, <2>2, <3>1, <3>2
    <2>4. Least(GiveUp) \in GiveUp /\ Least(GiveUp) <= b
        BY <2>1, <2>2, LeastIsLeast
    <2>5. Least(GiveUp) \in Nat /\ ~(Least(GiveUp) < b)
        BY <2>2, <2>3, <2>4
    <2>6. Least(GiveUp) = b
        BY <1>4, <2>4, <2>5
    <2>. QED
        BY <2>1, <2>6
<1>13. CASE FirstPass
    <2>1. NoFit(H .. b)
        BY <1>3, <1>4, <1>7, <1>13 DEF FirstPass, NoFit
    <2>2. n_tested' = b + 1 - H /\ H <= b + 1
        BY <1>3, <1>4, <1>5, <1>13 DEF FirstPass
    <2>3. CASE n_tested' < Size
        <3>1. NoFit(k0.head .. k.head - 1)'
            BY <1>1, <1>4, <1>5, <2>1 DEF NoFit
        <3>0. k0'.head = 0 => MetBusy'
            BY <1>1, <1>9, <1>13 DEF FirstPass
        <3>2. FirstPass'
            <4>1. k0'.head <= k'.head /\ n_tested' = k'.head - k0'.head
                BY <1>1, <1>3, <1>4, <1>5, <2>2
            <4>. QED
                BY <2>3, <3>0, <3>1, <4>1 DEF FirstPass
        <3>3. pc' = "search" /\ Searching'
            <4>1. pc' = "search"
                BY <1>2, <1>3, <1>4, <2>2, <2>3
            <4>. QED
                BY <1>1, <1>3, <1>8, <3>2, <4>1 DEF Searching
        <3>. QED
            BY <3>3, <1>11
    <2>4. CASE n_tested' >= Size
        <3>1. H = 0 /\ b + 1 = Size
            BY <1>3, <1>4, <2>2, <2>4
        <3>2. NoFit(Cells)
            BY <1>3, <1>4, <2>1, <3>1 DEF NoFit, Cells
        <3>3. From = Size /\ k.head < Size /\ MetBusy
            BY <1>1, <1>3, <1>13, <3>1 DEF From, FirstPass
        <3>4. GiveUp # {} /\ Least(GiveUp) = b
            BY <1>3, <1>4, <1>12, <3>1, <3>3
        <3>. QED
            BY <1>2, <1>10, <2>4, <3>2, <3>4
    <2>. QED
        BY <1>3, <1>4, <2>2, <2>3, <2>4
<1>14. CASE SecondPass
    <2>1. NoFit(0 .. b) /\ NoFit(H .. Size - 1)
        BY <1>3, <1>4, <1>7, <1>14 DEF SecondPass, NoFit
    <2>2. n_tested' = Size - H + (b + 1) /\ H > 0 /\ MetBusy
        <3>1. /\ n_tested = Size - H + k.head /\ k.head < H /\ MetBusy
            BY <1>14 DEF SecondPass
        <3>2. n_tested' = Size - H + k.head + (b + 1 - k.head)
            BY <1>5, <3>1
        <3>. QED
            BY <1>3, <1>4, <3>1, <3>2
    <2>3. CASE n_tested' < Size
        <3>1. NoFit(0 .. k.head - 1)' /\ NoFit(k0.head .. Size - 1)'
            BY <1>1, <1>4, <1>5, <2>1 DEF NoFit
        <3>2. b + 1 < H
            BY <1>3, <1>4, <2>2, <2>3
        <3>3. SecondPass'
            BY <1>1, <1>5, <1>9, <2>2, <3>1, <3>2 DEF SecondPass
        <3>4. pc' = "search" /\ Searching'
            BY <1>1, <1>2, <1>3, <1>4, <1>8, <2>2, <2>3, <3>3 DEF Searching
        <3>. QED
            BY <3>4, <1>11
    <2>4. CASE n_tested' >= Size
        <3>1. b + 1 >= H
            BY <1>3, <1>4, <2>2, <2>4
        <3>2. NoFit(Cells)
            BY <1>3, <1>4, <2>1, <3>1 DEF NoFit, Cells
        <3>3. From = H /\ k.head < H
            BY <1>3, <1>14, <2>2 DEF From, SecondPass
        <3>4. GiveUp # {} /\ Least(GiveUp) = b
            BY <1>12, <2>2, <3>1, <3>3
        <3>. QED
            BY <1>2, <1>10, <2>4, <3>2, <3>4
    <2>. QED
        BY <1>3, <1>4, <2>2, <2>3, <2>4
<1>15. CASE ThirdPass
    <2>1. n_tested' >= Size
        BY <1>3, <1>4, <1>5, <1>15 DEF ThirdPass
    <2>. QED
        BY <1>2, <1>10, <1>15, <2>1 DEF ThirdPass
<1>. QED
    BY <1>1, <1>13, <1>14, <1>15 DEF SearchInv, Searching

LEMMA SearchStep ==
    ASSUME SearchInv, [LoopNext]_loopVars
    PROVE  SearchInv'
<1>1. CASE UNCHANGED loopVars
    BY <1>1 DEF loopVars, searchVars, SearchInv, FoundRight, NoneRight, Searching, OnlyHead,
                FirstPass, SecondPass, ThirdPass, NoFit, MetBusy, BusyCells, GiveUp, From
<1>. QED
    BY <1>1, DefragShape, BeginSearchStep, WrapStep, FoundStep, SkipStep DEF LoopNext, SearchNext

LEMMA SearchSound == LoopSpec => []SearchInv
BY SearchInit, SearchStep, PTL DEF LoopSpec

\* A slot that is found is the one FindSlot names: the first place from the head on, or else
\* from the start, that holds all tokens.
THEOREM SearchFinds == LoopSpec => []FoundRight
<1>1. SearchInv => FoundRight
    BY DEF SearchInv
<1>. QED
    BY <1>1, SearchSound, PTL

\* The search gives up only when there is no place anywhere, and leaves the head where
\* HeadAfterMiss says.
THEOREM SearchGivesUp == LoopSpec => []NoneRight
<1>1. SearchInv => NoneRight
    BY DEF SearchInv
<1>. QED
    BY <1>1, SearchSound, PTL

-----------------------------------------------------------------------------
(***************************************************************************)
(* The loop of llama_kv_cache_defrag_internal for every size of the cache  *)
(* and every max_moves: its assertion holds, it keeps every token with its *)
(* rows, and it leaves the used cells in front unless it was stopped.      *)
(*                                                                         *)
(* A cell moves at most once.  Behind the part of the cache that is done,  *)
(* Front, nothing but moves away has happened; so a used cell there is     *)
(* where it was, and counting the used cells counts the fillers left.      *)
(***************************************************************************)

U0 == UsedCells(k0)
Used == UsedCells(k)

Books ==
    /\ DOMAIN k = Fields
    /\ DOMAIN k.pos = Cells /\ DOMAIN k.seq_id = Cells
    /\ k.rot = [i \in Cells |-> i]
    /\ k.used = Cardinality(Used)
    /\ k.used = Cardinality(U0)

\* pos tells where the token of a cell was, ids where it went.
Kept ==
    /\ ids \in [0 .. NKv - 1 -> Nat]
    /\ \A i \in Used : i < NKv /\ k.pos[i] \in U0
    /\ \A p \in U0 : \E i \in Used : k.pos[i] = p
    /\ \A i \in Used : \A j \in 0 .. NKv - 1 : ids[j] = i => j = k.pos[i]
    /\ \A i \in Used : k.pos[i] = i \/ ids[k.pos[i]] = i
    /\ \A j \in 0 .. NKv - 1 : ids[j] = NKv \/ ids[j] \in Used

Counted ==
    /\ n_moves \in Nat
    /\ cont => n_moves > 0
    /\ n_moves = 0 => \A i \in Used : k.pos[i] = i

Front == IF pc = "fill" THEN i0 + nf ELSE i0

Behind == \A i \in Used : i >= Front => k.pos[i] = i /\ ids[i] = NKv

Scanning ==
    /\ i0 \in 0 .. k.used
    /\ 0 .. i0 - 1 \subseteq Used

Filling ==
    /\ i0 \in Nat /\ nh \in Nat /\ nf \in Nat /\ i1 \in Nat
    /\ nf < nh /\ i0 + nh <= k.used /\ i0 + nh <= i1
    /\ 0 .. i0 + nf - 1 \subseteq Used
    /\ \A i \in Used : ~(i0 + nf <= i /\ i < i0 + nh)
    /\ Cardinality({j \in Used : j >= i1}) = nh - nf

InFront == Used = 0 .. k.used - 1

DefragInv ==
    /\ pc \in {"scan", "fill", "copy"} => Books /\ Kept /\ Counted
    /\ pc \in {"scan", "fill"} => Behind
    /\ pc = "scan" => Scanning
    /\ pc = "fill" => Filling
    /\ pc = "copy" => n_moves = MaxMoves \/ InFront
    /\ NoAssertion
    /\ TokensKept
    /\ Compacted

-----------------------------------------------------------------------------
(* Cells and counts.                                                       *)

\* A set of naturals from a on without gaps is the interval of its size.
LEMMA NoGaps ==
    ASSUME NEW a \in Nat, NEW b \in Nat, a <= b, NEW L \in SUBSET (a .. b - 1),
           \A j \in L : \A x \in a .. j : x \in L
    PROVE  /\ Cardinality(L) \in 0 .. b - a
           /\ L = a .. a + Cardinality(L) - 1
<1>. DEFINE Out == {j \in a .. b : j \notin L}
            e == Least(Out)
<1>1. Out \in SUBSET Nat /\ b \in Out
    OBVIOUS
<1>2. e \in Out /\ \A y \in Out : e <= y
    <2>. HIDE DEF Out
    <2>. QED
        BY <1>1, LeastIsLeast
<1>3. e \in a .. b /\ e \notin L
    BY <1>2
<1>. HIDE DEF e
<1>4. ASSUME NEW j \in L
      PROVE  j \in a .. e - 1
    <2>1. j \in Nat /\ a <= j
        OBVIOUS
    <2>2. e <= j => e \in a .. j
        BY <1>3, <2>1
    <2>3. ~(e <= j)
        BY <1>3, <2>2
    <2>. QED
        BY <1>3, <2>1, <2>3
<1>5. ASSUME NEW j \in a .. e - 1
      PROVE  j \in L
    <2>1. j \in a .. b /\ ~(e <= j)
        BY <1>3
    <2>. QED
        BY <1>2, <2>1
<1>6. L = a .. e - 1
    BY <1>4, <1>5
<1>7. Cardinality(a .. e - 1) = e - a
    <2>1. a \in Int /\ e - 1 \in Int
        BY <1>3
    <2>2. Cardinality(a .. e - 1) = IF a > e - 1 THEN 0 ELSE e - 1 - a + 1
        BY <2>1, FS_Interval
    <2>. QED
        BY <1>3, <2>2
<1>. QED
    BY <1>3, <1>6, <1>7

LEMMA UsedCellsBelow ==
    /\ NKv \in 0 .. Size
    /\ U0 \subseteq 0 .. NKv - 1
<1>. DEFINE D == {j \in Cells : \E u \in U0 : j <= u}
<1>1. D \in SUBSET (0 .. Size - 1) /\ U0 \subseteq D
    BY SizeAssumption DEF Cells, U0, UsedCells
<1>2. \A j \in D : \A x \in 0 .. j : x \in D
    BY SizeAssumption DEF Cells, U0, UsedCells
<1>3. NKv = Cardinality(D)
    BY DEF NKv, U0
<1>. HIDE DEF D
<1>4. Cardinality(D) \in 0 .. Size - 0 /\ D = 0 .. 0 + Cardinality(D) - 1
    BY <1>1, <1>2, NoGaps, SizeAssumption
<1>. QED
    BY <1>1, <1>3, <1>4, SizeAssumption

LEMMA UsedCount ==
    /\ Used \in SUBSET Cells /\ Used \in SUBSET Nat /\ IsFiniteSet(Used)
    /\ Cardinality(Used) \in 0 .. Size
    /\ Size \in Nat \ {0}
<1>1. Used \in SUBSET Cells
    BY DEF Used, UsedCells
<1>. QED
    BY <1>1, CellsFinite, UsedInRange, SizeAssumption DEF Cells

\* While k0 and k stay.
LEMMA SameCache ==
    ASSUME k0' = k0, k' = k
    PROVE  Used' = Used /\ U0' = U0 /\ NKv' = NKv /\ (Books => Books')
BY DEF Used, U0, UsedCells, IsEmpty, NKv, Books

LEMMA DefragInit == LoopInit => DefragInv
<1>. SUFFICES ASSUME LoopInit PROVE DefragInv
    OBVIOUS
<1>1. PICK U \in SUBSET Cells, h \in 0 .. Size : k0 = CacheWith(U, h)
    BY DEF LoopInit
<1>2. k = k0 /\ pc \in {"scan", "decode"}
      /\ ids = [j \in 0 .. NKv - 1 |-> NKv]
      /\ i0 = 0 /\ cont = FALSE /\ n_moves = 0
    BY DEF LoopInit
<1>3. /\ DOMAIN k = Fields
      /\ k.pos = [i \in Cells |-> IF i \in U THEN i ELSE -1]
      /\ k.seq_id = [i \in Cells |-> IF i \in U THEN Seqs ELSE {}]
      /\ k.rot = [i \in Cells |-> i]
      /\ k.used = Cardinality(U)
    BY <1>1, <1>2 DEF CacheWith, InitCache, Fields
<1>4. Used = U /\ U0 = U
    <2>1. \A i \in Cells : IsEmpty(k, i) <=> i \notin U
        BY <1>3, SeqsGiven DEF IsEmpty
    <2>2. Used = U
        BY <2>1 DEF Used, UsedCells
    <2>. QED
        BY <1>2, <2>2 DEF Used, U0
<1>5. Books
    BY <1>3, <1>4 DEF Books
<1>6. \A i \in Used : k.pos[i] = i /\ i \in 0 .. NKv - 1 /\ ids[i] = NKv
    BY <1>2, <1>3, <1>4, UsedCellsBelow
<1>7. NKv \in Nat /\ \A j \in 0 .. NKv - 1 : ids[j] = NKv
    BY <1>2, UsedCellsBelow, SizeAssumption
<1>8. Kept
    <2>1. ids \in [0 .. NKv - 1 -> Nat]
        BY <1>2, <1>7
    <2>2. \A i \in Used : i < NKv
        BY <1>6, <1>7
    <2>. QED
        BY <1>4, <1>6, <1>7, <2>1, <2>2 DEF Kept
<1>9. Counted /\ Behind
    BY <1>2, <1>6 DEF Counted, Behind
<1>10. Scanning
    BY <1>2, <1>5, UsedCount DEF Scanning, Books
<1>. QED
    BY <1>2, <1>5, <1>8, <1>9, <1>10 DEF DefragInv, NoAssertion, TokensKept, Compacted

LEMMA StayStep ==
    ASSUME DefragInv, Stay
    PROVE  DefragInv'
<1>1. /\ pc = "scan" /\ pc' = "scan" /\ k0' = k0 /\ k' = k
      /\ i0 < k.used /\ ~IsEmpty(k, i0)
      /\ ids' = [ids EXCEPT ![i0] = i0] /\ i0' = i0 + 1
      /\ n_moves' = n_moves /\ cont' = cont
    BY DEF Stay
<1>2. Books /\ Kept /\ Counted /\ Behind /\ Scanning /\ Front = i0 /\ Front' = i0 + 1
    BY <1>1 DEF DefragInv, Front
<1>3. Used' = Used /\ U0' = U0 /\ NKv' = NKv /\ Books'
    BY <1>1, <1>2, SameCache
<1>4. i0 \in Nat /\ k.used \in Nat /\ k.used <= Size /\ i0 + 1 <= k.used /\ NKv \in Nat
    BY <1>1, <1>2, UsedCount, UsedCellsBelow, SizeAssumption DEF Scanning, Books
<1>5. i0 \in Used
    BY <1>1, <1>4, SizeAssumption DEF Used, UsedCells, Cells
<1>6. i0 \in 0 .. NKv - 1 /\ k.pos[i0] = i0 /\ ids[i0] = NKv
    BY <1>2, <1>4, <1>5 DEF Kept, Behind
<1>7. /\ ids \in [0 .. NKv - 1 -> Nat] /\ ids' \in [0 .. NKv - 1 -> Nat]
      /\ ids'[i0] = i0
      /\ \A j \in 0 .. NKv - 1 : j # i0 => ids'[j] = ids[j]
    BY <1>1, <1>2, <1>4, <1>6 DEF Kept
<1>8. Kept'
    <2>1. ASSUME NEW i \in Used, NEW j \in 0 .. NKv - 1, ids'[j] = i
          PROVE  j = k.pos[i]
        BY <1>2, <1>6, <1>7, <2>1 DEF Kept
    <2>2. ASSUME NEW i \in Used
          PROVE  k.pos[i] = i \/ ids'[k.pos[i]] = i
        <3>1. k.pos[i] \in 0 .. NKv - 1 /\ i < NKv /\ i \in Nat
            BY <1>2, UsedCellsBelow, UsedCount DEF Kept
        <3>2. i # NKv
            BY <1>4, <3>1
        <3>. QED
            BY <1>2, <1>6, <1>7, <3>1, <3>2 DEF Kept
    <2>3. \A j \in 0 .. NKv - 1 : ids'[j] = NKv \/ ids'[j] \in Used
        BY <1>2, <1>5, <1>7 DEF Kept
    <2>. QED
        BY <1>1, <1>2, <1>3, <1>7, <2>1, <2>2, <2>3 DEF Kept
<1>9. Counted'
    BY <1>1, <1>2, <1>3 DEF Counted
<1>10. Behind'
    <2>1. ASSUME NEW i \in Used, i >= i0 + 1
          PROVE  k.pos[i] = i /\ ids'[i] = NKv
        <3>1. i \in Nat /\ i < NKv
            BY <1>2, UsedCount DEF Kept
        <3>2. i >= i0 /\ i # i0 /\ i \in 0 .. NKv - 1
            BY <1>4, <2>1, <3>1
        <3>. QED
            BY <1>2, <1>7, <3>2 DEF Behind
    <2>. QED
        BY <1>1, <1>2, <1>3, <2>1 DEF Behind
<1>11. Scanning'
    <2>1. 0 .. i0 \subseteq Used
        BY <1>2, <1>4, <1>5 DEF Scanning
    <2>. QED
        BY <1>1, <1>3, <1>4, <2>1 DEF Scanning
<1>. QED
    BY <1>1, <1>3, <1>8, <1>9, <1>10, <1>11 DEF DefragInv, NoAssertion, TokensKept, Compacted

\* A hole has fillers enough behind it.
LEMMA HoleStep ==
    ASSUME DefragInv, Hole
    PROVE  DefragInv'
<1>. DEFINE L == {j \in i0 .. k.used - 1 : \A x \in i0 .. j : IsEmpty(k, x)}
            len == Cardinality(L)
            last == {i \in Fillers : Cardinality({j \in Fillers : j >= i}) = len}
<1>1. /\ pc = "scan" /\ k0' = k0 /\ k' = k /\ ids' = ids /\ i0' = i0
      /\ i0 < k.used /\ IsEmpty(k, i0)
      /\ nf' = 0 /\ cont' = FALSE /\ n_moves' = n_moves
    BY DEF Hole
<1>a. /\ nh' = len
      /\ last # {} => pc' = "fill" /\ i1' = Least(last)
    BY DEF Hole, HoleLength
<1>2. Books /\ Kept /\ Counted /\ Behind /\ Scanning /\ Front = i0
    BY <1>1 DEF DefragInv, Front
<1>3. Used' = Used /\ U0' = U0 /\ NKv' = NKv /\ Books'
    BY <1>1, <1>2, SameCache
<1>4. /\ i0 \in Nat /\ k.used \in Nat /\ k.used <= Size /\ NKv \in 0 .. Size
      /\ Used \in SUBSET Cells /\ Used \in SUBSET Nat /\ IsFiniteSet(Used)
      /\ Size \in Nat \ {0}
    BY <1>1, <1>2, UsedCount, UsedCellsBelow, SizeAssumption DEF Scanning, Books
\* The hole.
<1>5. L \in SUBSET (i0 .. k.used - 1) /\ i0 \in L
    <2>1. i0 \in i0 .. k.used - 1 /\ \A x \in i0 .. i0 : x = i0
        BY <1>1, <1>4
    <2>. QED
        BY <1>1, <2>1
<1>6. \A j \in L : \A x \in i0 .. j : x \in L
    BY <1>4
<1>7. \A j \in L : j \in Cells /\ j < k.used /\ IsEmpty(k, j)
    BY <1>4 DEF Cells
<1>. HIDE DEF L
<1>8. len \in Nat \ {0} /\ i0 + len <= k.used /\ L = i0 .. i0 + len - 1
    <2>1. len \in 0 .. k.used - i0 /\ L = i0 .. i0 + len - 1
        <3>. DEFINE b == k.used
        <3>1. i0 \in Nat /\ b \in Nat /\ i0 <= b /\ L \in SUBSET (i0 .. b - 1)
            BY <1>1, <1>4, <1>5
        <3>. HIDE DEF b
        <3>. QED
            BY <1>6, <3>1, NoGaps DEF b
    <2>2. len # 0
        BY <1>4, <1>5, <2>1
    <2>. QED
        BY <1>4, <2>1, <2>2
<1>9. \A i \in Used : ~(i0 <= i /\ i < i0 + len)
    <2>1. \A i \in L : i \notin Used
        BY <1>7 DEF Used, UsedCells
    <2>. QED
        BY <1>4, <1>8, <2>1
\* The cells behind it.
<1>10. Fillers = {i \in Used : i > i0}
    <2>1. ASSUME NEW i \in Fillers
          PROVE  i \in Used /\ i > i0
        BY <1>4, <2>1 DEF Fillers, Unmoved, Used, UsedCells, Cells
    <2>2. ASSUME NEW i \in Used, i > i0
          PROVE  i \in Fillers
        <3>1. i \in Nat /\ i < NKv /\ ids[i] = NKv /\ ~IsEmpty(k, i)
            BY <1>2, <1>4, <2>2 DEF Kept, Behind, Used, UsedCells
        <3>. QED
            BY <1>4, <2>2, <3>1 DEF Fillers, Unmoved
    <2>. QED
        BY <2>1, <2>2
<1>11. Movable(k) = {i \in Used : i >= k.used}
    BY DEF Movable, Used, UsedCells
<1>12. IsFiniteSet(Movable(k)) /\ Movable(k) \in SUBSET Nat
    BY <1>4, <1>11, FS_Subset
<1>13. len <= Cardinality(Movable(k))
    <2>1. L \in SUBSET Holes(k)
        BY <1>7 DEF Holes
    <2>2. IsFiniteSet(Holes(k))
        BY CellsFinite DEF Holes
    <2>3. len <= Cardinality(Holes(k))
        BY <2>1, <2>2, FS_Subset
    <2>. QED
        BY <1>2, <2>3, HolesMatch DEF Books, Used
<1>. HIDE DEF len
<1>14. last # {}
    <2>1. PICK i \in Movable(k) : Cardinality({j \in Movable(k) : j >= i}) = len
        BY <1>8, <1>12, <1>13, CutOff
    <2>2. i \in Nat /\ i >= k.used /\ i \in Used
        BY <1>4, <1>11
    <2>3. i \in Fillers
        BY <1>1, <1>4, <1>10, <2>2
    <2>4. ASSUME NEW j \in Used, j >= i
          PROVE  j > i0 /\ j >= k.used
        <3>1. j \in Nat
            BY <1>4
        <3>. QED
            BY <1>1, <1>4, <2>2, <2>4, <3>1
    <2>5. {j \in Fillers : j >= i} = {j \in Movable(k) : j >= i}
        BY <1>10, <1>11, <2>4
    <2>. QED
        BY <2>1, <2>3, <2>5
<1>15. pc' = "fill" /\ i1' = Least(last)
    BY <1>a, <1>14
<1>16. i1' \in last
    <2>1. last \in SUBSET Nat
        BY <1>4, <1>10
    <2>. HIDE DEF last
    <2>. QED
        BY <1>14, <1>15, <2>1, LeastIsLeast
<1>17. i1' \in Used /\ i1' > i0 /\ Cardinality({j \in Fillers : j >= i1'}) = len
    BY <1>10, <1>16
<1>18. {j \in Fillers : j >= i1'} = {j \in Used : j >= i1'}
    <2>1. ASSUME NEW j \in Used, j >= i1'
          PROVE  j > i0
        <3>1. j \in Nat /\ i1' \in Nat
            BY <1>4, <1>17
        <3>. QED
            BY <1>4, <1>17, <2>1, <3>1
    <2>. QED
        BY <1>10, <2>1
<1>19. Filling'
    <2>1. i1' \in Nat /\ i0 + len <= i1'
        BY <1>4, <1>8, <1>9, <1>17
    <2>2. Cardinality({j \in Used : j >= i1'}) = len - 0
        BY <1>8, <1>17, <1>18
    <2>3. 0 .. i0 - 1 \subseteq Used
        BY <1>2 DEF Scanning
    <2>4. /\ i0' = i0 /\ nh' = len /\ nf' = 0 /\ k'.used = k.used
          /\ i0 + 0 = i0 /\ 0 < len
        BY <1>1, <1>a, <1>4, <1>8
    <2>. QED
        BY <1>3, <1>4, <1>8, <1>9, <2>1, <2>2, <2>3, <2>4 DEF Filling
<1>20. Kept' /\ Counted'
    BY <1>1, <1>2, <1>3 DEF Kept, Counted
<1>21. Behind'
    BY <1>1, <1>2, <1>3, <1>4, <1>15 DEF Behind, Front
<1>. QED
    BY <1>3, <1>15, <1>19, <1>20, <1>21 DEF DefragInv, NoAssertion, TokensKept, Compacted

\* While the hole is not full, a filler is left at i1 or behind.
LEMMA FillAt ==
    ASSUME DefragInv, pc = "fill"
    PROVE  /\ i1 \in 0 .. NKv - 1 /\ i1 \in Cells
           /\ Unmoved(i1) <=> i1 \in Used
           /\ i1 \in Used => k.pos[i1] = i1 /\ ids[i1] = NKv
           /\ NKv \in 0 .. Size /\ Size \in Nat \ {0}
           /\ Used \in SUBSET Nat /\ IsFiniteSet(Used)
<1>1. Books /\ Kept /\ Behind /\ Filling /\ Front = i0 + nf
    BY DEF DefragInv, Front
<1>2. /\ Used \in SUBSET Nat /\ IsFiniteSet(Used) /\ Size \in Nat \ {0} /\ NKv \in 0 .. Size
    BY UsedCount, UsedCellsBelow
<1>3. {j \in Used : j >= i1} # {}
    <2>1. nh - nf # 0
        BY <1>1 DEF Filling
    <2>. QED
        BY <1>1, <2>1, FS_EmptySet DEF Filling
<1>4. i1 \in 0 .. NKv - 1
    <2>1. PICK j \in Used : j >= i1
        BY <1>3
    <2>2. j < NKv /\ j \in Nat /\ i1 \in Nat
        BY <1>1, <1>2 DEF Kept, Filling
    <2>. QED
        BY <1>2, <2>1, <2>2
<1>5. i1 \in Cells
    BY <1>2, <1>4 DEF Cells
<1>6. i1 \in Used => k.pos[i1] = i1 /\ ids[i1] = NKv
    <2>1. i1 >= i0 + nf
        BY <1>1 DEF Filling
    <2>. QED
        BY <1>1, <2>1 DEF Behind
<1>7. ~IsEmpty(k, i1) <=> i1 \in Used
    BY <1>5 DEF Used, UsedCells
<1>. QED
    BY <1>2, <1>4, <1>5, <1>6, <1>7 DEF Unmoved

LEMMA GapStep ==
    ASSUME DefragInv, Gap
    PROVE  DefragInv'
<1>1. /\ pc = "fill" /\ k0' = k0 /\ k' = k /\ ids' = ids /\ i0' = i0
      /\ nh' = nh /\ nf' = nf /\ n_moves' = n_moves /\ ~Unmoved(i1)
      /\ IF n_moves = MaxMoves THEN pc' = "copy" /\ i1' = i1 /\ cont' = cont
         ELSE i1' = i1 + 1 /\ cont' = FALSE /\ pc' = "fill"
    BY DEF Gap
<1>2. Books /\ Kept /\ Counted /\ Behind /\ Filling
    BY <1>1 DEF DefragInv
<1>3. Used' = Used /\ U0' = U0 /\ NKv' = NKv /\ Books'
    BY <1>1, <1>2, SameCache
<1>4. Kept' /\ Counted'
    BY <1>1, <1>2, <1>3 DEF Kept, Counted
<1>5. CASE n_moves = MaxMoves
    BY <1>1, <1>3, <1>4, <1>5 DEF DefragInv, NoAssertion, TokensKept, Compacted
<1>6. CASE n_moves # MaxMoves
    <2>1. i1 \notin Used /\ i1 \in Nat /\ Used \in SUBSET Nat
        BY <1>1, <1>2, FillAt DEF Filling
    <2>2. {j \in Used : j >= i1 + 1} = {j \in Used : j >= i1}
        <3>1. ASSUME NEW j \in Used PROVE j >= i1 + 1 <=> j >= i1
            <4>1. j \in Nat /\ j # i1
                BY <2>1
            <4>. QED
                BY <2>1, <4>1
        <3>. QED
            BY <3>1
    <2>3. Filling'
        <3>1. i1' = i1 + 1 /\ i1 + 1 \in Nat /\ i0 + nh <= i1 + 1
            BY <1>1, <1>2, <1>6 DEF Filling
        <3>2. {j \in Used' : j >= i1'} = {j \in Used : j >= i1}
            BY <1>3, <2>2, <3>1
        <3>. QED
            BY <1>1, <1>2, <1>3, <3>1, <3>2 DEF Filling
    <2>4. Behind'
        BY <1>1, <1>2, <1>3, <1>6 DEF Behind, Front
    <2>. QED
        BY <1>1, <1>3, <1>4, <1>6, <2>3, <2>4 DEF DefragInv, NoAssertion, TokensKept, Compacted
<1>. QED
    BY <1>5, <1>6

\* A used cell moves to an empty one.
LEMMA MoveEffect ==
    ASSUME Books, k0' = k0, NEW to \in Cells \ Used, i1 \in Used, k' = CellMoved(to)
    PROVE  /\ Books'
           /\ Used' = (Used \ {i1}) \cup {to} /\ U0' = U0 /\ NKv' = NKv
           /\ k'.used = k.used
           /\ k'.pos[to] = k.pos[i1]
           /\ \A i \in Used \ {i1} : k'.pos[i] = k.pos[i]
<1>1. /\ Used \in SUBSET Cells /\ IsFiniteSet(Used) /\ Cardinality(Used) \in 0 .. Size
      /\ i1 \in Cells /\ to \notin Used /\ to # i1 /\ Size \in Nat
    BY UsedCount
<1>2. /\ DOMAIN k = Fields /\ DOMAIN k.pos = Cells /\ DOMAIN k.seq_id = Cells
      /\ k.used = Cardinality(Used) /\ k.used = Cardinality(U0)
      /\ k.rot = [i \in Cells |-> i]
    BY DEF Books
<1>3. /\ DOMAIN k' = Fields
      /\ k'.pos = [k.pos EXCEPT ![to] = k.pos[i1], ![i1] = -1]
      /\ k'.seq_id = [k.seq_id EXCEPT ![to] = k.seq_id[i1], ![i1] = {}]
      /\ k'.used = k.used /\ k'.rot = k.rot
    BY <1>2 DEF CellMoved, Fields
<1>4. /\ DOMAIN k'.pos = Cells /\ DOMAIN k'.seq_id = Cells
      /\ k'.pos[to] = k.pos[i1]
      /\ \A i \in Cells \ {i1, to} : k'.pos[i] = k.pos[i]
    BY <1>1, <1>2, <1>3
<1>5. /\ k'.seq_id[i1] = {} /\ k'.seq_id[to] = k.seq_id[i1]
      /\ \A i \in Cells \ {i1, to} : k'.seq_id[i] = k.seq_id[i]
    BY <1>1, <1>2, <1>3
<1>6. Used' = (Used \ {i1}) \cup {to}
    <2>1. k.seq_id[i1] # {} /\ \A i \in Cells : i \in Used <=> k.seq_id[i] # {}
        BY DEF Used, UsedCells, IsEmpty
    <2>2. Used' = {i \in Cells : k'.seq_id[i] # {}}
        BY DEF Used, UsedCells, IsEmpty
    <2>. QED
        BY <1>1, <1>5, <2>1, <2>2
<1>7. U0' = U0 /\ NKv' = NKv
    BY DEF U0, UsedCells, IsEmpty, NKv
<1>8. Cardinality((Used \ {i1}) \cup {to}) = Cardinality(Used)
    <2>. DEFINE rest == Used \ {i1}
    <2>1. IsFiniteSet(rest) /\ Cardinality(rest) = Cardinality(Used) - 1 /\ to \notin rest
        BY <1>1, FS_RemoveElement
    <2>. HIDE DEF rest
    <2>2. Cardinality(rest \cup {to}) = Cardinality(rest) + 1
        BY <2>1, FS_AddElement
    <2>3. Cardinality(rest \cup {to}) = Cardinality(Used)
        BY <1>1, <2>1, <2>2
    <2>. QED
        BY <2>3 DEF rest
<1>9. Books'
    BY <1>2, <1>3, <1>4, <1>6, <1>7, <1>8 DEF Books
<1>. QED
    BY <1>1, <1>3, <1>4, <1>6, <1>7, <1>9

\* A filler moves; nothing else is recorded at the place it goes to.
LEMMA MoveStep ==
    ASSUME DefragInv, MoveCell
    PROVE  DefragInv'
<1>. DEFINE to == i0 + nf
<1>1. /\ pc = "fill" /\ k0' = k0 /\ k' = CellMoved(to) /\ Unmoved(i1)
      /\ ids' = [ids EXCEPT ![i1] = to]
      /\ n_moves' = IF cont THEN n_moves ELSE n_moves + 1
      /\ cont' = TRUE /\ nf' = nf + 1 /\ i1' = i1 + 1 /\ nh' = nh
      /\ nf' # nh => pc' = "fill" /\ i0' = i0
      /\ nf' = nh => \/ pc' = "copy" /\ n_moves' = MaxMoves
                     \/ pc' = "scan" /\ i0' = i0 + nh
    BY DEF MoveCell
<1>2. Books /\ Kept /\ Counted /\ Behind /\ Filling /\ Front = to
    BY <1>1 DEF DefragInv, Front
<1>3. /\ i1 \in Used /\ i1 \in 0 .. NKv - 1 /\ k.pos[i1] = i1 /\ ids[i1] = NKv
      /\ NKv \in 0 .. Size /\ Size \in Nat \ {0} /\ Used \in SUBSET Nat /\ IsFiniteSet(Used)
    BY <1>1, FillAt
<1>4. /\ i0 \in Nat /\ nh \in Nat /\ nf \in Nat /\ i1 \in Nat /\ nf < nh
      /\ i0 + nh <= k.used /\ i0 + nh <= i1
    BY <1>2 DEF Filling
<1>5. /\ to \in Nat /\ to < i0 + nh /\ to < i1 /\ to \in 0 .. NKv - 1 /\ to \in Cells /\ to # NKv
      /\ to \notin Used
    <2>1. to \in Nat /\ to < i0 + nh /\ to < i1
        BY <1>4
    <2>2. to \in 0 .. NKv - 1 /\ to \in Cells /\ to # NKv
        BY <1>3, <2>1 DEF Cells
    <2>3. to \notin Used
        BY <1>2, <2>1 DEF Filling
    <2>. QED
        BY <2>1, <2>2, <2>3
<1>. HIDE DEF to
<1>6. /\ Books' /\ Used' = (Used \ {i1}) \cup {to} /\ U0' = U0 /\ NKv' = NKv
      /\ k'.used = k.used
      /\ k'.pos[to] = i1
      /\ \A i \in Used \ {i1} : k'.pos[i] = k.pos[i]
    BY <1>1, <1>2, <1>3, <1>5, MoveEffect
<1>7. /\ ids \in [0 .. NKv - 1 -> Nat] /\ ids' \in [0 .. NKv - 1 -> Nat]
      /\ ids'[i1] = to
      /\ \A j \in 0 .. NKv - 1 : j # i1 => ids'[j] = ids[j]
    BY <1>1, <1>2, <1>3, <1>5 DEF Kept
\* No cell was sent to either cell before.
<1>8. \A j \in 0 .. NKv - 1 : ids[j] # to /\ ids[j] # i1
    <2>. SUFFICES ASSUME NEW j \in 0 .. NKv - 1
                  PROVE  ids[j] # to /\ ids[j] # i1
        OBVIOUS
    <2>1. ids[j] # to
        BY <1>2, <1>5 DEF Kept
    <2>2. ASSUME ids[j] = i1 PROVE FALSE
        <3>1. j = i1
            BY <1>2, <1>3, <2>2 DEF Kept
        <3>. QED
            BY <1>3, <2>2, <3>1
    <2>. QED
        BY <2>1, <2>2
<1>9. Kept'
    <2>1. ASSUME NEW i \in Used'
          PROVE  /\ i < NKv /\ k'.pos[i] \in U0
                 /\ \A j \in 0 .. NKv - 1 : ids'[j] = i => j = k'.pos[i]
                 /\ k'.pos[i] = i \/ ids'[k'.pos[i]] = i
        <3>1. CASE i = to
            <4>1. i < NKv /\ k'.pos[i] = i1 /\ i1 \in U0
                BY <1>2, <1>3, <1>5, <1>6, <3>1 DEF Kept
            <4>. QED
                BY <1>7, <1>8, <3>1, <4>1
        <3>2. CASE i # to
            <4>1. i \in Used /\ i # i1 /\ k'.pos[i] = k.pos[i]
                BY <1>6, <3>2
            <4>2. /\ i < NKv /\ k.pos[i] \in U0 /\ k.pos[i] \in 0 .. NKv - 1
                  /\ \A j \in 0 .. NKv - 1 : ids[j] = i => j = k.pos[i]
                  /\ k.pos[i] = i \/ ids[k.pos[i]] = i
                BY <1>2, <4>1, UsedCellsBelow DEF Kept
            <4>3. \A j \in 0 .. NKv - 1 : ids'[j] = i => ids[j] = i
                BY <1>7, <3>2
            <4>4. ids[k.pos[i]] = i => ids'[k.pos[i]] = i
                <5>1. i # NKv
                    BY <1>3, <4>1, <4>2
                <5>. QED
                    BY <1>3, <1>7, <4>2, <5>1
            <4>. QED
                BY <4>1, <4>2, <4>3, <4>4
        <3>. QED
            BY <3>1, <3>2
    <2>2. ASSUME NEW p \in U0
          PROVE  \E i \in Used' : k'.pos[i] = p
        <3>1. PICK i \in Used : k.pos[i] = p
            BY <1>2 DEF Kept
        <3>2. CASE i = i1
            BY <1>3, <1>6, <3>1, <3>2
        <3>3. CASE i # i1
            BY <1>6, <3>1, <3>3
        <3>. QED
            BY <3>2, <3>3
    <2>3. ASSUME NEW j \in 0 .. NKv - 1
          PROVE  ids'[j] = NKv \/ ids'[j] \in Used'
        BY <1>2, <1>6, <1>7, <1>8 DEF Kept
    <2>. QED
        BY <1>6, <1>7, <2>1, <2>2, <2>3 DEF Kept
<1>10. Counted'
    <2>1. n_moves' \in Nat /\ n_moves' > 0
        BY <1>1, <1>2 DEF Counted
    <2>. QED
        BY <2>1 DEF Counted
<1>11. \A i \in Used' : i >= to + 1 => k'.pos[i] = i /\ ids'[i] = NKv
    <2>. SUFFICES ASSUME NEW i \in Used', i >= to + 1
                  PROVE  k'.pos[i] = i /\ ids'[i] = NKv
        OBVIOUS
    <2>1. i # to
        BY <1>5
    <2>2. i \in Used /\ i # i1 /\ k'.pos[i] = k.pos[i]
        BY <1>6, <2>1
    <2>3. i \in Nat /\ i >= to /\ i \in 0 .. NKv - 1
        <3>1. i \in Nat /\ i < NKv
            BY <1>2, <1>3, <2>2 DEF Kept
        <3>. QED
            BY <1>3, <1>5, <3>1
    <2>. QED
        BY <1>2, <1>7, <2>2, <2>3 DEF Behind
<1>12. 0 .. to \subseteq Used'
    <2>1. ASSUME NEW i \in 0 .. to, i # to
          PROVE  i \in Used'
        <3>1. i \in 0 .. i0 + nf - 1 /\ i # i1
            BY <1>4, <1>5, <2>1 DEF to
        <3>. QED
            BY <1>2, <1>6, <3>1 DEF Filling
    <2>. QED
        BY <1>6, <2>1
<1>13. CASE nf + 1 # nh
    <2>1. /\ pc' = "fill" /\ i0' = i0 /\ nh' = nh /\ nf' = nf + 1 /\ i1' = i1 + 1
          /\ i0' + nf' = to + 1
        BY <1>1, <1>4, <1>13 DEF to
    <2>2. Behind'
        BY <1>6, <1>11, <2>1 DEF Behind, Front
    <2>3. \A i \in Used' : ~(to + 1 <= i /\ i < i0 + nh)
        <3>. SUFFICES ASSUME NEW i \in Used', to + 1 <= i, i < i0 + nh
                      PROVE  FALSE
            OBVIOUS
        <3>1. i # to
            BY <1>5
        <3>2. i \in Used /\ i \in Nat
            BY <1>3, <1>6, <3>1
        <3>3. i0 + nf <= i
            BY <1>5, <3>2 DEF to
        <3>. QED
            BY <1>2, <3>2, <3>3 DEF Filling
    <2>4. Cardinality({j \in Used' : j >= i1 + 1}) = nh - (nf + 1)
        <3>. DEFINE F == {j \in Used : j >= i1}
        <3>1. {j \in Used' : j >= i1 + 1} = F \ {i1}
            <4>1. ASSUME NEW j \in Used', j >= i1 + 1
                  PROVE  j \in F \ {i1}
                <5>1. j # to
                    BY <1>4, <1>5, <4>1
                <5>2. j \in Used /\ j # i1 /\ j \in Nat
                    BY <1>3, <1>6, <5>1
                <5>. QED
                    BY <1>4, <4>1, <5>2
            <4>2. ASSUME NEW j \in F \ {i1}
                  PROVE  j \in Used' /\ j >= i1 + 1
                <5>1. j \in Used /\ j \in Nat /\ j >= i1 /\ j # i1
                    BY <1>3
                <5>. QED
                    BY <1>4, <1>6, <5>1
            <4>. QED
                BY <4>1, <4>2
        <3>2. IsFiniteSet(F) /\ i1 \in F
            BY <1>3, <1>4, FS_Subset
        <3>3. Cardinality(F) = nh - nf
            BY <1>2 DEF Filling
        <3>. HIDE DEF F
        <3>4. Cardinality(F \ {i1}) = nh - nf - 1
            BY <3>2, <3>3, FS_RemoveElement
        <3>5. nh - nf - 1 = nh - (nf + 1)
            BY <1>4
        <3>. QED
            BY <3>1, <3>4, <3>5
    <2>5. Filling'
        <3>1. /\ nf + 1 \in Nat /\ i1 + 1 \in Nat /\ nf + 1 < nh /\ i0 + nh <= i1 + 1
              /\ i0 + (nf + 1) = to + 1 /\ i0 + (nf + 1) - 1 = to
            BY <1>4, <1>13 DEF to
        <3>. QED
            BY <1>4, <1>6, <1>12, <2>1, <2>3, <2>4, <3>1 DEF Filling
    <2>. QED
        BY <1>6, <1>9, <1>10, <2>1, <2>2, <2>5
           DEF DefragInv, NoAssertion, TokensKept, Compacted
<1>14. CASE nf + 1 = nh
    <2>1. CASE pc' = "copy" /\ n_moves' = MaxMoves
        BY <1>6, <1>9, <1>10, <2>1 DEF DefragInv, NoAssertion, TokensKept, Compacted
    <2>2. CASE pc' = "scan" /\ i0' = i0 + nh
        <3>1. i0' = to + 1 /\ to + 1 \in 0 .. k.used /\ i0' - 1 = to
            <4>1. k.used \in Nat
                BY <1>2, UsedCount DEF Books
            <4>. QED
                BY <1>4, <1>14, <2>2, <4>1 DEF to
        <3>2. Scanning'
            BY <1>6, <1>12, <3>1 DEF Scanning
        <3>3. Behind'
            BY <1>6, <1>11, <2>2, <3>1 DEF Behind, Front
        <3>. QED
            BY <1>6, <1>9, <1>10, <2>2, <3>2, <3>3
               DEF DefragInv, NoAssertion, TokensKept, Compacted
    <2>. QED
        BY <1>1, <1>14, <2>1, <2>2
<1>. QED
    BY <1>13, <1>14

LEMMA ScannedStep ==
    ASSUME DefragInv, Scanned
    PROVE  DefragInv'
<1>1. /\ pc = "scan" /\ k0' = k0 /\ k' = k /\ ids' = ids /\ i0 >= k.used
      /\ n_moves' = n_moves /\ cont' = cont
      /\ pc' = IF n_moves = 0 THEN "defragmented" ELSE "copy"
    BY DEF Scanned, defragVars
<1>2. Books /\ Kept /\ Counted /\ Scanning
    BY <1>1 DEF DefragInv
<1>3. Used' = Used /\ U0' = U0 /\ NKv' = NKv /\ Books'
    BY <1>1, <1>2, SameCache
<1>4. /\ k.used \in Nat /\ k.used <= Size /\ Used \in SUBSET Cells /\ IsFiniteSet(Used)
      /\ k.used = Cardinality(Used)
    BY <1>2, UsedCount DEF Books
<1>5. InFront
    <2>1. 0 .. k.used - 1 \subseteq Used
        <3>1. i0 = k.used
            BY <1>1, <1>2, <1>4 DEF Scanning
        <3>. QED
            BY <1>2, <3>1 DEF Scanning
    <2>2. Cardinality(0 .. k.used - 1) = k.used
        <3>1. 0 \in Int /\ k.used - 1 \in Int
            BY <1>4
        <3>2. Cardinality(0 .. k.used - 1) =
                IF 0 > k.used - 1 THEN 0 ELSE k.used - 1 - 0 + 1
            BY <3>1, FS_Interval
        <3>. QED
            BY <1>4, <3>2
    <2>. QED
        BY <1>4, <2>1, <2>2, FS_Subset DEF InFront
<1>6. CASE n_moves = 0
    <2>1. \A i \in Used : k.pos[i] = i /\ k.rot[i] = i
        BY <1>2, <1>4, <1>6 DEF Counted, Books
    <2>2. {k.pos[i] : i \in Used} = U0
        BY <1>2 DEF Kept
    <2>3. TokensKept'
        BY <1>1, <1>2, <1>3, <2>1, <2>2 DEF TokensKept, Books, Used, U0
    <2>4. Compacted'
        BY <1>1, <1>5 DEF Compacted, InFront, Used, UsedCells, IsEmpty
    <2>. QED
        BY <1>1, <1>6, <2>3, <2>4 DEF DefragInv, NoAssertion
<1>7. CASE n_moves # 0
    <2>1. Kept' /\ Counted' /\ InFront'
        BY <1>1, <1>2, <1>3, <1>5 DEF Kept, Counted, InFront
    <2>. QED
        BY <1>1, <1>3, <1>7, <2>1 DEF DefragInv, NoAssertion, TokensKept, Compacted
<1>. QED
    BY <1>6, <1>7

LEMMA CopyStep ==
    ASSUME DefragInv, CopyRows
    PROVE  DefragInv'
<1>. DEFINE from(i) == {j \in DOMAIN ids : ids[j] = i /\ i # NKv}
            row(f)  == [i \in Cells |-> IF from(i) = {} THEN f[i] ELSE f[Least(from(i))]]
<1>1. /\ pc = "copy" /\ pc' = "defragmented" /\ k0' = k0 /\ n_moves' = n_moves
      /\ k' = [k EXCEPT !.tok = row(k.tok), !.rot = row(k.rot)]
    BY DEF CopyRows, defragVars
<1>2. Books /\ Kept /\ (n_moves = MaxMoves \/ InFront)
    BY <1>1 DEF DefragInv
<1>3. /\ k'.pos = k.pos /\ k'.seq_id = k.seq_id /\ k'.used = k.used
      /\ k'.rot = row(k.rot)
    BY <1>1, <1>2 DEF Books, Fields
<1>4. UsedCells(k') = Used /\ UsedCells(k0') = U0
    BY <1>1, <1>3 DEF Used, U0, UsedCells, IsEmpty
<1>5. {k.pos[i] : i \in Used} = U0
    BY <1>2 DEF Kept
<1>6. ASSUME NEW i \in Used
      PROVE  k'.rot[i] = k.pos[i]
    <2>1. /\ NKv \in 0 .. Size /\ U0 \subseteq 0 .. NKv - 1 /\ U0 \subseteq Cells
          /\ i \in Cells /\ i \in Nat
        BY UsedCellsBelow, UsedCount DEF U0, UsedCells
    <2>2. /\ i # NKv /\ k.pos[i] \in U0 /\ DOMAIN ids = 0 .. NKv - 1
          /\ \A j \in 0 .. NKv - 1 : ids[j] = i => j = k.pos[i]
          /\ k.pos[i] = i \/ ids[k.pos[i]] = i
        <3>1. i < NKv
            BY <1>2 DEF Kept
        <3>2. i # NKv
            BY <2>1, <3>1
        <3>. QED
            BY <1>2, <3>2 DEF Kept
    <2>3. k'.rot[i] = IF from(i) = {} THEN i ELSE k.rot[Least(from(i))]
        BY <1>2, <1>3, <2>1 DEF Books
    <2>4. CASE from(i) = {}
        <3>1. k.pos[i] = i
            BY <2>1, <2>2, <2>4
        <3>. QED
            BY <2>3, <2>4, <3>1
    <2>5. CASE from(i) # {}
        <3>1. from(i) \subseteq {k.pos[i]}
            BY <2>2
        <3>2. from(i) = {k.pos[i]}
            BY <2>5, <3>1
        <3>3. k.pos[i] \in Nat
            <4>1. k.pos[i] \in 0 .. NKv - 1
                BY <2>1, <2>2
            <4>2. 0 .. NKv - 1 \subseteq Nat
                OBVIOUS
            <4>. QED
                BY <4>1, <4>2
        <3>4. Least({k.pos[i]}) = k.pos[i]
            BY <3>3, LeastIsLeast
        <3>5. k.rot[k.pos[i]] = k.pos[i]
            BY <1>2, <2>1, <2>2 DEF Books
        <3>. QED
            BY <2>3, <2>5, <3>2, <3>4, <3>5
    <2>. QED
        BY <2>4, <2>5
<1>7. TokensKept'
    <2>1. {k'.pos[i] : i \in UsedCells(k')} = UsedCells(k0')
        BY <1>3, <1>4, <1>5
    <2>2. Cardinality(UsedCells(k')) = Cardinality(UsedCells(k0'))
        BY <1>2, <1>4 DEF Books
    <2>3. \A i \in UsedCells(k') : k'.rot[i] = k'.pos[i]
        BY <1>3, <1>4, <1>6
    <2>. QED
        BY <2>1, <2>2, <2>3 DEF TokensKept
<1>8. Compacted'
    <2>1. n_moves = MaxMoves => ~(n_moves < MaxMoves)
        BY MovesAssumption
    <2>. QED
        BY <1>1, <1>2, <1>3, <1>4, <2>1 DEF Compacted, InFront
<1>. QED
    BY <1>1, <1>7, <1>8 DEF DefragInv, NoAssertion

-----------------------------------------------------------------------------

LEMMA DefragStep ==
    ASSUME DefragInv, [LoopNext]_loopVars
    PROVE  DefragInv'
<1>1. CASE UNCHANGED loopVars
    <2>1. /\ k0' = k0 /\ k' = k /\ pc' = pc /\ ids' = ids /\ i0' = i0 /\ nh' = nh
          /\ nf' = nf /\ i1' = i1 /\ cont' = cont /\ n_moves' = n_moves
        BY <1>1 DEF loopVars, defragVars
    <2>2. Used' = Used /\ NKv' = NKv /\ U0' = U0
        BY <2>1, SameCache
    <2>3. /\ (Books => Books') /\ (Kept => Kept') /\ (Counted => Counted')
          /\ (Scanning => Scanning') /\ (Filling => Filling') /\ (InFront => InFront')
        BY <2>1, <2>2, SameCache DEF Kept, Counted, Scanning, Filling, InFront
    <2>4. Behind => Behind'
        BY <2>1, <2>2 DEF Behind, Front
    <2>5. NoAssertion' /\ TokensKept' /\ Compacted'
        BY <2>1 DEF DefragInv, NoAssertion, TokensKept, Compacted, UsedCells, IsEmpty
    <2>. QED
        BY <2>1, <2>3, <2>4, <2>5 DEF DefragInv
<1>2. CASE SearchNext
    <2>1. pc' \in {"search", "found", "none"}
        BY <1>2 DEF SearchNext, BeginSearch, Wrap, Found, Skip
    <2>. QED
        BY <2>1 DEF DefragInv, NoAssertion, TokensKept, Compacted
<1>. QED
    BY <1>1, <1>2, StayStep, HoleStep, GapStep, MoveStep, ScannedStep, CopyStep
       DEF LoopNext, DefragNext

LEMMA DefragSound == LoopSpec => []DefragInv
BY DefragInit, DefragStep, PTL DEF LoopSpec

\* GGML_ASSERT(nf == nh) in llama_kv_cache_defrag_internal never fails.
THEOREM HolesFillable == LoopSpec => []NoAssertion
<1>1. DefragInv => NoAssertion
    BY DEF DefragInv
<1>. QED
    BY <1>1, DefragSound, PTL

\* The defragmentation loses no token, doubles none and parts none from its rows, stopped by
\* max_moves or not.
THEOREM DefragKeeps == LoopSpec => []TokensKept
<1>1. DefragInv => TokensKept
    BY DEF DefragInv
<1>. QED
    BY <1>1, DefragSound, PTL

\* Unless max_moves stopped it, the used cells are the first ones when it ends.
THEOREM DefragCompacts == LoopSpec => []Compacted
<1>1. DefragInv => Compacted
    BY DEF DefragInv
<1>. QED
    BY <1>1, DefragSound, PTL

-----------------------------------------------------------------------------
(***************************************************************************)
(* The same loop does what KvOps!Defrag says in one formula.               *)
(*                                                                         *)
(* ids is the part of the formula's assignment that is done: a cell that   *)
(* went somewhere went where MovesTo sends it.  The holes before Front are *)
(* filled, and they are filled in the formula's order because what is gone *)
(* of the cells at the end has nothing left behind it, the hole that is    *)
(* being filled apart.  n_moves counts the formula's blocks.               *)
(***************************************************************************)

Gone == {t \in Movable(k0) : ids[t] # NKv}

Filled(h) == \E t \in Gone : ids[t] = h

HolesBefore(x) == {h \in Holes(k0) : h < x}
BlocksBefore(x) == {h \in Holes(k0) : h < x /\ BlockStart(k0, h)}

\* The last source is next to i1 and went to the last place.
Adjacent == nf > 0 /\ i1 - 1 \in Gone /\ ids[i1 - 1] = i0 + nf - 1

FullCache(c) ==
    /\ c = [x \in Fields |-> c[x]]
    /\ c.pos = [i \in Cells |-> c.pos[i]]
    /\ c.delta = [i \in Cells |-> c.delta[i]]
    /\ c.seq_id = [i \in Cells |-> c.seq_id[i]]
    /\ c.tok = [i \in Cells |-> c.tok[i]]
    /\ c.rot = [i \in Cells |-> c.rot[i]]

\* f is f0 with the values of the cells in G at the places m names and z at their
\* old ones.
CarriedTo(m, G, f, f0, z) ==
    /\ \A t \in G : f[m[t]] = f0[t] /\ f[t] = z
    /\ \A i \in Cells : i \notin G /\ (\A t \in G : m[t] # i) => f[i] = f0[i]

SameRest ==
    /\ k.tok = k0.tok /\ k.rot = k0.rot /\ k.used = k0.used
    /\ k.has_shift = k0.has_shift /\ k.do_defrag = k0.do_defrag
    /\ k.head = IF Gone = {} THEN k0.head ELSE k0.used

Metadata ==
    /\ FullCache(k0) /\ FullCache(k)
    /\ SameRest
    /\ CarriedTo(ids, Gone, k.pos, k0.pos, -1)
    /\ CarriedTo(ids, Gone, k.delta, k0.delta, 0)
    /\ CarriedTo(ids, Gone, k.seq_id, k0.seq_id, {})

Sent ==
    /\ \A t \in Gone : MovesTo(k0, t, ids[t])
    /\ \A j \in (0 .. NKv - 1) \ Gone : ids[j] = NKv \/ (ids[j] = j /\ j \notin Holes(k0))
    /\ n_moves = 0 => Gone = {}

FilledBefore ==
    /\ \A h \in Holes(k0) : h < Front <=> Filled(h)
    /\ Cardinality(Gone) = Cardinality(HolesBefore(Front))
    /\ n_moves = Cardinality(BlocksBefore(Front))
    /\ n_moves <= MaxMoves

Between ==
    /\ n_moves < MaxMoves
    /\ \A v \in Gone, u \in Movable(k0) : u > v => u \in Gone
    /\ i0 - 1 \in Holes(k0) => i0 \notin Holes(k0)

Within ==
    /\ k0.used <= i1
    /\ i0 .. i0 + nh - 1 \subseteq Holes(k0)
    /\ i0 - 1 \notin Holes(k0) /\ i0 + nh \notin Holes(k0)
    /\ Cardinality({v \in Gone : v >= i1}) = Cardinality(HolesBefore(i0))
    /\ \A v \in Gone, u \in Movable(k0) : u > v /\ u \notin Gone => v < i1 /\ i1 <= u
    /\ cont <=> Adjacent
    /\ ~cont => n_moves < MaxMoves

\* The moves are those the formula allows.
AllMade ==
    \A h \in Holes(k0) :
        Filled(h) <=> Cardinality({x \in Holes(k0) : x <= h /\ BlockStart(k0, x)}) <= MaxMoves

FormulaInv ==
    /\ pc \in {"scan", "fill", "copy"} => Metadata /\ Sent
    /\ pc \in {"scan", "fill"} => FilledBefore
    /\ pc = "scan" => Between
    /\ pc = "fill" => Within
    /\ pc = "copy" => AllMade
    /\ DefragRight

LEMMA Layout ==
    ASSUME Books, Metadata
    PROVE  /\ Holes(k0) \in SUBSET Cells /\ Movable(k0) \in SUBSET Cells
           /\ Cells = 0 .. Size - 1 /\ Size \in Nat \ {0}
           /\ k0.used = k.used /\ k0.used \in 0 .. Size
           /\ \A h \in Holes(k0) : h < k0.used
           /\ \A t \in Movable(k0) : t >= k0.used /\ t \in 0 .. NKv - 1
           /\ NKv \in 0 .. Size
           /\ IsFiniteSet(Gone) /\ Gone \subseteq Movable(k0)
           /\ \A x : IsFiniteSet(HolesBefore(x)) /\ IsFiniteSet(BlocksBefore(x))
<1>1. k0.used = k.used /\ k0.used \in 0 .. Size
    BY UsedCount DEF Books, Metadata, SameRest
<1>2. /\ Holes(k0) \in SUBSET Cells /\ Movable(k0) \in SUBSET Cells
      /\ Gone \in SUBSET Cells /\ Gone \subseteq Movable(k0)
      /\ \A h \in Holes(k0) : h < k0.used
      /\ \A t \in Movable(k0) : t >= k0.used /\ t \in U0
    BY DEF Holes, Movable, Gone, U0, UsedCells
<1>3. \A x : HolesBefore(x) \in SUBSET Cells /\ BlocksBefore(x) \in SUBSET Cells
    BY <1>2 DEF HolesBefore, BlocksBefore
<1>. QED
    BY <1>1, <1>2, <1>3, CellsFinite, UsedCellsBelow, SizeAssumption DEF Cells

\* Where the used cells are.
LEMMA Where ==
    ASSUME Books, Metadata, Sent
    PROVE  /\ \A t \in Gone : ids[t] \in Holes(k0)
           /\ \A u \in Movable(k0) : u \in Gone <=> u \notin Used
           /\ \A h \in Holes(k0) : h \in Used <=> Filled(h)
           /\ \A i \in Cells : i < k0.used /\ i \notin Holes(k0) => i \in Used
           /\ \A i \in Used : i >= k0.used => i \in Movable(k0)
<1>1. \A t \in Gone : ids[t] \in Holes(k0) /\ t \in Movable(k0) /\ t \notin Holes(k0)
    BY DEF Sent, MovesTo, Holes, Movable
<1>2. \A i \in Cells : i \in Used <=> k.seq_id[i] # {}
    BY DEF Used, UsedCells, IsEmpty
<1>3. /\ \A t \in Gone : k.seq_id[ids[t]] = k0.seq_id[t] /\ k.seq_id[t] = {}
      /\ \A i \in Cells : i \notin Gone /\ ~Filled(i) => k.seq_id[i] = k0.seq_id[i]
    BY DEF Metadata, CarriedTo, Filled
<1>4. /\ \A t \in Movable(k0) : t \in Cells /\ k0.seq_id[t] # {}
      /\ \A h \in Holes(k0) : h \in Cells /\ k0.seq_id[h] = {}
      /\ \A i \in Cells : i < k0.used /\ i \notin Holes(k0) => k0.seq_id[i] # {}
      /\ \A i \in Cells : i >= k0.used /\ i \notin Movable(k0) => k0.seq_id[i] = {}
    BY DEF Holes, Movable, IsEmpty
<1>5. ASSUME NEW i \in Cells, Filled(i)
      PROVE  i \in Holes(k0) /\ i \in Used
    <2>1. PICK t \in Gone : ids[t] = i
        BY <1>5 DEF Filled
    <2>. QED
        BY <1>1, <1>2, <1>3, <1>4, <2>1
<1>6. \A h \in Holes(k0) : h \notin Gone
    BY <1>1
<1>7. \A u \in Movable(k0) : u \notin Holes(k0)
    BY DEF Holes, Movable
<1>8. \A i \in Cells : i >= k0.used => i \notin Holes(k0)
    <2>1. \A h \in Holes(k0) : h < k0.used
        BY DEF Holes
    <2>2. k0.used \in Nat /\ Cells \subseteq Nat
        BY Layout
    <2>. QED
        BY <2>1, <2>2
<1>9. \A u \in Movable(k0) : u \in Gone <=> u \notin Used
    BY <1>2, <1>3, <1>4, <1>5, <1>7
<1>10. \A h \in Holes(k0) : h \in Used <=> Filled(h)
    BY <1>2, <1>3, <1>4, <1>5, <1>6
<1>11. \A i \in Cells : i < k0.used /\ i \notin Holes(k0) => i \in Used
    <2>1. \A t \in Movable(k0) : ~(t < k0.used)
        <3>1. \A t \in Movable(k0) : t >= k0.used
            BY DEF Movable
        <3>2. k0.used \in Nat /\ Movable(k0) \subseteq Nat
            BY Layout
        <3>. QED
            BY <3>1, <3>2
    <2>. QED
        BY <1>1, <1>2, <1>3, <1>4, <1>5, <2>1
<1>12. \A i \in Used : i >= k0.used => i \in Movable(k0)
    <2>1. Used \subseteq Cells
        BY DEF Used, UsedCells
    <2>. QED
        BY <1>1, <1>2, <1>3, <1>4, <1>5, <1>8, <2>1
<1>. QED
    BY <1>1, <1>9, <1>10, <1>11, <1>12

\* While the caches and ids stay.
LEMMA SameMoves ==
    ASSUME k0' = k0, k' = k, ids' = ids, n_moves' = n_moves
    PROVE  /\ Gone' = Gone /\ NKv' = NKv
           /\ \A h : Filled(h)' <=> Filled(h)
           /\ Metadata => Metadata'
           /\ Sent => Sent'
<1>1. NKv' = NKv
    BY SameCache
<1>2. Gone' = Gone
    BY <1>1 DEF Gone
<1>. QED
    BY <1>1, <1>2 DEF Filled, Metadata, SameRest, Sent

LEMMA FormulaInit == LoopInit => FormulaInv
<1>. SUFFICES ASSUME LoopInit PROVE FormulaInv
    OBVIOUS
<1>0. DefragInv
    BY DefragInit
<1>1. PICK U \in SUBSET Cells, h \in 0 .. Size : k0 = CacheWith(U, h)
    BY DEF LoopInit
<1>2. /\ k = k0 /\ pc \in {"scan", "decode"}
      /\ ids = [j \in 0 .. NKv - 1 |-> NKv]
      /\ i0 = 0 /\ n_moves = 0
    BY DEF LoopInit
<1>3. FullCache(k0)
    BY <1>1 DEF FullCache, CacheWith, InitCache, Fields
<1>. SUFFICES ASSUME pc = "scan" PROVE Metadata /\ Sent /\ FilledBefore /\ Between
    BY <1>2 DEF FormulaInv, DefragRight
<1>4. Books
    BY <1>0 DEF DefragInv
<1>5. Gone = {}
    <2>1. \A t \in Movable(k0) : t \in 0 .. NKv - 1
        BY UsedCellsBelow DEF Movable, U0, UsedCells
    <2>. QED
        BY <1>2, <2>1 DEF Gone
<1>6. Metadata
    BY <1>2, <1>3, <1>5 DEF Metadata, SameRest, CarriedTo
<1>7. Sent
    BY <1>2, <1>5 DEF Sent
<1>8. HolesBefore(0) = {} /\ BlocksBefore(0) = {} /\ \A x \in Holes(k0) : ~(x < 0) /\ x # -1
    BY <1>4, <1>6, Layout DEF HolesBefore, BlocksBefore
<1>9. FilledBefore
    <2>1. Front = 0 /\ 0 <= MaxMoves
        BY <1>2, MovesAssumption DEF Front
    <2>2. Cardinality({}) = 0
        BY FS_EmptySet
    <2>. QED
        BY <1>2, <1>5, <1>8, <2>1, <2>2 DEF FilledBefore, Filled
<1>10. Between
    BY <1>2, <1>5, <1>8, MovesAssumption DEF Between
<1>. QED
    BY <1>6, <1>7, <1>9, <1>10

LEMMA FormulaStay ==
    ASSUME DefragInv, FormulaInv, Stay
    PROVE  FormulaInv'
<1>1. /\ pc = "scan" /\ pc' = "scan" /\ k0' = k0 /\ k' = k /\ n_moves' = n_moves
      /\ i0 < k.used /\ ~IsEmpty(k, i0)
      /\ ids' = [ids EXCEPT ![i0] = i0] /\ i0' = i0 + 1
    BY DEF Stay
<1>2. /\ Books /\ Kept /\ Scanning /\ Metadata /\ Sent /\ FilledBefore /\ Between
      /\ Front = i0 /\ Front' = i0 + 1
    BY <1>1 DEF DefragInv, FormulaInv, Front
<1>3. /\ Holes(k0) \subseteq 0 .. Size - 1 /\ Movable(k0) \subseteq 0 .. NKv - 1
      /\ k0.used = k.used /\ k0.used \in 0 .. Size /\ Size \in Nat /\ NKv \in Nat
      /\ \A t \in Movable(k0) : t >= k0.used
    BY <1>2, Layout
<1>4. i0 \in Nat /\ i0 \in Cells
    BY <1>1, <1>2, <1>3 DEF Scanning, Cells
<1>5. i0 \notin Holes(k0) /\ i0 \notin Movable(k0)
    <2>1. i0 \in Used
        BY <1>1, <1>4 DEF Used, UsedCells
    <2>2. i0 \in Holes(k0) => ~Filled(i0)
        BY <1>2, <1>4 DEF FilledBefore
    <2>. QED
        BY <1>1, <1>2, <1>3, <1>4, <2>1, <2>2, Where
<1>6. NKv' = NKv
    BY <1>1, SameCache
<1>7. \A j \in 0 .. NKv - 1 : ids'[j] = IF j = i0 THEN i0 ELSE ids[j]
    BY <1>1, <1>2 DEF Kept
<1>8. Gone' = Gone /\ \A t \in Gone : t # i0 /\ t \in 0 .. NKv - 1 /\ ids'[t] = ids[t]
    <2>1. \A t \in Movable(k0) : t # i0 /\ t \in 0 .. NKv - 1
        BY <1>3, <1>5
    <2>. QED
        BY <1>1, <1>6, <1>7, <2>1 DEF Gone
<1>9. \A h : Filled(h)' <=> Filled(h)
    BY <1>8 DEF Filled
<1>10. Metadata'
    BY <1>1, <1>2, <1>8 DEF Metadata, SameRest, CarriedTo
<1>11. Sent'
    <2>1. \A j \in (0 .. NKv - 1) \ Gone : ids'[j] = NKv \/ (ids'[j] = j /\ j \notin Holes(k0))
        BY <1>2, <1>5, <1>7 DEF Sent
    <2>. QED
        BY <1>1, <1>2, <1>6, <1>8, <2>1 DEF Sent
<1>12. FilledBefore'
    <2>1. \A h \in Holes(k0) : h < i0 + 1 <=> h < i0
        BY <1>3, <1>4, <1>5
    <2>2. HolesBefore(i0 + 1) = HolesBefore(i0) /\ BlocksBefore(i0 + 1) = BlocksBefore(i0)
        BY <2>1 DEF HolesBefore, BlocksBefore
    <2>3. HolesBefore(Front)' = HolesBefore(i0) /\ BlocksBefore(Front)' = BlocksBefore(i0)
        BY <1>1, <1>2, <2>2 DEF HolesBefore, BlocksBefore
    <2>. QED
        BY <1>1, <1>2, <1>8, <1>9, <2>1, <2>3 DEF FilledBefore
<1>13. Between'
    <2>1. i0' - 1 = i0
        BY <1>1, <1>4
    <2>. QED
        BY <1>1, <1>2, <1>5, <1>8, <2>1 DEF Between
<1>. QED
    BY <1>1, <1>10, <1>11, <1>12, <1>13 DEF FormulaInv, DefragRight

LEMMA FormulaHole ==
    ASSUME DefragInv, FormulaInv, Hole
    PROVE  FormulaInv'
<1>. DEFINE len == HoleLength
<1>1. /\ pc = "scan" /\ k0' = k0 /\ k' = k /\ ids' = ids /\ i0' = i0
      /\ i0 < k.used /\ IsEmpty(k, i0)
      /\ nf' = 0 /\ n_moves' = n_moves
      /\ nh' = len
      /\ pc' \in {"assert failed", "fill"}
    BY DEF Hole
<1>2. /\ Books /\ Kept /\ Scanning /\ Metadata /\ Sent /\ FilledBefore /\ Between /\ Front = i0
    BY <1>1 DEF DefragInv, FormulaInv, Front
<1>3. DefragInv'
    BY HoleStep
<1>4. pc' = "fill" /\ Filling' /\ Books'
    BY <1>1, <1>3 DEF DefragInv, NoAssertion
<1>5. /\ Holes(k0) \in SUBSET Cells /\ Movable(k0) \in SUBSET Cells
      /\ Cells = 0 .. Size - 1 /\ Size \in Nat \ {0}
      /\ k0.used = k.used /\ k0.used \in 0 .. Size
      /\ \A h \in Holes(k0) : h < k0.used
      /\ \A t \in Movable(k0) : t >= k0.used
      /\ IsFiniteSet(Gone) /\ Gone \subseteq Movable(k0)
    BY <1>2, Layout
<1>6. Gone' = Gone /\ Metadata' /\ Sent' /\ Used' = Used /\ \A h : Filled(h)' <=> Filled(h)
    BY <1>1, <1>2, SameMoves, SameCache
<1>7. /\ i0 \in Nat /\ len \in Nat /\ i1' \in Nat /\ 0 < len /\ i0 + len <= k.used
      /\ i0 + len <= i1'
      /\ \A i \in Used : ~(i0 <= i /\ i < i0 + len)
      /\ Cardinality({j \in Used : j >= i1'}) = len
    BY <1>1, <1>4, <1>6 DEF Filling
<1>a. ~cont'
    BY DEF Hole
<1>. HIDE DEF len
<1>8. Front' = i0
    BY <1>1, <1>4, <1>7 DEF Front
<1>9. FilledBefore'
    BY <1>1, <1>2, <1>6, <1>8 DEF FilledBefore, HolesBefore, BlocksBefore
\* The hole is one of k0's.
<1>10. \A h \in Cells : h < k.used /\ h >= i0 => (h \in Holes(k0) <=> IsEmpty(k, h))
    <2>. SUFFICES ASSUME NEW h \in Cells, h < k.used, h >= i0
                  PROVE  h \in Holes(k0) <=> IsEmpty(k, h)
        OBVIOUS
    <2>1. h \in Used <=> ~IsEmpty(k, h)
        BY DEF Used, UsedCells
    <2>2. h \in Holes(k0) => ~Filled(h)
        BY <1>2, <1>5, <1>7 DEF FilledBefore
    <2>. QED
        BY <1>2, <1>5, <2>1, <2>2, Where
<1>11. i0 .. i0 + len - 1 \subseteq Holes(k0)
    <2>. SUFFICES ASSUME NEW h \in i0 .. i0 + len - 1 PROVE h \in Holes(k0)
        OBVIOUS
    <2>1. h \in Cells /\ h < k.used /\ h >= i0 /\ h < i0 + len
        BY <1>5, <1>7
    <2>2. h \notin Used
        BY <1>7, <2>1
    <2>3. IsEmpty(k, h)
        BY <2>1, <2>2 DEF Used, UsedCells
    <2>. QED
        BY <1>10, <2>1, <2>3
<1>12. i0 - 1 \notin Holes(k0)
    <2>1. i0 \in Holes(k0)
        BY <1>7, <1>11
    <2>. QED
        BY <1>2, <2>1 DEF Between
\* It is a whole one.
<1>13. i0 + len \notin Holes(k0)
    <2>. DEFINE L == {j \in i0 .. k.used - 1 : \A x \in i0 .. j : IsEmpty(k, x)}
                e == i0 + len
    <2>. SUFFICES ASSUME e \in Holes(k0) PROVE FALSE
        OBVIOUS
    <2>1. e \in Nat /\ e < k.used /\ e \in Cells /\ i0 .. e \subseteq Holes(k0)
        <3>1. e \in Nat /\ e < k.used /\ e \in Cells
            BY <1>5, <1>7
        <3>2. \A x \in i0 .. e : x = e \/ x \in i0 .. i0 + len - 1
            BY <1>7
        <3>. QED
            BY <1>11, <3>1, <3>2
    <2>2. ASSUME NEW x \in i0 .. e
          PROVE  IsEmpty(k, x)
        <3>1. x \in Cells /\ x < k.used /\ x >= i0 /\ x \in Holes(k0)
            BY <1>5, <1>7, <2>1
        <3>. QED
            BY <1>10, <3>1
    <2>3. i0 .. e \in SUBSET L
        BY <1>5, <1>7, <2>1, <2>2
    <2>4. IsFiniteSet(L)
        <3>1. L \in SUBSET Cells
            BY <1>5, <1>7
        <3>. QED
            BY <3>1, CellsFinite
    <2>5. Cardinality(L) = len
        BY DEF HoleLength, len
    <2>. HIDE DEF L
    <2>6. Cardinality(i0 .. e) = len + 1
        <3>1. i0 \in Int /\ e \in Int /\ i0 <= e /\ e - i0 + 1 = len + 1
            BY <1>7
        <3>. HIDE DEF e
        <3>2. Cardinality(i0 .. e) = IF i0 > e THEN 0 ELSE e - i0 + 1
            BY <3>1, FS_Interval
        <3>. QED
            BY <3>1, <3>2
    <2>7. Cardinality(i0 .. e) <= Cardinality(L)
        BY <2>3, <2>4, FS_Subset
    <2>. QED
        BY <1>7, <2>5, <2>6, <2>7
\* The cells that fill it are at the end.
<1>14. k0.used <= i1'
    <2>. SUFFICES ASSUME i1' < k0.used PROVE FALSE
        BY <1>5, <1>7
    <2>. DEFINE A == {j \in Used : j >= i1'}
                L == i0 .. i0 + len - 1
    <2>1. i1' \in A
        <3>2. PICK j \in Fillers : i1' = j
            <4>. DEFINE last == {i \in Fillers : Cardinality({j \in Fillers : j >= i}) = HoleLength}
            <4>1. last # {} /\ i1' = Least(last)
                BY <1>4 DEF Hole
            <4>2. last \in SUBSET Nat
                <5>1. Fillers \subseteq Nat
                    <6>1. NKv \in Nat /\ i0 \in Nat
                        BY <1>2, <1>7, Layout
                    <6>. QED
                        BY <6>1 DEF Fillers
                <5>. QED
                    BY <5>1
            <4>3. Least(last) \in last
                <5>. HIDE DEF last
                <5>. QED
                    BY <4>1, <4>2, LeastIsLeast
            <4>. QED
                BY <4>1, <4>3
        <3>3. j \in Cells /\ ~IsEmpty(k, j)
            <4>1. NKv \in 0 .. Size /\ i0 \in Nat
                BY <1>2, <1>7, Layout
            <4>2. j \in i0 + 1 .. NKv - 1 /\ Unmoved(j)
                BY DEF Fillers
            <4>. QED
                BY <1>5, <4>1, <4>2 DEF Unmoved
        <3>. QED
            BY <1>7, <3>2, <3>3 DEF Used, UsedCells
    <2>2. IsFiniteSet(A)
        <3>1. A \in SUBSET Cells
            BY DEF Used, UsedCells
        <3>. QED
            BY <3>1, CellsFinite
    <2>3. Movable(k) \in SUBSET (A \ {i1'})
        <3>. SUFFICES ASSUME NEW t \in Movable(k) PROVE t \in A \ {i1'}
            OBVIOUS
        <3>1. t \in Used /\ t >= k.used /\ t \in Nat
            BY <1>5 DEF Movable, Used, UsedCells
        <3>. QED
            BY <1>5, <1>7, <3>1
    <2>4. L \in SUBSET Holes(k)
        <3>. SUFFICES ASSUME NEW h \in L PROVE h \in Holes(k)
            OBVIOUS
        <3>1. h \in Cells /\ h < k.used /\ h >= i0 /\ h \in Holes(k0)
            BY <1>5, <1>7, <1>11
        <3>. QED
            BY <1>10, <3>1 DEF Holes
    <2>5. Cardinality(L) = len
        <3>. DEFINE e == i0 + len - 1
        <3>1. i0 \in Int /\ e \in Int /\ i0 <= e /\ e - i0 + 1 = len
            BY <1>7
        <3>. HIDE DEF e
        <3>2. Cardinality(i0 .. e) = IF i0 > e THEN 0 ELSE e - i0 + 1
            BY <3>1, FS_Interval
        <3>3. Cardinality(i0 .. e) = len
            BY <3>1, <3>2
        <3>. QED
            BY <3>3 DEF e
    <2>6. Cardinality(A) = len
        BY <1>7
    <2>. HIDE DEF A, L
    <2>7. IsFiniteSet(A \ {i1'}) /\ Cardinality(A \ {i1'}) = len - 1
        BY <2>1, <2>2, <2>6, FS_RemoveElement
    <2>8. Cardinality(Movable(k)) <= len - 1
        BY <2>3, <2>7, FS_Subset
    <2>9. len <= Cardinality(Holes(k))
        <3>1. IsFiniteSet(Holes(k))
            BY CellsFinite DEF Holes
        <3>. QED
            BY <2>4, <2>5, <3>1, FS_Subset
    <2>10. Cardinality(Holes(k)) = Cardinality(Movable(k))
        BY <1>2, HolesMatch DEF Books, Used
    <2>11. Cardinality(Movable(k)) \in Nat
        BY CellsFinite DEF Movable
    <2>. QED
        BY <1>7, <2>8, <2>9, <2>10, <2>11
<1>15. \A v \in Gone : v >= i1'
    <2>. SUFFICES ASSUME NEW v \in Gone, ~(v >= i1') PROVE FALSE
        OBVIOUS
    <2>1. PICK j \in Used : j >= i1'
        <3>1. {j \in Used : j >= i1'} # {}
            BY <1>7, FS_EmptySet
        <3>. QED
            BY <3>1
    <2>2. j \in Nat /\ v \in Nat /\ v \in Movable(k0)
        BY <1>5 DEF Used, UsedCells
    <2>3. j >= k0.used /\ j > v
        BY <1>5, <1>7, <1>14, <2>1, <2>2
    <2>4. j \in Movable(k0) /\ j \notin Gone
        BY <1>2, <2>3, Where
    <2>. QED
        BY <1>2, <2>3, <2>4 DEF Between
<1>16. Within'
    <2>1. {v \in Gone : v >= i1'} = Gone
        BY <1>15
    <2>2. Cardinality(Gone) = Cardinality(HolesBefore(i0))
        BY <1>2 DEF FilledBefore
    <2>3. HolesBefore(i0)' = HolesBefore(i0)
        BY <1>1 DEF HolesBefore
    <2>4. ~(nf' > 0) /\ nh' = len /\ i0' = i0
        <3>1. nf' = 0
            BY <1>1
        <3>2. ~(0 > 0)
            OBVIOUS
        <3>. QED
            BY <1>1, <3>1, <3>2
    <2>5. \A v \in Gone, u \in Movable(k0) : ~(u > v /\ u \notin Gone)
        BY <1>2 DEF Between
    <2>6. n_moves < MaxMoves
        BY <1>2 DEF Between
    <2>. QED
        BY <1>1, <1>6, <1>a, <1>11, <1>12, <1>13, <1>14, <2>1, <2>2, <2>3, <2>4, <2>5, <2>6
           DEF Within, Adjacent
<1>. QED
    BY <1>4, <1>6, <1>9, <1>16 DEF FormulaInv, DefragRight

\* The holes filled before the next place of a hole, in the formula's order from
\* the end: those before the hole, and the places behind it.
LEMMA Before ==
    ASSUME Books, Metadata, NEW a \in Nat, NEW b \in Nat, NEW h \in a .. b - 1,
           a .. b - 1 \subseteq Holes(k0), a - 1 \notin Holes(k0), b \notin Holes(k0)
    PROVE  Cardinality(TakenBefore(k0, h)) = Cardinality(HolesBefore(a)) + (b - h - 1)
<1>1. /\ Holes(k0) \in SUBSET Cells /\ Cells = 0 .. Size - 1 /\ Size \in Nat
      /\ IsFiniteSet(HolesBefore(a))
    BY Layout
<1>2. \A x \in Holes(k0) : SameHole(k0, x, h) <=> x \in a .. b - 1
    <2>1. ASSUME NEW x \in Holes(k0), x \in a .. b - 1
          PROVE  SameHole(k0, x, h)
        <3>1. ASSUME NEW z \in Cells, (x <= z /\ z <= h) \/ (h <= z /\ z <= x)
              PROVE  z \in a .. b - 1
            BY <1>1, <2>1, <3>1
        <3>. QED
            BY <3>1 DEF SameHole
    <2>2. ASSUME NEW x \in Holes(k0), x < a
          PROVE  ~SameHole(k0, x, h)
        <3>1. x \in Nat /\ x <= a - 1 /\ a - 1 <= h /\ h \in Cells
            BY <1>1, <2>2
        <3>2. a - 1 \in Cells
            BY <1>1, <2>2, <3>1
        <3>. QED
            BY <3>1, <3>2 DEF SameHole
    <2>3. ASSUME NEW x \in Holes(k0), x >= b
          PROVE  ~SameHole(k0, x, h)
        <3>1. x \in Cells /\ h <= b /\ b <= x
            BY <1>1, <2>3
        <3>2. b \in Cells
            BY <1>1, <3>1
        <3>. QED
            BY <3>1, <3>2 DEF SameHole
    <2>4. \A x \in Holes(k0) : x < a \/ x >= b \/ x \in a .. b - 1
        BY <1>1
    <2>. QED
        BY <2>1, <2>2, <2>3, <2>4
<1>. DEFINE rest == h + 1 .. b - 1
<1>3. TakenBefore(k0, h) = HolesBefore(a) \cup rest
    <2>1. \A x \in Holes(k0) : x \in TakenBefore(k0, h) <=>
            IF x \in a .. b - 1 THEN x > h ELSE x < h
        BY <1>2 DEF TakenBefore
    <2>2. \A x \in Holes(k0) :
            (IF x \in a .. b - 1 THEN x > h ELSE x < h) <=> (x < a \/ x \in rest)
        BY <1>1
    <2>3. \A x \in Holes(k0) : x \in TakenBefore(k0, h) <=> x \in HolesBefore(a) \cup rest
        BY <2>1, <2>2 DEF HolesBefore
    <2>4. rest \subseteq a .. b - 1
        OBVIOUS
    <2>5. TakenBefore(k0, h) \subseteq Holes(k0) /\ HolesBefore(a) \cup rest \subseteq Holes(k0)
        BY <2>4 DEF TakenBefore, HolesBefore
    <2>. QED
        BY <2>3, <2>5
<1>4. HolesBefore(a) \cap rest = {}
    BY <1>1 DEF HolesBefore
<1>5. IsFiniteSet(rest) /\ Cardinality(rest) = b - h - 1
    <2>. DEFINE p == h + 1
                q == b - 1
    <2>1. p \in Int /\ q \in Int /\ q - p + 1 = b - h - 1 /\ (p > q => b - h - 1 = 0)
        OBVIOUS
    <2>. HIDE DEF p, q
    <2>2. IsFiniteSet(p .. q) /\ Cardinality(p .. q) = IF p > q THEN 0 ELSE q - p + 1
        BY <2>1, FS_Interval
    <2>3. IsFiniteSet(p .. q) /\ Cardinality(p .. q) = b - h - 1
        BY <2>1, <2>2
    <2>. QED
        BY <2>3 DEF p, q
<1>. HIDE DEF rest
<1>6. Cardinality(HolesBefore(a)) \in Nat /\ b - h - 1 \in Nat
    BY <1>1, FS_CardinalityType
<1>7. Cardinality(HolesBefore(a) \cup rest) =
        Cardinality(HolesBefore(a)) + Cardinality(rest) - Cardinality({})
    BY <1>1, <1>4, <1>5, FS_Union
<1>. QED
    BY <1>3, <1>5, <1>6, <1>7, FS_EmptySet

\* The cell that fills the next place of a hole is the formula's.
LEMMA FillOrder ==
    ASSUME DefragInv, FormulaInv, pc = "fill"
    PROVE  /\ i1 \notin Gone
           /\ i1 \in Used => i1 \in Movable(k0) /\ MovesTo(k0, i1, i0 + nf)
<1>. DEFINE to == i0 + nf
            left == {j \in Used : j >= i1}
            up == {v \in Gone : v >= i1}
<1>1. Books /\ Metadata /\ Sent /\ Filling /\ Within
    BY DEF DefragInv, FormulaInv
<1>2. /\ Movable(k0) \in SUBSET Cells /\ Cells \subseteq Nat /\ Used \subseteq Cells
      /\ k0.used \in Nat /\ IsFiniteSet(Gone) /\ Gone \subseteq Movable(k0)
    BY <1>1, Layout DEF Used, UsedCells
<1>3. /\ i0 \in Nat /\ nh \in Nat /\ nf \in Nat /\ i1 \in Nat /\ nf < nh
      /\ i0 + nh <= i1 /\ Cardinality(left) = nh - nf
    BY <1>1 DEF Filling
<1>4. \A j \in Used : j >= i1 => j \in Movable(k0) /\ j \notin Gone
    <2>. SUFFICES ASSUME NEW j \in Used, j >= i1 PROVE j \in Movable(k0) /\ j \notin Gone
        OBVIOUS
    <2>1. k0.used <= i1 /\ j \in Nat
        BY <1>1, <1>2 DEF Within
    <2>2. j >= k0.used
        BY <1>2, <1>3, <2>1
    <2>. QED
        BY <1>1, <2>2, Where
<1>5. i1 \notin Gone
    <2>. SUFFICES ASSUME i1 \in Gone PROVE FALSE
        OBVIOUS
    <2>1. left # {}
        BY <1>3, FS_EmptySet
    <2>2. PICK j \in Used : j >= i1
        BY <2>1
    <2>3. j \in Movable(k0) /\ j \notin Gone /\ j \in Nat
        BY <1>2, <1>4, <2>2
    <2>4. j > i1
        BY <1>3, <2>2, <2>3
    <2>5. i1 < i1
        BY <1>1, <2>3, <2>4 DEF Within
    <2>. QED
        BY <1>3, <2>5
<1>6. ASSUME i1 \in Used
      PROVE  i1 \in Movable(k0) /\ MovesTo(k0, i1, to)
    <2>1. i1 \in Movable(k0)
        BY <1>3, <1>4, <1>6
    <2>2. {u \in Movable(k0) : u > i1} = (left \ {i1}) \cup up
        <3>1. ASSUME NEW u \in Movable(k0), u > i1
              PROVE  u \in (left \ {i1}) \cup up
            <4>1. i1 \in Nat /\ u \in Nat
                BY <1>2, <1>3
            <4>2. u # i1 /\ u >= i1
                BY <3>1, <4>1
            <4>. QED
                BY <1>1, <4>2, Where
        <3>2. ASSUME NEW u \in (left \ {i1}) \cup up
              PROVE  u \in Movable(k0) /\ u > i1
            <4>1. u \in Movable(k0) /\ u >= i1 /\ u # i1
                BY <1>2, <1>4, <1>5, <3>2
            <4>2. u \in Nat
                BY <1>2, <4>1
            <4>. QED
                BY <1>3, <4>1, <4>2
        <3>. QED
            BY <3>1, <3>2
    <2>3. (left \ {i1}) \cap up = {}
        BY <1>4
    <2>4. IsFiniteSet(left) /\ i1 \in left
        <3>1. left \in SUBSET Cells
            BY <1>2
        <3>. QED
            BY <1>3, <1>6, <3>1, CellsFinite
    <2>5. IsFiniteSet(up) /\ Cardinality(up) \in Nat
        <3>1. up \in SUBSET Gone
            OBVIOUS
        <3>. QED
            BY <1>2, <3>1, FS_Subset, FS_CardinalityType
    <2>6. Cardinality(up) = Cardinality(HolesBefore(i0))
        BY <1>1 DEF Within
    <2>. HIDE DEF left, up
    <2>7. IsFiniteSet(left \ {i1}) /\ Cardinality(left \ {i1}) = nh - nf - 1
        BY <1>3, <2>4, FS_RemoveElement
    <2>8. Cardinality((left \ {i1}) \cup up) =
            Cardinality(left \ {i1}) + Cardinality(up) - Cardinality({})
        BY <2>3, <2>5, <2>7, FS_Union
    <2>9. Cardinality({u \in Movable(k0) : u > i1}) = Cardinality(up) + (nh - nf - 1)
        <3>1. Cardinality({u \in Movable(k0) : u > i1}) = Cardinality((left \ {i1}) \cup up)
            BY <2>2
        <3>2. Cardinality({}) = 0 /\ nh - nf - 1 \in Int
            BY <1>3, FS_EmptySet
        <3>. QED
            BY <2>5, <2>7, <2>8, <3>1, <3>2
    <2>10. /\ i0 + nh \in Nat /\ to \in i0 .. (i0 + nh) - 1
           /\ i0 + nh - to - 1 = nh - nf - 1
        BY <1>3
    <2>11. /\ i0 .. i0 + nh - 1 \subseteq Holes(k0)
           /\ i0 - 1 \notin Holes(k0) /\ i0 + nh \notin Holes(k0)
        BY <1>1 DEF Within
    <2>12. Cardinality(TakenBefore(k0, to)) =
             Cardinality(HolesBefore(i0)) + (i0 + nh - to - 1)
        <3>. DEFINE b == i0 + nh
        <3>1. b \in Nat /\ to \in i0 .. b - 1 /\ i0 .. b - 1 \subseteq Holes(k0)
              /\ b \notin Holes(k0)
            <4>1. i0 + nh - 1 = (i0 + nh) - 1
                BY <1>3
            <4>. QED
                BY <2>10, <2>11, <4>1
        <3>. HIDE DEF b, to
        <3>2. Cardinality(TakenBefore(k0, to)) =
                Cardinality(HolesBefore(i0)) + (b - to - 1)
            BY <1>1, <1>3, <2>11, <3>1, Before
        <3>3. Cardinality(TakenBefore(k0, to)) =
                Cardinality(HolesBefore(i0)) + (i0 + nh - to - 1)
            <4>1. Cardinality(TakenBefore(k0, to)) =
                    Cardinality(HolesBefore(i0)) + ((i0 + nh) - to - 1)
                BY <3>2 DEF b
            <4>2. i0 + nh - to - 1 = (i0 + nh) - to - 1
                BY <1>3 DEF to
            <4>. QED
                BY <4>1, <4>2
        <3>. QED
            BY <3>3
    <2>13. to \in Holes(k0)
        BY <1>3, <2>10, <2>11
    <2>. QED
        BY <2>1, <2>6, <2>9, <2>10, <2>12, <2>13 DEF MovesTo
<1>. QED
    BY <1>5, <1>6

\* A place is filled from the cell before i1 or from one that is not next to the
\* cell that fills the place before it.
LEMMA BlockAt ==
    ASSUME DefragInv, FormulaInv, pc = "fill"
    PROVE  /\ i0 + nf \in Holes(k0)
           /\ i1 \in Used => (BlockStart(k0, i0 + nf) <=> ~cont)
           /\ i1 \notin Used => BlockStart(k0, i0 + nf)
<1>. DEFINE to == i0 + nf
<1>1. /\ Books /\ Metadata /\ Sent /\ Filling /\ Within /\ FilledBefore /\ Front = to
    BY DEF DefragInv, FormulaInv, Front
<1>2. /\ i0 \in Nat /\ nh \in Nat /\ nf \in Nat /\ i1 \in Nat /\ nf < nh
    BY <1>1 DEF Filling
<1>3. /\ Movable(k0) \in SUBSET Cells /\ Cells \subseteq Nat
      /\ Gone \subseteq Movable(k0) /\ Holes(k0) \in SUBSET Cells
    BY <1>1, Layout
<1>4. to \in Holes(k0) /\ (nf > 0 => to - 1 \in Holes(k0))
    <2>1. to \in i0 .. i0 + nh - 1 /\ (nf > 0 => to - 1 \in i0 .. i0 + nh - 1)
        BY <1>2
    <2>. QED
        BY <1>1, <2>1 DEF Within
\* A cell that goes to the next place is not gone yet.
<1>5. ASSUME NEW t \in Movable(k0), MovesTo(k0, t, to)
      PROVE  t \notin Gone
    <2>. SUFFICES ASSUME t \in Gone PROVE FALSE
        OBVIOUS
    <2>1. MovesTo(k0, t, ids[t])
        BY <1>1 DEF Sent
    <2>2. ids[t] = to
        BY <1>5, <2>1, MovesToOneToOne
    <2>3. Filled(to)
        BY <2>2 DEF Filled
    <2>4. to < to
        BY <1>1, <1>4, <2>3 DEF FilledBefore
    <2>. QED
        BY <1>2, <2>4
\* When it goes on with a block, it is i1.
<1>6. ASSUME to - 1 \in Holes(k0), NEW t \in Movable(k0), MovesTo(k0, t, to),
             MovesTo(k0, t - 1, to - 1)
      PROVE  t = i1 /\ nf > 0 /\ t - 1 \in Gone /\ ids[t - 1] = to - 1
    <2>1. nf > 0
        <3>1. nf = 0 => to - 1 = i0 - 1
            BY <1>2
        <3>2. i0 - 1 \notin Holes(k0)
            BY <1>1 DEF Within
        <3>. QED
            BY <1>2, <1>6, <3>1, <3>2
    <2>2. Filled(to - 1)
        <3>1. to - 1 < to
            BY <1>2
        <3>. QED
            BY <1>1, <1>6, <3>1 DEF FilledBefore
    <2>3. PICK w \in Gone : ids[w] = to - 1
        BY <2>2 DEF Filled
    <2>4. MovesTo(k0, w, to - 1)
        BY <1>1, <2>3 DEF Sent
    <2>5. w = t - 1
        BY <1>6, <2>4, MovesToOneToOne
    <2>6. t \notin Gone /\ t \in Nat /\ w \in Nat /\ t > w
        BY <1>3, <1>5, <1>6, <2>5
    <2>7. w < i1 /\ i1 <= t
        BY <1>1, <2>6 DEF Within
    <2>. QED
        BY <1>2, <2>1, <2>3, <2>5, <2>6, <2>7
<1>7. i1 \in Used => i1 \in Movable(k0) /\ MovesTo(k0, i1, to)
    BY FillOrder
<1>8. cont <=> Adjacent
    BY <1>1 DEF Within
<1>9. ASSUME i1 \in Used, Adjacent
      PROVE  ~BlockStart(k0, to)
    <2>1. nf > 0 /\ i1 - 1 \in Gone /\ ids[i1 - 1] = i0 + nf - 1
        BY <1>9 DEF Adjacent
    <2>2. MovesTo(k0, i1 - 1, to - 1)
        <3>1. ids[i1 - 1] = to - 1
            BY <1>2, <2>1
        <3>. QED
            BY <1>1, <2>1, <3>1 DEF Sent
    <2>. QED
        BY <1>4, <1>7, <1>9, <2>1, <2>2 DEF BlockStart
<1>10. ASSUME ~BlockStart(k0, to)
       PROVE  i1 \in Movable(k0) /\ i1 \notin Gone /\ Adjacent
    <2>1. to - 1 \in Holes(k0)
        BY <1>4, <1>10 DEF BlockStart
    <2>2. PICK t \in Movable(k0) : MovesTo(k0, t, to) /\ MovesTo(k0, t - 1, to - 1)
        BY <1>4, <1>10 DEF BlockStart
    <2>3. t = i1 /\ nf > 0 /\ t - 1 \in Gone /\ ids[t - 1] = to - 1
        BY <1>6, <2>1, <2>2
    <2>4. ids[i1 - 1] = i0 + nf - 1
        BY <1>2, <2>3
    <2>. QED
        BY <1>5, <2>2, <2>3, <2>4 DEF Adjacent
<1>11. i1 \notin Used => BlockStart(k0, to)
    BY <1>1, <1>10, Where
<1>. QED
    BY <1>4, <1>8, <1>9, <1>10, <1>11

BlocksTo(h) == {x \in Holes(k0) : x <= h /\ BlockStart(k0, x)}

\* While max_moves is not passed no filled hole is beyond it.
LEMMA WithinMoves ==
    ASSUME Books, Metadata, NEW p \in Nat, Cardinality(BlocksBefore(p)) <= MaxMoves,
           NEW h \in Holes(k0), h < p
    PROVE  Cardinality(BlocksTo(h)) <= MaxMoves
<1>1. Holes(k0) \in SUBSET Cells /\ Cells \subseteq Nat /\ IsFiniteSet(BlocksBefore(p))
    BY Layout
<1>2. BlocksTo(h) \in SUBSET BlocksBefore(p)
    <2>1. ASSUME NEW y \in Holes(k0), y <= h
          PROVE  y < p
        <3>1. y \in Nat /\ h \in Nat
            BY <1>1
        <3>. QED
            BY <2>1, <3>1
    <2>. QED
        BY <2>1 DEF BlocksTo, BlocksBefore
<1>3. /\ IsFiniteSet(BlocksTo(h))
      /\ Cardinality(BlocksTo(h)) <= Cardinality(BlocksBefore(p))
    BY <1>1, <1>2, FS_Subset
<1>4. Cardinality(BlocksTo(h)) \in Nat /\ Cardinality(BlocksBefore(p)) \in Nat
    BY <1>1, <1>3, FS_CardinalityType
<1>. QED
    BY <1>3, <1>4, MovesAssumption

\* When it is reached, the next block is beyond it.
LEMMA BeyondMoves ==
    ASSUME Books, Metadata, NEW p \in Nat, Cardinality(BlocksBefore(p)) = MaxMoves,
           NEW x \in Holes(k0), BlockStart(k0, x), p <= x,
           NEW h \in Holes(k0), x <= h
    PROVE  ~(Cardinality(BlocksTo(h)) <= MaxMoves)
<1>1. Holes(k0) \in SUBSET Cells /\ Cells \subseteq Nat /\ IsFiniteSet(BlocksBefore(p))
    BY Layout
<1>2. x \notin BlocksBefore(p) /\ BlocksBefore(p) \cup {x} \in SUBSET BlocksTo(h)
    <2>1. x \in Nat /\ h \in Nat
        BY <1>1
    <2>a. ~(x < p)
        BY <2>1
    <2>b. ASSUME NEW y \in Holes(k0), y < p
          PROVE  y <= h
        <3>1. y \in Nat
            BY <1>1
        <3>. QED
            BY <2>1, <2>b, <3>1
    <2>. QED
        BY <2>a, <2>b DEF BlocksTo, BlocksBefore
<1>3. IsFiniteSet(BlocksTo(h))
    <2>1. BlocksTo(h) \in SUBSET Cells
        BY <1>1 DEF BlocksTo
    <2>. QED
        BY <2>1, CellsFinite
<1>4. Cardinality(BlocksBefore(p) \cup {x}) = MaxMoves + 1
    BY <1>1, <1>2, FS_AddElement
<1>5. Cardinality(BlocksBefore(p) \cup {x}) <= Cardinality(BlocksTo(h))
    BY <1>2, <1>3, FS_Subset
<1>6. Cardinality(BlocksTo(h)) \in Nat
    BY <1>3, FS_CardinalityType
<1>. QED
    BY <1>4, <1>5, <1>6, MovesAssumption

LEMMA FormulaGap ==
    ASSUME DefragInv, FormulaInv, Gap
    PROVE  FormulaInv'
<1>1. /\ pc = "fill" /\ k0' = k0 /\ k' = k /\ ids' = ids /\ i0' = i0
      /\ nh' = nh /\ nf' = nf /\ n_moves' = n_moves /\ ~Unmoved(i1)
    BY DEF Gap
<1>a. IF n_moves = MaxMoves THEN pc' = "copy"
      ELSE i1' = i1 + 1 /\ cont' = FALSE /\ pc' = "fill"
    BY <1>1 DEF Gap
<1>2. /\ Books /\ Metadata /\ Sent /\ Filling /\ FilledBefore /\ Within /\ Front = i0 + nf
    BY <1>1 DEF DefragInv, FormulaInv, Front
<1>3. Gone' = Gone /\ Metadata' /\ Sent' /\ \A h : Filled(h)' <=> Filled(h)
    BY <1>1, <1>2, SameMoves
<1>4. i1 \notin Used /\ i1 \notin Gone
    BY <1>1, FillAt, FillOrder
<1>5. /\ Movable(k0) \in SUBSET Cells /\ Cells \subseteq Nat /\ k0.used \in Nat
      /\ Gone \subseteq Movable(k0) /\ Holes(k0) \in SUBSET Cells
    BY <1>2, Layout
<1>6. /\ i0 \in Nat /\ nf \in Nat /\ i1 \in Nat /\ Front \in Nat
    BY <1>2 DEF Filling
<1>7. CASE n_moves = MaxMoves
    <2>1. Front \in Holes(k0) /\ BlockStart(k0, Front)
        BY <1>1, <1>2, <1>4, BlockAt
    <2>2. Cardinality(BlocksBefore(Front)) = MaxMoves
        BY <1>2, <1>7 DEF FilledBefore
    <2>3. ASSUME NEW h \in Holes(k0)
          PROVE  Filled(h) <=> Cardinality(BlocksTo(h)) <= MaxMoves
        <3>1. Filled(h) <=> h < Front
            BY <1>2 DEF FilledBefore
        <3>2. h < Front => Cardinality(BlocksTo(h)) <= MaxMoves
            BY <1>2, <1>6, <2>2, MovesAssumption, WithinMoves
        <3>3. Front <= h => ~(Cardinality(BlocksTo(h)) <= MaxMoves)
            BY <1>2, <1>6, <2>1, <2>2, BeyondMoves
        <3>4. h \in Nat
            BY <1>5
        <3>5. h < Front \/ Front <= h
            BY <1>6, <3>4
        <3>. QED
            BY <3>1, <3>2, <3>3, <3>5, <1>6, <3>4
    <2>4. AllMade'
        BY <1>1, <1>3, <2>3 DEF AllMade, BlocksTo
    <2>. QED
        BY <1>3, <1>7, <1>a, <2>4 DEF FormulaInv, DefragRight
<1>8. CASE n_moves # MaxMoves
    <2>1. pc' = "fill" /\ i1' = i1 + 1 /\ i1' - 1 = i1 /\ Front' = Front
        BY <1>1, <1>6, <1>8, <1>a DEF Front
    <2>a. ~cont'
        BY <1>8, <1>a
    <2>2. FilledBefore'
        BY <1>1, <1>2, <1>3, <2>1 DEF FilledBefore, HolesBefore, BlocksBefore
    <2>3. \A v \in Gone : v >= i1 + 1 <=> v >= i1
        <3>1. \A v \in Gone : v \in Nat /\ v # i1
            BY <1>4, <1>5
        <3>. QED
            BY <1>6, <3>1
    <2>4. {v \in Gone : v >= i1'} = {v \in Gone : v >= i1}
        BY <2>1, <2>3
    <2>5. ASSUME NEW v \in Gone, NEW u \in Movable(k0), u > v, u \notin Gone
          PROVE  v < i1' /\ i1' <= u
        <3>1. v < i1 /\ i1 <= u /\ u # i1
            BY <1>2, <1>4, <2>5, Where DEF Within
        <3>2. v \in Nat /\ u \in Nat
            BY <1>5
        <3>. QED
            BY <1>6, <2>1, <3>1, <3>2
    <2>6. k0.used <= i1'
        BY <1>2, <1>5, <1>6, <2>1 DEF Within
    <2>7. n_moves < MaxMoves
        <3>1. n_moves \in Nat
            BY <1>1 DEF DefragInv, Counted
        <3>. QED
            BY <1>2, <1>8, <3>1, MovesAssumption DEF FilledBefore
    <2>8. ~Adjacent'
        BY <1>3, <1>4, <2>1 DEF Adjacent
    <2>9. HolesBefore(i0)' = HolesBefore(i0)
        BY <1>1 DEF HolesBefore
    <2>10. Within'
        <3>1. /\ i0 .. i0 + nh - 1 \subseteq Holes(k0)
              /\ i0 - 1 \notin Holes(k0) /\ i0 + nh \notin Holes(k0)
              /\ Cardinality({v \in Gone : v >= i1}) = Cardinality(HolesBefore(i0))
            BY <1>2 DEF Within
        <3>. QED
            BY <1>1, <1>3, <2>a, <2>4, <2>5, <2>6, <2>7, <2>8, <2>9, <3>1 DEF Within
    <2>. QED
        BY <1>3, <2>1, <2>2, <2>10 DEF FormulaInv, DefragRight
<1>. QED
    BY <1>7, <1>8

\* One more value is carried.
LEMMA CarryOne ==
    ASSUME NEW m, NEW m2, NEW G, NEW f, NEW f0, NEW z, NEW g,
           NEW s \in Cells, NEW d \in Cells, G \subseteq Cells,
           f = [i \in Cells |-> f[i]],
           CarriedTo(m, G, f, f0, z),
           s \notin G, d \notin G, s # d,
           \A t \in G : m[t] # s /\ m[t] # d /\ m[t] \in Cells /\ m2[t] = m[t],
           m2[s] = d,
           g = [f EXCEPT ![d] = f[s], ![s] = z]
    PROVE  CarriedTo(m2, G \cup {s}, g, f0, z) /\ g = [i \in Cells |-> g[i]]
<1>1. g = [i \in Cells |-> IF i = s THEN z ELSE IF i = d THEN f[s] ELSE f[i]]
    OBVIOUS
<1>2. f[s] = f0[s]
    BY DEF CarriedTo
<1>3. ASSUME NEW t \in G \cup {s}
      PROVE  g[m2[t]] = f0[t] /\ g[t] = z
    <2>1. CASE t = s
        BY <1>1, <1>2, <2>1
    <2>2. CASE t # s
        <3>1. t \in G /\ t # d /\ t \in Cells /\ m2[t] = m[t] /\ m[t] \in Cells
              /\ m[t] # s /\ m[t] # d /\ f[m[t]] = f0[t] /\ f[t] = z
            BY <2>2 DEF CarriedTo
        <3>. QED
            BY <1>1, <2>2, <3>1
    <2>. QED
        BY <2>1, <2>2
<1>4. ASSUME NEW i \in Cells, i \notin G \cup {s}, \A t \in G \cup {s} : m2[t] # i
      PROVE  g[i] = f0[i]
    <2>1. i \notin G /\ i # s /\ i # d /\ \A t \in G : m[t] # i
        BY <1>4
    <2>2. f[i] = f0[i]
        BY <2>1 DEF CarriedTo
    <2>. QED
        BY <1>1, <2>1, <2>2
<1>5. g = [i \in Cells |-> g[i]]
    BY <1>1
<1>. QED
    BY <1>3, <1>4, <1>5 DEF CarriedTo

\* A cell goes to the next place, and the moves stay the formula's.
LEMMA FormulaMove ==
    ASSUME DefragInv, FormulaInv, MoveCell
    PROVE  FormulaInv'
<1>. DEFINE to == i0 + nf
            p == to + 1
<1>1. /\ pc = "fill" /\ k0' = k0 /\ k' = CellMoved(to) /\ Unmoved(i1)
      /\ ids' = [ids EXCEPT ![i1] = to]
      /\ nf' = nf + 1 /\ i1' = i1 + 1 /\ nh' = nh
      /\ nf' # nh => pc' = "fill" /\ i0' = i0
      /\ nf' = nh => \/ pc' = "copy" /\ n_moves' = MaxMoves
                     \/ pc' = "scan" /\ i0' = i0 + nh /\ n_moves' # MaxMoves
    BY DEF MoveCell
<1>a. n_moves' = (IF cont THEN n_moves ELSE n_moves + 1) /\ cont'
    BY DEF MoveCell
<1>2. /\ Books /\ Kept /\ Counted /\ Filling /\ Metadata /\ Sent /\ FilledBefore /\ Within
      /\ Front = to
    BY <1>1 DEF DefragInv, FormulaInv, Front
<1>3. /\ i0 \in Nat /\ nh \in Nat /\ nf \in Nat /\ i1 \in Nat /\ nf < nh
      /\ i0 + nh <= i1 /\ Cardinality({j \in Used : j >= i1}) = nh - nf
    BY <1>2 DEF Filling
<1>4. /\ i1 \in Used /\ i1 \in 0 .. NKv - 1 /\ i1 \in Cells /\ ids[i1] = NKv
      /\ NKv \in 0 .. Size /\ Used \in SUBSET Nat /\ IsFiniteSet(Used)
    BY <1>1, FillAt
<1>5. i1 \notin Gone /\ i1 \in Movable(k0) /\ MovesTo(k0, i1, to)
    BY <1>1, <1>4, FillOrder
<1>6. to \in Holes(k0) /\ (BlockStart(k0, to) <=> ~cont)
    BY <1>1, <1>4, BlockAt
<1>7. /\ Holes(k0) \in SUBSET Cells /\ Movable(k0) \in SUBSET Cells /\ Cells \subseteq Nat
      /\ IsFiniteSet(Gone) /\ Gone \subseteq Movable(k0) /\ k0.used \in Nat
      /\ \A t \in Movable(k0) : t >= k0.used /\ t \in 0 .. NKv - 1
      /\ \A x : IsFiniteSet(HolesBefore(x)) /\ IsFiniteSet(BlocksBefore(x))
    BY <1>2, Layout
<1>8. /\ to \in Nat /\ p \in Nat /\ to < i1 /\ to # NKv /\ to \in Cells
      /\ p = i0 + (nf + 1) /\ p - 1 = to
    <2>1. to < i1 /\ to \in Nat /\ i1 < NKv /\ NKv \in Nat
        BY <1>3, <1>4
    <2>. QED
        BY <1>3, <1>6, <1>7, <2>1
<1>9. \A h \in Holes(k0) : h < to <=> Filled(h)
    BY <1>2 DEF FilledBefore
<1>b. ~(to < to)
    BY <1>8
<1>10. \A h \in Holes(k0) : h < p <=> h < to \/ h = to
    <2>. HIDE DEF to
    <2>1. \A h \in Nat : h < to + 1 <=> h < to \/ h = to
        BY <1>8
    <2>. QED
        BY <1>7, <2>1
<1>11. ~Filled(to) /\ i1 \notin Holes(k0) /\ to \notin Movable(k0)
    <2>2. \A h \in Holes(k0) : h \notin Movable(k0)
        BY DEF Holes, Movable
    <2>. QED
        BY <1>5, <1>6, <1>9, <1>b, <2>2
<1>12. \A t \in Gone : ids[t] \in Holes(k0) /\ ids[t] # to /\ ids[t] # i1 /\ t # i1
    BY <1>2, <1>5, <1>11, Where DEF Filled
<1>. HIDE DEF to, p
<1>13. NKv' = NKv
    BY <1>1 DEF NKv, UsedCells, IsEmpty
<1>14. \A j \in 0 .. NKv - 1 : ids'[j] = IF j = i1 THEN to ELSE ids[j]
    BY <1>1, <1>2 DEF Kept
<1>15. Gone' = Gone \cup {i1}
    <2>1. Movable(k0)' = Movable(k0)
        BY <1>1
    <2>. QED
        BY <1>5, <1>7, <1>8, <1>13, <1>14, <2>1 DEF Gone
<1>16. \A t \in Gone : ids'[t] = ids[t]
    BY <1>7, <1>12, <1>14
<1>17. \A h : Filled(h)' <=> Filled(h) \/ h = to
    BY <1>4, <1>12, <1>14, <1>15, <1>16 DEF Filled
<1>18. Metadata'
    <2>1. /\ FullCache(k0) /\ FullCache(k) /\ SameRest
          /\ CarriedTo(ids, Gone, k.pos, k0.pos, -1)
          /\ CarriedTo(ids, Gone, k.delta, k0.delta, 0)
          /\ CarriedTo(ids, Gone, k.seq_id, k0.seq_id, {})
        BY <1>2 DEF Metadata
    <2>2. k' = [k EXCEPT !.pos    = [k.pos EXCEPT ![to] = k.pos[i1],    ![i1] = -1],
                         !.delta  = [k.delta EXCEPT ![to] = k.delta[i1],  ![i1] = 0],
                         !.seq_id = [k.seq_id EXCEPT ![to] = k.seq_id[i1], ![i1] = {}],
                         !.head   = k.used]
        BY <1>1 DEF CellMoved
    <2>3. k = [x \in Fields |-> k[x]]
        BY <2>1 DEF FullCache
    <2>4. /\ k'.pos = [k.pos EXCEPT ![to] = k.pos[i1], ![i1] = -1]
          /\ k'.delta = [k.delta EXCEPT ![to] = k.delta[i1], ![i1] = 0]
          /\ k'.seq_id = [k.seq_id EXCEPT ![to] = k.seq_id[i1], ![i1] = {}]
          /\ k'.head = k.used /\ k'.used = k.used /\ k'.tok = k.tok /\ k'.rot = k.rot
          /\ k'.has_shift = k.has_shift /\ k'.do_defrag = k.do_defrag
          /\ k' = [x \in Fields |-> k'[x]]
        BY <2>2, <2>3 DEF Fields
    <2>5. /\ k.pos = [i \in Cells |-> k.pos[i]] /\ k.delta = [i \in Cells |-> k.delta[i]]
          /\ k.seq_id = [i \in Cells |-> k.seq_id[i]]
          /\ k.tok = [i \in Cells |-> k.tok[i]] /\ k.rot = [i \in Cells |-> k.rot[i]]
        BY <2>1 DEF FullCache
    <2>6. /\ i1 \in Cells /\ to \in Cells /\ Gone \subseteq Cells /\ i1 \notin Gone
          /\ to \notin Gone /\ i1 # to /\ ids'[i1] = to
          /\ \A t \in Gone : /\ ids[t] # i1 /\ ids[t] # to /\ ids[t] \in Cells
                             /\ ids'[t] = ids[t]
        BY <1>4, <1>5, <1>6, <1>7, <1>8, <1>11, <1>12, <1>14, <1>16
    <2>7. PICK m : m = ids'
        OBVIOUS
    <2>8. PICK gp, gd, gs : gp = k'.pos /\ gd = k'.delta /\ gs = k'.seq_id
        OBVIOUS
    <2>9. CarriedTo(m, Gone \cup {i1}, gp, k0.pos, -1) /\ gp = [i \in Cells |-> gp[i]]
        BY <2>1, <2>4, <2>5, <2>6, <2>7, <2>8, CarryOne
    <2>10. CarriedTo(m, Gone \cup {i1}, gd, k0.delta, 0) /\ gd = [i \in Cells |-> gd[i]]
        BY <2>1, <2>4, <2>5, <2>6, <2>7, <2>8, CarryOne
    <2>11. CarriedTo(m, Gone \cup {i1}, gs, k0.seq_id, {}) /\ gs = [i \in Cells |-> gs[i]]
        <3>1. PICK z, f, f0 : z = {} /\ f = k.seq_id /\ f0 = k0.seq_id
            OBVIOUS
        <3>2. gs = [f EXCEPT ![to] = f[i1], ![i1] = z]
            BY <2>4, <2>8, <3>1
        <3>3. CarriedTo(ids, Gone, f, f0, z) /\ f = [i \in Cells |-> f[i]]
            BY <2>1, <2>5, <3>1
        <3>4. CarriedTo(m, Gone \cup {i1}, gs, f0, z) /\ gs = [i \in Cells |-> gs[i]]
            <4>1. /\ m[i1] = to
                  /\ \A t \in Gone : /\ ids[t] # i1 /\ ids[t] # to /\ ids[t] \in Cells
                                     /\ m[t] = ids[t]
                BY <2>6, <2>7
            <4>. QED
                BY <2>6, <3>2, <3>3, <4>1, CarryOne
        <3>. QED
            BY <3>1, <3>4
    <2>12. FullCache(k)'
        BY <2>4, <2>5, <2>8, <2>9, <2>10, <2>11 DEF FullCache
    <2>13. SameRest'
        BY <1>1, <1>15, <2>1, <2>4 DEF SameRest
    <2>. QED
        BY <1>1, <1>15, <2>1, <2>7, <2>8, <2>9, <2>10, <2>11, <2>12, <2>13 DEF Metadata
<1>19. n_moves' \in Nat /\ n_moves' # 0 /\ n_moves' <= MaxMoves
    <2>1. n_moves \in Nat /\ (cont => n_moves > 0) /\ n_moves <= MaxMoves
          /\ (~cont => n_moves < MaxMoves)
        BY <1>2 DEF Counted, FilledBefore, Within
    <2>. QED
        BY <1>a, <2>1, MovesAssumption
<1>20. Sent'
    <2>1. \A t \in Gone' : MovesTo(k0, t, ids'[t])
        BY <1>2, <1>4, <1>5, <1>14, <1>15, <1>16 DEF Sent
    <2>2. \A j \in (0 .. NKv - 1) \ Gone' : ids'[j] = NKv \/ (ids'[j] = j /\ j \notin Holes(k0))
        BY <1>2, <1>14, <1>15 DEF Sent
    <2>. QED
        BY <1>1, <1>13, <1>19, <2>1, <2>2 DEF Sent
\* The counts with the new place.
<1>21. \A h \in Holes(k0) : h < p <=> Filled(h)'
    BY <1>9, <1>10, <1>17
<1>22. Cardinality(Gone') = Cardinality(HolesBefore(p))
    <2>1. HolesBefore(p) = HolesBefore(to) \cup {to} /\ to \notin HolesBefore(to)
        BY <1>6, <1>b, <1>10 DEF HolesBefore
    <2>2. Cardinality(HolesBefore(p)) = Cardinality(HolesBefore(to)) + 1
        BY <1>7, <2>1, FS_AddElement
    <2>3. Cardinality(Gone') = Cardinality(Gone) + 1
        BY <1>5, <1>7, <1>15, FS_AddElement
    <2>. QED
        BY <1>2, <2>2, <2>3 DEF FilledBefore
<1>23. n_moves' = Cardinality(BlocksBefore(p))
    <2>1. n_moves = Cardinality(BlocksBefore(to))
        BY <1>2 DEF FilledBefore
    <2>2. CASE cont
        <3>1. BlocksBefore(p) = BlocksBefore(to)
            BY <1>6, <1>10, <2>2 DEF BlocksBefore
        <3>. QED
            BY <1>a, <2>1, <2>2, <3>1
    <2>3. CASE ~cont
        <3>1. BlocksBefore(p) = BlocksBefore(to) \cup {to} /\ to \notin BlocksBefore(to)
            BY <1>6, <1>b, <1>10, <2>3 DEF BlocksBefore
        <3>2. Cardinality(BlocksBefore(p)) = Cardinality(BlocksBefore(to)) + 1
            BY <1>7, <3>1, FS_AddElement
        <3>. QED
            BY <1>a, <2>1, <2>3, <3>2
    <2>. QED
        BY <2>2, <2>3
<1>24. Front' = p => FilledBefore'
    <2>. SUFFICES ASSUME Front' = p PROVE FilledBefore'
        OBVIOUS
    <2>1. HolesBefore(Front)' = HolesBefore(p) /\ BlocksBefore(Front)' = BlocksBefore(p)
        BY <1>1 DEF HolesBefore, BlocksBefore
    <2>. QED
        BY <1>1, <1>19, <1>21, <1>22, <1>23, <2>1 DEF FilledBefore
<1>25. /\ i0 .. i0 + nh - 1 \subseteq Holes(k0)
       /\ i0 - 1 \notin Holes(k0) /\ i0 + nh \notin Holes(k0)
       /\ Cardinality({v \in Gone : v >= i1}) = Cardinality(HolesBefore(i0))
       /\ k0.used <= i1
    BY <1>2 DEF Within
<1>26. ASSUME NEW v \in Gone', NEW u \in Movable(k0), u > v, u \notin Gone'
       PROVE  v < i1 + 1 /\ i1 + 1 <= u
    <2>1. u \in Nat /\ v \in Nat /\ u # i1 /\ u \notin Gone
        BY <1>5, <1>7, <1>15, <1>26
    <2>2. CASE v = i1
        BY <1>3, <1>26, <2>1, <2>2
    <2>3. CASE v \in Gone
        <3>1. v < i1 /\ i1 <= u
            BY <1>2, <1>26, <2>1, <2>3 DEF Within
        <3>. QED
            BY <1>3, <2>1, <3>1
    <2>. QED
        BY <1>15, <2>2, <2>3
<1>27. CASE nf + 1 # nh
    <2>1. pc' = "fill" /\ i0' = i0 /\ nh' = nh /\ nf' = nf + 1 /\ i1' = i1 + 1
        BY <1>1, <1>27
    <2>2. Front' = p
        BY <1>8, <2>1 DEF Front
    <2>3. {v \in Gone' : v >= i1'} = {v \in Gone : v >= i1}
        <3>1. \A v \in Gone : v \in Nat /\ v # i1
            BY <1>5, <1>7
        <3>2. \A v \in Gone : v >= i1 + 1 <=> v >= i1
            BY <1>3, <3>1
        <3>3. ~(i1 >= i1 + 1)
            BY <1>3
        <3>. QED
            BY <1>15, <2>1, <3>2, <3>3
    <2>4. Adjacent'
        <3>2. i1 \in Gone' /\ ids'[i1] = to
            BY <1>4, <1>14, <1>15
        <3>3. nf' > 0 /\ i1' - 1 = i1 /\ i0' + nf' - 1 = to
            <4>1. nf' - 1 = nf
                BY <1>3, <2>1
            <4>2. i0' + nf' - 1 = i0 + nf
                BY <2>1, <4>1
            <4>3. nf' > 0 /\ i1' - 1 = i1
                BY <1>3, <2>1
            <4>. QED
                BY <4>2, <4>3 DEF to
        <3>. QED
            BY <3>2, <3>3 DEF Adjacent
    <2>5. k0.used <= i1 + 1
        BY <1>3, <1>7, <1>25
    <2>6. HolesBefore(i0)' = HolesBefore(i0)
        BY <1>1, <2>1 DEF HolesBefore
    <2>7. Within'
        BY <1>1, <1>a, <1>25, <1>26, <2>1, <2>3, <2>4, <2>5, <2>6 DEF Within
    <2>. QED
        BY <1>18, <1>20, <1>24, <2>1, <2>2, <2>7 DEF FormulaInv, DefragRight
<1>28. CASE nf + 1 = nh
    <2>1. p = i0 + nh
        BY <1>8, <1>28
    <2>2. CASE pc' = "copy" /\ n_moves' = MaxMoves
        <3>1. Cardinality(BlocksBefore(p)) = MaxMoves
            BY <1>23, <2>2
        <3>2. ASSUME NEW h \in Holes(k0), p <= h
              PROVE  ~(Cardinality(BlocksTo(h)) <= MaxMoves)
            <4>. DEFINE S == {x \in Holes(k0) : p <= x}
                        x == Least(S)
            <4>1. S \in SUBSET Nat /\ S # {}
                BY <1>7, <3>2
            <4>2. x \in S /\ \A y \in S : x <= y
                <5>. HIDE DEF S
                <5>. QED
                    BY <4>1, LeastIsLeast
            <4>. HIDE DEF x
            <4>3. x \in Holes(k0) /\ x \in Nat /\ p <= x /\ x # p /\ x <= h
                BY <1>7, <1>25, <2>1, <3>2, <4>2
            <4>4. x - 1 \notin Holes(k0)
                <5>1. p <= x - 1 /\ ~(x <= x - 1)
                    BY <1>8, <4>3
                <5>. QED
                    BY <4>2, <5>1
            <4>5. BlockStart(k0, x)
                BY <4>3, <4>4 DEF BlockStart
            <4>. QED
                BY <1>2, <1>8, <3>1, <3>2, <4>3, <4>5, BeyondMoves
        <3>3. ASSUME NEW h \in Holes(k0)
              PROVE  Filled(h)' <=> Cardinality(BlocksTo(h)) <= MaxMoves
            <4>1. h \in Nat
                BY <1>7
            <4>2. h < p \/ p <= h
                BY <1>8, <4>1
            <4>3. p <= h => ~(h < p)
                BY <1>8, <4>1
            <4>4. h < p => Cardinality(BlocksTo(h)) <= MaxMoves
                BY <1>2, <1>8, <3>1, MovesAssumption, WithinMoves
            <4>. QED
                BY <1>21, <3>2, <4>2, <4>3, <4>4
        <3>4. AllMade'
            BY <1>1, <3>3 DEF AllMade, BlocksTo
        <3>. QED
            BY <1>18, <1>20, <2>2, <3>4 DEF FormulaInv, DefragRight
    <2>3. CASE pc' = "scan" /\ i0' = i0 + nh /\ n_moves' # MaxMoves
        <3>1. Front' = p
            BY <2>1, <2>3 DEF Front
        <3>2. n_moves' < MaxMoves
            BY <1>19, <2>3, MovesAssumption
        <3>3. ASSUME NEW v \in Gone', NEW u \in Movable(k0), u > v
              PROVE  u \in Gone'
            <4>. SUFFICES ASSUME u \notin Gone' PROVE FALSE
                OBVIOUS
            <4>. DEFINE F == {j \in Used : j >= i1}
            <4>1. i1 + 1 <= u /\ u \in Nat
                BY <1>7, <1>26, <3>3
            <4>2. u \in Used
                BY <1>2, <1>15, Where
            <4>3. i1 \in F /\ u \in F /\ u # i1
                BY <1>3, <1>4, <4>1, <4>2
            <4>4. IsFiniteSet(F)
                <5>1. F \in SUBSET Used
                    OBVIOUS
                <5>. QED
                    BY <1>4, <5>1, FS_Subset
            <4>5. Cardinality(F) = 1
                <5>1. nh - nf = 1
                    BY <1>3, <1>28
                <5>. QED
                    BY <1>3, <5>1
            <4>. HIDE DEF F
            <4>6. IsFiniteSet(F \ {i1}) /\ Cardinality(F \ {i1}) = 0
                BY <4>3, <4>4, <4>5, FS_RemoveElement
            <4>7. F \ {i1} = {}
                BY <4>6, FS_EmptySet
            <4>. QED
                BY <4>3, <4>7
        <3>4. i0' \notin Holes(k0)
            BY <1>25, <2>3
        <3>5. Between'
            BY <1>1, <3>2, <3>3, <3>4 DEF Between
        <3>. QED
            BY <1>18, <1>20, <1>24, <2>3, <3>1, <3>5 DEF FormulaInv, DefragRight
    <2>. QED
        BY <1>1, <1>28, <2>2, <2>3
<1>. QED
    BY <1>27, <1>28

\* When all are made, ids holds the formula's moves.
LEMMA MovesMade ==
    ASSUME Books, Metadata, Sent, AllMade
    PROVE  \A t, h : Move(k0, t, h) <=> t \in Gone /\ ids[t] = h
<1>1. ASSUME NEW t, NEW h, Move(k0, t, h)
      PROVE  t \in Gone /\ ids[t] = h
    <2>1. MovesTo(k0, t, h) /\ h \in Holes(k0)
        BY <1>1 DEF Move, MovesTo
    <2>2. Filled(h)
        BY <1>1, <2>1 DEF Move, AllMade
    <2>3. PICK w \in Gone : ids[w] = h
        BY <2>2 DEF Filled
    <2>4. MovesTo(k0, w, h)
        BY <2>3 DEF Sent
    <2>5. w = t
        BY <2>1, <2>4, MovesToOneToOne
    <2>. QED
        BY <2>3, <2>5
<1>2. ASSUME NEW t \in Gone
      PROVE  Move(k0, t, ids[t])
    <2>1. MovesTo(k0, t, ids[t]) /\ ids[t] \in Holes(k0) /\ Filled(ids[t])
        BY DEF Sent, MovesTo, Filled
    <2>. QED
        BY <2>1 DEF Move, AllMade
<1>. QED
    BY <1>1, <1>2

\* The metadata is where the formula puts it.
LEMMA MovedRight ==
    ASSUME NEW G \in SUBSET Cells, NEW m,
           \A t, h : Move(k0, t, h) <=> t \in G /\ m[t] = h,
           \A t \in G : m[t] \in Cells,
           NEW f, NEW f0, NEW z, f = [i \in Cells |-> f[i]], CarriedTo(m, G, f, f0, z)
    PROVE  Moved(k0, f0, z) = f
<1>1. ASSUME NEW i \in Cells
      PROVE  Moved(k0, f0, z)[i] = f[i]
    <2>1. Moved(k0, f0, z)[i] =
            IF \E t \in Cells : Move(k0, t, i) THEN f0[CHOOSE t \in Cells : Move(k0, t, i)]
            ELSE IF \E h \in Cells : Move(k0, i, h) THEN z ELSE f0[i]
        BY DEF Moved
    <2>2. CASE \E t \in Cells : Move(k0, t, i)
        <3>1. PICK t \in Cells : Move(k0, t, i) /\ t = CHOOSE u \in Cells : Move(k0, u, i)
            BY <2>2
        <3>2. f[m[t]] = f0[t] /\ m[t] = i
            BY <3>1 DEF CarriedTo
        <3>. QED
            BY <2>1, <2>2, <3>1, <3>2
    <2>3. CASE ~(\E t \in Cells : Move(k0, t, i)) /\ \E h \in Cells : Move(k0, i, h)
        <3>1. f[i] = z
            BY <2>3 DEF CarriedTo
        <3>. QED
            BY <2>1, <2>3, <3>1
    <2>4. CASE ~(\E t \in Cells : Move(k0, t, i)) /\ ~\E h \in Cells : Move(k0, i, h)
        <3>1. i \notin G /\ \A t \in G : m[t] # i
            BY <2>4
        <3>2. f[i] = f0[i]
            BY <3>1 DEF CarriedTo
        <3>. QED
            BY <2>1, <2>4, <3>2
    <2>. QED
        BY <2>2, <2>3, <2>4
<1>2. Moved(k0, f0, z) = [i \in Cells |-> Moved(k0, f0, z)[i]]
    BY DEF Moved
<1>. QED
    BY <1>1, <1>2

\* The rows too.
CopiedBy(m, G, f0) ==
    [i \in Cells |-> IF \E t \in G : m[t] = i THEN f0[CHOOSE t \in G : m[t] = i] ELSE f0[i]]

LEMMA CopiedRight ==
    ASSUME NEW G \in SUBSET Cells, NEW m,
           \A t, h : Move(k0, t, h) <=> t \in G /\ m[t] = h,
           NEW f0
    PROVE  Copied(k0, f0) = CopiedBy(m, G, f0)
<1>1. ASSUME NEW i \in Cells
      PROVE  /\ (\E t \in Cells : Move(k0, t, i)) <=> (\E t \in G : m[t] = i)
             /\ (\E t \in G : m[t] = i) =>
                    (CHOOSE t \in Cells : Move(k0, t, i)) = (CHOOSE t \in G : m[t] = i)
    <2>1. (\E t \in Cells : Move(k0, t, i)) <=> (\E t \in G : m[t] = i)
        OBVIOUS
    <2>2. ASSUME \E t \in G : m[t] = i
          PROVE  (CHOOSE t \in Cells : Move(k0, t, i)) = (CHOOSE t \in G : m[t] = i)
        <3>1. PICK t \in G : m[t] = i /\ t = CHOOSE u \in G : m[u] = i
            BY <2>2
        <3>2. PICK v \in Cells : Move(k0, v, i) /\ v = CHOOSE u \in Cells : Move(k0, u, i)
            BY <2>1, <2>2
        <3>3. Move(k0, t, i)
            BY <3>1
        <3>4. t = v
            BY <3>2, <3>3, MovesToOneToOne DEF Move
        <3>. QED
            BY <3>1, <3>2, <3>4
    <2>. QED
        BY <2>1, <2>2
<1>. QED
    BY <1>1 DEF Copied, CopiedBy

LEMMA FormulaResult ==
    ASSUME Books, Metadata, Sent, AllMade, NEW c,
           c = [k EXCEPT !.tok = CopiedBy(ids, Gone, k0.tok),
                         !.rot = CopiedBy(ids, Gone, k0.rot)]
    PROVE  c = Defrag(k0)
<1>1. \A t, h : Move(k0, t, h) <=> t \in Gone /\ ids[t] = h
    BY MovesMade
<1>2. Gone \in SUBSET Cells /\ \A t \in Gone : ids[t] \in Cells
    BY Layout, Where
<1>3. /\ FullCache(k0) /\ FullCache(k) /\ SameRest
      /\ CarriedTo(ids, Gone, k.pos, k0.pos, -1)
      /\ CarriedTo(ids, Gone, k.delta, k0.delta, 0)
      /\ CarriedTo(ids, Gone, k.seq_id, k0.seq_id, {})
    BY DEF Metadata
<1>4. k.pos = [i \in Cells |-> k.pos[i]] /\ k.delta = [i \in Cells |-> k.delta[i]]
      /\ k.seq_id = [i \in Cells |-> k.seq_id[i]]
    BY <1>3 DEF FullCache
<1>5. k.pos = Moved(k0, k0.pos, -1)
    BY <1>1, <1>2, <1>3, <1>4, MovedRight
<1>6. k.delta = Moved(k0, k0.delta, 0)
    BY <1>1, <1>2, <1>3, <1>4, MovedRight
<1>7. k.seq_id = Moved(k0, k0.seq_id, {})
    <2>1. PICK z, f, f0 : z = {} /\ f = k.seq_id /\ f0 = k0.seq_id
        OBVIOUS
    <2>2. CarriedTo(ids, Gone, f, f0, z) /\ f = [i \in Cells |-> f[i]]
        BY <1>3, <1>4, <2>1
    <2>3. f = Moved(k0, f0, z)
        BY <1>1, <1>2, <2>2, MovedRight
    <2>. QED
        BY <2>1, <2>3
<1>8. Copied(k0, k0.tok) = CopiedBy(ids, Gone, k0.tok)
    BY <1>1, <1>2, CopiedRight
<1>9. Copied(k0, k0.rot) = CopiedBy(ids, Gone, k0.rot)
    BY <1>1, <1>2, CopiedRight
<1>10. k.head = IF \E t, h \in Cells : Move(k0, t, h) THEN k0.used ELSE k0.head
    <2>1. (\E t, h \in Cells : Move(k0, t, h)) <=> Gone # {}
        BY <1>1, <1>2
    <2>. QED
        BY <1>3, <2>1 DEF SameRest
<1>11. k = [x \in Fields |-> k[x]] /\ k0 = [x \in Fields |-> k0[x]]
    BY <1>3 DEF FullCache
<1>12. /\ k.used = k0.used /\ k.has_shift = k0.has_shift /\ k.do_defrag = k0.do_defrag
    BY <1>3 DEF SameRest
<1>13. c = [k EXCEPT !.tok = Copied(k0, k0.tok), !.rot = Copied(k0, k0.rot)]
    BY <1>8, <1>9
<1>. DEFINE D == Defrag(k0)
<1>14. D = [ k0 EXCEPT !.pos    = k.pos,
                       !.delta  = k.delta,
                       !.seq_id = k.seq_id,
                       !.tok    = Copied(k0, k0.tok),
                       !.rot    = Copied(k0, k0.rot),
                       !.head   = k.head ]
    BY <1>5, <1>6, <1>7, <1>10 DEF Defrag
<1>. HIDE DEF D
<1>15. c = D
    <2>1. PICK a, b : a = Copied(k0, k0.tok) /\ b = Copied(k0, k0.rot)
        OBVIOUS
    <2>2. c = [x \in Fields |-> c[x]] /\ D = [x \in Fields |-> D[x]]
        BY <1>11, <1>13, <1>14
    <2>3. /\ c.pos = k.pos /\ c.delta = k.delta /\ c.seq_id = k.seq_id /\ c.tok = a
          /\ c.rot = b /\ c.head = k.head /\ c.used = k.used /\ c.has_shift = k.has_shift
          /\ c.do_defrag = k.do_defrag
        BY <1>11, <1>13, <2>1 DEF Fields
    <2>4. /\ D.pos = k.pos /\ D.delta = k.delta /\ D.seq_id = k.seq_id /\ D.tok = a
          /\ D.rot = b /\ D.head = k.head /\ D.used = k0.used /\ D.has_shift = k0.has_shift
          /\ D.do_defrag = k0.do_defrag
        BY <1>11, <1>14, <2>1 DEF Fields
    <2>5. \A x \in Fields : c[x] = D[x]
        BY <1>12, <2>3, <2>4 DEF Fields
    <2>. QED
        BY <2>2, <2>5
<1>. QED
    BY <1>15 DEF D

\* Nothing was moved: the rows are where they were.
LEMMA NothingMoved ==
    ASSUME Books, Metadata, Sent, AllMade, Gone = {}
    PROVE  k = Defrag(k0)
<1>1. FullCache(k0) /\ FullCache(k) /\ k.tok = k0.tok /\ k.rot = k0.rot
    BY DEF Metadata, SameRest
<1>2. CopiedBy(ids, Gone, k0.tok) = k.tok /\ CopiedBy(ids, Gone, k0.rot) = k.rot
    BY <1>1 DEF CopiedBy, FullCache
<1>3. k = [k EXCEPT !.tok = k.tok, !.rot = k.rot]
    BY <1>1 DEF FullCache
<1>4. k = [k EXCEPT !.tok = CopiedBy(ids, Gone, k0.tok), !.rot = CopiedBy(ids, Gone, k0.rot)]
    BY <1>2, <1>3
<1>. QED
    BY <1>4, FormulaResult

LEMMA FormulaScanned ==
    ASSUME DefragInv, FormulaInv, Scanned
    PROVE  FormulaInv'
<1>1. /\ pc = "scan" /\ k0' = k0 /\ k' = k /\ ids' = ids /\ i0 >= k.used
      /\ n_moves' = n_moves
      /\ pc' = IF n_moves = 0 THEN "defragmented" ELSE "copy"
    BY DEF Scanned, defragVars
<1>2. /\ Books /\ Scanning /\ Metadata /\ Sent /\ FilledBefore /\ Front = i0
    BY <1>1 DEF DefragInv, FormulaInv, Front
<1>3. Gone' = Gone /\ Metadata' /\ Sent' /\ \A h : Filled(h)' <=> Filled(h)
    BY <1>1, <1>2, SameMoves
<1>4. /\ Holes(k0) \in SUBSET Cells /\ Cells \subseteq Nat
      /\ k0.used = k.used /\ k0.used \in Nat /\ \A h \in Holes(k0) : h < k0.used
    BY <1>2, Layout
<1>5. i0 \in Nat
    BY <1>2, <1>4 DEF Scanning
<1>6. ASSUME NEW h \in Holes(k0)
      PROVE  Filled(h) /\ Cardinality(BlocksTo(h)) <= MaxMoves
    <2>1. h < i0
        <3>1. h \in Nat /\ h < k0.used
            BY <1>4
        <3>. QED
            BY <1>1, <1>4, <1>5, <3>1
    <2>2. Cardinality(BlocksBefore(i0)) <= MaxMoves
        BY <1>2 DEF FilledBefore
    <2>. QED
        BY <1>2, <1>5, <2>1, <2>2, WithinMoves DEF FilledBefore
<1>7. AllMade
    BY <1>6 DEF AllMade, BlocksTo
<1>8. AllMade'
    BY <1>1, <1>3, <1>7 DEF AllMade
<1>9. n_moves = 0 => k = Defrag(k0)
    BY <1>2, <1>7, NothingMoved DEF Sent
<1>. QED
    BY <1>1, <1>3, <1>8, <1>9 DEF FormulaInv, DefragRight

LEMMA FormulaCopy ==
    ASSUME DefragInv, FormulaInv, CopyRows
    PROVE  FormulaInv'
<1>. DEFINE from(i) == {j \in DOMAIN ids : ids[j] = i /\ i # NKv}
            row(f)  == [i \in Cells |-> IF from(i) = {} THEN f[i] ELSE f[Least(from(i))]]
<1>1. /\ pc = "copy" /\ pc' = "defragmented" /\ k0' = k0
      /\ k' = [k EXCEPT !.tok = row(k.tok), !.rot = row(k.rot)]
    BY DEF CopyRows, defragVars
<1>2. Books /\ Kept /\ Metadata /\ Sent /\ AllMade
    BY <1>1 DEF DefragInv, FormulaInv
<1>3. /\ DOMAIN ids = 0 .. NKv - 1 /\ Gone \subseteq 0 .. NKv - 1 /\ Gone \subseteq Nat
      /\ \A t \in Gone : ids[t] # NKv
    BY <1>2, Layout DEF Kept, Gone
\* One row comes to a hole, and a row that stays is copied onto itself.
<1>4. ASSUME NEW w \in Gone
      PROVE  from(ids[w]) = {w}
    <2>1. MovesTo(k0, w, ids[w]) /\ ids[w] \in Holes(k0)
        BY <1>2 DEF Sent, MovesTo
    <2>2. ASSUME NEW j \in 0 .. NKv - 1, ids[j] = ids[w]
          PROVE  j = w
        <3>1. CASE j \in Gone
            <4>1. MovesTo(k0, j, ids[w])
                BY <1>2, <2>2, <3>1 DEF Sent
            <4>. QED
                BY <2>1, <4>1, MovesToOneToOne
        <3>2. CASE j \notin Gone
            <4>1. ids[j] = NKv \/ (ids[j] = j /\ j \notin Holes(k0))
                BY <1>2, <3>2 DEF Sent
            <4>. QED
                BY <1>3, <2>1, <2>2, <4>1
        <3>. QED
            BY <3>1, <3>2
    <2>. QED
        BY <1>3, <2>2
<1>5. ASSUME NEW i, ~Filled(i), NEW j \in from(i)
      PROVE  j = i
    <2>1. j \in 0 .. NKv - 1 /\ ids[j] = i /\ i # NKv
        BY <1>3
    <2>2. j \notin Gone
        BY <1>5, <2>1 DEF Filled
    <2>. QED
        BY <1>2, <2>1, <2>2 DEF Sent
<1>. HIDE DEF from
<1>6. ASSUME NEW f
      PROVE  row(f) = CopiedBy(ids, Gone, f)
    <2>1. ASSUME NEW i \in Cells
          PROVE  (IF from(i) = {} THEN f[i] ELSE f[Least(from(i))]) =
                    (IF \E t \in Gone : ids[t] = i THEN f[CHOOSE t \in Gone : ids[t] = i]
                     ELSE f[i])
        <3>1. CASE \E t \in Gone : ids[t] = i
            <4>1. PICK t \in Gone : ids[t] = i /\ t = CHOOSE u \in Gone : ids[u] = i
                BY <3>1
            <4>2. from(i) = {t}
                BY <1>4, <4>1
            <4>3. {t} \in SUBSET Nat /\ {t} # {}
                BY <1>3
            <4>4. Least({t}) = t
                BY <4>3, LeastIsLeast
            <4>5. (IF from(i) = {} THEN f[i] ELSE f[Least(from(i))]) = f[t]
                BY <4>2, <4>4
            <4>. QED
                BY <3>1, <4>1, <4>5
        <3>2. CASE ~\E t \in Gone : ids[t] = i
            <4>1. ~Filled(i)
                BY <3>2 DEF Filled
            <4>2. from(i) # {} => from(i) = {i} /\ i \in Nat
                <5>1. i \in Nat
                    BY SizeAssumption DEF Cells
                <5>. QED
                    BY <1>5, <4>1, <5>1
            <4>3. i \in Nat => Least({i}) = i
                <5>1. i \in Nat => {i} \in SUBSET Nat /\ {i} # {}
                    OBVIOUS
                <5>. QED
                    BY <5>1, LeastIsLeast
            <4>4. (IF from(i) = {} THEN f[i] ELSE f[Least(from(i))]) = f[i]
                BY <4>2, <4>3
            <4>. QED
                BY <3>2, <4>4
        <3>. QED
            BY <3>1, <3>2
    <2>. QED
        BY <2>1 DEF CopiedBy
<1>7. row(k.tok) = CopiedBy(ids, Gone, k.tok) /\ row(k.rot) = CopiedBy(ids, Gone, k.rot)
    BY <1>6
<1>. HIDE DEF row
<1>8. k.tok = k0.tok /\ k.rot = k0.rot
    BY <1>2 DEF Metadata, SameRest
<1>9. PICK c : c = k'
    OBVIOUS
<1>10. c = [k EXCEPT !.tok = CopiedBy(ids, Gone, k0.tok),
                     !.rot = CopiedBy(ids, Gone, k0.rot)]
    BY <1>1, <1>7, <1>8, <1>9
<1>11. c = Defrag(k0)
    BY <1>2, <1>10, FormulaResult
<1>12. DefragRight'
    <2>1. Defrag(k0)' = Defrag(k0)
        BY <1>1
    <2>. QED
        BY <1>9, <1>11, <2>1 DEF DefragRight
<1>. QED
    BY <1>1, <1>12 DEF FormulaInv

LEMMA FormulaStep ==
    ASSUME DefragInv, FormulaInv, [LoopNext]_loopVars
    PROVE  FormulaInv'
<1>1. CASE UNCHANGED loopVars
    <2>1. /\ k0' = k0 /\ k' = k /\ pc' = pc /\ ids' = ids /\ i0' = i0 /\ nh' = nh
          /\ nf' = nf /\ i1' = i1 /\ cont' = cont /\ n_moves' = n_moves
        BY <1>1 DEF loopVars, defragVars
    <2>2. Gone' = Gone /\ NKv' = NKv /\ \A h : Filled(h)' <=> Filled(h)
        BY <2>1, SameMoves
    <2>3. (Metadata => Metadata') /\ (Sent => Sent')
        BY <2>1, SameMoves
    <2>4. Front' = Front
        BY <2>1 DEF Front
    <2>5. (FilledBefore => FilledBefore') /\ (Between => Between')
        BY <2>1, <2>2, <2>4 DEF FilledBefore, Between, HolesBefore, BlocksBefore
    <2>6. Adjacent' <=> Adjacent
        BY <2>1, <2>2 DEF Adjacent
    <2>7. Within => Within'
        BY <2>1, <2>2, <2>6 DEF Within, HolesBefore
    <2>8. (AllMade => AllMade') /\ (DefragRight => DefragRight')
        BY <2>1, <2>2 DEF AllMade, DefragRight
    <2>. QED
        BY <2>1, <2>3, <2>5, <2>7, <2>8 DEF FormulaInv
<1>2. CASE SearchNext
    <2>1. pc' \in {"search", "found", "none"}
        BY <1>2 DEF SearchNext, BeginSearch, Wrap, Found, Skip
    <2>. QED
        BY <2>1 DEF FormulaInv, DefragRight
<1>. QED
    BY <1>1, <1>2, FormulaStay, FormulaHole, FormulaGap, FormulaMove, FormulaScanned, FormulaCopy
       DEF LoopNext, DefragNext

\* The loop of llama_kv_cache_defrag_internal leaves the cache KvOps!Defrag names, stopped by
\* max_moves in the middle of a hole or not: the formula the cache's own proofs use is what
\* the loop does.
THEOREM DefragIsFormula == LoopSpec => []DefragRight
<1>1. FormulaInv => DefragRight
    BY DEF FormulaInv
<1>2. LoopSpec => []FormulaInv
    BY DefragSound, FormulaInit, FormulaStep, PTL DEF LoopSpec
<1>. QED
    BY <1>1, <1>2, PTL

=============================================================================
