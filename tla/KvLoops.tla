------------------------------ MODULE KvLoops ------------------------------
(***************************************************************************)
(* The two loops llama_decode runs over the cells before it places a       *)
(* ubatch, a turn of a loop a step.                                        *)
(*                                                                         *)
(* llama_kv_cache_defrag_internal fills holes among the first used cells   *)
(* with the cells at the end: the cells' metadata moves at once, ids       *)
(* records where each cell went, and the rows of the tensors follow in one *)
(* graph at the end.  llama_kv_cache_find_slot then looks for n free cells *)
(* in a row.  KvOps says in one formula each what they do: Defrag,         *)
(* FindSlot and HeadAfterMiss.                                             *)
(***************************************************************************)
EXTENDS KvOps

\* A used cell has a sequence.
ASSUME SeqsGiven == Seqs # {}

VARIABLES
    k0,        \* the cache the loop began with
    k,         \* the cache as the loop changes it
    pc,
    \* defragmentation: where each cell went (NKv when nowhere), the cell looked
    \* at where a hole begins, the hole's length, how much of it is filled, the
    \* cell that may move, whether the last cell moved too, the block moves so far
    ids, i0, nh, nf, i1, cont, n_moves,
    \* the search: the tokens to place, the cells tested
    n, n_tested

defragVars == <<ids, i0, nh, nf, i1, cont, n_moves>>
searchVars == <<n, n_tested>>
loopVars == <<k0, k, pc, defragVars, searchVars>>

\* llama_kv_cache_cell_max: one more than the last used cell.
NKv == Cardinality({j \in Cells : \E u \in UsedCells(k0) : j <= u})

\* A cache whose cells in U are used, each with a position and a row of its own,
\* and any head a former search can have left.
CacheWith(U, h) ==
    [InitCache EXCEPT !.pos    = [i \in Cells |-> IF i \in U THEN i ELSE -1],
                      !.seq_id = [i \in Cells |-> IF i \in U THEN Seqs ELSE {}],
                      !.rot    = [i \in Cells |-> i],
                      !.head   = h,
                      !.used   = Cardinality(U)]

\* Defragmentation is queued or not.
LoopInit ==
    /\ k0 \in {CacheWith(U, h) : U \in SUBSET Cells, h \in 0 .. Size}
    /\ k = k0
    /\ pc \in {"scan", "decode"}
    /\ ids = [j \in 0 .. NKv - 1 |-> NKv]
    /\ i0 = 0 /\ nh = 0 /\ nf = 0 /\ i1 = 0
    /\ cont = FALSE
    /\ n_moves = 0
    /\ n = 0 /\ n_tested = 0

-----------------------------------------------------------------------------
(* llama_kv_cache_defrag_internal.                                         *)

\* A used cell among the first ones stays.
Stay ==
    /\ pc = "scan"
    /\ i0 < k.used
    /\ ~IsEmpty(k, i0)
    /\ ids' = [ids EXCEPT ![i0] = i0]
    /\ i0' = i0 + 1
    /\ UNCHANGED <<k0, k, nh, nf, i1, cont, n_moves, pc, searchVars>>

Unmoved(i) == ~IsEmpty(k, i) /\ ids[i] = NKv

\* The length of the hole at i0.
HoleLength ==
    Cardinality({j \in i0 .. k.used - 1 : \A x \in i0 .. j : IsEmpty(k, x)})

\* Mutant of Fillers: the last cell is forgotten.
FillersButLast == {i \in i0 + 1 .. NKv - 2 : Unmoved(i)}

\* The cells behind i0 that may fill the hole.
Fillers == {i \in i0 + 1 .. NKv - 1 : Unmoved(i)}

\* A hole: as many cells as it is long are looked for from the end, down to the
\* cell behind i0.  GGML_ASSERT(nf == nh) when there are not that many.
Hole ==
    /\ pc = "scan"
    /\ i0 < k.used
    /\ IsEmpty(k, i0)
    /\ nh' = HoleLength
    /\ LET last == {i \in Fillers : Cardinality({j \in Fillers : j >= i}) = HoleLength}
       IN  IF last = {} THEN pc' = "assert failed" /\ UNCHANGED i1
           ELSE pc' = "fill" /\ i1' = Least(last)
    /\ nf' = 0
    /\ cont' = FALSE
    /\ UNCHANGED <<k0, k, ids, i0, n_moves, searchVars>>

\* Mutant of Gap: the block goes on behind the gap.
GapJoined ==
    /\ pc = "fill"
    /\ ~Unmoved(i1)
    /\ IF n_moves = MaxMoves THEN pc' = "copy" /\ UNCHANGED i1
       ELSE i1' = i1 + 1 /\ UNCHANGED pc
    /\ UNCHANGED <<k0, k, ids, i0, nh, nf, cont, n_moves, searchVars>>

\* A cell that cannot move ends a block.
Gap ==
    /\ pc = "fill"
    /\ ~Unmoved(i1)
    /\ IF n_moves = MaxMoves THEN pc' = "copy" /\ UNCHANGED <<i1, cont>>
       ELSE i1' = i1 + 1 /\ cont' = FALSE /\ UNCHANGED pc
    /\ UNCHANGED <<k0, k, ids, i0, nh, nf, n_moves, searchVars>>

\* Mutant of CellMoved: the old cell is not cleared.
CellCopied(to) ==
    [k EXCEPT !.pos[to] = k.pos[i1], !.delta[to] = k.delta[i1],
              !.seq_id[to] = k.seq_id[i1], !.head = k.used]

\* The metadata of i1 goes to another cell, the head to used.
CellMoved(to) ==
    [k EXCEPT !.pos    = [@ EXCEPT ![to] = k.pos[i1],    ![i1] = -1],
              !.delta  = [@ EXCEPT ![to] = k.delta[i1],  ![i1] = 0],
              !.seq_id = [@ EXCEPT ![to] = k.seq_id[i1], ![i1] = {}],
              !.head   = k.used]

\* A cell moves to the next place in the hole.
MoveCell ==
    /\ pc = "fill"
    /\ Unmoved(i1)
    /\ ids' = [ids EXCEPT ![i1] = i0 + nf]
    /\ k' = CellMoved(i0 + nf)
    /\ n_moves' = IF cont THEN n_moves ELSE n_moves + 1
    /\ cont' = TRUE
    /\ nf' = nf + 1
    /\ i1' = i1 + 1
    /\ IF nf' = nh
       THEN IF n_moves' = MaxMoves THEN pc' = "copy" /\ UNCHANGED i0
            ELSE pc' = "scan" /\ i0' = i0 + nh
       ELSE UNCHANGED <<pc, i0>>
    /\ UNCHANGED <<k0, nh, searchVars>>

\* Mutant of Scanned: the last of the first cells is not looked at.
ScannedEarly ==
    /\ pc = "scan"
    /\ i0 >= k.used - 1
    /\ pc' = IF n_moves = 0 THEN "defragmented" ELSE "copy"
    /\ UNCHANGED <<k0, k, defragVars, searchVars>>

\* All of the first cells were looked at.
Scanned ==
    /\ pc = "scan"
    /\ i0 >= k.used
    /\ pc' = IF n_moves = 0 THEN "defragmented" ELSE "copy"
    /\ UNCHANGED <<k0, k, defragVars, searchVars>>

\* The rows are copied as ids says.
CopyRows ==
    /\ pc = "copy"
    /\ LET from(i) == {j \in DOMAIN ids : ids[j] = i /\ i # NKv}
           row(f)  == [i \in Cells |-> IF from(i) = {} THEN f[i] ELSE f[Least(from(i))]]
       IN  k' = [k EXCEPT !.tok = row(@), !.rot = row(@)]
    /\ pc' = "defragmented"
    /\ UNCHANGED <<k0, defragVars, searchVars>>

-----------------------------------------------------------------------------
(* llama_kv_cache_find_slot.                                               *)

\* llama_decode takes a head far behind the used cells back.
HeadBefore(m) == IF k.head > k.used + 2 * m THEN 0 ELSE k.head

\* The search begins; more tokens than cells are refused.
BeginSearch ==
    /\ pc \in {"decode", "defragmented"}
    /\ \E m \in 1 .. Size + 1 :
        /\ n' = m
        /\ k' = [k EXCEPT !.head = HeadBefore(m)]
        /\ pc' = IF m > Size THEN "none" ELSE "search"
    /\ k0' = k'
    /\ ids' = <<>> /\ i0' = 0 /\ nh' = 0 /\ nf' = 0 /\ i1' = 0
    /\ cont' = FALSE /\ n_moves' = 0
    /\ n_tested' = 0

\* Too close to the end: continue from the start.
Wrap ==
    /\ pc = "search"
    /\ k.head + n > Size
    /\ n_tested' = n_tested + (Size - k.head)
    /\ k' = [k EXCEPT !.head = 0]
    /\ UNCHANGED <<k0, pc, n, defragVars>>

\* Mutant of Found: the first cell is not tested.
FoundUntested ==
    /\ pc = "search"
    /\ k.head + n <= Size
    /\ \A i \in 1 .. n - 1 : Free(k, k.head + i)
    /\ pc' = "found"
    /\ UNCHANGED <<k0, k, defragVars, searchVars>>

Found ==
    /\ pc = "search"
    /\ k.head + n <= Size
    /\ \A i \in 0 .. n - 1 : Free(k, k.head + i)
    /\ pc' = "found"
    /\ UNCHANGED <<k0, k, defragVars, searchVars>>

\* Mutant of AllTested: fewer than n cells are left to test.
FewLeft(tested) == tested + n > Size

\* The search gives up.
AllTested(tested) == tested >= Size

\* Mutant of Skip: it goes on at the occupied cell.
SkipShort ==
    /\ pc = "search"
    /\ k.head + n <= Size
    /\ \E i \in 0 .. n - 1 :
        /\ ~Free(k, k.head + i)
        /\ \A j \in 0 .. i - 1 : Free(k, k.head + j)
        /\ k' = [k EXCEPT !.head = @ + i]
        /\ n_tested' = n_tested + i
        /\ pc' = IF AllTested(n_tested') THEN "none" ELSE pc
    /\ UNCHANGED <<k0, n, defragVars>>

\* Go on behind the first occupied cell, unless as many cells as there are were
\* tested.
Skip ==
    /\ pc = "search"
    /\ k.head + n <= Size
    /\ \E i \in 0 .. n - 1 :
        /\ ~Free(k, k.head + i)
        /\ \A j \in 0 .. i - 1 : Free(k, k.head + j)
        /\ k' = [k EXCEPT !.head = @ + i + 1]
        /\ n_tested' = n_tested + i + 1
        /\ pc' = IF AllTested(n_tested') THEN "none" ELSE pc
    /\ UNCHANGED <<k0, n, defragVars>>

DefragNext == Stay \/ Hole \/ Gap \/ MoveCell \/ Scanned \/ CopyRows
SearchNext == BeginSearch \/ Wrap \/ Found \/ Skip
LoopNext == DefragNext \/ SearchNext

\* The thread runs until the search returns.
LoopSpec == LoopInit /\ [][LoopNext]_loopVars /\ WF_loopVars(LoopNext)

-----------------------------------------------------------------------------
\* The assertion "KV defrag bug: nf != nh" holds: while used is exact, every hole
\* finds enough cells behind the used ones, whatever was moved before.
NoAssertion == pc # "assert failed"

\* The defragmentation does what KvOps!Defrag says, cut short by max_moves in
\* the middle of a hole or not.
DefragRight == pc = "defragmented" => k = Defrag(k0)

\* It loses no token, doubles none and parts none from its rows.
TokensKept ==
    pc = "defragmented" =>
        /\ {k.pos[i] : i \in UsedCells(k)} = UsedCells(k0)
        /\ Cardinality(UsedCells(k)) = Cardinality(UsedCells(k0))
        /\ \A i \in UsedCells(k) : k.rot[i] = k.pos[i]

\* Unless max_moves stopped it, it leaves the used cells in front.
Compacted ==
    pc = "defragmented" /\ n_moves < MaxMoves => UsedCells(k) = 0 .. k.used - 1

\* A slot that is found is the one FindSlot names: n free cells, the first such
\* place from the head on, or else from the start.
FoundRight ==
    pc = "found" => CanPlace(k0, n) /\ k = [k0 EXCEPT !.head = FindSlot(k0, n)]

\* The search gives up only when there is no such place anywhere, though it
\* counts cells and not places, and runs that cross its starting point are cut
\* in two; it leaves the head where HeadAfterMiss says.
NoneRight ==
    pc = "none" => ~CanPlace(k0, n) /\ k = [k0 EXCEPT !.head = HeadAfterMiss(k0, n)]

\* Both loops end: the defragmentation after at most MaxMoves block moves, the
\* search though it may wrap around.
LoopsEnd == <>(pc \in {"found", "none"})

=============================================================================
