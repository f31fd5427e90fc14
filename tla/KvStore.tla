------------------------------ MODULE KvStore ------------------------------
(***************************************************************************)
(* What the KV cache of a transformer promises, without cells: a bag of    *)
(* entries.  An entry is a token with its position and the sequences that  *)
(* see it; the calls of llama.h edit the entries one by one, llama_decode  *)
(* adds those of its batch, a ubatch at a time, and nothing else changes   *)
(* them.  Where an entry is stored, and when pending shifts are applied,   *)
(* cannot be told from here.                                               *)
(***************************************************************************)
EXTENDS PosRange, Sequences, FiniteSets, Bags

CONSTANTS
    Capacity,  \* most entries: llama_kv_cache.size
    Seqs,      \* the sequence ids
    Batches,   \* the batches given to llama_decode
    NUbatch,   \* cparams.n_ubatch
    MaxPos,    \* bound: positions are at most MaxPos
    Deltas,    \* the shifts given to llama_kv_cache_seq_add
    Divisors   \* the divisors given to llama_kv_cache_seq_div

VARIABLES entries, rest

storeVars == <<entries, rest>>

StoreInit ==
    /\ entries = EmptyBag
    /\ rest = <<>>

-----------------------------------------------------------------------------
Bounds == -1 .. MaxPos + 1

\* The entries one by one, equal ones told apart by a number.
Copies == UNION {{e} \X (1 .. entries[e]) : e \in BagToSet(entries)}

\* Every entry becomes f of it; those that are left without a sequence go.
Edited(f(_)) ==
    [e \in {x \in {f(y) : y \in BagToSet(entries)} : x.seqs # {}} |->
        Cardinality({c \in Copies : f(c[1]) = e})]

Edit(bag) ==
    /\ rest = <<>>
    /\ entries' = bag
    /\ UNCHANGED rest

Remove(s, p0, p1) ==
    LET f(e) == IF ~InRange(e.pos, p0, p1) THEN e
                ELSE [e EXCEPT !.seqs = IF s = AnySeq THEN {} ELSE @ \ {s}]
    IN  Edit(Edited(f))

Copy(src, dst, p0, p1) ==
    LET f(e) == IF src \in e.seqs /\ InRange(e.pos, p0, p1)
                THEN [e EXCEPT !.seqs = @ \cup {dst}] ELSE e
    IN  Edit(Edited(f))

Keep(s) ==
    LET f(e) == [e EXCEPT !.seqs = @ \cap {s}]
    IN  Edit(Edited(f))

\* An entry shifted below zero is gone, for all its sequences.
Shift(s, p0, p1, d) ==
    LET f(e) == IF s \notin e.seqs \/ ~InRange(e.pos, p0, p1) THEN e
                ELSE IF e.pos + d < 0 THEN [e EXCEPT !.seqs = {}]
                ELSE [e EXCEPT !.pos = @ + d]
    IN  Edit(Edited(f))

Divide(s, p0, p1, d) ==
    LET f(e) == IF s \in e.seqs /\ InRange(e.pos, p0, p1)
                THEN [e EXCEPT !.pos = @ \div d] ELSE e
    IN  Edit(Edited(f))

Calls ==
    \/ Edit(EmptyBag)
    \/ \E s \in Seqs : Keep(s)
    \/ \E p0, p1 \in Bounds :
        \/ \E s \in Seqs \cup {AnySeq} : Remove(s, p0, p1)
        \/ \E src, dst \in Seqs : Copy(src, dst, p0, p1)
        \/ \E s \in Seqs, d \in Deltas : Shift(s, p0, p1, d)
        \/ \E s \in Seqs, d \in Divisors : Divide(s, p0, p1, d)

-----------------------------------------------------------------------------
Begin ==
    /\ rest = <<>>
    /\ rest' \in Batches
    /\ UNCHANGED entries

NextUbatch == SubSeq(rest, 1, IF Len(rest) < NUbatch THEN Len(rest) ELSE NUbatch)

BagOfSeq(s) ==
    [e \in {s[i] : i \in DOMAIN s} |-> Cardinality({i \in DOMAIN s : s[i] = e})]

\* A ubatch is added as a whole, and only when there is room for it.
Add ==
    /\ rest # <<>>
    /\ Cardinality(Copies) + Len(NextUbatch) <= Capacity
    /\ entries' = entries (+) BagOfSeq(NextUbatch)
    /\ rest' = SubSeq(rest, Len(NextUbatch) + 1, Len(rest))

\* A decode may fail although there is room, because the free cells are not in
\* a row.  But m entries leave at most m + 1 runs of free cells, so that one of
\* the runs is long enough unless the free cells are few.
Fail ==
    LET n == Len(NextUbatch)
        m == Cardinality(Copies)
    IN  /\ rest # <<>>
        /\ Capacity - m <= (n - 1) * (m + 1)
        /\ UNCHANGED entries
        /\ rest' = <<>>

StoreNext == Calls \/ Begin \/ Add \/ Fail

StoreSpec == StoreInit /\ [][StoreNext]_storeVars

=============================================================================
