------------------------------ MODULE KvCache ------------------------------
(***************************************************************************)
(* The life of a transformer's KV cache: the llama_kv_cache_* calls of     *)
(* llama.h and llama_decode, which cuts a batch into ubatches and finds,   *)
(* for each in turn, cells to put it in.                                   *)
(*                                                                         *)
(* kv is the cache (see KvOps).  sbatch is the part of the batch that      *)
(* llama_decode has not placed yet; no call is made while it is not empty, *)
(* the context being used by one thread.                                   *)
(***************************************************************************)
EXTENDS KvOps

CONSTANTS
    Batches,   \* the batches given to llama_decode
    NUbatch,   \* cparams.n_ubatch
    MaxPos,    \* bound: positions are at most MaxPos
    Deltas,    \* the shifts given to llama_kv_cache_seq_add
    Divisors   \* the divisors given to llama_kv_cache_seq_div

Entry == [pos : 0 .. MaxPos, seqs : (SUBSET Seqs) \ {{}}, tok : Tokens]

ASSUME NUbatchAssumption == NUbatch \in Nat \ {0}
ASSUME MaxPosAssumption == MaxPos \in Nat
ASSUME BatchesAssumption == Batches \subseteq Seq(Entry) \ {<<>>}
ASSUME DeltasAssumption == Deltas \subseteq Int \ {0}
ASSUME DivisorsAssumption == Divisors \subseteq Nat \ {0, 1}

VARIABLES kv, sbatch

vars == <<kv, sbatch>>

Init ==
    /\ kv = InitCache
    /\ sbatch = <<>>

-----------------------------------------------------------------------------
(* The calls that edit the cache.                                          *)

\* A bound of a range: -1 stands for every negative one.
Bounds == -1 .. MaxPos + 1

Call(k) ==
    /\ sbatch = <<>>
    /\ kv' = k
    /\ UNCHANGED sbatch

CallClear == Call(Clear(kv))

CallSeqRm == \E s \in Seqs \cup {AnySeq}, p0, p1 \in Bounds :
                Call(SeqRm(kv, s, p0, p1))

CallSeqCp == \E src, dst \in Seqs, p0, p1 \in Bounds :
                Call(SeqCp(kv, src, dst, p0, p1))

CallSeqKeep == \E s \in Seqs : Call(SeqKeep(kv, s))

\* Positions stay within MaxPos, which only bounds the model.
CallSeqAdd ==
    \E s \in Seqs, p0, p1 \in Bounds, d \in Deltas :
        /\ \A i \in AddHit(kv, s, p0, p1) : kv.pos[i] + d <= MaxPos
        /\ Call(SeqAdd(kv, s, p0, p1, d))

CallSeqDiv == \E s \in Seqs, p0, p1 \in Bounds, d \in Divisors :
                Call(SeqDiv(kv, s, p0, p1, d))

\* llama_kv_cache_defrag only asks for it.
CallDefrag == Call([kv EXCEPT !.do_defrag = TRUE])

CallUpdate == Call(Update(kv))

-----------------------------------------------------------------------------
(* llama_decode.                                                           *)

DecodeBegin(batch) ==
    /\ sbatch = <<>>
    /\ sbatch' = batch
    /\ UNCHANGED kv

\* split_simple
Ubatch == SubSeq(sbatch, 1, IF Len(sbatch) < NUbatch THEN Len(sbatch) ELSE NUbatch)

Rest == SubSeq(sbatch, Len(Ubatch) + 1, Len(sbatch))

\* The cache the next ubatch is placed in: pending work is done, and a head far
\* behind the used cells is taken back.
Prepared ==
    LET k == Update(kv)
    IN  [k EXCEPT !.head = IF @ > k.used + 2 * Len(Ubatch) THEN 0 ELSE @]

\* After the last ubatch a fragmented cache is queued for defragmentation.
\* The threshold only counts from 128 cells on, so it is left open here.
DecodeUbatch ==
    /\ sbatch # <<>>
    /\ \E k \in {Prepared}, queue \in {FALSE} \cup {Rest = <<>>} :
        /\ CanPlace(k, Len(Ubatch))
        /\ \E placed \in {Place(k, Ubatch, FindSlot(k, Len(Ubatch)))} :
            kv' = [Compute(placed, Ubatch) EXCEPT !.do_defrag = @ \/ queue]
    /\ sbatch' = Rest

\* No slot: llama_decode returns 1.  What it placed before stays.
DecodeNoSlot ==
    /\ sbatch # <<>>
    /\ \E k \in {Prepared} :
        /\ ~CanPlace(k, Len(Ubatch))
        /\ kv' = [k EXCEPT !.head = HeadAfterMiss(k, Len(Ubatch))]
    /\ sbatch' = <<>>

Decode == (\E batch \in Batches : DecodeBegin(batch)) \/ DecodeUbatch \/ DecodeNoSlot

Next ==
    \/ CallClear \/ CallSeqRm \/ CallSeqCp \/ CallSeqKeep
    \/ CallSeqAdd \/ CallSeqDiv \/ CallDefrag \/ CallUpdate
    \/ Decode

Spec == Init /\ [][Next]_vars

-----------------------------------------------------------------------------
(* Properties.                                                             *)

Cache ==
    [ pos       : [Cells -> Int],
      delta     : [Cells -> Int],
      seq_id    : [Cells -> SUBSET Seqs],
      tok       : [Cells -> Tokens \cup {NoToken}],
      rot       : [Cells -> Int],
      head      : Int,
      used      : Int,
      has_shift : BOOLEAN,
      do_defrag : BOOLEAN ]

\* The head is in the cache or, after a search that failed, right behind it:
\* size - head must not wrap around in find_slot.
HeadInRangeIn(k) == k.head \in 0 .. Size

\* The types of the cache and of the pending batch.
TypeOK ==
    /\ kv \in Cache
    /\ HeadInRangeIn(kv)
    /\ sbatch \in Seq(Entry)

\* A cell has a position exactly when it has a sequence: find_slot looks at
\* the former (pos >= 0), defrag at the latter (is_empty()), and either would
\* overwrite or lose a token if they ever disagreed.
PosIffSeqIn(k) ==
    \A i \in Cells : IF IsEmpty(k, i) THEN k.pos[i] = -1 ELSE k.pos[i] >= 0

PosIffSeq == PosIffSeqIn(kv)

\* The K row of a used cell is, once the pending shift is added, rotated to the
\* position of the cell: no operation leaves a row for another position
\* behind, a delta of a former token included.
RotationIn(k) == \A i \in UsedCells(k) : k.rot[i] + k.delta[i] = k.pos[i]

RotationCoherent == RotationIn(kv)

\* A pending delta is always announced, also that of an empty cell, which a new
\* token may get: without has_shift it would wait for the next K-shift and then
\* rotate that token's row.
ShiftFlagIn(k) == \A i \in Cells : k.delta[i] # 0 => k.has_shift

ShiftFlagged == ShiftFlagIn(kv)

\* cache.used, which every operation keeps by hand, is the number of used
\* cells: llama_kv_cache_view_update reports a mismatch, and defrag asserts
\* "nf == nh" on the strength of it.
UsedExact == kv.used = Cardinality(UsedCells(kv))

=============================================================================
