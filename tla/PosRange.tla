------------------------------ MODULE PosRange ------------------------------
(***************************************************************************)
(* The arguments the llama_kv_cache_seq_* calls share: a sequence or any,  *)
(* and a range [p0, p1) of positions.                                      *)
(***************************************************************************)
EXTENDS Integers

\* seq_id < 0: match any sequence.
AnySeq == -1

\* p0 < 0 means from the start and p1 < 0 means to the end.
InRange(p, p0, p1) ==
    /\ p >= 0
    /\ p0 < 0 \/ p >= p0
    /\ p1 < 0 \/ p < p1

\* seq_add and seq_div return early when the bounds are equal, which is tested
\* after negative ones were replaced.
EmptyRange(p0, p1) == p1 >= 0 /\ (p0 = p1 \/ (p0 < 0 /\ p1 = 0))

=============================================================================
