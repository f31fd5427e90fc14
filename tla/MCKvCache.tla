----------------------------- MODULE MCKvCache -----------------------------
(***************************************************************************)
(* KvCache on a few cells that two sequences share.                        *)
(***************************************************************************)
EXTENDS KvCacheStore, KvView

CONSTANTS a, b

E(t, p, S) == [tok |-> t, pos |-> p, seqs |-> S]

\* A shared token, a whole ubatch, and a batch longer than a ubatch.
SharedBatches == { <<E(a, 0, {0, 1})>>,
                   <<E(a, 1, {1}), E(a, 1, {0})>>,
                   <<E(a, 0, {0}), E(a, 1, {0}), E(a, 1, {1})>> }

\* One batch of two ubatches, with different tokens, of which the last is shared:
\* it may fail after the first ubatch.
StoreBatches == { <<E(a, 0, {0}), E(b, 0, {1}), E(a, 1, {0, 1})>> }

MCDeltas == {-1, 1}
StoreDeltas == {-1}
MCDivisors == {2}
=============================================================================
