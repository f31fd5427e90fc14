---------------------------- MODULE KvCacheStore ----------------------------
(***************************************************************************)
(* KvCache implements KvStore.                                             *)
(***************************************************************************)
EXTENDS KvCache

EntryOf(k, i) == [tok |-> k.tok[i], pos |-> k.pos[i], seqs |-> k.seq_id[i]]

\* The cells that hold a token, as a bag of entries.
Contents(k) ==
    [e \in {EntryOf(k, i) : i \in UsedCells(k)} |->
        Cardinality({i \in UsedCells(k) : EntryOf(k, i) = e})]

Store == INSTANCE KvStore WITH
            Capacity <- Size,
            entries  <- Contents(kv),
            rest     <- sbatch

\* Whatever head, used, the pending shifts and the places of the cells are, the
\* cache behaves like a bag of entries: no call and no decode loses, duplicates
\* or alters a token it is not about, and a decode fails only when its tokens
\* cannot be kept together.
ImplementsStore == Store!StoreSpec

=============================================================================
