----------------------------- MODULE KvSession -----------------------------
(***************************************************************************)
(* Saving and restoring the KV cache: the llama_state_* calls of llama.h   *)
(* added to the calls of KvCache.  file is the last state that was saved.  *)
(* A state holds the used cells in order, in a whole save with their       *)
(* sequences and in the save of one sequence without, and never a delta.   *)
(*                                                                         *)
(* Damaged files make the reader throw in the middle of a restore, and     *)
(* what it did so far stays.  Model, random state, logits and embeddings,  *)
(* which a whole save holds too, are left out.                             *)
(***************************************************************************)
EXTENDS KvCache, Functions

CONSTANTS
    Received,       \* states that other contexts of the same model have saved
    Circumstances,  \* the sets of circumstances, see below, to be looked at
    MaxSteps        \* bound: steps of KvCache

ASSUME CircumstancesAssumption ==
    Circumstances \subseteq SUBSET {"pending shift", "empty sequence", "damaged file"}
ASSUME MaxStepsAssumption == MaxSteps \in Nat

\* n_seq_max is at least 1.
ASSUME SequenceAssumption == Seqs # {}

\* A saved cell, with its row.
Saved == [pos : Nat, seqs : SUBSET Seqs, tok : Tokens \cup {NoToken}, rot : Int]

File == [whole : BOOLEAN, cells : Seq(Saved)]

\* What others save are used cells, with no shift pending.
ASSUME ReceivedAssumption ==
    /\ Received \subseteq File
    /\ \A f \in Received : \A n \in DOMAIN f.cells :
        /\ f.whole => f.cells[n].seqs # {}
        /\ f.cells[n].rot = f.cells[n].pos

VARIABLES
    faces,    \* the circumstances the caller has to cope with
    file,     \* the saved state; whole tells the two kinds apart
    restored, \* what the last call restored: a sequence, AnySeq or Nothing
    aborted,  \* an assertion failed
    steps     \* the steps of KvCache so far

sessionVars == <<kv, sbatch, faces, file, restored, aborted, steps>>

Nothing == -2

\* The first file comes from elsewhere.
SessionInit ==
    /\ Init
    /\ faces \in Circumstances
    /\ file \in Received
    /\ restored = Nothing
    /\ aborted = FALSE
    /\ steps = 0

-----------------------------------------------------------------------------
(* Saving.                                                                 *)

\* Between calls, and, unless pending shifts are among the circumstances, when
\* none is pending.
Ready ==
    /\ ~aborted
    /\ sbatch = <<>>
    /\ "pending shift" \in faces \/ ~kv.has_shift

Save(f) ==
    /\ Ready
    /\ file' = f
    /\ restored' = Nothing
    /\ UNCHANGED <<kv, sbatch, aborted, steps, faces>>

SaveAll ==
    LET at == CellsIn(kv, UsedCells(kv))
    IN  Save([whole |-> TRUE,
              cells |-> [n \in DOMAIN at |-> Row(kv, at[n], kv.seq_id[at[n]])]])

SaveSeq(s) ==
    LET at == CellsIn(kv, {i \in Cells : s \in kv.seq_id[i]})
    IN  /\ at # <<>> \/ "empty sequence" \in faces
        /\ Save([whole |-> FALSE, cells |-> [n \in DOMAIN at |-> Row(kv, at[n], {})]])

-----------------------------------------------------------------------------
(* Restoring.                                                              *)

Restore(k, outcome) ==
    /\ kv' = k
    /\ restored' = outcome
    /\ UNCHANGED <<sbatch, file, aborted, steps, faces>>

\* The saved cells as a ubatch of the one sequence.
AsUbatch(dest) == [n \in DOMAIN file.cells |-> [file.cells[n] EXCEPT !.seqs = {dest}]]

\* Mutant of RestoreSeq: what dest held is not removed.
RestoreSeqOver(dest) ==
    /\ Ready
    /\ ~file.whole
    /\ file.cells # <<>>
    /\ CanPlace(kv, Len(file.cells))
    /\ \E h \in {FindSlot(kv, Len(file.cells))} :
        Restore(PutRows(Place(kv, AsUbatch(dest), h), file.cells, h), dest)

\* What dest held is removed, then the cells are placed like a ubatch and their
\* rows written.  The head stays at the first of them.
RestoreSeq(dest) ==
    /\ Ready
    /\ ~file.whole
    /\ file.cells # <<>>
    /\ \E k \in {SeqRm(kv, dest, -1, -1)} :
        /\ CanPlace(k, Len(file.cells))
        /\ \E h \in {FindSlot(k, Len(file.cells))} :
            Restore(PutRows(Place(k, AsUbatch(dest), h), file.cells, h), dest)

\* Mutant of RestoreSeqNoSlot: the whole cache is cleared, as for a whole state.
RestoreSeqNoSlotClears(dest) ==
    /\ Ready
    /\ ~file.whole
    /\ file.cells # <<>>
    /\ ~CanPlace(SeqRm(kv, dest, -1, -1), Len(file.cells))
    /\ Restore(Clear(kv), Nothing)

\* The read fails when there is no slot, and dest is removed once more.
RestoreSeqNoSlot(dest) ==
    /\ Ready
    /\ ~file.whole
    /\ file.cells # <<>>
    /\ \E k \in {SeqRm(kv, dest, -1, -1)} :
        /\ ~CanPlace(k, Len(file.cells))
        /\ \E missed \in {[k EXCEPT !.head = HeadAfterMiss(k, Len(file.cells))]} :
            Restore(SeqRm(missed, dest, -1, -1), Nothing)

\* GGML_ASSERT(kv_self.cells[kv_self.head].has_seq_id(dest_seq_id)): without a
\* cell there is none that has it.
RestoreSeqEmpty(dest) ==
    /\ Ready
    /\ ~file.whole
    /\ file.cells = <<>>
    /\ aborted' = TRUE
    /\ kv' = SeqRm(kv, dest, -1, -1)
    /\ UNCHANGED <<sbatch, file, restored, steps, faces>>

\* The first n cells of the state, set one by one in a cache just cleared.
SetCells(k, n) ==
    [k EXCEPT !.pos    = [i \in Cells |-> IF i < n THEN file.cells[i + 1].pos ELSE @[i]],
              !.seq_id = [i \in Cells |-> IF i < n THEN file.cells[i + 1].seqs ELSE @[i]]]

\* Mutant of RestoreAll: used is not set.
RestoreAllUnused ==
    /\ Ready
    /\ file.whole
    /\ Len(file.cells) <= Size
    /\ Restore(PutRows(SetCells(Clear(kv), Len(file.cells)), file.cells, 0), AnySeq)

RestoreAll ==
    /\ Ready
    /\ file.whole
    /\ Len(file.cells) <= Size
    /\ LET n == Len(file.cells)
       IN  Restore(PutRows([SetCells(Clear(kv), n) EXCEPT !.used = n], file.cells, 0),
                   AnySeq)

\* A state saved with a larger cache: "not enough cells", and the cache is cleared.
RestoreAllTooLarge ==
    /\ Ready
    /\ file.whole
    /\ Len(file.cells) > Size
    /\ Restore(Clear(kv), Nothing)

\* A damaged file: the reader throws past the clean-up.  Of a sequence dest was
\* removed, and perhaps placed but its rows not written.
RestoreSeqThrows(dest) ==
    /\ "damaged file" \in faces
    /\ Ready
    /\ ~file.whole
    /\ file.cells # <<>>
    /\ \E k \in {SeqRm(kv, dest, -1, -1)} :
        \/ Restore(k, Nothing)
        \/ /\ CanPlace(k, Len(file.cells))
           /\ \E h \in {FindSlot(k, Len(file.cells))} :
                Restore(Place(k, AsUbatch(dest), h), Nothing)

\* Of a whole state n cells are set, the last of them perhaps without all its
\* sequences; used is set behind the last cell, before the rows.
RestoreAllThrows ==
    /\ "damaged file" \in faces
    /\ Ready
    /\ file.whole
    /\ Len(file.cells) <= Size
    /\ \/ \E n \in DOMAIN file.cells : \E S \in SUBSET file.cells[n].seqs :
            Restore([SetCells(Clear(kv), n) EXCEPT !.seq_id[n - 1] = S], Nothing)
       \/ LET n == Len(file.cells)
          IN  Restore([SetCells(Clear(kv), n) EXCEPT !.used = n], Nothing)

-----------------------------------------------------------------------------
\* A call of KvCache, or a step of a decode.
CacheStep ==
    /\ ~aborted
    /\ Next
    /\ steps < MaxSteps
    /\ steps' = steps + 1
    /\ restored' = Nothing
    /\ UNCHANGED <<file, aborted, faces>>

SessionNext ==
    \/ CacheStep
    \/ SaveAll
    \/ \E s \in Seqs : SaveSeq(s)
    \/ \E dest \in Seqs :
        \/ RestoreSeq(dest) \/ RestoreSeqNoSlot(dest)
        \/ RestoreSeqEmpty(dest) \/ RestoreSeqThrows(dest)
    \/ RestoreAll \/ RestoreAllTooLarge \/ RestoreAllThrows

SessionSpec == SessionInit /\ [][SessionNext]_sessionVars

-----------------------------------------------------------------------------
(* Properties.                                                             *)

RowOf(k, i) == <<k.tok[i], k.pos[i], k.rot[i]>>

\* What a restore is about: the token, position and row of a saved cell.
SavedRow(x) == <<x.tok, x.pos, x.rot>>

\* After a restore of a sequence its cells hold exactly what was saved, each saved
\* cell once, and after one of the whole cache the cells do, with their sequences.
RestoredExactly ==
    /\ restored \in Seqs =>
        LET mine == {i \in Cells : restored \in kv.seq_id[i]}
        IN  /\ \E f \in Bijection(DOMAIN file.cells, mine) :
                \A n \in DOMAIN file.cells : RowOf(kv, f[n]) = SavedRow(file.cells[n])
            /\ \A i \in mine : kv.seq_id[i] = {restored}
    /\ restored = AnySeq =>
        \E f \in Bijection(DOMAIN file.cells, UsedCells(kv)) :
            \A n \in DOMAIN file.cells :
                /\ RowOf(kv, f[n]) = SavedRow(file.cells[n])
                /\ kv.seq_id[f[n]] = file.cells[n].seqs

\* Without damaged files the bookkeeping of the cache stays right: used counts
\* the cells and find_slot and defrag agree on which these are.
BooksKept == "damaged file" \notin faces => UsedExact /\ PosIffSeq

\* Without pending shifts, too, a restored row is rotated to its position, and so
\* is every other: no delta is left that belongs to a former token.
RotationKept == faces \cap {"damaged file", "pending shift"} = {} => RotationCoherent

\* Restoring a sequence into dest never touches a cell of another, even when it
\* fails: its row and position stay, and dest alone may leave it.
OthersKept ==
    [][steps' = steps /\ ~file.whole => \A dest \in Seqs :
        \/ RestoreSeq(dest) \/ RestoreSeqNoSlot(dest)
        \/ RestoreSeqEmpty(dest) \/ RestoreSeqThrows(dest)
        => \A i \in Cells :
            kv.seq_id[i] \ {dest} # {} =>
                /\ RowOf(kv', i) = RowOf(kv, i)
                /\ kv'.seq_id[i] \ {dest} = kv.seq_id[i] \ {dest}]_sessionVars

=============================================================================
