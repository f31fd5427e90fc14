----------------------------- MODULE FreeBlocks -----------------------------
(***************************************************************************)
(* The list of free blocks of ggml_dyn_tallocr (ggml/src/ggml-alloc.c):    *)
(* best fit, and blocks that touch are merged.                             *)
(*                                                                         *)
(* Offsets and sizes count units of the alignment.  The sizes are already  *)
(* rounded up.                                                             *)
(***************************************************************************)
EXTENDS Integers, FiniteSets, SequencesExt

CONSTANT Arena  \* SIZE_MAX/2, the size of a buffer that is being measured

Block(offset, size) == [offset |-> offset, size |-> size]
End(block) == block.offset + block.size

\* ggml_dyn_tallocr_reset
AllFree == <<Block(0, Arena)>>

-----------------------------------------------------------------------------

Fitting(blocks, size) == {i \in 1 .. Len(blocks) - 1 : blocks[i].size >= size}

\* The smallest block that fits, of equals the last; the rest of the arena, which is
\* the last block, only when no other fits.
BestFit(blocks, size) ==
    LET fit == Fitting(blocks, size)
    IN  IF fit = {} THEN Len(blocks)
        ELSE CHOOSE i \in fit : \A j \in fit :
                \/ blocks[i].size < blocks[j].size
                \/ blocks[i].size = blocks[j].size /\ i >= j

\* The list after a tensor was placed at the start of block i.
Taken(blocks, i, size) ==
    IF blocks[i].size = size THEN RemoveAt(blocks, i)
    ELSE [blocks EXCEPT ![i] = Block(@.offset + size, @.size - size)]

-----------------------------------------------------------------------------

\* Mutant of Merged: a block that grew is not merged with the next.
MergedNot(blocks, i) == blocks

\* Block i and the next become one if they touch.
Merged(blocks, i) ==
    IF i \in 1 .. Len(blocks) - 1 /\ End(blocks[i]) = blocks[i + 1].offset
    THEN [RemoveAt(blocks, i + 1) EXCEPT ![i] = Block(@.offset, @.size + blocks[i + 1].size)]
    ELSE blocks

Touching(blocks, offset, size) ==
    {i \in 1 .. Len(blocks) : End(blocks[i]) = offset \/ offset + size = blocks[i].offset}

\* ggml_dyn_tallocr_free_tensor: the first block that touches grows, otherwise a
\* new block is inserted by its offset.
GivenBack(blocks, offset, size) ==
    LET touching == Touching(blocks, offset, size)
        before   == {i \in 1 .. Len(blocks) : blocks[i].offset < offset}
    IN  IF touching = {}
        THEN InsertAt(blocks, Cardinality(before) + 1, Block(offset, size))
        ELSE LET i == CHOOSE i \in touching : \A j \in touching : i <= j
             IN  IF End(blocks[i]) = offset
                 THEN Merged([blocks EXCEPT ![i].size = @ + size], i)
                 ELSE Merged([blocks EXCEPT ![i] = Block(offset, @.size + size)], i - 1)

=============================================================================
