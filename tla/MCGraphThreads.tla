--------------------------- MODULE MCGraphThreads ---------------------------
(***************************************************************************)
(* Graphs for TLC to check GraphThreads with.                              *)
(***************************************************************************)
EXTENDS GraphThreads

P(kind, chunks, ends) == [kind |-> kind, chunks |-> chunks, ends |-> ends]

Simple   == <<P("own", 0, TRUE)>>
Copied   == <<P("first", 0, FALSE), P("own", 0, TRUE)>>
Loss     == <<P("first", 0, FALSE), P("own", 0, FALSE), P("first", 0, TRUE)>>
MulMat(n) == <<P("setup", 0, FALSE), P("chunks", n, TRUE)>>

\* An element-wise node, two matrix multiplications, of few and of many chunks, one
\* right after the other, an accumulation, and a loss.
MixedGraph == Simple \o MulMat(NThreads) \o MulMat(4 * NThreads) \o Copied \o Loss

\* The callback aborts a node in whose middle the threads met.
MixedAborts == {s \in 2 .. NParts : Parts[s].ends /\ ~Parts[s - 1].ends}

PlainGraph == Simple \o Simple
PlainAborts == {2}

=============================================================================
