----------------------------- MODULE GraphOrder -----------------------------
(***************************************************************************)
(* What ggml_graph_compute promises (ggml.h, ggml.c): the nodes of the     *)
(* graph are computed one after the other, each piece of each node once,   *)
(* and the status tells whether all of it was done.                        *)
(*                                                                         *)
(* A node is one part, or several when its operation synchronizes the      *)
(* threads in the middle; the graph is the sequence of all parts.          *)
(***************************************************************************)
EXTENDS Integers, Sequences

CONSTANTS
    NThreads,   \* cplan->n_threads
    Parts,      \* the parts in order: their kind, the number of chunks, and
                \* whether their node ends with them
    Aborts      \* the parts after which abort_callback may return true

Threads == 0 .. NThreads - 1
NParts == Len(Parts)

\* "own": each thread does its rows; "first": thread 0 alone; "setup": the first
\* half of a matrix multiplication; "chunks": its second half.
Kinds == {"own", "first", "setup", "chunks"}

ASSUME ThreadsAssumption == NThreads \in Nat \ {0}

\* There are as many chunks as threads, or at least four times as many.
ASSUME PartsAssumption ==
    /\ Parts \in Seq([kind : Kinds, chunks : Nat, ends : BOOLEAN])
    /\ NParts > 0 /\ Parts[NParts].ends
    /\ \A s \in 1 .. NParts :
        /\ Parts[s].kind = "chunks" =>
            /\ Parts[s].chunks = NThreads \/ Parts[s].chunks >= 4 * NThreads
            /\ s > 1 /\ Parts[s - 1].kind = "setup"
        /\ Parts[s].kind = "setup" => ~Parts[s].ends

ASSUME AbortsAssumption == Aborts \subseteq {s \in 1 .. NParts : Parts[s].ends}

\* What there is to do in a part.
Pieces(s) ==
    IF Parts[s].kind = "first" THEN {0}
    ELSE IF Parts[s].kind = "chunks" THEN 0 .. Parts[s].chunks - 1
    ELSE Threads

Work == UNION {{s} \X Pieces(s) : s \in 1 .. NParts}

VARIABLES
    computed,   \* how often each piece was computed
    result      \* the status ggml_graph_compute returned

-----------------------------------------------------------------------------

\* The parts up to s are done, and what follows has not begun.
DoneUpTo(s) == \A w \in Work : w[1] <= s => computed[w] = 1
NoneAfter(s) == \A w \in Work : w[1] > s => computed[w] = 0

OrderInit == computed = [w \in Work |-> 0] /\ result = "none"

ComputePiece ==
    /\ result = "none"
    /\ \E w \in Work :
        /\ DoneUpTo(w[1] - 1) /\ NoneAfter(w[1]) /\ computed[w] = 0
        /\ computed' = [computed EXCEPT ![w] = 1]
    /\ UNCHANGED result

ReturnStatus ==
    /\ result = "none"
    /\ \/ DoneUpTo(NParts) /\ result' = "success"
       \/ /\ \E s \in Aborts : DoneUpTo(s) /\ NoneAfter(s)
          /\ result' = "aborted"
    /\ UNCHANGED computed

\* Nodes are computed in order, and a status is given back only between two nodes:
\* "aborted" where the callback asked for it, "success" when all is done.
OrderSpec == OrderInit /\ [][ComputePiece \/ ReturnStatus]_<<computed, result>>

=============================================================================
