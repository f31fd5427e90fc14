---------------------------- MODULE GraphThreads ----------------------------
(***************************************************************************)
(* How n threads compute a graph together (ggml/src/ggml.c):               *)
(* ggml_graph_compute_thread, the chunks of a matrix multiplication and    *)
(* the spinning barrier of a build without OpenMP.                         *)
(*                                                                         *)
(* Each access of a shared atomic is a step, so is the unsynchronized      *)
(* access of ec; computing a piece touches what other threads do not.      *)
(***************************************************************************)
EXTENDS GraphOrder, FiniteSets

CONSTANT Wrap   \* the values of n_barrier_passed, an int that wraps around

ASSUME WrapAssumption == Wrap \in Nat /\ Wrap > 1

VARIABLES
    \* ggml_compute_state_shared
    n_barrier, n_barrier_passed, current_chunk, ec,
    \* each thread: the part it is at, where in it, and its local variables
    at, pc, passed_old, chunk

shared == <<n_barrier, n_barrier_passed, current_chunk, ec>>
vars == <<computed, result, shared, at, pc, passed_old, chunk>>

Init ==
    /\ OrderInit
    /\ n_barrier = 0
    /\ n_barrier_passed = 0
    /\ current_chunk = 0
    /\ ec = "success"
    /\ at = [t \in Threads |-> 1]
    /\ pc = [t \in Threads |-> "work"]
    /\ passed_old = [t \in Threads |-> 0]
    /\ chunk = [t \in Threads |-> 0]

-----------------------------------------------------------------------------
(* The work of a part.                                                     *)

Part(t) == Parts[at[t]]

Computed(t, p) == computed' = [computed EXCEPT ![<<at[t], p>>] = @ + 1]

\* Where a thread goes when its work in a part is done: thread 0 asks the abort
\* callback at the end of a node.
AfterWork(t) == IF t = 0 /\ Part(t).ends THEN "callback" ELSE "arrive"

Goes(t, place) == pc' = [pc EXCEPT ![t] = place]

\* Mutant of FirstShared: the threads share all the chunks.
FirstSharedNone == 0

\* Every thread starts with chunk ith, so that the first one to share is nth.
FirstShared == NThreads

Own(t) ==
    /\ pc[t] = "work"
    /\ Part(t).kind \in {"own", "setup"}
    /\ Computed(t, t)
    /\ current_chunk' = IF Part(t).kind = "setup" /\ t = 0 THEN FirstShared
                        ELSE current_chunk
    /\ Goes(t, AfterWork(t))
    /\ UNCHANGED <<result, n_barrier, n_barrier_passed, ec, at, passed_old, chunk>>

First(t) ==
    /\ pc[t] = "work"
    /\ Part(t).kind = "first"
    /\ IF t = 0 THEN Computed(t, 0) ELSE UNCHANGED computed
    /\ Goes(t, AfterWork(t))
    /\ UNCHANGED <<result, shared, at, passed_old, chunk>>

BeginChunks(t) ==
    /\ pc[t] = "work"
    /\ Part(t).kind = "chunks"
    /\ chunk' = [chunk EXCEPT ![t] = t]
    /\ Goes(t, IF t < Part(t).chunks THEN "chunk" ELSE AfterWork(t))
    /\ UNCHANGED <<computed, result, shared, at, passed_old>>

ComputeChunk(t) ==
    /\ pc[t] = "chunk"
    /\ Computed(t, chunk[t])
    /\ Goes(t, IF NThreads >= Part(t).chunks THEN AfterWork(t) ELSE "fetch")
    /\ UNCHANGED <<result, shared, at, passed_old, chunk>>

FetchChunk(t) ==
    /\ pc[t] = "fetch"
    /\ chunk' = [chunk EXCEPT ![t] = current_chunk]
    /\ current_chunk' = current_chunk + 1
    /\ Goes(t, IF current_chunk < Part(t).chunks THEN "chunk" ELSE AfterWork(t))
    /\ UNCHANGED <<computed, result, n_barrier, n_barrier_passed, ec, at, passed_old>>

Callback(t) ==
    /\ pc[t] = "callback"
    /\ \/ UNCHANGED ec
       \/ at[t] \in Aborts /\ ec' = "aborted"
    /\ Goes(t, "arrive")
    /\ UNCHANGED <<computed, result, n_barrier, n_barrier_passed, current_chunk,
                   at, passed_old, chunk>>

-----------------------------------------------------------------------------
(* ggml_barrier.                                                           *)

Arrive(t) ==
    /\ pc[t] = "arrive"
    /\ IF NThreads = 1
       THEN Goes(t, "left") /\ UNCHANGED passed_old
       ELSE Goes(t, "add") /\ passed_old' = [passed_old EXCEPT ![t] = n_barrier_passed]
    /\ UNCHANGED <<computed, result, shared, at, chunk>>

\* Mutant of LastOne: the barrier opens one thread too early.
LastOneEarly == n_barrier = NThreads - 2

LastOne == n_barrier = NThreads - 1

Add(t) ==
    /\ pc[t] = "add"
    /\ n_barrier' = n_barrier + 1
    /\ Goes(t, IF LastOne THEN "reset" ELSE "spin")
    /\ UNCHANGED <<computed, result, n_barrier_passed, current_chunk, ec, at,
                   passed_old, chunk>>

\* Mutant of Zero: the count of the threads is not taken back.
ZeroNot == n_barrier

Zero == 0

Reset(t) ==
    /\ pc[t] = "reset"
    /\ n_barrier' = Zero
    /\ Goes(t, "pass")
    /\ UNCHANGED <<computed, result, n_barrier_passed, current_chunk, ec, at,
                   passed_old, chunk>>

Pass(t) ==
    /\ pc[t] = "pass"
    /\ n_barrier_passed' = (n_barrier_passed + 1) % Wrap
    /\ Goes(t, "left")
    /\ UNCHANGED <<computed, result, n_barrier, current_chunk, ec, at, passed_old, chunk>>

\* Mutant of OpenBarrier: the barrier opens first, and the count is reset when
\* threads may already be counted for the next one.
OpenBarrierFirst(t) ==
    /\ pc[t] \in {"reset", "pass"}
    /\ IF pc[t] = "reset"
       THEN n_barrier_passed' = (n_barrier_passed + 1) % Wrap /\ UNCHANGED n_barrier
       ELSE n_barrier' = 0 /\ UNCHANGED n_barrier_passed
    /\ Goes(t, IF pc[t] = "reset" THEN "pass" ELSE "left")
    /\ UNCHANGED <<computed, result, current_chunk, ec, at, passed_old, chunk>>

\* The last thread resets the count before it lets the others go.
OpenBarrier(t) == Reset(t) \/ Pass(t)

Spin(t) ==
    /\ pc[t] = "spin"
    /\ n_barrier_passed # passed_old[t]
    /\ Goes(t, "left")
    /\ UNCHANGED <<computed, result, shared, at, passed_old, chunk>>

-----------------------------------------------------------------------------

\* Behind the barrier: ec is read, at the end of a node, and the next part begins.
Leave(t) ==
    /\ pc[t] = "left"
    /\ IF (Part(t).ends /\ ec # "success") \/ at[t] = NParts
       THEN Goes(t, "done") /\ UNCHANGED at
       ELSE Goes(t, "work") /\ at' = [at EXCEPT ![t] = @ + 1]
    /\ UNCHANGED <<computed, result, shared, passed_old, chunk>>

\* ggml_graph_compute joins the threads and returns ec.
Return ==
    /\ result = "none"
    /\ \A t \in Threads : pc[t] = "done"
    /\ result' = ec
    /\ UNCHANGED <<computed, shared, at, pc, passed_old, chunk>>

Step(t) ==
    \/ Own(t) \/ First(t) \/ BeginChunks(t) \/ ComputeChunk(t) \/ FetchChunk(t)
    \/ Callback(t) \/ Arrive(t) \/ Add(t) \/ OpenBarrier(t) \/ Spin(t) \/ Leave(t)

Next == Return \/ \E t \in Threads : Step(t)

Spec == Init /\ [][Next]_vars

\* The operating system lets every thread run.
FairSpec == Spec /\ WF_vars(Return) /\ \A t \in Threads : WF_vars(Step(t))

-----------------------------------------------------------------------------
(* Properties.                                                             *)

TypeOK ==
    /\ computed \in [Work -> Nat]
    /\ result \in {"none", "success", "aborted"}
    /\ n_barrier \in 0 .. NThreads
    /\ n_barrier_passed \in 0 .. Wrap - 1
    /\ current_chunk \in Nat
    /\ ec \in {"success", "aborted"}
    /\ at \in [Threads -> 1 .. NParts]
    /\ pc \in [Threads -> {"work", "chunk", "fetch", "callback", "arrive", "add",
                           "spin", "reset", "pass", "left", "done"}]
    /\ passed_old \in [Threads -> 0 .. Wrap - 1]
    /\ chunk \in [Threads -> Nat]

Busy == {"work", "chunk", "fetch", "callback"}

\* No two threads are ever at work in different parts: what a node reads nobody is
\* still writing, and the work buffer and current_chunk belong to one node.
Apart ==
    \A t, u \in Threads : pc[t] \in Busy /\ pc[u] \in Busy => at[t] = at[u]

\* The threads together compute the nodes in order, each piece once, and the status
\* they return is right.
ImplementsOrder == OrderSpec

\* The computation ends.
Ends == <>(result # "none")

=============================================================================
