------------------------- MODULE GraphThreadsProofs -------------------------
(***************************************************************************)
(* GraphThreads for every number of threads and every graph: the nodes are *)
(* computed in order, and the barrier holds.                               *)
(*                                                                         *)
(* The inductive invariant follows the computation by its level P: the     *)
(* part that is being worked on, or one more than the last when all is     *)
(* done.  The level changes when the barrier opens.                        *)
(***************************************************************************)
EXTENDS GraphThreads, FiniteSetTheorems, TLAPS

Within0 == {"work", "chunk", "fetch", "callback", "arrive", "add", "spin", "reset", "pass"}
InBarrier == {"add", "spin", "reset", "pass"}

\* A thread has not yet come to level P: it is released from the barrier before.
Behind(P, t) ==
    /\ at[t] = P - 1
    /\ \/ pc[t] \in {"left", "done"}
       \/ pc[t] = "spin" /\ n_barrier_passed = (passed_old[t] + 1) % Wrap

\* A thread is at level P; what it saw of the barrier is still so.
Within(P, t) ==
    /\ at[t] = P
    /\ pc[t] \in Within0
    /\ pc[t] \in InBarrier => passed_old[t] = n_barrier_passed

Positions(P) == \A t \in Threads : Behind(P, t) \/ Within(P, t)

\* The thread that opens the barrier knows all others in it.
OneOpens(P) ==
    \A t \in Threads : pc[t] \in {"reset", "pass"} =>
        /\ at[t] = P
        /\ \A u \in Threads \ {t} : at[u] = P /\ pc[u] = "spin"

Counted(P) == {t \in Threads : at[t] = P /\ pc[t] \in {"spin", "reset"}}

Counting(P) ==
    n_barrier = IF \E t \in Threads : pc[t] = "pass" THEN 0 ELSE Cardinality(Counted(P))

Began(P, t) == at[t] = P /\ pc[t] # "work"
Holds(P, t, c) == at[t] = P /\ pc[t] = "chunk" /\ chunk[t] = c

\* A chunk that some thread took.
Taken(P, c) == IF c < NThreads THEN Began(P, c) ELSE c < current_chunk

HasDone(P, p) ==
    IF Parts[P].kind = "chunks" THEN Taken(P, p) /\ \A t \in Threads : ~Holds(P, t, p)
    ELSE Began(P, p)

Amount(P, s, p) ==
    IF s < P \/ (s = P /\ HasDone(P, p)) THEN 1 ELSE 0

Computation(P) ==
    \A s \in 1 .. NParts : \A p \in Pieces(s) : computed[<<s, p>>] = Amount(P, s, p)

\* The chunks of a multiplication are handed out one by one.
Chunking(P) ==
    /\ \A t \in Threads : at[t] = P /\ pc[t] \in {"chunk", "fetch"} => Parts[P].kind = "chunks"
    /\ P <= NParts /\ Parts[P].kind = "chunks" =>
        /\ current_chunk >= NThreads
        /\ (\A t \in Threads : ~Began(P, t)) => current_chunk = NThreads
        /\ \A t \in Threads :
            /\ at[t] = P /\ pc[t] = "chunk" =>
                /\ chunk[t] < Parts[P].chunks
                /\ chunk[t] = t \/ (chunk[t] >= NThreads /\ chunk[t] < current_chunk)
                /\ \A u \in Threads \ {t} : ~Holds(P, u, chunk[t])
            /\ at[t] = P /\ pc[t] = "fetch" => NThreads < Parts[P].chunks
            /\ at[t] = P /\ pc[t] \in Within0 \ {"work", "chunk", "fetch"} =>
                NThreads >= Parts[P].chunks \/ current_chunk >= Parts[P].chunks
    /\ P <= NParts /\ Parts[P].kind = "setup" /\ Began(P, 0) => current_chunk = NThreads

\* An abort is of this level, which some thread has then begun, or of the one
\* before, where every thread then stops.
Status(P) ==
    /\ \A t \in Threads : pc[t] = "done" => at[t] = NParts \/ ec = "aborted"
    /\ ec = "aborted" =>
        \/ P \in Aborts /\ \E t \in Threads : Began(P, t)
        \/ P - 1 \in Aborts /\ \A t \in Threads : at[t] = P - 1
    /\ result # "none" => \A t \in Threads : pc[t] = "done"

AtLevel(P) ==
    /\ Positions(P) /\ OneOpens(P) /\ Counting(P) /\ Computation(P) /\ Chunking(P)
    /\ Status(P)

IInv == TypeOK /\ \E P \in 1 .. NParts + 1 : AtLevel(P)

USE ThreadsAssumption, WrapAssumption

-----------------------------------------------------------------------------
(* The parts and their pieces.                                             *)

\* What the assumptions say of a part.
LEMMA PartFacts ==
    /\ NParts \in Nat \ {0}
    /\ \A s \in 1 .. NParts :
        /\ Parts[s] \in [kind : Kinds, chunks : Nat, ends : BOOLEAN]
        /\ Pieces(s) \subseteq Nat
        /\ Parts[s].kind = "chunks" => s > 1 /\ Parts[s - 1].kind = "setup"
    /\ 0 \in Threads
    /\ Aborts \subseteq 1 .. NParts
    /\ \A s \in Aborts : Parts[s].ends
<1>1. NParts \in Nat \ {0}
    BY PartsAssumption DEF NParts
<1>2. ASSUME NEW s \in 1 .. NParts
      PROVE  /\ Parts[s] \in [kind : Kinds, chunks : Nat, ends : BOOLEAN]
             /\ Parts[s].kind = "chunks" => s > 1 /\ Parts[s - 1].kind = "setup"
    <2>. DEFINE R == [kind : Kinds, chunks : Nat, ends : BOOLEAN]
    <2>1. Parts \in Seq(R) /\ s \in 1 .. Len(Parts)
        BY <1>2, PartsAssumption DEF NParts
    <2>2. Parts[s] \in R
        <3>. HIDE DEF R
        <3>. QED
            BY <2>1
    <2>3. Parts[s].kind = "chunks" => s > 1 /\ Parts[s - 1].kind = "setup"
        BY <1>2, PartsAssumption
    <2>. QED
        BY <2>2, <2>3
<1>3. ASSUME NEW s \in 1 .. NParts
      PROVE  Pieces(s) \subseteq Nat
    BY <1>2 DEF Pieces, Threads
<1>. QED
    BY <1>1, <1>2, <1>3, AbortsAssumption DEF Threads

\* Work is the set of the pieces of all parts.
LEMMA WorkPairs ==
    /\ \A s \in 1 .. NParts : \A p \in Pieces(s) : <<s, p>> \in Work
    /\ \A w \in Work : \E s \in 1 .. NParts : \E p \in Pieces(s) : w = <<s, p>>
BY DEF Work

\* Threads is a finite set with NThreads members.
LEMMA ThreadsFinite == IsFiniteSet(Threads) /\ Cardinality(Threads) = NThreads
<1>1. /\ IsFiniteSet(0 .. NThreads - 1)
      /\ Cardinality(0 .. NThreads - 1) =
            IF 0 > NThreads - 1 THEN 0 ELSE (NThreads - 1) - 0 + 1
    <2>1. 0 \in Int /\ NThreads - 1 \in Int
        OBVIOUS
    <2>. QED
        BY <2>1, FS_Interval
<1>2. ~(0 > NThreads - 1) /\ (NThreads - 1) - 0 + 1 = NThreads
    OBVIOUS
<1>. QED
    BY <1>1, <1>2 DEF Threads

-----------------------------------------------------------------------------
(* Steps that change only one aspect.                                      *)

\* Whoever is at work, or about to arrive, does not touch the barrier.
LEMMA BusyKeepsBarrier ==
    ASSUME TypeOK, TypeOK', NEW P \in 1 .. NParts + 1,
           Positions(P), OneOpens(P), Counting(P),
           NEW t \in Threads,
           pc[t] \in Busy,
           NEW place \in {"chunk", "fetch", "callback", "arrive"},
           Goes(t, place),
           UNCHANGED <<n_barrier, n_barrier_passed, at, passed_old>>
    PROVE  at[t] = P /\ Positions(P)' /\ OneOpens(P)' /\ Counting(P)'
<1>. USE DEF Goes, TypeOK, Busy
<1>1. /\ at[t] = P
      /\ \A u \in Threads : u # t => pc'[u] = pc[u]
      /\ pc'[t] = place
    BY DEF Positions, Behind, Within
<1>2. \A u \in Threads : pc[u] \notin {"reset", "pass"} /\ pc'[u] \notin {"reset", "pass"}
    <2>1. \A u \in Threads : pc[u] \notin {"reset", "pass"}
        BY <1>1 DEF OneOpens
    <2>. QED
        BY <1>1, <2>1
<1>3. Positions(P)'
    <2>. SUFFICES ASSUME NEW u \in Threads
                  PROVE  (Behind(P, u) \/ Within(P, u))'
        BY DEF Positions
    <2>1. CASE u = t
        BY <2>1, <1>1 DEF Within, Within0, InBarrier
    <2>2. CASE u # t
        BY <2>2, <1>1 DEF Positions, Behind, Within
    <2>. QED
        BY <2>1, <2>2
<1>4. OneOpens(P)'
    BY <1>2 DEF OneOpens
<1>5. Counting(P)'
    <2>1. Counted(P)' = Counted(P)
        BY <1>1 DEF Counted
    <2>. QED
        BY <2>1, <1>2 DEF Counting
<1>. QED
    BY <1>1, <1>3, <1>4, <1>5

\* Moving on to, within and behind the barrier does not touch the work.
LEMMA BarrierKeepsWork ==
    ASSUME TypeOK, TypeOK', NEW P \in 1 .. NParts + 1,
           Computation(P), Chunking(P),
           NEW t \in Threads, NEW place,
           \/ /\ pc[t] \in {"callback", "arrive", "add", "reset"}
              /\ place \in {"arrive", "add", "spin", "reset", "pass"}
              /\ UNCHANGED at
           \/ /\ at[t] = P - 1
              /\ \/ pc[t] = "spin" /\ place = "left" /\ UNCHANGED at
                 \/ pc[t] = "left" /\ place = "done" /\ UNCHANGED at
                 \/ pc[t] = "left" /\ place = "work" /\ at' = [at EXCEPT ![t] = P],
           Goes(t, place),
           UNCHANGED <<computed, current_chunk, chunk>>
    PROVE  Computation(P)' /\ Chunking(P)'
<1>. USE DEF Goes, TypeOK
<1>1. /\ \A u \in Threads : u # t => pc'[u] = pc[u] /\ at'[u] = at[u]
      /\ pc'[t] = place
      /\ \/ /\ pc[t] \in {"callback", "arrive", "add", "reset"}
            /\ place \in {"arrive", "add", "spin", "reset", "pass"}
            /\ at'[t] = at[t]
         \/ /\ at[t] = P - 1 /\ pc[t] \in {"spin", "left"}
            /\ (at'[t] = P - 1 /\ place \in {"left", "done"}) \/ place = "work"
    OBVIOUS
<1>2. \A u \in Threads : Began(P, u)' <=> Began(P, u)
    BY <1>1 DEF Began
<1>3. \A u \in Threads : \A c : Holds(P, u, c)' <=> Holds(P, u, c)
    BY <1>1 DEF Holds
<1>4. Computation(P)'
    <2>. SUFFICES ASSUME NEW s \in 1 .. NParts, NEW p \in Pieces(s)
                  PROVE  computed'[<<s, p>>] = Amount(P, s, p)'
        BY DEF Computation, Pieces, Threads
    <2>1. CASE s # P
        BY <2>1 DEF Computation, Amount
    <2>2. CASE s = P
        <3>1. HasDone(P, p)' <=> HasDone(P, p)
            <4>1. Parts[P].kind # "chunks" => p \in Threads
                BY <2>2, PartFacts DEF Pieces
            <4>2. CASE Parts[P].kind # "chunks"
                BY <4>1, <4>2, <1>2 DEF HasDone
            <4>3. CASE Parts[P].kind = "chunks"
                <5>1. p \in Nat
                    BY PartFacts
                <5>2. p < NThreads => p \in Threads
                    BY <5>1 DEF Threads
                <5>3. Taken(P, p)' <=> Taken(P, p)
                    BY <5>2, <1>2 DEF Taken
                <5>. QED
                    BY <4>3, <5>3, <1>3 DEF HasDone
            <4>. QED
                BY <4>2, <4>3
        <3>. QED
            BY <2>2, <3>1 DEF Computation, Amount
    <2>. QED
        BY <2>1, <2>2
<1>5. Chunking(P)'
    <2>1. \A u \in Threads : (at[u] = P /\ pc[u] \in {"chunk", "fetch"})'
                            <=> at[u] = P /\ pc[u] \in {"chunk", "fetch"}
        BY <1>1
    <2>2. \A u \in Threads :
            (at[u] = P /\ pc[u] \in Within0 \ {"work", "chunk", "fetch"})'
                => at[u] = P /\ pc[u] \in Within0 \ {"work", "chunk", "fetch"}
        BY <1>1 DEF Within0
    <2>3. \A u \in Threads : (at[u] = P /\ pc[u] = "chunk")' <=> at[u] = P /\ pc[u] = "chunk"
        BY <1>1
    <2>4. \A u \in Threads : (at[u] = P /\ pc[u] = "fetch")' <=> at[u] = P /\ pc[u] = "fetch"
        BY <1>1
    <2>. QED
        BY <1>2, <1>3, <2>1, <2>2, <2>3, <2>4, PartFacts DEF Chunking
<1>. QED
    BY <1>4, <1>5

-----------------------------------------------------------------------------
(* The work.                                                               *)

\* A piece is counted once more, and nothing else.
LEMMA PieceCounted ==
    ASSUME TypeOK, NEW t \in Threads, NEW p \in Pieces(at[t]), Computed(t, p)
    PROVE  /\ computed' \in [Work -> Nat]
           /\ \A s \in 1 .. NParts : \A q \in Pieces(s) :
                computed'[<<s, q>>] = IF s = at[t] /\ q = p THEN computed[<<s, q>>] + 1
                                      ELSE computed[<<s, q>>]
<1>1. at[t] \in 1 .. NParts /\ computed \in [Work -> Nat]
    BY DEF TypeOK
<1>2. <<at[t], p>> \in Work
    BY <1>1, WorkPairs
<1>3. computed' = [computed EXCEPT ![<<at[t], p>>] = computed[<<at[t], p>>] + 1]
    BY DEF Computed
<1>4. computed' \in [Work -> Nat]
    BY <1>1, <1>2, <1>3
<1>5. ASSUME NEW s \in 1 .. NParts, NEW q \in Pieces(s)
      PROVE  computed'[<<s, q>>] = IF s = at[t] /\ q = p THEN computed[<<s, q>>] + 1
                                   ELSE computed[<<s, q>>]
    <2>1. <<s, q>> \in Work
        BY WorkPairs
    <2>2. <<s, q>> = <<at[t], p>> <=> s = at[t] /\ q = p
        OBVIOUS
    <2>. QED
        BY <1>1, <1>2, <1>3, <2>1, <2>2
<1>. QED
    BY <1>4, <1>5

\* A thread that goes on within its part leaves status and abort alone.
LEMMA StatusKept ==
    ASSUME TypeOK, NEW P \in 1 .. NParts + 1, Status(P),
           NEW t \in Threads, NEW place,
           pc[t] # "done", place \notin {"work", "done"},
           Goes(t, place),
           UNCHANGED <<result, ec, at>>
    PROVE  Status(P)'
<1>1. /\ \A u \in Threads : u # t => pc'[u] = pc[u]
      /\ pc'[t] = place
    BY DEF Goes, TypeOK
<1>2. \A u \in Threads : Began(P, u) => Began(P, u)'
    BY <1>1 DEF Began
<1>3. \A u \in Threads : pc'[u] = "done" => pc[u] = "done"
    BY <1>1
<1>4. result = "none"
    BY DEF Status
<1>. QED
    BY <1>2, <1>3, <1>4, PartFacts DEF Status

\* What a thread goes on to when its work is done.
LEMMA AfterWorkFact ==
    ASSUME NEW t \in Threads
    PROVE  AfterWork(t) \in {"callback", "arrive"}
BY DEF AfterWork

\* A thread does its own rows.
LEMMA OwnStep ==
    ASSUME TypeOK, NEW P \in 1 .. NParts + 1, AtLevel(P), NEW t \in Threads, Own(t)
    PROVE  TypeOK' /\ AtLevel(P)'
<1>. DEFINE place == AfterWork(t)
<1>1. /\ pc[t] = "work" /\ Goes(t, place) /\ Computed(t, t)
      /\ Parts[at[t]].kind \in {"own", "setup"}
      /\ current_chunk' = IF Parts[at[t]].kind = "setup" /\ t = 0 THEN NThreads
                          ELSE current_chunk
      /\ UNCHANGED <<result, n_barrier, n_barrier_passed, ec, at, passed_old, chunk>>
    BY DEF Own, Part, FirstShared
<1>2. place \in {"callback", "arrive"}
    BY AfterWorkFact
<1>. HIDE DEF place
<1>3. at[t] = P /\ P \in 1 .. NParts
    BY <1>1 DEF AtLevel, Positions, Behind, Within, TypeOK
<1>4. /\ Parts[P].kind \in {"own", "setup"}
      /\ Pieces(P) = Threads
    BY <1>1, <1>3 DEF Pieces
<1>5. /\ computed' \in [Work -> Nat]
      /\ \A s \in 1 .. NParts : \A q \in Pieces(s) :
            computed'[<<s, q>>] = IF s = P /\ q = t THEN computed[<<s, q>>] + 1
                                  ELSE computed[<<s, q>>]
    BY <1>1, <1>3, <1>4, PieceCounted
<1>6. /\ \A u \in Threads : u # t => pc'[u] = pc[u]
      /\ pc'[t] = place
    BY <1>1 DEF Goes, TypeOK
<1>7. TypeOK'
    BY <1>1, <1>2, <1>5, PartFacts DEF TypeOK, Goes
<1>8. Positions(P)' /\ OneOpens(P)' /\ Counting(P)'
    BY <1>1, <1>2, <1>7, BusyKeepsBarrier DEF AtLevel, Busy
<1>9. Status(P)'
    BY <1>1, <1>2, StatusKept DEF AtLevel
<1>10. \A u \in Threads : Began(P, u)' <=> Began(P, u) \/ u = t
    BY <1>1, <1>2, <1>3, <1>6 DEF Began
<1>11. Computation(P)'
    <2>. SUFFICES ASSUME NEW s \in 1 .. NParts, NEW p \in Pieces(s)
                  PROVE  computed'[<<s, p>>] = Amount(P, s, p)'
        BY DEF Computation, Pieces, Threads
    <2>1. computed[<<s, p>>] = Amount(P, s, p)
        BY DEF AtLevel, Computation
    <2>2. CASE s # P
        BY <2>1, <2>2, <1>5 DEF Amount
    <2>3. CASE s = P
        <3>1. p \in Threads
            BY <2>3, <1>4
        <3>2. HasDone(P, p)' <=> HasDone(P, p) \/ p = t
            BY <3>1, <1>4, <1>10 DEF HasDone
        <3>3. ~HasDone(P, t)
            BY <1>1, <1>4 DEF HasDone, Began
        <3>. QED
            BY <2>1, <2>3, <3>2, <3>3, <1>5 DEF Amount
    <2>. QED
        BY <2>2, <2>3
<1>12. Chunking(P)'
    <2>1. \A u \in Threads : at'[u] = P => pc'[u] \notin {"chunk", "fetch"}
        BY <1>1, <1>2, <1>4, <1>6 DEF AtLevel, Chunking
    <2>2. Parts[P].kind = "setup" /\ Began(P, 0)' => current_chunk' = NThreads
        BY <1>1, <1>3, <1>10, PartFacts DEF AtLevel, Chunking
    <2>. QED
        BY <2>1, <2>2, <1>4 DEF Chunking
<1>. QED
    BY <1>7, <1>8, <1>9, <1>11, <1>12 DEF AtLevel

\* Thread 0 alone does a piece.
LEMMA FirstStep ==
    ASSUME TypeOK, NEW P \in 1 .. NParts + 1, AtLevel(P), NEW t \in Threads, First(t)
    PROVE  TypeOK' /\ AtLevel(P)'
<1>. DEFINE place == AfterWork(t)
<1>1. /\ pc[t] = "work" /\ Goes(t, place)
      /\ Parts[at[t]].kind = "first"
      /\ IF t = 0 THEN Computed(t, 0) ELSE UNCHANGED computed
      /\ UNCHANGED <<result, n_barrier, n_barrier_passed, current_chunk, ec>>
      /\ UNCHANGED <<at, passed_old, chunk>>
    BY DEF First, Part, shared
<1>2. place \in {"callback", "arrive"}
    BY AfterWorkFact
<1>. HIDE DEF place
<1>3. at[t] = P /\ P \in 1 .. NParts
    BY <1>1 DEF AtLevel, Positions, Behind, Within, TypeOK
<1>4. Parts[P].kind = "first" /\ Pieces(P) = {0}
    BY <1>1, <1>3 DEF Pieces
<1>5. /\ computed' \in [Work -> Nat]
      /\ \A s \in 1 .. NParts : \A q \in Pieces(s) :
            computed'[<<s, q>>] = IF s = P /\ t = 0 THEN computed[<<s, q>>] + 1
                                  ELSE computed[<<s, q>>]
    <2>1. CASE t = 0
        <3>1. /\ computed' \in [Work -> Nat]
              /\ \A s \in 1 .. NParts : \A q \in Pieces(s) :
                    computed'[<<s, q>>] = IF s = P /\ q = 0 THEN computed[<<s, q>>] + 1
                                          ELSE computed[<<s, q>>]
            BY <1>1, <1>3, <1>4, <2>1, PieceCounted
        <3>2. \A q \in Pieces(P) : q = 0
            BY <1>4
        <3>. QED
            BY <2>1, <3>1, <3>2
    <2>2. CASE t # 0
        BY <1>1, <2>2 DEF TypeOK
    <2>. QED
        BY <2>1, <2>2
<1>6. /\ \A u \in Threads : u # t => pc'[u] = pc[u]
      /\ pc'[t] = place
    BY <1>1 DEF Goes, TypeOK
<1>7. TypeOK'
    BY <1>1, <1>2, <1>5 DEF TypeOK, Goes
<1>8. Positions(P)' /\ OneOpens(P)' /\ Counting(P)'
    BY <1>1, <1>2, <1>7, BusyKeepsBarrier DEF AtLevel, Busy
<1>9. Status(P)'
    BY <1>1, <1>2, StatusKept DEF AtLevel
<1>10. \A u \in Threads : Began(P, u)' <=> Began(P, u) \/ u = t
    BY <1>1, <1>2, <1>3, <1>6 DEF Began
<1>11. Computation(P)'
    <2>. SUFFICES ASSUME NEW s \in 1 .. NParts, NEW p \in Pieces(s)
                  PROVE  computed'[<<s, p>>] = Amount(P, s, p)'
        BY DEF Computation, Pieces, Threads
    <2>1. computed[<<s, p>>] = Amount(P, s, p)
        BY DEF AtLevel, Computation
    <2>2. CASE s # P
        BY <2>1, <2>2, <1>5 DEF Amount
    <2>3. CASE s = P
        <3>1. p = 0 /\ 0 \in Threads
            BY <2>3, <1>4, PartFacts
        <3>2. HasDone(P, p)' <=> HasDone(P, p) \/ t = 0
            BY <3>1, <1>4, <1>10 DEF HasDone
        <3>3. t = 0 => ~HasDone(P, p)
            BY <3>1, <1>1, <1>4 DEF HasDone, Began
        <3>. QED
            BY <2>1, <2>3, <3>2, <3>3, <1>5 DEF Amount
    <2>. QED
        BY <2>2, <2>3
<1>12. Chunking(P)'
    <2>1. \A u \in Threads : at'[u] = P => pc'[u] \notin {"chunk", "fetch"}
        BY <1>1, <1>2, <1>4, <1>6 DEF AtLevel, Chunking
    <2>. QED
        BY <2>1, <1>4 DEF Chunking
<1>. QED
    BY <1>7, <1>8, <1>9, <1>11, <1>12 DEF AtLevel

\* In a part of chunks, the piece of a thread that holds one is its chunk.
LEMMA HeldChunk ==
    ASSUME TypeOK, NEW P \in 1 .. NParts, Parts[P].kind = "chunks", Chunking(P),
           NEW t \in Threads, at[t] = P, pc[t] = "chunk"
    PROVE  chunk[t] \in Pieces(P) /\ chunk[t] \in Nat
<1>1. chunk[t] \in Nat /\ chunk[t] < Parts[P].chunks /\ Parts[P].chunks \in Nat
    BY PartFacts DEF Chunking, TypeOK
<1>. QED
    BY <1>1 DEF Pieces

\* A thread begins with the chunk of its own number.
LEMMA BeginStep ==
    ASSUME TypeOK, NEW P \in 1 .. NParts + 1, AtLevel(P), NEW t \in Threads, BeginChunks(t)
    PROVE  TypeOK' /\ AtLevel(P)'
<1>. DEFINE n == Parts[at[t]].chunks
            place == IF t < n THEN "chunk" ELSE AfterWork(t)
<1>1. /\ pc[t] = "work" /\ Goes(t, place)
      /\ Parts[at[t]].kind = "chunks"
      /\ chunk' = [chunk EXCEPT ![t] = t]
      /\ UNCHANGED <<computed, result, n_barrier, n_barrier_passed, current_chunk, ec>>
      /\ UNCHANGED <<at, passed_old>>
    BY DEF BeginChunks, Part, shared
<1>2. /\ place \in {"chunk", "callback", "arrive"}
      /\ place = "chunk" <=> t < n
    BY AfterWorkFact
<1>3. at[t] = P /\ P \in 1 .. NParts
    BY <1>1 DEF AtLevel, Positions, Behind, Within, TypeOK
<1>4. /\ Parts[P].kind = "chunks" /\ n = Parts[P].chunks /\ n \in Nat
      /\ Pieces(P) = 0 .. n - 1
      /\ t \in Nat /\ t < NThreads /\ NThreads \in Nat
    BY <1>1, <1>3, PartFacts DEF Pieces, Threads
<1>. HIDE DEF place, n
<1>5. /\ \A u \in Threads : u # t => pc'[u] = pc[u] /\ chunk'[u] = chunk[u]
      /\ pc'[t] = place /\ chunk'[t] = t
    BY <1>1 DEF Goes, TypeOK
<1>6. TypeOK'
    BY <1>1, <1>2, <1>4 DEF TypeOK, Goes
<1>7. Positions(P)' /\ OneOpens(P)' /\ Counting(P)'
    BY <1>1, <1>2, <1>6, BusyKeepsBarrier DEF AtLevel, Busy
<1>8. Status(P)'
    BY <1>1, <1>2, StatusKept DEF AtLevel
<1>9. /\ \A u \in Threads : Began(P, u)' <=> Began(P, u) \/ u = t
      /\ ~Began(P, t)
    BY <1>1, <1>2, <1>3, <1>5 DEF Began
<1>10. \A u \in Threads : \A c \in Nat :
            Holds(P, u, c)' <=> Holds(P, u, c) \/ (u = t /\ c = t /\ t < n)
    BY <1>1, <1>2, <1>3, <1>5 DEF Holds
<1>11. Computation(P)'
    <2>. SUFFICES ASSUME NEW s \in 1 .. NParts, NEW p \in Pieces(s)
                  PROVE  computed'[<<s, p>>] = Amount(P, s, p)'
        BY DEF Computation, Pieces, Threads
    <2>1. computed'[<<s, p>>] = Amount(P, s, p)
        BY <1>1 DEF AtLevel, Computation
    <2>2. CASE s # P
        BY <2>1, <2>2 DEF Amount
    <2>3. CASE s = P
        <3>1. p \in Nat /\ p < n
            BY <2>3, <1>4
        <3>2. p < NThreads => p \in Threads
            BY <3>1 DEF Threads
        <3>3. CASE p = t
            BY <3>1, <3>3, <1>4, <1>9, <1>10, <2>1 DEF HasDone, Taken, Amount
        <3>4. CASE p # t
            <4>1. Taken(P, p)' <=> Taken(P, p)
                BY <1>1, <1>9, <3>2, <3>4 DEF Taken
            <4>2. \A u \in Threads : Holds(P, u, p)' <=> Holds(P, u, p)
                BY <1>10, <3>1, <3>4
            <4>. QED
                BY <4>1, <4>2, <1>4, <2>1 DEF HasDone, Amount
        <3>. QED
            BY <3>3, <3>4
    <2>. QED
        BY <2>2, <2>3
<1>12. Chunking(P)'
    <2>1. Chunking(P)
        BY DEF AtLevel
    <2>2. current_chunk' >= NThreads
        BY <1>1, <1>3, <1>4, <2>1 DEF Chunking
    <2>3. ASSUME NEW u \in Threads, at'[u] = P, pc'[u] = "chunk"
          PROVE  /\ chunk'[u] < Parts[P].chunks
                 /\ chunk'[u] = u \/ (chunk'[u] >= NThreads /\ chunk'[u] < current_chunk')
                 /\ \A v \in Threads \ {u} : ~Holds(P, v, chunk[u])'
        <3>1. CASE u = t
            <4>1. t < n
                BY <1>2, <1>5, <2>3, <3>1
            <4>2. ASSUME NEW v \in Threads \ {t}, Holds(P, v, t)
                  PROVE  FALSE
                <5>1. chunk[v] = v \/ chunk[v] >= NThreads
                    BY <4>2, <2>1, <1>3, <1>4 DEF Chunking, Holds
                <5>. QED
                    BY <5>1, <4>2, <1>4 DEF Holds
            <4>. QED
                BY <4>1, <4>2, <3>1, <1>4, <1>5, <1>10
        <3>2. CASE u # t
            <4>1. at[u] = P /\ pc[u] = "chunk" /\ chunk'[u] = chunk[u]
                BY <1>1, <1>5, <2>3, <3>2
            <4>2. /\ chunk[u] < Parts[P].chunks
                  /\ chunk[u] = u \/ (chunk[u] >= NThreads /\ chunk[u] < current_chunk)
                  /\ \A v \in Threads \ {u} : ~Holds(P, v, chunk[u])
                BY <4>1, <2>1, <1>3, <1>4 DEF Chunking
            <4>3. chunk[u] \in Nat
                BY DEF TypeOK
            <4>4. chunk[u] # t
                BY <4>2, <4>3, <3>2, <1>4
            <4>. QED
                BY <4>1, <4>2, <4>3, <4>4, <1>1, <1>10
        <3>. QED
            BY <3>1, <3>2
    <2>4. ASSUME NEW u \in Threads, at'[u] = P, pc'[u] = "fetch"
          PROVE  NThreads < Parts[P].chunks
        <3>1. u # t /\ at[u] = P /\ pc[u] = "fetch"
            BY <2>4, <1>1, <1>2, <1>5
        <3>2. P <= NParts
            BY <1>3, PartFacts
        <3>. QED
            BY <3>1, <3>2, <2>1, <1>4 DEF Chunking
    <2>5. ASSUME NEW u \in Threads, at'[u] = P,
                 pc'[u] \in Within0 \ {"work", "chunk", "fetch"}
          PROVE  NThreads >= Parts[P].chunks \/ current_chunk' >= Parts[P].chunks
        <3>1. CASE u = t
            BY <3>1, <2>5, <1>2, <1>4, <1>5
        <3>2. CASE u # t
            <4>1. /\ at[u] = P /\ pc[u] \in Within0 \ {"work", "chunk", "fetch"}
                  /\ P <= NParts
                BY <3>2, <2>5, <1>1, <1>3, <1>5, PartFacts
            <4>. QED
                BY <4>1, <2>1, <1>1, <1>4 DEF Chunking
        <3>. QED
            BY <3>1, <3>2
    <2>. QED
        BY <2>2, <2>3, <2>4, <2>5, <1>4, <1>9 DEF Chunking
<1>. QED
    BY <1>6, <1>7, <1>8, <1>11, <1>12 DEF AtLevel

\* A thread computes the chunk it holds, and holds none after that.
LEMMA ComputeStep ==
    ASSUME TypeOK, NEW P \in 1 .. NParts + 1, AtLevel(P), NEW t \in Threads, ComputeChunk(t)
    PROVE  TypeOK' /\ AtLevel(P)'
<1>. DEFINE n == Parts[at[t]].chunks
            place == IF NThreads >= n THEN AfterWork(t) ELSE "fetch"
            own == chunk[t]
<1>1. /\ pc[t] = "chunk" /\ Goes(t, place) /\ Computed(t, own)
      /\ UNCHANGED <<result, n_barrier, n_barrier_passed, current_chunk, ec>>
      /\ UNCHANGED <<at, passed_old, chunk>>
    BY DEF ComputeChunk, Part, shared
<1>2. /\ place \in {"fetch", "callback", "arrive"}
      /\ place = "fetch" <=> ~(NThreads >= n)
    BY AfterWorkFact
<1>3. at[t] = P /\ P \in 1 .. NParts /\ P <= NParts
    BY <1>1, PartFacts DEF AtLevel, Positions, Behind, Within, TypeOK
<1>4. Chunking(P) /\ Parts[P].kind = "chunks"
    BY <1>1, <1>3 DEF AtLevel, Chunking
<1>5. /\ n = Parts[P].chunks /\ n \in Nat
      /\ Pieces(P) = 0 .. n - 1
      /\ t \in Nat /\ t < NThreads /\ NThreads \in Nat
    BY <1>3, <1>4, PartFacts DEF Pieces, Threads
<1>6. /\ own \in Pieces(P) /\ own \in Nat
      /\ own = t \/ (own >= NThreads /\ own < current_chunk)
      /\ \A u \in Threads \ {t} : ~Holds(P, u, own)
    BY <1>1, <1>3, <1>4, HeldChunk DEF Chunking
<1>. HIDE DEF place, n, own
<1>7. /\ \A u \in Threads : u # t => pc'[u] = pc[u]
      /\ pc'[t] = place
    BY <1>1 DEF Goes, TypeOK
<1>8. /\ computed' \in [Work -> Nat]
      /\ \A s \in 1 .. NParts : \A q \in Pieces(s) :
            computed'[<<s, q>>] = IF s = P /\ q = own THEN computed[<<s, q>>] + 1
                                  ELSE computed[<<s, q>>]
    <2>1. own \in Pieces(at[t]) /\ Computed(t, own)
        BY <1>1, <1>3, <1>6
    <2>2. /\ computed' \in [Work -> Nat]
          /\ \A s \in 1 .. NParts : \A q \in Pieces(s) :
                computed'[<<s, q>>] = IF s = at[t] /\ q = own THEN computed[<<s, q>>] + 1
                                      ELSE computed[<<s, q>>]
        BY <2>1, PieceCounted
    <2>. QED
        BY <2>2, <1>3
<1>9. TypeOK'
    BY <1>1, <1>2, <1>8 DEF TypeOK, Goes
<1>10. Positions(P)' /\ OneOpens(P)' /\ Counting(P)'
    BY <1>1, <1>2, <1>9, BusyKeepsBarrier DEF AtLevel, Busy
<1>11. Status(P)'
    BY <1>1, <1>2, StatusKept DEF AtLevel
<1>12. \A u \in Threads : (Began(P, u)' <=> Began(P, u)) /\ Began(P, t)
    BY <1>1, <1>2, <1>3, <1>7 DEF Began
<1>13. \A u \in Threads : \A c \in Nat :
            Holds(P, u, c)' <=> Holds(P, u, c) /\ u # t
    BY <1>1, <1>2, <1>3, <1>7 DEF Holds
<1>14. Holds(P, t, own) /\ \A c \in Nat : Holds(P, t, c) => c = own
    BY <1>1, <1>3 DEF Holds, own
<1>15. Computation(P)'
    <2>. SUFFICES ASSUME NEW s \in 1 .. NParts, NEW p \in Pieces(s)
                  PROVE  computed'[<<s, p>>] = Amount(P, s, p)'
        BY DEF Computation, Pieces, Threads
    <2>1. computed[<<s, p>>] = Amount(P, s, p)
        BY DEF AtLevel, Computation
    <2>2. CASE s # P
        BY <2>1, <2>2, <1>8 DEF Amount
    <2>3. CASE s = P
        <3>1. p \in Nat
            BY <2>3, <1>5
        <3>2. p < NThreads => p \in Threads
            BY <3>1 DEF Threads
        <3>3. Taken(P, p)' <=> Taken(P, p)
            BY <1>1, <1>12, <3>2 DEF Taken
        <3>4. CASE p = own
            <4>1. Taken(P, p)
                BY <3>4, <1>5, <1>6, <1>12 DEF Taken
            <4>2. \A u \in Threads : ~Holds(P, u, p)'
                BY <3>1, <3>4, <1>6, <1>13
            <4>3. HasDone(P, p)' /\ ~HasDone(P, p)
                BY <3>3, <3>4, <4>1, <4>2, <1>4, <1>14 DEF HasDone
            <4>. QED
                BY <2>1, <2>3, <3>4, <4>3, <1>8 DEF Amount
        <3>5. CASE p # own
            <4>1. \A u \in Threads : Holds(P, u, p)' <=> Holds(P, u, p)
                BY <3>1, <3>5, <1>13, <1>14
            <4>2. HasDone(P, p)' <=> HasDone(P, p)
                BY <3>3, <4>1, <1>4 DEF HasDone
            <4>. QED
                BY <2>1, <2>3, <3>5, <4>2, <1>8 DEF Amount
        <3>. QED
            BY <3>4, <3>5
    <2>. QED
        BY <2>2, <2>3
<1>16. Chunking(P)'
    <2>1. current_chunk' >= NThreads
        BY <1>1, <1>3, <1>4 DEF Chunking
    <2>2. ASSUME NEW u \in Threads, at'[u] = P, pc'[u] = "chunk"
          PROVE  /\ chunk'[u] < Parts[P].chunks
                 /\ chunk'[u] = u \/ (chunk'[u] >= NThreads /\ chunk'[u] < current_chunk')
                 /\ \A v \in Threads \ {u} : ~Holds(P, v, chunk[u])'
        <3>1. u # t /\ at[u] = P /\ pc[u] = "chunk" /\ chunk'[u] = chunk[u]
            BY <2>2, <1>1, <1>2, <1>7
        <3>2. chunk[u] \in Nat
            BY DEF TypeOK
        <3>3. /\ chunk[u] < Parts[P].chunks
              /\ chunk[u] = u \/ (chunk[u] >= NThreads /\ chunk[u] < current_chunk)
              /\ \A v \in Threads \ {u} : ~Holds(P, v, chunk[u])
            BY <3>1, <1>3, <1>4 DEF Chunking
        <3>. QED
            BY <3>1, <3>2, <3>3, <1>1, <1>13
    <2>3. ASSUME NEW u \in Threads, at'[u] = P, pc'[u] = "fetch"
          PROVE  NThreads < Parts[P].chunks
        <3>1. CASE u = t
            BY <3>1, <2>3, <1>2, <1>5, <1>7
        <3>2. CASE u # t
            BY <3>2, <2>3, <1>1, <1>3, <1>4, <1>7 DEF Chunking
        <3>. QED
            BY <3>1, <3>2
    <2>4. ASSUME NEW u \in Threads, at'[u] = P,
                 pc'[u] \in Within0 \ {"work", "chunk", "fetch"}
          PROVE  NThreads >= Parts[P].chunks \/ current_chunk' >= Parts[P].chunks
        <3>1. CASE u = t
            BY <3>1, <2>4, <1>2, <1>5, <1>7
        <3>2. CASE u # t
            BY <3>2, <2>4, <1>1, <1>3, <1>4, <1>7 DEF Chunking
        <3>. QED
            BY <3>1, <3>2
    <2>. QED
        BY <2>1, <2>2, <2>3, <2>4, <1>4, <1>12 DEF Chunking
<1>. QED
    BY <1>9, <1>10, <1>11, <1>15, <1>16 DEF AtLevel

\* A thread takes the next chunk that nobody has.
LEMMA FetchStep ==
    ASSUME TypeOK, NEW P \in 1 .. NParts + 1, AtLevel(P), NEW t \in Threads, FetchChunk(t)
    PROVE  TypeOK' /\ AtLevel(P)'
<1>. DEFINE n == Parts[at[t]].chunks
            place == IF current_chunk < n THEN "chunk" ELSE AfterWork(t)
<1>1. /\ pc[t] = "fetch" /\ Goes(t, place)
      /\ chunk' = [chunk EXCEPT ![t] = current_chunk]
      /\ current_chunk' = current_chunk + 1
      /\ UNCHANGED <<computed, result, n_barrier, n_barrier_passed, ec, at, passed_old>>
    BY DEF FetchChunk, Part
<1>2. /\ place \in {"chunk", "callback", "arrive"}
      /\ place = "chunk" <=> current_chunk < n
    BY AfterWorkFact
<1>3. at[t] = P /\ P \in 1 .. NParts /\ P <= NParts
    BY <1>1, PartFacts DEF AtLevel, Positions, Behind, Within, TypeOK
<1>4. Chunking(P) /\ Parts[P].kind = "chunks"
    BY <1>1, <1>3 DEF AtLevel, Chunking
<1>5. /\ n = Parts[P].chunks /\ n \in Nat
      /\ Pieces(P) = 0 .. n - 1
      /\ t \in Nat /\ t < NThreads /\ NThreads \in Nat
      /\ \A u \in Threads : u < NThreads
    BY <1>3, <1>4, PartFacts DEF Pieces, Threads
<1>6. /\ current_chunk \in Nat /\ current_chunk >= NThreads
      /\ NThreads < Parts[P].chunks
    BY <1>1, <1>3, <1>4 DEF Chunking, TypeOK
<1>. HIDE DEF place, n
<1>7. /\ \A u \in Threads : u # t => pc'[u] = pc[u] /\ chunk'[u] = chunk[u]
      /\ pc'[t] = place /\ chunk'[t] = current_chunk
    BY <1>1 DEF Goes, TypeOK
<1>8. TypeOK'
    BY <1>1, <1>2, <1>6 DEF TypeOK, Goes
<1>9. Positions(P)' /\ OneOpens(P)' /\ Counting(P)'
    BY <1>1, <1>2, <1>8, BusyKeepsBarrier DEF AtLevel, Busy
<1>10. Status(P)'
    BY <1>1, <1>2, StatusKept DEF AtLevel
<1>11. \A u \in Threads : (Began(P, u)' <=> Began(P, u)) /\ Began(P, t)
    BY <1>1, <1>2, <1>3, <1>7 DEF Began
<1>12. \A u \in Threads : \A c \in Nat :
            Holds(P, u, c)' <=> Holds(P, u, c) \/ (u = t /\ c = current_chunk /\ current_chunk < n)
    BY <1>1, <1>2, <1>3, <1>7 DEF Holds
<1>13. \A u \in Threads : \A c \in Nat : Holds(P, u, c) => c # current_chunk
    <2>. SUFFICES ASSUME NEW u \in Threads, NEW c \in Nat, Holds(P, u, c)
                  PROVE  c # current_chunk
        OBVIOUS
    <2>1. c = u \/ (c >= NThreads /\ c < current_chunk)
        BY <1>3, <1>4 DEF Chunking, Holds
    <2>. QED
        BY <2>1, <1>5, <1>6
<1>14. Computation(P)'
    <2>. SUFFICES ASSUME NEW s \in 1 .. NParts, NEW p \in Pieces(s)
                  PROVE  computed'[<<s, p>>] = Amount(P, s, p)'
        BY DEF Computation, Pieces, Threads
    <2>1. computed'[<<s, p>>] = Amount(P, s, p)
        BY <1>1 DEF AtLevel, Computation
    <2>2. CASE s # P
        BY <2>1, <2>2 DEF Amount
    <2>3. CASE s = P
        <3>1. p \in Nat /\ p < n
            BY <2>3, <1>5
        <3>2. p < NThreads => p \in Threads
            BY <3>1 DEF Threads
        <3>3. CASE p = current_chunk
            <4>1. ~Taken(P, p)
                BY <3>3, <1>6 DEF Taken
            <4>2. Holds(P, t, p)'
                BY <3>1, <3>3, <1>12
            <4>3. ~HasDone(P, p) /\ ~HasDone(P, p)'
                BY <4>1, <4>2, <1>4 DEF HasDone
            <4>. QED
                BY <2>1, <2>3, <4>3 DEF Amount
        <3>4. CASE p # current_chunk
            <4>1. Taken(P, p)' <=> Taken(P, p)
                BY <1>1, <1>6, <1>11, <3>1, <3>2, <3>4 DEF Taken
            <4>2. \A u \in Threads : Holds(P, u, p)' <=> Holds(P, u, p)
                BY <3>1, <3>4, <1>12
            <4>3. HasDone(P, p)' <=> HasDone(P, p)
                BY <4>1, <4>2, <1>4 DEF HasDone
            <4>. QED
                BY <2>1, <2>3, <4>3 DEF Amount
        <3>. QED
            BY <3>3, <3>4
    <2>. QED
        BY <2>2, <2>3
<1>15. Chunking(P)'
    <2>1. current_chunk' >= NThreads
        BY <1>1, <1>5, <1>6
    <2>2. ASSUME NEW u \in Threads, at'[u] = P, pc'[u] = "chunk"
          PROVE  /\ chunk'[u] < Parts[P].chunks
                 /\ chunk'[u] = u \/ (chunk'[u] >= NThreads /\ chunk'[u] < current_chunk')
                 /\ \A v \in Threads \ {u} : ~Holds(P, v, chunk[u])'
        <3>1. CASE u = t
            <4>1. current_chunk < n /\ chunk'[u] = current_chunk
                BY <3>1, <2>2, <1>2, <1>7
            <4>2. ASSUME NEW v \in Threads \ {t}
                  PROVE  ~Holds(P, v, chunk[u])'
                <5>1. ~Holds(P, v, current_chunk)
                    BY <1>6, <1>13
                <5>2. ~(at[v] = P /\ pc[v] = "chunk" /\ chunk[v] = current_chunk)
                    BY <5>1 DEF Holds
                <5>. QED
                    BY <5>2, <4>1, <1>1, <1>7 DEF Holds
            <4>3. chunk'[u] >= NThreads /\ chunk'[u] < current_chunk'
                BY <4>1, <1>1, <1>5, <1>6
            <4>4. chunk'[u] < Parts[P].chunks
                BY <4>1, <1>5
            <4>. QED
                BY <4>2, <4>3, <4>4, <3>1
        <3>2. CASE u # t
            <4>1. at[u] = P /\ pc[u] = "chunk" /\ chunk'[u] = chunk[u]
                BY <1>1, <1>7, <2>2, <3>2
            <4>2. /\ chunk[u] < Parts[P].chunks
                  /\ chunk[u] = u \/ (chunk[u] >= NThreads /\ chunk[u] < current_chunk)
                  /\ \A v \in Threads \ {u} : ~Holds(P, v, chunk[u])
                BY <4>1, <1>3, <1>4 DEF Chunking
            <4>3. chunk[u] \in Nat
                BY DEF TypeOK
            <4>4. chunk[u] # current_chunk
                BY <4>1, <4>3, <1>13 DEF Holds
            <4>5. \A v \in Threads \ {u} : ~Holds(P, v, chunk[u])'
                BY <4>1, <4>2, <4>3, <4>4, <1>12
            <4>6. chunk[u] = u \/ (chunk[u] >= NThreads /\ chunk[u] < current_chunk')
                BY <4>2, <4>3, <1>1, <1>6
            <4>. QED
                BY <4>1, <4>2, <4>5, <4>6
        <3>. QED
            BY <3>1, <3>2
    <2>3. ASSUME NEW u \in Threads, at'[u] = P,
                 pc'[u] \in Within0 \ {"work", "chunk", "fetch"}
          PROVE  NThreads >= Parts[P].chunks \/ current_chunk' >= Parts[P].chunks
        <3>1. CASE u = t
            BY <3>1, <2>3, <1>1, <1>2, <1>5, <1>6, <1>7
        <3>2. CASE u # t
            <4>1. current_chunk >= Parts[P].chunks
                BY <3>2, <2>3, <1>1, <1>3, <1>4, <1>5, <1>6, <1>7 DEF Chunking
            <4>. QED
                BY <4>1, <1>1, <1>5, <1>6
        <3>. QED
            BY <3>1, <3>2
    <2>. QED
        BY <2>1, <2>2, <2>3, <1>4, <1>6, <1>11 DEF Chunking
<1>. QED
    BY <1>8, <1>9, <1>10, <1>14, <1>15 DEF AtLevel

\* The callback may ask for an abort, of this level.
LEMMA CallbackStep ==
    ASSUME TypeOK, NEW P \in 1 .. NParts + 1, AtLevel(P), NEW t \in Threads, Callback(t)
    PROVE  TypeOK' /\ AtLevel(P)'
<1>1. /\ pc[t] = "callback" /\ Goes(t, "arrive")
      /\ UNCHANGED ec \/ (at[t] \in Aborts /\ ec' = "aborted")
      /\ UNCHANGED <<computed, result, n_barrier, n_barrier_passed, current_chunk>>
      /\ UNCHANGED <<at, passed_old, chunk>>
    BY DEF Callback
<1>2. at[t] = P
    BY <1>1 DEF AtLevel, Positions, Behind, Within, TypeOK
<1>3. TypeOK'
    BY <1>1 DEF TypeOK, Goes
<1>4. Positions(P)' /\ OneOpens(P)' /\ Counting(P)'
    BY <1>1, <1>3, BusyKeepsBarrier DEF AtLevel, Busy
<1>5. Computation(P)' /\ Chunking(P)'
    BY <1>1, <1>3, BarrierKeepsWork DEF AtLevel
<1>6. Status(P)'
    <2>1. CASE UNCHANGED ec
        BY <2>1, <1>1, StatusKept DEF AtLevel
    <2>2. CASE at[t] \in Aborts /\ ec' = "aborted"
        <3>1. result = "none"
            BY <1>1 DEF AtLevel, Status
        <3>2. Began(P, t)'
            BY <1>1, <1>2 DEF Began, Goes, TypeOK
        <3>. QED
            BY <3>1, <3>2, <2>2, <1>1, <1>2 DEF Status
    <2>. QED
        BY <1>1, <2>1, <2>2
<1>. QED
    BY <1>3, <1>4, <1>5, <1>6 DEF AtLevel

-----------------------------------------------------------------------------
(* The barrier.                                                            *)

\* When every thread stands at the end of part P, the next level begins.
LEMMA LevelUp ==
    ASSUME TypeOK, TypeOK', NEW P \in 1 .. NParts, AtLevel(P),
           \A u \in Threads : at[u] = P /\ pc[u] \in {"arrive", "spin", "pass"},
           \A u \in Threads : pc'[u] \in {"left", "spin"},
           UNCHANGED <<computed, result, current_chunk, ec, at, chunk>>
    PROVE  Computation(P + 1)' /\ Chunking(P + 1)' /\ Status(P + 1)'
<1>1. \A u \in Threads : Began(P, u) /\ ~Began(P + 1, u)'
    BY DEF Began
<1>2. \A u \in Threads : \A c : ~Holds(P, u, c) /\ ~Holds(P + 1, u, c)'
    BY DEF Holds
<1>3. 0 \in Threads
    BY PartFacts
<1>4. ASSUME NEW p \in Pieces(P)
      PROVE  HasDone(P, p)
    <2>1. p \in Nat
        BY PartFacts
    <2>2. CASE Parts[P].kind # "chunks"
        BY <2>2, <1>1, <1>3 DEF HasDone, Pieces
    <2>3. CASE Parts[P].kind = "chunks"
        <3>1. p < Parts[P].chunks
            BY <2>3, PartFacts DEF Pieces
        <3>2. NThreads >= Parts[P].chunks \/ current_chunk >= Parts[P].chunks
            BY <2>3, <1>3, PartFacts DEF AtLevel, Chunking, Within0
        <3>3. p < NThreads => p \in Threads
            BY <2>1 DEF Threads
        <3>4. Parts[P].chunks \in Nat /\ current_chunk \in Nat
            BY PartFacts DEF TypeOK
        <3>5. Taken(P, p)
            <4>1. CASE p < NThreads
                BY <4>1, <3>3, <1>1 DEF Taken
            <4>2. CASE ~(p < NThreads)
                BY <4>2, <2>1, <3>1, <3>2, <3>4 DEF Taken
            <4>. QED
                BY <4>1, <4>2
        <3>. QED
            BY <2>3, <3>5, <1>2 DEF HasDone
    <2>. QED
        BY <2>2, <2>3
<1>5. ASSUME P + 1 \in 1 .. NParts, Parts[P + 1].kind = "chunks"
      PROVE  current_chunk = NThreads
    <2>1. Parts[(P + 1) - 1].kind = "setup"
        BY <1>5, PartFacts
    <2>2. (P + 1) - 1 = P /\ P <= NParts
        BY PartFacts
    <2>. QED
        BY <2>1, <2>2, <1>1, <1>3 DEF AtLevel, Chunking
<1>6. ASSUME P + 1 \in 1 .. NParts, NEW p \in Pieces(P + 1)
      PROVE  ~HasDone(P + 1, p)'
    <2>1. p \in Nat
        BY <1>6, PartFacts
    <2>2. CASE Parts[P + 1].kind # "chunks"
        BY <2>2, <1>1, <1>3 DEF HasDone, Pieces
    <2>3. CASE Parts[P + 1].kind = "chunks"
        <3>1. p < NThreads => p \in Threads
            BY <2>1 DEF Threads
        <3>2. ~Taken(P + 1, p)'
            BY <2>1, <2>3, <3>1, <1>1, <1>5, <1>6 DEF Taken
        <3>. QED
            BY <2>3, <3>2 DEF HasDone
    <2>. QED
        BY <2>2, <2>3
<1>7. Computation(P + 1)'
    <2>. SUFFICES ASSUME NEW s \in 1 .. NParts, NEW p \in Pieces(s)
                  PROVE  computed'[<<s, p>>] = Amount(P + 1, s, p)'
        BY DEF Computation, Pieces, Threads
    <2>1. computed'[<<s, p>>] = Amount(P, s, p)
        BY DEF AtLevel, Computation
    <2>2. CASE s < P
        BY <2>1, <2>2 DEF Amount
    <2>3. CASE s = P
        BY <2>1, <2>3, <1>4 DEF Amount
    <2>4. CASE s = P + 1
        <3>1. ~HasDone(P + 1, p)'
            BY <2>4, <1>6
        <3>. QED
            BY <2>1, <2>4, <3>1 DEF Amount
    <2>5. CASE s > P + 1
        BY <2>1, <2>5 DEF Amount
    <2>. QED
        BY <2>2, <2>3, <2>4, <2>5
<1>8. Chunking(P + 1)'
    <2>1. \A u \in Threads : at'[u] # P + 1
        BY PartFacts
    <2>2. P + 1 <= NParts => P + 1 \in 1 .. NParts
        BY PartFacts
    <2>3. ~Began(P + 1, 0)'
        BY <1>1, <1>3
    <2>. QED
        BY <2>1, <2>2, <2>3, <1>2, <1>5 DEF Chunking
<1>9. Status(P + 1)'
    <2>1. result = "none"
        BY <1>3 DEF AtLevel, Status
    <2>2. ec = "aborted" => P \in Aborts
        BY <1>3 DEF AtLevel, Status
    <2>3. (P + 1) - 1 = P
        BY PartFacts
    <2>. QED
        BY <2>1, <2>2, <2>3 DEF Status
<1>. QED
    BY <1>7, <1>8, <1>9

\* A thread comes to the barrier; alone it goes on at once.
LEMMA ArriveStep ==
    ASSUME TypeOK, NEW P \in 1 .. NParts + 1, AtLevel(P), NEW t \in Threads, Arrive(t)
    PROVE  TypeOK' /\ \E Q \in 1 .. NParts + 1 : AtLevel(Q)'
<1>1. /\ pc[t] = "arrive"
      /\ UNCHANGED <<computed, result, n_barrier, n_barrier_passed, current_chunk, ec>>
      /\ UNCHANGED <<at, chunk>>
    BY DEF Arrive, shared
<1>2. at[t] = P /\ P \in 1 .. NParts
    BY <1>1 DEF AtLevel, Positions, Behind, Within, TypeOK
<1>3. CASE NThreads = 1
    <2>1. Goes(t, "left") /\ UNCHANGED passed_old
        BY <1>3 DEF Arrive
    <2>2. \A u \in Threads : u = t
        BY <1>3 DEF Threads
    <2>3. TypeOK'
        BY <1>1, <2>1 DEF TypeOK, Goes
    <2>4. \A u \in Threads : at[u] = P /\ pc[u] = "arrive" /\ pc'[u] = "left"
        BY <1>1, <1>2, <2>1, <2>2 DEF TypeOK, Goes
    <2>5. Computation(P + 1)' /\ Chunking(P + 1)' /\ Status(P + 1)'
        BY <1>1, <1>2, <2>3, <2>4, LevelUp
    <2>6. (P + 1) - 1 = P /\ P # P + 1
        BY <1>2
    <2>7. Positions(P + 1)'
        BY <1>1, <2>4, <2>6 DEF Positions, Behind
    <2>8. OneOpens(P + 1)'
        BY <2>4 DEF OneOpens
    <2>9. Counting(P + 1)'
        <3>1. Counted(P + 1)' = {} /\ Counted(P) = {}
            BY <1>1, <2>4, <2>6 DEF Counted
        <3>. QED
            BY <3>1, <1>1, <2>4 DEF AtLevel, Counting
    <2>10. AtLevel(P + 1)'
        BY <2>5, <2>7, <2>8, <2>9 DEF AtLevel
    <2>11. P + 1 \in 1 .. NParts + 1
        BY <1>2, PartFacts
    <2>. QED
        BY <2>3, <2>10, <2>11
<1>4. CASE NThreads # 1
    <2>1. Goes(t, "add") /\ passed_old' = [passed_old EXCEPT ![t] = n_barrier_passed]
        BY <1>4 DEF Arrive
    <2>2. /\ \A u \in Threads : u # t => pc'[u] = pc[u] /\ passed_old'[u] = passed_old[u]
          /\ pc'[t] = "add" /\ passed_old'[t] = n_barrier_passed
        BY <2>1 DEF TypeOK, Goes
    <2>3. TypeOK'
        BY <1>1, <2>1 DEF TypeOK, Goes
    <2>4. \A u \in Threads : pc[u] \notin {"reset", "pass"} /\ pc'[u] \notin {"reset", "pass"}
        <3>1. \A u \in Threads : pc[u] \notin {"reset", "pass"}
            BY <1>1 DEF AtLevel, OneOpens
        <3>. QED
            BY <3>1, <2>2
    <2>5. Positions(P)'
        <3>. SUFFICES ASSUME NEW u \in Threads
                      PROVE  (Behind(P, u) \/ Within(P, u))'
            BY DEF Positions
        <3>1. CASE u = t
            BY <3>1, <1>1, <1>2, <2>2 DEF Within, Within0
        <3>2. CASE u # t
            BY <3>2, <1>1, <2>2 DEF AtLevel, Positions, Behind, Within
        <3>. QED
            BY <3>1, <3>2
    <2>6. OneOpens(P)'
        BY <2>4 DEF OneOpens
    <2>7. Counting(P)'
        <3>1. Counted(P)' = Counted(P)
            BY <1>1, <2>2 DEF Counted
        <3>. QED
            BY <3>1, <1>1, <2>4 DEF AtLevel, Counting
    <2>8. Computation(P)' /\ Chunking(P)'
        BY <1>1, <2>1, <2>3, BarrierKeepsWork DEF AtLevel
    <2>9. Status(P)'
        BY <1>1, <2>1, StatusKept DEF AtLevel
    <2>. QED
        BY <2>3, <2>5, <2>6, <2>7, <2>8, <2>9 DEF AtLevel
<1>. QED
    BY <1>3, <1>4

\* A thread is counted; when it is the last, all the others spin.
LEMMA AddStep ==
    ASSUME TypeOK, NEW P \in 1 .. NParts + 1, AtLevel(P), NEW t \in Threads, Add(t)
    PROVE  TypeOK' /\ AtLevel(P)'
<1>. DEFINE place == IF LastOne THEN "reset" ELSE "spin"
<1>1. /\ pc[t] = "add" /\ n_barrier' = n_barrier + 1 /\ Goes(t, place)
      /\ UNCHANGED <<computed, result, n_barrier_passed, current_chunk, ec>>
      /\ UNCHANGED <<at, passed_old, chunk>>
    BY DEF Add
<1>2. place \in {"reset", "spin"} /\ (place = "reset" <=> n_barrier = NThreads - 1)
    BY DEF LastOne
<1>. HIDE DEF place
<1>3. /\ at[t] = P
      /\ \A u \in Threads : u # t => pc'[u] = pc[u]
      /\ pc'[t] = place
      /\ passed_old[t] = n_barrier_passed
    BY <1>1 DEF AtLevel, Positions, Behind, Within, InBarrier, TypeOK, Goes
<1>4. \A u \in Threads : pc[u] \notin {"reset", "pass"}
    BY <1>1 DEF AtLevel, OneOpens
<1>5. \A u \in Threads : pc'[u] # "pass" /\ (pc'[u] = "reset" => u = t)
    BY <1>2, <1>3, <1>4
<1>6. /\ n_barrier = Cardinality(Counted(P))
      /\ Counted(P)' = Counted(P) \cup {t}
      /\ t \notin Counted(P)
      /\ Counted(P)' \subseteq Threads
    BY <1>1, <1>2, <1>3, <1>4 DEF AtLevel, Counting, Counted
<1>7. /\ IsFiniteSet(Counted(P)) /\ IsFiniteSet(Counted(P)')
      /\ Cardinality(Counted(P)') = n_barrier + 1
      /\ n_barrier + 1 <= NThreads
      /\ n_barrier + 1 = NThreads => Counted(P)' = Threads
    <2>1. IsFiniteSet(Counted(P)')
        BY <1>6, ThreadsFinite, FS_Subset
    <2>2. IsFiniteSet(Counted(P))
        BY <1>6, <2>1, FS_Subset
    <2>3. Cardinality(Counted(P) \cup {t}) = Cardinality(Counted(P)) + 1
        BY <1>6, <2>2, FS_AddElement
    <2>4. Cardinality(Counted(P)') <= Cardinality(Threads)
        BY <1>6, ThreadsFinite, FS_Subset
    <2>5. Cardinality(Counted(P)') = Cardinality(Threads) => Counted(P)' = Threads
        BY <1>6, ThreadsFinite, FS_Subset
    <2>. QED
        BY <2>1, <2>2, <2>3, <2>4, <2>5, <1>6, ThreadsFinite
<1>8. TypeOK'
    <2>1. n_barrier \in Nat
        BY DEF TypeOK
    <2>2. n_barrier' \in 0 .. NThreads
        BY <2>1, <1>1, <1>7
    <2>. QED
        BY <2>2, <1>1, <1>2 DEF TypeOK, Goes
<1>9. Positions(P)'
    <2>. SUFFICES ASSUME NEW u \in Threads
                  PROVE  (Behind(P, u) \/ Within(P, u))'
        BY DEF Positions
    <2>1. CASE u = t
        BY <2>1, <1>1, <1>2, <1>3 DEF Within, Within0
    <2>2. CASE u # t
        BY <2>2, <1>1, <1>3 DEF AtLevel, Positions, Behind, Within
    <2>. QED
        BY <2>1, <2>2
<1>10. OneOpens(P)'
    <2>1. CASE place = "spin"
        BY <2>1, <1>3, <1>4 DEF OneOpens
    <2>2. CASE place = "reset"
        <3>1. n_barrier \in Nat
            BY DEF TypeOK
        <3>2. Counted(P)' = Threads
            BY <3>1, <2>2, <1>2, <1>7
        <3>3. \A u \in Threads : at'[u] = P /\ pc'[u] \in {"spin", "reset"}
            BY <3>2 DEF Counted
        <3>. QED
            BY <3>3, <1>5 DEF OneOpens
    <2>. QED
        BY <1>2, <2>1, <2>2
<1>11. Counting(P)'
    BY <1>1, <1>5, <1>7 DEF Counting
<1>12. Computation(P)' /\ Chunking(P)'
    BY <1>1, <1>2, <1>8, BarrierKeepsWork DEF AtLevel
<1>13. Status(P)'
    BY <1>1, <1>2, StatusKept DEF AtLevel
<1>. QED
    BY <1>8, <1>9, <1>10, <1>11, <1>12, <1>13 DEF AtLevel

\* The last thread takes the count back while all the others spin.
LEMMA ResetStep ==
    ASSUME TypeOK, NEW P \in 1 .. NParts + 1, AtLevel(P), NEW t \in Threads, Reset(t)
    PROVE  TypeOK' /\ AtLevel(P)'
<1>1. /\ pc[t] = "reset" /\ n_barrier' = 0 /\ Goes(t, "pass")
      /\ UNCHANGED <<computed, result, n_barrier_passed, current_chunk, ec>>
      /\ UNCHANGED <<at, passed_old, chunk>>
    BY DEF Reset, Zero
<1>2. /\ \A u \in Threads : u # t => pc'[u] = pc[u]
      /\ pc'[t] = "pass"
      /\ at[t] = P
      /\ \A u \in Threads \ {t} : at[u] = P /\ pc[u] = "spin"
    BY <1>1 DEF AtLevel, OneOpens, TypeOK, Goes
<1>3. TypeOK'
    BY <1>1 DEF TypeOK, Goes
<1>4. Positions(P)'
    <2>. SUFFICES ASSUME NEW u \in Threads
                  PROVE  (Behind(P, u) \/ Within(P, u))'
        BY DEF Positions
    <2>1. CASE u = t
        <3>1. Within(P, t)
            BY <1>1 DEF AtLevel, Positions, Behind
        <3>. QED
            BY <2>1, <3>1, <1>1, <1>2 DEF Within, Within0, InBarrier
    <2>2. CASE u # t
        BY <2>2, <1>1, <1>2 DEF AtLevel, Positions, Behind, Within
    <2>. QED
        BY <2>1, <2>2
<1>5. OneOpens(P)'
    BY <1>1, <1>2 DEF OneOpens
<1>6. Counting(P)'
    BY <1>1, <1>2 DEF Counting
<1>7. Computation(P)' /\ Chunking(P)'
    BY <1>1, <1>3, BarrierKeepsWork DEF AtLevel
<1>8. Status(P)'
    BY <1>1, StatusKept DEF AtLevel
<1>. QED
    BY <1>3, <1>4, <1>5, <1>6, <1>7, <1>8 DEF AtLevel

\* The last thread opens the barrier, and with it the next level.
LEMMA PassStep ==
    ASSUME TypeOK, NEW P \in 1 .. NParts + 1, AtLevel(P), NEW t \in Threads, Pass(t)
    PROVE  TypeOK' /\ P \in 1 .. NParts /\ AtLevel(P + 1)'
<1>1. /\ pc[t] = "pass" /\ Goes(t, "left")
      /\ n_barrier_passed' = (n_barrier_passed + 1) % Wrap
      /\ UNCHANGED <<computed, result, n_barrier, current_chunk, ec>>
      /\ UNCHANGED <<at, passed_old, chunk>>
    BY DEF Pass
<1>2. /\ \A u \in Threads : u # t => pc'[u] = pc[u]
      /\ pc'[t] = "left"
      /\ \A u \in Threads : at[u] = P
      /\ \A u \in Threads \ {t} : pc[u] = "spin"
    BY <1>1 DEF AtLevel, OneOpens, TypeOK, Goes
<1>3. /\ P \in 1 .. NParts /\ (P + 1) - 1 = P /\ P # P + 1 /\ P - 1 # P
      /\ P + 1 \in 1 .. NParts + 1
    BY <1>2, PartFacts DEF TypeOK
<1>4. n_barrier_passed' \in 0 .. Wrap - 1
    BY <1>1 DEF TypeOK
<1>5. TypeOK'
    BY <1>1, <1>4 DEF TypeOK, Goes
<1>6. Computation(P + 1)' /\ Chunking(P + 1)' /\ Status(P + 1)'
    <2>1. \A u \in Threads : pc[u] \in {"arrive", "spin", "pass"} /\ pc'[u] \in {"left", "spin"}
        BY <1>1, <1>2
    <2>. QED
        BY <2>1, <1>1, <1>2, <1>3, <1>5, LevelUp
<1>7. Positions(P + 1)'
    <2>. SUFFICES ASSUME NEW u \in Threads
                  PROVE  Behind(P + 1, u)'
        BY DEF Positions
    <2>1. CASE u = t
        BY <2>1, <1>1, <1>2, <1>3 DEF Behind
    <2>2. CASE u # t
        <3>1. passed_old[u] = n_barrier_passed
            BY <2>2, <1>2, <1>3 DEF AtLevel, Positions, Behind, Within, InBarrier
        <3>. QED
            BY <3>1, <2>2, <1>1, <1>2, <1>3 DEF Behind
    <2>. QED
        BY <2>1, <2>2
<1>8. OneOpens(P + 1)'
    BY <1>2 DEF OneOpens
<1>9. Counting(P + 1)'
    <2>1. n_barrier = 0
        BY <1>1 DEF AtLevel, Counting
    <2>2. Counted(P + 1)' = {}
        BY <1>1, <1>2, <1>3 DEF Counted
    <2>. QED
        BY <2>1, <2>2, <1>1, <1>2, FS_EmptySet DEF Counting
<1>. QED
    BY <1>3, <1>5, <1>6, <1>7, <1>8, <1>9 DEF AtLevel

\* A waiting thread goes on only when it was released.
LEMMA SpinStep ==
    ASSUME TypeOK, NEW P \in 1 .. NParts + 1, AtLevel(P), NEW t \in Threads, Spin(t)
    PROVE  TypeOK' /\ AtLevel(P)'
<1>1. /\ pc[t] = "spin" /\ n_barrier_passed # passed_old[t] /\ Goes(t, "left")
      /\ UNCHANGED <<computed, result, n_barrier, n_barrier_passed, current_chunk, ec>>
      /\ UNCHANGED <<at, passed_old, chunk>>
    BY DEF Spin, shared
<1>2. /\ at[t] = P - 1 /\ P - 1 # P
      /\ \A u \in Threads : u # t => pc'[u] = pc[u]
      /\ pc'[t] = "left"
    BY <1>1 DEF AtLevel, Positions, Within, Behind, InBarrier, TypeOK, Goes
<1>3. \A u \in Threads : pc[u] \notin {"reset", "pass"} /\ pc'[u] \notin {"reset", "pass"}
    <2>1. \A u \in Threads : pc[u] \notin {"reset", "pass"}
        BY <1>1, <1>2 DEF AtLevel, OneOpens
    <2>. QED
        BY <2>1, <1>2
<1>4. TypeOK'
    BY <1>1 DEF TypeOK, Goes
<1>5. Positions(P)'
    <2>. SUFFICES ASSUME NEW u \in Threads
                  PROVE  (Behind(P, u) \/ Within(P, u))'
        BY DEF Positions
    <2>1. CASE u = t
        BY <2>1, <1>1, <1>2 DEF Behind
    <2>2. CASE u # t
        BY <2>2, <1>1, <1>2 DEF AtLevel, Positions, Behind, Within
    <2>. QED
        BY <2>1, <2>2
<1>6. OneOpens(P)'
    BY <1>3 DEF OneOpens
<1>7. Counting(P)'
    <2>1. Counted(P)' = Counted(P)
        BY <1>1, <1>2 DEF Counted
    <2>. QED
        BY <2>1, <1>1, <1>3 DEF AtLevel, Counting
<1>8. Computation(P)' /\ Chunking(P)'
    BY <1>1, <1>2, <1>4, BarrierKeepsWork DEF AtLevel
<1>9. Status(P)'
    BY <1>1, StatusKept DEF AtLevel
<1>. QED
    BY <1>4, <1>5, <1>6, <1>7, <1>8, <1>9 DEF AtLevel

\* A released thread comes to the level, or is done.
LEMMA LeaveStep ==
    ASSUME TypeOK, NEW P \in 1 .. NParts + 1, AtLevel(P), NEW t \in Threads, Leave(t)
    PROVE  TypeOK' /\ AtLevel(P)'
<1>1. /\ pc[t] = "left"
      /\ UNCHANGED <<computed, result, n_barrier, n_barrier_passed, current_chunk, ec>>
      /\ UNCHANGED <<passed_old, chunk>>
    BY DEF Leave, shared
<1>2. at[t] = P - 1 /\ P - 1 # P /\ P - 1 \in 1 .. NParts
    BY <1>1 DEF AtLevel, Positions, Within, Within0, Behind, TypeOK
<1>3. \A u \in Threads : pc[u] \notin {"reset", "pass"}
    BY <1>1, <1>2 DEF AtLevel, OneOpens
<1>4. result = "none"
    BY <1>1 DEF AtLevel, Status
<1>5. CASE (Parts[at[t]].ends /\ ec # "success") \/ at[t] = NParts
    <2>1. Goes(t, "done") /\ UNCHANGED at
        BY <1>5 DEF Leave, Part
    <2>2. /\ \A u \in Threads : u # t => pc'[u] = pc[u]
          /\ pc'[t] = "done"
        BY <2>1 DEF TypeOK, Goes
    <2>3. TypeOK'
        BY <1>1, <2>1 DEF TypeOK, Goes
    <2>4. Positions(P)'
        <3>. SUFFICES ASSUME NEW u \in Threads
                      PROVE  (Behind(P, u) \/ Within(P, u))'
            BY DEF Positions
        <3>1. CASE u = t
            BY <3>1, <1>2, <2>1, <2>2 DEF Behind
        <3>2. CASE u # t
            BY <3>2, <1>1, <2>1, <2>2 DEF AtLevel, Positions, Behind, Within
        <3>. QED
            BY <3>1, <3>2
    <2>5. OneOpens(P)'
        BY <1>3, <2>2 DEF OneOpens
    <2>6. Counting(P)'
        <3>1. Counted(P)' = Counted(P)
            BY <1>2, <2>1, <2>2 DEF Counted
        <3>. QED
            BY <3>1, <1>1, <1>3, <2>2 DEF AtLevel, Counting
    <2>7. Computation(P)' /\ Chunking(P)'
        BY <1>1, <1>2, <2>1, <2>3, BarrierKeepsWork DEF AtLevel
    <2>8. Status(P)'
        <3>1. \A u \in Threads : Began(P, u) => Began(P, u)'
            BY <1>2, <2>1, <2>2 DEF Began
        <3>2. at[t] = NParts \/ ec = "aborted"
            BY <1>5 DEF TypeOK
        <3>3. \A u \in Threads : pc'[u] = "done" => at'[u] = NParts \/ ec' = "aborted"
            BY <3>2, <1>1, <2>1, <2>2 DEF AtLevel, Status
        <3>. QED
            BY <3>1, <3>3, <1>1, <1>4, <2>1 DEF AtLevel, Status
    <2>. QED
        BY <2>3, <2>4, <2>5, <2>6, <2>7, <2>8 DEF AtLevel
<1>6. CASE ~((Parts[at[t]].ends /\ ec # "success") \/ at[t] = NParts)
    <2>1. Goes(t, "work") /\ at' = [at EXCEPT ![t] = at[t] + 1]
        BY <1>6 DEF Leave, Part
    <2>2. at[t] + 1 = P /\ P \in 1 .. NParts
        BY <1>2, <1>6, PartFacts
    <2>3. /\ \A u \in Threads : u # t => pc'[u] = pc[u] /\ at'[u] = at[u]
          /\ pc'[t] = "work" /\ at'[t] = P
        BY <2>1, <2>2 DEF TypeOK, Goes
    <2>4. TypeOK'
        BY <1>1, <2>1, <2>2 DEF TypeOK, Goes
    <2>5. Positions(P)'
        <3>. SUFFICES ASSUME NEW u \in Threads
                      PROVE  (Behind(P, u) \/ Within(P, u))'
            BY DEF Positions
        <3>1. CASE u = t
            BY <3>1, <2>3 DEF Within, Within0, InBarrier
        <3>2. CASE u # t
            BY <3>2, <1>1, <2>3 DEF AtLevel, Positions, Behind, Within
        <3>. QED
            BY <3>1, <3>2
    <2>6. OneOpens(P)'
        BY <1>3, <2>3 DEF OneOpens
    <2>7. Counting(P)'
        <3>1. Counted(P)' = Counted(P)
            BY <1>2, <2>3 DEF Counted
        <3>. QED
            BY <3>1, <1>1, <1>3, <2>3 DEF AtLevel, Counting
    <2>8. Computation(P)' /\ Chunking(P)'
        <3>1. at' = [at EXCEPT ![t] = P]
            BY <2>1, <2>2
        <3>. QED
            BY <3>1, <1>1, <1>2, <2>1, <2>4, BarrierKeepsWork DEF AtLevel
    <2>9. Status(P)'
        <3>1. \A u \in Threads : Began(P, u) => Began(P, u)'
            BY <1>2, <2>3 DEF Began
        <3>2. \A u \in Threads : pc'[u] = "done" => at'[u] = NParts \/ ec' = "aborted"
            BY <1>1, <2>3 DEF AtLevel, Status
        <3>3. ec = "aborted" => P - 1 \notin Aborts
            BY <1>2, <1>6, PartFacts
        <3>. QED
            BY <3>1, <3>2, <3>3, <1>1, <1>4 DEF AtLevel, Status
    <2>. QED
        BY <2>4, <2>5, <2>6, <2>7, <2>8, <2>9 DEF AtLevel
<1>. QED
    BY <1>5, <1>6

\* The status is returned once all threads are done.
LEMMA ReturnStep ==
    ASSUME TypeOK, NEW P \in 1 .. NParts + 1, AtLevel(P), Return
    PROVE  TypeOK' /\ AtLevel(P)'
<1>1. /\ \A t \in Threads : pc[t] = "done"
      /\ result' = ec
      /\ UNCHANGED <<computed, n_barrier, n_barrier_passed, current_chunk, ec>>
      /\ UNCHANGED <<at, pc, passed_old, chunk>>
    BY DEF Return, shared
<1>2. TypeOK'
    BY <1>1 DEF TypeOK
<1>3. Positions(P)' /\ OneOpens(P)'
    BY <1>1 DEF AtLevel, Positions, OneOpens, Behind, Within
<1>4. Counting(P)'
    BY <1>1 DEF AtLevel, Counting, Counted
<1>5. Computation(P)'
    BY <1>1 DEF AtLevel, Computation, Amount, HasDone, Taken, Began, Holds, Pieces, Threads
<1>6. Chunking(P)'
    BY <1>1 DEF AtLevel, Chunking, Began, Holds
<1>7. Status(P)'
    BY <1>1 DEF AtLevel, Status, Began
<1>. QED
    BY <1>2, <1>3, <1>4, <1>5, <1>6, <1>7 DEF AtLevel

-----------------------------------------------------------------------------
(* The invariant.                                                          *)

\* Nothing is computed and all threads are at the first part.
LEMMA InitLevel == Init => IInv
<1>. SUFFICES ASSUME Init PROVE TypeOK /\ AtLevel(1)
    BY PartFacts DEF IInv
<1>. USE DEF Init, OrderInit
<1>1. TypeOK
    <2>1. 1 \in 1 .. NParts /\ 0 \in 0 .. Wrap - 1 /\ 0 \in 0 .. NThreads
        BY PartFacts
    <2>. QED
        BY <2>1 DEF TypeOK
<1>2. Positions(1) /\ OneOpens(1)
    BY DEF Positions, OneOpens, Within, Within0, InBarrier
<1>3. Counting(1)
    <2>1. Counted(1) = {} /\ \A t \in Threads : pc[t] # "pass"
        BY DEF Counted
    <2>. QED
        BY <2>1, FS_EmptySet DEF Counting
<1>4. \A t \in Threads : ~Began(1, t)
    BY DEF Began
<1>5. Parts[1].kind # "chunks"
    BY PartFacts
<1>6. Computation(1)
    <2>. SUFFICES ASSUME NEW s \in 1 .. NParts, NEW p \in Pieces(s)
                  PROVE  computed[<<s, p>>] = Amount(1, s, p)
        BY DEF Computation
    <2>1. computed[<<s, p>>] = 0
        BY WorkPairs
    <2>2. s = 1 => ~HasDone(1, p)
        <3>1. s = 1 => p \in Threads
            BY <1>5, PartFacts DEF Pieces
        <3>. QED
            BY <3>1, <1>4, <1>5 DEF HasDone
    <2>3. ~(s < 1)
        OBVIOUS
    <2>. QED
        BY <2>1, <2>2, <2>3 DEF Amount
<1>7. Chunking(1)
    BY <1>4, <1>5, PartFacts DEF Chunking
<1>8. Status(1)
    BY DEF Status
<1>. QED
    BY <1>1, <1>2, <1>3, <1>6, <1>7, <1>8 DEF AtLevel

\* Every step keeps the invariant; only the barrier changes the level.
LEMMA NextLevel == IInv /\ [Next]_vars => IInv'
<1>. SUFFICES ASSUME TypeOK, NEW P \in 1 .. NParts + 1, AtLevel(P), [Next]_vars
              PROVE  TypeOK' /\ \E Q \in 1 .. NParts + 1 : AtLevel(Q)'
    BY DEF IInv
<1>1. CASE UNCHANGED vars
    <2>1. TypeOK'
        BY <1>1 DEF TypeOK, vars, shared
    <2>2. Positions(P)' /\ OneOpens(P)' /\ Counting(P)'
        BY <1>1 DEF AtLevel, Positions, OneOpens, Counting, Counted, Behind, Within,
                    vars, shared
    <2>3. Computation(P)'
        <3>1. at' = at /\ pc' = pc /\ chunk' = chunk /\ current_chunk' = current_chunk
              /\ computed' = computed
            BY <1>1 DEF vars, shared
        <3>2. \A t : (Began(P, t)' <=> Began(P, t)) /\ \A c : Holds(P, t, c)' <=> Holds(P, t, c)
            BY <3>1 DEF Began, Holds
        <3>3. \A p : HasDone(P, p)' <=> HasDone(P, p)
            <4>. SUFFICES ASSUME NEW p PROVE HasDone(P, p)' <=> HasDone(P, p)
                OBVIOUS
            <4>1. Taken(P, p)' <=> Taken(P, p)
                BY <3>1, <3>2 DEF Taken
            <4>. QED
                BY <3>2, <4>1 DEF HasDone
        <3>. QED
            BY <3>1, <3>3 DEF AtLevel, Computation, Amount
    <2>4. Chunking(P)' /\ Status(P)'
        BY <1>1 DEF AtLevel, Chunking, Status, Began, Holds, vars, shared
    <2>. QED
        BY <2>1, <2>2, <2>3, <2>4 DEF AtLevel
<1>2. CASE Return
    BY <1>2, ReturnStep
<1>3. ASSUME NEW t \in Threads, Step(t)
      PROVE  TypeOK' /\ \E Q \in 1 .. NParts + 1 : AtLevel(Q)'
    <2>1. CASE Own(t)
        BY <2>1, OwnStep
    <2>2. CASE First(t)
        BY <2>2, FirstStep
    <2>3. CASE BeginChunks(t)
        BY <2>3, BeginStep
    <2>4. CASE ComputeChunk(t)
        BY <2>4, ComputeStep
    <2>5. CASE FetchChunk(t)
        BY <2>5, FetchStep
    <2>6. CASE Callback(t)
        BY <2>6, CallbackStep
    <2>7. CASE Arrive(t)
        BY <2>7, ArriveStep
    <2>8. CASE Add(t)
        BY <2>8, AddStep
    <2>9. CASE Reset(t)
        BY <2>9, ResetStep
    <2>10. CASE Pass(t)
        <3>1. P + 1 \in 1 .. NParts + 1
            BY <2>10, PassStep, PartFacts
        <3>. QED
            BY <2>10, <3>1, PassStep
    <2>11. CASE Spin(t)
        BY <2>11, SpinStep
    <2>12. CASE Leave(t)
        BY <2>12, LeaveStep
    <2>. QED
        BY <1>3, <2>1, <2>2, <2>3, <2>4, <2>5, <2>6, <2>7, <2>8, <2>9, <2>10, <2>11, <2>12
        DEF Step, OpenBarrier
<1>. QED
    BY <1>1, <1>2, <1>3 DEF Next

\* The computation is always at one level, where its threads are.
THEOREM Invariance == Spec => []IInv
<1>1. Init => IInv
    BY InitLevel
<1>2. IInv /\ [Next]_vars => IInv'
    BY NextLevel
<1>. QED
    BY <1>1, <1>2, PTL DEF Spec

\* Every variable has its type, for every graph and number of threads: the barrier
\* never counts more threads than there are.
THEOREM TypeCorrect == Spec => []TypeOK
<1>1. IInv => TypeOK
    BY DEF IInv
<1>. QED
    BY <1>1, Invariance, PTL

\* Two threads are never at work in different parts of the graph: what a node reads
\* is not being written, and the barrier can be used again at once.
THEOREM ThreadsApart == Spec => []Apart
<1>1. IInv => Apart
    <2>. SUFFICES ASSUME NEW P \in 1 .. NParts + 1, Positions(P),
                         NEW t \in Threads, pc[t] \in Busy
                  PROVE  at[t] = P
        BY DEF IInv, AtLevel, Apart
    <2>. QED
        BY DEF Positions, Behind, Within, Busy
<1>. QED
    BY <1>1, Invariance, PTL

-----------------------------------------------------------------------------
(* The refinement.                                                         *)

\* A thread at level P that does a piece nobody did makes a step of OrderSpec.
LEMMA PieceStep ==
    ASSUME TypeOK, NEW P \in 1 .. NParts, AtLevel(P),
           NEW t \in Threads, at[t] = P, pc[t] # "done",
           NEW p \in Pieces(P), ~HasDone(P, p), Computed(t, p),
           UNCHANGED result
    PROVE  ComputePiece
<1>1. <<P, p>> \in Work
    BY WorkPairs
<1>2. ASSUME NEW w \in Work
      PROVE  \E s \in 1 .. NParts : \E q \in Pieces(s) :
                w = <<s, q>> /\ w[1] = s /\ computed[w] = Amount(P, s, q)
    BY WorkPairs DEF AtLevel, Computation
<1>3. DoneUpTo(P - 1) /\ NoneAfter(P)
    BY <1>2, PartFacts DEF DoneUpTo, NoneAfter, Amount
<1>4. computed[<<P, p>>] = 0
    BY DEF AtLevel, Computation, Amount
<1>5. computed' = [computed EXCEPT ![<<P, p>>] = 1]
    BY <1>4 DEF Computed
<1>6. result = "none"
    BY DEF AtLevel, Status
<1>7. <<P, p>>[1] = P
    OBVIOUS
<1>. QED
    BY <1>1, <1>3, <1>4, <1>5, <1>6, <1>7 DEF ComputePiece

\* What Return gives back is what was done.
LEMMA ReturnRight ==
    ASSUME TypeOK, NEW P \in 1 .. NParts + 1, AtLevel(P), Return
    PROVE  ReturnStatus
<1>1. /\ result = "none" /\ result' = ec /\ UNCHANGED computed
      /\ \A t \in Threads : pc[t] = "done" /\ at[t] = P - 1 /\ at[t] # P
    BY DEF Return, AtLevel, Positions, Behind, Within, Within0
<1>2. 0 \in Threads /\ P - 1 \in 1 .. NParts
    BY <1>1, PartFacts DEF TypeOK
<1>3. ASSUME NEW w \in Work
      PROVE  \E s \in 1 .. NParts : \E q \in Pieces(s) :
                w = <<s, q>> /\ w[1] = s /\ computed[w] = Amount(P, s, q)
    BY WorkPairs DEF AtLevel, Computation
<1>4. ASSUME P \in 1 .. NParts, NEW q \in Pieces(P)
      PROVE  ~HasDone(P, q)
    <2>1. \A t \in Threads : ~Began(P, t)
        BY <1>1 DEF Began
    <2>2. CASE Parts[P].kind # "chunks"
        BY <1>2, <2>1, <2>2 DEF HasDone, Pieces
    <2>3. CASE Parts[P].kind = "chunks"
        <3>1. current_chunk = NThreads
            BY <1>4, <2>1, <2>3 DEF AtLevel, Chunking
        <3>2. q \in Nat /\ (q < NThreads => q \in Threads)
            BY <1>4, PartFacts DEF Threads
        <3>. QED
            BY <2>1, <2>3, <3>1, <3>2 DEF HasDone, Taken
    <2>. QED
        BY <2>2, <2>3
<1>5. DoneUpTo(P - 1)
    BY <1>3, PartFacts DEF DoneUpTo, Amount
<1>6. NoneAfter(P - 1)
    <2>. SUFFICES ASSUME NEW w \in Work, w[1] > P - 1
                  PROVE  computed[w] = 0
        BY DEF NoneAfter
    <2>1. PICK s \in 1 .. NParts : \E q \in Pieces(s) :
                w = <<s, q>> /\ w[1] = s /\ computed[w] = Amount(P, s, q)
        BY <1>3
    <2>2. PICK q \in Pieces(s) : w[1] = s /\ computed[w] = Amount(P, s, q)
        BY <2>1
    <2>3. ~(s < P)
        BY <2>2, PartFacts
    <2>4. s = P => ~HasDone(P, q)
        BY <1>4
    <2>. QED
        BY <2>2, <2>3, <2>4 DEF Amount
<1>7. CASE ec = "success"
    <2>1. P - 1 = NParts
        BY <1>1, <1>2, <1>7 DEF AtLevel, Status
    <2>. QED
        BY <1>1, <1>5, <1>7, <2>1 DEF ReturnStatus
<1>8. CASE ec = "aborted"
    <2>1. P - 1 \in Aborts
        BY <1>1, <1>2, <1>8 DEF AtLevel, Status, Began
    <2>. QED
        BY <1>1, <1>5, <1>6, <1>8, <2>1 DEF ReturnStatus
<1>. QED
    BY <1>7, <1>8 DEF TypeOK

\* Every step of a thread is one of OrderSpec, or changes nothing of it.
LEMMA StepRefines ==
    ASSUME TypeOK, NEW P \in 1 .. NParts + 1, AtLevel(P), NEW t \in Threads, Step(t)
    PROVE  ComputePiece \/ UNCHANGED <<computed, result>>
<1>1. CASE Own(t)
    <2>1. /\ pc[t] = "work" /\ Computed(t, t) /\ UNCHANGED result
          /\ Parts[at[t]].kind \in {"own", "setup"}
        BY <1>1 DEF Own, Part
    <2>2. at[t] = P /\ P \in 1 .. NParts
        BY <2>1 DEF AtLevel, Positions, Behind, Within, TypeOK
    <2>3. t \in Pieces(P) /\ ~HasDone(P, t)
        BY <2>1, <2>2 DEF Pieces, HasDone, Began
    <2>. QED
        BY <2>1, <2>2, <2>3, PieceStep
<1>2. CASE First(t)
    <2>1. /\ pc[t] = "work" /\ UNCHANGED result
          /\ Parts[at[t]].kind = "first"
        BY <1>2 DEF First, Part
    <2>2. at[t] = P /\ P \in 1 .. NParts
        BY <2>1 DEF AtLevel, Positions, Behind, Within, TypeOK
    <2>3. CASE t = 0
        <3>1. 0 \in Pieces(P) /\ ~HasDone(P, 0)
            BY <2>1, <2>2, <2>3 DEF Pieces, HasDone, Began
        <3>2. Computed(t, 0)
            BY <1>2, <2>3 DEF First
        <3>. QED
            BY <2>1, <2>2, <3>1, <3>2, PieceStep
    <2>4. CASE t # 0
        BY <1>2, <2>4 DEF First
    <2>. QED
        BY <2>3, <2>4
<1>3. CASE ComputeChunk(t)
    <2>. DEFINE own == chunk[t]
    <2>1. /\ pc[t] = "chunk" /\ Computed(t, own) /\ UNCHANGED result
        BY <1>3 DEF ComputeChunk
    <2>2. at[t] = P /\ P \in 1 .. NParts
        BY <2>1 DEF AtLevel, Positions, Behind, Within, TypeOK
    <2>3. Parts[P].kind = "chunks"
        BY <2>1, <2>2 DEF AtLevel, Chunking
    <2>4. own \in Pieces(P)
        BY <2>1, <2>2, <2>3, HeldChunk DEF AtLevel
    <2>5. Holds(P, t, own)
        BY <2>1, <2>2 DEF Holds
    <2>6. ~HasDone(P, own)
        BY <2>3, <2>5 DEF HasDone
    <2>. HIDE DEF own
    <2>. QED
        BY <2>1, <2>2, <2>4, <2>6, PieceStep
<1>4. CASE BeginChunks(t) \/ FetchChunk(t) \/ Callback(t) \/ Arrive(t) \/ Add(t)
    BY <1>4 DEF BeginChunks, FetchChunk, Callback, Arrive, Add
<1>5. CASE OpenBarrier(t) \/ Spin(t) \/ Leave(t)
    BY <1>5 DEF OpenBarrier, Reset, Pass, Spin, Leave
<1>. QED
    BY <1>1, <1>2, <1>3, <1>4, <1>5 DEF Step

\* The threads together compute the nodes in order, each piece once, and the status
\* they return is right: GraphThreads implements OrderSpec.
THEOREM OrderImplemented == Spec => ImplementsOrder
<1>1. Init => OrderInit
    BY DEF Init
<1>2. IInv /\ [Next]_vars => [ComputePiece \/ ReturnStatus]_<<computed, result>>
    <2>. SUFFICES ASSUME TypeOK, NEW P \in 1 .. NParts + 1, AtLevel(P), [Next]_vars
                  PROVE  ComputePiece \/ ReturnStatus \/ UNCHANGED <<computed, result>>
        BY DEF IInv
    <2>1. CASE Return
        BY <2>1, ReturnRight
    <2>2. CASE \E t \in Threads : Step(t)
        BY <2>2, StepRefines
    <2>3. CASE UNCHANGED vars
        BY <2>3 DEF vars
    <2>. QED
        BY <2>1, <2>2, <2>3 DEF Next
<1>. QED
    BY <1>1, <1>2, Invariance, PTL DEF Spec, ImplementsOrder, OrderSpec
=============================================================================
