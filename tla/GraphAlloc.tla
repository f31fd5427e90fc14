----------------------------- MODULE GraphAlloc -----------------------------
(***************************************************************************)
(* ggml_gallocr (ggml/src/ggml-alloc.c): where the tensors of a graph lie  *)
(* in the compute buffers, and what becomes of their data when the graph   *)
(* is computed there.                                                      *)
(*                                                                         *)
(* Tensors that have data of their own (weights, the KV cache) take no     *)
(* part.  A graph is built for a batch; the tensors are in the order in    *)
(* which they are allocated and computed, ggml_backend_sched having added  *)
(* the copies between backends.                                            *)
(***************************************************************************)
EXTENDS FreeBlocks

CONSTANTS
    Buffers,    \* the buffer types
    Models,     \* the graphs of a decode, one for each model
    Shift,      \* the graph that shifts the KV cache
    Batches     \* the batches, 0 when no logits are asked for

\* leaf: an input.  view: a view or a reshape of its source.  plain, inplace: an
\* operation that may not, or may, write over its source.  dep, copy: the view that
\* keeps the source alive, and the copy to another backend that follows it.
Ops == {"leaf", "view", "plain", "inplace", "dep", "copy"}

\* root is the tensor a view is in, 0 for one of its own; a tensor has
\* fixed + per * n units for a batch of n tokens.  A leaf is in a graph because a
\* node reads it, and only its copy, which comes next, reads what a dep stands for.
IsGraph(g) ==
    /\ g # <<>>
    /\ g \in Seq([src : Seq(Nat), op : Ops, root : Nat, out : BOOLEAN, buffer : Buffers,
                  fixed : Nat, per : Nat])
    /\ \A k \in DOMAIN g :
        /\ \A j \in DOMAIN g[k].src :
            /\ g[k].src[j] \in 1 .. k - 1
            /\ g[g[k].src[j]].op # "dep"
        /\ g[k].root \in 0 .. k - 1
        /\ g[k].op \in {"view", "dep"} <=> g[k].root # 0
        /\ g[k].root # 0 => g[g[k].root].root = 0 /\ ~g[k].out
        /\ g[k].op = "leaf" => g[k].src = <<>> /\ \E s \in DOMAIN g : k \in Range(g[s].src)
        /\ g[k].op = "dep" => k < Len(g) /\ g[k + 1].op = "copy"
        /\ g[k].op = "copy" => k > 1 /\ g[k - 1].op = "dep" /\ g[k].src = <<>>

Leafs(g) == {k \in DOMAIN g : g[k].op = "leaf"}

\* Leafs and nodes; two graphs with as many of each are taken for the same.
Counts(g) == <<Cardinality(Leafs(g)), Len(g)>>

ASSUME GraphsAssumption ==
    /\ \A g \in Models \cup {Shift} : IsGraph(g)
    /\ \A g \in Models : Counts(g) # Counts(Shift)

ASSUME BatchesAssumption ==
    /\ Batches \subseteq Nat
    /\ \E n \in Batches : \A m \in Batches : m <= n

SizeOf(g, n, k) == g[k].fixed + g[k].per * n

\* A buffer that is being measured is never full.
ASSUME ArenaAssumption ==
    /\ Arena \in Nat
    /\ \A g \in Models \cup {Shift}, n \in Batches :
        LET own == {k \in DOMAIN g : g[k].root = 0}
        IN  \E largest \in 0 .. Arena :
                /\ \A k \in own : SizeOf(g, n, k) <= largest
                /\ largest * Cardinality(own) < Arena

VARIABLES
    model, graph, batch,
    phase,      \* idle, place, load, compute, done
    next,       \* the tensor that is placed or computed next
    computing,  \* ggml_gallocr_alloc_graph, not only ggml_gallocr_reserve
    alloc,      \* buf_tallocs and hash_values
    assigned,   \* node_allocs and leaf_allocs, with the counts of their graph
    buffer_size,
    mem         \* the tensor whose data each unit of a buffer holds, or 0

vars == <<model, graph, batch, phase, next, computing, alloc, assigned, buffer_size, mem>>

Tensors == DOMAIN graph
Size(k) == SizeOf(graph, batch, k)
IsView(k) == graph[k].root # 0
Root(k) == IF IsView(k) THEN graph[k].root ELSE k

-----------------------------------------------------------------------------
(* Placing a tensor.                                                       *)

\* Mutant of MayReuse: views of the parent are not counted.
MayReuseViewed(a, k, p) ==
    a.allocated[p] /\ ~graph[p].out /\ Size(k) = Size(p) /\ a.children[p] = 1

\* Node k may write over its parent p: it is the last to read it.  A view is never
\* allocated, so its memory is not reused.
MayReuse(a, k, p) ==
    /\ a.allocated[p]
    /\ ~graph[p].out
    /\ Size(k) = Size(p)
    /\ a.children[p] = 1 /\ a.views[p] = 0

Reused(a, k, p) ==
    [a EXCEPT !.allocated = [@ EXCEPT ![k] = TRUE, ![p] = FALSE],
              !.place[k] = a.place[p], !.offset[k] = a.offset[p]]

\* Mutant of Peak: the size of the tensor is forgotten.
PeakOfOffsets(peak, offset, size) == Max({peak, offset})

Peak(peak, offset, size) == Max({peak, offset + size})

\* ggml_dyn_tallocr_alloc
NewPlace(a, k, b) ==
    LET i == BestFit(a.blocks[b], Size(k))
        o == a.blocks[b][i].offset
    IN  [a EXCEPT !.blocks[b] = Taken(@, i, Size(k)),
                  !.max_size[b] = Peak(@, o, Size(k)),
                  !.allocated[k] = TRUE, !.place[k] = b, !.offset[k] = o]

\* ggml_gallocr_allocate_node
Allocated(a, k, b) ==
    LET src == graph[k].src
        may == {j \in DOMAIN src : graph[k].op = "inplace" /\ MayReuse(a, k, src[j])}
    IN  IF a.allocated[k] \/ IsView(k) THEN a
        ELSE IF may # {} THEN Reused(a, k, src[Min(may)])
        ELSE NewPlace(a, k, b)

\* ggml_gallocr_free_node
Freed(a, k) ==
    IF graph[k].out THEN a
    ELSE [a EXCEPT !.blocks[a.place[k]] = GivenBack(@, a.offset[k], Size(k)),
                   !.allocated[k] = FALSE]

FreedIf(a, k) ==
    IF a.children[k] = 0 /\ a.views[k] = 0 /\ a.allocated[k] THEN Freed(a, k) ELSE a

\* A parent has one reader less.
Released(a, p) ==
    LET b == [a EXCEPT !.children[p] = @ - 1]
    IN  IF b.children[p] = 0 /\ b.views[p] = 0 /\ IsView(p)
        THEN FreedIf([b EXCEPT !.views[Root(p)] = @ - 1], Root(p))
        ELSE FreedIf(b, p)

ParentsPlaced(a, k) ==
    LET src == graph[k].src
        x[j \in 0 .. Len(src)] ==
            IF j = 0 THEN a ELSE Allocated(x[j - 1], src[j], graph[k].buffer)
    IN  x[Len(src)]

ParentsReleased(a, k) ==
    LET src == graph[k].src
        x[j \in 0 .. Len(src)] == IF j = 0 THEN a ELSE Released(x[j - 1], src[j])
    IN  x[Len(src)]

\* The turn of node k: its parents are placed, then it, then the parents are released.
Placed(a, k) == ParentsReleased(Allocated(ParentsPlaced(a, k), k, graph[k].buffer), k)

-----------------------------------------------------------------------------
(* The calls.                                                              *)

Idle == phase \in {"idle", "done"}

\* Mutant of Readers: a tensor that is a source twice is counted once.
ReadersOnce(p) == Cardinality({k \in Tensors : \E j \in DOMAIN graph[k].src : graph[k].src[j] = p})

\* The uses of tensors: a node, and which of its sources.
Uses == UNION {{k} \X DOMAIN graph[k].src : k \in Tensors}
Source(e) == graph[e[1]].src[e[2]]

\* How often tensor p is a source.
Readers(p) == Cardinality({e \in Uses : Source(e) = p})

Views(p) == Cardinality({k \in Tensors : graph[k].op = "view" /\ graph[k].root = p})

\* The hash table and the allocators after a reset.
Cleared ==
    [ blocks    |-> [b \in Buffers |-> AllFree],
      max_size  |-> [b \in Buffers |-> 0],
      children  |-> [k \in Tensors |-> 0],
      views     |-> [k \in Tensors |-> 0],
      allocated |-> [k \in Tensors |-> FALSE],
      place     |-> [k \in Tensors |-> graph[k].buffer],
      offset    |-> [k \in Tensors |-> 0] ]

\* The leafs are placed before anything else, apart from each other.
LeafsPlaced(a) ==
    LET x[k \in 0 .. Len(graph)] ==
            IF k = 0 THEN a
            ELSE IF k \in Leafs(graph) THEN Allocated(x[k - 1], k, graph[k].buffer)
                 ELSE x[k - 1]
    IN  x[Len(graph)]

\* What a buffer held before is not used again.
Blank == [u \in Buffers \X (0 .. Arena - 1) |-> 0]

Start(g, n) ==
    /\ graph' = g /\ batch' = n /\ next' = 0
    /\ mem' = Blank
    /\ UNCHANGED <<model, alloc, assigned, buffer_size>>

\* The reserve of the worst case, when a context is made and after a
\* defragmentation.
Reserve ==
    /\ Idle
    /\ Start(model, Max(Batches))
    /\ phase' = "place" /\ computing' = FALSE

\* What nodes write and read must have had as much space in the last reserve.
NeedsRealloc(g, n) ==
    \/ assigned.counts # Counts(g)
    \/ \E k \in DOMAIN g :
        /\ g[k].op # "leaf" \/ \E s \in DOMAIN g : k \in Range(g[s].src)
        /\ g[k].root = 0
        /\ SizeOf(g, n, k) > assigned.at[k].size

\* ggml_gallocr_alloc_graph, for several buffers with the reserve that
\* ggml_backend_sched makes when it is refused.
AllocGraph(g, n) ==
    /\ Idle
    /\ Start(g, n)
    /\ phase' = IF NeedsRealloc(g, n) THEN "place" ELSE "load"
    /\ computing' = TRUE

PlaceLeafs ==
    /\ phase = "place" /\ next = 0
    /\ alloc' = [LeafsPlaced(Cleared) EXCEPT !.children = [k \in Tensors |-> Readers(k)],
                                             !.views = [k \in Tensors |-> Views(k)]]
    /\ next' = 1
    /\ UNCHANGED <<model, graph, batch, phase, computing, assigned, buffer_size, mem>>

PlaceNode ==
    /\ phase = "place" /\ next \in Tensors
    /\ alloc' = IF graph[next].op = "leaf" THEN alloc ELSE Placed(alloc, next)
    /\ next' = next + 1
    /\ UNCHANGED <<model, graph, batch, phase, computing, assigned, buffer_size, mem>>

\* The places are kept, and the buffers grow when they must.
Assign ==
    /\ phase = "place" /\ next > Len(graph)
    /\ assigned' = [ counts |-> Counts(graph),
                     at |-> [k \in Tensors |-> [ place |-> alloc.place[k],
                                                 offset |-> alloc.offset[k],
                                                 size |-> Size(k) ]] ]
    /\ buffer_size' = [b \in Buffers |-> Max({buffer_size[b], alloc.max_size[b]})]
    /\ phase' = IF computing THEN "load" ELSE "idle"
    /\ UNCHANGED <<model, graph, batch, next, computing, alloc, mem>>

-----------------------------------------------------------------------------
(* The computation.                                                        *)

Region(k) ==
    LET w == assigned.at[k]
    IN  {w.place} \X (w.offset .. w.offset + Size(k) - 1)

\* What node k reads; a copy reads what its dep keeps alive.
Reads(k) == Range(IF graph[k].op = "copy" THEN graph[k - 1].src ELSE graph[k].src)

Written(k) == [u \in DOMAIN mem |-> IF u \in Region(k) THEN k ELSE mem[u]]

\* The inputs are set, all before the first node is computed.
Load ==
    /\ phase = "load"
    /\ mem' = [u \in DOMAIN mem |->
                  LET leafs == {k \in Tensors : graph[k].op = "leaf" /\ u \in Region(k)}
                  IN  IF leafs = {} THEN 0 ELSE Max(leafs)]
    /\ phase' = "compute" /\ next' = 1
    /\ UNCHANGED <<model, graph, batch, computing, alloc, assigned, buffer_size>>

\* A view is computed by doing nothing.
Compute ==
    /\ phase = "compute" /\ next \in Tensors
    /\ mem' = IF graph[next].op = "leaf" \/ IsView(next) THEN mem ELSE Written(next)
    /\ next' = next + 1
    /\ phase' = IF next = Len(graph) THEN "done" ELSE phase
    /\ UNCHANGED <<model, graph, batch, computing, alloc, assigned, buffer_size>>

-----------------------------------------------------------------------------

Init ==
    /\ model \in Models
    /\ graph = model
    /\ batch = Max(Batches)
    /\ phase = "idle" /\ next = 0 /\ computing = FALSE
    /\ alloc = Cleared
    /\ assigned = [counts |-> <<0, 0>>, at |-> <<>>]
    /\ buffer_size = [b \in Buffers |-> 0]
    /\ mem = Blank

Next ==
    \/ \E g \in {model, Shift} : \E n \in Batches : AllocGraph(g, n)
    \/ Reserve \/ PlaceLeafs \/ PlaceNode \/ Assign \/ Load \/ Compute

Spec == Init /\ [][Next]_vars

-----------------------------------------------------------------------------
(* Properties.                                                             *)

\* The counts of readers and views of ggml_gallocr_alloc_graph_impl never go below
\* zero, and no block is lost from the lists.
TypeOK ==
    /\ graph \in {model, Shift} /\ batch \in Batches
    /\ phase \in {"idle", "place", "load", "compute", "done"}
    /\ next \in 0 .. Len(graph) + 1 /\ computing \in BOOLEAN
    /\ alloc.children \in [DOMAIN alloc.children -> Nat]
    /\ alloc.views \in [DOMAIN alloc.views -> Nat]
    /\ \A b \in Buffers : Len(alloc.blocks[b]) > 0
    /\ buffer_size \in [Buffers -> 0 .. Arena]
    /\ mem \in [Buffers \X (0 .. Arena - 1) -> 0 .. Len(graph)]

\* While tensors are placed, every unit of a buffer is in exactly one free block or
\* in exactly one tensor that is allocated; without empty tensors the blocks are in
\* order, those that touch are merged, and the last is the rest of the buffer.
Tiled ==
    phase = "place" /\ next > 0 =>
        \A b \in Buffers :
            LET blocks  == alloc.blocks[b]
                own     == {k \in Tensors : alloc.allocated[k] /\ alloc.place[k] = b}
                In(u)   == {k \in own : u \in alloc.offset[k] .. alloc.offset[k] + Size(k) - 1}
                Free(u) == {i \in DOMAIN blocks : u \in blocks[i].offset .. End(blocks[i]) - 1}
            IN  /\ \A u \in 0 .. Arena - 1 : Cardinality(In(u)) + Cardinality(Free(u)) = 1
                /\ (\A k \in Tensors : IsView(k) \/ Size(k) > 0) =>
                    \A i \in 1 .. Len(blocks) - 1 : End(blocks[i]) < blocks[i + 1].offset

\* Whatever batch the places were found for, a node finds in memory what its sources
\* were computed to, and so does the reader of an output or of the last node.
Holds(k) == \A u \in Region(Root(k)) : mem[u] = Root(k)

ReadsRight ==
    /\ phase = "compute" => \A s \in Reads(next) : Holds(s)
    /\ phase = "done" =>
        \A k \in Tensors : graph[k].out \/ k = Len(graph) => Holds(k)

\* Every tensor lies in its buffer, after the graph changed and smaller or larger
\* batches too.
Fits ==
    phase \in {"load", "compute", "done"} =>
        \A k \in Tensors : ~IsView(k) =>
            assigned.at[k].offset + Size(k) <= buffer_size[assigned.at[k].place]

=============================================================================
