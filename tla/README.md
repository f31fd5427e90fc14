# A TLA+ model of the language-model server

The repository is a small Swift shell around a copy of llama.cpp. What runs, and
what can go wrong, is in `src/llama.cpp`: the inference library with its KV
cache (`src/llama.cpp`, `include/llama.h`), the tensor library below it
(`ggml/`), and the HTTP server that lets many clients share one model
(`examples/server/server.cpp`). These modules model the parts whose state is touched by most hands: the KV
cache, which every decode and every cache call edits in place; the server's
queues and slots, which HTTP threads and the main loop work on at the same time;
what a slot believes to be in the cache; and below the library the threads that
compute a graph together and the memory its tensors take turns in.

Line numbers below refer to `src/llama.cpp/src/llama.cpp` (L),
`src/llama.cpp/examples/server/server.cpp` (S), and in `src/llama.cpp/ggml/src`
to `ggml.c` (C), `ggml-alloc.c` (A) and `ggml-backend.c` (B).

## 1. The system

### Components, their state and operations

| Component | State | Operations | Here |
|---|---|---|---|
| KV cache of a transformer (L 2537-2601, 3324-3902) | cells (`pos`, `delta`, `seq_id`), rows of the K and V tensors, `head`, `used`, `has_shift`, `do_defrag` | `clear`, `seq_rm`, `seq_cp`, `seq_keep`, `seq_add`, `seq_div`, `defrag`, `update`, the view | modelled |
| Slot search and defragmentation (L 3587-3634, 15967-16246) | `head`, `n_tested`; `ids`, `n_moves`, the hole at hand | two loops over the cells | modelled turn by turn |
| `llama_decode` (L 15529-15805) | the rest of the batch (`sbatch`), outputs | split into ubatches; update, search, compute, advance | partly |
| State save and restore (L 18400-19370) | a buffer or file | whole state, one sequence | the KV part |
| Task queue and response queue (S 381-622) | `queue_tasks`, deferred tasks, multitasks, `waiting_task_ids`, `queue_results` | `post`, `defer`, `notify_slot_changed`, `send`, `recv`, the main loop | modelled |
| Slots among tasks (S 128-340, 1588-2449) | `state`, `command`, task, prompt, tokens generated | launch, load a prompt, generate, stop, release | modelled |
| Slots and the KV cache (the same functions) | `cache_tokens`, `n_past`, `i_batch`, `system_tokens`, the batch | prompt reuse, truncation, context shift, slot save, restore, erase, system prompt, decode in parts, retry | modelled but for self-extend, embeddings and infill |
| HTTP handlers (S 2695-3310) | one thread per request | register, post, receive, stream, cancel | all that post tasks |
| Threads of a graph (C 2994-3040, 12266-12480, 18774-18900) | `n_barrier`, `n_barrier_passed`, `current_chunk`, `ec`, each thread's node | node loop, barrier, chunks, abort | modelled, without the arithmetic |
| Graph allocator (A 107-910) | free blocks, reference counts, places, buffer sizes | `reserve`, `alloc_graph`, `needs_realloc` | modelled |
| Backend scheduler (B 1200-1830) | splits, copies between backends | split, allocate, compute | the order the splits leave, and their copies |
| Recurrent state cache, RPC, grammar | | | not modelled, see section 6 |
| sampling, tokenizers, model loading, quantization, GPU kernels, argument parsing, other examples, Swift shells | | | not modelled: numeric, sequential input/output, or without state |

### How they interact

An HTTP thread posts tasks and sleeps until a result comes. The main thread
takes the tasks one after the other, gives free slots to completions, and once
per turn of its loop puts one token of every generating slot and as much of the
waiting prompts as fits into one batch, which it hands to `llama_decode`.
`llama_decode` cuts the batch into ubatches; before each it applies pending
K-shifts and a queued defragmentation, then it searches cells for the ubatch.
The slots edit the cache between decodes (common prefixes, context shift, slot
files). The server holds two mutexes, one per queue, and never both, with one
exception: `send` calls `update_multitask` while it holds the results' mutex.

For each ubatch the library builds a graph, the scheduler cuts it into splits,
the allocator finds places for its tensors in the compute buffers, or takes the
places it found for an earlier graph, and the threads of the backend compute
node after node, a barrier behind each.

### What is hard here

* *Bookkeeping spread over many functions.* Seven functions adjust `used` and nine
  `head`; a cell is free for the search when `pos < 0` and for the
  defragmentation when `seq_id` is empty; a shift changes `pos` at once and the
  tensor later.
* *Lazy work.* Deltas and the defragmentation wait for the next decode, with any
  calls in between, a save or a clear included.
* *Failure half-way.* A batch can fail after some of its ubatches were placed, a
  restore after the old contents were removed, a decode with prompts half loaded.
* *Order of steps in different threads.* A result may be sent before anybody
  waits for it, a cancel may overtake or miss its task, several results of one
  stream are queued with those of other clients.
* *Belief and fact.* A slot's `cache_tokens` and `n_past` run ahead of the decodes
  that make them true, and survive calls that empty the cache behind them.
* *Spinning.* Threads meet in a barrier of two counters without a lock, and use
  it again at once; only one of them may decide to abort.
* *Memory used again.* A tensor lies where another was whose last reader is done,
  by reference counts of sources and views, with sizes that differ from batch to batch.
* *Sleeping.* The main thread must keep itself awake with `NEXT_RESPONSE` while
  slots have work; deferred tasks come back only when a slot changes.

The full list, each at its line, is `hazards` in `PROJECT.json`, with the
properties that cover it, or the reason why none does.

### What makes the components correct

* Cache: a bag of entries (token, position, sequences) that every call edits as
  `llama.h` says; rows fit their cells; the counter and the flags are exact; the
  search finds a place exactly when there is one; the assertions hold.
* Restore: what was saved comes back, other sequences are not touched, failure
  leaves a usable cache.
* Server: every request gets exactly one last result, a stream in order; nothing
  is run twice; nothing is forgotten when the main thread sleeps; the server
  comes to rest when the requests are done.
* Slot: the sequence of a working slot holds the system prompt and its `n_past`
  tokens, each position once; `cache_tokens` says what is there; each slot takes its next
  token from its own logits.
* Graph: nodes in order, each piece once, no thread ahead of another; a node
  reads what its sources were computed to; the computation ends.

## 2. Modules

| Module | Models | Corresponds to |
|---|---|---|
| `PosRange` | sequence and range arguments | the first lines of each `seq_*` |
| `KvOps` | every cache operation as an operator from a cache to a cache | L 3324-3902, 15967-16246 |
| `KvCache` | one action per API call, and `llama_decode` a ubatch per step | L 18348-18393, 15529-15805 |
| `KvView` | what `llama_kv_cache_view_update` shows | L 18270-18332 |
| `KvStore` | *abstract*: a bag of entries, no cells | the promises of `llama.h` 618-692 |
| `KvCacheStore` | the refinement mapping from `KvCache` to `KvStore` | |
| `KvLoops` | search and defragmentation, one turn of a loop a step | L 3587-3619, 15967-16096 |
| `KvSession` | `llama_state_*` on top of `KvCache` | L 18500-18963 |
| `TaskServer` | queues, main loop, slots, handlers | S 85-622, 811-2449, 2695-3310 |
| `SlotContext` | slots and their part of the cache, one decode of a part of the batch per step | S 1588-2449 |
| `GraphOrder` | *abstract*: pieces of nodes computed in order, and a status | `ggml.h` 620-640, 2170-2180 |
| `GraphThreads` | threads, barrier, chunks, one access of a shared variable per step | C 2994-3040, 12266-12480, 18774-18900 |
| `FreeBlocks` | the list of free blocks | A 107-297 |
| `GraphAlloc` | placing and computing a graph, one tensor per step | A 475-910, B 1640-1830 |
| `KvOpsProofs`, `KvCacheProofs`, `KvLoopsProofs`, `KvSessionProofs`, `TaskServerProofs`, `SlotContextProofs`, `GraphThreadsProofs`, `GraphAllocProofs` | the TLAPS proofs about these modules (`KvCacheProofs` has those about `KvView` and `KvCacheStore`, too) | |
| `MCKvCache`, `MCKvSession`, `MCTaskServer`, `MCSlotContext`, `MCGraphThreads`, `MCGraphAlloc` | batches, files, requests and graphs for TLC | |

`KvCache`, `KvView`, `KvSession` and `SlotContext` build on `KvOps`; `KvLoops` instantiates the
loops alone and compares them with `KvOps`, so that the other modules may use a
search or a defragmentation as one step. `KvStore` shares only `PosRange` with
the detailed side.

### How state and actions correspond

**Cache.** `kv.pos`, `kv.delta`, `kv.seq_id` are the fields of `llama_kv_cell`.
`kv.tok[i]` and `kv.rot[i]` stand for row *i* of the tensors: the token it was
computed for and the position its K row is rotated to; the real rows are tensors
of floats, of which only this matters here. `Place` is the end of `find_slot`,
`Compute` is the graph's write to the rows and the advance of the head,
`Copied` is `build_defrag`. A call of the API is one step, as the library is used
by one thread; a decode takes a step per ubatch, so that invariants are also
checked between them. `CallSeqAdd` leaves out shifts beyond `MaxPos`, which only
bounds the model. Whether a fragmented cache is queued for defragmentation after
a decode is left open, as the threshold only counts from 128 cells on.

**Loops.** Turns are steps, but the two inner scans that change nothing (the length of a
hole, the cells from the end) are taken as one. `LoopInit` ranges over every
occupation and every head; that used is exact there is what `CounterExact` proves
of the cache.

**Session.** `file` is what `llama_data_write` wrote: rows in cell order, with
sequences for a whole state and without for one sequence. A damaged file throws
at some point of the restore; the outcome is the cache as it was then.

**Server.** Every request is a client with a program counter. `waiting_task_ids`,
`queue_results`, `queue_tasks`, `queue_tasks_deferred`, `queue_multitasks` are the
members of the same name; task ids are the clients, and pairs for the subtasks of
a multi-prompt request, instead of numbers from a counter. `loop` is where the
main thread is: taking tasks, looking for finished multitasks, `update_slots`,
sampling the slots of the batch, waiting. `batch` holds the slots that have a
token to be sampled, in order. `prompt` counts the tokens of a prompt that still
wait for room in a batch. `valid`, `fills`, `leaves` are what may befall a request:
it is refused by `launch_slot_with_task`, the KV cache may be full while it is
worked for, its connection may break.

**Slots and the cache.** The main thread alone touches this state, so that a whole
`update_slots` up to the finished batch is a step (`UpdateSlots`), which follows the
loops of the code over the slots in their order; then each `llama_decode` of a part of
the batch is one (`DecodeOk`, `DecodeRetry`, `DecodeFail`). It is composed of the cache's
operators, whole ubatches included. Tokens are model values, a prompt is what tokenizing gave,
and what the model answers is any token of `Outputs`. `doubt` is not in the code:
it collects, for each slot, the events after which the code itself goes on with a wrong
belief (section 5); the properties speak of slots without doubt, and
loading a prompt from its start, or a new system prompt, ends it. What a context shift discards is
half of the positions behind those to keep, or the `n_discard` of the request, which may be any number. If the
slots of one turn include one for which that is negative or more than its `n_past`, the program is not followed into the shift:
where `resize` throws, `ShiftThrows` ends it, as nothing between the loop and `main` catches that; else
`ShiftStrays` stops the model (`astray`), since the code goes on with negative positions, or past the end
of `cache_tokens`. `Over` is the stuttering of a program that has stopped.

**Graph threads.** `at` and `pc` are a thread's place in `ggml_graph_compute_thread`, `passed_old`
and `chunk` its local variables. A node is one part, or several where its operation has a
barrier inside (`ggml_compute_forward_mul_mat` resets `current_chunk` before one). The
barrier is the one of a build without OpenMP; `n_barrier_passed` wraps around at
`Wrap`, an `int`'s range. Every access of an atomic, and of the plain `ec`, is a step.

**Graph allocator.** A graph is a sequence of tensors in the order of allocation, with their
sources, view roots and sizes for each batch; sizes and offsets count units of
the alignment. `alloc` is the state of `ggml_gallocr` while it places tensors, `assigned` what it keeps.
`mem` is not in the code: it says which tensor's data each unit of a
buffer holds, and turns "no tensor overwrites one still read" into something to check. That the allocator takes no
notice of the batch it found places for is why `graph` and `batch` change between calls.

## 3. Runs

All runs finish within five minutes on two workers.

| Run | Question | Bounds |
|---|---|---|
| `kv_shared` | Is the cache consistent after every sequence of calls and decodes? | 3 cells, 2 sequences, positions 0-1, shifts by 1 and -1, division by 2, ubatches of 2, batches with a shared token, one for both sequences, and of 3 tokens; one block move per defragmentation |
| `kv_store` | Does it implement a bag of entries? | 3 cells, 2 sequences, 2 tokens; one batch of 3 tokens that is cut into two ubatches; shifts by -1 only, as each step is compared with all calls of the store |
| `kv_loops` | Do the loops do what `KvOps` says, and end? | 8 cells, every occupation, every head, 1-9 tokens, 2 block moves |
| `kv_session` | Is what was saved what comes back? | 3 cells, 2 sequences, 4 cache steps between the saves and restores, own files and those of a larger cache |
| `server` | Is every request answered once, and nothing forgotten? | 2 slots, batches of 2 tokens, 5 scenarios of 2 or 3 clients |
| `slot_context` | Is what slots believe to be in the cache there? | 2 slots of 6 tokens, 12 cells, batches of 4 and ubatches of 3; 6 scenarios of up to 3 requests and 3 slot actions, two of them with requests that say how much to discard |
| `graph_threads` | Do the threads compute a graph in order, and end? | 3 threads, 9 parts of every kind, products of 3 and of 12 chunks, a counter of 2 values |
| `graph_alloc` | Does a node find what its sources were computed to? | 5 shapes of graphs on 2 backends, every choice of sizes from 1 or 2 units or tokens, batches of 0, 1 and 2 tokens |
| `session_shift`, `server_erasing`, `server_replacing`, `graph_abort` | four disagreements with comments and documents, see section 5 | as the run they belong to; two threads and two nodes for `graph_abort` |

*Why the bounds are enough.* With three cells there are a hole, a cell behind it
and a head between them; two sequences are needed for sharing, and a third would
only repeat the second; positions 0 and 1 make shifts below zero, divisions that
merge positions and empty ranges happen. No invariant of the cache speaks about more than one
cell and the counters, except through defragmentation and search, which is why these
have a run of their own with eight cells: two holes with different lengths, sources
with gaps and a limit that falls into the middle of a hole all fit there, and a
search can wrap and meet its starting point. The state space of `kv_shared` is
finite because a pending delta cannot grow: positions are bounded, and a delta is the
difference of two of them; no depth is cut off. `kv_session` does cut: at most
`MaxSteps` cache steps, since the file doubles the state. `OthersKept` tests `steps' = steps` first only to save TLC the restores on the steps of the cache. In `server` the
scenarios are chosen so that more tasks than slots, a prompt longer than a batch, a
broken stream, a refused request, an empty prompt, a failing decode, each kind of slot
action and a system prompt meet each other; every request ends after at most two
tokens, the point being the order of steps rather than their number.

In `slot_context` a context of six tokens is cut, shifted and filled by prompts of up to seven
tokens, a batch of four is cut by ubatches of three and by halves, and the cache of
twelve cells is exactly what two slots may need, so that the system prompt makes it too small.
The requests with an `n_discard` are those on both sides of each border: less than what follows the tokens to keep, all of it, one more (which takes from
those to keep), one more than the slot has (with `cache_prompt` and without), and less than none.
`graph_threads` needs three threads: one that opens the barrier, one that
already meets it again, one that still spins in it; two values of the
counter are the fewest that tell two rounds apart, and the theorems cover all others.
`graph_alloc` has the shapes that llama.cpp's graphs are made of (a residual, views of one product,
a view that outlives its source, three values given back out of order, a round trip to another backend); a buffer
of 25 units is never used up, as no more than a dozen are in use at once.

### Properties

* `PosIffSeq`: the two tests for "free" agree. `RotationCoherent`: row plus pending delta is the
  position. `ShiftFlagged`: no delta unannounced, that of an empty cell included.
  `UsedExact`: the counter is right. `ViewContiguous`: the largest gap the view
  shows is exactly what the search can use.
* `ImplementsStore`: no call and no decode loses, doubles or alters an entry
  it is not about, and a decode fails only when the free cells are too few
  or too scattered.
* `NoAssertion`, `DefragRight`, `TokensKept`, `Compacted`, `FoundRight`,
  `NoneRight`, `LoopsEnd`: the loops.
* `RestoredExactly`: the cells of a restored sequence, or of a restored cache, and the saved ones correspond one
  to one. `OthersKept`: no other sequence than the one restored into loses, gains or changes anything.
  `BooksKept`, `RotationKept`: what the cache guarantees survives restores.
* `ContextWhole`, `CacheTokensTrue`, `SystemKept`: what a slot, an idle one included, and the
  system prompt have in the cache is what the code goes by. `RowsSettled`: a slot is
  never saved with a shift pending. `LogitsOwn`: however a batch is cut. `NeverFull`: without
  a system prompt no decode fails.
* `Apart`: no two threads are at work in different parts. `ImplementsOrder`: the
  refinement of `GraphOrder`. `Ends`: the computation ends.
* `Tiled`: each unit of a buffer is in one free block or one tensor. `ReadsRight`:
  no data is overwritten before its last reader. `Fits`: in buffers found for another batch, too.
* `OneAnswer`: while a client waits, each of its tasks is in exactly one queue or slot, or has
  exactly one last result. `OnePlace`, `StreamInOrder`, `NoForgottenWork`; and,
  as liveness, `Answered` and `Settles`.

Each property of a passing run has a mutant in `PROJECT.json`: a definition with
a plausible mistake (a freed cell that is shared, deltas that are not reset, a
task that is requeued twice) under which TLC finds the property violated.

### Fairness

`FairSpec` of `TaskServer` assumes weak fairness of the main loop and of each
client's thread: the operating system runs every thread that can run, and a
sleeping thread is woken, since `post` notifies under the mutex the waiter checks
with (S 400-409, 505-516) and `send` notifies all. Weak fairness is enough as a
step of a thread, once enabled, stays enabled: nobody else takes a client's
result, and only the main thread takes tasks. Nothing is assumed of the model's
output; a generation ends because the budget of tokens does. `LoopSpec` assumes
that the thread in the loop runs. `FairSpec` of `GraphThreads` assumes
weak fairness of each thread: the threads spin instead of sleeping and hold no locks, so that all
that is asked of the operating system is to run each of them again and again.
`KvCache`, `KvSession`, `SlotContext` and `GraphAlloc` are driven by callers, of whom nothing
is assumed; they have no liveness properties.

## 4. Proofs

`KvCacheProofs` proves, for every size of the cache, every set of sequences, every set
of batches, every `NUbatch` and every limit of block moves:

| Theorem | States |
|---|---|
| `Invariance` | `Spec => []IInv` |
| `TypeCorrect` | `Spec => []TypeOK` |
| `PositionIffSequence` | `Spec => []PosIffSeq` |
| `RowsRotated` | `Spec => []RotationCoherent` |
| `ShiftsAnnounced` | `Spec => []ShiftFlagged` |
| `CounterExact` | `Spec => []UsedExact` |
| `HolesFilled` | as many holes below `used` as used cells above it, always |
| `ViewTrue` | `Spec => []ViewContiguous` |
| `StoreImplemented` | `Spec => ImplementsStore` |

`KvSessionProofs` proves, for all states received from elsewhere too, and whatever
circumstances are looked at:

| Theorem | States |
|---|---|
| `SessionSound` | `SessionSpec => []SessionInv` |
| `BooksStayKept` | `SessionSpec => []BooksKept` |
| `RotationStaysKept` | `SessionSpec => []RotationKept` |
| `RestoresExactly` | `SessionSpec => []RestoredExactly` |
| `OthersStayKept` | `SessionSpec => OthersKept` |

`KvLoopsProofs` proves of the two loops, for every size, every occupation,
every head, every number of tokens and every limit of block moves:

| Theorem | States |
|---|---|
| `SearchFinds` | `LoopSpec => []FoundRight` |
| `SearchGivesUp` | `LoopSpec => []NoneRight` |
| `HolesFillable` | `LoopSpec => []NoAssertion` |
| `DefragKeeps` | `LoopSpec => []TokensKept` |
| `DefragCompacts` | `LoopSpec => []Compacted` |
| `DefragIsFormula` | `LoopSpec => []DefragRight` |

`TaskServerProofs` proves, for every number of slots and every size of a batch, all clients and all requests:

| Theorem | States |
|---|---|
| `NothingForgotten` | `Spec => []NoForgottenWork`, if completions ask for slots that exist |
| `TypesKept` | `Spec => []TypeOK` |
| `StreamsInOrder` | `Spec => []StreamInOrder` |
| `PlacesApart` | `Spec => []OnePlace` |
| `EveryTaskAnswered` | `Spec => [](Plain => OneAnswer)` |

`SlotContextProofs` proves, for every number of slots, every size of the cache, of the context, of
batch and ubatch, all requests, and all tokens the model may produce:

| Theorem | States |
|---|---|
| `ContextInvariant` | `Spec => []ContextInv` |
| `ContextTypes` | `Spec => []TypeOK` |
| `ContextIsWhole` | `Spec => []ContextWhole` |
| `CacheTokensAreTrue` | `Spec => []CacheTokensTrue` |
| `SystemIsKept` | `Spec => []SystemKept` |
| `RowsAreSettled` | `Spec => []RowsSettled` |
| `LogitsAreOwn` | `Spec => []LogitsOwn` |
| `CacheNeverFull` | `Spec => NeverFull` |

`GraphThreadsProofs` proves, for every number of threads, every graph, every set of
nodes the callback may abort at, and every range of the barrier's counter:

| Theorem | States |
|---|---|
| `Invariance` | `Spec => []IInv` |
| `TypeCorrect` | `Spec => []TypeOK` |
| `ThreadsApart` | `Spec => []Apart` |
| `OrderImplemented` | `Spec => ImplementsOrder` |

`GraphAllocProofs` proves, for all graphs of all models, every set of batches, all sizes of
tensors and any number of buffers:

| Theorem | States |
|---|---|
| `TypesKept` | `Spec => []TypeOK` |
| `PlacesTiled` | `Spec => []Tiled` |
| `TensorsFit` | `Spec => []Fits` |
| `ReadsSound` | `Spec => []ReadsRight` |

### The cache

*The inductive invariant.* `IInv` says that the cache is `Sound`: it has its
types, and `PosIffSeq`, `RotationCoherent`, `ShiftFlagged` and the range of the
head hold of it. None of the middle three is inductive by itself.
`RotationCoherent` says nothing of empty cells, but a cell that gets a token keeps
the delta of its former one: a decode keeps `RotationCoherent` only because `ApplyShift` runs before
the placement and makes every delta zero, which it does only when
`has_shift` is set for every nonzero delta (`ShiftFlagged`). That the placed cells
are really empty, so that no sequence sees a foreign row, needs
`PosIffSeq`, as the search tests `pos` and the placement adds to `seq_id`. And the search stays
in the cells only while the head is at most `Size`, which a failed search
may reach.

*The argument.* One lemma per operator of `KvOps` (`ClearKeeps`, `SeqRmKeeps`, ...,
`DefragKeeps`, `PlacedKeeps`) says that it `Keeps` the `Shape` of a cache, and each of
`PosIffSeq` and `RotationCoherent` if it held before: part by part, as a restore may end one
and not the other. `StepKeeps` puts them together, one step per action, and the theorems follow by
`PTL`. The assumptions are those `KvOps` and `KvCache` state of their constants: `Size`,
`NUbatch` and `MaxMoves` are positive, sequence ids are natural numbers, batches are
nonempty sequences of entries with nonnegative positions and at least one
sequence, shifts are not zero and divisors at least two (the API returns early
otherwise).

*Counting.* `UsedExact` is inductive together with `IInv`. Each operator that frees cells
counts off those that were used and are not any more (`ExactLess`; a partial removal
that leaves a sequence in the cell is not among them); a placed ubatch is counted as
a whole, which is right as all its cells were free (`ExactMore`, and `PosIffSeq` for the search's test);
a defragmentation keeps the number since its moves are one to one from the used cells above
`used` to the holes below (`MoveOneToOne`, `FS_Bijection`). That there are equally many of both,
`HolesMatch`, follows from the counter alone, and is what the code asserts as `nf == nh`.

*The store.* A used cell is a copy of its entry, and every step of the cache gives the used
cells after it one by one to copies the abstract step leaves (`EditedContents`): a call edits each cell as
`KvStore` edits an entry (`SeqRmStore`, ..., one lemma per call), a defragmentation permutes the used
cells (`PermutedContents`), a shift or a moved head keeps them. A decode adds the copies of its
ubatch (`PlacedContents`), as its cells were free, and has the `Capacity` for them; that one which finds
no slot may fail in the store, too, needs that cells without enough room in a row
are used or scattered (`NoSlotFew`). The counts are those of `CounterExact`, so that the mapping rests on `CountInv`.

### Sessions

`SessionInv` keeps the `Shape` of the cache in all circumstances, `PosIffSeq` and `UsedExact` unless a file
is damaged, `RotationCoherent` unless a shift may be pending, too. It says the same
of the file: a whole state has no cell without sequences, since otherwise the restored cell would have a position and
nobody to see it; and its rows stand at their positions, which holds of what is saved as `Ready` excludes a
pending shift (`ReadySettled`: then `ShiftFlagged` makes every delta zero). The cells of a restored sequence are
those placed and nothing else, since `dest` was removed from all others before
(`SeqRestored`); of a whole state they are the first ones (`AllRestored`). `RankReached` says that a save
writes as many rows as there are cells. `OthersKept` needs that the placement is in cells that were free, once more
`Held`, the half of `PosIffSeq` that a damaged file leaves intact.

The assumptions added are that there is a sequence (`n_seq_max` is at least 1), and that the
states received from elsewhere are such as a cache writes: used cells, no shift pending.

### The loops

*The search* makes up to three passes, and `SearchInv` says of each what is known. In the first,
from the head it began with, `n_tested` is the way gone, and no place on it fits. In the second,
from the start, no place from the old head on and none before the new one fits, and `n_tested` counts both
ways. A third begins where the second meets the end of the cache before enough cells are
counted; by then no place at all fits, and it ends at the first occupied cell. That this
is where `HeadAfterMiss` says needs `MetBusy`: the search goes on behind every occupied cell it meets, so the
first of them that may end the second pass is the one that does. `FoundRight` and `NoneRight` follow with
`LeastIsLeast`.

*The defragmentation* keeps `Front`: before it all cells are used, and from it on nothing has
happened but moves away, so that a used cell there still holds its own token (`Behind`). `pos` tells
where the token of a cell came from, `ids` where it went, and `Kept` says that they are inverse; rows
copied by `ids` therefore follow their tokens, wherever `max_moves` stops the loop. That a hole
always finds its fillers is `HolesMatch`, which is `UsedExact` counted twice; while it is filled,
the used cells from `i1` on are as many as the places left, so `i1` stays in the cache. The one assumption
besides those of `KvOps` is that there is a sequence, as otherwise no cell could be used.

*The formula.* `Defrag` numbers holes and movable cells and makes all moves at once; `FormulaInv` says
that `ids` is the part of its assignment that is done (`Sent`), that the metadata is carried by just that
part (`CarriedTo`) and the rows are untouched, and that `n_moves` counts the blocks begun before `Front`.
That the next cell is the formula's (`FillOrder`) needs two facts that are not about the numbers: between
holes the cells that are gone are the last of the movable ones, and while a hole is filled those that were
gone before lie behind `i1`, as many as there were holes to fill (`Within`). `BlockAt` shows that `cont` is
false exactly where the formula begins a block; as the loop only looks at `max_moves` behind a block or
at the end of a hole, and either way the next place would begin one, it stops where the formula does
(`WithinMoves`, `BeyondMoves`). Since the proofs about the cache take the defragmentation as `Defrag`, this
theorem is what ties them to the loop in the code.

### The server

*Work.* `WorkInv` says that a task is deferred only while some slot is busy (`Waiting`) and that
the loop decodes, or sleeps beside a busy slot, only with a task in the queue (`Awake`). Slots become
free in one place, `Released`, and there the deferred tasks come back in the same step; a
prompt that is looked at leaves its slot busy (`LoadedKeeps`), even an empty one, which is
released in the next turn. `Waiting` is false for a completion that asks for a slot that does not exist:
such a task waits for nobody (section 5), which is why the theorem has a hypothesis.

*Places.* `PlaceInv` says of each task id that it is at most once in each queue and among the
slots that work, in one of these at most, and in none before its client has posted it. The last part is
what makes the posting of a task keep the rest; it needs that the ids of subtasks differ from those of tasks
(`PairsAssumption`: in the code both come from one counter). The functions over slots and
prompts that only decide how far a prompt gets need not be expanded: whatever they
yield, a slot that does not work for a task does not begin to.

*Types.* `TypeInv` adds to `TypeOK` that open multitasks name subtasks that were posted, and that the loop stops only while it
decodes. The functions that go over the slots one after the other (`Placed`, `Released`, the loading of prompts) are
recursive; `LoopHasValues` and `SlotInduction` say what one of them is at each slot,
by an induction over the numbers 0 to `NSlots` written as a least counterexample, since the library's
induction rule cannot be instantiated.

*Ownership.* `OwnInv` says whose everything is: each task, slot, multitask and result belongs to a client who has posted
it; a client that waits is `Registered` for what it waits for, and is so from before its first task is
posted; the slots of a batch are the ones that go on.

*Order.* `OrderInv` follows a stream along its way. Until its task has a slot a client has nothing;
then what it got (`Got`) and what is queued for it (`Told`) together are the tokens 1 to `n_decoded`, in order, and the
final result stands behind all of them, after which no slot works for it. That is why `recv`, which takes the first
fitting result from the front (S 578-589), cannot overtake. It rests on `OnePlace`: with a task in two slots
two counters would feed one stream.

*Answers.* `AnswerInv` says `AllAnswered`: a single task in progress is in one of its places or has
its last result queued (`SingleAnswered`); an open multitask waits exactly for the subtasks that are still to be posted or in
a place, and a closed one has been answered once (`MultiAnswered`). The theorem is of states that are
`Plain`: no stream has several prompts, and a completion that brings a system prompt is alone. Without
these the statement is false of the code, as the second, third and last items of section 5's reading show (S 534-542, 1175-1178), or `server_replacing`
by a run; where the decoding may fail for good (S 2360-2365), `OneAnswer` itself makes no claim. All scenarios of
`MCServer` are `Plain`.

### The slots and the cache

*The inductive invariant.* The properties speak of cells between two `update_slots`; within one, part of what a
slot has is still in the batch. `Content` puts both together: a set of items, each with a place, a position
and a token, the slot's cells (`Held`) and the entries of the batch that are to become cells of it
(`Waiting`). `Believed` says of this set what the code goes by: the system prompt's
tokens are in it (`SystemIn`), those of `cache_tokens` at their positions (`TokensIn`), of a slot at work each position
below `n_past` once and no other (`WholeIn`); without a system prompt no position is there
twice or beyond the context (`TightIn`). What `doubt` has of the slot is left out. `ContextInv` says this
of every slot, in the loop of decodes as well, with what it needs:

- `Sound` of the cache, much as in `KvCacheProofs`; and `Unshared`: without a
  system prompt a cell belongs to one slot, so that a shift or removal for one does not meet another's.
- `WorkGood` of the loop of decodes, and that a program that has stopped has a slot with an `n_discard` that is
  negative or above its `n_past` (`Unfit`).
- `SlotGood` of the slots: which states and commands meet; that `cache_tokens` is as long as `n_past`
  with `cache_prompt`, which a context shift, changing both apart, rests on; and `TurnGood`, the part of `LogitsOwn` that
  holds only while the entry is not decoded yet.
- `SysGood`: the system prompt is shorter than half the context, and the one in force unless an update is due.
- `FileGood`: the rows of the slot file, as a set of items, are what the tokens saved with them say.

*The argument.* What is said of a content does not depend on the places of its items, so it is kept by whatever carries
them one to one elsewhere (`Carried`, `CarriedTrue`): a decode takes the first entries that wait to
cells that were empty (`DecodedContent`), a slot file takes cells to rows (`SavedHeld`) and rows to cells
(`RestoredHeld`). The other calls change the set in one of three ways: what is behind a position
goes (`Below`), a part goes and what is behind moves up (`MovedUp`), items come behind the last (`Grown`,
`MoreWaiting`). The cache's side of each is a lemma about the operator of `KvOps` (`Removed`, `Added`, `CopiedCells`,
`PlacedCells`, ...); `Decode`, for any batch, by a loop over its ubatches (`DecodeGood`).

`update_slots` is one step that runs three loops over the slots; `TaskWorld`, `ShiftStage`, `SampleStage` and
`LoadStage` say what holds before each of them and in the middle of it. Beside the slots they follow
two things. A slot has room for the next token when the shifts are done. And a shift that is pending
means work, which will end in a decode that applies it: this is why no slot is ever saved with one
(`RowsAreSettled`), though shifts are lazy. `RemovedHeld` shows that what is removed behind `n_past`
is what the truncated `cache_tokens` no longer claim; `ShiftNumbers` that half of what follows the tokens to keep is
never more than the slot has, for which the system prompt must be shorter than half the
context. So only an `n_discard` of the request can be too much (`StraysUnfit`), and in the turns that are
followed every shift takes between one token and all the slot has (`ShiftStage`); this is enough
for the room of a slot (`NeverFull`) and for the lengths of `cache_tokens`. That the slot's cells are
what a shift should leave (`ShiftedCells`, `ShiftedWhole`) needs more, that no more is discarded than follows the
tokens to keep; otherwise these stay in the cache at and beyond the new `n_past`, and the slot is in doubt.

*The cache is large enough* because each slot has at most `NCtx - 1` positions, none of them twice, and each
cell is one slot's: `NotCrowded` counts slots and positions against cells (`FS_Injection`), and
`NSlots * NCtx <= Size`, as the code divides the context among the slots. A decode that gives up
was one for a single token (`CanRetry`), and that fails only in a full cache (`MissedHead`).

The assumptions are those of `SlotContext`. `CtxAssumption` is the division of the context. `BatchAssumption` is what
`llama_new_context_with_model` enforces (L 17573-17583). `ModelAssumption`: the model produces tokens of its vocabulary, and a BOS token
is added or not. `ScenariosAssumption` gives the types of requests. `ZeroAssumption` and
`SysPromptsAssumption` leave out a token 0 in prompts and system prompts of half the context: of these the
properties are false, as section 5 says. The loops are recursive functions; `ShiftedLoop` and the like say
that they have the values their bodies compute.

### The threads

*The inductive invariant.* A state has a level `P`: the part that is worked on, or one
more than the last. Every thread is `Within` it, or `Behind`: released from
the barrier before it, but not yet out of its spinning loop or the reading of `ec`. What a thread saw of
`n_barrier_passed` tells the two apart: within, it is the present value; behind, the value
before. `OneOpens` says that the thread that opens the barrier has all others spinning in it, at
this level; `Counting` that `n_barrier` is the number of those who arrived; so nobody
can be a whole round ahead, which is why a counter of two values is enough. `Chunking` says that
the chunks below `current_chunk` have been given to one thread each, `Computation` which
pieces are done, `Status` that an abort is of this level or, when all stop, of the one before.

*The argument.* Each step but one leaves the level alone; `Pass`, the step that opens
the barrier, makes it `P + 1`, where every thread is behind. `Counting` at the step `Add` needs that all but one thread are
counted exactly when all others are spinning (`FiniteSetTheorems`). The refinement
follows from the same invariant: `Computation` gives `DoneUpTo(P - 1)` and `NoneAfter(P)`
at each step that computes a piece, and `Chunking` that the piece has not been done.

The assumptions are those of `GraphOrder` and `GraphThreads`: at least one thread; the last part
ends its node; a part of chunks follows the part that sets up its counter and has as many
chunks as threads, or at least four times as many (the code's choice at C 12411-12432, of which the proofs need less);
the counter has at least two values.

### The allocator

*The inductive invariant.* That a node reads what its sources were computed to is decided long
before, while places are looked for, so the invariant has two halves, joined by what is kept in
between. While places are looked for, `Planned(alloc, m)` says of the tensors `D` placed before
node `m`:

- `TileInv`: units of a buffer are in one free block or one allocated tensor; blocks are inside
  the arena, in order and merged if no tensor is empty; every tensor of `D` lies below `max_size`;
  and some block begins at or before `Largest * |D|` and ends where the arena ends, which is why a
  block is always found.
- `CountInv`: `n_children` is the number of uses still to come, `n_views` the number of views with
  uses to come. A view that is never read is counted for ever, so its source is never given back.
- `KeptInv`: what is an output, or has uses or live views left, is allocated.
- `ApartInv`: of two tensors of `D` that clash, that is, share a unit, not both are leafs, and the
  one that is there first is not `Needed` after the other is computed. Clashes with tensors that
  were given back are allowed, so this is about the whole history, which the free blocks have
  forgotten.

In the middle of a turn, when `j` sources are released, `Releasing(alloc, m, j)` says the same
with the uses that are left then. `Assign` copies the places, and `AssignedInv` says the same of
`assigned` for the graph with these counts: `ApartInv`, and that a tensor lies in its buffer with
the size it had then. `Ready` is what `NeedsRealloc` leaves: no tensor is larger now. During the
computation, `InMemory(m)` says that of the tensors before `m` those still `Needed` are in memory.

*The argument.* `TakenBlock` and `GivenBackBlock` state what `ggml_dyn_tallocr_alloc` and
`ggml_dyn_tallocr_free_tensor` do to the set of free units, one lemma for each case of merging. A
node that is placed in a free block clashes with nothing allocated, and by `KeptInv` all that is
needed is allocated; one that reuses its parent clashes with what that parent clashed with, and
`LastReader` shows from `CountInv` that the parent is not needed any more: this is where the tests
`n_children == 1` and `n_views == 0` and the flag of an output are used. `OneReaderLess` follows a
use that is released through the counts, those of the viewed tensor included. In the computation,
a node writes only over what `ApartInv` says is no longer needed. The loops over sources and leafs
are recursive functions; `LoopHasValues` shows that they have the values their bodies compute.

The assumptions are those of `GraphAlloc`. `GraphsAssumption`: a tensor's sources come before it,
a view is of a tensor of its own and no output, a leaf is in the graph because a node reads it, a
copy follows its dependency, and the graph of a shift differs in its number of nodes or leafs (see
section 5). `BatchesAssumption`: there is a largest batch. `ArenaAssumption`: a measured buffer is
never full, which the code gets by measuring in one of `SIZE_MAX/2` (A 295).

### What is only model-checked

Liveness (`Answered`, `Settles`, `LoopsEnd`, `Ends`) is out of reach of the prover. Every invariant, action property
and refinement that a passing run checks is the subject of a theorem, `NoForgottenWork` and `OneAnswer` with
the hypotheses named above. The properties of the runs that expect a violation are false.

## 5. Where code and documents disagree

Shown by a run:

1. `session_shift`. A state saved while a shift is pending holds new positions
   with old rows (L 18500-18601), and a restored cell keeps the delta that is in it
   (L 18734-18817). Calling `llama_kv_cache_update` before saving and before restoring avoids both;
   `Ready` does that in the passing run.
2. `server_erasing`. Slot actions and LoRA scales are posted before their handler
   registers for the result (S 2852-2853, 2882-2883, 2902-2903, 3302-3303), and `send`
   drops results nobody waits for.
3. `server_replacing`. A completion that brings a system prompt releases all
   slots (S 1175-1178); whoever they worked for gets no result.
4. `graph_abort`. Thread 0 may set `ec` for the next node before a slow thread has read it
   after the last one (C 18795-18803); that thread leaves, and the others wait for it in
   the barrier for ever. `graph_threads` lets the callback abort only at nodes with a
   barrier inside, where all threads have read `ec` before it can change.

Read in the code, without a run:

* The saved state of an empty sequence cannot be restored: the assertions at L 18768-18771
  fail, where `llama.h` 767-770 promises zero or a positive number (`RestoreSeqEmpty`).
* The cache is cleared for a new system prompt and after the warm-up (S 1127), and the slots keep their
  `cache_tokens`, which the next request trusts (S 2162). *doubt: cells*
* The context shift counts positions from 0, the shared system prompt's included
  (S 1947-1964): it discards the prompt for the slot, or moves it for all. With a system prompt
  of half the context it discards more than the slot has, and `n_past` becomes negative;
  `SysPromptsAssumption` leaves such prompts out. *doubt: system*
* The size of a context shift is the request's `n_discard`, which nobody checks (S 929, 1949), though the field's comment speaks of
  "tokens after n_keep" (S 119). If it is more than what follows the tokens to keep, these stay in
  their cells while `n_past` drops below them, and the next tokens get positions that are taken. *doubt: cells*
  If it is more than the slot has, and `cache_prompt` is set, the size given to `resize` wraps around (S 1971); what
  `resize` throws is caught nowhere on the way to `main` (S 464-520, 3451), and the server ends (`ShiftThrows`). Without
  `cache_prompt` `n_past` becomes negative, and with a negative `n_discard` the copying loop writes beyond the end of
  `cache_tokens` (S 1967-1969); `ShiftStrays` stops the model there.
* Erasing a slot, or failing to restore one, removes the system prompt from its sequence
  (S 1838, 1803); restoring a file brings the prompt back that was in force when it was saved. *doubt: system*
* The retry with half the batch (S 2369) decodes ubatches again that were placed. *doubt: cells*
* A failed decode leaves tokens in `cache_tokens` that were never computed (S 2000, 2252). *doubt: cells*
* With `cache_prompt` off and a prompt longer than the batch, `resize` (S 2223) fills
  `cache_tokens` with the token 0; a prompt that holds this token would find it.
  `CacheTokensTrue` leaves it out, and `ZeroAssumption` says that prompts do.
* Cutting a long prompt does not count the system prompt (S 2119-2151), and a failing decode
  of the system prompt clears the cache of all at every turn (S 1149-1153).
* Freeing a tensor without elements inside a larger free block puts an empty block there, after
  which the list is no longer in order and blocks that touch stay apart (A 242-288); memory
  is lost, but nothing is placed wrongly, which `Tiled` checks.
* A graph with as many nodes and leafs as the last, of the same sizes, is computed at the
  other's places, whatever its shape (A 837-857); `GraphsAssumption` says that llama.cpp's graphs differ there.
* `view_update` adds the pending delta to a position that holds it already (L 18293).
* A truncated whole state throws past the clean-up and leaves `used` wrong (L 18949-18963);
  `RestoreAllThrows` models it, and `BooksKept` leaves damaged files out.
* A completion for a slot that does not exist is deferred for ever (S 1596-1612).
* A cancel is lost when its task is queued, deferred or loading its prompt
  (S 1642-1651, 245-250). `CancelSlot` models this; `Settles` holds all the same, since
  the task is then worked off.
* Results of a client that has left stay in the queue, and every other `recv`
  then spins instead of sleeping (S 578-589).
* A stream with several prompts ends after the first partial result (S 534-542, 604-611).
* `n_predict` = 0 generates a token (server `README.md` 423): the budget is tested after it.
* When `llama_decode` fails for good, every slot gets an error, idle ones too,
  with the ids of tasks they have done (S 2360-2365); `OneAnswer` and
  `StreamInOrder` leave these runs out (`MayFail`), `Answered` does not.

## 6. Not modelled, and why

*Recurrent caches.* `tail` and `src` are a second data structure behind the same calls, used by Mamba and
RWKV models only. *Self-extend* (`ga_n` > 1) excludes prompt reuse by an assertion (S 2159) and does
its own arithmetic of positions. *Embeddings, infill, `cont_batching` off*: variants of the same loop
with less state. *Pipelined copies of the scheduler* (`n_copies` > 1) need devices with events;
its choice of backends is a heuristic over what the devices support. *The RPC backend* answers one request
at a time. *Grammar stacks*: sequential, over texts, and tested. `terminate()` of the server's queue is reachable
only from the signal handler, which is installed after the loop has ended (S 3446-3463).
What the slots do after a context shift whose `n_discard` is negative or more than the slot has (`astray`, section 2).
Cells that are copied by one defragmentation are copied at once: their sources lie at or behind `n_used` and the places they go to
before it. Of the test whether a tensor may be placed in its parent's memory, `MayReuse` has the equal sizes, which stand for the equal layout the code asks for
(A 502); `AllocGraph` leaves out a graph whose tensors changed backends, which is reserved anew (B 1712-1731), and a buffer that the
device refuses to allocate (A 771), which ends the computation with an error.
Task ids as machine integers. Builds with OpenMP, whose barrier is the compiler's.

Floating-point work (sampling, kernels), text processing
(tokenizers, JSON, chat templates), model files, command lines, vendored code and the Swift shells:
either they keep no state or their state is not one TLC could enumerate. They are most of the
repository's lines: the kernels and quantization tables of `ggml`, the GPU backends, vendored headers and Unicode tables
alone are more than half of them.

## 7. How to run

In this directory, `tlc -config X.cfg M` for each row of `runs` in `PROJECT.json`, and
`tlapm M.tla` for the modules of proofs. `PROJECT.json` lists, for each definition that models
code, its lines, and for each property a mutant under which TLC finds it violated.
