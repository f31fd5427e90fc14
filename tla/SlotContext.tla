---------------------------- MODULE SlotContext ----------------------------
(***************************************************************************)
(* What a slot of the server (examples/server/server.cpp) believes about   *)
(* the KV cache: cache_tokens, n_past and system_tokens against the cells  *)
(* of its sequence.  Slot s works in sequence s + 1; sequence 0 holds the  *)
(* system prompt, whose cells every sequence shares.                       *)
(*                                                                         *)
(* The main thread alone touches this state.  update_slots is one step up  *)
(* to the finished batch, then each llama_decode of a part of the batch is *)
(* a step; tasks come in between two update_slots.  A prompt is what       *)
(* tokenizing gave.  Self-extend, embeddings and infill are left out.      *)
(***************************************************************************)
EXTENDS KvOps, SequencesExt

CONSTANTS
    NSlots,      \* params.n_parallel
    NCtx,        \* n_ctx_slot: the context of one slot
    NBatch,      \* llama_n_batch
    NUbatch,     \* llama_n_ubatch
    AddBos,      \* add_bos_token as 0 or 1
    Zero,        \* the token 0, which vector::resize fills up with
    Outputs,     \* the tokens the model may produce
    Scenarios    \* what clients do: see scene

Slots == 0 .. NSlots - 1

ASSUME SlotsAssumption == NSlots \in Nat \ {0} /\ Seqs = 0 .. NSlots
\* n_ctx_slot = n_ctx / n_parallel
ASSUME CtxAssumption == NCtx \in Nat /\ NCtx > 4 /\ NSlots * NCtx <= Size
ASSUME BatchAssumption == NBatch \in Nat \ {0} /\ NUbatch \in 1 .. NBatch
ASSUME ModelAssumption == AddBos \in {0, 1} /\ Outputs \subseteq Tokens

\* What a client may ask for: numbers are taken as they come.
Requests == [ prompt : Seq(Tokens), cache_prompt : BOOLEAN, n_keep : Int, n_discard : Int,
              n_predict : Int, sys : SUBSET Seq(Tokens) ]

ASSUME ScenariosAssumption ==
    Scenarios \subseteq [ sys : Seq(Tokens), requests : SUBSET Requests, tasks : Nat,
                         actions : Nat ]

\* No prompt holds the token 0.
ASSUME ZeroAssumption ==
    /\ Zero \in Tokens
    /\ \A c \in Scenarios : \A r \in c.requests : \A i \in DOMAIN r.prompt :
            r.prompt[i] # Zero

\* A system prompt of half the context makes a context shift discard more than
\* the slot has, and n_past negative.
ASSUME SysPromptsAssumption ==
    \A c \in Scenarios : \A p \in {c.sys} \cup UNION {r.sys : r \in c.requests} :
        2 * Len(p) < NCtx

VARIABLES
    kv,     \* the cache
    sys,    \* the system prompt wanted, its tokens, whether an update is due, and
            \* clean_kv_cache
    slots,  \* the slots
    batch,  \* the batch being decoded
    work,   \* the part of it at hand: where it begins, and n_batch
    pc,     \* "tasks" between two update_slots, "decode" in the loop of decodes, "ended"
            \* and "astray" when a context shift went wrong, see ShiftThrows
    file,   \* the slot file saved last: a set of at most one
    doubt,  \* the slots whose belief an earlier event spoilt, see below
    scene   \* the system prompt the server starts with, the requests clients may
            \* make, and how many of these, and of slot actions, are to come

vars == <<kv, sys, slots, batch, work, pc, file, doubt, scene>>

(***************************************************************************)
(* doubt names events after which the code goes on with a wrong belief;    *)
(* section 5 of the README describes each.                                 *)
(*   "system": the system prompt's cells are not, or not all, in the       *)
(*     slot's sequence, or have moved.                                     *)
(*   "cells": cells of the slot's own tokens are missing, or some position *)
(*     is doubled or about to be.                                          *)
(***************************************************************************)
Doubts == {"system", "cells"}

IdleSlot ==
    [ state |-> "IDLE", command |-> "NONE", request |-> <<>>, cached |-> FALSE,
      n_keep |-> 0, n_discard |-> 0, n_predict |-> 0, prompt |-> <<>>,
      cache_tokens |-> <<>>, n_past |-> 0, n_decoded |-> 0, sampled |-> NoToken,
      i_batch |-> -1 ]

Init ==
    /\ kv = InitCache
    /\ scene \in Scenarios
    /\ sys = [ prompt |-> scene.sys, tokens |-> <<>>, need |-> scene.sys # <<>>,
               clean |-> TRUE ]
    /\ slots = [s \in Slots |-> IdleSlot]
    /\ batch = <<>>
    /\ work = [at |-> 0, n |-> NBatch]
    /\ pc = "tasks"
    /\ file = {}
    /\ doubt = [s \in Slots |-> {}]

Available(x) == x.state = "IDLE" /\ x.command = "NONE"
Loading(x) == x.state = "IDLE" /\ x.command = "LOAD_PROMPT"
Processing(x) == Loading(x) \/ x.state = "PROCESSING"

Released(x) == IF x.state = "PROCESSING" THEN [x EXCEPT !.command = "RELEASE"] ELSE x

-----------------------------------------------------------------------------
(* llama_decode of a sequence of tokens.                                   *)

Parts(s, n) ==
    [j \in 1 .. (Len(s) + n - 1) \div n |->
        SubSeq(s, (j - 1) * n + 1, IF j * n < Len(s) THEN j * n ELSE Len(s))]

\* Mutant of Prepared: a pending shift waits for the next llama_kv_cache_update.
PreparedLater(k, n) == [k EXCEPT !.head = IF @ > k.used + 2 * n THEN 0 ELSE @]

\* The cache a ubatch of n tokens is placed in.
Prepared(k, n) ==
    LET u == Update(k)
    IN  [u EXCEPT !.head = IF @ > u.used + 2 * n THEN 0 ELSE @]

\* One ubatch after the other, until one finds no place; what was placed stays.
DecodeUbatch(d, ubatch) ==
    LET n == Len(ubatch)
        k == Prepared(d.kv, n)
    IN  IF ~d.ok THEN d
        ELSE IF CanPlace(k, n)
        THEN [d EXCEPT !.kv = Compute(Place(k, ubatch, FindSlot(k, n)), ubatch),
                       !.placed = @ + n]
        ELSE [d EXCEPT !.kv = [k EXCEPT !.head = HeadAfterMiss(k, n)], !.ok = FALSE]

Decode(k, tokens) ==
    LET parts == Parts(tokens, NUbatch)
        done[j \in 0 .. Len(parts)] ==
            IF j = 0 THEN [kv |-> k, ok |-> TRUE, placed |-> 0]
            ELSE DecodeUbatch(done[j - 1], parts[j])
    IN  done[Len(parts)]

Entry(tok, pos, seq) == [tok |-> tok, pos |-> pos, seqs |-> {seq}]

-----------------------------------------------------------------------------
(* The tasks.                                                              *)

Task == pc = "tasks"

\* A completion: every available slot may be the one, as a request can name it.
\* A system prompt in the request releases all slots and is loaded later.
Launch(s, r) ==
    /\ Task
    /\ scene.tasks > 0
    /\ Available(slots[s])
    /\ LET others == [t \in Slots |-> IF r.sys = {} THEN slots[t]
                                      ELSE [Released(slots[t]) EXCEPT !.n_past = 0]]
       IN  slots' = [others EXCEPT ![s] =
               [@ EXCEPT !.n_past = 0, !.command = "LOAD_PROMPT", !.prompt = <<>>,
                         !.request = r.prompt, !.cached = r.cache_prompt,
                         !.n_keep = r.n_keep, !.n_discard = r.n_discard,
                         !.n_predict = r.n_predict]]
    /\ IF r.sys = {} THEN UNCHANGED sys
       ELSE \E p \in r.sys : sys' = [sys EXCEPT !.prompt = p, !.need = TRUE]
    /\ scene' = [scene EXCEPT !.tasks = @ - 1]
    /\ UNCHANGED <<kv, batch, work, pc, file, doubt>>

Action ==
    /\ Task
    /\ scene.actions > 0
    /\ scene' = [scene EXCEPT !.actions = @ - 1]
    /\ UNCHANGED <<sys, batch, work, pc>>

Cancel(s) ==
    /\ Action
    /\ ~Available(slots[s])
    /\ slots' = [slots EXCEPT ![s] = Released(@)]
    /\ UNCHANGED <<kv, file, doubt>>

OwnCells(s) == {i \in Cells : s + 1 \in kv.seq_id[i]}

\* An empty sequence cannot be restored (KvSession), and is not saved here.
SaveSlot(s) ==
    /\ Action
    /\ Available(slots[s])
    /\ OwnCells(s) # {}
    /\ LET at == CellsIn(kv, OwnCells(s))
       IN  file' = {[ rows    |-> [n \in DOMAIN at |-> Row(kv, at[n], {})],
                      tokens  |-> slots[s].cache_tokens,
                      sys     |-> sys.tokens,
                      doubt   |-> doubt[s] ]}
    /\ UNCHANGED <<kv, slots, doubt>>

\* Cells of the system prompt are lost with the rest of the sequence.
LosesSystem == IF sys.tokens = <<>> THEN {} ELSE {"system"}

RestoreSlot(s) ==
    /\ Action
    /\ Available(slots[s])
    /\ \E f \in file : \E k \in {SeqRm(kv, s + 1, -1, -1)} :
        /\ CanPlace(k, Len(f.rows))
        /\ \E h \in {FindSlot(k, Len(f.rows))} :
            LET cells == [n \in DOMAIN f.rows |-> [f.rows[n] EXCEPT !.seqs = {s + 1}]]
            IN  kv' = PutRows(Place(k, cells, h), f.rows, h)
        /\ slots' = [slots EXCEPT ![s].cache_tokens = f.tokens]
        /\ doubt' = [doubt EXCEPT ![s] =
                        f.doubt \cup IF f.sys = sys.tokens THEN {} ELSE {"system"}]
    /\ UNCHANGED file

RestoreSlotFails(s) ==
    /\ Action
    /\ Available(slots[s])
    /\ \E f \in file : \E k \in {SeqRm(kv, s + 1, -1, -1)} :
        /\ ~CanPlace(k, Len(f.rows))
        /\ kv' = [k EXCEPT !.head = HeadAfterMiss(k, Len(f.rows))]
        /\ slots' = [slots EXCEPT ![s].cache_tokens = <<>>]
        /\ doubt' = [doubt EXCEPT ![s] = @ \cup LosesSystem]
    /\ UNCHANGED file

EraseSlot(s) ==
    /\ Action
    /\ Available(slots[s])
    /\ kv' = SeqRm(kv, s + 1, -1, -1)
    /\ slots' = [slots EXCEPT ![s].cache_tokens = <<>>]
    /\ doubt' = [doubt EXCEPT ![s] = @ \cup LosesSystem]
    /\ UNCHANGED file

-----------------------------------------------------------------------------
(* update_slots up to the batch, as steps from a work state w to the next: *)
(* kv, sys, slots, batch and doubt.                                        *)

\* kv_cache_clear: the slots' cache_tokens are not told.
CacheCleared(w) ==
    [w EXCEPT !.kv = Clear(@), !.sys.clean = FALSE,
              !.doubt = [s \in Slots |-> IF w.slots[s].cache_tokens = <<>> THEN @[s]
                                         ELSE @[s] \cup {"cells"}]]

SystemEntries(p) == [i \in DOMAIN p |-> Entry(p[i], i - 1, 0)]

DecodeChunk(d, chunk) == IF d.ok THEN Decode(d.kv, chunk) ELSE d

\* Mutant of CopiedToAll: the sequences up to n_parallel - 1 get it.
CopiedToMost(k) ==
    LET copied[i \in 0 .. NSlots] == IF i = 0 THEN k ELSE SeqCp(copied[i - 1], 0, i - 1, -1, -1)
    IN  copied[NSlots]

CopiedToAll(k) ==
    LET copied[i \in 0 .. NSlots] == IF i = 0 THEN k ELSE SeqCp(copied[i - 1], 0, i, -1, -1)
    IN  copied[NSlots]

DecodeChunks(k, tokens) ==
    LET chunks == Parts(tokens, NBatch)
        done[j \in 0 .. Len(chunks)] ==
            IF j = 0 THEN [kv |-> k, ok |-> TRUE, placed |-> 0]
            ELSE DecodeChunk(done[j - 1], chunks[j])
    IN  done[Len(chunks)]

\* system_prompt_update.  When a decode fails the update stays due and the cells
\* placed so far belong to sequence 0 alone.
SystemUpdated(w) ==
    LET c == CacheCleared(w)
        p == w.sys.prompt
        d == DecodeChunks(c.kv, SystemEntries(p))
    IN  IF ~w.sys.need THEN w
        ELSE IF d.ok
        THEN [c EXCEPT !.kv = IF p = <<>> THEN d.kv ELSE CopiedToAll(d.kv),
                       !.sys.tokens = p, !.sys.need = FALSE,
                       !.doubt = [s \in Slots |-> @[s] \ {"system"}]]
        ELSE [c EXCEPT !.kv = d.kv, !.sys.tokens = p,
                       !.doubt = [s \in Slots |-> Doubts]]

ReleasesDone(w) ==
    [w EXCEPT !.slots = [s \in Slots |->
        IF @[s].command = "RELEASE" THEN [@[s] EXCEPT !.state = "IDLE", !.command = "NONE"]
        ELSE @[s]]]

AllIdle(w) == \A s \in Slots : Available(w.slots[s])

\* The cache is cleared once, to make up for the warm-up.
Rested(w) == IF w.sys.prompt = <<>> /\ w.sys.clean THEN CacheCleared(w) ELSE w

\* Mutant of TokensShifted: the last tokens are dropped.
TokensCutOff(seq, keep, discard) == SubSeq(seq, 1, Len(seq) - discard)

\* cache_tokens without the discarded tokens behind the first keep.
TokensShifted(seq, keep, discard) ==
    [i \in 1 .. Len(seq) - discard |-> IF i <= keep THEN seq[i] ELSE seq[i + discard]]

\* What the request says, or half of the positions behind those to keep.
Discard(x, left) == IF x.n_discard # 0 THEN x.n_discard ELSE left \div 2

ContextFull(x, ends) == Processing(x) /\ ends >= NCtx - 1

\* Context shift: the positions to discard, behind those to keep, are removed.
\* These are positions of the sequence, the system prompt's included.  When more
\* are discarded than there are, the cells to keep lie beyond n_past.
Shifted(w, s) ==
    LET x       == w.slots[s]
        ends    == Len(w.sys.tokens) + x.n_past
        keep    == x.n_keep + AddBos
        discard == Discard(x, ends - keep)
        k       == SeqRm(w.kv, s + 1, keep, keep + discard)
        spoilt(t) == (IF w.sys.tokens = <<>> THEN {} ELSE {"system"})
                     \cup IF t = s /\ keep + discard > ends THEN {"cells"} ELSE {}
    IN  IF ~ContextFull(x, ends) THEN w
        ELSE [w EXCEPT
                !.kv = SeqAdd(k, s + 1, keep + discard, ends, -discard),
                !.slots[s].cache_tokens =
                    IF x.cached THEN TokensShifted(@, keep, discard) ELSE @,
                !.slots[s].n_past = @ - discard,
                !.doubt = [t \in Slots |-> @[t] \cup spoilt(t)]]

\* What slot s would discard before it takes part in the next batch.
Discards(w, s) ==
    LET x    == w.slots[s]
        ends == Len(w.sys.tokens) + x.n_past
    IN  IF ContextFull(x, ends) THEN {Discard(x, ends - (x.n_keep + AddBos))} ELSE {}

\* cache_tokens cannot be shorter than nothing, and resize throws.
Throws(w, s) ==
    w.slots[s].cached /\ \E d \in Discards(w, s) : d > Len(w.slots[s].cache_tokens)

\* n_past would be negative, or the positions would grow.
Strays(w, s) == \E d \in Discards(w, s) : d \notin 0 .. w.slots[s].n_past

\* The token sampled last of a slot that generates.
SampledAdded(w, s) ==
    LET x == w.slots[s]
    IN  IF x.state = "IDLE" THEN w
        ELSE [w EXCEPT
                !.batch = Append(@, Entry(x.sampled, Len(w.sys.tokens) + x.n_past, s + 1)),
                !.slots[s].i_batch = Len(w.batch),
                !.slots[s].n_past = @ + 1,
                !.slots[s].cache_tokens = IF x.cached THEN Append(@, x.sampled) ELSE @]

\* Mutant of Truncated: only a prompt of twice the context is cut.
TruncatedLate(p, keep) == IF Len(p) < 2 * NCtx THEN p ELSE SubSeq(p, 1, NCtx)

\* A prompt longer than the context loses blocks from its middle.
Truncated(p, keep) ==
    LET block  == (NCtx - keep) \div 2
        erased == (Len(p) - keep - block) \div block
    IN  IF Len(p) < NCtx THEN p
        ELSE SubSeq(p, 1, keep) \o SubSeq(p, keep + erased * block + 1, Len(p))

\* common_part
CommonPart(a, b) == Len(LongestCommonPrefix({a, b}))

\* How many tokens are reused: at least one is left to evaluate.
Reused(common, p) == IF common = Len(p) THEN common - 1 ELSE common

\* The first look at a prompt: it is tokenized, cut, and compared with what the
\* slot has in the cache.
Tokenized(x) ==
    LET wanted == IF x.n_keep < 0 THEN Len(x.request) ELSE x.n_keep
        keep   == IF NCtx - 4 < wanted THEN NCtx - 4 ELSE wanted
        p      == Truncated(x.request, keep)
        common == IF x.cached THEN CommonPart(x.cache_tokens, p) ELSE 0
    IN  [x EXCEPT !.prompt = p, !.n_keep = keep,
                  !.n_past = Reused(common, p)]

\* Mutant of OnlyCommon: one token too many is kept.
OnlyCommonAndOne(k, s, p0) == SeqRm(k, s + 1, p0 + 1, -1)

\* What follows the common part is removed.
OnlyCommon(k, s, p0) == SeqRm(k, s + 1, p0, -1)

\* vector::resize cuts off, or fills up with the token 0.
Resized(seq, n) == [i \in 1 .. n |-> IF i <= Len(seq) THEN seq[i] ELSE Zero]

\* As much of the prompt as fits in the batch, behind the part that is kept.
Loaded(w, s, x) ==
    LET ends == Len(w.sys.tokens)
        room == IF NBatch < Len(w.batch) THEN 0 ELSE NBatch - Len(w.batch)
        n    == IF Len(x.prompt) - x.n_past < room THEN Len(x.prompt) - x.n_past ELSE room
        more == SubSeq(x.prompt, x.n_past + 1, x.n_past + n)
        kept == Resized(x.cache_tokens, x.n_past)
        done == x.n_past + n = Len(x.prompt)
    IN  [w EXCEPT
            !.kv = OnlyCommon(@, s, ends + x.n_past),
            !.batch = @ \o [j \in 1 .. n |-> Entry(more[j], ends + x.n_past + j - 1, s + 1)],
            !.slots[s] =
                [x EXCEPT !.n_past = @ + n,
                          !.cache_tokens = IF x.cached THEN kept \o more ELSE kept,
                          !.state     = IF done THEN "PROCESSING" ELSE @,
                          !.command   = IF done THEN "NONE" ELSE @,
                          !.n_decoded = IF done THEN 0 ELSE @,
                          !.i_batch   = IF done THEN Len(w.batch) + n - 1 ELSE @],
            !.doubt[s] = IF w.slots[s].prompt = <<>> /\ x.n_past = 0 THEN @ \ {"cells"}
                         ELSE @]

\* Slot 0 is looked at even when the batch is full.
PromptLoaded(w, s) ==
    LET x == w.slots[s]
    IN  IF ~Loading(x) \/ (s # 0 /\ Len(w.batch) >= NBatch) THEN w
        ELSE IF x.prompt # <<>> THEN Loaded(w, s, x)
        ELSE IF x.request = <<>>
        THEN [w EXCEPT !.slots[s].state = "PROCESSING", !.slots[s].command = "RELEASE"]
        ELSE Loaded(w, s, Tokenized(x))

Present == [kv |-> kv, sys |-> sys, slots |-> slots, batch |-> <<>>, doubt |-> doubt]

Begun == ReleasesDone(SystemUpdated(Present))

\* Three loops over the slots.
AllShifted(w) ==
    LET upto[i \in 0 .. NSlots] == IF i = 0 THEN w ELSE Shifted(upto[i - 1], i - 1)
    IN  upto[NSlots]

AllSampled(w) ==
    LET upto[i \in 0 .. NSlots] == IF i = 0 THEN w ELSE SampledAdded(upto[i - 1], i - 1)
    IN  upto[NSlots]

AllLoaded(w) ==
    LET upto[i \in 0 .. NSlots] == IF i = 0 THEN w ELSE PromptLoaded(upto[i - 1], i - 1)
    IN  upto[NSlots]

Filled(w) == AllLoaded(AllSampled(AllShifted(w)))

Becomes(w) ==
    /\ kv' = w.kv
    /\ sys' = w.sys
    /\ slots' = w.slots
    /\ batch' = w.batch
    /\ doubt' = w.doubt
    /\ pc' = IF w.batch = <<>> THEN "tasks" ELSE "decode"
    /\ work' = [at |-> 0, n |-> NBatch]

BatchFilled(w) ==
    /\ \A s \in Slots : ~Throws(w, s) /\ ~Strays(w, s)
    /\ Becomes(IF AllIdle(w) THEN Rested(w) ELSE Filled(w))

\* Nothing in the main loop catches what resize throws: the process ends.
ShiftThrows(w) ==
    /\ \E s \in Slots : Throws(w, s)
    /\ pc' = "ended"
    /\ UNCHANGED <<kv, sys, slots, batch, work, doubt>>

\* Otherwise the code goes on, with negative positions, or writing behind the end
\* of cache_tokens; what it does then is not followed.
ShiftStrays(w) ==
    /\ \E s \in Slots : Strays(w, s) /\ ~Throws(w, s)
    /\ pc' = "astray"
    /\ UNCHANGED <<kv, sys, slots, batch, work, doubt>>

UpdateSlots ==
    /\ Task
    /\ \E w \in {Begun} : BatchFilled(w) \/ ShiftThrows(w) \/ ShiftStrays(w)
    /\ UNCHANGED <<file, scene>>

Over == pc \in {"ended", "astray"} /\ UNCHANGED vars

-----------------------------------------------------------------------------
(* The loop of update_slots that decodes the batch part by part.           *)

View ==
    LET left == Len(batch) - work.at
    IN  SubSeq(batch, work.at + 1, work.at + IF work.n < left THEN work.n ELSE left)

\* The slots whose next token this part gives the logits for.
Sampling ==
    {s \in Slots : /\ slots[s].state = "PROCESSING"
                   /\ work.at <= slots[s].i_batch
                   /\ slots[s].i_batch < work.at + Len(View)}

NoBudget(x) == x.n_predict # -1 /\ x.n_decoded + 1 >= x.n_predict

\* Mutant of CanRetry: a batch of one token is halved, too.
CanRetryEver == work.n > 0

CanRetry == work.n > 1

\* Mutant of Halved: the step back by n_batch is left out.
HalvedOn == [at |-> work.at + work.n \div 2, n |-> work.n \div 2]

\* The same place, half the size.
Halved == [work EXCEPT !.n = @ \div 2]

DecodeOk ==
    /\ pc = "decode"
    /\ \E d \in {Decode(kv, View)} : d.ok /\ kv' = d.kv
    /\ \E tok \in [Sampling -> Outputs], ends \in SUBSET Sampling :
        /\ \A s \in Sampling : NoBudget(slots[s]) => s \in ends
        /\ slots' = [s \in Slots |->
            IF s \notin Sampling THEN slots[s]
            ELSE [slots[s] EXCEPT !.sampled = tok[s], !.n_decoded = @ + 1, !.i_batch = -1,
                                  !.command = IF s \in ends THEN "RELEASE" ELSE @]]
    /\ LET next == work.at + work.n
       IN  IF next < Len(batch)
           THEN work' = [work EXCEPT !.at = next] /\ UNCHANGED <<pc, batch>>
           ELSE /\ pc' = "tasks"
                /\ batch' = <<>>
                /\ UNCHANGED work
    /\ UNCHANGED <<sys, file, doubt, scene>>

\* No place: the same part is tried again with half of n_batch.  Ubatches that
\* found a place stay where they are.
DecodeRetry ==
    /\ pc = "decode"
    /\ CanRetry
    /\ \E d \in {Decode(kv, View)} :
        /\ ~d.ok
        /\ kv' = d.kv
        /\ doubt' = [s \in Slots |->
                        IF \E j \in 1 .. d.placed : View[j].seqs = {s + 1}
                        THEN doubt[s] \cup {"cells"} ELSE doubt[s]]
    /\ work' = Halved
    /\ UNCHANGED <<sys, slots, batch, pc, file, scene>>

\* No place for a single token: every slot gets an error and is released.
DecodeFail ==
    /\ pc = "decode"
    /\ ~CanRetry
    /\ \E d \in {Decode(kv, View)} : ~d.ok /\ kv' = d.kv
    /\ slots' = [s \in Slots |->
                    [slots[s] EXCEPT !.state = "PROCESSING", !.command = "RELEASE"]]
    /\ doubt' = [s \in Slots |-> doubt[s] \cup {"cells"}]
    /\ pc' = "tasks"
    /\ batch' = <<>>
    /\ UNCHANGED <<sys, work, file, scene>>

Next ==
    \/ \E s \in Slots :
        \/ \E r \in scene.requests : Launch(s, r)
        \/ Cancel(s) \/ SaveSlot(s) \/ RestoreSlot(s) \/ RestoreSlotFails(s) \/ EraseSlot(s)
    \/ UpdateSlots \/ Over
    \/ DecodeOk \/ DecodeRetry \/ DecodeFail

Spec == Init /\ [][Next]_vars

-----------------------------------------------------------------------------
(* Properties.                                                             *)

Tasks == pc = "tasks" /\ ~sys.need

AtPos(s, p) == {i \in OwnCells(s) : kv.pos[i] = p}

\* Types: n_past never drops below zero, through reuse, context shifts and failed
\* decodes, and cache_tokens holds tokens only.  The server stops for the request
\* of a client alone that discards fewer than no tokens, or more than it has.
TypeOK ==
    /\ \A s \in Slots :
        /\ slots[s].state \in {"IDLE", "PROCESSING"}
        /\ slots[s].command \in {"NONE", "LOAD_PROMPT", "RELEASE"}
        /\ slots[s].cache_tokens \in Seq(Tokens)
        /\ slots[s].n_past \in Nat
        /\ slots[s].i_batch >= -1
    /\ doubt \in [Slots -> SUBSET Doubts]
    /\ work.n \in 1 .. NBatch /\ work.at \in Nat
    /\ pc = "decode" <=> batch # <<>>
    /\ \/ pc \in {"tasks", "decode"}
       \/ \E s \in Slots : slots[s].n_discard \notin 0 .. slots[s].n_past
    /\ Cardinality(file) <= 1

\* Between two update_slots the sequence of a slot at work holds exactly the
\* system prompt and n_past tokens: each position once, and none besides.
ContextWhole ==
    Tasks => \A s \in Slots :
        LET ends == Len(sys.tokens) + slots[s].n_past
        IN  Processing(slots[s]) /\ slots[s].prompt # <<>> /\ doubt[s] = {} =>
                /\ \A p \in 0 .. ends - 1 : Cardinality(AtPos(s, p)) = 1
                /\ Cardinality(OwnCells(s)) = ends

\* What cache_tokens says is in the cache: a request that shares a prefix with it
\* skips these tokens.  This holds of idle slots, after slot files, context
\* shifts and cancelled requests, too.
CacheTokensTrue ==
    Tasks => \A s \in Slots : doubt[s] = {} =>
        \A i \in DOMAIN slots[s].cache_tokens :
            slots[s].cache_tokens[i] # Zero =>
                \E c \in Cells :
                    /\ AtPos(s, Len(sys.tokens) + i - 1) = {c}
                    /\ kv.tok[c] = slots[s].cache_tokens[i]

\* Every slot sees the system prompt that is in force, once and in order.
SystemKept ==
    Tasks => \A s \in Slots : "system" \notin doubt[s] =>
        \A i \in DOMAIN sys.tokens : \E c \in Cells :
            AtPos(s, i - 1) = {c} /\ kv.tok[c] = sys.tokens[i]

\* No context shift is pending when a slot may be saved: its rows are written as
\* they are, and the deltas are not.
RowsSettled ==
    pc = "tasks" => ~kv.has_shift /\ \A i \in UsedCells(kv) : kv.rot[i] = kv.pos[i]

\* However the batch is cut up, a slot takes its next token from the logits of
\* its own last token, and its turn is not missed.
LogitsOwn ==
    \A s \in Slots :
        LET i == slots[s].i_batch
        IN  slots[s].state = "PROCESSING" /\ slots[s].command = "NONE" /\ i # -1 =>
                /\ work.at <= i /\ i < Len(batch)
                /\ batch[i + 1].seqs = {s + 1}
                /\ batch[i + 1].pos = Len(sys.tokens) + slots[s].n_past - 1

\* Without a system prompt the cache is large enough: the share of every slot
\* holds its context, and prompts and generation stay in it.
NeverFull == [][DecodeFail => sys.tokens # <<>> \/ \E s \in Slots : doubt[s] # {}]_vars

=============================================================================
