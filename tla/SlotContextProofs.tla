-------------------------- MODULE SlotContextProofs --------------------------
(***************************************************************************)
(* Proofs about SlotContext for any number of slots, every size of the     *)
(* cache, of the context, of batch and ubatch, and all requests.           *)
(*                                                                         *)
(* What a slot has in the cache is a set of items, each a place, a         *)
(* position and a token: its cells, and behind them the entries of the     *)
(* batch that are to become cells of it (Content).  What the slot believes *)
(* is said of that set (Believed), so that decoding, saving and restoring, *)
(* which carry the items to other places one to one (Carried), change      *)
(* nothing of it.  ContextInv says it of every slot, of the saved file and *)
(* of the cache below them.  update_slots is followed through its loops:   *)
(* TaskWorld, ShiftStage, SampleStage and LoadStage hold between them.     *)
(***************************************************************************)
EXTENDS SlotContext, KvOpsProofs, SequenceTheorems

-----------------------------------------------------------------------------
(* The cache.                                                              *)

Cache ==
    [ pos       : [Cells -> Int],
      delta     : [Cells -> Int],
      seq_id    : [Cells -> SUBSET Seqs],
      tok       : [Cells -> Tokens \cup {NoToken}],
      rot       : [Cells -> Int],
      head      : Int,
      used      : Int,
      has_shift : BOOLEAN,
      do_defrag : BOOLEAN ]

\* A used cell has a position, to which its row is rotated but for the pending
\* shift, and nothing is to be defragmented.
Sound(k) ==
    /\ k \in Cache
    /\ \A i \in Cells : k.pos[i] >= 0 <=> k.seq_id[i] # {}
    /\ \A i \in Cells : k.seq_id[i] # {} => k.rot[i] + k.delta[i] = k.pos[i]
    /\ ~k.has_shift => \A i \in Cells : k.delta[i] = 0
    /\ ~k.do_defrag

\* Cells are not shared when there is no system prompt.
Unshared(k) ==
    \A i \in Cells : k.seq_id[i] # {} => \E s \in Slots : k.seq_id[i] = {s + 1}

-----------------------------------------------------------------------------
(* What is kept for a slot.                                                *)

\* The cells of slot s and, behind them, the entries of batch b from at on that
\* are to become cells of it.
CellItem(k, i) == [at |-> i, pos |-> k.pos[i], tok |-> k.tok[i]]
EntryItem(b, j) == [at |-> Size + j, pos |-> b[j].pos, tok |-> b[j].tok]

Held(k, s) == {CellItem(k, i) : i \in {c \in Cells : s + 1 \in k.seq_id[c]}}
Waiting(b, at, s) == {EntryItem(b, j) : j \in {e \in DOMAIN b : e > at /\ b[e].seqs = {s + 1}}}

Content(k, b, at, s) == Held(k, s) \cup Waiting(b, at, s)

RowItem(rows, n) == [at |-> n, pos |-> rows[n].pos, tok |-> rows[n].tok]

FileContent(f) == {RowItem(f.rows, n) : n \in DOMAIN f.rows}

Once(C, p) == \E e \in C : e.pos = p /\ \A x \in C : x.pos = p => x = e

Holds(C, p, t) == \E e \in C : e.pos = p /\ e.tok = t /\ \A x \in C : x.pos = p => x = e

SystemIn(C, y) == \A i \in DOMAIN y : Holds(C, i - 1, y[i])

TokensIn(C, y, c) == \A i \in DOMAIN c : c[i] # Zero => Holds(C, Len(y) + i - 1, c[i])

WholeIn(C, n) ==
    /\ \A p \in 0 .. n - 1 : Once(C, p)
    /\ \A e \in C : e.pos \in 0 .. n - 1

\* No position twice, and no more of them than a slot may use.
TightIn(C) ==
    /\ \A e \in C : e.pos \in 0 .. NCtx - 2
    /\ \A e, x \in C : e.pos = x.pos => e = x

Working(x) == Processing(x) /\ x.prompt # <<>>

\* y are the tokens of the system prompt, need says that another is due.
Believed(C, y, need, x, D) ==
    /\ "system" \notin D => SystemIn(C, y)
    /\ D = {} =>
        /\ TokensIn(C, y, x.cache_tokens)
        /\ ~need /\ Working(x) => WholeIn(C, Len(y) + x.n_past)
        /\ y = <<>> => TightIn(C)

-----------------------------------------------------------------------------
(* The slots.                                                              *)

Words == Tokens \ {Zero}

SlotType ==
    [ state : {"IDLE", "PROCESSING"}, command : {"NONE", "LOAD_PROMPT", "RELEASE"},
      request : Seq(Words), cached : BOOLEAN, n_keep : Int, n_discard : Int,
      n_predict : Int, prompt : Seq(Words), cache_tokens : Seq(Tokens), n_past : Nat,
      n_decoded : Int, sampled : Tokens \cup {NoToken}, i_batch : Int ]

Generating(x) == x.state = "PROCESSING" /\ x.command = "NONE"

\* A slot that is at its prompt, or generates.
Busy(x) == (Loading(x) /\ x.prompt # <<>>) \/ Generating(x)

CommandGood(x) ==
    /\ x.state = "IDLE" => x.command # "RELEASE"
    /\ x.state = "PROCESSING" => x.command # "LOAD_PROMPT"

PromptGood(x) ==
    /\ x.prompt # <<>> => x.n_keep \in 0 .. NCtx - 4 /\ Len(x.prompt) < NCtx
    /\ Loading(x) /\ x.prompt = <<>> => x.n_past = 0
    /\ Loading(x) /\ x.prompt # <<>> => x.n_past < Len(x.prompt)
    /\ Generating(x) => x.prompt # <<>>

\* cache_tokens and n_past count the same tokens, but after a new system prompt.
CacheTokensGood(x) ==
    Busy(x) =>
        /\ x.cached => \/ Len(x.cache_tokens) = x.n_past
                       \/ Loading(x) /\ x.n_past = 0
        /\ ~x.cached => \A i \in DOMAIN x.cache_tokens : x.cache_tokens[i] = Zero

\* The entry of the batch whose logits the slot waits for.
TurnGood(x, y, b, at, s) ==
    /\ x.i_batch >= -1
    /\ Generating(x) =>
        IF x.i_batch = -1 THEN x.sampled \in Tokens
        ELSE /\ at <= x.i_batch /\ x.i_batch < Len(b)
             /\ b[x.i_batch + 1].seqs = {s + 1}
             /\ b[x.i_batch + 1].pos = Len(y) + x.n_past - 1

SlotGood(x, y, need, b, at, s) ==
    /\ x \in SlotType
    /\ CommandGood(x) /\ PromptGood(x) /\ CacheTokensGood(x)
    /\ need => x.n_past = 0
    /\ y = <<>> => x.n_past < NCtx
    /\ TurnGood(x, y, b, at, s)

-----------------------------------------------------------------------------
(* The states of update_slots, and those between.                          *)

Entries == [tok : Tokens, pos : Nat, seqs : {{s + 1} : s \in Slots}]

SysGood(y) ==
    /\ y \in [ prompt : Seq(Tokens), tokens : Seq(Tokens), need : BOOLEAN, clean : BOOLEAN ]
    /\ 2 * Len(y.prompt) < NCtx /\ 2 * Len(y.tokens) < NCtx
    /\ ~y.need => y.tokens = y.prompt

\* at is where in the batch the entries begin that are not decoded yet.
WorldGood(w, at) ==
    /\ w = [kv |-> w.kv, sys |-> w.sys, slots |-> w.slots, batch |-> w.batch, doubt |-> w.doubt]
    /\ Sound(w.kv)
    /\ SysGood(w.sys)
    /\ w.sys.tokens = <<>> => Unshared(w.kv)
    /\ w.batch \in Seq(Entries)
    /\ \A j \in DOMAIN w.batch : w.batch[j].pos >= Len(w.sys.tokens)
    /\ w.doubt \in [Slots -> SUBSET Doubts]
    /\ w.slots \in [Slots -> SlotType]
    /\ \A s \in Slots :
        /\ SlotGood(w.slots[s], w.sys.tokens, w.sys.need, w.batch, at, s)
        /\ Believed(Content(w.kv, w.batch, at, s), w.sys.tokens, w.sys.need, w.slots[s],
                    w.doubt[s])

RowType == [pos : Nat, seqs : SUBSET Seqs, tok : Tokens \cup {NoToken}, rot : Int]

FileGood(f) ==
    /\ f \in [rows : Seq(RowType), tokens : Seq(Tokens), sys : Seq(Tokens), doubt : SUBSET Doubts]
    /\ f.rows # <<>>
    /\ \A n \in DOMAIN f.rows : f.rows[n].rot = f.rows[n].pos
    /\ "system" \notin f.doubt => SystemIn(FileContent(f), f.sys)
    /\ f.doubt = {} =>
        /\ TokensIn(FileContent(f), f.sys, f.tokens)
        /\ f.sys = <<>> => TightIn(FileContent(f))

SceneGood(c) ==
    /\ c = [sys |-> c.sys, requests |-> c.requests, tasks |-> c.tasks, actions |-> c.actions]
    /\ \E d \in Scenarios : c.requests = d.requests

World == [kv |-> kv, sys |-> sys, slots |-> slots, batch |-> batch, doubt |-> doubt]

\* A slot that is to discard fewer than no tokens, or more than it has.
Unfit(f) == \E s \in Slots : f[s].n_discard \notin 0 .. f[s].n_past

WorkGood ==
    /\ work \in [at : Nat, n : 1 .. NBatch]
    /\ pc \in {"tasks", "decode", "ended", "astray"}
    /\ pc \in {"ended", "astray"} => batch = <<>> /\ Unfit(slots)
    /\ pc = "tasks" => batch = <<>> /\ \A i \in Cells : kv.delta[i] = 0
    /\ pc = "tasks" => ~kv.has_shift
    /\ pc = "decode" => work.at < Len(batch) /\ ~sys.need

\* The inductive invariant.
ContextInv ==
    /\ WorldGood(World, work.at)
    /\ WorkGood
    /\ SceneGood(scene)
    /\ \A f \in file : FileGood(f)
    /\ file = {} \/ \E f \in file : file = {f}

\* What begins at zero and goes on from each number to the next reaches n.
LEMMA Reached ==
    ASSUME NEW n \in Nat, NEW S, 0 \in S, \A i \in 1 .. n : i - 1 \in S => i \in S
    PROVE  \A i \in 0 .. n : i \in S
<1>. DEFINE B == {i \in 0 .. n : i \notin S}
<1>1. SUFFICES ASSUME B # {}
               PROVE  FALSE
    OBVIOUS
<1>2. B \in SUBSET Nat
    OBVIOUS
<1>3. PICK m \in B : \A i \in B : m <= i
    <2>. HIDE DEF B
    <2>. QED
        BY <1>1, <1>2, LeastIsLeast, Zenon
<1>4. m \in 1 .. n /\ m - 1 \in 0 .. n
    BY <1>3
<1>5. m - 1 \notin B
    <2>. HIDE DEF B
    <2>. QED
        BY <1>2, <1>3, <1>4
<1>. QED
    BY <1>3, <1>4, <1>5

-----------------------------------------------------------------------------
(* What is kept for a slot, as a set.                                      *)

Items == [at : Nat, pos : Int, tok : Tokens \cup {NoToken}]

\* The items of D are those of C in other places.
Carried(C, D) ==
    \E f \in [C -> D] :
        /\ \A e \in C : f[e].pos = e.pos /\ f[e].tok = e.tok
        /\ \A e, x \in C : f[e] = f[x] => e = x
        /\ \A d \in D : \E e \in C : f[e] = d

\* Nothing that is said of the content of a slot depends on the places.
LEMMA CarriedHolds ==
    ASSUME NEW C, NEW D, Carried(C, D)
    PROVE  /\ \A p, t : Holds(C, p, t) => Holds(D, p, t)
           /\ \A p : Once(C, p) => Once(D, p)
           /\ \A n : WholeIn(C, n) => WholeIn(D, n)
           /\ TightIn(C) => TightIn(D)
<1>1. PICK f \in [C -> D] :
            /\ \A e \in C : f[e].pos = e.pos /\ f[e].tok = e.tok
            /\ \A e, x \in C : f[e] = f[x] => e = x
            /\ \A d \in D : \E e \in C : f[e] = d
    BY DEF Carried
<1>2. ASSUME NEW p, NEW t, Holds(C, p, t)
      PROVE  Holds(D, p, t)
    <2>1. PICK e \in C : e.pos = p /\ e.tok = t /\ \A x \in C : x.pos = p => x = e
        BY <1>2 DEF Holds
    <2>2. f[e] \in D /\ f[e].pos = p /\ f[e].tok = t
        BY <1>1, <2>1
    <2>3. ASSUME NEW d \in D, d.pos = p
          PROVE  d = f[e]
        BY <1>1, <2>1, <2>3
    <2>. QED
        BY <2>2, <2>3 DEF Holds
<1>3. ASSUME NEW p, Once(C, p)
      PROVE  Once(D, p)
    <2>1. PICK e \in C : e.pos = p /\ \A x \in C : x.pos = p => x = e
        BY <1>3 DEF Once
    <2>2. f[e] \in D /\ f[e].pos = p
        BY <1>1, <2>1
    <2>3. ASSUME NEW d \in D, d.pos = p
          PROVE  d = f[e]
        BY <1>1, <2>1, <2>3
    <2>. QED
        BY <2>2, <2>3 DEF Once
<1>4. ASSUME NEW n, WholeIn(C, n)
      PROVE  WholeIn(D, n)
    <2>1. \A p \in 0 .. n - 1 : Once(D, p)
        BY <1>3, <1>4 DEF WholeIn
    <2>2. \A d \in D : d.pos \in 0 .. n - 1
        BY <1>1, <1>4 DEF WholeIn
    <2>. QED
        BY <2>1, <2>2 DEF WholeIn
<1>5. ASSUME TightIn(C)
      PROVE  TightIn(D)
    <2>1. \A d \in D : d.pos \in 0 .. NCtx - 2
        BY <1>1, <1>5 DEF TightIn
    <2>2. ASSUME NEW d \in D, NEW x \in D, d.pos = x.pos
          PROVE  d = x
        <3>1. PICK e \in C : f[e] = d
            BY <1>1
        <3>2. PICK z \in C : f[z] = x
            BY <1>1
        <3>3. e.pos = z.pos
            BY <1>1, <2>2, <3>1, <3>2
        <3>. QED
            BY <1>5, <3>1, <3>2, <3>3 DEF TightIn
    <2>. QED
        BY <2>1, <2>2 DEF TightIn
<1>. QED
    BY <1>2, <1>3, <1>4, <1>5

\* What a slot believes stays true when its content moves.
LEMMA CarriedBelieved ==
    ASSUME NEW C, NEW D, Carried(C, D), NEW y, NEW need, NEW x, NEW B,
           Believed(C, y, need, x, B)
    PROVE  Believed(D, y, need, x, B)
<1>1. SystemIn(C, y) => SystemIn(D, y)
    BY CarriedHolds DEF SystemIn
<1>2. TokensIn(C, y, x.cache_tokens) => TokensIn(D, y, x.cache_tokens)
    BY CarriedHolds DEF TokensIn
<1>. QED
    BY <1>1, <1>2, CarriedHolds DEF Believed

\* The items below n.
Below(C, n) == {e \in C : e.pos < n}

\* The system prompt is all that is said of a slot that is in doubt.
LEMMA SystemStays ==
    ASSUME NEW C, NEW D, NEW y \in Seq(Tokens), SystemIn(C, y),
           Below(D, Len(y)) = Below(C, Len(y))
    PROVE  SystemIn(D, y)
<1>1. DOMAIN y = 1 .. Len(y) /\ Len(y) \in Nat
    BY LenProperties
<1>2. ASSUME NEW i \in DOMAIN y
      PROVE  Holds(D, i - 1, y[i])
    <2>1. PICK e \in C : e.pos = i - 1 /\ e.tok = y[i] /\ \A x \in C : x.pos = i - 1 => x = e
        BY DEF SystemIn, Holds
    <2>2. i - 1 < Len(y)
        BY <1>1
    <2>3. e \in Below(C, Len(y))
        BY <2>1, <2>2 DEF Below
    <2>4. e \in D
        BY <2>3 DEF Below
    <2>5. ASSUME NEW x \in D, x.pos = i - 1
          PROVE  x = e
        <3>1. x \in Below(D, Len(y))
            BY <2>2, <2>5 DEF Below
        <3>2. x \in C
            BY <3>1 DEF Below
        <3>. QED
            BY <2>1, <2>5, <3>2
    <2>. QED
        BY <2>1, <2>4, <2>5 DEF Holds
<1>. QED
    BY <1>2 DEF SystemIn

\* A slot that is whole is tight when it has not more than its context.
LEMMA WholeTight ==
    ASSUME NEW C, NEW n \in Nat, n < NCtx, WholeIn(C, n)
    PROVE  TightIn(C)
<1>1. \A e \in C : e.pos \in 0 .. n - 1
    BY DEF WholeIn
<1>2. ASSUME NEW e \in C, NEW x \in C, e.pos = x.pos
      PROVE  e = x
    <2>1. Once(C, e.pos)
        BY <1>1 DEF WholeIn
    <2>. QED
        BY <1>2, <2>1 DEF Once
<1>3. \A e \in C : e.pos \in 0 .. NCtx - 2
    BY <1>1, CtxAssumption
<1>. QED
    BY <1>2, <1>3 DEF TightIn

\* The content of slot s after everything from n on was removed, when each place
\* before n is taken once.
LEMMA CutWhole ==
    ASSUME NEW C, \A e \in C : e.pos \in Nat, NEW n \in Nat,
           \A p \in 0 .. n - 1 : Once(C, p)
    PROVE  WholeIn(Below(C, n), n)
<1>1. ASSUME NEW p \in 0 .. n - 1
      PROVE  Once(Below(C, n), p)
    <2>1. PICK e \in C : e.pos = p /\ \A x \in C : x.pos = p => x = e
        BY DEF Once
    <2>2. e \in Below(C, n) /\ \A x \in Below(C, n) : x \in C
        BY <2>1 DEF Below
    <2>. QED
        BY <2>1, <2>2 DEF Once
<1>2. \A e \in Below(C, n) : e.pos \in 0 .. n - 1
    BY DEF Below
<1>. QED
    BY <1>1, <1>2 DEF WholeIn

\* A removal from n on leaves what is before n.
LEMMA CutHolds ==
    ASSUME NEW C, NEW n, NEW p, p < n, NEW t, Holds(C, p, t)
    PROVE  Holds(Below(C, n), p, t)
<1>1. PICK e \in C : e.pos = p /\ e.tok = t /\ \A x \in C : x.pos = p => x = e
    BY DEF Holds
<1>2. e \in Below(C, n) /\ \A x \in Below(C, n) : x \in C
    BY <1>1 DEF Below
<1>. QED
    BY <1>1, <1>2 DEF Holds

\* A position that holds a token is there once.
LEMMA HoldsOnce ==
    ASSUME NEW C, NEW p, NEW t, Holds(C, p, t)
    PROVE  Once(C, p)
BY DEF Holds, Once

\* The items of D behind the n that are there.
LEMMA WholeMore ==
    ASSUME NEW C, NEW D, NEW n \in Nat, NEW m \in Nat, WholeIn(C, n),
           \A e \in D : e.pos \in n .. n + m - 1,
           \A p \in n .. n + m - 1 : Once(D, p)
    PROVE  WholeIn(C \cup D, n + m)
<1>0. \A e \in C : e.pos \in 0 .. n - 1
    BY DEF WholeIn
<1>1. ASSUME NEW p \in 0 .. n + m - 1
      PROVE  Once(C \cup D, p)
    <2>1. CASE p < n
        <3>1. Once(C, p)
            BY <2>1 DEF WholeIn
        <3>2. \A e \in D : e.pos # p
            BY <2>1
        <3>. QED
            BY <3>1, <3>2 DEF Once
    <2>2. CASE p >= n
        <3>1. Once(D, p)
            BY <2>2
        <3>2. \A e \in C : e.pos # p
            BY <1>0, <2>2
        <3>. QED
            BY <3>1, <3>2 DEF Once
    <2>. QED
        BY <2>1, <2>2
<1>2. \A e \in C \cup D : e.pos \in 0 .. n + m - 1
    BY <1>0
<1>. QED
    BY <1>1, <1>2 DEF WholeIn

\* Items at other positions hide nothing.
LEMMA HoldsMore ==
    ASSUME NEW C, NEW D, NEW p, NEW t, Holds(C, p, t), \A e \in D : e.pos # p
    PROVE  Holds(C \cup D, p, t) /\ Holds(D \cup C, p, t)
BY DEF Holds

-----------------------------------------------------------------------------
(* What the calls do to the cells.                                         *)

\* The sequence of a slot is its number and one; sequence 0 is nobody's.
LEMMA SlotFacts ==
    /\ NSlots \in Nat \ {0}
    /\ \A s \in Slots : s \in Nat /\ s + 1 \in Seqs /\ s + 1 # AnySeq /\ s + 1 # 0
    /\ 0 \in Seqs
BY SlotsAssumption DEF Slots, AnySeq

\* What is removed from sequence s, and nothing else; the tokens stay.
RemovedAs(k, r, s, p0, p1) ==
    /\ Sound(r)
    /\ \A i \in Cells :
        /\ r.seq_id[i] = IF s \in k.seq_id[i] /\ InRange(k.pos[i], p0, p1)
                         THEN k.seq_id[i] \ {s} ELSE k.seq_id[i]
        /\ r.seq_id[i] # {} => r.pos[i] = k.pos[i]
        /\ r.tok[i] = k.tok[i]
    /\ r.delta = k.delta /\ r.has_shift = k.has_shift

\* llama_kv_cache_seq_rm of one sequence.
LEMMA Removed ==
    ASSUME NEW k, Sound(k), NEW s \in Seqs, s # AnySeq, NEW p0, NEW p1
    PROVE  RemovedAs(k, SeqRm(k, s, p0, p1), s, p0, p1)
<1>. DEFINE hit   == RmHit(k, s, p0, p1)
            freed == RmFreed(k, s, p0, p1)
            np == [i \in Cells |-> IF i \in freed THEN -1 ELSE k.pos[i]]
            ns == [i \in Cells |-> IF i \in freed THEN {}
                                   ELSE IF i \in hit THEN k.seq_id[i] \ {s}
                                   ELSE k.seq_id[i]]
            nh == HeadAfterFree(k, freed)
            nu == k.used - Cardinality(freed)
            r  == SeqRm(k, s, p0, p1)
<1>0. k \in Cache
    BY DEF Sound
<1>1. freed \in SUBSET Cells /\ freed \in SUBSET Nat
    BY SizeAssumption DEF RmHit, RmFreed, Cells
<1>2. nh \in Int
    <2>1. freed # {} => Least(freed) \in Nat
        BY <1>1, LeastIsLeast
    <2>. QED
        BY <1>0, <2>1 DEF HeadAfterFree, Cache
<1>3. np \in [Cells -> Int] /\ ns \in [Cells -> SUBSET Seqs] /\ nu \in Int
    BY <1>0, <1>1, CellsFinite DEF Cache
<1>4. r = [k EXCEPT !.seq_id = ns, !.pos = np, !.used = nu, !.head = nh]
    BY DEF SeqRm
<1>5. ASSUME NEW i \in Cells
      PROVE  /\ ns[i] = IF s \in k.seq_id[i] /\ InRange(k.pos[i], p0, p1)
                        THEN k.seq_id[i] \ {s} ELSE k.seq_id[i]
             /\ IF i \in freed THEN np[i] = -1 /\ ns[i] = {} ELSE np[i] = k.pos[i]
             /\ i \notin freed => (ns[i] = {} <=> k.seq_id[i] = {})
    BY DEF RmHit, RmFreed
<1>. HIDE DEF hit, freed, np, ns, nh, nu, r
<1>6. /\ r \in Cache
      /\ r.pos = np /\ r.seq_id = ns /\ r.rot = k.rot /\ r.tok = k.tok
      /\ r.delta = k.delta /\ r.has_shift = k.has_shift /\ r.do_defrag = k.do_defrag
    BY <1>0, <1>2, <1>3, <1>4, Zenon DEF Cache
<1>7. ASSUME NEW i \in Cells
      PROVE  r.pos[i] >= 0 <=> r.seq_id[i] # {}
    <2>1. k.pos[i] >= 0 <=> k.seq_id[i] # {}
        BY DEF Sound
    <2>2. ~(-1 >= 0)
        OBVIOUS
    <2>3. CASE i \in freed
        BY <1>5, <1>6, <2>2, <2>3, Zenon
    <2>4. CASE i \notin freed
        BY <1>5, <1>6, <2>1, <2>4, Zenon
    <2>. QED
        BY <2>3, <2>4
<1>8. \A i \in Cells : r.seq_id[i] # {} => k.seq_id[i] # {} /\ r.pos[i] = k.pos[i]
    BY <1>5, <1>6, Zenon
<1>9. Sound(r)
    BY <1>6, <1>7, <1>8 DEF Sound
<1>. QED
    BY <1>5, <1>6, <1>8, <1>9 DEF RemovedAs, r

\* Positions are added to, none of which becomes negative.
AddedAs(k, r, s, p0, p1, d) ==
    /\ Sound(r)
    /\ \A i \in Cells :
        /\ r.seq_id[i] = k.seq_id[i]
        /\ r.pos[i] = IF s \in k.seq_id[i] /\ InRange(k.pos[i], p0, p1)
                      THEN k.pos[i] + d ELSE k.pos[i]
        /\ r.tok[i] = k.tok[i]

\* llama_kv_cache_seq_add of one sequence, when no position becomes negative.
LEMMA Added ==
    ASSUME NEW k, Sound(k), NEW s \in Seqs, NEW p0 \in Nat, NEW p1 \in Nat,
           NEW d \in Int, p0 + d >= 0
    PROVE  AddedAs(k, SeqAdd(k, s, p0, p1, d), s, p0, p1, d)
<1>. DEFINE hit   == AddHit(k, s, p0, p1)
            freed == AddFreed(k, s, p0, p1, d)
            nf == k.has_shift \/ hit # {}
            nd == [i \in Cells |-> IF i \in hit THEN k.delta[i] + d ELSE k.delta[i]]
            np == [i \in Cells |-> IF i \in freed THEN -1
                                   ELSE IF i \in hit THEN k.pos[i] + d ELSE k.pos[i]]
            ns == [i \in Cells |-> IF i \in freed THEN {} ELSE k.seq_id[i]]
            nu == k.used - Cardinality(freed)
            nh == IF freed # {} THEN Least(freed) ELSE 0
            r  == [k EXCEPT !.has_shift = nf, !.delta = nd, !.pos = np, !.seq_id = ns,
                            !.used = nu, !.head = nh]
<1>0. k \in Cache
    BY DEF Sound
<1>1. SeqAdd(k, s, p0, p1, d) = IF EmptyRange(p0, p1) THEN k ELSE r
    BY DEF SeqAdd
<1>2. \A i \in hit : k.pos[i] \in Int /\ k.pos[i] >= p0 /\ k.seq_id[i] # {}
    BY <1>0 DEF AddHit, InRange, Cache
<1>3. freed = {}
    BY <1>2 DEF AddFreed
<1>4. nf \in BOOLEAN /\ nd \in [Cells -> Int] /\ np \in [Cells -> Int]
      /\ ns \in [Cells -> SUBSET Seqs] /\ nu \in Int /\ nh \in Int
    BY <1>0, <1>3, FS_EmptySet DEF Cache
<1>5. ASSUME NEW i \in Cells
      PROVE  /\ ns[i] = k.seq_id[i]
             /\ i \in hit <=> s \in k.seq_id[i] /\ InRange(k.pos[i], p0, p1)
             /\ IF i \in hit THEN np[i] = k.pos[i] + d /\ nd[i] = k.delta[i] + d /\ np[i] >= 0
                ELSE np[i] = k.pos[i] /\ nd[i] = k.delta[i]
    BY <1>2, <1>3 DEF AddHit
<1>6. nf <=> k.has_shift \/ hit # {}
    OBVIOUS
<1>. HIDE DEF nf, nd, np, ns, nu, nh
<1>7. /\ r \in Cache
      /\ r.pos = np /\ r.seq_id = ns /\ r.rot = k.rot /\ r.tok = k.tok
      /\ r.delta = nd /\ r.has_shift = nf /\ r.do_defrag = k.do_defrag
    BY <1>0, <1>4, Zenon DEF Cache
<1>. HIDE DEF r, hit, freed
<1>8. \A i \in Cells : r.pos[i] >= 0 <=> r.seq_id[i] # {}
    BY <1>2, <1>5, <1>7 DEF Sound
<1>9. ASSUME NEW i \in Cells, r.seq_id[i] # {}
      PROVE  r.rot[i] + r.delta[i] = r.pos[i]
    <2>1. k.rot[i] \in Int /\ k.delta[i] \in Int /\ k.pos[i] \in Int
        BY <1>0 DEF Cache
    <2>2. k.rot[i] + k.delta[i] = k.pos[i]
        BY <1>5, <1>7, <1>9 DEF Sound
    <2>. QED
        BY <1>5, <1>7, <2>1, <2>2
<1>10. ASSUME ~r.has_shift, NEW i \in Cells
       PROVE  r.delta[i] = 0
    <2>1. i \notin hit /\ ~k.has_shift
        BY <1>6, <1>7, <1>10
    <2>. QED
        BY <1>5, <1>7, <2>1 DEF Sound
<1>11. Sound(r) /\ \A i \in Cells : r.tok[i] = k.tok[i]
    BY <1>7, <1>8, <1>9, <1>10 DEF Sound
<1>12. AddedAs(k, r, s, p0, p1, d)
    BY <1>5, <1>7, <1>11 DEF AddedAs
<1>13. CASE EmptyRange(p0, p1)
    <2>1. p0 = p1
        BY <1>13 DEF EmptyRange
    <2>2. \A i \in Cells : ~InRange(k.pos[i], p0, p1)
        BY <1>0, <2>1 DEF InRange, Cache
    <2>. QED
        BY <1>1, <1>13, <2>2 DEF AddedAs
<1>. QED
    BY <1>1, <1>12, <1>13

\* A cleared cache: no cell is used.
LEMMA ClearedCells ==
    ASSUME NEW k, Sound(k)
    PROVE  /\ Sound(Clear(k))
           /\ \A i \in Cells : Clear(k).seq_id[i] = {} /\ Clear(k).pos[i] = -1
           /\ Clear(k).delta = k.delta /\ Clear(k).has_shift = k.has_shift
           /\ Clear(k).head = 0 /\ Clear(k).used = 0
<1>. DEFINE np == [i \in Cells |-> -1]
            ns == [i \in Cells |-> {}]
            nt == [i \in Cells |-> NoToken]
            nr == [i \in Cells |-> 0]
            z  == 0
            r  == Clear(k)
<1>0. k \in Cache
    BY DEF Sound
<1>1. /\ np \in [Cells -> Int] /\ ns \in [Cells -> SUBSET Seqs]
      /\ nt \in [Cells -> Tokens \cup {NoToken}] /\ nr \in [Cells -> Int]
      /\ z \in Int
    OBVIOUS
<1>2. r = [k EXCEPT !.pos = np, !.seq_id = ns, !.tok = nt, !.rot = nr,
                    !.head = z, !.used = z]
    BY DEF Clear
<1>3. z = 0 /\ \A i \in Cells : np[i] = -1 /\ ns[i] = {}
    OBVIOUS
<1>. HIDE DEF np, ns, nt, nr, z, r
<1>4. /\ r \in Cache
      /\ r.pos = np /\ r.seq_id = ns /\ r.head = z /\ r.used = z
      /\ r.delta = k.delta /\ r.has_shift = k.has_shift /\ r.do_defrag = k.do_defrag
    BY <1>0, <1>1, <1>2, Zenon DEF Cache
<1>5. Sound(r)
    BY <1>3, <1>4 DEF Sound
<1>. QED
    BY <1>3, <1>4, <1>5 DEF r

\* The empty cache.
LEMMA InitSound == Sound(InitCache) /\ \A i \in Cells : InitCache.seq_id[i] = {}
BY DEF Sound, InitCache, Cache

\* A copy of sequence 0.
LEMMA CopiedCells ==
    ASSUME NEW k, Sound(k), NEW s \in Seqs
    PROVE  /\ Sound(SeqCp(k, 0, s, -1, -1))
           /\ \A i \in Cells :
                /\ SeqCp(k, 0, s, -1, -1).seq_id[i] =
                        IF 0 \in k.seq_id[i] THEN k.seq_id[i] \cup {s} ELSE k.seq_id[i]
                /\ SeqCp(k, 0, s, -1, -1).pos[i] = k.pos[i]
                /\ SeqCp(k, 0, s, -1, -1).tok[i] = k.tok[i]
           /\ SeqCp(k, 0, s, -1, -1).delta = k.delta
           /\ SeqCp(k, 0, s, -1, -1).has_shift = k.has_shift
<1>. DEFINE ns == [i \in Cells |-> IF 0 \in k.seq_id[i] /\ InRange(k.pos[i], -1, -1)
                                   THEN k.seq_id[i] \cup {s} ELSE k.seq_id[i]]
            z == 0
            c == [k EXCEPT !.head = z, !.seq_id = ns]
            r == SeqCp(k, 0, s, -1, -1)
<1>0. k \in Cache
    BY DEF Sound
<1>1. \A i \in Cells : 0 \in k.seq_id[i] => InRange(k.pos[i], -1, -1)
    BY <1>0 DEF Sound, Cache, InRange
<1>2. ns \in [Cells -> SUBSET Seqs] /\ z \in Int
    BY <1>0 DEF Cache
<1>3. r = IF 0 = s THEN k ELSE c
    BY DEF SeqCp
<1>4. \A i \in Cells :
        /\ ns[i] = IF 0 \in k.seq_id[i] THEN k.seq_id[i] \cup {s} ELSE k.seq_id[i]
        /\ ns[i] = {} <=> k.seq_id[i] = {}
    BY <1>1
<1>. HIDE DEF ns, z, r
<1>5. /\ c \in Cache /\ c.seq_id = ns /\ c.pos = k.pos /\ c.tok = k.tok
      /\ c.delta = k.delta /\ c.has_shift = k.has_shift /\ c.rot = k.rot
      /\ c.do_defrag = k.do_defrag
    BY <1>0, <1>2, Zenon DEF Cache
<1>. HIDE DEF c
<1>6. Sound(c)
    BY <1>4, <1>5, Zenon DEF Sound
<1>7. CASE 0 = s
    <2>1. \A i \in Cells : 0 \in k.seq_id[i] => k.seq_id[i] \cup {s} = k.seq_id[i]
        BY <1>7
    <2>. QED
        BY <1>3, <1>7, <2>1, Zenon DEF r
<1>8. CASE 0 # s
    BY <1>3, <1>4, <1>5, <1>6, <1>8 DEF r
<1>. QED
    BY <1>7, <1>8, Zenon

-----------------------------------------------------------------------------
(* Decoding.                                                               *)

AnyEntries == [tok : Tokens, pos : Nat, seqs : (SUBSET Seqs) \ {{}}]

\* No shift is pending.
Settled(k) == ~k.has_shift /\ \A i \in Cells : k.delta[i] = 0

SameCells(k, r) ==
    \A i \in Cells :
        r.seq_id[i] = k.seq_id[i] /\ r.pos[i] = k.pos[i] /\ r.tok[i] = k.tok[i]

\* llama_kv_cache_update rotates the rows and moves nothing.
LEMMA UpdatedCells ==
    ASSUME NEW k, Sound(k)
    PROVE  /\ Sound(Update(k)) /\ Settled(Update(k)) /\ SameCells(k, Update(k))
           /\ Settled(k) => Update(k) = k
<1>. DEFINE nr == [i \in Cells |-> k.rot[i] + k.delta[i]]
            nd == [i \in Cells |-> 0]
            nf == FALSE
            r  == [k EXCEPT !.rot = nr, !.delta = nd, !.has_shift = nf]
<1>0. k \in Cache /\ ~k.do_defrag
    BY DEF Sound
<1>1. CASE ~k.has_shift
    <2>1. Update(k) = k
        BY <1>0, <1>1 DEF Update, ApplyShift, ApplyDefrag
    <2>. QED
        BY <1>1, <2>1 DEF Sound, Settled, SameCells
<1>2. CASE k.has_shift
    <2>1. ApplyShift(k) = r
        BY <1>2 DEF ApplyShift
    <2>2. /\ nr \in [Cells -> Int] /\ nd \in [Cells -> Int] /\ nf \in BOOLEAN /\ ~nf
          /\ \A i \in Cells : nr[i] = k.rot[i] + k.delta[i] /\ nd[i] = 0
        BY <1>0 DEF Cache
    <2>. HIDE DEF nr, nd, nf
    <2>3. /\ r \in Cache
          /\ r.pos = k.pos /\ r.seq_id = k.seq_id /\ r.tok = k.tok
          /\ r.rot = nr /\ r.delta = nd /\ r.has_shift = nf /\ r.do_defrag = k.do_defrag
        BY <1>0, <2>2, Zenon DEF Cache
    <2>. HIDE DEF r
    <2>4. Update(k) = r
        BY <1>0, <2>1, <2>3 DEF Update, ApplyDefrag
    <2>5. ASSUME NEW i \in Cells, r.seq_id[i] # {}
          PROVE  r.rot[i] + r.delta[i] = r.pos[i]
        <3>1. k.rot[i] + k.delta[i] = k.pos[i] /\ k.pos[i] \in Int
            BY <1>0, <2>3, <2>5 DEF Sound, Cache
        <3>. QED
            BY <2>2, <2>3, <3>1
    <2>6. \A i \in Cells : r.pos[i] >= 0 <=> r.seq_id[i] # {}
        BY <2>3 DEF Sound
    <2>7. Sound(r)
        BY <1>0, <2>2, <2>3, <2>5, <2>6 DEF Sound
    <2>. QED
        BY <1>2, <2>2, <2>3, <2>4, <2>7 DEF Settled, SameCells
<1>. QED
    BY <1>1, <1>2

\* The head may be anywhere.
LEMMA HeadMoved ==
    ASSUME NEW k, Sound(k), NEW h \in Int
    PROVE  /\ Sound([k EXCEPT !.head = h])
           /\ SameCells(k, [k EXCEPT !.head = h])
           /\ Settled(k) => Settled([k EXCEPT !.head = h])
<1>. DEFINE r == [k EXCEPT !.head = h]
<1>1. k \in Cache
    BY DEF Sound
<1>2. /\ r \in Cache /\ r.pos = k.pos /\ r.seq_id = k.seq_id /\ r.tok = k.tok
      /\ r.rot = k.rot /\ r.delta = k.delta /\ r.has_shift = k.has_shift
      /\ r.do_defrag = k.do_defrag
    BY <1>1 DEF Cache
<1>. HIDE DEF r
<1>3. Sound(r) /\ SameCells(k, r) /\ (Settled(k) => Settled(r))
    BY <1>2 DEF Sound, SameCells, Settled
<1>. QED
    BY <1>3 DEF r

\* What is done to the cache before a slot is searched moves no token.
LEMMA PreparedCells ==
    ASSUME NEW k, Sound(k), NEW n \in Nat
    PROVE  Sound(Prepared(k, n)) /\ Settled(Prepared(k, n)) /\ SameCells(k, Prepared(k, n))
<1>. DEFINE u == Update(k)
            h == IF u.head > u.used + 2 * n THEN 0 ELSE u.head
<1>1. Sound(u) /\ Settled(u) /\ SameCells(k, u)
    BY UpdatedCells
<1>2. h \in Int
    BY <1>1 DEF Sound, Cache
<1>3. Prepared(k, n) = [u EXCEPT !.head = h]
    BY DEF Prepared
<1>. HIDE DEF u, h
<1>4. /\ Sound([u EXCEPT !.head = h]) /\ Settled([u EXCEPT !.head = h])
      /\ SameCells(u, [u EXCEPT !.head = h])
    BY <1>1, <1>2, HeadMoved
<1>. QED
    BY <1>1, <1>3, <1>4 DEF SameCells

\* A search that fails leaves a head; one for a single cell fails only in a full
\* cache.
LEMMA MissedHead ==
    ASSUME NEW k, Sound(k), NEW n \in Nat \ {0}, ~CanPlace(k, n)
    PROVE  /\ HeadAfterMiss(k, n) \in Int
           /\ n = 1 => \A i \in Cells : k.seq_id[i] # {}
<1>. DEFINE busy == {i \in Cells : ~Free(k, i)}
            from == IF k.head = 0 THEN Size ELSE k.head
            giveUp == {i \in busy : /\ i + 1 >= from
                                    /\ \A j \in busy : j < i => j + 1 + n <= Size}
<1>0. k \in Cache
    BY DEF Sound
<1>1. busy \in SUBSET Nat /\ giveUp \in SUBSET Nat
    BY SizeAssumption DEF Cells
<1>2. ASSUME n <= Size
      PROVE  busy # {}
    <2>1. SUFFICES ASSUME busy = {}
                   PROVE  FALSE
        OBVIOUS
    <2>2. 0 \in Cells /\ 0 .. 0 + n - 1 \subseteq Cells
        BY <1>2, SizeAssumption DEF Cells
    <2>3. FitsAt(k, n, 0)
        BY <1>2, <2>1, <2>2, SizeAssumption DEF FitsAt
    <2>. QED
        BY <1>2, <2>2, <2>3 DEF CanPlace, Fits
<1>3. HeadAfterMiss(k, n) = IF n > Size THEN k.head
                            ELSE IF giveUp # {} THEN Least(giveUp) + 1 ELSE Least(busy) + 1
    BY DEF HeadAfterMiss
<1>4. ASSUME n = 1, NEW i \in Cells
      PROVE  k.seq_id[i] # {}
    <2>1. SUFFICES ASSUME k.seq_id[i] = {}
                   PROVE  FALSE
        OBVIOUS
    <2>2. k.pos[i] \in Int /\ ~(k.pos[i] >= 0)
        BY <1>0, <2>1 DEF Sound, Cache
    <2>3. i \in Int /\ i + 1 <= Size /\ 1 <= Size
        BY SizeAssumption DEF Cells
    <2>4. FitsAt(k, 1, i)
        BY <2>2, <2>3 DEF FitsAt, Free
    <2>. QED
        BY <1>4, <2>3, <2>4 DEF CanPlace, Fits
<1>. HIDE DEF busy, giveUp
<1>5. CASE n > Size
    BY <1>0, <1>3, <1>4, <1>5 DEF Cache
<1>6. CASE n <= Size /\ giveUp # {}
    <2>1. Least(giveUp) \in Nat
        BY <1>1, <1>6, LeastIsLeast, Zenon
    <2>. QED
        BY <1>3, <1>4, <1>6, <2>1, SizeAssumption
<1>7. CASE n <= Size /\ giveUp = {}
    <2>1. Least(busy) \in Nat
        BY <1>1, <1>2, <1>7, LeastIsLeast, Zenon
    <2>. QED
        BY <1>3, <1>4, <1>7, <2>1, SizeAssumption
<1>. QED
    BY <1>5, <1>6, <1>7, SizeAssumption

\* The ubatch u was placed from cell h on.
PlacedAt(k, r, u, h) ==
    /\ Sound(r) /\ Settled(r)
    /\ h \in Cells /\ h + Len(u) <= Size
    /\ \A i \in Cells :
        IF h <= i /\ i < h + Len(u)
        THEN /\ k.seq_id[i] = {}
             /\ r.seq_id[i] = u[i - h + 1].seqs
             /\ r.pos[i] = u[i - h + 1].pos
             /\ r.tok[i] = u[i - h + 1].tok
        ELSE /\ r.seq_id[i] = k.seq_id[i]
             /\ r.pos[i] = k.pos[i]
             /\ r.tok[i] = k.tok[i]
    /\ r.head = IF h + Len(u) >= Size THEN 0 ELSE h + Len(u)
    /\ r.used = k.used + Len(u)

\* A ubatch is placed in cells that were empty, and nothing else changes.
LEMMA PlacedCells ==
    ASSUME NEW k, Sound(k), Settled(k), NEW u \in Seq(AnyEntries), u # <<>>,
           NEW h \in Fits(k, Len(u))
    PROVE  PlacedAt(k, Compute(Place(k, u, h), u), u, h)
<1>. DEFINE n  == Len(u)
            in(i) == h <= i /\ i < h + n
            np == [i \in Cells |-> IF in(i) THEN u[i - h + 1].pos ELSE k.pos[i]]
            ns == [i \in Cells |-> IF in(i) THEN k.seq_id[i] \cup u[i - h + 1].seqs
                                            ELSE k.seq_id[i]]
            nu == k.used + n
            p  == Place(k, u, h)
            nt == [i \in Cells |-> IF in(i) THEN u[i - h + 1].tok ELSE p.tok[i]]
            nr == [i \in Cells |-> IF in(i) THEN u[i - h + 1].pos ELSE p.rot[i]]
            nh == IF h + n >= Size THEN 0 ELSE h + n
            r  == Compute(p, u)
<1>1. k \in Cache
    BY DEF Sound
<1>2. n \in Nat \ {0} /\ h \in Cells /\ h \in Int /\ h \in Nat /\ h + n <= Size
    BY EmptySeq, LenProperties, SizeAssumption DEF Fits, FitsAt, Cells
<1>3. ASSUME NEW i \in Cells, in(i)
      PROVE  u[i - h + 1] \in AnyEntries /\ k.seq_id[i] = {}
    <2>1. i \in Nat
        BY SizeAssumption DEF Cells
    <2>2. i - h + 1 \in 1 .. Len(u) /\ i \in h .. h + n - 1
        BY <1>2, <1>3, <2>1
    <2>3. Free(k, i)
        BY <2>2 DEF Fits, FitsAt
    <2>4. k.pos[i] \in Int /\ ~(k.pos[i] >= 0)
        BY <1>1, <2>3 DEF Free, Cache
    <2>. QED
        BY <2>2, <2>4, ElementOfSeq DEF Sound
<1>4. \A i \in Cells : in(i) => /\ u[i - h + 1].pos \in Nat
                                /\ u[i - h + 1].seqs \in SUBSET Seqs
                                /\ u[i - h + 1].seqs # {}
                                /\ u[i - h + 1].tok \in Tokens
    <2>1. \A e \in AnyEntries : /\ e.pos \in Nat /\ e.seqs \in SUBSET Seqs /\ e.seqs # {}
                                /\ e.tok \in Tokens
        BY DEF AnyEntries
    <2>. HIDE DEF in
    <2>. QED
        BY <1>3, <2>1
<1>5. np \in [Cells -> Int] /\ ns \in [Cells -> SUBSET Seqs] /\ nu \in Int
    <2>. HIDE DEF in, n
    <2>1. np \in [Cells -> Int]
        BY <1>1, <1>4 DEF Cache
    <2>2. ns \in [Cells -> SUBSET Seqs]
        BY <1>1, <1>4 DEF Cache
    <2>3. nu \in Int
        BY <1>1, <1>2 DEF Cache
    <2>. QED
        BY <2>1, <2>2, <2>3
<1>6. p = [k EXCEPT !.pos = np, !.seq_id = ns, !.head = h, !.used = nu]
    BY DEF Place
<1>7. /\ p \in Cache
      /\ p.pos = np /\ p.delta = k.delta /\ p.seq_id = ns /\ p.rot = k.rot
      /\ p.tok = k.tok /\ p.head = h /\ p.has_shift = k.has_shift /\ p.used = nu
      /\ p.do_defrag = k.do_defrag
    <2>. HIDE DEF np, ns, nu, p
    <2>. QED
        BY <1>1, <1>2, <1>5, <1>6, Zenon DEF Cache
<1>8. nt \in [Cells -> Tokens \cup {NoToken}] /\ nr \in [Cells -> Int]
    BY <1>1, <1>4, <1>7, Zenon DEF Cache
<1>9. nh \in Int
    BY <1>2
<1>10. r = [p EXCEPT !.tok = nt, !.rot = nr, !.head = nh]
    BY <1>7 DEF Compute
<1>11. \A i \in Cells :
         IF in(i) THEN /\ np[i] = u[i - h + 1].pos /\ nr[i] = np[i] /\ np[i] \in Nat
                       /\ ns[i] = u[i - h + 1].seqs /\ ns[i] # {}
                       /\ nt[i] = u[i - h + 1].tok
         ELSE np[i] = k.pos[i] /\ nr[i] = k.rot[i] /\ ns[i] = k.seq_id[i] /\ nt[i] = k.tok[i]
    BY <1>3, <1>4, <1>7
<1>12. /\ r \in Cache
       /\ r.pos = np /\ r.delta = k.delta /\ r.seq_id = ns /\ r.rot = nr /\ r.tok = nt
       /\ r.head = nh /\ r.has_shift = k.has_shift /\ r.used = nu
       /\ r.do_defrag = k.do_defrag
    <2>. HIDE DEF np, ns, nu, nt, nr, nh, p, r
    <2>. QED
        BY <1>7, <1>8, <1>9, <1>10, Zenon DEF Cache
<1>13. nh = (IF h + n >= Size THEN 0 ELSE h + n) /\ nu = k.used + n
    OBVIOUS
<1>. HIDE DEF np, ns, nu, nt, nr, nh, p, r
<1>14. ASSUME NEW i \in Cells
       PROVE  r.pos[i] >= 0 <=> r.seq_id[i] # {}
    <2>1. CASE in(i)
        BY <1>11, <1>12, <2>1
    <2>2. CASE ~in(i)
        BY <1>11, <1>12, <2>2 DEF Sound
    <2>. QED
        BY <2>1, <2>2
<1>15. ASSUME NEW i \in Cells, r.seq_id[i] # {}
       PROVE  r.rot[i] + r.delta[i] = r.pos[i]
    <2>1. k.delta[i] = 0 /\ np[i] \in Int
        BY <1>5 DEF Settled
    <2>2. CASE in(i)
        BY <1>11, <1>12, <2>1, <2>2
    <2>3. CASE ~in(i)
        BY <1>11, <1>12, <1>15, <2>3 DEF Sound
    <2>. QED
        BY <2>2, <2>3
<1>16. Sound(r) /\ Settled(r)
    BY <1>12, <1>14, <1>15 DEF Sound, Settled
<1>. HIDE DEF in
<1>17. \A i \in Cells : in(i) <=> h <= i /\ i < h + Len(u)
    BY DEF in
<1>18. PlacedAt(k, r, u, h)
    BY <1>2, <1>3, <1>11, <1>12, <1>13, <1>16, <1>17 DEF PlacedAt
<1>. QED
    BY <1>18 DEF r, p

-----------------------------------------------------------------------------
(* A sequence of tokens cut into parts.                                    *)

\* A product grows with its factor.
LEMMA TimesMonotone ==
    ASSUME NEW a \in Nat, NEW b \in Nat, a <= b, NEW n \in Nat
    PROVE  a * n <= b * n /\ a * n \in Nat
OBVIOUS

\* The number of parts of n that L tokens need.
LEMMA Rounded ==
    ASSUME NEW L \in Nat, NEW n \in Nat \ {0}
    PROVE  /\ (L + n - 1) \div n \in Nat
           /\ L <= ((L + n - 1) \div n) * n
           /\ ((L + n - 1) \div n) * n <= L + n - 1
OBVIOUS

\* How much the first j parts hold.
Upto(s, n, j) == IF j * n < Len(s) THEN j * n ELSE Len(s)

\* The parts are not empty and cover the sequence, in order.
PartsGood(T, s, n) ==
    /\ Len(Parts(s, n)) \in Nat
    /\ Upto(s, n, 0) = 0
    /\ Upto(s, n, Len(Parts(s, n))) = Len(s)
    /\ s # <<>> => Len(Parts(s, n)) # 0
    /\ \A j \in 1 .. Len(Parts(s, n)) :
        /\ Upto(s, n, j - 1) \in Nat /\ Upto(s, n, j) \in Nat
        /\ Upto(s, n, j) <= Len(s)
        /\ Parts(s, n)[j] \in Seq(T) /\ Parts(s, n)[j] # <<>>
        /\ Upto(s, n, j) = Upto(s, n, j - 1) + Len(Parts(s, n)[j])
        /\ \A i \in 1 .. Len(Parts(s, n)[j]) :
                Parts(s, n)[j][i] = s[Upto(s, n, j - 1) + i]

\* Parts cuts a sequence as PartsGood says.
LEMMA PartsUpto ==
    ASSUME NEW T, NEW s \in Seq(T), NEW n \in Nat \ {0}
    PROVE  PartsGood(T, s, n)
<1>. DEFINE L == Len(s)
            q == (L + n - 1) \div n
            part(j) == SubSeq(s, (j - 1) * n + 1, IF j * n < L THEN j * n ELSE L)
            P == [j \in 1 .. q |-> part(j)]
<1>1. L \in Nat /\ \A i \in 1 .. L : s[i] \in T
    BY LenProperties, ElementOfSeq
<1>2. q \in Nat /\ L <= q * n /\ q * n <= L + n - 1
    <2>. HIDE DEF L
    <2>. QED
        BY <1>1, Rounded, Zenon
<1>3. Parts(s, n) = P
    BY DEF Parts
<1>. HIDE DEF L, q
<1>4. Len(P) = q
    <2>. HIDE DEF part
    <2>. QED
        BY <1>2
<1>5. Upto(s, n, 0) = 0 /\ Upto(s, n, q) = L
    <2>1. 0 * n = 0
        OBVIOUS
    <2>. QED
        BY <1>1, <1>2, <2>1 DEF Upto, L
<1>6. s # <<>> => q # 0
    <2>1. s # <<>> => L # 0
        BY EmptySeq DEF L
    <2>2. q = 0 => q * n = 0
        OBVIOUS
    <2>. QED
        BY <1>1, <1>2, <2>1, <2>2
<1>7. ASSUME NEW j \in 1 .. q
      PROVE  LET a == (j - 1) * n
                 b == IF j * n < L THEN j * n ELSE L
             IN  /\ a \in Nat /\ b \in Nat /\ a < b /\ b <= L
                 /\ Upto(s, n, j - 1) = a /\ Upto(s, n, j) = b
    <2>1. (j - 1) * n <= (q - 1) * n /\ (j - 1) * n \in Nat
        <3>1. j - 1 \in Nat /\ q - 1 \in Nat /\ j - 1 <= q - 1
            BY <1>2
        <3>. QED
            BY <3>1, TimesMonotone
    <2>2. (q - 1) * n = q * n - n /\ (j - 1) * n = j * n - n /\ q * n \in Nat /\ j * n \in Nat
        BY <1>2
    <2>3. (j - 1) * n < L /\ (j - 1) * n < j * n
        BY <1>1, <1>2, <2>1, <2>2
    <2>. QED
        BY <1>1, <2>1, <2>2, <2>3 DEF Upto, L
<1>8. ASSUME NEW j \in 1 .. q
      PROVE  /\ Upto(s, n, j - 1) \in Nat /\ Upto(s, n, j) \in Nat
             /\ Upto(s, n, j) <= L
             /\ P[j] \in Seq(T) /\ P[j] # <<>>
             /\ Upto(s, n, j) = Upto(s, n, j - 1) + Len(P[j])
             /\ \A i \in 1 .. Len(P[j]) : P[j][i] = s[Upto(s, n, j - 1) + i]
    <2>1. PICK a \in Nat, b \in Nat :
                /\ a = (j - 1) * n /\ b = (IF j * n < L THEN j * n ELSE L)
                /\ a < b /\ b <= L
                /\ Upto(s, n, j - 1) = a /\ Upto(s, n, j) = b
        BY <1>7, Zenon
    <2>2. P[j] = SubSeq(s, a + 1, b)
        BY <2>1, Zenon
    <2>. HIDE DEF P, part
    <2>0. a < b
        BY <2>1, Zenon
    <2>3. /\ SubSeq(s, a + 1, b) \in Seq(T)
          /\ Len(SubSeq(s, a + 1, b)) = b - a
          /\ \A i \in 1 .. b - a : SubSeq(s, a + 1, b)[i] = s[a + i]
        <3>1. a + 1 \in Int /\ b \in Int /\ \A i \in a + 1 .. b : s[i] \in T
            BY <1>1, <2>1
        <3>2. /\ SubSeq(s, a + 1, b) \in Seq(T)
              /\ Len(SubSeq(s, a + 1, b)) = IF a + 1 <= b THEN b - (a + 1) + 1 ELSE 0
              /\ \A i \in 1 .. b - (a + 1) + 1 : SubSeq(s, a + 1, b)[i] = s[a + 1 + i - 1]
            BY <3>1, SubSeqProperties
        <3>3. a + 1 <= b /\ b - (a + 1) + 1 = b - a /\ \A i \in 1 .. b - a : a + 1 + i - 1 = a + i
            BY <2>0
        <3>. QED
            BY <3>2, <3>3
    <2>4. P[j] \in Seq(T) /\ Len(P[j]) = b - a /\ \A i \in 1 .. b - a : P[j][i] = s[a + i]
        BY <2>2, <2>3
    <2>5. P[j] # <<>>
        <3>1. b - a # 0
            BY <2>0
        <3>. QED
            BY <2>4, <3>1, EmptySeq
    <2>6. /\ Upto(s, n, j - 1) \in Nat /\ Upto(s, n, j) \in Nat /\ Upto(s, n, j) <= L
          /\ Upto(s, n, j) = Upto(s, n, j - 1) + (b - a)
        BY <2>1
    <2>7. \A i \in 1 .. Len(P[j]) : P[j][i] = s[Upto(s, n, j - 1) + i]
        BY <2>1, <2>4, Zenon
    <2>. QED
        BY <2>4, <2>5, <2>6, <2>7
<1>9. /\ Len(P) \in Nat /\ Upto(s, n, Len(P)) = L
      /\ s # <<>> => Len(P) # 0
    BY <1>2, <1>4, <1>5, <1>6
<1>10. \A j \in 1 .. Len(P) :
            /\ Upto(s, n, j - 1) \in Nat /\ Upto(s, n, j) \in Nat
            /\ Upto(s, n, j) <= L
            /\ P[j] \in Seq(T) /\ P[j] # <<>>
            /\ Upto(s, n, j) = Upto(s, n, j - 1) + Len(P[j])
            /\ \A i \in 1 .. Len(P[j]) : P[j][i] = s[Upto(s, n, j - 1) + i]
    BY <1>4, <1>8, Zenon
<1>. HIDE DEF P
<1>. QED
    BY <1>3, <1>5, <1>9, <1>10, Zenon DEF L, PartsGood

-----------------------------------------------------------------------------
(* Tokens put into cells.                                                  *)

\* r is k with the first m tokens of u in cells that were empty.
PutFirst(k, r, u, m) ==
    \E g \in [1 .. m -> Cells] :
        /\ \A i, j \in 1 .. m : g[i] = g[j] => i = j
        /\ \A j \in 1 .. m :
            /\ k.seq_id[g[j]] = {}
            /\ r.seq_id[g[j]] = u[j].seqs
            /\ r.pos[g[j]] = u[j].pos
            /\ r.tok[g[j]] = u[j].tok
        /\ \A c \in Cells : (\A j \in 1 .. m : g[j] # c) =>
            r.seq_id[c] = k.seq_id[c] /\ r.pos[c] = k.pos[c] /\ r.tok[c] = k.tok[c]

\* Before the first token.
LEMMA PutNone ==
    ASSUME NEW k, NEW r, SameCells(k, r), NEW u
    PROVE  PutFirst(k, r, u, 0)
<1>. DEFINE g == [j \in 1 .. 0 |-> 0]
<1>1. g \in [1 .. 0 -> Cells] /\ 1 .. 0 = {}
    OBVIOUS
<1>. QED
    BY <1>1, Zenon DEF PutFirst, SameCells

\* One placed ubatch more.
LEMMA PutMore ==
    ASSUME NEW k, NEW q, NEW r, NEW p, NEW m \in Nat, NEW u \in Seq(AnyEntries),
           PutFirst(k, q, u, m), SameCells(q, p),
           NEW v \in Seq(AnyEntries), NEW h, PlacedAt(p, r, v, h), m + Len(v) <= Len(u),
           \A i \in 1 .. Len(v) : v[i] = u[m + i]
    PROVE  PutFirst(k, r, u, m + Len(v))
<1>. DEFINE n == Len(v)
<1>1. PICK g \in [1 .. m -> Cells] :
        /\ \A i, j \in 1 .. m : g[i] = g[j] => i = j
        /\ \A j \in 1 .. m :
            /\ k.seq_id[g[j]] = {}
            /\ q.seq_id[g[j]] = u[j].seqs
            /\ q.pos[g[j]] = u[j].pos
            /\ q.tok[g[j]] = u[j].tok
        /\ \A c \in Cells : (\A j \in 1 .. m : g[j] # c) =>
            q.seq_id[c] = k.seq_id[c] /\ q.pos[c] = k.pos[c] /\ q.tok[c] = k.tok[c]
    BY Zenon DEF PutFirst
<1>2. n \in Nat /\ h \in Nat /\ h + n <= Size /\ Len(u) \in Nat
    BY LenProperties, SizeAssumption DEF PlacedAt, Cells
<1>. DEFINE f == [j \in 1 .. m + n |-> IF j <= m THEN g[j] ELSE h + (j - m) - 1]
<1>3. \A j \in 1 .. m : u[j].seqs # {}
    <2>1. \A j \in 1 .. m : u[j] \in AnyEntries
        BY <1>2, ElementOfSeq
    <2>. QED
        BY <2>1, Zenon DEF AnyEntries
<1>4. ASSUME NEW c \in Cells, h <= c, c < h + n
      PROVE  /\ \A j \in 1 .. m : g[j] # c
             /\ k.seq_id[c] = {}
             /\ c - h + 1 \in 1 .. n
             /\ r.seq_id[c] = u[m + (c - h + 1)].seqs
             /\ r.pos[c] = u[m + (c - h + 1)].pos
             /\ r.tok[c] = u[m + (c - h + 1)].tok
    <2>1. q.seq_id[c] = {} /\ c \in Nat
        BY <1>4, SizeAssumption DEF SameCells, PlacedAt, Cells
    <2>2. \A j \in 1 .. m : g[j] # c
        BY <1>1, <1>3, <2>1
    <2>3. k.seq_id[c] = {}
        BY <1>1, <2>1, <2>2, Zenon
    <2>4. c - h + 1 \in 1 .. n
        BY <1>2, <1>4, <2>1
    <2>5. v[c - h + 1] = u[m + (c - h + 1)]
        BY <2>4
    <2>6. r.seq_id[c] = v[c - h + 1].seqs /\ r.pos[c] = v[c - h + 1].pos
          /\ r.tok[c] = v[c - h + 1].tok
        BY <1>4 DEF PlacedAt
    <2>. QED
        BY <2>2, <2>3, <2>4, <2>5, <2>6
<1>5. ASSUME NEW c \in Cells, ~(h <= c /\ c < h + n)
      PROVE  r.seq_id[c] = q.seq_id[c] /\ r.pos[c] = q.pos[c] /\ r.tok[c] = q.tok[c]
    BY <1>5 DEF SameCells, PlacedAt
<1>6. ASSUME NEW j \in m + 1 .. m + n
      PROVE  /\ f[j] = h + (j - m) - 1 /\ f[j] \in Cells /\ h <= f[j] /\ f[j] < h + n
             /\ m + (f[j] - h + 1) = j
    BY <1>2, SizeAssumption DEF Cells
<1>7. \A j \in 1 .. m : f[j] = g[j] /\ f[j] \in Cells
    BY <1>2
<1>8. \A j \in 1 .. m + n : j \in 1 .. m \/ j \in m + 1 .. m + n
    BY <1>2
<1>9. f = [j \in 1 .. m + n |-> f[j]]
    OBVIOUS
<1>. HIDE DEF f, n
<1>10. f \in [1 .. m + n -> Cells]
    BY <1>6, <1>7, <1>8, <1>9, Zenon
<1>11. ASSUME NEW i \in 1 .. m + n, NEW j \in 1 .. m + n, f[i] = f[j]
       PROVE  i = j
    <2>1. CASE i \in 1 .. m /\ j \in 1 .. m
        BY <1>1, <1>7, <1>11, <2>1
    <2>2. CASE i \in 1 .. m /\ j \in m + 1 .. m + n
        BY <1>4, <1>6, <1>7, <1>11, <2>2
    <2>3. CASE i \in m + 1 .. m + n /\ j \in 1 .. m
        BY <1>4, <1>6, <1>7, <1>11, <2>3
    <2>4. CASE i \in m + 1 .. m + n /\ j \in m + 1 .. m + n
        BY <1>6, <1>11, <2>4, Zenon
    <2>. QED
        BY <1>8, <2>1, <2>2, <2>3, <2>4
<1>12. ASSUME NEW j \in 1 .. m + n
       PROVE  /\ k.seq_id[f[j]] = {}
              /\ r.seq_id[f[j]] = u[j].seqs
              /\ r.pos[f[j]] = u[j].pos
              /\ r.tok[f[j]] = u[j].tok
    <2>1. CASE j \in 1 .. m
        <3>1. f[j] = g[j] /\ g[j] \in Cells
            BY <1>7, <2>1, Zenon
        <3>2. ~(h <= g[j] /\ g[j] < h + n)
            BY <1>4, <2>1, <3>1
        <3>. QED
            BY <1>1, <1>5, <2>1, <3>1, <3>2
    <2>2. CASE j \in m + 1 .. m + n
        <3>1. PICK c \in Cells : c = f[j]
            BY <1>6, <2>2
        <3>2. h <= c /\ c < h + n /\ m + (c - h + 1) = j
            BY <1>6, <2>2, <3>1
        <3>3. /\ k.seq_id[c] = {}
              /\ r.seq_id[c] = u[m + (c - h + 1)].seqs
              /\ r.pos[c] = u[m + (c - h + 1)].pos
              /\ r.tok[c] = u[m + (c - h + 1)].tok
            BY <1>4, <3>2
        <3>. QED
            BY <3>1, <3>2, <3>3
    <2>. QED
        BY <1>8, <2>1, <2>2
<1>13. ASSUME NEW c \in Cells, \A j \in 1 .. m + n : f[j] # c
       PROVE  r.seq_id[c] = k.seq_id[c] /\ r.pos[c] = k.pos[c] /\ r.tok[c] = k.tok[c]
    <2>1. \A j \in 1 .. m : g[j] # c
        BY <1>2, <1>7, <1>13
    <2>2. ~(h <= c /\ c < h + n)
        <3>1. SUFFICES ASSUME h <= c, c < h + n
                       PROVE  FALSE
            OBVIOUS
        <3>2. c \in Nat /\ m + (c - h + 1) \in m + 1 .. m + n
            BY <1>2, <3>1, SizeAssumption DEF Cells
        <3>3. PICK j \in m + 1 .. m + n : j = m + (c - h + 1)
            BY <3>2
        <3>4. f[j] = h + (j - m) - 1 /\ j \in 1 .. m + n
            BY <1>2, <1>6
        <3>5. h + (j - m) - 1 = c
            BY <1>2, <3>2, <3>3
        <3>. QED
            BY <1>13, <3>4, <3>5
    <2>. QED
        BY <1>1, <1>5, <2>1, <2>2
<1>14. PutFirst(k, r, u, m + n)
    BY <1>10, <1>11, <1>12, <1>13, Zenon DEF PutFirst
<1>. QED
    BY <1>14 DEF n

-----------------------------------------------------------------------------
(* The loops.                                                              *)

\* Each of them has a value all along.
LEMMA DecodeLoop ==
    ASSUME NEW k, NEW tokens, Len(Parts(tokens, NUbatch)) \in Nat
    PROVE  \E f :
            /\ Decode(k, tokens) = f[Len(Parts(tokens, NUbatch))]
            /\ f[0] = [kv |-> k, ok |-> TRUE, placed |-> 0]
            /\ \A i \in 1 .. Len(Parts(tokens, NUbatch)) : f[i] = DecodeUbatch(f[i - 1], Parts(tokens, NUbatch)[i])
<1>. DEFINE n == Len(Parts(tokens, NUbatch))
            base == [kv |-> k, ok |-> TRUE, placed |-> 0]
            Op(v, i) == DecodeUbatch(v, Parts(tokens, NUbatch)[i])
            all(f) == [i \in 0 .. n |-> IF i = 0 THEN base ELSE Op(f[i - 1], i)]
            F == CHOOSE f : f = all(f)
            S == {m \in 0 .. n : \E f : /\ f = [i \in 0 .. m |-> f[i]]
                                        /\ f[0] = base
                                        /\ \A i \in 1 .. m : f[i] = Op(f[i - 1], i)}
<1>1. Decode(k, tokens) = F[n]
    BY DEF Decode
<1>2. n \in Nat
    OBVIOUS
<1>. HIDE DEF n, base, Op
<1>3. 0 \in S
    <2>. DEFINE h == [i \in 0 .. 0 |-> base]
    <2>1. /\ h = [i \in 0 .. 0 |-> h[i]] /\ h[0] = base
          /\ \A i \in 1 .. 0 : h[i] = Op(h[i - 1], i)
        OBVIOUS
    <2>. HIDE DEF h
    <2>2. 0 \in 0 .. n
        BY <1>2
    <2>. QED
        BY <2>1, <2>2
<1>4. ASSUME NEW m \in 1 .. n, m - 1 \in S
      PROVE  m \in S
    <2>1. PICK f : f[0] = base /\ \A i \in 1 .. m - 1 : f[i] = Op(f[i - 1], i)
        BY <1>4
    <2>. DEFINE h == [i \in 0 .. m |-> IF i = m THEN Op(f[m - 1], m) ELSE f[i]]
    <2>2. h = [i \in 0 .. m |-> h[i]] /\ h[0] = base
        BY <1>2, <2>1
    <2>3. ASSUME NEW i \in 1 .. m
          PROVE  h[i] = Op(h[i - 1], i)
        <3>1. i - 1 \in 0 .. m /\ i - 1 # m /\ i \in 0 .. m
            BY <1>2
        <3>2. h[i - 1] = f[i - 1]
            BY <3>1
        <3>3. CASE i = m
            BY <3>1, <3>2, <3>3
        <3>4. CASE i # m
            <4>1. i \in 1 .. m - 1
                BY <1>2, <3>4
            <4>. QED
                BY <2>1, <3>1, <3>2, <3>4, <4>1
        <3>. QED
            BY <3>3, <3>4
    <2>. HIDE DEF h
    <2>4. m \in 0 .. n
        BY <1>2
    <2>. QED
        BY <2>2, <2>3, <2>4, Zenon
<1>5. n \in S
    <2>. HIDE DEF S
    <2>1. \A i \in 0 .. n : i \in S
        BY <1>2, <1>3, <1>4, Reached, Zenon
    <2>. QED
        BY <1>2, <2>1
<1>6. PICK f : f = [i \in 0 .. n |-> f[i]] /\ f[0] = base /\ \A i \in 1 .. n : f[i] = Op(f[i - 1], i)
    BY <1>5
<1>7. \A i \in 0 .. n : f[i] = IF i = 0 THEN base ELSE Op(f[i - 1], i)
    <2>1. \A i \in 0 .. n : i = 0 \/ i \in 1 .. n
        BY <1>2
    <2>. QED
        BY <1>6, <2>1, Zenon
<1>8. f = all(f)
    BY <1>6, <1>7, Zenon
<1>9. F = all(F)
    BY <1>8, Zenon
<1>. HIDE DEF F
<1>10. F[0] = base /\ \A i \in 1 .. n : F[i] = Op(F[i - 1], i)
    <2>1. 0 \in 0 .. n /\ \A i \in 1 .. n : i \in 0 .. n /\ i # 0
        BY <1>2
    <2>2. \A i \in 0 .. n : F[i] = IF i = 0 THEN base ELSE Op(F[i - 1], i)
        BY <1>9, Zenon
    <2>. QED
        BY <2>1, <2>2
<1>. QED
    BY <1>1, <1>10 DEF n, base, Op

\* The loop over the chunks of the system prompt.
LEMMA ChunksLoop ==
    ASSUME NEW k, NEW tokens, Len(Parts(tokens, NBatch)) \in Nat
    PROVE  \E f :
            /\ DecodeChunks(k, tokens) = f[Len(Parts(tokens, NBatch))]
            /\ f[0] = [kv |-> k, ok |-> TRUE, placed |-> 0]
            /\ \A i \in 1 .. Len(Parts(tokens, NBatch)) : f[i] = DecodeChunk(f[i - 1], Parts(tokens, NBatch)[i])
<1>. DEFINE n == Len(Parts(tokens, NBatch))
            base == [kv |-> k, ok |-> TRUE, placed |-> 0]
            Op(v, i) == DecodeChunk(v, Parts(tokens, NBatch)[i])
            all(f) == [i \in 0 .. n |-> IF i = 0 THEN base ELSE Op(f[i - 1], i)]
            F == CHOOSE f : f = all(f)
            S == {m \in 0 .. n : \E f : /\ f = [i \in 0 .. m |-> f[i]]
                                        /\ f[0] = base
                                        /\ \A i \in 1 .. m : f[i] = Op(f[i - 1], i)}
<1>1. DecodeChunks(k, tokens) = F[n]
    BY DEF DecodeChunks
<1>2. n \in Nat
    OBVIOUS
<1>. HIDE DEF n, base, Op
<1>3. 0 \in S
    <2>. DEFINE h == [i \in 0 .. 0 |-> base]
    <2>1. /\ h = [i \in 0 .. 0 |-> h[i]] /\ h[0] = base
          /\ \A i \in 1 .. 0 : h[i] = Op(h[i - 1], i)
        OBVIOUS
    <2>. HIDE DEF h
    <2>2. 0 \in 0 .. n
        BY <1>2
    <2>. QED
        BY <2>1, <2>2
<1>4. ASSUME NEW m \in 1 .. n, m - 1 \in S
      PROVE  m \in S
    <2>1. PICK f : f[0] = base /\ \A i \in 1 .. m - 1 : f[i] = Op(f[i - 1], i)
        BY <1>4
    <2>. DEFINE h == [i \in 0 .. m |-> IF i = m THEN Op(f[m - 1], m) ELSE f[i]]
    <2>2. h = [i \in 0 .. m |-> h[i]] /\ h[0] = base
        BY <1>2, <2>1
    <2>3. ASSUME NEW i \in 1 .. m
          PROVE  h[i] = Op(h[i - 1], i)
        <3>1. i - 1 \in 0 .. m /\ i - 1 # m /\ i \in 0 .. m
            BY <1>2
        <3>2. h[i - 1] = f[i - 1]
            BY <3>1
        <3>3. CASE i = m
            BY <3>1, <3>2, <3>3
        <3>4. CASE i # m
            <4>1. i \in 1 .. m - 1
                BY <1>2, <3>4
            <4>. QED
                BY <2>1, <3>1, <3>2, <3>4, <4>1
        <3>. QED
            BY <3>3, <3>4
    <2>. HIDE DEF h
    <2>4. m \in 0 .. n
        BY <1>2
    <2>. QED
        BY <2>2, <2>3, <2>4, Zenon
<1>5. n \in S
    <2>. HIDE DEF S
    <2>1. \A i \in 0 .. n : i \in S
        BY <1>2, <1>3, <1>4, Reached, Zenon
    <2>. QED
        BY <1>2, <2>1
<1>6. PICK f : f = [i \in 0 .. n |-> f[i]] /\ f[0] = base /\ \A i \in 1 .. n : f[i] = Op(f[i - 1], i)
    BY <1>5
<1>7. \A i \in 0 .. n : f[i] = IF i = 0 THEN base ELSE Op(f[i - 1], i)
    <2>1. \A i \in 0 .. n : i = 0 \/ i \in 1 .. n
        BY <1>2
    <2>. QED
        BY <1>6, <2>1, Zenon
<1>8. f = all(f)
    BY <1>6, <1>7, Zenon
<1>9. F = all(F)
    BY <1>8, Zenon
<1>. HIDE DEF F
<1>10. F[0] = base /\ \A i \in 1 .. n : F[i] = Op(F[i - 1], i)
    <2>1. 0 \in 0 .. n /\ \A i \in 1 .. n : i \in 0 .. n /\ i # 0
        BY <1>2
    <2>2. \A i \in 0 .. n : F[i] = IF i = 0 THEN base ELSE Op(F[i - 1], i)
        BY <1>9, Zenon
    <2>. QED
        BY <2>1, <2>2
<1>. QED
    BY <1>1, <1>10 DEF n, base, Op

\* The loop that copies the system prompt to all slots.
LEMMA CopiedLoop ==
    ASSUME NEW k
    PROVE  \E f :
            /\ CopiedToAll(k) = f[NSlots]
            /\ f[0] = k
            /\ \A i \in 1 .. NSlots : f[i] = SeqCp(f[i - 1], 0, i, -1, -1)
<1>. DEFINE n == NSlots
            base == k
            Op(v, i) == SeqCp(v, 0, i, -1, -1)
            all(f) == [i \in 0 .. n |-> IF i = 0 THEN base ELSE Op(f[i - 1], i)]
            F == CHOOSE f : f = all(f)
            S == {m \in 0 .. n : \E f : /\ f = [i \in 0 .. m |-> f[i]]
                                        /\ f[0] = base
                                        /\ \A i \in 1 .. m : f[i] = Op(f[i - 1], i)}
<1>1. CopiedToAll(k) = F[n]
    BY DEF CopiedToAll
<1>2. n \in Nat
    BY SlotsAssumption
<1>. HIDE DEF n, base, Op
<1>3. 0 \in S
    <2>. DEFINE h == [i \in 0 .. 0 |-> base]
    <2>1. /\ h = [i \in 0 .. 0 |-> h[i]] /\ h[0] = base
          /\ \A i \in 1 .. 0 : h[i] = Op(h[i - 1], i)
        OBVIOUS
    <2>. HIDE DEF h
    <2>2. 0 \in 0 .. n
        BY <1>2
    <2>. QED
        BY <2>1, <2>2
<1>4. ASSUME NEW m \in 1 .. n, m - 1 \in S
      PROVE  m \in S
    <2>1. PICK f : f[0] = base /\ \A i \in 1 .. m - 1 : f[i] = Op(f[i - 1], i)
        BY <1>4
    <2>. DEFINE h == [i \in 0 .. m |-> IF i = m THEN Op(f[m - 1], m) ELSE f[i]]
    <2>2. h = [i \in 0 .. m |-> h[i]] /\ h[0] = base
        BY <1>2, <2>1
    <2>3. ASSUME NEW i \in 1 .. m
          PROVE  h[i] = Op(h[i - 1], i)
        <3>1. i - 1 \in 0 .. m /\ i - 1 # m /\ i \in 0 .. m
            BY <1>2
        <3>2. h[i - 1] = f[i - 1]
            BY <3>1
        <3>3. CASE i = m
            BY <3>1, <3>2, <3>3
        <3>4. CASE i # m
            <4>1. i \in 1 .. m - 1
                BY <1>2, <3>4
            <4>. QED
                BY <2>1, <3>1, <3>2, <3>4, <4>1
        <3>. QED
            BY <3>3, <3>4
    <2>. HIDE DEF h
    <2>4. m \in 0 .. n
        BY <1>2
    <2>. QED
        BY <2>2, <2>3, <2>4, Zenon
<1>5. n \in S
    <2>. HIDE DEF S
    <2>1. \A i \in 0 .. n : i \in S
        BY <1>2, <1>3, <1>4, Reached
    <2>. QED
        BY <1>2, <2>1
<1>6. PICK f : f = [i \in 0 .. n |-> f[i]] /\ f[0] = base /\ \A i \in 1 .. n : f[i] = Op(f[i - 1], i)
    BY <1>5
<1>7. \A i \in 0 .. n : f[i] = IF i = 0 THEN base ELSE Op(f[i - 1], i)
    <2>1. \A i \in 0 .. n : i = 0 \/ i \in 1 .. n
        BY <1>2
    <2>. QED
        BY <1>6, <2>1, Zenon
<1>8. f = all(f)
    BY <1>6, <1>7, Zenon
<1>9. F = all(F)
    BY <1>8, Zenon
<1>. HIDE DEF F
<1>10. F[0] = base /\ \A i \in 1 .. n : F[i] = Op(F[i - 1], i)
    <2>1. 0 \in 0 .. n /\ \A i \in 1 .. n : i \in 0 .. n /\ i # 0
        BY <1>2
    <2>2. \A i \in 0 .. n : F[i] = IF i = 0 THEN base ELSE Op(F[i - 1], i)
        BY <1>9, Zenon
    <2>. QED
        BY <2>1, <2>2
<1>. QED
    BY <1>1, <1>10 DEF n, base, Op

\* The loop of the context shifts.
LEMMA ShiftedLoop ==
    ASSUME NEW w
    PROVE  \E f :
            /\ AllShifted(w) = f[NSlots]
            /\ f[0] = w
            /\ \A i \in 1 .. NSlots : f[i] = Shifted(f[i - 1], i - 1)
<1>. DEFINE n == NSlots
            base == w
            Op(v, i) == Shifted(v, i - 1)
            all(f) == [i \in 0 .. n |-> IF i = 0 THEN base ELSE Op(f[i - 1], i)]
            F == CHOOSE f : f = all(f)
            S == {m \in 0 .. n : \E f : /\ f = [i \in 0 .. m |-> f[i]]
                                        /\ f[0] = base
                                        /\ \A i \in 1 .. m : f[i] = Op(f[i - 1], i)}
<1>1. AllShifted(w) = F[n]
    BY DEF AllShifted
<1>2. n \in Nat
    BY SlotsAssumption
<1>. HIDE DEF n, base, Op
<1>3. 0 \in S
    <2>. DEFINE h == [i \in 0 .. 0 |-> base]
    <2>1. /\ h = [i \in 0 .. 0 |-> h[i]] /\ h[0] = base
          /\ \A i \in 1 .. 0 : h[i] = Op(h[i - 1], i)
        OBVIOUS
    <2>. HIDE DEF h
    <2>2. 0 \in 0 .. n
        BY <1>2
    <2>. QED
        BY <2>1, <2>2
<1>4. ASSUME NEW m \in 1 .. n, m - 1 \in S
      PROVE  m \in S
    <2>1. PICK f : f[0] = base /\ \A i \in 1 .. m - 1 : f[i] = Op(f[i - 1], i)
        BY <1>4
    <2>. DEFINE h == [i \in 0 .. m |-> IF i = m THEN Op(f[m - 1], m) ELSE f[i]]
    <2>2. h = [i \in 0 .. m |-> h[i]] /\ h[0] = base
        BY <1>2, <2>1
    <2>3. ASSUME NEW i \in 1 .. m
          PROVE  h[i] = Op(h[i - 1], i)
        <3>1. i - 1 \in 0 .. m /\ i - 1 # m /\ i \in 0 .. m
            BY <1>2
        <3>2. h[i - 1] = f[i - 1]
            BY <3>1
        <3>3. CASE i = m
            BY <3>1, <3>2, <3>3
        <3>4. CASE i # m
            <4>1. i \in 1 .. m - 1
                BY <1>2, <3>4
            <4>. QED
                BY <2>1, <3>1, <3>2, <3>4, <4>1
        <3>. QED
            BY <3>3, <3>4
    <2>. HIDE DEF h
    <2>4. m \in 0 .. n
        BY <1>2
    <2>. QED
        BY <2>2, <2>3, <2>4, Zenon
<1>5. n \in S
    <2>. HIDE DEF S
    <2>1. \A i \in 0 .. n : i \in S
        BY <1>2, <1>3, <1>4, Reached
    <2>. QED
        BY <1>2, <2>1
<1>6. PICK f : f = [i \in 0 .. n |-> f[i]] /\ f[0] = base /\ \A i \in 1 .. n : f[i] = Op(f[i - 1], i)
    BY <1>5
<1>7. \A i \in 0 .. n : f[i] = IF i = 0 THEN base ELSE Op(f[i - 1], i)
    <2>1. \A i \in 0 .. n : i = 0 \/ i \in 1 .. n
        BY <1>2
    <2>. QED
        BY <1>6, <2>1, Zenon
<1>8. f = all(f)
    BY <1>6, <1>7, Zenon
<1>9. F = all(F)
    BY <1>8, Zenon
<1>. HIDE DEF F
<1>10. F[0] = base /\ \A i \in 1 .. n : F[i] = Op(F[i - 1], i)
    <2>1. 0 \in 0 .. n /\ \A i \in 1 .. n : i \in 0 .. n /\ i # 0
        BY <1>2
    <2>2. \A i \in 0 .. n : F[i] = IF i = 0 THEN base ELSE Op(F[i - 1], i)
        BY <1>9, Zenon
    <2>. QED
        BY <2>1, <2>2
<1>. QED
    BY <1>1, <1>10 DEF n, base, Op

\* The loop of the sampled tokens.
LEMMA SampledLoop ==
    ASSUME NEW w
    PROVE  \E f :
            /\ AllSampled(w) = f[NSlots]
            /\ f[0] = w
            /\ \A i \in 1 .. NSlots : f[i] = SampledAdded(f[i - 1], i - 1)
<1>. DEFINE n == NSlots
            base == w
            Op(v, i) == SampledAdded(v, i - 1)
            all(f) == [i \in 0 .. n |-> IF i = 0 THEN base ELSE Op(f[i - 1], i)]
            F == CHOOSE f : f = all(f)
            S == {m \in 0 .. n : \E f : /\ f = [i \in 0 .. m |-> f[i]]
                                        /\ f[0] = base
                                        /\ \A i \in 1 .. m : f[i] = Op(f[i - 1], i)}
<1>1. AllSampled(w) = F[n]
    BY DEF AllSampled
<1>2. n \in Nat
    BY SlotsAssumption
<1>. HIDE DEF n, base, Op
<1>3. 0 \in S
    <2>. DEFINE h == [i \in 0 .. 0 |-> base]
    <2>1. /\ h = [i \in 0 .. 0 |-> h[i]] /\ h[0] = base
          /\ \A i \in 1 .. 0 : h[i] = Op(h[i - 1], i)
        OBVIOUS
    <2>. HIDE DEF h
    <2>2. 0 \in 0 .. n
        BY <1>2
    <2>. QED
        BY <2>1, <2>2
<1>4. ASSUME NEW m \in 1 .. n, m - 1 \in S
      PROVE  m \in S
    <2>1. PICK f : f[0] = base /\ \A i \in 1 .. m - 1 : f[i] = Op(f[i - 1], i)
        BY <1>4
    <2>. DEFINE h == [i \in 0 .. m |-> IF i = m THEN Op(f[m - 1], m) ELSE f[i]]
    <2>2. h = [i \in 0 .. m |-> h[i]] /\ h[0] = base
        BY <1>2, <2>1
    <2>3. ASSUME NEW i \in 1 .. m
          PROVE  h[i] = Op(h[i - 1], i)
        <3>1. i - 1 \in 0 .. m /\ i - 1 # m /\ i \in 0 .. m
            BY <1>2
        <3>2. h[i - 1] = f[i - 1]
            BY <3>1
        <3>3. CASE i = m
            BY <3>1, <3>2, <3>3
        <3>4. CASE i # m
            <4>1. i \in 1 .. m - 1
                BY <1>2, <3>4
            <4>. QED
                BY <2>1, <3>1, <3>2, <3>4, <4>1
        <3>. QED
            BY <3>3, <3>4
    <2>. HIDE DEF h
    <2>4. m \in 0 .. n
        BY <1>2
    <2>. QED
        BY <2>2, <2>3, <2>4, Zenon
<1>5. n \in S
    <2>. HIDE DEF S
    <2>1. \A i \in 0 .. n : i \in S
        BY <1>2, <1>3, <1>4, Reached
    <2>. QED
        BY <1>2, <2>1
<1>6. PICK f : f = [i \in 0 .. n |-> f[i]] /\ f[0] = base /\ \A i \in 1 .. n : f[i] = Op(f[i - 1], i)
    BY <1>5
<1>7. \A i \in 0 .. n : f[i] = IF i = 0 THEN base ELSE Op(f[i - 1], i)
    <2>1. \A i \in 0 .. n : i = 0 \/ i \in 1 .. n
        BY <1>2
    <2>. QED
        BY <1>6, <2>1, Zenon
<1>8. f = all(f)
    BY <1>6, <1>7, Zenon
<1>9. F = all(F)
    BY <1>8, Zenon
<1>. HIDE DEF F
<1>10. F[0] = base /\ \A i \in 1 .. n : F[i] = Op(F[i - 1], i)
    <2>1. 0 \in 0 .. n /\ \A i \in 1 .. n : i \in 0 .. n /\ i # 0
        BY <1>2
    <2>2. \A i \in 0 .. n : F[i] = IF i = 0 THEN base ELSE Op(F[i - 1], i)
        BY <1>9, Zenon
    <2>. QED
        BY <2>1, <2>2
<1>. QED
    BY <1>1, <1>10 DEF n, base, Op

\* The loop of the prompts.
LEMMA LoadedLoop ==
    ASSUME NEW w
    PROVE  \E f :
            /\ AllLoaded(w) = f[NSlots]
            /\ f[0] = w
            /\ \A i \in 1 .. NSlots : f[i] = PromptLoaded(f[i - 1], i - 1)
<1>. DEFINE n == NSlots
            base == w
            Op(v, i) == PromptLoaded(v, i - 1)
            all(f) == [i \in 0 .. n |-> IF i = 0 THEN base ELSE Op(f[i - 1], i)]
            F == CHOOSE f : f = all(f)
            S == {m \in 0 .. n : \E f : /\ f = [i \in 0 .. m |-> f[i]]
                                        /\ f[0] = base
                                        /\ \A i \in 1 .. m : f[i] = Op(f[i - 1], i)}
<1>1. AllLoaded(w) = F[n]
    BY DEF AllLoaded
<1>2. n \in Nat
    BY SlotsAssumption
<1>. HIDE DEF n, base, Op
<1>3. 0 \in S
    <2>. DEFINE h == [i \in 0 .. 0 |-> base]
    <2>1. /\ h = [i \in 0 .. 0 |-> h[i]] /\ h[0] = base
          /\ \A i \in 1 .. 0 : h[i] = Op(h[i - 1], i)
        OBVIOUS
    <2>. HIDE DEF h
    <2>2. 0 \in 0 .. n
        BY <1>2
    <2>. QED
        BY <2>1, <2>2
<1>4. ASSUME NEW m \in 1 .. n, m - 1 \in S
      PROVE  m \in S
    <2>1. PICK f : f[0] = base /\ \A i \in 1 .. m - 1 : f[i] = Op(f[i - 1], i)
        BY <1>4
    <2>. DEFINE h == [i \in 0 .. m |-> IF i = m THEN Op(f[m - 1], m) ELSE f[i]]
    <2>2. h = [i \in 0 .. m |-> h[i]] /\ h[0] = base
        BY <1>2, <2>1
    <2>3. ASSUME NEW i \in 1 .. m
          PROVE  h[i] = Op(h[i - 1], i)
        <3>1. i - 1 \in 0 .. m /\ i - 1 # m /\ i \in 0 .. m
            BY <1>2
        <3>2. h[i - 1] = f[i - 1]
            BY <3>1
        <3>3. CASE i = m
            BY <3>1, <3>2, <3>3
        <3>4. CASE i # m
            <4>1. i \in 1 .. m - 1
                BY <1>2, <3>4
            <4>. QED
                BY <2>1, <3>1, <3>2, <3>4, <4>1
        <3>. QED
            BY <3>3, <3>4
    <2>. HIDE DEF h
    <2>4. m \in 0 .. n
        BY <1>2
    <2>. QED
        BY <2>2, <2>3, <2>4, Zenon
<1>5. n \in S
    <2>. HIDE DEF S
    <2>1. \A i \in 0 .. n : i \in S
        BY <1>2, <1>3, <1>4, Reached
    <2>. QED
        BY <1>2, <2>1
<1>6. PICK f : f = [i \in 0 .. n |-> f[i]] /\ f[0] = base /\ \A i \in 1 .. n : f[i] = Op(f[i - 1], i)
    BY <1>5
<1>7. \A i \in 0 .. n : f[i] = IF i = 0 THEN base ELSE Op(f[i - 1], i)
    <2>1. \A i \in 0 .. n : i = 0 \/ i \in 1 .. n
        BY <1>2
    <2>. QED
        BY <1>6, <2>1, Zenon
<1>8. f = all(f)
    BY <1>6, <1>7, Zenon
<1>9. F = all(F)
    BY <1>8, Zenon
<1>. HIDE DEF F
<1>10. F[0] = base /\ \A i \in 1 .. n : F[i] = Op(F[i - 1], i)
    <2>1. 0 \in 0 .. n /\ \A i \in 1 .. n : i \in 0 .. n /\ i # 0
        BY <1>2
    <2>2. \A i \in 0 .. n : F[i] = IF i = 0 THEN base ELSE Op(F[i - 1], i)
        BY <1>9, Zenon
    <2>. QED
        BY <2>1, <2>2
<1>. QED
    BY <1>1, <1>10 DEF n, base, Op

-----------------------------------------------------------------------------
(* llama_decode.                                                           *)

Outcome(d) == d = [kv |-> d.kv, ok |-> d.ok, placed |-> d.placed] /\ d.ok \in BOOLEAN

AllUsed(k) == \A i \in Cells : k.seq_id[i] # {}

UbatchPlaced(d, e, v) ==
    /\ e.ok /\ e.placed = d.placed + Len(v)
    /\ \E h, p : Sound(p) /\ Settled(p) /\ SameCells(d.kv, p) /\ PlacedAt(p, e.kv, v, h)

UbatchMissed(d, e, v) ==
    /\ ~e.ok /\ e.placed = d.placed
    /\ Sound(e.kv) /\ Settled(e.kv) /\ SameCells(d.kv, e.kv)
    /\ Len(v) = 1 => AllUsed(e.kv)

\* One turn of the loop of llama_decode places the ubatch, or misses and changes no
\* cell, or was preceded by a miss and does nothing.
LEMMA UbatchDone ==
    ASSUME NEW d, Outcome(d), Sound(d.kv), NEW v \in Seq(AnyEntries), v # <<>>
    PROVE  /\ Outcome(DecodeUbatch(d, v))
           /\ ~d.ok => DecodeUbatch(d, v) = d
           /\ d.ok => \/ UbatchPlaced(d, DecodeUbatch(d, v), v)
                      \/ UbatchMissed(d, DecodeUbatch(d, v), v)
<1>. DEFINE n == Len(v)
            k == Prepared(d.kv, n)
            e == DecodeUbatch(d, v)
            r == Compute(Place(k, v, FindSlot(k, n)), v)
            q == [k EXCEPT !.head = HeadAfterMiss(k, n)]
<1>1. n \in Nat \ {0} /\ n \in Nat
    BY EmptySeq, LenProperties
<1>2. Sound(k) /\ Settled(k) /\ SameCells(d.kv, k)
    BY <1>1, PreparedCells
<1>3. CASE ~d.ok
    BY <1>3 DEF DecodeUbatch
<1>4. CASE d.ok /\ CanPlace(k, n)
    <2>1. e = [d EXCEPT !.kv = r, !.placed = @ + n]
        BY <1>4 DEF DecodeUbatch
    <2>2. FindSlot(k, n) \in Fits(k, n)
        BY <1>4, FindSlotFits
    <2>3. PlacedAt(k, r, v, FindSlot(k, n))
        <3>. HIDE DEF k
        <3>. QED
            BY <1>2, <2>2, PlacedCells
    <2>. HIDE DEF r, e
    <2>4. e = [kv |-> r, ok |-> d.ok, placed |-> d.placed + n]
        BY <2>1, Zenon DEF Outcome
    <2>5. e.kv = r /\ e.ok /\ e.placed = d.placed + n /\ Outcome(e)
        BY <1>4, <2>4 DEF Outcome
    <2>6. UbatchPlaced(d, e, v)
        <3>. HIDE DEF k
        <3>. QED
            BY <1>2, <2>3, <2>5 DEF UbatchPlaced
    <2>. QED
        BY <1>4, <2>5, <2>6 DEF e
<1>5. CASE d.ok /\ ~CanPlace(k, n)
    <2>1. e = [d EXCEPT !.kv = q, !.ok = FALSE]
        BY <1>5 DEF DecodeUbatch
    <2>2. HeadAfterMiss(k, n) \in Int /\ (n = 1 => AllUsed(k))
        <3>. HIDE DEF k
        <3>. QED
            BY <1>1, <1>2, <1>5, MissedHead, Zenon DEF AllUsed
    <2>3. Sound(q) /\ Settled(q) /\ SameCells(k, q)
        <3>. HIDE DEF k
        <3>. QED
            BY <1>2, <2>2, HeadMoved
    <2>. HIDE DEF q, e, k
    <2>4. e = [kv |-> q, ok |-> FALSE, placed |-> d.placed]
        BY <2>1, Zenon DEF Outcome
    <2>5. e.kv = q /\ ~e.ok /\ e.placed = d.placed /\ Outcome(e)
        BY <2>4 DEF Outcome
    <2>6. SameCells(d.kv, q)
        BY <1>2, <2>3 DEF SameCells
    <2>7. n = 1 => AllUsed(q)
        BY <2>2, <2>3 DEF SameCells, AllUsed
    <2>8. UbatchMissed(d, e, v)
        BY <2>3, <2>5, <2>6, <2>7 DEF UbatchMissed
    <2>. QED
        BY <1>5, <2>5, <2>8 DEF e
<1>. QED
    BY <1>3, <1>4, <1>5

\* What a decode of u makes of k, of which m tokens were to be placed.
DecodeMade(k, u, d, m) ==
    /\ Outcome(d) /\ Sound(d.kv)
    /\ d.placed \in 0 .. m
    /\ d.ok => d.placed = m
    /\ PutFirst(k, d.kv, u, d.placed)
    /\ m # 0 \/ ~d.ok => Settled(d.kv)
    /\ ~d.ok /\ Len(u) = 1 => AllUsed(d.kv)

\* What was put stays when the head alone moves.
LEMMA PutSame ==
    ASSUME NEW k, NEW q, NEW r, NEW u, NEW m, PutFirst(k, q, u, m), SameCells(q, r),
           NEW L \in Nat, m \in 0 .. L
    PROVE  PutFirst(k, r, u, m)
<1>1. PICK g \in [1 .. m -> Cells] :
        /\ \A i, j \in 1 .. m : g[i] = g[j] => i = j
        /\ \A j \in 1 .. m :
            /\ k.seq_id[g[j]] = {}
            /\ q.seq_id[g[j]] = u[j].seqs
            /\ q.pos[g[j]] = u[j].pos
            /\ q.tok[g[j]] = u[j].tok
        /\ \A c \in Cells : (\A j \in 1 .. m : g[j] # c) =>
            q.seq_id[c] = k.seq_id[c] /\ q.pos[c] = k.pos[c] /\ q.tok[c] = k.tok[c]
    BY DEF PutFirst
<1>2. \A j \in 1 .. m : g[j] \in Cells
    OBVIOUS
<1>3. \A j \in 1 .. m :
            /\ k.seq_id[g[j]] = {}
            /\ r.seq_id[g[j]] = u[j].seqs
            /\ r.pos[g[j]] = u[j].pos
            /\ r.tok[g[j]] = u[j].tok
    BY <1>1, <1>2 DEF SameCells
<1>4. \A c \in Cells : (\A j \in 1 .. m : g[j] # c) =>
            r.seq_id[c] = k.seq_id[c] /\ r.pos[c] = k.pos[c] /\ r.tok[c] = k.tok[c]
    BY <1>1 DEF SameCells
<1>. QED
    BY <1>1, <1>3, <1>4 DEF PutFirst

\* One ubatch more.
LEMMA UbatchMade ==
    ASSUME NEW k, NEW u \in Seq(AnyEntries), NEW d, NEW m \in Nat, DecodeMade(k, u, d, m),
           NEW v \in Seq(AnyEntries), v # <<>>, m + Len(v) <= Len(u),
           \A i \in 1 .. Len(v) : v[i] = u[m + i]
    PROVE  DecodeMade(k, u, DecodeUbatch(d, v), m + Len(v))
<1>. DEFINE e == DecodeUbatch(d, v)
<1>0. Outcome(d) /\ Sound(d.kv) /\ d.placed \in 0 .. m /\ d.placed \in Nat
      /\ (d.ok => d.placed = m)
      /\ PutFirst(k, d.kv, u, d.placed) /\ (m # 0 \/ ~d.ok => Settled(d.kv))
      /\ (~d.ok /\ Len(u) = 1 => AllUsed(d.kv))
    BY DEF DecodeMade
<1>1. Len(v) \in Nat \ {0} /\ Len(v) \in Nat /\ Len(u) \in Nat
    BY EmptySeq, LenProperties
<1>2. /\ Outcome(e)
      /\ ~d.ok => e = d
      /\ d.ok => UbatchPlaced(d, e, v) \/ UbatchMissed(d, e, v)
    BY <1>0, UbatchDone
<1>. HIDE DEF e
<1>3. DecodeMade(k, u, e, m + Len(v))
    <2>3. CASE ~d.ok
        <3>1. d.placed \in 0 .. m + Len(v)
            BY <1>0, <1>1
        <3>2. e = d
            BY <1>2, <2>3
        <3>. QED
            BY <1>0, <2>3, <3>1, <3>2 DEF DecodeMade
    <2>4. CASE d.ok /\ UbatchPlaced(d, e, v)
        <3>1. PICK h, p : Sound(p) /\ Settled(p) /\ SameCells(d.kv, p) /\ PlacedAt(p, e.kv, v, h)
            BY <2>4 DEF UbatchPlaced
        <3>2. PutFirst(k, e.kv, u, m + Len(v))
            BY <1>0, <1>1, <2>4, <3>1, PutMore
        <3>3. e.ok /\ e.placed = m + Len(v)
            BY <1>0, <2>4 DEF UbatchPlaced
        <3>4. Sound(e.kv) /\ Settled(e.kv)
            BY <3>1 DEF PlacedAt
        <3>5. m + Len(v) \in 0 .. m + Len(v)
            BY <1>1
        <3>. QED
            BY <1>2, <3>2, <3>3, <3>4, <3>5 DEF DecodeMade
    <2>5. CASE d.ok /\ UbatchMissed(d, e, v)
        <3>1. PutFirst(k, e.kv, u, m)
            <4>1. m \in 0 .. m
                OBVIOUS
            <4>. QED
                BY <1>0, <2>5, <4>1, PutSame DEF UbatchMissed
        <3>2. Len(u) = 1 => Len(v) = 1
            BY <1>1
        <3>3. m \in 0 .. m + Len(v)
            BY <1>1
        <3>. QED
            BY <1>0, <1>2, <2>5, <3>1, <3>2, <3>3 DEF DecodeMade, UbatchMissed
    <2>. QED
        BY <1>2, <2>3, <2>4, <2>5
<1>. QED
    BY <1>3 DEF e

\* llama_decode places all of its tokens, or the first of them and returns 1.
LEMMA DecodeGood ==
    ASSUME NEW k, Sound(k), NEW u \in Seq(AnyEntries)
    PROVE  DecodeMade(k, u, Decode(k, u), Len(u))
<1>. DEFINE P == Parts(u, NUbatch)
            q == Len(P)
            to(i) == Upto(u, NUbatch, i)
<1>0. NUbatch \in Nat \ {0}
    BY BatchAssumption
<1>1. /\ q \in Nat /\ to(0) = 0 /\ to(q) = Len(u)
      /\ \A j \in 1 .. q :
            /\ to(j - 1) \in Nat /\ to(j) \in Nat /\ to(j) <= Len(u)
            /\ P[j] \in Seq(AnyEntries) /\ P[j] # <<>>
            /\ to(j) = to(j - 1) + Len(P[j])
            /\ \A i \in 1 .. Len(P[j]) : P[j][i] = u[to(j - 1) + i]
    <2>. HIDE DEF P, q, to
    <2>1. PartsGood(AnyEntries, u, NUbatch)
        BY <1>0, PartsUpto
    <2>. QED
        BY <2>1 DEF PartsGood, P, q, to
<1>2. PICK f : /\ Decode(k, u) = f[q]
               /\ f[0] = [kv |-> k, ok |-> TRUE, placed |-> 0]
               /\ \A i \in 1 .. q : f[i] = DecodeUbatch(f[i - 1], P[i])
    BY <1>1, DecodeLoop
<1>. HIDE DEF P, to
<1>. DEFINE S == {i \in 0 .. q : DecodeMade(k, u, f[i], to(i))}
<1>3. 0 \in S
    <2>1. f[0].kv = k /\ f[0].ok /\ f[0].placed = 0 /\ Outcome(f[0])
        BY <1>2 DEF Outcome
    <2>2. SameCells(k, k)
        BY DEF SameCells
    <2>3. PutFirst(k, f[0].kv, u, 0)
        BY <2>1, <2>2, PutNone
    <2>4. 0 \in 0 .. q /\ 0 \in 0 .. 0
        BY <1>1
    <2>. QED
        BY <1>1, <2>1, <2>3, <2>4 DEF DecodeMade
<1>4. ASSUME NEW j \in 1 .. q, j - 1 \in S
      PROVE  j \in S
    <2>1. DecodeMade(k, u, f[j - 1], to(j - 1))
        BY <1>4
    <2>2. DecodeMade(k, u, DecodeUbatch(f[j - 1], P[j]), to(j - 1) + Len(P[j]))
        <3>1. to(j - 1) + Len(P[j]) <= Len(u)
            BY <1>1
        <3>. QED
            BY <1>1, <2>1, <3>1, UbatchMade, Zenon
    <2>3. j \in 0 .. q
        BY <1>1
    <2>. QED
        BY <1>1, <1>2, <2>2, <2>3
<1>5. q \in S
    <2>. HIDE DEF S
    <2>1. \A i \in 0 .. q : i \in S
        BY <1>1, <1>3, <1>4, Reached, Zenon
    <2>. QED
        BY <1>1, <2>1
<1>. QED
    BY <1>1, <1>2, <1>5

-----------------------------------------------------------------------------
(* The system prompt in an empty cache.                                    *)

\* The first m cells hold the first m tokens of u.
Begins(k, u, m) ==
    /\ Sound(k) /\ Settled(k)
    /\ k.head = m /\ k.used = m
    /\ \A i \in Cells :
        IF i < m THEN k.seq_id[i] = u[i + 1].seqs /\ k.pos[i] = u[i + 1].pos /\ k.tok[i] = u[i + 1].tok
        ELSE k.seq_id[i] = {}

Went(d, u, m) == Outcome(d) /\ d.ok /\ Begins(d.kv, u, m)

\* In a cache that was empty a ubatch always finds a place.
LEMMA UbatchWent ==
    ASSUME NEW u \in Seq(AnyEntries), Len(u) < Size, NEW m \in Nat, NEW d, Went(d, u, m),
           NEW v \in Seq(AnyEntries), v # <<>>, m + Len(v) <= Len(u),
           \A i \in 1 .. Len(v) : v[i] = u[m + i]
    PROVE  Went(DecodeUbatch(d, v), u, m + Len(v))
<1>. DEFINE n == Len(v)
            k == d.kv
            e == DecodeUbatch(d, v)
            h == FindSlot(k, n)
            r == Compute(Place(k, v, h), v)
<1>1. n \in Nat \ {0} /\ n \in Nat /\ Len(u) \in Nat
    BY EmptySeq, LenProperties
<1>2. Sound(k) /\ Settled(k) /\ k.head = m /\ k.used = m /\ k \in Cache
    BY DEF Went, Begins, Sound
<1>3. Prepared(k, n) = k
    <2>1. Update(k) = k
        BY <1>2, UpdatedCells
    <2>2. ~(m > m + 2 * n)
        BY <1>1
    <2>. HIDE DEF n
    <2>3. Prepared(k, n) = [k EXCEPT !.head = @]
        BY <1>2, <2>1, <2>2 DEF Prepared
    <2>4. [k EXCEPT !.head = @] = k
        <3>. HIDE DEF k
        <3>. QED
            BY <1>2 DEF Cache
    <2>. QED
        BY <2>3, <2>4
<1>4. m \in Fits(k, n)
    <2>1. m \in Cells /\ m + n <= Size /\ m + n - 1 \in Int
        BY <1>1, SizeAssumption DEF Cells
    <2>2. ASSUME NEW i \in m .. m + n - 1
          PROVE  Free(k, i)
        <3>1. i \in Cells /\ ~(i < m)
            BY <1>1, <2>1, SizeAssumption DEF Cells
        <3>2. k.seq_id[i] = {}
            BY <3>1 DEF Went, Begins
        <3>3. k.pos[i] \in Int /\ ~(k.pos[i] >= 0)
            BY <1>2, <3>1, <3>2, Zenon DEF Sound, Cache
        <3>. QED
            BY <3>3 DEF Free
    <2>. QED
        BY <2>1, <2>2 DEF Fits, FitsAt
<1>5. CanPlace(k, n) /\ h = m
    <2>. DEFINE ahead == {c \in Fits(k, n) : c >= k.head}
    <2>1. ahead \in SUBSET Nat /\ m \in ahead
        BY <1>2, <1>4, SizeAssumption DEF Fits, Cells
    <2>2. Least(ahead) \in ahead /\ Least(ahead) <= m
        <3>. HIDE DEF ahead
        <3>. QED
            BY <2>1, LeastIsLeast
    <2>3. Least(ahead) = m
        BY <1>2, <2>1, <2>2
    <2>4. h = Least(ahead)
        BY <2>1 DEF FindSlot
    <2>5. n <= Size /\ Fits(k, n) # {}
        BY <1>1, <1>4, SizeAssumption
    <2>. HIDE DEF ahead, h, k, n
    <2>. QED
        BY <2>3, <2>4, <2>5 DEF CanPlace
<1>6. PlacedAt(k, r, v, m)
    <2>. HIDE DEF k
    <2>. QED
        BY <1>2, <1>4, <1>5, PlacedCells
<1>7. e = [d EXCEPT !.kv = r, !.placed = @ + n]
    BY <1>3, <1>5 DEF DecodeUbatch, Went
<1>. HIDE DEF r, e, k, n, h
<1>8. e.kv = r /\ e.ok /\ Outcome(e)
    <2>1. e = [kv |-> r, ok |-> d.ok, placed |-> d.placed + n]
        BY <1>7, Zenon DEF Went, Outcome
    <2>. QED
        BY <2>1 DEF Went, Outcome
<1>9. ASSUME NEW i \in Cells
      PROVE  IF i < m + n THEN r.seq_id[i] = u[i + 1].seqs /\ r.pos[i] = u[i + 1].pos /\ r.tok[i] = u[i + 1].tok
             ELSE r.seq_id[i] = {}
    <2>0. i \in Nat
        BY SizeAssumption DEF Cells
    <2>1. CASE i < m
        <3>1. k.seq_id[i] = u[i + 1].seqs /\ k.pos[i] = u[i + 1].pos /\ k.tok[i] = u[i + 1].tok
            BY <2>1 DEF Went, Begins, k
        <3>. QED
            BY <1>1, <1>6, <2>0, <2>1, <3>1 DEF PlacedAt, n
    <2>2. CASE i >= m /\ i < m + n
        <3>1. i - m + 1 \in 1 .. n /\ m + (i - m + 1) = i + 1
            BY <1>1, <2>0, <2>2
        <3>2. v[i - m + 1] = u[i + 1]
            BY <3>1 DEF n
        <3>. QED
            BY <1>1, <1>6, <2>0, <2>2, <3>2 DEF PlacedAt, n
    <2>3. CASE i >= m + n
        <3>1. k.seq_id[i] = {}
            BY <1>1, <2>0, <2>3 DEF Went, Begins, k
        <3>. QED
            BY <1>1, <1>6, <2>0, <2>3, <3>1 DEF PlacedAt, n
    <2>. QED
        BY <1>1, <2>0, <2>1, <2>2, <2>3
<1>10. r.head = m + n /\ r.used = m + n
    <2>1. ~(m + n >= Size)
        BY <1>1, SizeAssumption DEF n
    <2>. QED
        BY <1>2, <1>6, <2>1 DEF PlacedAt, n
<1>11. Begins(r, u, m + n)
    BY <1>6, <1>9, <1>10 DEF Begins, PlacedAt
<1>. QED
    BY <1>8, <1>11 DEF Went, e, n

\* c is the part of u behind the first m.
PartOf(c, u, m) == m + Len(c) <= Len(u) /\ \A i \in 1 .. Len(c) : c[i] = u[m + i]

\* So does a chunk,
LEMMA ChunkWent ==
    ASSUME NEW u \in Seq(AnyEntries), Len(u) < Size, NEW m \in Nat, NEW d, Went(d, u, m),
           NEW c \in Seq(AnyEntries), PartOf(c, u, m)
    PROVE  Went(DecodeChunk(d, c), u, m + Len(c))
<1>. DEFINE P == Parts(c, NUbatch)
            q == Len(P)
            to(i) == Upto(c, NUbatch, i)
<1>0. NUbatch \in Nat \ {0} /\ Len(c) \in Nat /\ Len(u) \in Nat
    BY BatchAssumption, LenProperties
<1>1. /\ q \in Nat /\ to(0) = 0 /\ to(q) = Len(c)
      /\ \A j \in 1 .. q :
            /\ to(j - 1) \in Nat /\ to(j) \in Nat /\ to(j) <= Len(c)
            /\ P[j] \in Seq(AnyEntries) /\ P[j] # <<>>
            /\ to(j) = to(j - 1) + Len(P[j])
            /\ \A i \in 1 .. Len(P[j]) : P[j][i] = c[to(j - 1) + i]
    <2>. HIDE DEF P, q, to
    <2>1. PartsGood(AnyEntries, c, NUbatch)
        BY <1>0, PartsUpto
    <2>. QED
        BY <2>1 DEF PartsGood, P, q, to
<1>2. PICK f : /\ Decode(d.kv, c) = f[q]
               /\ f[0] = [kv |-> d.kv, ok |-> TRUE, placed |-> 0]
               /\ \A i \in 1 .. q : f[i] = DecodeUbatch(f[i - 1], P[i])
    <2>1. Len(Parts(c, NUbatch)) \in Nat
        BY <1>1
    <2>. HIDE DEF q, to
    <2>. QED
        BY <2>1, DecodeLoop DEF q
<1>. HIDE DEF P, to
<1>. DEFINE S == {i \in 0 .. q : Went(f[i], u, m + to(i))}
<1>3. 0 \in S
    <2>1. f[0].kv = d.kv /\ f[0].ok /\ Outcome(f[0])
        BY <1>2 DEF Outcome
    <2>2. Went(f[0], u, m)
        BY <2>1 DEF Went
    <2>3. 0 \in 0 .. q /\ m + 0 = m
        BY <1>1
    <2>. QED
        BY <1>1, <2>2, <2>3
<1>4. ASSUME NEW j \in 1 .. q, j - 1 \in S
      PROVE  j \in S
    <2>1. Went(f[j - 1], u, m + to(j - 1))
        BY <1>4
    <2>2. PICK x \in Nat, y \in Nat, l \in Nat :
                x = to(j - 1) /\ y = to(j) /\ l = Len(P[j]) /\ y = x + l /\ y <= Len(c)
        <3>1. Len(P[j]) \in Nat
            BY <1>1, LenProperties
        <3>. QED
            BY <1>1, <3>1
    <2>3. m + x + l <= Len(u) /\ m + y = m + x + l /\ m + x \in Nat
        <3>1. m + Len(c) <= Len(u)
            BY DEF PartOf
        <3>2. y = x + l /\ y <= Len(c)
            BY <2>2
        <3>3. Len(c) \in Nat /\ Len(u) \in Nat
            BY <1>0
        <3>. QED
            BY <3>1, <3>2, <3>3
    <2>4. ASSUME NEW i \in 1 .. l
          PROVE  P[j][i] = u[m + x + i]
        <3>1. P[j][i] = c[x + i]
            BY <1>1, <2>2, Zenon
        <3>0. y = x + l /\ y <= Len(c) /\ Len(c) \in Nat
            BY <1>0, <2>2
        <3>2. x + i \in 1 .. Len(c) /\ m + (x + i) = m + x + i
            BY <3>0
        <3>. QED
            BY <3>1, <3>2 DEF PartOf
    <2>5. Went(DecodeUbatch(f[j - 1], P[j]), u, m + x + l)
        <3>1. P[j] \in Seq(AnyEntries) /\ P[j] # <<>>
            BY <1>1
        <3>. QED
            BY <2>1, <2>2, <2>3, <2>4, <3>1, UbatchWent, Zenon
    <2>6. j \in 0 .. q
        BY <1>1
    <2>. QED
        BY <1>2, <2>2, <2>3, <2>5, <2>6, Zenon
<1>5. q \in S
    <2>. HIDE DEF S
    <2>1. \A i \in 0 .. q : i \in S
        BY <1>1, <1>3, <1>4, Reached, Zenon
    <2>. QED
        BY <1>1, <2>1
<1>6. DecodeChunk(d, c) = Decode(d.kv, c)
    BY DEF DecodeChunk, Went
<1>. QED
    BY <1>1, <1>2, <1>5, <1>6, Zenon

\* and all of the system prompt.
LEMMA ChunksWent ==
    ASSUME NEW k, NEW u \in Seq(AnyEntries), Len(u) < Size, Begins(k, u, 0)
    PROVE  Went(DecodeChunks(k, u), u, Len(u))
<1>. DEFINE P == Parts(u, NBatch)
            q == Len(P)
            to(i) == Upto(u, NBatch, i)
<1>0. NBatch \in Nat \ {0} /\ Len(u) \in Nat
    BY BatchAssumption, LenProperties
<1>1. /\ q \in Nat /\ to(0) = 0 /\ to(q) = Len(u)
      /\ \A j \in 1 .. q :
            /\ to(j - 1) \in Nat /\ to(j) \in Nat /\ to(j) <= Len(u)
            /\ P[j] \in Seq(AnyEntries) /\ P[j] # <<>>
            /\ to(j) = to(j - 1) + Len(P[j])
            /\ \A i \in 1 .. Len(P[j]) : P[j][i] = u[to(j - 1) + i]
    <2>. HIDE DEF P, q, to
    <2>1. PartsGood(AnyEntries, u, NBatch)
        BY <1>0, PartsUpto
    <2>. QED
        BY <2>1 DEF PartsGood, P, q, to
<1>2. PICK f : /\ DecodeChunks(k, u) = f[q]
               /\ f[0] = [kv |-> k, ok |-> TRUE, placed |-> 0]
               /\ \A i \in 1 .. q : f[i] = DecodeChunk(f[i - 1], P[i])
    BY <1>1, ChunksLoop
<1>. HIDE DEF P, to
<1>. DEFINE S == {i \in 0 .. q : Went(f[i], u, to(i))}
<1>3. 0 \in S
    <2>1. f[0].kv = k /\ f[0].ok /\ Outcome(f[0])
        BY <1>2 DEF Outcome
    <2>2. Went(f[0], u, 0)
        BY <2>1 DEF Went
    <2>3. 0 \in 0 .. q
        BY <1>1
    <2>. QED
        BY <1>1, <2>2, <2>3
<1>4. ASSUME NEW j \in 1 .. q, j - 1 \in S
      PROVE  j \in S
    <2>1. Went(f[j - 1], u, to(j - 1))
        BY <1>4
    <2>2. Went(DecodeChunk(f[j - 1], P[j]), u, to(j - 1) + Len(P[j]))
        <3>1. to(j - 1) + Len(P[j]) <= Len(u)
            BY <1>1
        <3>. QED
            BY <1>1, <2>1, <3>1, ChunkWent, Zenon DEF PartOf
    <2>3. j \in 0 .. q
        BY <1>1
    <2>. QED
        BY <1>1, <1>2, <2>2, <2>3
<1>5. q \in S
    <2>. HIDE DEF S
    <2>1. \A i \in 0 .. q : i \in S
        BY <1>1, <1>3, <1>4, Reached, Zenon
    <2>. QED
        BY <1>1, <2>1
<1>. QED
    BY <1>1, <1>2, <1>5

-----------------------------------------------------------------------------
(* The content of a slot.                                                  *)

\* What a slot holds, item by item.
LEMMA HeldItems ==
    ASSUME NEW k, NEW s
    PROVE  \A e : e \in Held(k, s) <=>
                \E i \in Cells : s + 1 \in k.seq_id[i] /\ e = CellItem(k, i)
BY DEF Held

\* What waits for a slot, item by item.
LEMMA WaitingItems ==
    ASSUME NEW b, NEW at, NEW s
    PROVE  \A e : e \in Waiting(b, at, s) <=>
                \E j \in DOMAIN b : j > at /\ b[j].seqs = {s + 1} /\ e = EntryItem(b, j)
BY DEF Waiting

\* The cells of slot s are the same in both caches.
SameHeld(k, r, s) ==
    \A i \in Cells :
        /\ s + 1 \in r.seq_id[i] <=> s + 1 \in k.seq_id[i]
        /\ s + 1 \in k.seq_id[i] => r.pos[i] = k.pos[i] /\ r.tok[i] = k.tok[i]

\* A slot holds the same in caches that agree on its cells.
LEMMA HeldSame ==
    ASSUME NEW k, NEW r, NEW s, SameHeld(k, r, s)
    PROVE  Held(r, s) = Held(k, s)
<1>1. \A i \in Cells : s + 1 \in k.seq_id[i] => CellItem(r, i) = CellItem(k, i)
    BY DEF CellItem, SameHeld
<1>2. \A e : e \in Held(r, s) <=> e \in Held(k, s)
    BY <1>1, HeldItems DEF SameHeld
<1>. QED
    BY <1>2

\* Nothing waits in an empty batch.
LEMMA NoneWaiting ==
    ASSUME NEW at, NEW s
    PROVE  Waiting(<<>>, at, s) = {}
BY DEF Waiting

\* Nothing waits behind the end of a batch.
LEMMA AllDecoded ==
    ASSUME NEW T, NEW b \in Seq(T), NEW s
    PROVE  Waiting(b, Len(b), s) = {}
<1>1. DOMAIN b = 1 .. Len(b) /\ Len(b) \in Nat
    BY LenProperties
<1>2. \A j \in DOMAIN b : ~(j > Len(b))
    BY <1>1
<1>. QED
    BY <1>2 DEF Waiting

\* Held items are in cells, at positions that are not negative.
LEMMA HeldPlaces ==
    ASSUME NEW k, Sound(k), NEW s
    PROVE  \A e \in Held(k, s) : e.pos \in Nat /\ e.at \in Cells
<1>1. \A i \in Cells : s + 1 \in k.seq_id[i] => k.pos[i] \in Nat
    BY DEF Sound, Cache
<1>. QED
    BY <1>1, HeldItems DEF CellItem

\* What is appended for slot s waits behind what waited before.
NewItems(b, v) ==
    {[at |-> Size + (Len(b) + j), pos |-> v[j].pos, tok |-> v[j].tok] : j \in DOMAIN v}

\* Entries that are appended for one slot wait for it, and for no other.
LEMMA MoreWaiting ==
    ASSUME NEW T, NEW b \in Seq(T), NEW v \in Seq(T), NEW s \in Slots,
           \A j \in DOMAIN v : v[j].seqs = {s + 1}
    PROVE  /\ Waiting(b \o v, 0, s) = Waiting(b, 0, s) \cup NewItems(b, v)
           /\ \A t \in Slots : t # s => Waiting(b \o v, 0, t) = Waiting(b, 0, t)
<1>. DEFINE c == b \o v
<1>1. /\ DOMAIN b = 1 .. Len(b) /\ Len(b) \in Nat /\ DOMAIN v = 1 .. Len(v) /\ Len(v) \in Nat
      /\ DOMAIN c = 1 .. Len(b) + Len(v)
      /\ \A j \in 1 .. Len(b) : c[j] = b[j]
      /\ \A j \in 1 .. Len(v) : c[Len(b) + j] = v[j]
    <2>1. c \in Seq(T) /\ Len(c) = Len(b) + Len(v)
        BY ConcatProperties
    <2>2. \A j \in 1 .. Len(c) : c[j] = IF j <= Len(b) THEN b[j] ELSE v[j - Len(b)]
        BY ConcatProperties
    <2>3. Len(b) \in Nat /\ Len(v) \in Nat /\ DOMAIN c = 1 .. Len(c)
        BY <2>1, LenProperties
    <2>. HIDE DEF c
    <2>4. \A j \in 1 .. Len(b) : j \in 1 .. Len(c) /\ j <= Len(b)
        BY <2>1, <2>3
    <2>5. ASSUME NEW j \in 1 .. Len(v)
          PROVE  c[Len(b) + j] = v[j]
        <3>1. Len(b) + j \in 1 .. Len(c) /\ ~(Len(b) + j <= Len(b)) /\ (Len(b) + j) - Len(b) = j
            BY <2>1, <2>3
        <3>. QED
            BY <2>2, <3>1
    <2>. QED
        BY <2>1, <2>2, <2>3, <2>4, <2>5, LenProperties
<1>. HIDE DEF c
<1>2. \A j \in 1 .. Len(b) : EntryItem(c, j) = EntryItem(b, j) /\ j \in DOMAIN c
    BY <1>1 DEF EntryItem
<1>3. ASSUME NEW j \in 1 .. Len(v)
      PROVE  /\ EntryItem(c, Len(b) + j) =
                    [at |-> Size + (Len(b) + j), pos |-> v[j].pos, tok |-> v[j].tok]
             /\ c[Len(b) + j].seqs = {s + 1} /\ Len(b) + j \in DOMAIN c /\ Len(b) + j > 0
    <2>1. c[Len(b) + j] = v[j] /\ j \in DOMAIN v
        BY <1>1
    <2>2. Len(b) + j \in DOMAIN c /\ Len(b) + j > 0
        BY <1>1
    <2>. QED
        BY <2>1, <2>2 DEF EntryItem
<1>4. ASSUME NEW j \in DOMAIN c
      PROVE  j \in 1 .. Len(b) \/ \E i \in 1 .. Len(v) : j = Len(b) + i
    <2>1. CASE j <= Len(b)
        BY <1>1, <2>1
    <2>2. CASE ~(j <= Len(b))
        <3>1. j - Len(b) \in 1 .. Len(v) /\ j = Len(b) + (j - Len(b))
            BY <1>1, <2>2
        <3>. QED
            BY <3>1
    <2>. QED
        BY <2>1, <2>2
<1>5. ASSUME NEW e
      PROVE  e \in Waiting(c, 0, s) <=> e \in Waiting(b, 0, s) \/ e \in NewItems(b, v)
    <2>1. ASSUME e \in Waiting(c, 0, s)
          PROVE  e \in Waiting(b, 0, s) \/ e \in NewItems(b, v)
        <3>1. PICK j \in DOMAIN c : j > 0 /\ c[j].seqs = {s + 1} /\ e = EntryItem(c, j)
            BY <2>1 DEF Waiting
        <3>2. CASE j \in 1 .. Len(b)
            BY <1>1, <1>2, <3>1, <3>2, WaitingItems
        <3>3. ASSUME NEW i \in 1 .. Len(v), j = Len(b) + i
              PROVE  e \in NewItems(b, v)
            BY <1>1, <1>3, <3>1, <3>3, Zenon DEF NewItems
        <3>. QED
            BY <1>4, <3>2, <3>3
    <2>2. ASSUME e \in Waiting(b, 0, s)
          PROVE  e \in Waiting(c, 0, s)
        <3>1. PICK j \in DOMAIN b : j > 0 /\ b[j].seqs = {s + 1} /\ e = EntryItem(b, j)
            BY <2>2 DEF Waiting
        <3>. QED
            BY <1>1, <1>2, <3>1, WaitingItems
    <2>3. ASSUME e \in NewItems(b, v)
          PROVE  e \in Waiting(c, 0, s)
        <3>1. PICK j \in 1 .. Len(v) :
                    e = [at |-> Size + (Len(b) + j), pos |-> v[j].pos, tok |-> v[j].tok]
            BY <1>1, <2>3 DEF NewItems
        <3>. QED
            BY <1>3, <3>1, WaitingItems
    <2>. QED
        BY <2>1, <2>2, <2>3
<1>6. ASSUME NEW t \in Slots, t # s, NEW e
      PROVE  e \in Waiting(c, 0, t) <=> e \in Waiting(b, 0, t)
    <2>0. {s + 1} # {t + 1}
        BY <1>6, SlotFacts
    <2>1. ASSUME e \in Waiting(c, 0, t)
          PROVE  e \in Waiting(b, 0, t)
        <3>1. PICK j \in DOMAIN c : j > 0 /\ c[j].seqs = {t + 1} /\ e = EntryItem(c, j)
            BY <2>1 DEF Waiting
        <3>2. j \in 1 .. Len(b)
            BY <1>3, <1>4, <2>0, <3>1, Zenon
        <3>. QED
            BY <1>1, <1>2, <3>1, <3>2, WaitingItems
    <2>2. ASSUME e \in Waiting(b, 0, t)
          PROVE  e \in Waiting(c, 0, t)
        <3>1. PICK j \in DOMAIN b : j > 0 /\ b[j].seqs = {t + 1} /\ e = EntryItem(b, j)
            BY <2>2 DEF Waiting
        <3>. QED
            BY <1>1, <1>2, <3>1, WaitingItems
    <2>. QED
        BY <2>1, <2>2
<1>7. Waiting(c, 0, s) = Waiting(b, 0, s) \cup NewItems(b, v)
    BY <1>5
<1>8. \A t \in Slots : t # s => Waiting(c, 0, t) = Waiting(b, 0, t)
    BY <1>6, Zenon
<1>. QED
    BY <1>7, <1>8 DEF c

\* Decoding the first of the entries that wait leaves the content as it is.
LEMMA DecodedContent ==
    ASSUME NEW k, NEW r, NEW b \in Seq(Entries), NEW at \in Nat, NEW m \in Nat, at + m <= Len(b),
           NEW u, \A j \in 1 .. m : u[j] = b[at + j],
           PutFirst(k, r, u, m), NEW s \in Slots
    PROVE  Carried(Content(k, b, at, s), Content(r, b, at + m, s))
<1>. DEFINE C == Content(k, b, at, s)
            D == Content(r, b, at + m, s)
<1>1. PICK g \in [1 .. m -> Cells] :
        /\ \A i, j \in 1 .. m : g[i] = g[j] => i = j
        /\ \A j \in 1 .. m :
            /\ k.seq_id[g[j]] = {}
            /\ r.seq_id[g[j]] = u[j].seqs
            /\ r.pos[g[j]] = u[j].pos
            /\ r.tok[g[j]] = u[j].tok
        /\ \A c \in Cells : (\A j \in 1 .. m : g[j] # c) =>
            r.seq_id[c] = k.seq_id[c] /\ r.pos[c] = k.pos[c] /\ r.tok[c] = k.tok[c]
    BY Zenon DEF PutFirst
<1>2. DOMAIN b = 1 .. Len(b) /\ Len(b) \in Nat /\ Size \in Nat /\ Cells = 0 .. Size - 1
    BY LenProperties, SizeAssumption DEF Cells
\* Where an item goes: the entries of the part to the cells they are put in.
<1>. DEFINE moves(e) == e.at > Size /\ e.at <= Size + at + m
            to(e) == IF moves(e) THEN [e EXCEPT !.at = g[e.at - (Size + at)]] ELSE e
            f == [e \in C |-> to(e)]
<1>3. ASSUME NEW e \in C
      PROVE  \/ \E i \in Cells : /\ s + 1 \in k.seq_id[i] /\ e = CellItem(k, i) /\ ~moves(e)
                                 /\ e = CellItem(r, i) /\ s + 1 \in r.seq_id[i]
             \/ \E j \in 1 .. m : /\ b[at + j].seqs = {s + 1} /\ e = EntryItem(b, at + j)
                                  /\ moves(e) /\ e.at - (Size + at) = j
                                  /\ to(e) = CellItem(r, g[j]) /\ s + 1 \in r.seq_id[g[j]]
             \/ \E j \in DOMAIN b : /\ j > at + m /\ b[j].seqs = {s + 1}
                                    /\ e = EntryItem(b, j) /\ ~moves(e)
    <2>1. ASSUME NEW i \in Cells, s + 1 \in k.seq_id[i], e = CellItem(k, i)
          PROVE  ~moves(e) /\ e = CellItem(r, i) /\ s + 1 \in r.seq_id[i]
        <3>1. \A j \in 1 .. m : g[j] # i
            BY <1>1, <2>1, Zenon
        <3>2. r.seq_id[i] = k.seq_id[i] /\ r.pos[i] = k.pos[i] /\ r.tok[i] = k.tok[i]
            BY <1>1, <3>1
        <3>3. e.at = i /\ ~(i > Size)
            BY <1>2, <2>1 DEF CellItem
        <3>. QED
            BY <2>1, <3>2, <3>3 DEF CellItem
    <2>2. ASSUME NEW j \in DOMAIN b, j > at, b[j].seqs = {s + 1}, e = EntryItem(b, j)
          PROVE  \/ /\ j > at + m /\ ~moves(e)
                 \/ /\ j - at \in 1 .. m /\ moves(e) /\ e.at - (Size + at) = j - at
                    /\ to(e) = CellItem(r, g[j - at]) /\ s + 1 \in r.seq_id[g[j - at]]
        <3>1. e = [at |-> Size + j, pos |-> b[j].pos, tok |-> b[j].tok] /\ e.at = Size + j /\ j \in Nat
            BY <1>2, <2>2 DEF EntryItem
        <3>2. CASE j > at + m
            <4>1. ~(Size + j <= Size + at + m)
                BY <1>2, <3>1, <3>2
            <4>. QED
                BY <3>1, <3>2, <4>1
        <3>3. CASE ~(j > at + m)
            <4>1. j - at \in 1 .. m /\ Size + j > Size /\ Size + j <= Size + at + m
                  /\ (Size + j) - (Size + at) = j - at /\ at + (j - at) = j
                BY <1>2, <2>2, <3>1, <3>3
            <4>2. moves(e) /\ e.at - (Size + at) = j - at
                <5>1. e.at = Size + j
                    BY <3>1
                <5>. QED
                    BY <4>1, <5>1
            <4>3. u[j - at] = b[j]
                BY <4>1
            <4>4. /\ r.seq_id[g[j - at]] = b[j].seqs /\ r.pos[g[j - at]] = b[j].pos
                  /\ r.tok[g[j - at]] = b[j].tok
                BY <1>1, <4>1, <4>3
            <4>5. to(e) = [at |-> g[j - at], pos |-> b[j].pos, tok |-> b[j].tok]
                <5>1. to(e) = [e EXCEPT !.at = g[j - at]]
                    BY <4>2
                <5>. HIDE DEF to, moves
                <5>. QED
                    BY <3>1, <5>1
            <4>. HIDE DEF to, moves
            <4>. QED
                BY <2>2, <4>1, <4>2, <4>4, <4>5 DEF CellItem
        <3>. QED
            BY <3>2, <3>3
    <2>3. CASE e \in Held(k, s)
        BY <2>1, <2>3, HeldItems
    <2>4. CASE e \in Waiting(b, at, s)
        <3>1. PICK j \in DOMAIN b : j > at /\ b[j].seqs = {s + 1} /\ e = EntryItem(b, j)
            BY <2>4 DEF Waiting
        <3>2. at + (j - at) = j
            BY <1>2
        <3>. HIDE DEF to, moves
        <3>. QED
            BY <2>2, <3>1, <3>2, Zenon
    <2>. QED
        BY <2>3, <2>4, Zenon DEF Content
<1>. HIDE DEF moves
<1>4. ASSUME NEW e \in C
      PROVE  to(e) \in D /\ to(e).pos = e.pos /\ to(e).tok = e.tok
    <2>1. ASSUME NEW i \in Cells, ~moves(e), e = CellItem(r, i), s + 1 \in r.seq_id[i]
          PROVE  to(e) \in D /\ to(e).pos = e.pos /\ to(e).tok = e.tok
        BY <2>1, HeldItems DEF Content
    <2>2. ASSUME NEW j \in 1 .. m, e = EntryItem(b, at + j), to(e) = CellItem(r, g[j]),
                 s + 1 \in r.seq_id[g[j]]
          PROVE  to(e) \in D /\ to(e).pos = e.pos /\ to(e).tok = e.tok
        <3>1. to(e) \in Held(r, s)
            BY <2>2, HeldItems, Zenon
        <3>2. r.pos[g[j]] = b[at + j].pos /\ r.tok[g[j]] = b[at + j].tok
            BY <1>1
        <3>. QED
            BY <2>2, <3>1, <3>2 DEF Content, CellItem, EntryItem
    <2>3. ASSUME NEW j \in DOMAIN b, j > at + m, b[j].seqs = {s + 1}, e = EntryItem(b, j), ~moves(e)
          PROVE  to(e) \in D /\ to(e).pos = e.pos /\ to(e).tok = e.tok
        BY <2>3, WaitingItems DEF Content
    <2>. HIDE DEF to, D
    <2>. QED
        BY <1>3, <2>1, <2>2, <2>3, Zenon
<1>5. ASSUME NEW e \in C, NEW x \in C, to(e) = to(x)
      PROVE  e = x
    <2>1. ASSUME NEW y \in C, moves(y)
          PROVE  \E j \in 1 .. m : y = EntryItem(b, at + j) /\ to(y) = CellItem(r, g[j])
        BY <1>3, <2>1
    <2>2. ASSUME NEW y \in C, NEW z \in C, moves(y), ~moves(z)
          PROVE  to(y) # to(z)
        <3>1. PICK j \in 1 .. m : to(y) = CellItem(r, g[j])
            BY <2>1, <2>2
        <3>2. to(y).at = g[j] /\ to(z) = z /\ g[j] \in Cells
            BY <2>2, <3>1 DEF CellItem
        <3>3. ASSUME NEW i \in Cells, s + 1 \in k.seq_id[i], z = CellItem(k, i)
              PROVE  z.at # g[j]
            BY <1>1, <3>3 DEF CellItem
        <3>4. ASSUME NEW i \in DOMAIN b, z = EntryItem(b, i)
              PROVE  z.at # g[j]
            <4>1. z.at = Size + i /\ i \in Nat /\ Size + i \notin Cells
                BY <1>2, <3>4 DEF EntryItem
            <4>. QED
                BY <3>2, <4>1
        <3>. HIDE DEF to
        <3>. QED
            BY <1>3, <2>2, <3>2, <3>3, <3>4, Zenon
    <2>3. CASE moves(e) /\ moves(x)
        <3>1. PICK i \in 1 .. m : e = EntryItem(b, at + i) /\ to(e) = CellItem(r, g[i])
            BY <2>1, <2>3
        <3>2. PICK j \in 1 .. m : x = EntryItem(b, at + j) /\ to(x) = CellItem(r, g[j])
            BY <2>1, <2>3, Zenon
        <3>3. g[i] = g[j]
            <4>. HIDE DEF to
            <4>. QED
                BY <1>5, <3>1, <3>2 DEF CellItem
        <3>. QED
            BY <1>1, <3>1, <3>2, <3>3
    <2>4. CASE ~moves(e) /\ ~moves(x)
        BY <1>5, <2>4
    <2>. QED
        BY <1>5, <2>2, <2>3, <2>4
<1>6. ASSUME NEW d \in D
      PROVE  \E e \in C : to(e) = d
    <2>1. ASSUME NEW j \in DOMAIN b, j > at + m, b[j].seqs = {s + 1}, d = EntryItem(b, j)
          PROVE  \E e \in C : to(e) = d
        <3>1. j > at
            BY <1>2, <2>1
        <3>2. d \in C
            BY <2>1, <3>1, WaitingItems DEF Content
        <3>3. ~moves(d)
            <4>1. d.at = Size + j /\ ~(Size + j <= Size + at + m)
                BY <1>2, <2>1 DEF EntryItem
            <4>. QED
                BY <4>1 DEF moves
        <3>. QED
            BY <3>2, <3>3
    <2>2. ASSUME NEW i \in Cells, s + 1 \in r.seq_id[i], d = CellItem(r, i)
          PROVE  \E e \in C : to(e) = d
        <3>1. CASE \A j \in 1 .. m : g[j] # i
            <4>1. r.seq_id[i] = k.seq_id[i] /\ r.pos[i] = k.pos[i] /\ r.tok[i] = k.tok[i]
                BY <1>1, <3>1
            <4>2. d = CellItem(k, i)
                BY <2>2, <4>1 DEF CellItem
            <4>3. d \in C
                BY <2>2, <4>1, <4>2, HeldItems DEF Content
            <4>4. ~moves(d)
                <5>1. d.at = i /\ ~(i > Size)
                    BY <1>2, <2>2 DEF CellItem
                <5>. QED
                    BY <5>1 DEF moves
            <4>. QED
                BY <4>3, <4>4
        <3>2. ASSUME NEW j \in 1 .. m, g[j] = i
              PROVE  \E e \in C : to(e) = d
            <4>1. u[j].seqs = b[at + j].seqs /\ at + j \in DOMAIN b /\ at + j > at
                BY <1>2
            <4>2. b[at + j] \in Entries
                BY <1>2, <4>1, ElementOfSeq
            <4>3. PICK t \in Slots : b[at + j].seqs = {t + 1}
                BY <4>2, Zenon DEF Entries
            <4>4. b[at + j].seqs = {s + 1}
                BY <1>1, <2>2, <3>2, <4>1, <4>3
            <4>5. EntryItem(b, at + j) \in C
                BY <4>1, <4>4, WaitingItems DEF Content
            <4>6. PICK e \in C : e = EntryItem(b, at + j)
                BY <4>5
            <4>7. moves(e) /\ e.at - (Size + at) = j
                <5>1. e.at = Size + (at + j)
                    BY <4>6 DEF EntryItem
                <5>2. /\ Size + (at + j) > Size /\ Size + (at + j) <= Size + at + m
                      /\ (Size + (at + j)) - (Size + at) = j
                    BY <1>2
                <5>. QED
                    BY <5>1, <5>2 DEF moves
            <4>8. to(e) = [at |-> g[j], pos |-> b[at + j].pos, tok |-> b[at + j].tok]
                <5>1. to(e) = [e EXCEPT !.at = g[j]]
                    BY <4>7, Zenon
                <5>. HIDE DEF to
                <5>. QED
                    BY <4>6, <5>1 DEF EntryItem
            <4>9. r.pos[i] = b[at + j].pos /\ r.tok[i] = b[at + j].tok
                BY <1>1, <3>2
            <4>. QED
                BY <2>2, <3>2, <4>8, <4>9, Zenon DEF CellItem
        <3>. QED
            BY <3>1, <3>2
    <2>3. CASE d \in Held(r, s)
        BY <2>2, <2>3 DEF Held
    <2>4. CASE d \in Waiting(b, at + m, s)
        <3>1. PICK j \in DOMAIN b : j > at + m /\ b[j].seqs = {s + 1} /\ d = EntryItem(b, j)
            BY <2>4 DEF Waiting
        <3>. QED
            BY <2>1, <3>1
    <2>. QED
        BY <2>3, <2>4 DEF Content
<1>. HIDE DEF C, D, to
<1>7. f \in [C -> D]
    BY <1>4
<1>8. /\ \A e \in C : f[e].pos = e.pos /\ f[e].tok = e.tok
      /\ \A e, x \in C : f[e] = f[x] => e = x
      /\ \A d \in D : \E e \in C : f[e] = d
    BY <1>4, <1>5, <1>6
<1>9. Carried(C, D)
    <2>. HIDE DEF f
    <2>. QED
        BY <1>7, <1>8 DEF Carried
<1>. QED
    BY <1>9 DEF C, D

-----------------------------------------------------------------------------
(* The system prompt.                                                      *)

\* The entries the system prompt is decoded from.
LEMMA SystemEntriesGood ==
    ASSUME NEW p \in Seq(Tokens)
    PROVE  /\ SystemEntries(p) \in Seq(AnyEntries) /\ Len(SystemEntries(p)) = Len(p)
           /\ \A i \in 1 .. Len(p) : SystemEntries(p)[i] = [tok |-> p[i], pos |-> i - 1, seqs |-> {0}]
<1>1. DOMAIN p = 1 .. Len(p) /\ Len(p) \in Nat /\ \A i \in 1 .. Len(p) : p[i] \in Tokens
    BY LenProperties, ElementOfSeq
<1>2. SystemEntries(p) = [i \in 1 .. Len(p) |-> [tok |-> p[i], pos |-> i - 1, seqs |-> {0}]]
    BY <1>1 DEF SystemEntries, Entry
<1>3. \A i \in 1 .. Len(p) : [tok |-> p[i], pos |-> i - 1, seqs |-> {0}] \in AnyEntries
    <2>1. {0} \in (SUBSET Seqs) \ {{}}
        BY SlotFacts
    <2>2. \A i \in 1 .. Len(p) : i - 1 \in Nat
        BY <1>1
    <2>. QED
        BY <1>1, <2>1, <2>2 DEF AnyEntries
<1>. QED
    BY <1>1, <1>2, <1>3

CopiedUpto(k, r, m) ==
    /\ Sound(r) /\ r.delta = k.delta /\ r.has_shift = k.has_shift
    /\ \A i \in Cells :
        /\ r.pos[i] = k.pos[i] /\ r.tok[i] = k.tok[i]
        /\ r.seq_id[i] = IF 0 \in k.seq_id[i] THEN k.seq_id[i] \cup (0 .. m) ELSE k.seq_id[i]

\* After the copies each slot is in the cells of sequence 0, and in those it was in.
LEMMA AllCopied ==
    ASSUME NEW k, Sound(k)
    PROVE  CopiedUpto(k, CopiedToAll(k), NSlots)
<1>1. PICK f : /\ CopiedToAll(k) = f[NSlots]
               /\ f[0] = k
               /\ \A i \in 1 .. NSlots : f[i] = SeqCp(f[i - 1], 0, i, -1, -1)
    BY CopiedLoop
<1>2. NSlots \in Nat /\ Seqs = 0 .. NSlots
    BY SlotsAssumption
<1>. DEFINE S == {i \in 0 .. NSlots : CopiedUpto(k, f[i], i)}
<1>3. 0 \in S
    <2>1. \A i \in Cells : 0 \in k.seq_id[i] => k.seq_id[i] \cup (0 .. 0) = k.seq_id[i]
        OBVIOUS
    <2>2. CopiedUpto(k, k, 0)
        BY <2>1 DEF CopiedUpto
    <2>3. 0 \in 0 .. NSlots
        BY <1>2
    <2>. QED
        BY <1>1, <2>2, <2>3
<1>4. ASSUME NEW j \in 1 .. NSlots, j - 1 \in S
      PROVE  j \in S
    <2>. DEFINE q == f[j - 1]
                r == f[j]
    <2>1. CopiedUpto(k, q, j - 1) /\ r = SeqCp(q, 0, j, -1, -1)
        BY <1>1, <1>4
    <2>2. j \in Seqs
        BY <1>2
    <2>. HIDE DEF q, r
    <2>3. /\ Sound(r)
          /\ \A i \in Cells :
               /\ r.seq_id[i] = IF 0 \in q.seq_id[i] THEN q.seq_id[i] \cup {j} ELSE q.seq_id[i]
               /\ r.pos[i] = q.pos[i]
               /\ r.tok[i] = q.tok[i]
          /\ r.delta = q.delta /\ r.has_shift = q.has_shift
        BY <2>1, <2>2, CopiedCells, Zenon DEF CopiedUpto
    <2>4. (0 .. j - 1) \cup {j} = 0 .. j /\ 0 \in 0 .. j - 1
        BY <1>2
    <2>5. ASSUME NEW i \in Cells
          PROVE  r.seq_id[i] = IF 0 \in k.seq_id[i] THEN k.seq_id[i] \cup (0 .. j) ELSE k.seq_id[i]
        <3>1. q.seq_id[i] = IF 0 \in k.seq_id[i] THEN k.seq_id[i] \cup (0 .. j - 1) ELSE k.seq_id[i]
            BY <2>1, Zenon DEF CopiedUpto
        <3>2. CASE 0 \in k.seq_id[i]
            <4>1. q.seq_id[i] = k.seq_id[i] \cup (0 .. j - 1) /\ 0 \in q.seq_id[i]
                BY <3>1, <3>2
            <4>2. r.seq_id[i] = k.seq_id[i] \cup ((0 .. j - 1) \cup {j})
                BY <2>3, <4>1, Zenon
            <4>. QED
                BY <2>4, <3>2, <4>2
        <3>3. CASE 0 \notin k.seq_id[i]
            BY <2>3, <3>1, <3>3, Zenon
        <3>. QED
            BY <3>2, <3>3
    <2>6. CopiedUpto(k, r, j)
        BY <2>1, <2>3, <2>5, Zenon DEF CopiedUpto
    <2>7. j \in 0 .. NSlots
        BY <1>2
    <2>. QED
        BY <2>6, <2>7 DEF r
<1>5. NSlots \in S
    <2>. HIDE DEF S
    <2>1. \A i \in 0 .. NSlots : i \in S
        BY <1>2, <1>3, <1>4, Reached, Zenon
    <2>. QED
        BY <1>2, <2>1
<1>. QED
    BY <1>1, <1>5

\* A slot that is in the cells of the system prompt alone has nothing but it.
LEMMA SystemHeld ==
    ASSUME NEW k, NEW p \in Seq(Tokens), Len(p) < Size, NEW s,
           \A i \in Cells : IF i < Len(p) THEN s + 1 \in k.seq_id[i] /\ k.pos[i] = i /\ k.tok[i] = p[i + 1]
                            ELSE s + 1 \notin k.seq_id[i]
    PROVE  /\ SystemIn(Held(k, s), p) /\ WholeIn(Held(k, s), Len(p))
           /\ p = <<>> => TightIn(Held(k, s))
<1>. DEFINE C == Held(k, s)
<1>1. Len(p) \in Nat /\ DOMAIN p = 1 .. Len(p) /\ Size \in Nat /\ Cells = 0 .. Size - 1
    BY LenProperties, SizeAssumption DEF Cells
<1>2. ASSUME NEW e \in C
      PROVE  \E i \in 0 .. Len(p) - 1 : e = [at |-> i, pos |-> i, tok |-> p[i + 1]]
    <2>1. PICK i \in Cells : s + 1 \in k.seq_id[i] /\ e = CellItem(k, i)
        BY HeldItems
    <2>2. i < Len(p)
        BY <2>1
    <2>3. k.pos[i] = i /\ k.tok[i] = p[i + 1]
        BY <2>2
    <2>. QED
        BY <1>1, <2>1, <2>2, <2>3 DEF CellItem
<1>3. ASSUME NEW i \in 0 .. Len(p) - 1
      PROVE  [at |-> i, pos |-> i, tok |-> p[i + 1]] \in C
    <2>1. i \in Cells /\ i < Len(p)
        BY <1>1
    <2>2. s + 1 \in k.seq_id[i] /\ CellItem(k, i) = [at |-> i, pos |-> i, tok |-> p[i + 1]]
        BY <2>1 DEF CellItem
    <2>. QED
        BY <2>1, <2>2, HeldItems
<1>. HIDE DEF C
<1>4. ASSUME NEW i \in 0 .. Len(p) - 1
      PROVE  Holds(C, i, p[i + 1])
    <2>. DEFINE e == [at |-> i, pos |-> i, tok |-> p[i + 1]]
    <2>1. e \in C /\ e.pos = i /\ e.tok = p[i + 1]
        BY <1>3
    <2>2. ASSUME NEW x \in C, x.pos = i
          PROVE  x = e
        BY <1>2, <2>2
    <2>. HIDE DEF e
    <2>. QED
        BY <2>1, <2>2 DEF Holds
<1>5. SystemIn(C, p)
    <2>1. ASSUME NEW i \in DOMAIN p
          PROVE  Holds(C, i - 1, p[i])
        <3>1. i - 1 \in 0 .. Len(p) - 1 /\ (i - 1) + 1 = i
            BY <1>1
        <3>. QED
            BY <1>4, <3>1
    <2>. QED
        BY <2>1 DEF SystemIn
<1>6. WholeIn(C, Len(p))
    BY <1>2, <1>4, HoldsOnce DEF WholeIn
<1>7. p = <<>> => TightIn(C)
    <2>1. p = <<>> => Len(p) = 0
        BY EmptySeq
    <2>2. p = <<>> => C = {}
        BY <1>2, <2>1
    <2>. QED
        BY <2>2 DEF TightIn
<1>. QED
    BY <1>5, <1>6, <1>7 DEF C

\* The cells of a cache that holds the system prompt alone.
SystemAlone(k, p) ==
    /\ Sound(k) /\ Settled(k)
    /\ \A s \in Slots : \A i \in Cells :
            IF i < Len(p) THEN s + 1 \in k.seq_id[i] /\ k.pos[i] = i /\ k.tok[i] = p[i + 1]
            ELSE s + 1 \notin k.seq_id[i]
    /\ p = <<>> => \A i \in Cells : k.seq_id[i] = {}

\* The decode of the system prompt succeeds and leaves it, and it alone, to every
\* slot.
LEMMA SystemDecoded ==
    ASSUME NEW k, Sound(k), Settled(k), NEW p \in Seq(Tokens), Len(p) < Size
    PROVE  LET d == DecodeChunks(Clear(k), SystemEntries(p))
           IN  /\ d.ok
               /\ SystemAlone(IF p = <<>> THEN d.kv ELSE CopiedToAll(d.kv), p)
<1>. DEFINE u == SystemEntries(p)
            d == DecodeChunks(Clear(k), u)
            q == d.kv
            r == CopiedToAll(q)
<1>0. Len(p) \in Nat /\ Size \in Nat /\ Cells = 0 .. Size - 1
    BY LenProperties, SizeAssumption DEF Cells
<1>1. /\ u \in Seq(AnyEntries) /\ Len(u) = Len(p)
      /\ \A i \in 1 .. Len(p) : u[i] = [tok |-> p[i], pos |-> i - 1, seqs |-> {0}]
    BY SystemEntriesGood
<1>2. Begins(Clear(k), u, 0)
    <2>1. \A i \in Cells : ~(i < 0)
        BY <1>0
    <2>. QED
        BY <2>1, ClearedCells DEF Begins, Settled
<1>3. Went(d, u, Len(p))
    <2>. HIDE DEF u
    <2>. QED
        BY <1>1, <1>2, ChunksWent
<1>4. d.ok /\ Begins(q, u, Len(p))
    BY <1>3 DEF Went
<1>. HIDE DEF d, u, q
<1>5. ASSUME NEW i \in Cells
      PROVE  IF i < Len(p) THEN q.seq_id[i] = {0} /\ q.pos[i] = i /\ q.tok[i] = p[i + 1]
             ELSE q.seq_id[i] = {}
    <2>1. CASE i < Len(p)
        <3>1. q.seq_id[i] = u[i + 1].seqs /\ q.pos[i] = u[i + 1].pos /\ q.tok[i] = u[i + 1].tok
            BY <1>4, <2>1 DEF Begins
        <3>2. i + 1 \in 1 .. Len(p) /\ (i + 1) - 1 = i
            BY <1>0, <2>1
        <3>3. u[i + 1] = [tok |-> p[i + 1], pos |-> i, seqs |-> {0}]
            BY <1>1, <3>2
        <3>. QED
            BY <2>1, <3>1, <3>3
    <2>2. CASE ~(i < Len(p))
        BY <1>4, <2>2 DEF Begins
    <2>. QED
        BY <2>1, <2>2
<1>6. CASE p = <<>>
    <2>1. \A i \in Cells : ~(i < Len(p))
        BY <1>0, <1>6, EmptySeq
    <2>2. SystemAlone(q, p)
        BY <1>4, <1>5, <2>1 DEF SystemAlone, Begins
    <2>. QED
        BY <1>4, <1>6, <2>2 DEF d, q, u
<1>7. CASE p # <<>>
    <2>1. CopiedUpto(q, r, NSlots)
        BY <1>4, AllCopied DEF Begins
    <2>. HIDE DEF r
    <2>2. Sound(r) /\ Settled(r)
        BY <1>4, <2>1 DEF CopiedUpto, Begins, Settled
    <2>3. ASSUME NEW s \in Slots, NEW i \in Cells
          PROVE  IF i < Len(p) THEN s + 1 \in r.seq_id[i] /\ r.pos[i] = i /\ r.tok[i] = p[i + 1]
                 ELSE s + 1 \notin r.seq_id[i]
        <3>1. s + 1 \in 0 .. NSlots
            BY SlotFacts, SlotsAssumption
        <3>2. r.seq_id[i] = (IF 0 \in q.seq_id[i] THEN q.seq_id[i] \cup (0 .. NSlots) ELSE q.seq_id[i])
              /\ r.pos[i] = q.pos[i] /\ r.tok[i] = q.tok[i]
            BY <2>1, Zenon DEF CopiedUpto
        <3>3. CASE i < Len(p)
            <4>1. q.seq_id[i] = {0} /\ q.pos[i] = i /\ q.tok[i] = p[i + 1]
                BY <1>5, <3>3
            <4>. QED
                BY <3>1, <3>2, <3>3, <4>1
        <3>4. CASE ~(i < Len(p))
            <4>1. q.seq_id[i] = {}
                BY <1>5, <3>4
            <4>. QED
                BY <3>2, <3>4, <4>1
        <3>. QED
            BY <3>3, <3>4
    <2>4. SystemAlone(r, p)
        BY <1>7, <2>2, <2>3 DEF SystemAlone
    <2>. QED
        BY <1>4, <1>7, <2>4 DEF d, q, r, u
<1>. QED
    BY <1>6, <1>7

-----------------------------------------------------------------------------
(* What comes before the loops of update_slots.                            *)

WorldType(w) ==
    /\ w = [kv |-> w.kv, sys |-> w.sys, slots |-> w.slots, batch |-> w.batch, doubt |-> w.doubt]
    /\ Sound(w.kv)
    /\ SysGood(w.sys)
    /\ w.sys.tokens = <<>> => Unshared(w.kv)
    /\ w.batch \in Seq(Entries)
    /\ \A j \in DOMAIN w.batch : w.batch[j].pos >= Len(w.sys.tokens)
    /\ w.doubt \in [Slots -> SUBSET Doubts]
    /\ w.slots \in [Slots -> SlotType]

SlotTrue(w, at, s) ==
    /\ SlotGood(w.slots[s], w.sys.tokens, w.sys.need, w.batch, at, s)
    /\ Believed(Content(w.kv, w.batch, at, s), w.sys.tokens, w.sys.need, w.slots[s], w.doubt[s])

\* WorldGood, slot by slot.
LEMMA WorldParts ==
    ASSUME NEW w, NEW at
    PROVE  WorldGood(w, at) <=> WorldType(w) /\ \A s \in Slots : SlotTrue(w, at, s)
BY DEF WorldGood, WorldType, SlotTrue

\* A state between two update_slots.
TaskWorld(w) == WorldGood(w, 0) /\ w.batch = <<>> /\ Settled(w.kv)

\* Without a batch a slot has what it holds.
LEMMA NoBatch ==
    ASSUME NEW k, NEW at, NEW s
    PROVE  Content(k, <<>>, at, s) = Held(k, s)
BY NoneWaiting DEF Content

\* Without a batch no slot that generates waits for logits.
LEMMA NoTurn ==
    ASSUME NEW x, NEW y, NEW at \in Nat, NEW s, TurnGood(x, y, <<>>, at, s), x \in SlotType
    PROVE  Generating(x) => x.i_batch = -1
<1>1. Len(<<>>) = 0 /\ x.i_batch \in Int
    BY EmptySeq DEF SlotType
<1>. QED
    BY <1>1 DEF TurnGood

ClearDoubt(w) ==
    [s \in Slots |-> IF w.slots[s].cache_tokens = <<>> THEN w.doubt[s]
                     ELSE w.doubt[s] \cup {"cells"}]

\* What kv_cache_clear leaves alone.
LEMMA ClearedFields ==
    ASSUME NEW w, WorldType(w)
    PROVE  /\ CacheCleared(w) = [kv |-> Clear(w.kv), sys |-> [w.sys EXCEPT !.clean = FALSE],
                                 slots |-> w.slots, batch |-> w.batch, doubt |-> ClearDoubt(w)]
           /\ ClearDoubt(w) \in [Slots -> SUBSET Doubts]
<1>1. w = [kv |-> w.kv, sys |-> w.sys, slots |-> w.slots, batch |-> w.batch, doubt |-> w.doubt]
    BY DEF WorldType
<1>2. CacheCleared(w) =
        [w EXCEPT !.kv = Clear(w.kv), !.sys = [w.sys EXCEPT !.clean = FALSE],
                  !.doubt = ClearDoubt(w)]
    BY <1>1 DEF CacheCleared, ClearDoubt
<1>3. ClearDoubt(w) \in [Slots -> SUBSET Doubts]
    BY DEF ClearDoubt, WorldType, Doubts
<1>. QED
    BY <1>1, <1>2, <1>3, Zenon

\* A system prompt is shorter than the context and the cache.
LEMMA SizeFacts ==
    ASSUME NEW y, SysGood(y)
    PROVE  /\ Len(y.prompt) \in Nat /\ Len(y.tokens) \in Nat
           /\ Len(y.prompt) < NCtx /\ Len(y.prompt) < Size /\ Len(y.tokens) < NCtx
<1>1. Len(y.prompt) \in Nat /\ Len(y.tokens) \in Nat
    BY LenProperties DEF SysGood
<1>2. NCtx \in Nat /\ NSlots * NCtx <= Size /\ NSlots \in Nat \ {0} /\ Size \in Nat
    BY CtxAssumption, SlotsAssumption, SizeAssumption
<1>3. NCtx <= NSlots * NCtx
    <2>1. 1 * NCtx <= NSlots * NCtx
        BY <1>2, TimesMonotone
    <2>. QED
        BY <1>2, <2>1
<1>4. NCtx <= Size
    BY <1>2, <1>3
<1>5. 2 * Len(y.prompt) < NCtx /\ 2 * Len(y.tokens) < NCtx
    BY DEF SysGood
<1>6. NCtx \in Nat /\ Size \in Nat
    BY <1>2
<1>. QED
    BY <1>1, <1>4, <1>5, <1>6

\* system_prompt_update keeps what is believed.
LEMMA SystemUpdatedGood ==
    ASSUME NEW w, TaskWorld(w)
    PROVE  TaskWorld(SystemUpdated(w)) /\ ~SystemUpdated(w).sys.need
<1>. DEFINE c == CacheCleared(w)
            p == w.sys.prompt
            d == DecodeChunks(c.kv, SystemEntries(p))
            q == IF p = <<>> THEN d.kv ELSE CopiedToAll(d.kv)
            b == [s \in Slots |-> c.doubt[s] \ {"system"}]
            v == SystemUpdated(w)
            y == [w.sys EXCEPT !.clean = FALSE, !.tokens = p, !.need = FALSE]
<1>1. WorldType(w) /\ w.batch = <<>> /\ Settled(w.kv) /\ \A s \in Slots : SlotTrue(w, 0, s)
    BY WorldParts DEF TaskWorld
<1>2. CASE ~w.sys.need
    BY <1>2 DEF SystemUpdated
<1>3. CASE w.sys.need
    <2>1. c = [kv |-> Clear(w.kv), sys |-> [w.sys EXCEPT !.clean = FALSE],
               slots |-> w.slots, batch |-> w.batch, doubt |-> ClearDoubt(w)]
          /\ ClearDoubt(w) \in [Slots -> SUBSET Doubts]
        BY <1>1, ClearedFields
    <2>2. c.kv = Clear(w.kv) /\ c.doubt = ClearDoubt(w)
        BY <2>1
    <2>3. Sound(w.kv) /\ SysGood(w.sys) /\ p \in Seq(Tokens) /\ Len(p) < Size
        BY <1>1, SizeFacts DEF WorldType, SysGood
    <2>4. d.ok /\ SystemAlone(q, p)
        BY <1>1, <2>2, <2>3, SystemDecoded
    <2>5. v = [c EXCEPT !.kv = q, !.sys.tokens = p, !.sys.need = FALSE, !.doubt = b]
        BY <1>3, <2>4 DEF SystemUpdated
    <2>. HIDE DEF d, q, b, v
    <2>6. v = [kv |-> q, sys |-> y, slots |-> w.slots, batch |-> <<>>, doubt |-> b]
        <3>1. w.sys = [prompt |-> w.sys.prompt, tokens |-> w.sys.tokens, need |-> w.sys.need,
                       clean |-> w.sys.clean]
            BY <2>3 DEF SysGood
        <3>. HIDE DEF c, p
        <3>2. v = [kv |-> q, sys |-> [c.sys EXCEPT !.tokens = p, !.need = FALSE],
                   slots |-> c.slots, batch |-> c.batch, doubt |-> b]
            BY <2>1, <2>5, Zenon
        <3>3. /\ c.sys = [w.sys EXCEPT !.clean = FALSE] /\ c.slots = w.slots
              /\ c.batch = w.batch /\ w.batch = <<>>
            BY <1>1, <2>1
        <3>4. [c.sys EXCEPT !.tokens = p, !.need = FALSE] = y
            BY <3>1, <3>3
        <3>. QED
            BY <3>2, <3>3, <3>4
    <2>7. v.kv = q /\ v.sys = y /\ v.slots = w.slots /\ v.batch = <<>> /\ v.doubt = b
        BY <2>6
    <2>8. SysGood(y) /\ y.tokens = p /\ ~y.need
        BY <2>3, Zenon DEF SysGood
    <2>. HIDE DEF y, c, p
    <2>9. \A s \in Slots : b[s] \in SUBSET Doubts /\ (b[s] = {} => w.slots[s].cache_tokens = <<>>)
        <3>. TAKE s \in Slots
        <3>1. b[s] = ClearDoubt(w)[s] \ {"system"} /\ ClearDoubt(w)[s] \in SUBSET Doubts
            BY <2>1, <2>2 DEF b
        <3>2. ClearDoubt(w)[s] = IF w.slots[s].cache_tokens = <<>> THEN w.doubt[s]
                                 ELSE w.doubt[s] \cup {"cells"}
            BY DEF ClearDoubt
        <3>3. w.slots[s].cache_tokens # <<>> => "cells" \in b[s]
            BY <3>1, <3>2
        <3>. QED
            BY <3>1, <3>3
    <2>10. WorldType(v)
        <3>1. b \in [Slots -> SUBSET Doubts]
            BY <2>1, <2>2, <2>9 DEF b
        <3>2. y.tokens = <<>> => Unshared(q)
            BY <2>4, <2>8 DEF SystemAlone, Unshared
        <3>3. <<>> \in Seq(Entries) /\ DOMAIN <<>> = {}
            OBVIOUS
        <3>4. Sound(q)
            BY <2>4 DEF SystemAlone
        <3>. QED
            BY <1>1, <2>6, <2>7, <2>8, <3>1, <3>2, <3>3, <3>4 DEF WorldType
    <2>11. ASSUME NEW s \in Slots
           PROVE  SlotTrue(v, 0, s)
        <3>. DEFINE x == w.slots[s]
        <3>1. /\ SlotGood(x, w.sys.tokens, w.sys.need, <<>>, 0, s)
            BY <1>1 DEF SlotTrue
        <3>2. x \in SlotType
            BY <3>1 DEF SlotGood
        <3>3. x.n_past = 0
            BY <1>3, <3>1 DEF SlotGood
        <3>. HIDE DEF x
        <3>4. TurnGood(x, p, <<>>, 0, s)
            <4>1. Generating(x) => x.i_batch = -1
                BY <3>1, <3>2, NoTurn DEF SlotGood
            <4>. QED
                BY <3>1, <4>1 DEF SlotGood, TurnGood
        <3>5. SlotGood(x, p, y.need, <<>>, 0, s)
            BY <2>8, <3>1, <3>3, <3>4, CtxAssumption DEF SlotGood
        <3>6. SystemIn(Held(q, s), p) /\ WholeIn(Held(q, s), Len(p)) /\ (p = <<>> => TightIn(Held(q, s)))
            BY <2>3, <2>4, SystemHeld, Zenon DEF SystemAlone
        <3>7. Len(p) + x.n_past = Len(p)
            <4>1. Len(p) \in Nat
                BY <2>3, LenProperties
            <4>. QED
                BY <3>3, <4>1
        <3>8. b[s] = {} => TokensIn(Held(q, s), p, x.cache_tokens)
            BY <2>9 DEF TokensIn, x
        <3>9. Believed(Held(q, s), p, y.need, x, b[s])
            BY <3>6, <3>7, <3>8 DEF Believed
        <3>. QED
            BY <2>7, <2>8, <3>5, <3>9, NoBatch DEF SlotTrue, x
    <2>12. TaskWorld(v)
        BY <2>4, <2>7, <2>10, <2>11, WorldParts DEF TaskWorld, SystemAlone
    <2>. QED
        BY <2>7, <2>8, <2>12 DEF v
<1>. QED
    BY <1>2, <1>3

\* The releases are done, and no system prompt is due.
Ready(w) == ~w.sys.need /\ \A s \in Slots : w.slots[s].command # "RELEASE"

\* So do the releases that were commanded.
LEMMA ReleasesGood ==
    ASSUME NEW w, TaskWorld(w), ~w.sys.need
    PROVE  TaskWorld(ReleasesDone(w)) /\ Ready(ReleasesDone(w))
<1>. DEFINE z(s) == IF w.slots[s].command = "RELEASE"
                    THEN [w.slots[s] EXCEPT !.state = "IDLE", !.command = "NONE"]
                    ELSE w.slots[s]
            n == [s \in Slots |-> z(s)]
            v == ReleasesDone(w)
<1>1. WorldType(w) /\ w.batch = <<>> /\ Settled(w.kv) /\ \A s \in Slots : SlotTrue(w, 0, s)
    BY WorldParts DEF TaskWorld
<1>2. /\ w = [kv |-> w.kv, sys |-> w.sys, slots |-> w.slots, batch |-> w.batch, doubt |-> w.doubt]
      /\ w.slots \in [Slots -> SlotType]
    BY <1>1 DEF WorldType
<1>3. v = [w EXCEPT !.slots = n]
    BY DEF ReleasesDone
<1>4. ASSUME NEW s \in Slots
      PROVE  /\ z(s) \in SlotType /\ z(s).command # "RELEASE"
             /\ \A C : Believed(C, w.sys.tokens, w.sys.need, w.slots[s], w.doubt[s]) =>
                        Believed(C, w.sys.tokens, w.sys.need, z(s), w.doubt[s])
             /\ SlotGood(z(s), w.sys.tokens, w.sys.need, <<>>, 0, s)
    <2>. DEFINE x == w.slots[s]
    <2>1. x \in SlotType /\ SlotGood(x, w.sys.tokens, w.sys.need, <<>>, 0, s)
        BY <1>1, <1>2 DEF SlotTrue
    <2>2. CASE x.command # "RELEASE"
        BY <2>1, <2>2
    <2>3. CASE x.command = "RELEASE"
        <3>1. z(s) = [x EXCEPT !.state = "IDLE", !.command = "NONE"]
            BY <2>3
        <3>. HIDE DEF x, z
        <3>2. /\ z(s) \in SlotType /\ z(s).state = "IDLE" /\ z(s).command = "NONE"
              /\ z(s).cache_tokens = x.cache_tokens /\ z(s).prompt = x.prompt
              /\ z(s).n_past = x.n_past /\ z(s).n_keep = x.n_keep /\ z(s).i_batch = x.i_batch
            BY <2>1, <3>1, Zenon DEF SlotType
        <3>3. ~Loading(z(s)) /\ ~Generating(z(s)) /\ ~Processing(z(s)) /\ ~Working(z(s)) /\ ~Busy(z(s))
            BY <3>2 DEF Loading, Generating, Processing, Working, Busy
        <3>4. SlotGood(z(s), w.sys.tokens, w.sys.need, <<>>, 0, s)
            BY <2>1, <3>2, <3>3 DEF SlotGood, CommandGood, PromptGood, CacheTokensGood, TurnGood
        <3>5. \A C : Believed(C, w.sys.tokens, w.sys.need, x, w.doubt[s]) =>
                        Believed(C, w.sys.tokens, w.sys.need, z(s), w.doubt[s])
            BY <3>2, <3>3 DEF Believed
        <3>. QED
            BY <3>2, <3>4, <3>5 DEF x
    <2>. QED
        BY <2>2, <2>3
<1>. HIDE DEF z, v
<1>5. n \in [Slots -> SlotType] /\ \A s \in Slots : n[s] = z(s)
    BY <1>4
<1>. HIDE DEF n
<1>6. v = [kv |-> w.kv, sys |-> w.sys, slots |-> n, batch |-> w.batch, doubt |-> w.doubt]
    BY <1>2, <1>3
<1>7. v.kv = w.kv /\ v.sys = w.sys /\ v.slots = n /\ v.batch = w.batch /\ v.doubt = w.doubt
    BY <1>6
<1>8. WorldType(v)
    BY <1>1, <1>5, <1>6, <1>7 DEF WorldType
<1>9. \A s \in Slots : SlotTrue(v, 0, s)
    BY <1>1, <1>4, <1>5, <1>7 DEF SlotTrue
<1>10. Ready(v)
    BY <1>4, <1>5, <1>7 DEF Ready
<1>11. TaskWorld(v)
    BY <1>1, <1>7, <1>8, <1>9, WorldParts DEF TaskWorld
<1>. QED
    BY <1>10, <1>11 DEF v

\* Nothing is believed of a slot that is not at work in an empty cache.
LEMMA EmptyContent ==
    ASSUME NEW y, y = <<>>, NEW need, NEW x, ~Working(x), NEW D, D = {} => x.cache_tokens = <<>>
    PROVE  Believed({}, y, need, x, D)
BY DEF Believed, SystemIn, TokensIn, TightIn

\* All slots are idle, and the cache may be cleared.
LEMMA RestedGood ==
    ASSUME NEW w, TaskWorld(w), Ready(w), AllIdle(w)
    PROVE  TaskWorld(Rested(w)) /\ Ready(Rested(w))
<1>1. WorldType(w) /\ w.batch = <<>> /\ Settled(w.kv) /\ \A s \in Slots : SlotTrue(w, 0, s)
    BY WorldParts DEF TaskWorld
<1>2. CASE ~(w.sys.prompt = <<>> /\ w.sys.clean)
    BY <1>2 DEF Rested
<1>3. CASE w.sys.prompt = <<>> /\ w.sys.clean
    <2>. DEFINE v == CacheCleared(w)
                y == [w.sys EXCEPT !.clean = FALSE]
                k == Clear(w.kv)
    <2>1. v = [kv |-> k, sys |-> y, slots |-> w.slots, batch |-> w.batch, doubt |-> ClearDoubt(w)]
          /\ ClearDoubt(w) \in [Slots -> SUBSET Doubts]
        BY <1>1, ClearedFields
    <2>2. Rested(w) = v
        BY <1>3 DEF Rested
    <2>. HIDE DEF v
    <2>3. v.kv = k /\ v.sys = y /\ v.slots = w.slots /\ v.batch = w.batch /\ v.doubt = ClearDoubt(w)
        BY <2>1
    <2>4. Sound(w.kv) /\ SysGood(w.sys) /\ ~w.sys.need
        BY <1>1 DEF WorldType, Ready
    <2>5. Sound(k) /\ Settled(k) /\ \A i \in Cells : k.seq_id[i] = {}
        BY <1>1, <2>4, ClearedCells DEF Settled
    <2>6. SysGood(y) /\ y.tokens = w.sys.tokens /\ y.need = w.sys.need /\ y.tokens = <<>>
        BY <1>3, <2>4, Zenon DEF SysGood
    <2>. HIDE DEF k, y
    <2>7. WorldType(v)
        BY <1>1, <2>1, <2>3, <2>5, <2>6 DEF WorldType, Unshared
    <2>8. ASSUME NEW s \in Slots
          PROVE  SlotTrue(v, 0, s)
        <3>1. Held(k, s) = {}
            BY <2>5, HeldItems
        <3>2. ~Working(w.slots[s])
            BY DEF AllIdle, Available, Working, Processing, Loading
        <3>3. ClearDoubt(w)[s] = {} => w.slots[s].cache_tokens = <<>>
            BY DEF ClearDoubt
        <3>4. Believed(Held(k, s), y.tokens, y.need, w.slots[s], ClearDoubt(w)[s])
            BY <2>6, <3>1, <3>2, <3>3, EmptyContent
        <3>. QED
            BY <1>1, <2>3, <2>6, <3>4, NoBatch DEF SlotTrue
    <2>9. TaskWorld(v) /\ Ready(v)
        BY <1>1, <2>3, <2>5, <2>6, <2>7, <2>8, WorldParts DEF TaskWorld, Ready
    <2>. QED
        BY <2>2, <2>9
<1>. QED
    BY <1>2, <1>3

-----------------------------------------------------------------------------
(* The context shift.                                                      *)

\* What becomes of the items: those of discard positions from keep on go, and
\* those behind move up.
MovedUp(C, keep, discard) ==
    {IF e.pos < keep THEN e ELSE [at |-> e.at, pos |-> e.pos - discard, tok |-> e.tok] :
        e \in {x \in C : x.pos < keep \/ x.pos >= keep + discard}}

\* Moving up leaves the content whole, and shorter by what went.
LEMMA ShiftedWhole ==
    ASSUME NEW C, NEW n \in Nat, NEW keep \in Nat, NEW discard \in Nat, keep + discard <= n,
           WholeIn(C, n)
    PROVE  /\ WholeIn(MovedUp(C, keep, discard), n - discard)
           /\ \A p \in 0 .. n - discard - 1 : \A t :
                Holds(C, IF p < keep THEN p ELSE p + discard, t) =>
                    Holds(MovedUp(C, keep, discard), p, t)
<1>. DEFINE D == MovedUp(C, keep, discard)
            up(e) == IF e.pos < keep THEN e
                     ELSE [at |-> e.at, pos |-> e.pos - discard, tok |-> e.tok]
            stays(e) == e.pos < keep \/ e.pos >= keep + discard
            from(p) == IF p < keep THEN p ELSE p + discard
<1>1. \A e \in C : e.pos \in 0 .. n - 1
    BY DEF WholeIn
<1>2. \A d : d \in D <=> \E e \in C : stays(e) /\ d = up(e)
    BY DEF MovedUp
<1>3. ASSUME NEW e \in C, stays(e)
      PROVE  up(e).pos \in 0 .. n - discard - 1 /\ e.pos = from(up(e).pos) /\ up(e).tok = e.tok
    <2>1. e.pos \in 0 .. n - 1
        BY <1>1
    <2>2. CASE e.pos < keep
        BY <2>1, <2>2
    <2>3. CASE ~(e.pos < keep)
        <3>1. up(e).pos = e.pos - discard /\ up(e).tok = e.tok
            BY <2>3
        <3>2. e.pos >= keep + discard
            BY <1>3, <2>3
        <3>. HIDE DEF up
        <3>. QED
            BY <2>1, <3>1, <3>2
    <2>. QED
        BY <2>2, <2>3
<1>4. ASSUME NEW e \in C, NEW p \in 0 .. n - discard - 1, e.pos = from(p)
      PROVE  stays(e) /\ up(e).pos = p /\ up(e).tok = e.tok
    <2>1. CASE p < keep
        BY <1>4, <2>1
    <2>2. CASE ~(p < keep)
        <3>1. e.pos = p + discard /\ ~(e.pos < keep)
            BY <1>4, <2>2
        <3>2. up(e).pos = e.pos - discard /\ up(e).tok = e.tok
            BY <3>1
        <3>. HIDE DEF up
        <3>. QED
            BY <2>2, <3>1, <3>2
    <2>. QED
        BY <2>1, <2>2
<1>. HIDE DEF up, stays, D
<1>5. ASSUME NEW p \in 0 .. n - discard - 1, NEW e \in C, e.pos = from(p),
             \A x \in C : x.pos = from(p) => x = e
      PROVE  up(e) \in D /\ up(e).pos = p /\ up(e).tok = e.tok /\ \A d \in D : d.pos = p => d = up(e)
    <2>1. stays(e) /\ up(e).pos = p /\ up(e).tok = e.tok
        BY <1>4, <1>5
    <2>2. up(e) \in D
        BY <1>2, <2>1
    <2>3. ASSUME NEW d \in D, d.pos = p
          PROVE  d = up(e)
        <3>1. PICK x \in C : stays(x) /\ d = up(x)
            BY <1>2
        <3>2. x.pos = from(p)
            BY <1>3, <2>3, <3>1
        <3>. QED
            BY <1>5, <3>1, <3>2
    <2>. QED
        BY <2>1, <2>2, <2>3
<1>6. \A p \in 0 .. n - discard - 1 : from(p) \in 0 .. n - 1
    OBVIOUS
<1>. HIDE DEF from
<1>7. ASSUME NEW p \in 0 .. n - discard - 1
      PROVE  Once(D, p)
    <2>1. Once(C, from(p))
        BY <1>6 DEF WholeIn
    <2>2. PICK e \in C : e.pos = from(p) /\ \A x \in C : x.pos = from(p) => x = e
        BY <2>1 DEF Once
    <2>. QED
        BY <1>5, <2>2 DEF Once
<1>8. \A d \in D : d.pos \in 0 .. n - discard - 1
    BY <1>2, <1>3
<1>9. ASSUME NEW p \in 0 .. n - discard - 1, NEW t, Holds(C, from(p), t)
      PROVE  Holds(D, p, t)
    <2>1. PICK e \in C : e.pos = from(p) /\ e.tok = t /\ \A x \in C : x.pos = from(p) => x = e
        BY <1>9 DEF Holds
    <2>. QED
        BY <1>5, <2>1 DEF Holds
<1>10. WholeIn(D, n - discard)
    BY <1>7, <1>8 DEF WholeIn
<1>. QED
    BY <1>9, <1>10 DEF D, from

ShiftedCache(k, s, keep, discard, ends) ==
    SeqAdd(SeqRm(k, s + 1, keep, keep + discard), s + 1, keep + discard, ends, -discard)

\* seq_rm and seq_add together move the items of one slot up.
LEMMA ShiftedCells ==
    ASSUME NEW k, Sound(k), NEW s \in Slots, NEW keep \in Nat, NEW discard \in Nat,
           NEW ends \in Nat
    PROVE  LET r == ShiftedCache(k, s, keep, discard, ends)
           IN  /\ Sound(r)
               /\ Unshared(k) => Unshared(r)
               /\ Unshared(k) => \A t \in Slots : t # s => Held(r, t) = Held(k, t)
               /\ keep + discard <= ends /\ WholeIn(Held(k, s), ends) =>
                    Held(r, s) = MovedUp(Held(k, s), keep, discard)
<1>. DEFINE q == SeqRm(k, s + 1, keep, keep + discard)
            r == ShiftedCache(k, s, keep, discard, ends)
            gone(i) == s + 1 \in k.seq_id[i] /\ InRange(k.pos[i], keep, keep + discard)
            up(i) == s + 1 \in q.seq_id[i] /\ InRange(q.pos[i], keep + discard, ends)
<1>1. RemovedAs(k, q, s + 1, keep, keep + discard)
    BY SlotFacts, Removed
<1>2. AddedAs(q, r, s + 1, keep + discard, ends, -discard)
    <2>1. keep + discard \in Nat /\ -discard \in Int /\ (keep + discard) + (-discard) >= 0
        OBVIOUS
    <2>2. Sound(q) /\ s + 1 \in Seqs
        BY <1>1, SlotFacts DEF RemovedAs
    <2>. HIDE DEF q
    <2>. QED
        BY <2>1, <2>2, Added DEF ShiftedCache, q
<1>. HIDE DEF q, r
<1>3. \A i \in Cells : /\ r.seq_id[i] = IF gone(i) THEN k.seq_id[i] \ {s + 1} ELSE k.seq_id[i]
                       /\ r.tok[i] = k.tok[i]
                       /\ r.pos[i] = IF up(i) THEN q.pos[i] + (-discard) ELSE q.pos[i]
                       /\ r.seq_id[i] # {} => q.pos[i] = k.pos[i]
                       /\ r.seq_id[i] = q.seq_id[i]
    BY <1>1, <1>2, Zenon DEF RemovedAs, AddedAs
<1>4. ASSUME Unshared(k), NEW i \in Cells
      PROVE  gone(i) => r.seq_id[i] = {}
    <2>1. ASSUME gone(i)
          PROVE  r.seq_id[i] = {}
        <3>1. PICK t \in Slots : k.seq_id[i] = {t + 1}
            BY <1>4, <2>1 DEF Unshared
        <3>2. k.seq_id[i] = {s + 1}
            BY <2>1, <3>1
        <3>. QED
            BY <1>3, <2>1, <3>2, Zenon
    <2>. QED
        BY <2>1
<1>5. Unshared(k) => Unshared(r)
    BY <1>3, <1>4, Zenon DEF Unshared
<1>6. ASSUME Unshared(k), NEW t \in Slots, t # s
      PROVE  Held(r, t) = Held(k, t)
    <2>1. s + 1 # t + 1
        BY <1>6, SlotFacts
    <2>2. ASSUME NEW i \in Cells, t + 1 \in k.seq_id[i]
          PROVE  k.seq_id[i] = {t + 1}
        <3>1. PICK v \in Slots : k.seq_id[i] = {v + 1}
            BY <1>6, <2>2 DEF Unshared
        <3>. QED
            BY <2>2, <3>1
    <2>3. SameHeld(k, r, t)
        <3>. SUFFICES ASSUME NEW i \in Cells
                      PROVE  /\ t + 1 \in r.seq_id[i] <=> t + 1 \in k.seq_id[i]
                             /\ t + 1 \in k.seq_id[i] => r.pos[i] = k.pos[i] /\ r.tok[i] = k.tok[i]
            BY DEF SameHeld
        <3>1. t + 1 \in r.seq_id[i] => t + 1 \in k.seq_id[i]
            BY <1>3, Zenon
        <3>2. ASSUME t + 1 \in k.seq_id[i]
              PROVE  t + 1 \in r.seq_id[i] /\ r.pos[i] = k.pos[i] /\ r.tok[i] = k.tok[i]
            <4>1. s + 1 \notin k.seq_id[i]
                BY <2>1, <2>2, <3>2
            <4>2. r.seq_id[i] = k.seq_id[i]
                BY <1>3, <4>1, Zenon
            <4>3. ~up(i) /\ r.seq_id[i] # {}
                BY <1>3, <3>2, <4>1, <4>2
            <4>. QED
                BY <1>3, <3>2, <4>2, <4>3, Zenon
        <3>. QED
            BY <3>1, <3>2
    <2>. QED
        BY <2>3, HeldSame
<1>7. ASSUME keep + discard <= ends, WholeIn(Held(k, s), ends)
      PROVE  Held(r, s) = MovedUp(Held(k, s), keep, discard)
    <2>. DEFINE C == Held(k, s)
                to(e) == IF e.pos < keep THEN e
                         ELSE [at |-> e.at, pos |-> e.pos - discard, tok |-> e.tok]
    <2>1. ASSUME NEW i \in Cells, s + 1 \in k.seq_id[i]
          PROVE  k.pos[i] \in 0 .. ends - 1
        <3>1. CellItem(k, i) \in C /\ CellItem(k, i).pos = k.pos[i]
            BY <2>1, HeldItems DEF CellItem
        <3>. QED
            BY <1>7, <3>1 DEF WholeIn
    <2>2. ASSUME NEW i \in Cells, s + 1 \in k.seq_id[i]
          PROVE  LET e == CellItem(k, i)
                 IN  IF e.pos < keep \/ e.pos >= keep + discard
                     THEN s + 1 \in r.seq_id[i] /\ CellItem(r, i) = to(e)
                     ELSE s + 1 \notin r.seq_id[i]
        <3>. DEFINE p == k.pos[i]
                    e == CellItem(k, i)
        <3>1. p \in 0 .. ends - 1 /\ p \in Nat
            BY <2>1, <2>2
        <3>2. e = [at |-> i, pos |-> p, tok |-> k.tok[i]] /\ e.pos = p
            BY DEF CellItem
        <3>3. gone(i) <=> p >= keep /\ p < keep + discard
            BY <2>2, <3>1 DEF InRange
        <3>. HIDE DEF gone, up, p
        <3>a. /\ r.seq_id[i] = IF gone(i) THEN k.seq_id[i] \ {s + 1} ELSE k.seq_id[i]
              /\ r.pos[i] = IF up(i) THEN q.pos[i] + (-discard) ELSE q.pos[i]
              /\ r.seq_id[i] # {} => q.pos[i] = p
              /\ r.seq_id[i] = q.seq_id[i]
            BY <1>3, Zenon DEF p
        <3>4. CASE ~(p < keep \/ p >= keep + discard)
            <4>1. gone(i)
                BY <3>1, <3>3, <3>4
            <4>2. s + 1 \notin r.seq_id[i]
                BY <3>a, <4>1
            <4>. QED
                BY <3>2, <3>4, <4>2
        <3>5. CASE p < keep \/ p >= keep + discard
            <4>0. ~gone(i)
                BY <3>1, <3>3, <3>5
            <4>1. r.seq_id[i] = k.seq_id[i] /\ q.seq_id[i] = k.seq_id[i]
                BY <3>a, <4>0
            <4>2. q.pos[i] = p
                BY <3>a, <2>2, <4>1
            <4>3. up(i) <=> p >= keep + discard
                BY <2>2, <3>1, <4>1, <4>2 DEF InRange, up
            <4>4. r.pos[i] = IF p < keep THEN p ELSE p - discard
                <5>1. p + (-discard) = p - discard
                    BY <3>1
                <5>2. CASE p < keep
                    <6>1. ~(p >= keep + discard)
                        BY <3>1, <5>2
                    <6>. QED
                        BY <3>a, <4>2, <4>3, <5>2, <6>1
                <5>3. CASE ~(p < keep)
                    BY <3>a, <3>5, <4>2, <4>3, <5>1, <5>3
                <5>. QED
                    BY <5>2, <5>3
            <4>5. CellItem(r, i) = to(e)
                <5>1. CellItem(r, i) = [at |-> i, pos |-> r.pos[i], tok |-> k.tok[i]]
                    BY <1>3, Zenon DEF CellItem
                <5>. HIDE DEF e
                <5>. QED
                    BY <3>2, <4>4, <5>1
            <4>. QED
                BY <2>2, <3>2, <3>5, <4>1, <4>5
        <3>. QED
            BY <3>4, <3>5
    <2>3. \A d : d \in MovedUp(C, keep, discard) <=>
                \E e \in C : (e.pos < keep \/ e.pos >= keep + discard) /\ d = to(e)
        BY DEF MovedUp
    <2>. HIDE DEF to
    <2>4. ASSUME NEW d
          PROVE  d \in Held(r, s) <=> d \in MovedUp(C, keep, discard)
        <3>1. ASSUME d \in Held(r, s)
              PROVE  d \in MovedUp(C, keep, discard)
            <4>1. PICK i \in Cells : s + 1 \in r.seq_id[i] /\ d = CellItem(r, i)
                BY <3>1 DEF Held
            <4>2. s + 1 \in k.seq_id[i]
                BY <1>3, <4>1, Zenon
            <4>3. CellItem(k, i) \in C
                BY <4>2, HeldItems
            <4>. QED
                BY <2>2, <2>3, <4>1, <4>2, <4>3
        <3>2. ASSUME d \in MovedUp(C, keep, discard)
              PROVE  d \in Held(r, s)
            <4>1. PICK e \in C : (e.pos < keep \/ e.pos >= keep + discard) /\ d = to(e)
                BY <2>3, <3>2
            <4>2. PICK i \in Cells : s + 1 \in k.seq_id[i] /\ e = CellItem(k, i)
                BY DEF Held
            <4>3. s + 1 \in r.seq_id[i] /\ CellItem(r, i) = d
                BY <2>2, <4>1, <4>2
            <4>. QED
                BY <4>3, HeldItems
        <3>. QED
            BY <3>1, <3>2
    <2>. QED
        BY <2>4
<1>8. Sound(r)
    BY <1>2 DEF AddedAs
<1>. QED
    BY <1>5, <1>6, <1>7, <1>8 DEF r

\* The numbers of a context shift: as the system prompt is shorter than half the
\* context, half of what follows the tokens to keep is not more than the slot has;
\* and a slot that has the tokens to discard has room afterwards.
LEMMA ShiftNumbers ==
    ASSUME NEW L \in Nat, 2 * L < NCtx, NEW n \in Nat, L + n >= NCtx - 1,
           NEW keep \in 0 .. NCtx - 3, NEW own \in Int
    PROVE  LET d == IF own # 0 THEN own ELSE ((L + n) - keep) \div 2
           IN  /\ own = 0 => d \in 0 .. n
               /\ d \in 0 .. n => /\ d \in Nat \ {0} /\ n - d \in Nat
                                 /\ (n < NCtx => n - d <= NCtx - 2)
<1>. DEFINE m == (L + n) - keep
            half == m \div 2
            d == IF own # 0 THEN own ELSE half
<1>1. NCtx \in Nat /\ NCtx > 4
    BY CtxAssumption
<1>2. m \in Nat /\ m >= 2 /\ L <= n /\ m <= 2 * n
    BY <1>1
<1>. HIDE DEF m
<1>3. half \in Nat /\ 2 * half <= m /\ half >= 1
    BY <1>2
<1>. HIDE DEF half
<1>4. own = 0 => d \in 0 .. n
    BY <1>2, <1>3
<1>5. d # 0 /\ d \in Int
    BY <1>3
<1>. HIDE DEF d
<1>6. d \in 0 .. n => d \in Nat \ {0} /\ n - d \in Nat /\ (n < NCtx => n - d <= NCtx - 2)
    BY <1>1, <1>5
<1>. QED
    BY <1>4, <1>6 DEF d, half, m

\* cache_tokens after a shift are the tokens moved up.
LEMMA TokensShiftedGood ==
    ASSUME NEW c \in Seq(Tokens), NEW keep \in Nat, NEW d \in Nat, d <= Len(c)
    PROVE  /\ TokensShifted(c, keep, d) \in Seq(Tokens)
           /\ Len(TokensShifted(c, keep, d)) = Len(c) - d
           /\ \A i \in 1 .. Len(c) - d :
                TokensShifted(c, keep, d)[i] = IF i <= keep THEN c[i] ELSE c[i + d]
<1>1. Len(c) \in Nat /\ \A i \in 1 .. Len(c) : c[i] \in Tokens
    BY LenProperties, ElementOfSeq
<1>. DEFINE n == Len(c) - d
            z(i) == IF i <= keep THEN c[i] ELSE c[i + d]
<1>2. n \in Nat
    BY <1>1
<1>3. \A i \in 1 .. n : z(i) \in Tokens
    <2>1. \A i \in 1 .. n : i \in 1 .. Len(c) /\ i + d \in 1 .. Len(c)
        BY <1>1
    <2>. QED
        BY <1>1, <2>1
<1>4. TokensShifted(c, keep, d) = [i \in 1 .. n |-> z(i)]
    BY DEF TokensShifted
<1>. HIDE DEF z
<1>5. [i \in 1 .. n |-> z(i)] \in Seq(Tokens) /\ Len([i \in 1 .. n |-> z(i)]) = n
    <2>. HIDE DEF n
    <2>. QED
        BY <1>2, <1>3
<1>6. \A i \in 1 .. n : TokensShifted(c, keep, d)[i] = z(i)
    BY <1>4
<1>. QED
    BY <1>4, <1>5, <1>6 DEF z

\* Where the loop of the context shifts is when slot i is next.
ShiftStage(w, i) ==
    /\ WorldGood(w, 0) /\ w.batch = <<>> /\ Ready(w)
    /\ \A s \in Slots : s >= i => ~Strays(w, s)
    /\ \A s \in Slots : s < i /\ Processing(w.slots[s]) /\ w.sys.tokens = <<>> =>
            w.slots[s].n_past <= NCtx - 2
    /\ w.kv.has_shift => \E s \in Slots : Working(w.slots[s])

\* A slot whose context is full is at work.
LEMMA FullWorks ==
    ASSUME NEW x, NEW L \in Nat, 2 * L < NCtx, PromptGood(x), CommandGood(x), x \in SlotType,
           x.command # "RELEASE", Processing(x), L + x.n_past >= NCtx - 1
    PROVE  /\ Working(x) /\ x.n_keep \in 0 .. NCtx - 4 /\ x.prompt # <<>>
           /\ Busy(x) /\ x.n_past > 0
<1>1. x.n_past \in Nat /\ NCtx \in Nat /\ NCtx > 4
    BY CtxAssumption DEF SlotType
<1>2. x.n_past > 0
    BY <1>1
<1>3. CASE Loading(x)
    <2>1. x.prompt # <<>>
        BY <1>2, <1>3 DEF PromptGood
    <2>. QED
        BY <1>2, <1>3, <2>1 DEF Working, PromptGood, Busy
<1>4. CASE x.state = "PROCESSING"
    <2>1. Generating(x)
        BY <1>4 DEF Generating, CommandGood, SlotType
    <2>. QED
        BY <1>2, <2>1 DEF Working, PromptGood, Busy
<1>. QED
    BY <1>3, <1>4 DEF Processing

\* One turn of the loop of the context shifts,
LEMMA ShiftedGood ==
    ASSUME NEW w, NEW s \in Slots, ShiftStage(w, s)
    PROVE  ShiftStage(Shifted(w, s), s + 1)
<1>. DEFINE x == w.slots[s]
            L == Len(w.sys.tokens)
            ends == L + x.n_past
            keep == x.n_keep + AddBos
            d == Discard(x, ends - keep)
            k == ShiftedCache(w.kv, s, keep, d, ends)
            c == IF x.cached THEN TokensShifted(x.cache_tokens, keep, d) ELSE x.cache_tokens
            z == [x EXCEPT !.cache_tokens = c, !.n_past = x.n_past - d]
            n == [w.slots EXCEPT ![s] = z]
            spoilt(t) == (IF w.sys.tokens = <<>> THEN {} ELSE {"system"})
                         \cup IF t = s /\ keep + d > ends THEN {"cells"} ELSE {}
            b == [t \in Slots |-> w.doubt[t] \cup spoilt(t)]
            v == Shifted(w, s)
<1>1. /\ WorldType(w) /\ w.batch = <<>> /\ Ready(w) /\ \A t \in Slots : SlotTrue(w, 0, t)
      /\ \A t \in Slots : t < s /\ Processing(w.slots[t]) /\ w.sys.tokens = <<>> =>
            w.slots[t].n_past <= NCtx - 2
      /\ w.kv.has_shift => \E t \in Slots : Working(w.slots[t])
      /\ \A t \in Slots : t >= s => ~Strays(w, t)
    BY WorldParts DEF ShiftStage
<1>2. /\ w = [kv |-> w.kv, sys |-> w.sys, slots |-> w.slots, batch |-> w.batch, doubt |-> w.doubt]
      /\ w.slots \in [Slots -> SlotType] /\ Sound(w.kv) /\ SysGood(w.sys)
      /\ w.doubt \in [Slots -> SUBSET Doubts]
    BY <1>1 DEF WorldType
<1>3. x \in SlotType /\ SlotGood(x, w.sys.tokens, w.sys.need, <<>>, 0, s) /\ x.command # "RELEASE"
      /\ ~w.sys.need
    BY <1>1, <1>2 DEF SlotTrue, Ready
<1>4. L \in Nat /\ 2 * L < NCtx /\ x.n_past \in Nat /\ NCtx \in Nat /\ NCtx > 4
    BY <1>2, <1>3, CtxAssumption, SizeFacts, Zenon DEF SysGood, SlotType
<1>5. \A t \in Slots : t \in Nat /\ (t < s + 1 => t < s \/ t = s) /\ (t >= s + 1 => t >= s /\ t # s)
    BY SlotFacts
<1>6. CASE ~Processing(x) \/ ends < NCtx - 1
    <2>0. ~ContextFull(x, ends)
        BY <1>4, <1>6 DEF ContextFull
    <2>1. v = w
        BY <2>0, Zenon DEF Shifted
    <2>2. w.sys.tokens = <<>> => L = 0
        BY EmptySeq
    <2>3. Processing(x) /\ w.sys.tokens = <<>> => x.n_past <= NCtx - 2
        BY <1>4, <1>6, <2>2
    <2>4. ASSUME NEW t \in Slots, t < s + 1, Processing(w.slots[t]), w.sys.tokens = <<>>
          PROVE  w.slots[t].n_past <= NCtx - 2
        BY <1>1, <1>5, <2>3, <2>4
    <2>. HIDE DEF v
    <2>5. ShiftStage(v, s + 1)
        BY <1>1, <1>5, <2>1, <2>4 DEF ShiftStage
    <2>. QED
        BY <2>5 DEF v
<1>7. CASE Processing(x) /\ ends >= NCtx - 1
    <2>1. ~(~Processing(x) \/ ends < NCtx - 1)
        BY <1>4, <1>7
    <2>2. v = [w EXCEPT
                !.kv = k,
                !.slots[s].cache_tokens = IF x.cached THEN TokensShifted(@, keep, d) ELSE @,
                !.slots[s].n_past = @ - d,
                !.doubt = b]
        <3>1. ContextFull(x, ends)
            BY <1>7 DEF ContextFull
        <3>. QED
            BY <3>1, Zenon DEF Shifted, ShiftedCache
    <2>3. Working(x) /\ x.n_keep \in 0 .. NCtx - 4 /\ x.prompt # <<>> /\ Busy(x) /\ x.n_past > 0
        <3>. HIDE DEF x
        <3>. QED
            BY <1>3, <1>4, <1>7, FullWorks, Zenon DEF SlotGood
    <2>4. keep \in 0 .. NCtx - 3 /\ keep \in Nat
        BY <1>4, <2>3, ModelAssumption
    <2>5. /\ d \in Nat \ {0} /\ d \in Nat /\ x.n_past - d \in Nat /\ d <= x.n_past
          /\ x.n_past < NCtx => x.n_past - d <= NCtx - 2
        <3>1. d \in 0 .. x.n_past
            <4>1. ContextFull(x, ends)
                BY <1>7 DEF ContextFull
            <4>2. s >= s
                BY SlotFacts
            <4>3. ~Strays(w, s)
                BY <1>1, <4>2
            <4>. QED
                BY <4>1, <4>3 DEF Strays, Discards
        <3>2. x.n_discard \in Int
            BY <1>3 DEF SlotType
        <3>. DEFINE own == x.n_discard
                    e == IF own # 0 THEN own ELSE ((L + x.n_past) - keep) \div 2
        <3>. HIDE DEF L, x, keep
        <3>3. d = e
            BY Zenon DEF Discard
        <3>. HIDE DEF own, d
        <3>4. e \in 0 .. x.n_past => /\ e \in Nat \ {0} /\ x.n_past - e \in Nat
                                     /\ (x.n_past < NCtx => x.n_past - e <= NCtx - 2)
            <4>1. own \in Int
                BY <3>2 DEF own
            <4>. QED
                BY <1>4, <1>7, <2>4, <4>1, ShiftNumbers
        <3>. HIDE DEF e
        <3>. QED
            BY <1>4, <3>1, <3>3, <3>4
    <2>6. ends \in Nat
        BY <1>4
    <2>7. /\ Sound(k)
          /\ Unshared(w.kv) => Unshared(k)
          /\ Unshared(w.kv) => \A t \in Slots : t # s => Held(k, t) = Held(w.kv, t)
          /\ keep + d <= ends /\ WholeIn(Held(w.kv, s), ends) =>
                Held(k, s) = MovedUp(Held(w.kv, s), keep, d)
        <3>. HIDE DEF ends, keep, d
        <3>. QED
            BY <1>2, <2>4, <2>5, <2>6, ShiftedCells
    <2>8. x.cached => Len(x.cache_tokens) = x.n_past
        BY <1>3, <2>3 DEF SlotGood, CacheTokensGood
    <2>9. /\ c \in Seq(Tokens)
          /\ x.cached => /\ Len(c) = x.n_past - d
                         /\ \A i \in 1 .. x.n_past - d :
                                c[i] = IF i <= keep THEN x.cache_tokens[i] ELSE x.cache_tokens[i + d]
          /\ ~x.cached => c = x.cache_tokens
        <3>1. x.cache_tokens \in Seq(Tokens)
            BY <1>3 DEF SlotType
        <3>2. CASE x.cached
            <4>1. c = TokensShifted(x.cache_tokens, keep, d)
                BY <3>2
            <4>. HIDE DEF keep, d, x, c
            <4>2. Len(x.cache_tokens) = x.n_past /\ d <= Len(x.cache_tokens)
                BY <2>5, <2>8, <3>2
            <4>3. /\ TokensShifted(x.cache_tokens, keep, d) \in Seq(Tokens)
                  /\ Len(TokensShifted(x.cache_tokens, keep, d)) = Len(x.cache_tokens) - d
                  /\ \A i \in 1 .. Len(x.cache_tokens) - d :
                        TokensShifted(x.cache_tokens, keep, d)[i] =
                            IF i <= keep THEN x.cache_tokens[i] ELSE x.cache_tokens[i + d]
                <5>1. keep \in Nat /\ d \in Nat
                    BY <2>4, <2>5
                <5>. QED
                    BY <3>1, <4>2, <5>1, TokensShiftedGood, Zenon
            <4>. QED
                BY <3>2, <4>1, <4>2, <4>3
        <3>. QED
            BY <3>1, <3>2
    <2>. HIDE DEF d, keep, v, k, b, c, spoilt
    <2>10. v = [kv |-> k, sys |-> w.sys, slots |-> n, batch |-> <<>>, doubt |-> b]
        <3>1. v = [kv |-> k, sys |-> w.sys, batch |-> w.batch, doubt |-> b,
                   slots |-> [w.slots EXCEPT
                        ![s].cache_tokens = IF x.cached THEN TokensShifted(@, keep, d) ELSE @,
                        ![s].n_past = @ - d]]
            BY <1>2, <2>2, Zenon
        <3>2. [w.slots EXCEPT ![s].cache_tokens = IF x.cached THEN TokensShifted(@, keep, d) ELSE @,
                              ![s].n_past = @ - d] = n
            BY <1>2, <1>3, Zenon DEF c, SlotType
        <3>. QED
            BY <1>1, <3>1, <3>2
    <2>11. v.kv = k /\ v.sys = w.sys /\ v.slots = n /\ v.batch = <<>> /\ v.doubt = b
        BY <2>10
    <2>12. /\ z \in SlotType /\ z.cache_tokens = c /\ z.n_past = x.n_past - d
           /\ z.state = x.state /\ z.command = x.command /\ z.prompt = x.prompt
           /\ z.cached = x.cached /\ z.n_keep = x.n_keep /\ z.i_batch = x.i_batch
           /\ z.sampled = x.sampled
        <3>. HIDE DEF x
        <3>. QED
            BY <1>3, <2>5, <2>9, Zenon DEF SlotType
    <2>13. n[s] = z /\ \A t \in Slots : t # s => n[t] = w.slots[t]
        BY <1>2, Zenon
    <2>14. n \in [Slots -> SlotType]
        BY <1>2, <2>12
    <2>. HIDE DEF z, n
    <2>15. (Processing(z) <=> Processing(x)) /\ (Loading(z) <=> Loading(x))
           /\ (Generating(z) <=> Generating(x)) /\ Working(z)
           /\ (Busy(z) <=> Busy(x))
        BY <2>3, <2>12 DEF Processing, Loading, Generating, Working, Busy
    <2>16. SlotGood(z, w.sys.tokens, w.sys.need, <<>>, 0, s)
        <3>1. CommandGood(z) /\ PromptGood(z)
            <4>1. Loading(x) => x.n_past < Len(x.prompt)
                BY <1>3, <2>3 DEF SlotGood, PromptGood
            <4>2. Loading(x) => x.n_past - d < Len(x.prompt)
                <5>1. Len(x.prompt) \in Nat
                    BY <1>3, LenProperties DEF SlotType
                <5>. QED
                    BY <1>4, <2>5, <4>1, <5>1
            <4>. QED
                BY <1>3, <2>3, <2>12, <2>15, <4>2 DEF SlotGood, CommandGood, PromptGood
        <3>2. CacheTokensGood(z)
            BY <1>3, <2>3, <2>9, <2>12 DEF SlotGood, CacheTokensGood
        <3>3. w.sys.tokens = <<>> => z.n_past < NCtx
            <4>1. w.sys.tokens = <<>> => x.n_past < NCtx
                BY <1>3 DEF SlotGood
            <4>2. x.n_past < NCtx => x.n_past - d < NCtx
                BY <1>4, <2>5
            <4>. QED
                BY <2>12, <4>1, <4>2
        <3>4. TurnGood(z, w.sys.tokens, <<>>, 0, s)
            <4>1. TurnGood(x, w.sys.tokens, <<>>, 0, s)
                BY <1>3 DEF SlotGood
            <4>2. Generating(x) => x.i_batch = -1
                BY <1>3, <4>1, NoTurn
            <4>. QED
                BY <2>12, <2>15, <4>1, <4>2 DEF TurnGood
        <3>. QED
            BY <1>3, <2>12, <3>1, <3>2, <3>3, <3>4 DEF SlotGood
    <2>17. WorldType(v)
        <3>1. b \in [Slots -> SUBSET Doubts]
            BY <1>2 DEF b, spoilt, Doubts
        <3>. QED
            BY <1>1, <2>7, <2>10, <2>11, <2>14, <3>1 DEF WorldType
    <2>18. ASSUME w.sys.tokens # <<>>, NEW t \in Slots, NEW C, NEW q
           PROVE  Believed(C, w.sys.tokens, w.sys.need, q, b[t])
        BY <2>18 DEF b, spoilt, Believed
    <2>19. ASSUME w.sys.tokens = <<>>
           PROVE  Believed(Held(k, s), w.sys.tokens, w.sys.need, z, b[s])
        <3>. DEFINE C == Held(w.kv, s)
        <3>0. L = 0 /\ ends = x.n_past
            BY <1>4, <2>19, EmptySeq
        <3>1. /\ Believed(C, w.sys.tokens, w.sys.need, x, w.doubt[s])
              /\ b[s] = {} => w.doubt[s] = {} /\ keep + d <= ends
            <4>1. b[s] = {} => w.doubt[s] = {} /\ ~(keep + d > ends)
                BY <2>19 DEF b, spoilt
            <4>5. keep + d \in Nat
                BY <2>4, <2>5
            <4>2. Content(w.kv, w.batch, 0, s) = C
                BY <1>1, NoBatch
            <4>3. SlotTrue(w, 0, s)
                BY <1>1
            <4>. HIDE DEF C, ends
            <4>. QED
                BY <2>6, <4>1, <4>2, <4>3, <4>5 DEF SlotTrue
        <3>2. SystemIn(Held(k, s), <<>>)
            BY DEF SystemIn
        <3>3. ASSUME w.doubt[s] = {}, keep + d <= ends
              PROVE  /\ TokensIn(Held(k, s), <<>>, c)
                     /\ WholeIn(Held(k, s), x.n_past - d)
                     /\ TightIn(Held(k, s))
            <4>1. WholeIn(C, ends) /\ TokensIn(C, <<>>, x.cache_tokens)
                <5>. HIDE DEF C
                <5>. QED
                    BY <1>3, <2>3, <2>19, <3>1, <3>3 DEF Believed
            <4>. HIDE DEF C, x, ends, L
            <4>2. Held(k, s) = MovedUp(C, keep, d)
                BY <2>7, <3>3, <4>1 DEF C
            <4>3. /\ WholeIn(Held(k, s), x.n_past - d)
                  /\ \A p \in 0 .. x.n_past - d - 1 : \A t :
                        Holds(C, IF p < keep THEN p ELSE p + d, t) => Holds(Held(k, s), p, t)
                BY <2>4, <2>5, <2>6, <3>0, <3>3, <4>1, <4>2, ShiftedWhole, Zenon
            <4>4. TightIn(Held(k, s))
                <5>1. x.n_past < NCtx
                    BY <1>3, <2>19 DEF SlotGood, x
                <5>2. x.n_past - d < NCtx /\ x.n_past - d \in Nat
                    BY <1>4, <2>5, <5>1
                <5>. QED
                    BY <4>3, <5>2, WholeTight
            <4>5. ASSUME NEW i \in DOMAIN c, c[i] # Zero
                  PROVE  Holds(Held(k, s), Len(<<>>) + i - 1, c[i])
                <5>1. x.cached
                    <6>1. SUFFICES ASSUME ~x.cached
                                   PROVE  FALSE
                        OBVIOUS
                    <6>2. c = x.cache_tokens
                        BY <2>9, <6>1
                    <6>3. CacheTokensGood(x)
                        BY <1>3 DEF SlotGood, x
                    <6>. QED
                        BY <2>3, <4>5, <6>1, <6>2, <6>3 DEF CacheTokensGood
                <5>2. /\ Len(c) = x.n_past - d
                      /\ \A j \in 1 .. x.n_past - d :
                            c[j] = IF j <= keep THEN x.cache_tokens[j] ELSE x.cache_tokens[j + d]
                      /\ c \in Seq(Tokens)
                    BY <2>9, <5>1
                <5>3. i \in 1 .. x.n_past - d
                    BY <5>2, LenProperties
                <5>4. x.cache_tokens \in Seq(Tokens) /\ Len(x.cache_tokens) = x.n_past
                    BY <1>3, <2>8, <5>1 DEF SlotType, x
                <5>5. DOMAIN x.cache_tokens = 1 .. x.n_past
                    BY <5>4, LenProperties
                <5>6. PICK j \in 1 .. x.n_past : j = IF i <= keep THEN i ELSE i + d
                    BY <1>4, <2>5, <5>3
                <5>7. c[i] = x.cache_tokens[j]
                    BY <5>2, <5>3, <5>6
                <5>8. Holds(C, Len(<<>>) + j - 1, c[i])
                    BY <4>1, <4>5, <5>5, <5>7 DEF TokensIn
                <5>9. /\ Len(<<>>) + j - 1 = IF i - 1 < keep THEN i - 1 ELSE (i - 1) + d
                      /\ Len(<<>>) + i - 1 = i - 1
                      /\ i - 1 \in 0 .. x.n_past - d - 1
                    <6>1. Len(<<>>) = 0
                        BY EmptySeq
                    <6>2. i \in Nat /\ j \in Nat
                        BY <5>3
                    <6>. QED
                        BY <2>4, <2>5, <5>3, <5>6, <6>1, <6>2
                <5>. QED
                    BY <4>3, <5>8, <5>9
            <4>6. TokensIn(Held(k, s), <<>>, c)
                BY <4>5 DEF TokensIn
            <4>. QED
                BY <4>3, <4>4, <4>6
        <3>4. L + z.n_past = x.n_past - d
            <4>. HIDE DEF L, x
            <4>. QED
                BY <2>5, <2>12, <3>0
        <3>. QED
            BY <2>12, <2>19, <3>1, <3>2, <3>3, <3>4 DEF Believed
    <2>20. ASSUME NEW t \in Slots
           PROVE  SlotTrue(v, 0, t)
        <3>1. SlotGood(n[t], w.sys.tokens, w.sys.need, <<>>, 0, t)
            <4>1. CASE t = s
                BY <2>13, <2>16, <4>1
            <4>2. CASE t # s
                BY <1>1, <2>13, <4>2 DEF SlotTrue
            <4>. QED
                BY <4>1, <4>2
        <3>2. Believed(Held(k, t), w.sys.tokens, w.sys.need, n[t], b[t])
            <4>1. CASE w.sys.tokens # <<>>
                BY <2>18, <4>1
            <4>2. CASE w.sys.tokens = <<>> /\ t = s
                BY <2>13, <2>19, <4>2
            <4>3. CASE w.sys.tokens = <<>> /\ t # s
                <5>1. Held(k, t) = Held(w.kv, t)
                    BY <1>1, <2>7, <4>3 DEF WorldType
                <5>2. b[t] = w.doubt[t]
                    BY <4>3 DEF b, spoilt
                <5>. QED
                    BY <1>1, <2>13, <4>3, <5>1, <5>2, NoBatch DEF SlotTrue
            <4>. QED
                BY <4>1, <4>2, <4>3
        <3>. QED
            BY <2>11, <3>1, <3>2, NoBatch DEF SlotTrue
    <2>21. Ready(v)
        BY <1>1, <1>3, <2>11, <2>12, <2>13 DEF Ready
    <2>22. ASSUME NEW t \in Slots, t < s + 1, Processing(n[t]), w.sys.tokens = <<>>
           PROVE  n[t].n_past <= NCtx - 2
        <3>1. CASE t = s
            <4>1. x.n_past < NCtx
                BY <1>3, <2>22 DEF SlotGood
            <4>. QED
                BY <2>5, <2>12, <2>13, <3>1, <4>1
        <3>2. CASE t # s
            BY <1>1, <1>5, <2>13, <2>22, <3>2
        <3>. QED
            BY <3>1, <3>2
    <2>23. Working(v.slots[s])
        BY <2>11, <2>13, <2>15
    <2>24. ASSUME NEW t \in Slots, t >= s + 1
           PROVE  ~Strays(v, t)
        <3>1. v.slots[t] = w.slots[t] /\ v.sys = w.sys /\ ~Strays(w, t)
            BY <1>1, <1>5, <2>11, <2>13, <2>24
        <3>. QED
            BY <3>1 DEF Strays, Discards
    <2>25. ShiftStage(v, s + 1)
        BY <2>11, <2>17, <2>20, <2>21, <2>22, <2>23, <2>24, WorldParts DEF ShiftStage
    <2>. QED
        BY <2>25 DEF v
<1>. QED
    BY <1>4, <1>6, <1>7

\* and the loop.
LEMMA AllShiftedGood ==
    ASSUME NEW w, TaskWorld(w), Ready(w), \A s \in Slots : ~Strays(w, s)
    PROVE  ShiftStage(AllShifted(w), NSlots)
<1>1. PICK f : /\ AllShifted(w) = f[NSlots]
               /\ f[0] = w
               /\ \A i \in 1 .. NSlots : f[i] = Shifted(f[i - 1], i - 1)
    BY ShiftedLoop
<1>2. NSlots \in Nat
    BY SlotsAssumption
<1>. DEFINE S == {i \in 0 .. NSlots : ShiftStage(f[i], i)}
<1>3. 0 \in S
    <2>1. \A s \in Slots : ~(s < 0)
        BY SlotFacts
    <2>2. ShiftStage(w, 0)
        BY <2>1 DEF ShiftStage, TaskWorld, Settled
    <2>. QED
        BY <1>1, <1>2, <2>2
<1>4. ASSUME NEW j \in 1 .. NSlots, j - 1 \in S
      PROVE  j \in S
    <2>1. j - 1 \in Slots /\ (j - 1) + 1 = j /\ j \in 0 .. NSlots
        BY <1>2 DEF Slots
    <2>2. ShiftStage(f[j - 1], j - 1)
        BY <1>4
    <2>3. ShiftStage(Shifted(f[j - 1], j - 1), (j - 1) + 1)
        BY <2>1, <2>2, ShiftedGood
    <2>. QED
        BY <1>1, <2>1, <2>3
<1>5. NSlots \in S
    <2>. HIDE DEF S
    <2>1. \A i \in 0 .. NSlots : i \in S
        BY <1>2, <1>3, <1>4, Reached
    <2>. QED
        BY <1>2, <2>1
<1>. QED
    BY <1>1, <1>5

-----------------------------------------------------------------------------
(* What the batch is filled with.                                          *)

\* The entries of v follow each other from position n on.
InOrder(v, n, s) ==
    \A j \in 1 .. Len(v) : v[j].seqs = {s + 1} /\ v[j].pos = n + j - 1

\* Entries in order have each position once.
LEMMA NewOnes ==
    ASSUME NEW b \in Seq(Entries), NEW v \in Seq(Entries), NEW n \in Nat, NEW s, InOrder(v, n, s)
    PROVE  /\ \A e \in NewItems(b, v) : e.pos \in n .. n + Len(v) - 1
           /\ \A j \in 1 .. Len(v) : Holds(NewItems(b, v), n + j - 1, v[j].tok)
           /\ \A p \in n .. n + Len(v) - 1 : Once(NewItems(b, v), p)
<1>1. DOMAIN v = 1 .. Len(v) /\ Len(v) \in Nat /\ Len(b) \in Nat /\ Size \in Nat
    BY LenProperties, SizeAssumption
<1>2. ASSUME NEW e \in NewItems(b, v)
      PROVE  \E j \in 1 .. Len(v) :
                e = [at |-> Size + (Len(b) + j), pos |-> v[j].pos, tok |-> v[j].tok]
                /\ e.pos = n + j - 1 /\ e.tok = v[j].tok
    <2>1. PICK j \in DOMAIN v :
                e = [at |-> Size + (Len(b) + j), pos |-> v[j].pos, tok |-> v[j].tok]
        BY DEF NewItems
    <2>2. e.pos = v[j].pos /\ e.tok = v[j].tok
        BY <2>1
    <2>. QED
        BY <1>1, <2>1, <2>2, Zenon DEF InOrder
<1>3. ASSUME NEW e \in NewItems(b, v)
      PROVE  e.pos \in n .. n + Len(v) - 1
    <2>1. PICK j \in 1 .. Len(v) : e.pos = n + j - 1
        BY <1>2
    <2>. QED
        BY <1>1, <2>1
<1>4. ASSUME NEW j \in 1 .. Len(v)
      PROVE  Holds(NewItems(b, v), n + j - 1, v[j].tok)
    <2>. DEFINE e == [at |-> Size + (Len(b) + j), pos |-> v[j].pos, tok |-> v[j].tok]
    <2>1. e \in NewItems(b, v)
        BY <1>1, Zenon DEF NewItems
    <2>2. e.pos = n + j - 1 /\ e.tok = v[j].tok
        BY DEF InOrder
    <2>3. ASSUME NEW x \in NewItems(b, v), x.pos = n + j - 1
          PROVE  x = e
        <3>1. PICK i \in 1 .. Len(v) :
                    x = [at |-> Size + (Len(b) + i), pos |-> v[i].pos, tok |-> v[i].tok]
                    /\ x.pos = n + i - 1
            BY <1>2
        <3>2. n + i - 1 = n + j - 1
            BY <2>3, <3>1
        <3>3. i = j
            BY <1>1, <3>2
        <3>. QED
            BY <3>1, <3>3
    <2>. HIDE DEF e
    <2>. QED
        BY <2>1, <2>2, <2>3 DEF Holds
<1>5. ASSUME NEW p \in n .. n + Len(v) - 1
      PROVE  Once(NewItems(b, v), p)
    <2>1. PICK j \in 1 .. Len(v) : p = n + j - 1
        <3>1. p - n + 1 \in 1 .. Len(v) /\ p = n + (p - n + 1) - 1
            BY <1>1
        <3>. QED
            BY <3>1
    <2>. QED
        BY <1>4, <2>1, HoldsOnce
<1>. QED
    BY <1>3, <1>4, <1>5

\* A slot whose content is whole up to n goes on behind it.
LEMMA Grown ==
    ASSUME NEW C, NEW n \in Nat, WholeIn(C, n),
           NEW b \in Seq(Entries), NEW v \in Seq(Entries), NEW s, InOrder(v, n, s)
    PROVE  /\ WholeIn(C \cup NewItems(b, v), n + Len(v))
           /\ \A p \in 0 .. n - 1 : \A t : Holds(C, p, t) => Holds(C \cup NewItems(b, v), p, t)
           /\ \A j \in 1 .. Len(v) : Holds(C \cup NewItems(b, v), n + j - 1, v[j].tok)
<1>. DEFINE D == NewItems(b, v)
<1>1. /\ \A e \in D : e.pos \in n .. n + Len(v) - 1
      /\ \A j \in 1 .. Len(v) : Holds(D, n + j - 1, v[j].tok)
      /\ \A p \in n .. n + Len(v) - 1 : Once(D, p)
    BY NewOnes
<1>2. Len(v) \in Nat
    BY LenProperties
<1>. HIDE DEF D
<1>3. WholeIn(C \cup D, n + Len(v))
    BY <1>1, <1>2, WholeMore, Zenon
<1>4. ASSUME NEW p \in 0 .. n - 1, NEW t, Holds(C, p, t)
      PROVE  Holds(C \cup D, p, t)
    <2>1. ASSUME NEW e \in D
          PROVE  e.pos # p
        <3>1. e.pos \in n .. n + Len(v) - 1
            BY <1>1
        <3>. QED
            BY <1>2, <3>1
    <2>. QED
        BY <1>4, <2>1, HoldsMore, Zenon
<1>5. ASSUME NEW j \in 1 .. Len(v)
      PROVE  Holds(C \cup D, n + j - 1, v[j].tok)
    <2>1. ASSUME NEW e \in C
          PROVE  e.pos # n + j - 1
        <3>1. e.pos \in 0 .. n - 1
            BY DEF WholeIn
        <3>. QED
            BY <1>2, <3>1
    <2>. QED
        BY <1>1, <2>1, HoldsMore, Zenon
<1>. QED
    BY <1>3, <1>4, <1>5, Zenon DEF D

\* The system prompt is seen behind as before what is appended.
LEMMA SystemGrown ==
    ASSUME NEW C, NEW y \in Seq(Tokens), SystemIn(C, y), NEW D, \A e \in D : e.pos >= Len(y),
           \A e \in D : e.pos \in Int
    PROVE  SystemIn(C \cup D, y)
<1>1. ASSUME NEW i \in DOMAIN y
      PROVE  Holds(C \cup D, i - 1, y[i])
    <2>1. i \in 1 .. Len(y) /\ Len(y) \in Nat
        BY LenProperties
    <2>2. ASSUME NEW e \in D
          PROVE  e.pos # i - 1
        <3>1. e.pos \in Int /\ e.pos >= Len(y)
            OBVIOUS
        <3>. QED
            BY <2>1, <3>1
    <2>. QED
        BY <2>2, HoldsMore, Zenon DEF SystemIn
<1>. QED
    BY <1>1, Zenon DEF SystemIn

\* A turn that a slot waits for is not lost when the batch grows.
LEMMA TurnKept ==
    ASSUME NEW x, NEW y, NEW b \in Seq(Entries), NEW v \in Seq(Entries), NEW s,
           x.i_batch \in Int, TurnGood(x, y, b, 0, s)
    PROVE  TurnGood(x, y, b \o v, 0, s)
<1>1. /\ b \o v \in Seq(Entries) /\ Len(b \o v) = Len(b) + Len(v)
      /\ \A i \in 1 .. Len(b) : (b \o v)[i] = b[i]
    BY ConcatProperties
<1>2. Len(b) \in Nat /\ Len(v) \in Nat
    BY LenProperties
<1>3. 0 <= x.i_batch /\ x.i_batch < Len(b) =>
            x.i_batch < Len(b) + Len(v) /\ x.i_batch + 1 \in 1 .. Len(b)
    BY <1>2
<1>. DEFINE c == b \o v
<1>. HIDE DEF c
<1>4. /\ c \in Seq(Entries) /\ Len(c) = Len(b) + Len(v)
      /\ \A i \in 1 .. Len(b) : c[i] = b[i]
    BY <1>1 DEF c
<1>5. TurnGood(x, y, c, 0, s)
    BY <1>3, <1>4, Zenon DEF TurnGood
<1>. QED
    BY <1>5 DEF c

\* What is true of a slot stays true when the batch grows by another's entries.
LEMMA OtherTrue ==
    ASSUME NEW w, NEW b \in Seq(Entries), NEW v \in Seq(Entries), NEW s \in Slots,
           w.batch = b, \A j \in DOMAIN v : v[j].seqs = {s + 1},
           NEW t \in Slots, t # s, SlotTrue(w, 0, t),
           NEW k, Held(k, t) = Held(w.kv, t)
    PROVE  /\ SlotGood(w.slots[t], w.sys.tokens, w.sys.need, b \o v, 0, t)
           /\ Believed(Content(k, b \o v, 0, t), w.sys.tokens, w.sys.need, w.slots[t], w.doubt[t])
<1>1. Waiting(b \o v, 0, t) = Waiting(b, 0, t)
    BY MoreWaiting
<1>2. Content(k, b \o v, 0, t) = Content(w.kv, b, 0, t)
    BY <1>1 DEF Content
<1>3. w.slots[t].i_batch \in Int /\ TurnGood(w.slots[t], w.sys.tokens, b, 0, t)
    BY DEF SlotTrue, SlotGood, SlotType
<1>4. TurnGood(w.slots[t], w.sys.tokens, b \o v, 0, t)
    BY <1>3, TurnKept
<1>. HIDE DEF Content
<1>5. SlotGood(w.slots[t], w.sys.tokens, w.sys.need, b \o v, 0, t)
    BY <1>4 DEF SlotTrue, SlotGood
<1>6. Believed(Content(k, b \o v, 0, t), w.sys.tokens, w.sys.need, w.slots[t], w.doubt[t])
    BY <1>2 DEF SlotTrue
<1>. QED
    BY <1>5, <1>6

\* Slot s becomes z when the entries v are appended for it.
LEMMA WorldGrown ==
    ASSUME NEW w, WorldType(w), \A t \in Slots : SlotTrue(w, 0, t), NEW s \in Slots,
           NEW v \in Seq(Entries), \A j \in DOMAIN v : v[j].seqs = {s + 1},
           \A j \in DOMAIN v : v[j].pos >= Len(w.sys.tokens),
           NEW k, Sound(k), w.sys.tokens = <<>> => Unshared(k),
           \A t \in Slots : t # s => Held(k, t) = Held(w.kv, t),
           NEW z \in SlotType, NEW D \in SUBSET Doubts,
           SlotGood(z, w.sys.tokens, w.sys.need, w.batch \o v, 0, s),
           Believed(Content(k, w.batch \o v, 0, s), w.sys.tokens, w.sys.need, z, D),
           NEW r, r = [kv |-> k, sys |-> w.sys, slots |-> [w.slots EXCEPT ![s] = z],
                       batch |-> w.batch \o v, doubt |-> [w.doubt EXCEPT ![s] = D]]
    PROVE  WorldGood(r, 0)
<1>. DEFINE c == w.batch \o v
            n == [w.slots EXCEPT ![s] = z]
            b == [w.doubt EXCEPT ![s] = D]
<1>1. /\ w.batch \in Seq(Entries) /\ SysGood(w.sys)
      /\ \A j \in DOMAIN w.batch : w.batch[j].pos >= Len(w.sys.tokens)
      /\ w.doubt \in [Slots -> SUBSET Doubts] /\ w.slots \in [Slots -> SlotType]
    BY DEF WorldType
<1>2. /\ r.kv = k /\ r.sys = w.sys /\ r.slots = n /\ r.batch = c /\ r.doubt = b
      /\ r = [kv |-> r.kv, sys |-> r.sys, slots |-> r.slots, batch |-> r.batch, doubt |-> r.doubt]
    OBVIOUS
<1>3. /\ c \in Seq(Entries) /\ Len(c) = Len(w.batch) + Len(v)
      /\ \A i \in 1 .. Len(w.batch) : c[i] = w.batch[i]
      /\ \A i \in 1 .. Len(v) : c[Len(w.batch) + i] = v[i]
    BY <1>1, ConcatProperties
<1>4. n \in [Slots -> SlotType] /\ b \in [Slots -> SUBSET Doubts]
    BY <1>1
<1>5. n[s] = z /\ b[s] = D /\ \A t \in Slots : t # s => n[t] = w.slots[t] /\ b[t] = w.doubt[t]
    BY <1>1
<1>6. ASSUME NEW j \in DOMAIN c
      PROVE  c[j].pos >= Len(w.sys.tokens)
    <2>1. j \in 1 .. Len(w.batch) + Len(v) /\ Len(w.batch) \in Nat /\ Len(v) \in Nat
          /\ DOMAIN w.batch = 1 .. Len(w.batch) /\ DOMAIN v = 1 .. Len(v)
        <3>. HIDE DEF c
        <3>. QED
            BY <1>1, <1>3, LenProperties
    <2>2. CASE j \in 1 .. Len(w.batch)
        BY <1>1, <1>3, <2>1, <2>2
    <2>3. CASE j \notin 1 .. Len(w.batch)
        <3>1. PICK i \in 1 .. Len(v) : j = Len(w.batch) + i
            <4>1. j - Len(w.batch) \in 1 .. Len(v) /\ j = Len(w.batch) + (j - Len(w.batch))
                BY <2>1, <2>3
            <4>. QED
                BY <4>1
        <3>. QED
            BY <1>3, <2>1, <3>1, Zenon
    <2>. QED
        BY <2>2, <2>3
<1>. HIDE DEF n, b
<1>7. ASSUME NEW t \in Slots
      PROVE  SlotGood(n[t], w.sys.tokens, w.sys.need, c, 0, t)
             /\ Believed(Content(k, c, 0, t), w.sys.tokens, w.sys.need, n[t], b[t])
    <2>1. CASE t = s
        BY <1>5, <2>1
    <2>2. CASE t # s
        <3>1. SlotTrue(w, 0, t) /\ Held(k, t) = Held(w.kv, t)
            BY <2>2
        <3>2. n[t] = w.slots[t] /\ b[t] = w.doubt[t]
            BY <1>5, <2>2
        <3>. QED
            BY <1>1, <2>2, <3>1, <3>2, OtherTrue, Zenon
    <2>. QED
        BY <2>1, <2>2
<1>. HIDE DEF c
<1>8. WorldType(r)
    BY <1>1, <1>2, <1>3, <1>4, <1>6 DEF WorldType
<1>9. \A t \in Slots : SlotTrue(r, 0, t)
    BY <1>2, <1>7, Zenon DEF SlotTrue
<1>. QED
    BY <1>8, <1>9, WorldParts, Zenon

\* Where the loop of the sampled tokens is when slot i is next.
SampleStage(w, i) ==
    /\ WorldGood(w, 0) /\ Ready(w)
    /\ \A s \in Slots : s >= i /\ Generating(w.slots[s]) =>
            w.slots[s].i_batch = -1 /\ (w.sys.tokens = <<>> => w.slots[s].n_past <= NCtx - 2)
    /\ \A j \in DOMAIN w.batch : \E t \in Slots :
            w.batch[j].seqs = {t + 1} /\ w.slots[t].state = "PROCESSING"
    /\ w.kv.has_shift => \/ w.batch # <<>>
                         \/ \E s \in Slots : s >= i /\ Generating(w.slots[s])
                         \/ \E s \in Slots : Loading(w.slots[s]) /\ w.slots[s].prompt # <<>>

\* After the shifts the sampled tokens come.
LEMMA SampleBegins ==
    ASSUME NEW w, ShiftStage(w, NSlots)
    PROVE  SampleStage(w, 0)
<1>1. WorldGood(w, 0) /\ w.batch = <<>> /\ Ready(w) /\ WorldType(w)
      /\ \A s \in Slots : SlotTrue(w, 0, s)
    BY WorldParts DEF ShiftStage
<1>2. \A s \in Slots : s < NSlots /\ s >= 0
    BY SlotsAssumption DEF Slots
<1>3. ASSUME NEW s \in Slots
      PROVE  /\ w.slots[s] \in SlotType /\ w.slots[s].command # "RELEASE"
             /\ CommandGood(w.slots[s]) /\ TurnGood(w.slots[s], w.sys.tokens, <<>>, 0, s)
    <2>1. SlotTrue(w, 0, s)
        BY <1>1
    <2>. QED
        BY <1>1, <2>1 DEF SlotTrue, SlotGood, Ready
<1>4. ASSUME NEW s \in Slots, Generating(w.slots[s])
      PROVE  w.slots[s].i_batch = -1 /\ (w.sys.tokens = <<>> => w.slots[s].n_past <= NCtx - 2)
    <2>1. w.slots[s].i_batch = -1
        BY <1>3, <1>4, NoTurn
    <2>2. Processing(w.slots[s])
        BY <1>4 DEF Generating, Processing
    <2>. QED
        BY <1>2, <2>1, <2>2 DEF ShiftStage
<1>5. ASSUME NEW s \in Slots, Working(w.slots[s])
      PROVE  Generating(w.slots[s]) \/ (Loading(w.slots[s]) /\ w.slots[s].prompt # <<>>)
    BY <1>3, <1>5 DEF Working, Processing, Generating, CommandGood, SlotType
<1>6. ~(\E j \in DOMAIN w.batch : TRUE)
    BY <1>1
<1>7. w.kv.has_shift => \E s \in Slots : Working(w.slots[s])
    BY DEF ShiftStage
<1>. QED
    BY <1>1, <1>2, <1>4, <1>5, <1>6, <1>7 DEF SampleStage

\* One turn of the loop of the sampled tokens,
LEMMA SampledAddedGood ==
    ASSUME NEW w, NEW s \in Slots, SampleStage(w, s)
    PROVE  SampleStage(SampledAdded(w, s), s + 1)
<1>. DEFINE x == w.slots[s]
            y == w.sys.tokens
            L == Len(y)
            e == Entry(x.sampled, L + x.n_past, s + 1)
            b == w.batch
            c == IF x.cached THEN Append(x.cache_tokens, x.sampled) ELSE x.cache_tokens
            z == [x EXCEPT !.i_batch = Len(b), !.n_past = x.n_past + 1, !.cache_tokens = c]
            n == [w.slots EXCEPT ![s] = z]
            v == SampledAdded(w, s)
<1>1. /\ WorldType(w) /\ Ready(w) /\ \A t \in Slots : SlotTrue(w, 0, t)
      /\ \A t \in Slots : t >= s /\ Generating(w.slots[t]) =>
            w.slots[t].i_batch = -1 /\ (y = <<>> => w.slots[t].n_past <= NCtx - 2)
      /\ \A j \in DOMAIN b : \E t \in Slots :
            b[j].seqs = {t + 1} /\ w.slots[t].state = "PROCESSING"
    BY WorldParts DEF SampleStage
<1>2. /\ w = [kv |-> w.kv, sys |-> w.sys, slots |-> w.slots, batch |-> w.batch, doubt |-> w.doubt]
      /\ w.slots \in [Slots -> SlotType] /\ Sound(w.kv) /\ SysGood(w.sys)
      /\ w.doubt \in [Slots -> SUBSET Doubts] /\ b \in Seq(Entries) /\ y \in Seq(Tokens)
    BY <1>1 DEF WorldType, SysGood
<1>3. x \in SlotType /\ SlotTrue(w, 0, s) /\ x.command # "RELEASE"
      /\ SlotGood(x, y, w.sys.need, b, 0, s) /\ ~w.sys.need
    BY <1>1, <1>2 DEF SlotTrue, Ready
<1>4. \A t \in Slots : t \in Nat /\ (t >= s + 1 => t >= s) /\ (t >= s => t >= s + 1 \/ t = s)
      /\ s >= s /\ ~(s >= s + 1)
    BY SlotFacts
<1>5. CASE x.state = "IDLE"
    <2>1. v = w
        BY <1>5 DEF SampledAdded
    <2>2. ~Generating(x)
        BY <1>5 DEF Generating
    <2>3. w.kv.has_shift =>
            \/ w.batch # <<>>
            \/ \E t \in Slots : t >= s /\ Generating(w.slots[t])
            \/ \E t \in Slots : Loading(w.slots[t]) /\ w.slots[t].prompt # <<>>
        BY DEF SampleStage
    <2>4. w.kv.has_shift =>
            \/ w.batch # <<>>
            \/ \E t \in Slots : t >= s + 1 /\ Generating(w.slots[t])
            \/ \E t \in Slots : Loading(w.slots[t]) /\ w.slots[t].prompt # <<>>
        BY <1>4, <2>2, <2>3
    <2>5. WorldGood(w, 0)
        BY DEF SampleStage
    <2>. HIDE DEF v
    <2>6. SampleStage(v, s + 1)
        BY <1>1, <1>4, <2>1, <2>4, <2>5 DEF SampleStage
    <2>. QED
        BY <2>6 DEF v
<1>6. CASE x.state # "IDLE"
    <2>1. Generating(x) /\ x.state = "PROCESSING"
        BY <1>3, <1>6 DEF SlotGood, CommandGood, SlotType, Generating
    <2>2. /\ x.i_batch = -1 /\ (y = <<>> => x.n_past <= NCtx - 2)
          /\ x.sampled \in Tokens /\ x.prompt # <<>>
        <3>1. x.i_batch = -1 /\ (y = <<>> => x.n_past <= NCtx - 2)
            BY <1>1, <1>4, <2>1
        <3>. QED
            BY <1>3, <2>1, <3>1 DEF SlotGood, TurnGood, PromptGood
    <2>3. L \in Nat /\ x.n_past \in Nat /\ NCtx \in Nat /\ Len(b) \in Nat /\ x.cache_tokens \in Seq(Tokens)
        BY <1>2, <1>3, CtxAssumption, LenProperties, Zenon DEF SlotType
    <2>4. e \in Entries /\ e.seqs = {s + 1} /\ e.pos = L + x.n_past /\ e.tok = x.sampled
        <3>1. L + x.n_past \in Nat
            BY <2>3
        <3>. QED
            BY <2>2, <3>1 DEF Entry, Entries
    <2>5. /\ <<e>> \in Seq(Entries) /\ Len(<<e>>) = 1 /\ <<e>>[1] = e
          /\ DOMAIN <<e>> = 1 .. 1
        BY <2>4
    <2>6. Append(b, e) = b \o <<e>>
        BY <1>2, <2>4, AppendIsConcat
    <2>7. /\ c \in Seq(Tokens)
          /\ x.cached => /\ Len(c) = x.n_past + 1 /\ Len(x.cache_tokens) = x.n_past
                         /\ c[x.n_past + 1] = x.sampled
                         /\ \A i \in 1 .. x.n_past : c[i] = x.cache_tokens[i]
          /\ ~x.cached => c = x.cache_tokens /\ \A i \in DOMAIN c : c[i] = Zero
        <3>1. Busy(x) /\ ~Loading(x)
            BY <2>1 DEF Busy, Generating, Loading
        <3>2. /\ x.cached => Len(x.cache_tokens) = x.n_past
              /\ ~x.cached => \A i \in DOMAIN x.cache_tokens : x.cache_tokens[i] = Zero
            BY <1>3, <3>1 DEF SlotGood, CacheTokensGood
        <3>3. CASE x.cached
            <4>1. c = Append(x.cache_tokens, x.sampled)
                BY <3>3
            <4>. HIDE DEF c, x
            <4>. QED
                BY <2>2, <2>3, <3>2, <3>3, <4>1, AppendProperties
        <3>. QED
            BY <2>3, <3>2, <3>3
    <2>8. v = [w EXCEPT
                !.batch = Append(@, e),
                !.slots[s].i_batch = Len(b),
                !.slots[s].n_past = @ + 1,
                !.slots[s].cache_tokens = IF x.cached THEN Append(@, x.sampled) ELSE @]
        BY <1>6 DEF SampledAdded
    <2>. HIDE DEF v, e, c
    <2>9. v = [kv |-> w.kv, sys |-> w.sys, slots |-> n, batch |-> b \o <<e>>, doubt |-> w.doubt]
        <3>1. v = [kv |-> w.kv, sys |-> w.sys, doubt |-> w.doubt,
                   batch |-> Append(w.batch, e),
                   slots |-> [w.slots EXCEPT
                        ![s].i_batch = Len(b), ![s].n_past = @ + 1,
                        ![s].cache_tokens = IF x.cached THEN Append(@, x.sampled) ELSE @]]
            BY <1>2, <2>8, Zenon
        <3>2. [w.slots EXCEPT ![s].i_batch = Len(b), ![s].n_past = @ + 1,
                        ![s].cache_tokens = IF x.cached THEN Append(@, x.sampled) ELSE @] = n
            BY <1>2, <1>3, Zenon DEF c, SlotType
        <3>. QED
            BY <2>6, <3>1, <3>2, Zenon
    <2>10. v.kv = w.kv /\ v.sys = w.sys /\ v.slots = n /\ v.batch = b \o <<e>> /\ v.doubt = w.doubt
        BY <2>9
    <2>11. /\ z \in SlotType /\ z.cache_tokens = c /\ z.n_past = x.n_past + 1
           /\ z.state = x.state /\ z.command = x.command /\ z.prompt = x.prompt
           /\ z.cached = x.cached /\ z.n_keep = x.n_keep /\ z.i_batch = Len(b)
        <3>1. x.n_past + 1 \in Nat /\ Len(b) \in Int
            BY <2>3
        <3>. HIDE DEF x, b
        <3>. QED
            BY <1>3, <2>7, <3>1, Zenon DEF SlotType
    <2>12. n[s] = z /\ \A t \in Slots : t # s => n[t] = w.slots[t]
        BY <1>2, Zenon
    <2>. HIDE DEF z, n
    <2>13. Generating(z) /\ ~Loading(z) /\ z.state = "PROCESSING" /\ Working(z) /\ Working(x)
        BY <2>1, <2>2, <2>11 DEF Processing, Loading, Generating, Working
    <2>. DEFINE B == b \o <<e>>
    <2>14. /\ B \in Seq(Entries) /\ Len(B) = Len(b) + 1 /\ B[Len(b) + 1] = e
           /\ \A i \in 1 .. Len(b) : B[i] = b[i]
        BY <1>2, <2>3, <2>5, ConcatProperties
    <2>15. SlotGood(z, y, w.sys.need, B, 0, s)
        <3>1. CommandGood(z) /\ PromptGood(z)
            BY <1>3, <2>2, <2>11, <2>13 DEF SlotGood, CommandGood, PromptGood
        <3>2. CacheTokensGood(z)
            BY <2>7, <2>11 DEF CacheTokensGood
        <3>3. y = <<>> => z.n_past < NCtx
            BY <2>2, <2>3, <2>11
        <3>4. TurnGood(z, y, B, 0, s)
            <4>1. z.i_batch >= -1 /\ z.i_batch # -1 /\ 0 <= z.i_batch /\ z.i_batch < Len(B)
                BY <2>3, <2>11, <2>14
            <4>2. B[z.i_batch + 1] = e
                BY <2>11, <2>14
            <4>3. e.pos = L + z.n_past - 1
                <5>. HIDE DEF L, x
                <5>. QED
                    BY <2>3, <2>4, <2>11
            <4>. HIDE DEF B
            <4>. QED
                BY <2>4, <4>1, <4>2, <4>3 DEF TurnGood
        <3>. HIDE DEF B
        <3>. QED
            BY <1>3, <2>11, <3>1, <3>2, <3>3, <3>4 DEF SlotGood
    <2>16. Believed(Content(w.kv, B, 0, s), y, w.sys.need, z, w.doubt[s])
        <3>. DEFINE C == Content(w.kv, b, 0, s)
                    G == NewItems(b, <<e>>)
                    N == L + x.n_past
        <3>1. Believed(C, y, w.sys.need, x, w.doubt[s])
            BY <1>3 DEF SlotTrue
        <3>2. Content(w.kv, B, 0, s) = C \cup G
            <4>1. Waiting(B, 0, s) = Waiting(b, 0, s) \cup G
                <5>. DEFINE u == <<e>>
                <5>1. \A j \in DOMAIN u : u[j].seqs = {s + 1}
                    BY <2>4, <2>5
                <5>2. b \in Seq(Entries) /\ u \in Seq(Entries)
                    BY <1>2, <2>5
                <5>. HIDE DEF b, u
                <5>3. Waiting(b \o u, 0, s) = Waiting(b, 0, s) \cup NewItems(b, u)
                    BY <5>1, <5>2, MoreWaiting
                <5>. QED
                    BY <5>3 DEF u
            <4>. QED
                BY <4>1 DEF Content
        <3>3. N \in Nat
            BY <2>3
        <3>. HIDE DEF N
        <3>4. InOrder(<<e>>, N, s)
            BY <2>4, <2>5, <3>3 DEF InOrder, N
        <3>5. \A g \in G : g.pos \in N .. N + 1 - 1
            BY <1>2, <2>5, <3>3, <3>4, NewOnes, Zenon
        <3>6. \A g \in G : g.pos \in Int /\ g.pos >= L
            BY <2>3, <3>3, <3>5 DEF N
        <3>. HIDE DEF C, G, B, L, y
        <3>7. "system" \notin w.doubt[s] => SystemIn(C \cup G, y)
            <4>1. "system" \notin w.doubt[s] => SystemIn(C, y)
                BY <3>1 DEF Believed
            <4>. QED
                BY <1>2, <3>6, <4>1, SystemGrown, Zenon DEF L
        <3>8. ASSUME w.doubt[s] = {}
              PROVE  TokensIn(C \cup G, y, c) /\ WholeIn(C \cup G, L + z.n_past)
                     /\ (y = <<>> => TightIn(C \cup G))
            <4>1. WholeIn(C, N) /\ TokensIn(C, y, x.cache_tokens)
                <5>. HIDE DEF x
                <5>. QED
                    BY <1>3, <2>13, <3>1, <3>8 DEF Believed, N, L
            <4>2. /\ WholeIn(C \cup G, N + 1)
                  /\ \A p \in 0 .. N - 1 : \A t : Holds(C, p, t) => Holds(C \cup G, p, t)
                  /\ Holds(C \cup G, N + 1 - 1, x.sampled)
                <5>. HIDE DEF x, b
                <5>1. /\ WholeIn(C \cup G, N + Len(<<e>>))
                      /\ \A p \in 0 .. N - 1 : \A t : Holds(C, p, t) => Holds(C \cup G, p, t)
                      /\ \A j \in 1 .. Len(<<e>>) : Holds(C \cup G, N + j - 1, <<e>>[j].tok)
                    BY <1>2, <2>5, <3>3, <3>4, <4>1, Grown, Zenon DEF G
                <5>. QED
                    BY <2>4, <2>5, <5>1
            <4>3. L + z.n_past = N + 1
                <5>. HIDE DEF x
                <5>. QED
                    BY <2>3, <2>11 DEF N
            <4>4. y = <<>> => TightIn(C \cup G)
                <5>1. ASSUME y = <<>>
                      PROVE  N + 1 \in Nat /\ N + 1 < NCtx
                    <6>1. L = 0
                        BY <5>1, EmptySeq DEF L
                    <6>. QED
                        BY <2>2, <2>3, <3>3, <5>1, <6>1 DEF N
                <5>. QED
                    BY <4>2, <5>1, WholeTight
            <4>5. ASSUME NEW i \in DOMAIN c, c[i] # Zero
                  PROVE  Holds(C \cup G, L + i - 1, c[i])
                <5>1. x.cached
                    BY <2>7, <4>5
                <5>2. /\ Len(c) = x.n_past + 1 /\ Len(x.cache_tokens) = x.n_past
                      /\ c[x.n_past + 1] = x.sampled
                      /\ \A j \in 1 .. x.n_past : c[j] = x.cache_tokens[j]
                      /\ c \in Seq(Tokens)
                    BY <2>7, <5>1, Zenon
                <5>3. i \in 1 .. x.n_past + 1 /\ i \in Nat
                    <6>1. DOMAIN c = 1 .. Len(c)
                        BY <5>2, LenProperties
                    <6>. HIDE DEF x
                    <6>. QED
                        BY <2>3, <4>5, <5>2, <6>1
                <5>4. CASE i = x.n_past + 1
                    <6>1. L + i - 1 = N + 1 - 1
                        <7>. HIDE DEF x
                        <7>. QED
                            BY <2>3, <5>4 DEF N
                    <6>. QED
                        BY <4>2, <5>2, <5>4, <6>1
                <5>5. CASE i # x.n_past + 1
                    <6>1. i \in 1 .. x.n_past /\ i \in DOMAIN x.cache_tokens
                        <7>1. i \in 1 .. x.n_past
                            BY <2>3, <5>3, <5>5
                        <7>. QED
                            BY <2>3, <5>2, <7>1, LenProperties, Zenon
                    <6>2. c[i] = x.cache_tokens[i]
                        BY <5>2, <6>1
                    <6>3. Holds(C, Len(y) + i - 1, x.cache_tokens[i])
                        BY <4>1, <4>5, <6>1, <6>2 DEF TokensIn
                    <6>4. Len(y) + i - 1 = L + i - 1 /\ L + i - 1 \in 0 .. N - 1
                        <7>. HIDE DEF x
                        <7>. QED
                            BY <2>3, <6>1 DEF N, L
                    <6>. QED
                        BY <4>2, <6>2, <6>3, <6>4, Zenon
                <5>. QED
                    BY <5>4, <5>5
            <4>6. TokensIn(C \cup G, y, c)
                BY <4>5, Zenon DEF TokensIn, L
            <4>. QED
                BY <4>2, <4>3, <4>4, <4>6
        <3>. QED
            BY <2>11, <3>2, <3>7, <3>8, Zenon DEF Believed, L
    <2>17. WorldGood(v, 0)
        <3>1. \A j \in DOMAIN <<e>> : <<e>>[j].seqs = {s + 1} /\ <<e>>[j].pos >= L
            BY <2>3, <2>4, <2>5
        <3>2. w.doubt = [w.doubt EXCEPT ![s] = w.doubt[s]] /\ w.doubt[s] \in SUBSET Doubts
            BY <1>2
        <3>3. v = [kv |-> w.kv, sys |-> w.sys, slots |-> [w.slots EXCEPT ![s] = z],
                   batch |-> w.batch \o <<e>>, doubt |-> [w.doubt EXCEPT ![s] = w.doubt[s]]]
            BY <2>9, <3>2, Zenon DEF n
        <3>4. y = <<>> => Unshared(w.kv)
            BY <1>1 DEF WorldType
        <3>. HIDE DEF x
        <3>. QED
            BY <1>1, <1>2, <2>5, <2>11, <2>15, <2>16, <3>1, <3>2, <3>3, <3>4, WorldGrown, Zenon
    <2>18. Ready(v)
        BY <1>1, <1>3, <2>10, <2>11, <2>12 DEF Ready
    <2>19. ASSUME NEW t \in Slots, t >= s + 1
           PROVE  n[t] = w.slots[t]
        BY <1>4, <2>12, <2>19
    <2>20. \A t \in Slots : t >= s + 1 /\ Generating(n[t]) =>
                n[t].i_batch = -1 /\ (y = <<>> => n[t].n_past <= NCtx - 2)
        BY <1>1, <1>4, <2>19
    <2>21. \A t \in Slots : n[t].state = w.slots[t].state
        BY <2>11, <2>12
    <2>22. ASSUME NEW j \in DOMAIN B
           PROVE  \E t \in Slots : B[j].seqs = {t + 1} /\ n[t].state = "PROCESSING"
        <3>1. j \in 1 .. Len(b) + 1 /\ DOMAIN b = 1 .. Len(b)
            <4>. HIDE DEF B, b
            <4>. QED
                BY <1>2, <2>14, LenProperties DEF b
        <3>2. CASE j = Len(b) + 1
            BY <2>4, <2>12, <2>13, <2>14, <3>2
        <3>3. CASE j # Len(b) + 1
            <4>1. j \in DOMAIN b
                BY <2>3, <3>1, <3>3
            <4>. QED
                BY <1>1, <2>14, <2>21, <3>1, <4>1
        <3>. QED
            BY <3>2, <3>3
    <2>23. B # <<>>
        <3>. HIDE DEF B
        <3>. QED
            BY <2>3, <2>14, EmptySeq
    <2>24. SampleStage(v, s + 1)
        BY <2>10, <2>17, <2>18, <2>20, <2>22, <2>23, Zenon DEF SampleStage
    <2>. QED
        BY <2>24 DEF v
<1>. QED
    BY <1>5, <1>6

\* and the loop.
LEMMA AllSampledGood ==
    ASSUME NEW w, SampleStage(w, 0)
    PROVE  SampleStage(AllSampled(w), NSlots)
<1>1. PICK f : /\ AllSampled(w) = f[NSlots]
               /\ f[0] = w
               /\ \A i \in 1 .. NSlots : f[i] = SampledAdded(f[i - 1], i - 1)
    BY SampledLoop
<1>2. NSlots \in Nat
    BY SlotsAssumption
<1>. DEFINE S == {i \in 0 .. NSlots : SampleStage(f[i], i)}
<1>3. 0 \in S
    BY <1>1, <1>2
<1>4. ASSUME NEW j \in 1 .. NSlots, j - 1 \in S
      PROVE  j \in S
    <2>1. j - 1 \in Slots /\ (j - 1) + 1 = j /\ j \in 0 .. NSlots
        BY <1>2 DEF Slots
    <2>2. SampleStage(f[j - 1], j - 1)
        BY <1>4
    <2>3. SampleStage(SampledAdded(f[j - 1], j - 1), (j - 1) + 1)
        BY <2>1, <2>2, SampledAddedGood
    <2>. QED
        BY <1>1, <2>1, <2>3
<1>5. NSlots \in S
    <2>. HIDE DEF S
    <2>1. \A i \in 0 .. NSlots : i \in S
        BY <1>2, <1>3, <1>4, Reached
    <2>. QED
        BY <1>2, <2>1
<1>. QED
    BY <1>1, <1>5

-----------------------------------------------------------------------------
(* A prompt before it is loaded.                                           *)

\* The first n of a sequence.
LEMMA FirstOf ==
    ASSUME NEW T, NEW s \in Seq(T), NEW n \in 0 .. Len(s)
    PROVE  /\ SubSeq(s, 1, n) \in Seq(T) /\ Len(SubSeq(s, 1, n)) = n
           /\ \A i \in 1 .. n : SubSeq(s, 1, n)[i] = s[i]
<1>1. Len(s) \in Nat /\ n \in Nat
    BY LenProperties
<1>2. \A i \in 1 .. n : s[i] \in T
    <2>1. \A i \in 1 .. n : i \in 1 .. Len(s)
        BY <1>1
    <2>. QED
        BY <2>1, ElementOfSeq
<1>3. /\ SubSeq(s, 1, n) \in Seq(T)
      /\ Len(SubSeq(s, 1, n)) = IF 1 <= n THEN n - 1 + 1 ELSE 0
      /\ \A i \in 1 .. n - 1 + 1 : SubSeq(s, 1, n)[i] = s[1 + i - 1]
    BY <1>1, <1>2, SubSeqProperties
<1>4. (IF 1 <= n THEN n - 1 + 1 ELSE 0) = n /\ n - 1 + 1 = n
    BY <1>1
<1>5. ASSUME NEW i \in 1 .. n
      PROVE  SubSeq(s, 1, n)[i] = s[i]
    <2>1. 1 + i - 1 = i
        BY <1>1
    <2>. QED
        BY <1>3, <1>4, <2>1
<1>. QED
    BY <1>3, <1>4, <1>5

\* common_part counts tokens that are the same in both sequences.
LEMMA CommonPartGood ==
    ASSUME NEW T, NEW a \in Seq(T), NEW p \in Seq(T)
    PROVE  /\ CommonPart(a, p) \in Nat /\ CommonPart(a, p) <= Len(a) /\ CommonPart(a, p) <= Len(p)
           /\ \A i \in 1 .. CommonPart(a, p) : a[i] = p[i]
<1>. DEFINE P == CommonPrefixes({a, p})
            S == {Len(a) - Len(q) : q \in P}
<1>1. Len(a) \in Nat /\ Len(p) \in Nat
    BY LenProperties
<1>2. ASSUME NEW q \in P
      PROVE  /\ q \in Seq(T) /\ Len(q) \in Nat /\ Len(q) <= Len(a) /\ Len(q) <= Len(p)
             /\ SubSeq(q, 1, Len(q)) = SubSeq(a, 1, Len(q))
             /\ SubSeq(q, 1, Len(q)) = SubSeq(p, 1, Len(q))
    <2>1. PICK t \in {a, p} : \E l \in 0 .. Len(t) : q = SubSeq(t, 1, l)
        BY DEF CommonPrefixes, Prefixes
    <2>2. PICK l \in 0 .. Len(t) : q = SubSeq(t, 1, l)
        BY <2>1
    <2>3. t \in Seq(T)
        OBVIOUS
    <2>4. q \in Seq(T)
        BY <2>2, <2>3, FirstOf
    <2>5. IsPrefix(q, a) /\ IsPrefix(q, p)
        BY DEF CommonPrefixes
    <2>. QED
        BY <2>4, <2>5, LenProperties DEF IsPrefix
<1>3. P # {}
    <2>. DEFINE z == SubSeq(a, 1, 0)
    <2>1. z = <<>> /\ Len(z) = 0
        BY SubSeqEmpty
    <2>2. z \in UNION {Prefixes(t) : t \in {a, p}}
        <3>1. 0 \in 0 .. Len(a)
            BY <1>1
        <3>2. z \in Prefixes(a)
            BY <3>1 DEF Prefixes
        <3>. QED
            BY <3>2
    <2>3. \A t : SubSeq(t, 1, 0) = <<>>
        BY SubSeqEmpty
    <2>4. IsPrefix(z, a) /\ IsPrefix(z, p)
        <3>1. SubSeq(z, 1, 0) = SubSeq(a, 1, 0) /\ SubSeq(z, 1, 0) = SubSeq(p, 1, 0)
            BY <2>3
        <3>. HIDE DEF z
        <3>. QED
            BY <1>1, <2>1, <3>1 DEF IsPrefix
    <2>. HIDE DEF z
    <2>5. z \in P
        BY <2>2, <2>4 DEF CommonPrefixes
    <2>. QED
        BY <2>5, Zenon
<1>4. S \in SUBSET Nat /\ S # {}
    <2>1. ASSUME NEW q \in P
          PROVE  Len(a) - Len(q) \in Nat
        <3>. HIDE DEF P
        <3>1. Len(q) \in Nat /\ Len(q) <= Len(a)
            BY <1>2
        <3>. QED
            BY <1>1, <3>1
    <2>. QED
        BY <1>3, <2>1, Zenon
<1>5. PICK m \in S : \A n \in S : m <= n
    <2>. HIDE DEF S
    <2>. QED
        BY <1>4, LeastIsLeast, Zenon
<1>6. PICK q \in P : m = Len(a) - Len(q)
    BY <1>5, Zenon
<1>7. \A o \in P : Len(o) <= Len(q)
    <2>1. ASSUME NEW o \in P
          PROVE  Len(o) <= Len(q)
        <3>1. Len(a) - Len(q) <= Len(a) - Len(o)
            BY <1>5, <1>6, Zenon
        <3>2. Len(o) \in Nat /\ Len(q) \in Nat
            BY <1>2
        <3>. QED
            BY <1>1, <3>1, <3>2
    <2>. QED
        BY <2>1, Zenon
<1>8. LongestCommonPrefix({a, p}) \in P
    BY <1>7, Zenon DEF LongestCommonPrefix
<1>. DEFINE r == LongestCommonPrefix({a, p})
<1>. HIDE DEF P, S, r
<1>9. r \in P /\ CommonPart(a, p) = Len(r)
    BY <1>8 DEF CommonPart, r
<1>10. /\ r \in Seq(T) /\ Len(r) \in Nat /\ Len(r) <= Len(a) /\ Len(r) <= Len(p)
       /\ SubSeq(r, 1, Len(r)) = SubSeq(a, 1, Len(r))
       /\ SubSeq(r, 1, Len(r)) = SubSeq(p, 1, Len(r))
    BY <1>2, <1>9
<1>11. ASSUME NEW i \in 1 .. Len(r)
       PROVE  a[i] = p[i]
    <2>1. Len(r) \in 0 .. Len(a) /\ Len(r) \in 0 .. Len(p)
        BY <1>1, <1>10
    <2>2. SubSeq(a, 1, Len(r))[i] = a[i]
        BY <2>1, FirstOf
    <2>3. SubSeq(p, 1, Len(r))[i] = p[i]
        BY <2>1, FirstOf
    <2>. QED
        BY <1>10, <2>2, <2>3
<1>. QED
    BY <1>9, <1>10, <1>11

\* Division and multiplication.
LEMMA Divided ==
    ASSUME NEW a \in Nat, NEW b \in Nat \ {0}
    PROVE  /\ (a \div b) * b \in Nat
           /\ (a \div b) * b <= a
           /\ a < (a \div b) * b + b
OBVIOUS

\* A prompt that was cut fits into the context.
LEMMA TruncatedGood ==
    ASSUME NEW T, NEW p \in Seq(T), p # <<>>, NEW keep \in 0 .. NCtx - 4
    PROVE  /\ Truncated(p, keep) \in Seq(T) /\ Truncated(p, keep) # <<>>
           /\ Len(Truncated(p, keep)) < NCtx
<1>1. NCtx \in Nat /\ NCtx > 4 /\ keep \in Nat /\ Len(p) \in Nat
    BY CtxAssumption, LenProperties
<1>2. CASE Len(p) < NCtx
    BY <1>2 DEF Truncated
<1>3. CASE ~(Len(p) < NCtx)
    <2>. DEFINE block == (NCtx - keep) \div 2
                m == Len(p) - keep - block
                erased == m \div block
                c == erased * block
                f == SubSeq(p, 1, keep)
                g == SubSeq(p, keep + c + 1, Len(p))
    <2>1. block \in Nat /\ block >= 2 /\ keep + 2 * block <= NCtx
        BY <1>1
    <2>. HIDE DEF block
    <2>2. m \in Nat
        BY <1>1, <1>3, <2>1
    <2>. HIDE DEF m
    <2>3. c \in Nat /\ c <= m /\ m < c + block
        BY <2>1, <2>2, Divided
    <2>. HIDE DEF c
    <2>4. m = Len(p) - keep - block
        BY DEF m
    <2>5. keep + c <= Len(p) /\ keep <= Len(p) /\ Len(p) - c < NCtx /\ Len(p) - c > 0
        BY <1>1, <2>1, <2>2, <2>3, <2>4
    <2>6. f \in Seq(T) /\ Len(f) = keep
        <3>1. keep \in 0 .. Len(p)
            BY <1>1, <2>5
        <3>. QED
            BY <3>1, FirstOf
    <2>7. g \in Seq(T) /\ Len(g) = Len(p) - (keep + c)
        <3>1. \A i \in keep + c + 1 .. Len(p) : p[i] \in T
            <4>1. \A i \in keep + c + 1 .. Len(p) : i \in 1 .. Len(p)
                BY <1>1, <2>3
            <4>. QED
                BY <4>1, ElementOfSeq
        <3>2. keep + c + 1 \in Int /\ Len(p) \in Int
            BY <1>1, <2>3
        <3>3. /\ g \in Seq(T)
              /\ Len(g) = IF keep + c + 1 <= Len(p) THEN Len(p) - (keep + c + 1) + 1 ELSE 0
            BY <3>1, <3>2, SubSeqProperties
        <3>. HIDE DEF g
        <3>. QED
            BY <1>1, <2>3, <2>5, <3>3
    <2>8. Truncated(p, keep) = f \o g
        BY <1>3, Zenon DEF Truncated, c, m, block
    <2>. HIDE DEF f, g
    <2>9. f \o g \in Seq(T) /\ Len(f \o g) = Len(f) + Len(g)
        BY <2>6, <2>7, ConcatProperties, Zenon
    <2>10. Len(f \o g) = Len(p) - c
        BY <1>1, <2>3, <2>6, <2>7, <2>9
    <2>11. f \o g # <<>>
        <3>1. Len(f \o g) # 0
            BY <1>1, <2>3, <2>5, <2>10
        <3>. QED
            BY <3>1, EmptySeq
    <2>. QED
        BY <2>5, <2>8, <2>9, <2>10, <2>11
<1>. QED
    BY <1>2, <1>3

\* A slot whose prompt was tokenized.
TokenizedAs(x, z) ==
    /\ z \in SlotType
    /\ z.state = x.state /\ z.command = x.command /\ z.cached = x.cached
    /\ z.cache_tokens = x.cache_tokens /\ z.i_batch = x.i_batch
    /\ z.prompt # <<>> /\ Len(z.prompt) < NCtx /\ z.n_keep \in 0 .. NCtx - 4
    /\ z.n_past < Len(z.prompt)
    /\ z.cached => /\ z.n_past <= Len(z.cache_tokens)
                   /\ \A i \in 1 .. z.n_past : z.cache_tokens[i] = z.prompt[i]
    /\ ~z.cached => z.n_past = 0

\* The prompt of a slot when it was tokenized and cut.
LEMMA TokenizedGood ==
    ASSUME NEW x \in SlotType, x.request # <<>>
    PROVE  TokenizedAs(x, Tokenized(x))
<1>. DEFINE wanted == IF x.n_keep < 0 THEN Len(x.request) ELSE x.n_keep
            keep   == IF NCtx - 4 < wanted THEN NCtx - 4 ELSE wanted
            p      == Truncated(x.request, keep)
            common == IF x.cached THEN CommonPart(x.cache_tokens, p) ELSE 0
            n      == Reused(common, p)
            z      == [x EXCEPT !.prompt = p, !.n_keep = keep, !.n_past = n]
<1>1. /\ x.request \in Seq(Words) /\ x.n_keep \in Int /\ x.cache_tokens \in Seq(Tokens)
      /\ x.cached \in BOOLEAN
    BY DEF SlotType
<1>2. NCtx \in Nat /\ NCtx > 4 /\ Len(x.request) \in Nat
    BY <1>1, CtxAssumption, LenProperties
<1>3. wanted \in Nat
    BY <1>1, <1>2
<1>. HIDE DEF wanted
<1>4. keep \in 0 .. NCtx - 4
    BY <1>2, <1>3
<1>. HIDE DEF keep
<1>5. p \in Seq(Words) /\ p # <<>> /\ Len(p) < NCtx
    BY <1>1, <1>4, TruncatedGood
<1>. HIDE DEF p
<1>6. Len(p) \in Nat /\ Len(p) # 0 /\ p \in Seq(Tokens)
    <2>1. Words \subseteq Tokens
        BY DEF Words
    <2>2. p \in Seq(Tokens)
        BY <1>5, <2>1, SeqMonotonic
    <2>. QED
        BY <1>5, <2>2, EmptySeq, LenProperties
<1>7. /\ common \in Nat /\ common <= Len(p)
      /\ x.cached => /\ common <= Len(x.cache_tokens)
                     /\ \A i \in 1 .. common : x.cache_tokens[i] = p[i]
      /\ ~x.cached => common = 0
    <2>1. CASE x.cached
        <3>1. common = CommonPart(x.cache_tokens, p)
            BY <2>1
        <3>. HIDE DEF common
        <3>. QED
            BY <1>1, <1>6, <2>1, <3>1, CommonPartGood
    <2>2. CASE ~x.cached
        BY <1>6, <2>2
    <2>. QED
        BY <2>1, <2>2
<1>. HIDE DEF common
<1>8. n \in Nat /\ n < Len(p) /\ n <= common
    BY <1>6, <1>7 DEF Reused
<1>. HIDE DEF n
<1>9. /\ x.cached => /\ n <= Len(x.cache_tokens)
                     /\ \A i \in 1 .. n : x.cache_tokens[i] = p[i]
      /\ ~x.cached => n = 0
    <2>1. Len(x.cache_tokens) \in Nat
        BY <1>1, LenProperties
    <2>2. \A i \in 1 .. n : i \in 1 .. common
        BY <1>7, <1>8
    <2>3. ~x.cached => n = 0
        BY <1>7, <1>8
    <2>4. x.cached => n <= Len(x.cache_tokens)
        BY <1>7, <1>8, <2>1
    <2>5. ASSUME x.cached, NEW i \in 1 .. n
          PROVE  x.cache_tokens[i] = p[i]
        BY <1>7, <2>2, <2>5
    <2>. QED
        BY <2>3, <2>4, <2>5
<1>10. Tokenized(x) = z
    BY DEF Tokenized, wanted, keep, p, common, n
<1>11. /\ z \in SlotType /\ z.prompt = p /\ z.n_keep = keep /\ z.n_past = n
       /\ z.state = x.state /\ z.command = x.command /\ z.cached = x.cached
       /\ z.cache_tokens = x.cache_tokens /\ z.i_batch = x.i_batch
    <2>1. keep \in Int /\ n \in Nat /\ p \in Seq(Words)
        BY <1>2, <1>4, <1>5, <1>8
    <2>. QED
        BY <2>1, Zenon DEF SlotType
<1>. HIDE DEF z
<1>12. TokenizedAs(x, z)
    BY <1>4, <1>5, <1>8, <1>9, <1>11 DEF TokenizedAs
<1>. QED
    BY <1>10, <1>12

\* vector::resize.
LEMMA ResizedGood ==
    ASSUME NEW c \in Seq(Tokens), NEW n \in Nat
    PROVE  /\ Resized(c, n) \in Seq(Tokens) /\ Len(Resized(c, n)) = n
           /\ \A i \in 1 .. n : Resized(c, n)[i] = IF i <= Len(c) THEN c[i] ELSE Zero
<1>1. ASSUME NEW i \in 1 .. n
      PROVE  (IF i <= Len(c) THEN c[i] ELSE Zero) \in Tokens
    <2>1. CASE i <= Len(c)
        <3>1. i \in 1 .. Len(c)
            BY <2>1, LenProperties
        <3>. QED
            BY <2>1, <3>1, ElementOfSeq
    <2>2. CASE ~(i <= Len(c))
        BY <2>2, ZeroAssumption
    <2>. QED
        BY <2>1, <2>2
<1>. QED
    BY <1>1 DEF Resized

\* What is left of the content of slot s when what follows n is removed.
LEMMA RemovedHeld ==
    ASSUME NEW k, Sound(k), NEW s \in Slots, NEW p0 \in Int, NEW p1 \in Int
    PROVE  LET r == SeqRm(k, s + 1, p0, p1)
           IN  /\ Sound(r) /\ r.has_shift = k.has_shift /\ r.delta = k.delta
               /\ Unshared(k) => Unshared(r)
               /\ \A t \in Slots : t # s => Held(r, t) = Held(k, t)
               /\ Held(r, s) = {e \in Held(k, s) : ~InRange(e.pos, p0, p1)}
<1>. DEFINE r == SeqRm(k, s + 1, p0, p1)
<1>1. RemovedAs(k, r, s + 1, p0, p1)
    BY SlotFacts, Removed
<1>. HIDE DEF r
<1>2. \A i \in Cells :
        /\ r.seq_id[i] = IF s + 1 \in k.seq_id[i] /\ InRange(k.pos[i], p0, p1)
                         THEN k.seq_id[i] \ {s + 1} ELSE k.seq_id[i]
        /\ r.seq_id[i] # {} => r.pos[i] = k.pos[i]
        /\ r.tok[i] = k.tok[i]
    BY <1>1, Zenon DEF RemovedAs
<1>3. ASSUME Unshared(k), NEW i \in Cells, r.seq_id[i] # {}
      PROVE  \E t \in Slots : r.seq_id[i] = {t + 1}
    <2>1. k.seq_id[i] # {}
        BY <1>2, <1>3, Zenon
    <2>2. PICK t \in Slots : k.seq_id[i] = {t + 1}
        BY <1>3, <2>1 DEF Unshared
    <2>3. r.seq_id[i] = {t + 1}
        BY <1>2, <1>3, <2>2, Zenon
    <2>. QED
        BY <2>3
<1>4. ASSUME NEW t \in Slots, t # s
      PROVE  Held(r, t) = Held(k, t)
    <2>1. s + 1 # t + 1
        BY <1>4, SlotFacts
    <2>2. SameHeld(k, r, t)
        BY <1>2, <2>1, Zenon DEF SameHeld
    <2>. QED
        BY <2>2, HeldSame
<1>5. ASSUME NEW e
      PROVE  e \in Held(r, s) <=> e \in Held(k, s) /\ ~InRange(e.pos, p0, p1)
    <2>1. ASSUME e \in Held(r, s)
          PROVE  e \in Held(k, s) /\ ~InRange(e.pos, p0, p1)
        <3>1. PICK i \in Cells : s + 1 \in r.seq_id[i] /\ e = CellItem(r, i)
            BY <2>1, HeldItems
        <3>2. s + 1 \in k.seq_id[i] /\ ~InRange(k.pos[i], p0, p1)
            BY <1>2, <3>1, Zenon
        <3>3. r.pos[i] = k.pos[i] /\ r.tok[i] = k.tok[i]
            BY <1>2, <3>1, Zenon
        <3>4. e = CellItem(k, i) /\ e.pos = k.pos[i]
            BY <3>1, <3>3 DEF CellItem
        <3>. QED
            BY <3>2, <3>4, HeldItems
    <2>2. ASSUME e \in Held(k, s), ~InRange(e.pos, p0, p1)
          PROVE  e \in Held(r, s)
        <3>1. PICK i \in Cells : s + 1 \in k.seq_id[i] /\ e = CellItem(k, i)
            BY <2>2, HeldItems
        <3>2. e.pos = k.pos[i]
            BY <3>1 DEF CellItem
        <3>3. r.seq_id[i] = k.seq_id[i]
            BY <1>2, <2>2, <3>2, Zenon
        <3>4. r.pos[i] = k.pos[i] /\ r.tok[i] = k.tok[i]
            BY <1>2, <3>1, <3>3, Zenon
        <3>5. e = CellItem(r, i)
            BY <3>1, <3>4 DEF CellItem
        <3>. QED
            BY <3>1, <3>3, <3>5, HeldItems
    <2>. QED
        BY <2>1, <2>2
<1>6. Held(r, s) = {e \in Held(k, s) : ~InRange(e.pos, p0, p1)}
    BY <1>5
<1>7. Unshared(k) => Unshared(r)
    BY <1>3 DEF Unshared
<1>8. Sound(r) /\ r.has_shift = k.has_shift /\ r.delta = k.delta
    BY <1>1 DEF RemovedAs
<1>. QED
    BY <1>4, <1>6, <1>7, <1>8 DEF r

\* seq_rm behind n_past leaves the slot what is before it, and others theirs.
LEMMA OnlyCommonHeld ==
    ASSUME NEW k, Sound(k), NEW s \in Slots, NEW n \in Nat
    PROVE  LET r == OnlyCommon(k, s, n)
           IN  /\ Sound(r) /\ r.has_shift = k.has_shift
               /\ Unshared(k) => Unshared(r)
               /\ \A t \in Slots : t # s => Held(r, t) = Held(k, t)
               /\ Held(r, s) = Below(Held(k, s), n)
<1>. DEFINE r == OnlyCommon(k, s, n)
<1>1. r = SeqRm(k, s + 1, n, -1)
    BY DEF OnlyCommon
<1>. HIDE DEF r
<1>2. -1 \in Int
    OBVIOUS
<1>3. /\ Sound(r) /\ r.has_shift = k.has_shift
      /\ Unshared(k) => Unshared(r)
      /\ \A t \in Slots : t # s => Held(r, t) = Held(k, t)
      /\ Held(r, s) = {e \in Held(k, s) : ~InRange(e.pos, n, -1)}
    BY <1>1, <1>2, RemovedHeld
<1>4. ASSUME NEW e \in Held(k, s)
      PROVE  ~InRange(e.pos, n, -1) <=> e.pos < n
    <2>1. e.pos \in Nat
        BY HeldPlaces
    <2>. QED
        BY <2>1 DEF InRange
<1>5. Held(r, s) = Below(Held(k, s), n)
    BY <1>3, <1>4 DEF Below
<1>. QED
    BY <1>3, <1>5 DEF r

-----------------------------------------------------------------------------
(* Loading a prompt.                                                       *)

LoadReady(x) ==
    /\ x \in SlotType /\ Loading(x) /\ x.i_batch >= -1
    /\ x.prompt # <<>> /\ Len(x.prompt) < NCtx /\ x.n_keep \in 0 .. NCtx - 4
    /\ x.n_past < Len(x.prompt)
    /\ ~x.cached => \A i \in DOMAIN Resized(x.cache_tokens, x.n_past) :
                        Resized(x.cache_tokens, x.n_past)[i] = Zero

LoadDoubt(w, s, x) ==
    IF w.slots[s].prompt = <<>> /\ x.n_past = 0 THEN w.doubt[s] \ {"cells"} ELSE w.doubt[s]

\* What is kept of the sequence is what the prompt begins with.
KeptTrue(w, s, x) ==
    LoadDoubt(w, s, x) = {} =>
        /\ \A p \in 0 .. Len(w.sys.tokens) + x.n_past - 1 : Once(Held(w.kv, s), p)
        /\ TokensIn(Held(w.kv, s), w.sys.tokens, Resized(x.cache_tokens, x.n_past))

\* What remains true of the content before a position.
LEMMA BelowPart ==
    ASSUME NEW C, NEW y \in Seq(Tokens), NEW m \in Nat, \A e \in C : e.pos \in Nat
    PROVE  /\ SystemIn(C, y) => SystemIn(Below(C, Len(y) + m), y)
           /\ \A c \in Seq(Tokens) : Len(c) = m /\ TokensIn(C, y, c) =>
                                        TokensIn(Below(C, Len(y) + m), y, c)
           /\ (\A p \in 0 .. Len(y) + m - 1 : Once(C, p)) =>
                    WholeIn(Below(C, Len(y) + m), Len(y) + m)
<1>1. Len(y) \in Nat /\ Len(y) + m \in Nat
    BY LenProperties
<1>2. ASSUME SystemIn(C, y)
      PROVE  SystemIn(Below(C, Len(y) + m), y)
    <2>1. ASSUME NEW i \in DOMAIN y
          PROVE  Holds(Below(C, Len(y) + m), i - 1, y[i])
        <3>1. i \in 1 .. Len(y)
            BY LenProperties
        <3>2. i - 1 < Len(y) + m
            BY <1>1, <3>1
        <3>. QED
            BY <1>2, <3>2, CutHolds DEF SystemIn
    <2>. QED
        BY <2>1 DEF SystemIn
<1>3. ASSUME NEW c \in Seq(Tokens), Len(c) = m, TokensIn(C, y, c)
      PROVE  TokensIn(Below(C, Len(y) + m), y, c)
    <2>1. ASSUME NEW i \in DOMAIN c, c[i] # Zero
          PROVE  Holds(Below(C, Len(y) + m), Len(y) + i - 1, c[i])
        <3>1. i \in 1 .. m
            BY <1>3, LenProperties
        <3>2. Len(y) + i - 1 < Len(y) + m
            BY <1>1, <3>1
        <3>. QED
            BY <1>3, <2>1, <3>2, CutHolds DEF TokensIn
    <2>. QED
        BY <2>1 DEF TokensIn
<1>4. (\A p \in 0 .. Len(y) + m - 1 : Once(C, p)) => WholeIn(Below(C, Len(y) + m), Len(y) + m)
    BY <1>1, CutWhole
<1>. QED
    BY <1>2, <1>3, <1>4

\* What is true of the content D of a slot that was C when entries v were appended
\* behind the first m tokens of the slot.
LoadedTrue(C, D, y, m, v, kept) ==
    /\ SystemIn(C, y) => SystemIn(D, y)
    /\ (\A p \in 0 .. Len(y) + m - 1 : Once(C, p)) =>
        /\ WholeIn(D, Len(y) + m + Len(v))
        /\ y = <<>> /\ m + Len(v) < NCtx => TightIn(D)
        /\ TokensIn(C, y, kept) =>
            /\ TokensIn(D, y, kept)
            /\ \A c \in Seq(Tokens) :
                /\ Len(c) = m + Len(v)
                /\ \A i \in 1 .. m : c[i] = kept[i]
                /\ \A j \in 1 .. Len(v) : c[m + j] = v[j].tok
                => TokensIn(D, y, c)

\* The content of a slot when the prompt goes on from n_past on.
LEMMA LoadedContent ==
    ASSUME NEW C, \A e \in C : e.pos \in Nat, NEW y \in Seq(Tokens), NEW m \in Nat,
           NEW b \in Seq(Entries), NEW v \in Seq(Entries), NEW s, InOrder(v, Len(y) + m, s),
           NEW kept \in Seq(Tokens), Len(kept) = m
    PROVE  LoadedTrue(C, Below(C, Len(y) + m) \cup NewItems(b, v), y, m, v, kept)
<1>. DEFINE N == Len(y) + m
            B == Below(C, N)
            G == NewItems(b, v)
            D == B \cup G
<1>1. Len(y) \in Nat /\ N \in Nat /\ Len(v) \in Nat
    BY LenProperties
<1>2. \A e \in G : e.pos \in N .. N + Len(v) - 1
    BY <1>1, NewOnes
<1>3. /\ SystemIn(C, y) => SystemIn(B, y)
      /\ TokensIn(C, y, kept) => TokensIn(B, y, kept)
      /\ (\A p \in 0 .. N - 1 : Once(C, p)) => WholeIn(B, N)
    <2>1. SystemIn(C, y) => SystemIn(B, y)
        BY BelowPart
    <2>2. TokensIn(C, y, kept) => TokensIn(B, y, kept)
        BY BelowPart, Zenon
    <2>3. (\A p \in 0 .. N - 1 : Once(C, p)) => WholeIn(B, N)
        <3>. HIDE DEF N
        <3>. QED
            BY <1>1, CutWhole, Zenon
    <2>. HIDE DEF B, N
    <2>. QED
        BY <2>1, <2>2, <2>3
<1>4. ASSUME SystemIn(C, y)
      PROVE  SystemIn(D, y)
    <2>1. ASSUME NEW e \in G
          PROVE  e.pos \in Int /\ e.pos >= Len(y)
        <3>1. e.pos \in N .. N + Len(v) - 1
            BY <1>2
        <3>. QED
            BY <1>1, <3>1
    <2>. HIDE DEF B, G, N
    <2>. QED
        BY <1>3, <1>4, <2>1, SystemGrown, Zenon
<1>5. ASSUME \A p \in 0 .. N - 1 : Once(C, p)
      PROVE  /\ WholeIn(D, N + Len(v))
             /\ y = <<>> /\ m + Len(v) < NCtx => TightIn(D)
             /\ TokensIn(C, y, kept) =>
                    /\ TokensIn(D, y, kept)
                    /\ \A c \in Seq(Tokens) :
                        /\ Len(c) = m + Len(v)
                        /\ \A i \in 1 .. m : c[i] = kept[i]
                        /\ \A j \in 1 .. Len(v) : c[m + j] = v[j].tok
                        => TokensIn(D, y, c)
    <2>1. WholeIn(B, N)
        BY <1>3, <1>5
    <2>. HIDE DEF B
    <2>2. /\ WholeIn(D, N + Len(v))
          /\ \A p \in 0 .. N - 1 : \A t : Holds(B, p, t) => Holds(D, p, t)
          /\ \A j \in 1 .. Len(v) : Holds(D, N + j - 1, v[j].tok)
        <3>. HIDE DEF N
        <3>1. InOrder(v, N, s)
            BY DEF N
        <3>. QED
            BY <1>1, <2>1, <3>1, Grown, Zenon
    <2>. HIDE DEF D, G
    <2>3. ASSUME y = <<>>, m + Len(v) < NCtx
          PROVE  TightIn(D)
        <3>1. Len(y) = 0
            BY <2>3, EmptySeq
        <3>2. N + Len(v) = m + Len(v) /\ N + Len(v) \in Nat
            BY <1>1, <3>1
        <3>. HIDE DEF N
        <3>. QED
            BY <2>2, <2>3, <3>2, WholeTight
    <2>4. ASSUME TokensIn(C, y, kept)
          PROVE  TokensIn(D, y, kept)
        <3>1. ASSUME NEW i \in DOMAIN kept, kept[i] # Zero
              PROVE  Holds(D, Len(y) + i - 1, kept[i])
            <4>1. Holds(B, Len(y) + i - 1, kept[i])
                BY <1>3, <2>4, <3>1 DEF TokensIn
            <4>2. i \in 1 .. m
                BY LenProperties
            <4>3. Len(y) + i - 1 \in 0 .. N - 1
                BY <1>1, <4>2
            <4>. HIDE DEF N
            <4>. QED
                BY <2>2, <4>1, <4>3
        <3>. QED
            BY <3>1 DEF TokensIn
    <2>5. ASSUME TokensIn(C, y, kept), NEW c \in Seq(Tokens), Len(c) = m + Len(v),
                 \A i \in 1 .. m : c[i] = kept[i],
                 \A j \in 1 .. Len(v) : c[m + j] = v[j].tok
          PROVE  TokensIn(D, y, c)
        <3>1. ASSUME NEW i \in DOMAIN c, c[i] # Zero
              PROVE  Holds(D, Len(y) + i - 1, c[i])
            <4>1. i \in 1 .. m + Len(v)
                BY <2>5, LenProperties
            <4>2. CASE i <= m
                <5>1. i \in 1 .. m /\ i \in DOMAIN kept
                    BY <4>1, <4>2, LenProperties
                <5>2. c[i] = kept[i]
                    BY <2>5, <5>1
                <5>3. TokensIn(D, y, kept)
                    BY <2>4, <2>5
                <5>. QED
                    BY <3>1, <5>1, <5>2, <5>3 DEF TokensIn
            <4>3. CASE ~(i <= m)
                <5>1. i - m \in 1 .. Len(v) /\ m + (i - m) = i
                    BY <1>1, <4>1, <4>3
                <5>2. c[i] = v[i - m].tok
                    BY <2>5, <5>1, Zenon
                <5>3. N + (i - m) - 1 = Len(y) + i - 1
                    BY <1>1, <4>1
                <5>4. Holds(D, N + (i - m) - 1, v[i - m].tok)
                    BY <2>2, <5>1, Zenon
                <5>. QED
                    BY <5>2, <5>3, <5>4
            <4>. QED
                BY <4>2, <4>3
        <3>. QED
            BY <3>1 DEF TokensIn
    <2>. QED
        BY <2>2, <2>3, <2>4, <2>5, Zenon
<1>6. LoadedTrue(C, D, y, m, v, kept)
    <2>. HIDE DEF D
    <2>. QED
        BY <1>4, <1>5 DEF LoadedTrue
<1>. QED
    BY <1>6

\* What Loaded makes of w.
LoadedAs(w, s, r) ==
    /\ WorldGood(r, 0) /\ r.sys = w.sys
    /\ r.batch # <<>>
    /\ \A t \in Slots : t # s => r.slots[t] = w.slots[t]
    /\ \A j \in DOMAIN r.batch :
            r.batch[j].seqs = {s + 1} \/ (j \in DOMAIN w.batch /\ r.batch[j] = w.batch[j])

\* The entries of the prompt.
PromptEntries(more, N, n, s) == [j \in 1 .. n |-> Entry(more[j], N + j - 1, s + 1)]

\* The entries of a prompt are in order, and nobody else's.
LEMMA PromptEntriesGood ==
    ASSUME NEW p \in Seq(Words), NEW m \in Nat, NEW n \in Nat, m + n <= Len(p),
           NEW N \in Nat, NEW s \in Slots
    PROVE  LET more == SubSeq(p, m + 1, m + n)
               v == PromptEntries(more, N, n, s)
           IN  /\ more \in Seq(Tokens) /\ Len(more) = n
               /\ v \in Seq(Entries) /\ Len(v) = n /\ InOrder(v, N, s)
               /\ \A j \in 1 .. n : v[j].tok = more[j] /\ v[j].seqs = {s + 1} /\ v[j].pos >= N
<1>. DEFINE more == SubSeq(p, m + 1, m + n)
            v == PromptEntries(more, N, n, s)
<1>1. Len(p) \in Nat
    BY LenProperties
<1>2. /\ more \in Seq(Words) /\ Len(more) = n
    <2>1. \A i \in m + 1 .. m + n : p[i] \in Words
        <3>1. \A i \in m + 1 .. m + n : i \in 1 .. Len(p)
            BY <1>1
        <3>. QED
            BY <3>1, ElementOfSeq
    <2>2. m + 1 \in Int /\ m + n \in Int
        OBVIOUS
    <2>3. /\ more \in Seq(Words)
          /\ Len(more) = IF m + 1 <= m + n THEN m + n - (m + 1) + 1 ELSE 0
        BY <2>1, <2>2, SubSeqProperties
    <2>4. (IF m + 1 <= m + n THEN m + n - (m + 1) + 1 ELSE 0) = n
        OBVIOUS
    <2>. HIDE DEF more
    <2>. QED
        BY <2>3, <2>4
<1>. HIDE DEF more
<1>3. ASSUME NEW j \in 1 .. n
      PROVE  more[j] \in Words /\ Entry(more[j], N + j - 1, s + 1) \in Entries
    <2>1. more[j] \in Words
        BY <1>2, ElementOfSeq
    <2>2. N + j - 1 \in Nat
        OBVIOUS
    <2>3. more[j] \in Tokens
        BY <2>1 DEF Words
    <2>. QED
        BY <2>1, <2>2, <2>3 DEF Entry, Entries
<1>4. v \in Seq(Entries) /\ Len(v) = n
    BY <1>3 DEF PromptEntries
<1>5. \A j \in 1 .. n : v[j] = Entry(more[j], N + j - 1, s + 1)
    BY DEF PromptEntries
<1>6. \A j \in 1 .. n : /\ v[j].tok = more[j] /\ v[j].seqs = {s + 1}
                        /\ v[j].pos = N + j - 1
    <2>. HIDE DEF v
    <2>1. ASSUME NEW j \in 1 .. n
          PROVE  v[j].tok = more[j] /\ v[j].seqs = {s + 1} /\ v[j].pos = N + j - 1
        <3>1. v[j] = [tok |-> more[j], pos |-> N + j - 1, seqs |-> {s + 1}]
            BY <1>5 DEF Entry
        <3>. QED
            BY <3>1
    <2>. QED
        BY <2>1
<1>7. \A j \in 1 .. n : N + j - 1 >= N
    OBVIOUS
<1>8. more \in Seq(Tokens)
    <2>1. Words \subseteq Tokens
        BY DEF Words
    <2>. QED
        BY <1>2, <2>1, SeqMonotonic
<1>. HIDE DEF v
<1>9. InOrder(v, N, s)
    BY <1>4, <1>6 DEF InOrder
<1>. QED
    BY <1>2, <1>4, <1>6, <1>7, <1>8, <1>9, Zenon DEF more, v

\* A prompt whose tokens from n_past on, or as many as fit, are put into the batch.
LEMMA LoadedGood ==
    ASSUME NEW w, WorldType(w), \A t \in Slots : SlotTrue(w, 0, t), ~w.sys.need, NEW s \in Slots,
           Waiting(w.batch, 0, s) = {}, NEW x, LoadReady(x), KeptTrue(w, s, x)
    PROVE  LoadedAs(w, s, Loaded(w, s, x))
<1>. DEFINE y == w.sys.tokens
            L == Len(y)
            m == x.n_past
            N == L + m
            room == IF NBatch < Len(w.batch) THEN 0 ELSE NBatch - Len(w.batch)
            n    == IF Len(x.prompt) - m < room THEN Len(x.prompt) - m ELSE room
            more == SubSeq(x.prompt, m + 1, m + n)
            kept == Resized(x.cache_tokens, m)
            done == m + n = Len(x.prompt)
            v == PromptEntries(more, N, n, s)
            k == OnlyCommon(w.kv, s, N)
            c == IF x.cached THEN kept \o more ELSE kept
            z == [x EXCEPT !.n_past = m + n, !.cache_tokens = c,
                          !.state     = IF done THEN "PROCESSING" ELSE @,
                          !.command   = IF done THEN "NONE" ELSE @,
                          !.n_decoded = IF done THEN 0 ELSE @,
                          !.i_batch   = IF done THEN Len(w.batch) + n - 1 ELSE @]
            D == LoadDoubt(w, s, x)
            C == Held(w.kv, s)
            r == Loaded(w, s, x)
<1>1. /\ w = [kv |-> w.kv, sys |-> w.sys, slots |-> w.slots, batch |-> w.batch, doubt |-> w.doubt]
      /\ w.slots \in [Slots -> SlotType] /\ Sound(w.kv) /\ SysGood(w.sys)
      /\ w.doubt \in [Slots -> SUBSET Doubts] /\ w.batch \in Seq(Entries) /\ y \in Seq(Tokens)
      /\ (y = <<>> => Unshared(w.kv))
    BY DEF WorldType, SysGood
<1>2. /\ x \in SlotType /\ Loading(x) /\ x.i_batch >= -1
      /\ x.prompt # <<>> /\ Len(x.prompt) < NCtx /\ x.n_keep \in 0 .. NCtx - 4
      /\ m < Len(x.prompt)
      /\ ~x.cached => \A i \in DOMAIN kept : kept[i] = Zero
    BY DEF LoadReady
<1>3. /\ L \in Nat /\ m \in Nat /\ Len(w.batch) \in Nat /\ Len(x.prompt) \in Nat
      /\ NBatch \in Nat \ {0} /\ NCtx \in Nat /\ x.prompt \in Seq(Words)
      /\ x.cache_tokens \in Seq(Tokens) /\ x.cached \in BOOLEAN
    BY <1>1, <1>2, CtxAssumption, BatchAssumption, LenProperties, Zenon DEF SlotType
<1>4. N \in Nat
    BY <1>3
<1>5. /\ n \in Nat /\ m + n <= Len(x.prompt) /\ m + n \in Nat /\ m + n < NCtx
      /\ (done => n > 0) /\ (~done => m + n < Len(x.prompt))
      /\ (n = 0 => Len(w.batch) # 0)
    <2>. HIDE DEF m
    <2>1. room \in Nat /\ (Len(w.batch) = 0 => room > 0)
        BY <1>3
    <2>. HIDE DEF room
    <2>2. Len(x.prompt) - m \in Nat /\ Len(x.prompt) - m > 0
        BY <1>2, <1>3
    <2>3. n \in Nat /\ n <= Len(x.prompt) - m /\ (n = 0 => room = 0)
        BY <2>1, <2>2
    <2>. HIDE DEF n
    <2>4. m + n <= Len(x.prompt) /\ m + n \in Nat
        BY <1>3, <2>3
    <2>5. m + n < NCtx
        BY <1>2, <1>3, <2>4
    <2>6. done => n > 0
        BY <1>2, <1>3, <2>3
    <2>7. ~done => m + n < Len(x.prompt)
        BY <1>3, <2>4
    <2>8. n = 0 => Len(w.batch) # 0
        BY <2>1, <2>3
    <2>. QED
        BY <2>3, <2>4, <2>5, <2>6, <2>7, <2>8
<1>6. /\ more \in Seq(Tokens) /\ Len(more) = n
      /\ v \in Seq(Entries) /\ Len(v) = n /\ InOrder(v, N, s)
      /\ \A j \in 1 .. n : v[j].tok = more[j] /\ v[j].seqs = {s + 1} /\ v[j].pos >= N
    <2>. HIDE DEF m, n, N
    <2>. QED
        BY <1>3, <1>4, <1>5, PromptEntriesGood, Zenon
<1>7. kept \in Seq(Tokens) /\ Len(kept) = m
    BY <1>3, ResizedGood, Zenon
<1>8. /\ Sound(k) /\ (Unshared(w.kv) => Unshared(k))
      /\ \A t \in Slots : t # s => Held(k, t) = Held(w.kv, t)
      /\ Held(k, s) = Below(C, N)
    <2>. HIDE DEF N
    <2>. QED
        BY <1>1, <1>4, OnlyCommonHeld
<1>9. D \in SUBSET Doubts
    <2>1. w.doubt[s] \in SUBSET Doubts
        BY <1>1
    <2>. QED
        BY <2>1 DEF LoadDoubt
<1>10. /\ c \in Seq(Tokens)
       /\ x.cached => /\ Len(c) = m + n
                      /\ \A i \in 1 .. m : c[i] = kept[i]
                      /\ \A j \in 1 .. n : c[m + j] = more[j]
       /\ ~x.cached => c = kept
    <2>. HIDE DEF kept, more, m, n
    <2>1. /\ kept \o more \in Seq(Tokens) /\ Len(kept \o more) = m + n
          /\ \A i \in 1 .. m : (kept \o more)[i] = kept[i]
          /\ \A j \in 1 .. n : (kept \o more)[m + j] = more[j]
        <3>1. kept \in Seq(Tokens) /\ more \in Seq(Tokens)
            BY <1>6, <1>7
        <3>2. /\ kept \o more \in Seq(Tokens) /\ Len(kept \o more) = Len(kept) + Len(more)
              /\ \A i \in 1 .. Len(kept) : (kept \o more)[i] = kept[i]
              /\ \A j \in 1 .. Len(more) : (kept \o more)[Len(kept) + j] = more[j]
            BY <3>1, ConcatProperties
        <3>. QED
            BY <1>6, <1>7, <3>2, Zenon
    <2>. QED
        BY <1>7, <2>1, Zenon
<1>11. r = [kv |-> k, sys |-> w.sys, slots |-> [w.slots EXCEPT ![s] = z],
            batch |-> w.batch \o v, doubt |-> [w.doubt EXCEPT ![s] = D]]
    <2>1. r = [w EXCEPT
            !.kv = OnlyCommon(@, s, N),
            !.batch = @ \o v,
            !.slots[s] = z,
            !.doubt[s] = IF w.slots[s].prompt = <<>> /\ m = 0 THEN @ \ {"cells"} ELSE @]
        BY DEF Loaded, PromptEntries
    <2>2. [w.doubt EXCEPT ![s] = IF w.slots[s].prompt = <<>> /\ m = 0 THEN @ \ {"cells"} ELSE @]
            = [w.doubt EXCEPT ![s] = D]
        BY <1>1 DEF LoadDoubt
    <2>. HIDE DEF r, v, z, D
    <2>3. r = [kv |-> OnlyCommon(w.kv, s, N), sys |-> w.sys, batch |-> w.batch \o v,
               slots |-> [w.slots EXCEPT ![s] = z],
               doubt |-> [w.doubt EXCEPT ![s] =
                            IF w.slots[s].prompt = <<>> /\ m = 0 THEN @ \ {"cells"} ELSE @]]
        BY <1>1, <2>1, Zenon
    <2>. QED
        BY <2>2, <2>3, Zenon
<1>. HIDE DEF r, v, D, k, c, more, kept, n, N
<1>13. /\ z \in SlotType /\ z.cache_tokens = c /\ z.n_past = m + n
       /\ z.state = (IF done THEN "PROCESSING" ELSE x.state)
       /\ z.command = (IF done THEN "NONE" ELSE x.command)
       /\ z.prompt = x.prompt /\ z.cached = x.cached /\ z.n_keep = x.n_keep
       /\ z.i_batch = (IF done THEN Len(w.batch) + n - 1 ELSE x.i_batch)
    <2>1. Len(w.batch) + n - 1 \in Int /\ m + n \in Nat
        BY <1>3, <1>5
    <2>2. /\ (IF done THEN "PROCESSING" ELSE x.state) \in {"IDLE", "PROCESSING"}
          /\ (IF done THEN "NONE" ELSE x.command) \in {"NONE", "LOAD_PROMPT", "RELEASE"}
          /\ (IF done THEN 0 ELSE x.n_decoded) \in Int
          /\ (IF done THEN Len(w.batch) + n - 1 ELSE x.i_batch) \in Int
        <3>. HIDE DEF done
        <3>. QED
            BY <1>2, <2>1 DEF SlotType
    <2>. HIDE DEF done, m
    <2>. QED
        BY <1>2, <1>10, <2>1, <2>2, Zenon DEF SlotType
<1>. HIDE DEF z
<1>14. /\ x.state = "IDLE" /\ x.command = "LOAD_PROMPT"
       /\ (done => z.state = "PROCESSING" /\ z.command = "NONE"
                    /\ z.i_batch = Len(w.batch) + n - 1)
       /\ (~done => z.state = "IDLE" /\ z.command = "LOAD_PROMPT" /\ z.i_batch = x.i_batch)
    <2>. HIDE DEF done
    <2>. QED
        BY <1>2, <1>13 DEF Loading
<1>. DEFINE B == w.batch \o v
<1>15. /\ B \in Seq(Entries) /\ Len(B) = Len(w.batch) + n
       /\ \A i \in 1 .. Len(w.batch) : B[i] = w.batch[i]
       /\ \A j \in 1 .. n : B[Len(w.batch) + j] = v[j]
    <2>1. w.batch \in Seq(Entries) /\ v \in Seq(Entries) /\ Len(v) = n
        BY <1>1, <1>6
    <2>2. \A g1, g2 \in Seq(Entries) :
            /\ g1 \o g2 \in Seq(Entries) /\ Len(g1 \o g2) = Len(g1) + Len(g2)
            /\ \A i \in 1 .. Len(g1) : (g1 \o g2)[i] = g1[i]
            /\ \A j \in 1 .. Len(g2) : (g1 \o g2)[Len(g1) + j] = g2[j]
        BY ConcatProperties
    <2>3. /\ B \in Seq(Entries) /\ Len(B) = Len(w.batch) + Len(v)
          /\ \A i \in 1 .. Len(w.batch) : B[i] = w.batch[i]
          /\ \A j \in 1 .. Len(v) : B[Len(w.batch) + j] = v[j]
        BY <2>1, <2>2, Zenon
    <2>. HIDE DEF B
    <2>. QED
        BY <2>1, <2>3
<1>. HIDE DEF B
<1>16. SlotGood(z, y, w.sys.need, B, 0, s)
    <2>1. CommandGood(z)
        BY <1>14 DEF CommandGood
    <2>2. PromptGood(z)
        <3>1. Loading(z) => z.n_past < Len(z.prompt)
            <4>1. Loading(z) => ~done
                BY <1>14 DEF Loading
            <4>. QED
                BY <1>5, <1>13, <4>1
        <3>. HIDE DEF done
        <3>. QED
            BY <1>2, <1>13, <3>1 DEF PromptGood
    <2>3. CacheTokensGood(z)
        <3>1. z.cached => Len(z.cache_tokens) = z.n_past
            BY <1>10, <1>13
        <3>2. ~z.cached => \A i \in DOMAIN z.cache_tokens : z.cache_tokens[i] = Zero
            BY <1>2, <1>10, <1>13 DEF kept
        <3>. QED
            BY <3>1, <3>2 DEF CacheTokensGood
    <2>4. z.n_past < NCtx
        BY <1>5, <1>13
    <2>5. TurnGood(z, y, B, 0, s)
        <3>1. CASE done
            <4>1. n > 0 /\ n \in Nat /\ z.i_batch = Len(w.batch) + n - 1 /\ z.n_past = m + n
                BY <1>5, <1>13, <1>14, <3>1
            <4>2. /\ z.i_batch >= -1 /\ z.i_batch # -1 /\ 0 <= z.i_batch /\ z.i_batch < Len(B)
                  /\ z.i_batch + 1 = Len(w.batch) + n /\ n \in 1 .. n
                BY <1>3, <1>15, <4>1
            <4>3. B[z.i_batch + 1] = v[n]
                BY <1>15, <4>2
            <4>4. v[n].seqs = {s + 1} /\ v[n].pos = N + n - 1
                BY <1>6, <4>2 DEF InOrder
            <4>5. N + n - 1 = L + z.n_past - 1
                BY <1>3, <4>1 DEF N
            <4>6. v[n].pos = L + z.n_past - 1
                BY <4>4, <4>5
            <4>. QED
                BY <4>2, <4>3, <4>4, <4>6 DEF TurnGood
        <3>2. CASE ~done
            <4>1. ~Generating(z) /\ z.i_batch >= -1
                BY <1>2, <1>14, <3>2 DEF Generating
            <4>. QED
                BY <4>1 DEF TurnGood
        <3>. QED
            BY <3>1, <3>2
    <2>. QED
        BY <1>13, <2>1, <2>2, <2>3, <2>4, <2>5 DEF SlotGood
<1>17. Believed(Content(k, B, 0, s), y, w.sys.need, z, D)
    <2>. DEFINE E == Below(C, N) \cup NewItems(w.batch, v)
    <2>1. Content(k, B, 0, s) = E
        <3>1. \A j \in DOMAIN v : v[j].seqs = {s + 1}
            <4>1. DOMAIN v = 1 .. n
                BY <1>6, LenProperties
            <4>. QED
                BY <1>6, <4>1
        <3>2. Waiting(B, 0, s) = Waiting(w.batch, 0, s) \cup NewItems(w.batch, v)
            <4>1. w.batch \in Seq(Entries) /\ v \in Seq(Entries)
                BY <1>1, <1>6
            <4>2. Waiting(w.batch \o v, 0, s) = Waiting(w.batch, 0, s) \cup NewItems(w.batch, v)
                BY <3>1, <4>1, MoreWaiting
            <4>. QED
                BY <4>2 DEF B
        <3>. QED
            BY <1>8, <3>2 DEF Content
    <2>2. LoadedTrue(C, E, y, m, v, kept)
        <3>1. \A e \in C : e.pos \in Nat
            BY <1>1, HeldPlaces
        <3>2. InOrder(v, Len(y) + m, s)
            BY <1>6 DEF N
        <3>3. E = Below(C, Len(y) + m) \cup NewItems(w.batch, v)
            BY DEF N
        <3>. HIDE DEF E, C, m, y
        <3>. QED
            BY <1>1, <1>3, <1>6, <1>7, <3>1, <3>2, <3>3, LoadedContent, Zenon
    <2>. HIDE DEF E, C, y, L, done
    <2>3. "system" \notin D => SystemIn(C, y)
        <3>1. Content(w.kv, w.batch, 0, s) = C
            BY DEF Content, C
        <3>2. SlotTrue(w, 0, s)
            OBVIOUS
        <3>3. "system" \notin w.doubt[s] => SystemIn(C, y)
            BY <3>1, <3>2 DEF SlotTrue, Believed, y
        <3>4. "system" \notin D => "system" \notin w.doubt[s]
            BY DEF D, LoadDoubt
        <3>. QED
            BY <3>3, <3>4
    <2>4. ASSUME D = {}
          PROVE  TokensIn(E, y, c) /\ WholeIn(E, L + z.n_past) /\ (y = <<>> => TightIn(E))
        <3>1. (\A p \in 0 .. Len(y) + m - 1 : Once(C, p)) /\ TokensIn(C, y, kept)
            BY <2>4 DEF KeptTrue, C, y, D, kept
        <3>2. /\ WholeIn(E, Len(y) + m + Len(v))
              /\ y = <<>> /\ m + Len(v) < NCtx => TightIn(E)
              /\ TokensIn(E, y, kept)
              /\ \A d \in Seq(Tokens) :
                    /\ Len(d) = m + Len(v)
                    /\ \A i \in 1 .. m : d[i] = kept[i]
                    /\ \A j \in 1 .. Len(v) : d[m + j] = v[j].tok
                    => TokensIn(E, y, d)
            <4>. HIDE DEF m
            <4>. QED
                BY <2>2, <3>1 DEF LoadedTrue
        <3>3. TokensIn(E, y, c)
            <4>1. CASE x.cached
                <5>1. /\ Len(c) = m + Len(v)
                      /\ \A i \in 1 .. m : c[i] = kept[i]
                      /\ \A j \in 1 .. Len(v) : c[m + j] = v[j].tok
                      /\ c \in Seq(Tokens)
                    <6>. HIDE DEF m
                    <6>. QED
                        BY <1>6, <1>10, <4>1
                <5>. HIDE DEF m
                <5>. QED
                    BY <3>2, <5>1
            <4>2. CASE ~x.cached
                BY <1>10, <3>2, <4>2
            <4>. QED
                BY <4>1, <4>2
        <3>4. Len(y) + m + Len(v) = L + z.n_past
            <4>. HIDE DEF m
            <4>. QED
                BY <1>3, <1>5, <1>6, <1>13 DEF L
        <3>. QED
            BY <1>5, <1>6, <3>2, <3>3, <3>4
    <2>. QED
        BY <1>13, <2>1, <2>2, <2>3, <2>4 DEF Believed, LoadedTrue, L
<1>18. WorldGood(r, 0)
    <2>1. \A j \in DOMAIN v : v[j].seqs = {s + 1} /\ v[j].pos >= L
        <3>1. DOMAIN v = 1 .. n
            BY <1>6, LenProperties
        <3>2. ASSUME NEW j \in 1 .. n
              PROVE  v[j].seqs = {s + 1} /\ v[j].pos >= L
            <4>1. v[j] \in Entries
                BY <1>6, ElementOfSeq
            <4>2. v[j].pos \in Nat
                BY <4>1 DEF Entries
            <4>3. v[j].pos >= N /\ N >= L
                BY <1>3, <1>6 DEF N
            <4>. QED
                BY <1>3, <1>4, <1>6, <4>2, <4>3
        <3>. QED
            BY <3>1, <3>2
    <2>. HIDE DEF m, done, C
    <2>. QED
        BY <1>1, <1>6, <1>8, <1>9, <1>11, <1>13, <1>16, <1>17, <2>1, WorldGrown, Zenon DEF B
<1>19. /\ r.sys = w.sys /\ r.batch = B /\ r.slots = [w.slots EXCEPT ![s] = z]
    BY <1>11 DEF B
<1>20. B # <<>>
    <2>1. Len(B) # 0
        BY <1>3, <1>5, <1>15
    <2>. QED
        BY <2>1, EmptySeq
<1>21. \A t \in Slots : t # s => r.slots[t] = w.slots[t]
    BY <1>1, <1>19
<1>22. ASSUME NEW j \in DOMAIN B
       PROVE  B[j].seqs = {s + 1} \/ (j \in DOMAIN w.batch /\ B[j] = w.batch[j])
    <2>1. j \in 1 .. Len(w.batch) + n /\ DOMAIN w.batch = 1 .. Len(w.batch)
        BY <1>1, <1>15, LenProperties
    <2>2. CASE j <= Len(w.batch)
        BY <1>3, <1>15, <2>1, <2>2
    <2>3. CASE ~(j <= Len(w.batch))
        <3>1. j - Len(w.batch) \in 1 .. n /\ Len(w.batch) + (j - Len(w.batch)) = j
            BY <1>3, <1>5, <2>1, <2>3
        <3>2. B[j] = v[j - Len(w.batch)]
            BY <1>15, <3>1
        <3>. QED
            BY <1>6, <3>1, <3>2
    <2>. QED
        BY <2>2, <2>3
<1>23. LoadedAs(w, s, r)
    BY <1>18, <1>19, <1>20, <1>21, <1>22 DEF LoadedAs
<1>. QED
    BY <1>23 DEF r

\* What cache_tokens say stays true when they are resized.
LEMMA ResizedTrue ==
    ASSUME NEW C, NEW y, NEW c \in Seq(Tokens), NEW n \in Nat
    PROVE  /\ TokensIn(C, y, c) => TokensIn(C, y, Resized(c, n))
           /\ (\A i \in DOMAIN c : c[i] = Zero) =>
                \A i \in DOMAIN Resized(c, n) : Resized(c, n)[i] = Zero
           /\ n = 0 => TokensIn(C, y, Resized(c, n)) /\ DOMAIN Resized(c, n) = {}
<1>. DEFINE r == Resized(c, n)
<1>1. /\ r \in Seq(Tokens) /\ Len(r) = n
      /\ \A i \in 1 .. n : r[i] = IF i <= Len(c) THEN c[i] ELSE Zero
    BY ResizedGood
<1>. HIDE DEF r
<1>2. DOMAIN r = 1 .. n /\ DOMAIN c = 1 .. Len(c) /\ Len(c) \in Nat
    BY <1>1, LenProperties
<1>3. ASSUME NEW i \in DOMAIN r, r[i] # Zero
      PROVE  i \in DOMAIN c /\ r[i] = c[i]
    BY <1>1, <1>2, <1>3
<1>4. TokensIn(C, y, c) => TokensIn(C, y, r)
    BY <1>3 DEF TokensIn
<1>5. (\A i \in DOMAIN c : c[i] = Zero) => \A i \in DOMAIN r : r[i] = Zero
    BY <1>3
<1>6. n = 0 => DOMAIN r = {}
    BY <1>2
<1>7. n = 0 => TokensIn(C, y, r)
    BY <1>6 DEF TokensIn
<1>. QED
    BY <1>4, <1>5, <1>6, <1>7 DEF r

\* A slot that is at its prompt goes on with it.
LEMMA PromptGoesOn ==
    ASSUME NEW w, WorldType(w), NEW s \in Slots, SlotTrue(w, 0, s), ~w.sys.need,
           Waiting(w.batch, 0, s) = {}, Loading(w.slots[s]), w.slots[s].prompt # <<>>
    PROVE  LoadReady(w.slots[s]) /\ KeptTrue(w, s, w.slots[s])
<1>. DEFINE x == w.slots[s]
            y == w.sys.tokens
            C == Held(w.kv, s)
<1>1. /\ x \in SlotType /\ y \in Seq(Tokens)
      /\ SlotGood(x, y, w.sys.need, w.batch, 0, s)
      /\ Believed(Content(w.kv, w.batch, 0, s), y, w.sys.need, x, w.doubt[s])
    BY DEF WorldType, SysGood, SlotTrue
<1>2. Content(w.kv, w.batch, 0, s) = C
    BY DEF Content
<1>3. x.cache_tokens \in Seq(Tokens) /\ x.n_past \in Nat
    BY <1>1 DEF SlotType
<1>4. Busy(x) /\ Working(x)
    BY DEF Busy, Working, Processing
<1>5. ~x.cached => \A i \in DOMAIN x.cache_tokens : x.cache_tokens[i] = Zero
    BY <1>1, <1>4 DEF SlotGood, CacheTokensGood
<1>. HIDE DEF C, y, x
<1>6. LoadReady(x)
    <2>1. ~x.cached => \A i \in DOMAIN Resized(x.cache_tokens, x.n_past) :
                        Resized(x.cache_tokens, x.n_past)[i] = Zero
        BY <1>3, <1>5, ResizedTrue, Zenon
    <2>2. Loading(x) /\ x.prompt # <<>>
        BY DEF x
    <2>. QED
        BY <1>1, <2>1, <2>2 DEF LoadReady, SlotGood, PromptGood, TurnGood
<1>7. ASSUME w.doubt[s] = {}
      PROVE  /\ \A p \in 0 .. Len(y) + x.n_past - 1 : Once(C, p)
             /\ TokensIn(C, y, Resized(x.cache_tokens, x.n_past))
    <2>1. TokensIn(C, y, x.cache_tokens) /\ WholeIn(C, Len(y) + x.n_past)
        BY <1>1, <1>2, <1>4, <1>7 DEF Believed
    <2>. QED
        BY <1>3, <2>1, ResizedTrue DEF WholeIn
<1>8. KeptTrue(w, s, x)
    <2>1. LoadDoubt(w, s, x) = w.doubt[s]
        BY DEF LoadDoubt, x
    <2>. QED
        BY <1>7, <2>1 DEF KeptTrue, C, y
<1>. QED
    BY <1>6, <1>8 DEF x

\* A slot that begins with its prompt.
LEMMA PromptBegins ==
    ASSUME NEW w, WorldType(w), NEW s \in Slots, SlotTrue(w, 0, s), ~w.sys.need,
           Waiting(w.batch, 0, s) = {}, Loading(w.slots[s]), w.slots[s].prompt = <<>>,
           w.slots[s].request # <<>>
    PROVE  LoadReady(Tokenized(w.slots[s])) /\ KeptTrue(w, s, Tokenized(w.slots[s]))
<1>. DEFINE x == w.slots[s]
            y == w.sys.tokens
            C == Held(w.kv, s)
            z == Tokenized(x)
<1>1. /\ x \in SlotType /\ y \in Seq(Tokens)
      /\ SlotGood(x, y, w.sys.need, w.batch, 0, s)
      /\ Believed(Content(w.kv, w.batch, 0, s), y, w.sys.need, x, w.doubt[s])
      /\ x.request # <<>> /\ Loading(x) /\ x.prompt = <<>>
    BY DEF WorldType, SysGood, SlotTrue
<1>2. Content(w.kv, w.batch, 0, s) = C
    BY DEF Content
<1>. HIDE DEF C, y, x, z
<1>3. TokenizedAs(x, z)
    BY <1>1, TokenizedGood DEF z
<1>4. z.cache_tokens \in Seq(Tokens) /\ z.n_past \in Nat /\ z.prompt \in Seq(Words)
      /\ z.cached \in BOOLEAN /\ Len(y) \in Nat /\ Len(z.prompt) \in Nat
    <2>1. z.cache_tokens \in Seq(Tokens) /\ z.n_past \in Nat /\ z.prompt \in Seq(Words)
          /\ z.cached \in BOOLEAN
        BY <1>3 DEF TokenizedAs, SlotType
    <2>. QED
        BY <1>1, <2>1, LenProperties
<1>. DEFINE kept == Resized(z.cache_tokens, z.n_past)
<1>5. LoadReady(z)
    <2>1. ~z.cached => z.n_past = 0
        BY <1>3 DEF TokenizedAs
    <2>2. ~z.cached => \A i \in DOMAIN kept : kept[i] = Zero
        <3>1. z.n_past = 0 => DOMAIN kept = {}
            BY <1>4, ResizedTrue, Zenon
        <3>. QED
            BY <2>1, <3>1
    <2>3. Loading(z) /\ z.i_batch >= -1
        BY <1>1, <1>3 DEF TokenizedAs, Loading, SlotGood, TurnGood
    <2>. QED
        BY <1>3, <2>2, <2>3 DEF LoadReady, TokenizedAs
<1>6. x.cache_tokens = z.cache_tokens
    BY <1>3 DEF TokenizedAs
<1>7. LoadDoubt(w, s, z) = {} =>
            "system" \notin w.doubt[s] /\ (z.n_past # 0 => w.doubt[s] = {})
    <2>1. "system" # "cells"
        OBVIOUS
    <2>. QED
        BY <2>1 DEF LoadDoubt
<1>8. ASSUME "system" \notin w.doubt[s], z.n_past # 0 => w.doubt[s] = {}
      PROVE  /\ \A p \in 0 .. Len(y) + z.n_past - 1 : Once(C, p)
             /\ TokensIn(C, y, kept)
    <2>1. SystemIn(C, y)
        BY <1>1, <1>2, <1>8 DEF Believed
    <2>2. z.n_past # 0 => TokensIn(C, y, z.cache_tokens)
        BY <1>1, <1>2, <1>6, <1>8 DEF Believed
    <2>3. TokensIn(C, y, kept)
        BY <1>4, <2>2, ResizedTrue, Zenon
    <2>4. ASSUME NEW p \in 0 .. Len(y) + z.n_past - 1
          PROVE  Once(C, p)
        <3>1. CASE p < Len(y)
            <4>1. p + 1 \in DOMAIN y /\ (p + 1) - 1 = p
                <5>1. DOMAIN y = 1 .. Len(y)
                    BY <1>1, LenProperties
                <5>. QED
                    BY <1>4, <3>1, <5>1
            <4>2. Holds(C, p, y[p + 1])
                BY <2>1, <4>1 DEF SystemIn
            <4>. QED
                BY <4>2, HoldsOnce
        <3>2. CASE ~(p < Len(y))
            <4>1. PICK i \in 1 .. z.n_past : p = Len(y) + i - 1
                <5>1. p - Len(y) + 1 \in 1 .. z.n_past /\ p = Len(y) + (p - Len(y) + 1) - 1
                    BY <1>4, <3>2
                <5>. QED
                    BY <5>1
            <4>2. z.n_past # 0
                BY <1>4, <4>1
            <4>3. /\ z.n_past <= Len(z.cache_tokens) /\ z.n_past < Len(z.prompt)
                  /\ z.cache_tokens[i] = z.prompt[i]
                BY <1>3, <4>2 DEF TokenizedAs
            <4>4. i \in DOMAIN z.cache_tokens /\ i \in 1 .. Len(z.prompt)
                <5>1. DOMAIN z.cache_tokens = 1 .. Len(z.cache_tokens) /\ Len(z.cache_tokens) \in Nat
                    BY <1>4, LenProperties
                <5>. QED
                    BY <1>4, <4>3, <5>1
            <4>5. z.cache_tokens[i] # Zero
                <5>1. z.prompt[i] \in Words
                    BY <1>4, <4>4, ElementOfSeq
                <5>. QED
                    BY <4>3, <5>1 DEF Words
            <4>6. Holds(C, p, z.cache_tokens[i])
                BY <2>2, <4>1, <4>2, <4>4, <4>5 DEF TokensIn
            <4>. QED
                BY <4>6, HoldsOnce
        <3>. QED
            BY <3>1, <3>2
    <2>. QED
        BY <2>3, <2>4
<1>9. KeptTrue(w, s, z)
    BY <1>7, <1>8 DEF KeptTrue, C, y
<1>. QED
    BY <1>5, <1>9 DEF z, x

\* Where the loop of the prompts is when slot i is next.
LoadStage(w, i) ==
    /\ WorldGood(w, 0) /\ ~w.sys.need
    /\ \A j \in DOMAIN w.batch : \E t \in Slots :
            w.batch[j].seqs = {t + 1} /\ (w.slots[t].state = "PROCESSING" \/ t < i)
    /\ w.kv.has_shift => \/ w.batch # <<>>
                         \/ \E s \in Slots : s >= i /\ Loading(w.slots[s])
                                             /\ w.slots[s].prompt # <<>>

\* After the sampled tokens the prompts come.
LEMMA LoadBegins ==
    ASSUME NEW w, SampleStage(w, NSlots)
    PROVE  LoadStage(w, 0)
<1>1. \A s \in Slots : ~(s >= NSlots) /\ s >= 0
    BY SlotsAssumption DEF Slots
<1>. QED
    BY <1>1 DEF SampleStage, LoadStage, Ready

Emptied(w, s) ==
    [w EXCEPT !.slots[s].state = "PROCESSING", !.slots[s].command = "RELEASE"]

EmptiedAs(w, s, r) ==
    /\ WorldGood(r, 0) /\ r.sys = w.sys /\ r.batch = w.batch /\ r.kv = w.kv
    /\ r.slots[s].state = "PROCESSING"
    /\ \A t \in Slots : t # s => r.slots[t] = w.slots[t]

\* A request without a prompt ends at once.
LEMMA EmptyRequest ==
    ASSUME NEW w, WorldType(w), \A t \in Slots : SlotTrue(w, 0, t), NEW s \in Slots,
           w.slots[s].prompt = <<>>
    PROVE  EmptiedAs(w, s, Emptied(w, s))
<1>. DEFINE r == Emptied(w, s)
            x == w.slots[s]
            z == [x EXCEPT !.state = "PROCESSING", !.command = "RELEASE"]
            y == w.sys.tokens
<1>1. /\ w = [kv |-> w.kv, sys |-> w.sys, slots |-> w.slots, batch |-> w.batch, doubt |-> w.doubt]
      /\ w.slots \in [Slots -> SlotType] /\ w.batch \in Seq(Entries) /\ Sound(w.kv)
      /\ w.doubt \in [Slots -> SUBSET Doubts] /\ (y = <<>> => Unshared(w.kv))
    BY DEF WorldType
<1>2. x \in SlotType /\ x.prompt = <<>> /\ SlotGood(x, y, w.sys.need, w.batch, 0, s)
      /\ Believed(Content(w.kv, w.batch, 0, s), y, w.sys.need, x, w.doubt[s])
    BY <1>1 DEF SlotTrue
<1>3. r = [kv |-> w.kv, sys |-> w.sys, slots |-> [w.slots EXCEPT ![s] = z],
           batch |-> w.batch, doubt |-> w.doubt]
    <2>1. r = [kv |-> w.kv, sys |-> w.sys, batch |-> w.batch, doubt |-> w.doubt,
               slots |-> [w.slots EXCEPT ![s].state = "PROCESSING", ![s].command = "RELEASE"]]
        <3>1. r = [w EXCEPT !.slots[s].state = "PROCESSING", !.slots[s].command = "RELEASE"]
            BY DEF Emptied
        <3>. HIDE DEF r
        <3>. QED
            BY <1>1, <3>1, Zenon
    <2>2. [w.slots EXCEPT ![s].state = "PROCESSING", ![s].command = "RELEASE"]
            = [w.slots EXCEPT ![s] = z]
        BY <1>1, <1>2, Zenon DEF SlotType
    <2>. QED
        BY <2>1, <2>2
<1>4. /\ z \in SlotType /\ z.state = "PROCESSING" /\ z.command = "RELEASE"
      /\ z.prompt = x.prompt /\ z.cache_tokens = x.cache_tokens /\ z.n_past = x.n_past
      /\ z.i_batch = x.i_batch
    <2>. HIDE DEF x
    <2>. QED
        BY <1>2, Zenon DEF SlotType
<1>. HIDE DEF x, z, r
<1>5. ~Loading(z) /\ ~Generating(z) /\ ~Busy(z) /\ ~Working(z)
    BY <1>2, <1>4 DEF Loading, Generating, Busy, Working
<1>6. SlotGood(z, y, w.sys.need, w.batch, 0, s)
    BY <1>2, <1>4, <1>5 DEF SlotGood, CommandGood, PromptGood, CacheTokensGood, TurnGood
<1>7. Believed(Content(w.kv, w.batch, 0, s), y, w.sys.need, z, w.doubt[s])
    BY <1>2, <1>4, <1>5 DEF Believed
<1>8. w.batch \o <<>> = w.batch /\ <<>> \in Seq(Entries) /\ DOMAIN <<>> = {}
    BY <1>1, ConcatEmptySeq
<1>9. w.doubt = [w.doubt EXCEPT ![s] = w.doubt[s]] /\ w.doubt[s] \in SUBSET Doubts
    BY <1>1
<1>10. WorldGood(r, 0)
    <2>. DEFINE v == <<>>
    <2>1. /\ v \in Seq(Entries) /\ w.batch \o v = w.batch
          /\ \A j \in DOMAIN v : v[j].seqs = {s + 1}
          /\ \A j \in DOMAIN v : v[j].pos >= Len(w.sys.tokens)
        BY <1>8
    <2>. HIDE DEF v
    <2>2. r = [kv |-> w.kv, sys |-> w.sys, slots |-> [w.slots EXCEPT ![s] = z],
               batch |-> w.batch \o v, doubt |-> [w.doubt EXCEPT ![s] = w.doubt[s]]]
        BY <1>3, <1>9, <2>1, Zenon
    <2>3. /\ SlotGood(z, w.sys.tokens, w.sys.need, w.batch \o v, 0, s)
          /\ Believed(Content(w.kv, w.batch \o v, 0, s), w.sys.tokens, w.sys.need, z, w.doubt[s])
        BY <1>6, <1>7, <2>1
    <2>. DEFINE k == w.kv
    <2>4. /\ Sound(k) /\ (w.sys.tokens = <<>> => Unshared(k))
          /\ \A t \in Slots : t # s => Held(k, t) = Held(w.kv, t)
        BY <1>1
    <2>5. r = [kv |-> k, sys |-> w.sys, slots |-> [w.slots EXCEPT ![s] = z],
               batch |-> w.batch \o v, doubt |-> [w.doubt EXCEPT ![s] = w.doubt[s]]]
        BY <2>2
    <2>6. Believed(Content(k, w.batch \o v, 0, s), w.sys.tokens, w.sys.need, z, w.doubt[s])
        BY <2>3
    <2>7. z \in SlotType /\ w.doubt[s] \in SUBSET Doubts
        BY <1>4, <1>9
    <2>. DEFINE D == w.doubt[s]
    <2>8. /\ D \in SUBSET Doubts
          /\ Believed(Content(k, w.batch \o v, 0, s), w.sys.tokens, w.sys.need, z, D)
          /\ r = [kv |-> k, sys |-> w.sys, slots |-> [w.slots EXCEPT ![s] = z],
                  batch |-> w.batch \o v, doubt |-> [w.doubt EXCEPT ![s] = D]]
        BY <2>5, <2>6, <2>7
    <2>9. SlotGood(z, w.sys.tokens, w.sys.need, w.batch \o v, 0, s) /\ z \in SlotType
        BY <2>3, <2>7
    <2>. HIDE DEF k, D, y
    <2>. QED
        BY <2>1, <2>4, <2>8, <2>9, WorldGrown, Zenon
<1>. QED
    <2>1. r.sys = w.sys /\ r.batch = w.batch /\ r.kv = w.kv /\ r.slots = [w.slots EXCEPT ![s] = z]
        BY <1>3
    <2>2. EmptiedAs(w, s, r)
        BY <1>1, <1>4, <1>10, <2>1 DEF EmptiedAs
    <2>. QED
        BY <2>2 DEF r

\* One turn of the loop of the prompts,
LEMMA PromptLoadedGood ==
    ASSUME NEW w, NEW s \in Slots, LoadStage(w, s)
    PROVE  LoadStage(PromptLoaded(w, s), s + 1)
<1>. DEFINE x == w.slots[s]
            v == PromptLoaded(w, s)
<1>1. /\ WorldType(w) /\ ~w.sys.need /\ \A t \in Slots : SlotTrue(w, 0, t)
      /\ WorldGood(w, 0)
      /\ \A j \in DOMAIN w.batch : \E t \in Slots :
            w.batch[j].seqs = {t + 1} /\ (w.slots[t].state = "PROCESSING" \/ t < s)
      /\ w.kv.has_shift => \/ w.batch # <<>>
                           \/ \E t \in Slots : t >= s /\ Loading(w.slots[t])
                                               /\ w.slots[t].prompt # <<>>
    BY WorldParts DEF LoadStage
<1>2. \A t \in Slots : /\ t < s => t < s + 1
                       /\ t >= s => t >= s + 1 \/ t = s
                       /\ t < s => t # s
    BY SlotFacts
<1>3. s < s + 1
    BY SlotFacts
<1>4. w.batch \in Seq(Entries)
    BY <1>1 DEF WorldType
<1>5. CASE ~Loading(x) \/ (s # 0 /\ Len(w.batch) >= NBatch)
    <2>1. v = w
        BY <1>5 DEF PromptLoaded
    <2>2. Len(w.batch) >= NBatch => w.batch # <<>>
        <3>1. NBatch \in Nat \ {0}
            BY BatchAssumption
        <3>2. w.batch = <<>> => Len(w.batch) = 0
            BY EmptySeq
        <3>. QED
            BY <3>1, <3>2
    <2>. HIDE DEF v
    <2>3. LoadStage(v, s + 1)
        BY <1>1, <1>2, <1>5, <2>1, <2>2 DEF LoadStage
    <2>. QED
        BY <2>3 DEF v
<1>6. CASE ~(~Loading(x) \/ (s # 0 /\ Len(w.batch) >= NBatch))
    <2>1. Loading(x) /\ x.state # "PROCESSING"
        BY <1>6 DEF Loading
    <2>2. Waiting(w.batch, 0, s) = {}
        <3>1. ASSUME NEW j \in DOMAIN w.batch, w.batch[j].seqs = {s + 1}
              PROVE  FALSE
            <4>1. PICK t \in Slots : w.batch[j].seqs = {t + 1}
                                     /\ (w.slots[t].state = "PROCESSING" \/ t < s)
                BY <1>1
            <4>2. t + 1 = s + 1
                BY <3>1, <4>1
            <4>3. t = s
                BY <4>2, SlotFacts
            <4>. QED
                BY <1>2, <2>1, <4>1, <4>3
        <3>. QED
            BY <3>1 DEF Waiting
    <2>3. ASSUME NEW r, LoadedAs(w, s, r)
          PROVE  LoadStage(r, s + 1)
        <3>1. ASSUME NEW j \in DOMAIN r.batch
              PROVE  \E t \in Slots : r.batch[j].seqs = {t + 1}
                                      /\ (r.slots[t].state = "PROCESSING" \/ t < s + 1)
            <4>1. CASE r.batch[j].seqs = {s + 1}
                BY <1>3, <4>1
            <4>2. CASE j \in DOMAIN w.batch /\ r.batch[j] = w.batch[j]
                <5>1. PICK t \in Slots : w.batch[j].seqs = {t + 1}
                                         /\ (w.slots[t].state = "PROCESSING" \/ t < s)
                    BY <1>1, <4>2
                <5>2. t # s
                    BY <1>2, <2>1, <5>1
                <5>3. r.slots[t] = w.slots[t]
                    BY <2>3, <5>2 DEF LoadedAs
                <5>. QED
                    BY <1>2, <4>2, <5>1, <5>3
            <4>. QED
                BY <2>3, <4>1, <4>2 DEF LoadedAs
        <3>. QED
            BY <1>1, <2>3, <3>1 DEF LoadStage, LoadedAs
    <2>4. CASE x.prompt # <<>>
        <3>1. v = Loaded(w, s, x)
            BY <1>6, <2>4 DEF PromptLoaded
        <3>2. LoadReady(x) /\ KeptTrue(w, s, x)
            BY <1>1, <2>1, <2>2, <2>4, PromptGoesOn
        <3>. HIDE DEF v, x
        <3>3. LoadedAs(w, s, v)
            BY <1>1, <2>2, <3>1, <3>2, LoadedGood
        <3>4. LoadStage(v, s + 1)
            BY <2>3, <3>3
        <3>. QED
            BY <3>4 DEF v
    <2>5. CASE x.prompt = <<>> /\ x.request = <<>>
        <3>1. v = Emptied(w, s)
            BY <1>6, <2>5 DEF PromptLoaded, Emptied
        <3>0. w.slots[s].prompt = <<>>
            BY <2>5
        <3>. HIDE DEF v
        <3>2. /\ WorldGood(v, 0) /\ v.sys = w.sys /\ v.batch = w.batch /\ v.kv = w.kv
              /\ v.slots[s].state = "PROCESSING"
              /\ \A t \in Slots : t # s => v.slots[t] = w.slots[t]
            <4>1. EmptiedAs(w, s, v)
                BY <1>1, <3>0, <3>1, EmptyRequest
            <4>. QED
                BY <4>1 DEF EmptiedAs
        <3>3. ASSUME NEW j \in DOMAIN w.batch
              PROVE  \E t \in Slots : w.batch[j].seqs = {t + 1}
                                      /\ (v.slots[t].state = "PROCESSING" \/ t < s + 1)
            <4>1. PICK t \in Slots : w.batch[j].seqs = {t + 1}
                                     /\ (w.slots[t].state = "PROCESSING" \/ t < s)
                BY <1>1
            <4>2. t = s \/ v.slots[t] = w.slots[t]
                BY <3>2
            <4>. QED
                BY <1>2, <1>3, <4>1, <4>2
        <3>4. w.kv.has_shift => \/ w.batch # <<>>
                                \/ \E t \in Slots : t >= s + 1 /\ Loading(v.slots[t])
                                                    /\ v.slots[t].prompt # <<>>
            <4>1. ASSUME NEW t \in Slots, t >= s, Loading(w.slots[t]), w.slots[t].prompt # <<>>
                  PROVE  t >= s + 1 /\ Loading(v.slots[t]) /\ v.slots[t].prompt # <<>>
                <5>1. t # s
                    BY <2>5, <4>1
                <5>. QED
                    BY <1>2, <3>2, <4>1, <5>1
            <4>. QED
                BY <1>1, <4>1
        <3>5. LoadStage(v, s + 1)
            BY <1>1, <3>2, <3>3, <3>4 DEF LoadStage
        <3>. QED
            BY <3>5 DEF v
    <2>6. CASE x.prompt = <<>> /\ x.request # <<>>
        <3>1. v = Loaded(w, s, Tokenized(x))
            BY <1>6, <2>6 DEF PromptLoaded
        <3>2. LoadReady(Tokenized(x)) /\ KeptTrue(w, s, Tokenized(x))
            BY <1>1, <2>1, <2>2, <2>6, PromptBegins
        <3>. HIDE DEF v, x
        <3>3. LoadedAs(w, s, v)
            BY <1>1, <2>2, <3>1, <3>2, LoadedGood
        <3>4. LoadStage(v, s + 1)
            BY <2>3, <3>3
        <3>. QED
            BY <3>4 DEF v
    <2>. QED
        BY <2>4, <2>5, <2>6
<1>. QED
    BY <1>5, <1>6

\* and the loop.
LEMMA AllLoadedGood ==
    ASSUME NEW w, LoadStage(w, 0)
    PROVE  LoadStage(AllLoaded(w), NSlots)
<1>1. PICK f : /\ AllLoaded(w) = f[NSlots]
               /\ f[0] = w
               /\ \A i \in 1 .. NSlots : f[i] = PromptLoaded(f[i - 1], i - 1)
    BY LoadedLoop
<1>2. NSlots \in Nat
    BY SlotsAssumption
<1>. DEFINE S == {i \in 0 .. NSlots : LoadStage(f[i], i)}
<1>3. 0 \in S
    BY <1>1, <1>2
<1>4. ASSUME NEW j \in 1 .. NSlots, j - 1 \in S
      PROVE  j \in S
    <2>1. j - 1 \in Slots /\ (j - 1) + 1 = j /\ j \in 0 .. NSlots
        BY <1>2 DEF Slots
    <2>2. LoadStage(f[j - 1], j - 1)
        BY <1>4
    <2>3. LoadStage(PromptLoaded(f[j - 1], j - 1), (j - 1) + 1)
        BY <2>1, <2>2, PromptLoadedGood
    <2>. QED
        BY <1>1, <2>1, <2>3
<1>5. NSlots \in S
    <2>. HIDE DEF S
    <2>1. \A i \in 0 .. NSlots : i \in S
        BY <1>2, <1>3, <1>4, Reached
    <2>. QED
        BY <1>2, <2>1
<1>. QED
    BY <1>1, <1>5

\* The batch that update_slots gives to llama_decode.
LEMMA FilledGood ==
    ASSUME NEW w, TaskWorld(w), Ready(w), \A s \in Slots : ~Strays(w, s)
    PROVE  /\ WorldGood(Filled(w), 0) /\ ~Filled(w).sys.need
           /\ Filled(w).kv.has_shift => Filled(w).batch # <<>>
<1>1. LoadStage(Filled(w), NSlots)
    BY AllShiftedGood, SampleBegins, AllSampledGood, LoadBegins, AllLoadedGood DEF Filled
<1>2. \A s \in Slots : ~(s >= NSlots)
    BY SlotsAssumption DEF Slots
<1>. QED
    BY <1>1, <1>2 DEF LoadStage

-----------------------------------------------------------------------------
(* Decoding a part of the batch.                                           *)

Part(b, at, n) == SubSeq(b, at + 1, at + IF n < Len(b) - at THEN n ELSE Len(b) - at)

PartIs(b, at, n, v) ==
    /\ v \in Seq(Entries) /\ v \in Seq(AnyEntries)
    /\ Len(v) \in Nat \ {0}
    /\ at + Len(v) <= Len(b)
    /\ \A j \in 1 .. Len(v) : v[j] = b[at + j]
    /\ at + n < Len(b) => Len(v) = n
    /\ ~(at + n < Len(b)) => at + Len(v) = Len(b)
    /\ n = 1 => Len(v) = 1

\* What a server decodes is something llama_decode takes.
LEMMA EntriesAreAny == Entries \subseteq AnyEntries
<1>1. \A s \in Slots : {s + 1} \in (SUBSET Seqs) \ {{}}
    BY SlotFacts
<1>. QED
    BY <1>1 DEF Entries, AnyEntries

\* A part of the batch is a part of it, and not empty.
LEMMA PartGood ==
    ASSUME NEW b \in Seq(Entries), NEW at \in Nat, at < Len(b), NEW n \in Nat \ {0}
    PROVE  PartIs(b, at, n, Part(b, at, n))
<1>. DEFINE m == IF n < Len(b) - at THEN n ELSE Len(b) - at
            v == SubSeq(b, at + 1, at + m)
<1>1. Len(b) \in Nat
    BY LenProperties
<1>2. m \in Nat \ {0} /\ at + m <= Len(b) /\ (at + n < Len(b) => m = n)
      /\ (~(at + n < Len(b)) => at + m = Len(b)) /\ (n = 1 => m = 1)
    BY <1>1
<1>. HIDE DEF m
<1>3. \A i \in at + 1 .. at + m : b[i] \in Entries
    <2>1. \A i \in at + 1 .. at + m : i \in 1 .. Len(b)
        BY <1>1, <1>2
    <2>. QED
        BY <2>1, ElementOfSeq
<1>4. PICK p \in Int, q \in Int : p = at + 1 /\ q = at + m
    BY <1>2
<1>5. /\ v \in Seq(Entries)
      /\ Len(v) = IF p <= q THEN q - p + 1 ELSE 0
      /\ \A i \in 1 .. q - p + 1 : v[i] = b[p + i - 1]
    <2>1. \A i \in p .. q : b[i] \in Entries
        BY <1>3, <1>4
    <2>2. v = SubSeq(b, p, q)
        BY <1>4
    <2>. HIDE DEF v
    <2>. QED
        BY <2>1, <2>2, SubSeqProperties
<1>6. Len(v) = m /\ q - p + 1 = m
    <2>1. p <= q /\ q - p + 1 = m
        BY <1>2, <1>4
    <2>. QED
        BY <1>5, <2>1
<1>7. ASSUME NEW j \in 1 .. Len(v)
      PROVE  v[j] = b[at + j]
    <2>1. p + j - 1 = at + j
        BY <1>4
    <2>2. v[j] = b[p + j - 1]
        BY <1>5, <1>6, Zenon
    <2>. QED
        BY <2>1, <2>2, Zenon
<1>8. v \in Seq(AnyEntries)
    BY <1>5, EntriesAreAny, SeqMonotonic, Zenon
<1>9. PartIs(b, at, n, v)
    BY <1>2, <1>5, <1>6, <1>7, <1>8 DEF PartIs
<1>. QED
    BY <1>9 DEF v, m, Part

\* What was placed is seen behind the system prompt, by the slots it is for.
LEMMA PutHeld ==
    ASSUME NEW k, NEW r, NEW u, NEW m \in Nat, PutFirst(k, r, u, m),
           \A j \in 1 .. m : u[j] \in Entries,
           NEW L \in Nat, \A j \in 1 .. m : u[j].pos >= L
    PROVE  /\ Unshared(k) => Unshared(r)
           /\ \A s \in Slots : Below(Held(r, s), L) = Below(Held(k, s), L)
           /\ \A s \in Slots : (\A j \in 1 .. m : u[j].seqs # {s + 1}) => Held(r, s) = Held(k, s)
<1>1. PICK g \in [1 .. m -> Cells] :
        /\ \A i, j \in 1 .. m : g[i] = g[j] => i = j
        /\ \A j \in 1 .. m :
            /\ k.seq_id[g[j]] = {}
            /\ r.seq_id[g[j]] = u[j].seqs
            /\ r.pos[g[j]] = u[j].pos
            /\ r.tok[g[j]] = u[j].tok
        /\ \A c \in Cells : (\A j \in 1 .. m : g[j] # c) =>
            r.seq_id[c] = k.seq_id[c] /\ r.pos[c] = k.pos[c] /\ r.tok[c] = k.tok[c]
    BY DEF PutFirst
<1>2. ASSUME NEW c \in Cells
      PROVE  \/ r.seq_id[c] = k.seq_id[c] /\ r.pos[c] = k.pos[c] /\ r.tok[c] = k.tok[c]
             \/ \E j \in 1 .. m : /\ k.seq_id[c] = {} /\ r.seq_id[c] = u[j].seqs
                                  /\ r.pos[c] = u[j].pos /\ r.tok[c] = u[j].tok
    BY <1>1
<1>3. ASSUME NEW j \in 1 .. m
      PROVE  u[j].pos \in Nat /\ u[j].pos >= L /\ \E t \in Slots : u[j].seqs = {t + 1}
    BY DEF Entries
<1>4. Unshared(k) => Unshared(r)
    BY <1>2, <1>3 DEF Unshared
<1>5. ASSUME NEW s \in Slots, NEW e
      PROVE  e \in Below(Held(r, s), L) <=> e \in Below(Held(k, s), L)
    <2>1. ASSUME e \in Held(r, s), e.pos < L
          PROVE  e \in Held(k, s)
        <3>1. PICK c \in Cells : s + 1 \in r.seq_id[c] /\ e = CellItem(r, c)
            BY <2>1, HeldItems
        <3>2. e.pos = r.pos[c]
            BY <3>1 DEF CellItem
        <3>3. ASSUME NEW j \in 1 .. m, r.pos[c] = u[j].pos
              PROVE  FALSE
            <4>1. u[j].pos \in Nat /\ u[j].pos >= L
                BY <1>3
            <4>. QED
                BY <2>1, <3>2, <3>3, <4>1
        <3>4. r.seq_id[c] = k.seq_id[c] /\ r.pos[c] = k.pos[c] /\ r.tok[c] = k.tok[c]
            BY <1>2, <3>3
        <3>5. e = CellItem(k, c)
            BY <3>1, <3>4 DEF CellItem
        <3>. QED
            BY <3>1, <3>4, <3>5, HeldItems
    <2>2. ASSUME e \in Held(k, s)
          PROVE  e \in Held(r, s)
        <3>1. PICK c \in Cells : s + 1 \in k.seq_id[c] /\ e = CellItem(k, c)
            BY <2>2, HeldItems
        <3>2. r.seq_id[c] = k.seq_id[c] /\ r.pos[c] = k.pos[c] /\ r.tok[c] = k.tok[c]
            BY <1>2, <3>1
        <3>3. e = CellItem(r, c)
            BY <3>1, <3>2 DEF CellItem
        <3>. QED
            BY <3>1, <3>2, <3>3, HeldItems
    <2>. QED
        BY <2>1, <2>2 DEF Below
<1>6. ASSUME NEW s \in Slots, \A j \in 1 .. m : u[j].seqs # {s + 1}
      PROVE  Held(r, s) = Held(k, s)
    <2>1. ASSUME NEW j \in 1 .. m
          PROVE  s + 1 \notin u[j].seqs
        <3>1. PICK t \in Slots : u[j].seqs = {t + 1}
            BY <1>3
        <3>. QED
            BY <1>6, <3>1
    <2>2. SameHeld(k, r, s)
        BY <1>2, <2>1 DEF SameHeld
    <2>. QED
        BY <2>2, HeldSame
<1>7. \A s \in Slots : Below(Held(r, s), L) = Below(Held(k, s), L)
    BY <1>5, Zenon
<1>. QED
    BY <1>4, <1>6, <1>7, Zenon

\* The part v of the batch was placed up to its m-th entry.
PartPlaced(w, at, v, r, m) ==
    /\ PutFirst(w.kv, r, v, m) /\ Sound(r)
    /\ m \in Nat /\ at + m <= Len(w.batch)
    /\ \A j \in 1 .. m : v[j] = w.batch[at + j]

\* What was placed of the batch are entries of slots.
LEMMA PlacedEntries ==
    ASSUME NEW w, NEW at \in Nat, WorldGood(w, at), NEW v, NEW r, NEW m, PartPlaced(w, at, v, r, m)
    PROVE  /\ \A j \in 1 .. m : v[j] \in Entries /\ v[j].pos >= Len(w.sys.tokens)
           /\ Len(w.sys.tokens) \in Nat /\ m \in Nat /\ w.sys.tokens \in Seq(Tokens)
           /\ w.batch \in Seq(Entries)
<1>1. /\ w.batch \in Seq(Entries) /\ w.sys.tokens \in Seq(Tokens)
      /\ \A j \in DOMAIN w.batch : w.batch[j].pos >= Len(w.sys.tokens)
    BY WorldParts DEF WorldType, SysGood
<1>2. m \in Nat /\ at + m <= Len(w.batch) /\ \A j \in 1 .. m : v[j] = w.batch[at + j]
    BY DEF PartPlaced
<1>3. Len(w.batch) \in Nat /\ DOMAIN w.batch = 1 .. Len(w.batch) /\ Len(w.sys.tokens) \in Nat
    BY <1>1, LenProperties
<1>4. \A j \in 1 .. m : at + j \in 1 .. Len(w.batch)
    BY <1>2, <1>3
<1>. QED
    BY <1>1, <1>2, <1>3, <1>4, ElementOfSeq, Zenon

\* What a slot believes after its entries were placed.
LEMMA PlacedTrue ==
    ASSUME NEW w, NEW at \in Nat, WorldGood(w, at), NEW v, NEW r, NEW m, PartPlaced(w, at, v, r, m),
           NEW s \in Slots
    PROVE  Believed(Content(r, w.batch, at + m, s), w.sys.tokens, w.sys.need, w.slots[s], w.doubt[s])
<1>1. w.batch \in Seq(Entries) /\ m \in Nat
    BY PlacedEntries
<1>2. /\ PutFirst(w.kv, r, v, m) /\ at + m <= Len(w.batch)
      /\ \A j \in 1 .. m : v[j] = w.batch[at + j]
    BY DEF PartPlaced
<1>3. Carried(Content(w.kv, w.batch, at, s), Content(r, w.batch, at + m, s))
    BY <1>1, <1>2, DecodedContent, Zenon
<1>4. Believed(Content(w.kv, w.batch, at, s), w.sys.tokens, w.sys.need, w.slots[s], w.doubt[s])
    BY WorldParts DEF SlotTrue
<1>. HIDE DEF Content
<1>. QED
    BY <1>3, <1>4, CarriedBelieved

\* The system prompt is seen as before, whatever is placed.
LEMMA PlacedSystem ==
    ASSUME NEW w, NEW at \in Nat, WorldGood(w, at), NEW v, NEW r, NEW m, PartPlaced(w, at, v, r, m),
           NEW s \in Slots, "system" \notin w.doubt[s]
    PROVE  /\ SystemIn(Content(r, w.batch, at, s), w.sys.tokens)
           /\ SystemIn(Held(r, s), w.sys.tokens)
<1>. DEFINE y == w.sys.tokens
            L == Len(y)
            C == Content(w.kv, w.batch, at, s)
<1>1. /\ \A j \in 1 .. m : v[j] \in Entries /\ v[j].pos >= L
      /\ L \in Nat /\ m \in Nat /\ y \in Seq(Tokens) /\ w.batch \in Seq(Entries)
    BY PlacedEntries
<1>2. SystemIn(C, y)
    BY WorldParts DEF SlotTrue, Believed
<1>3. Below(Held(r, s), L) = Below(Held(w.kv, s), L)
    <2>1. PutFirst(w.kv, r, v, m)
        BY DEF PartPlaced
    <2>. HIDE DEF L
    <2>. QED
        BY <1>1, <2>1, PutHeld
<1>4. ASSUME NEW e \in Waiting(w.batch, at, s)
      PROVE  ~(e.pos < L)
    <2>1. PICK j \in DOMAIN w.batch : e = EntryItem(w.batch, j)
        BY DEF Waiting
    <2>2. w.batch[j] \in Entries /\ w.batch[j].pos >= L
        <3>1. \A i \in DOMAIN w.batch : w.batch[i].pos >= Len(w.sys.tokens)
            BY WorldParts DEF WorldType
        <3>2. j \in 1 .. Len(w.batch)
            BY <1>1, LenProperties
        <3>. QED
            BY <1>1, <3>1, <3>2, ElementOfSeq
    <2>3. w.batch[j].pos \in Nat
        BY <2>2 DEF Entries
    <2>4. e.pos = w.batch[j].pos
        BY <2>1 DEF EntryItem
    <2>. QED
        BY <1>1, <2>2, <2>3, <2>4
<1>5. Below(Held(r, s), L) = Below(C, L)
    BY <1>3, <1>4 DEF Below, Content
<1>6. Below(Content(r, w.batch, at, s), L) = Below(C, L)
    BY <1>3, <1>4 DEF Below, Content
<1>. HIDE DEF C
<1>. QED
    BY <1>1, <1>2, <1>5, <1>6, SystemStays

-----------------------------------------------------------------------------
(* The loop of decodes.                                                    *)

\* World has the variables as fields.
LEMMA WorldFields ==
    /\ World.kv = kv /\ World.sys = sys /\ World.slots = slots /\ World.batch = batch
    /\ World.doubt = doubt
BY DEF World

\* What a decode of the part at hand does.
LEMMA DecodeView ==
    ASSUME ContextInv, pc = "decode", NEW d, d = Decode(kv, View)
    PROVE  /\ PartIs(batch, work.at, work.n, View)
           /\ DecodeMade(kv, View, d, Len(View))
           /\ PartPlaced(World, work.at, View, d.kv, d.placed)
           /\ Settled(d.kv)
<1>1. /\ work.at \in Nat /\ work.n \in Nat \ {0} /\ work.at < Len(batch)
      /\ batch \in Seq(Entries) /\ Sound(kv)
    <2>1. work \in [at : Nat, n : 1 .. NBatch] /\ work.at < Len(batch)
        BY DEF ContextInv, WorkGood
    <2>2. WorldType(World)
        BY WorldParts DEF ContextInv
    <2>3. batch \in Seq(Entries) /\ Sound(kv)
        BY <2>2, WorldFields DEF WorldType
    <2>4. work.n \in 1 .. NBatch /\ NBatch \in Nat
        BY <2>1, BatchAssumption
    <2>5. work.n \in Nat \ {0}
        BY <2>4
    <2>. QED
        BY <2>1, <2>3, <2>5
<1>2. View = Part(batch, work.at, work.n)
    BY DEF View, Part
<1>3. PartIs(batch, work.at, work.n, View)
    BY <1>1, <1>2, PartGood
<1>4. View \in Seq(AnyEntries) /\ Len(View) \in Nat \ {0}
    BY <1>3 DEF PartIs
<1>5. DecodeMade(kv, View, d, Len(View))
    BY <1>1, <1>4, DecodeGood
<1>6. Settled(d.kv)
    BY <1>4, <1>5 DEF DecodeMade
<1>7. PartPlaced(World, work.at, View, d.kv, d.placed)
    <2>1. d.placed \in 0 .. Len(View) /\ PutFirst(kv, d.kv, View, d.placed) /\ Sound(d.kv)
        BY <1>5 DEF DecodeMade
    <2>2. work.at + Len(View) <= Len(batch) /\ \A j \in 1 .. Len(View) : View[j] = batch[work.at + j]
        BY <1>3 DEF PartIs
    <2>3. Len(batch) \in Nat
        BY <1>1, LenProperties
    <2>4. PICK m \in Nat : m = d.placed /\ m <= Len(View)
        BY <1>4, <2>1
    <2>5. work.at + m <= Len(batch)
        BY <1>1, <1>4, <2>2, <2>3, <2>4
    <2>6. \A j \in 1 .. m : j \in 1 .. Len(View)
        BY <1>4, <2>4
    <2>. QED
        BY <2>1, <2>2, <2>4, <2>5, <2>6, WorldFields DEF PartPlaced
<1>. QED
    BY <1>3, <1>5, <1>6, <1>7

\* A slot that took its next token from the logits.
Took(x, tok, c) ==
    [x EXCEPT !.sampled = tok, !.n_decoded = @ + 1, !.i_batch = -1, !.command = c]

TookAs(x, z, y, need, b, at, s) ==
    /\ z \in SlotType /\ SlotGood(z, y, need, b, at, s)
    /\ \A C, D : Believed(C, y, need, x, D) => Believed(C, y, need, z, D)

\* A slot after its token was sampled.
LEMMA TookGood ==
    ASSUME NEW x, NEW y, NEW need, NEW b, NEW at, NEW s, SlotGood(x, y, need, b, at, s),
           x.state = "PROCESSING", NEW tok \in Tokens, NEW c, c \in {x.command, "RELEASE"},
           NEW b2, NEW at2
    PROVE  TookAs(x, Took(x, tok, c), y, need, b2, at2, s)
<1>. DEFINE z == Took(x, tok, c)
            n == x.n_decoded + 1
<1>1. x \in SlotType
    BY DEF SlotGood
<1>2. n \in Int /\ -1 \in Int /\ c \in {"NONE", "LOAD_PROMPT", "RELEASE"}
    BY <1>1 DEF SlotType
<1>3. z = [x EXCEPT !.sampled = tok, !.n_decoded = n, !.i_batch = -1, !.command = c]
    BY DEF Took
<1>. HIDE DEF z, n
<1>4. /\ z \in SlotType /\ z.state = x.state /\ z.command = c /\ z.sampled = tok
      /\ z.i_batch = -1 /\ z.prompt = x.prompt /\ z.cache_tokens = x.cache_tokens
      /\ z.n_past = x.n_past /\ z.cached = x.cached /\ z.n_keep = x.n_keep
    BY <1>1, <1>2, <1>3, Zenon DEF SlotType
<1>5. /\ Generating(z) => Generating(x)
      /\ ~Loading(z) /\ ~Loading(x)
      /\ Processing(x) /\ Processing(z)
    BY <1>4 DEF Generating, Loading, Processing
<1>6. c # "LOAD_PROMPT"
    BY DEF SlotGood, CommandGood
<1>7. SlotGood(z, y, need, b2, at2, s)
    <2>1. CommandGood(z)
        BY <1>4, <1>6 DEF CommandGood
    <2>2. PromptGood(z)
        BY <1>4, <1>5 DEF PromptGood, SlotGood
    <2>3. CacheTokensGood(z)
        BY <1>4, <1>5 DEF CacheTokensGood, Busy, SlotGood
    <2>4. TurnGood(z, y, b2, at2, s)
        <3>1. -1 >= -1
            OBVIOUS
        <3>. QED
            BY <1>4, <3>1 DEF TurnGood
    <2>. QED
        BY <1>4, <2>1, <2>2, <2>3, <2>4 DEF SlotGood
<1>8. \A C, D : Believed(C, y, need, x, D) => Believed(C, y, need, z, D)
    BY <1>4, <1>5 DEF Believed, Working
<1>9. TookAs(x, z, y, need, b2, at2, s)
    BY <1>4, <1>7, <1>8 DEF TookAs
<1>. QED
    BY <1>9 DEF z

\* A slot whose turn is still to come, and one that has none.
LEMMA TurnLater ==
    ASSUME NEW x, NEW y, NEW need, NEW b, NEW at \in Nat, NEW s, SlotGood(x, y, need, b, at, s),
           NEW m \in Nat,
           ~(x.state = "PROCESSING" /\ at <= x.i_batch /\ x.i_batch < at + m)
    PROVE  /\ SlotGood(x, y, need, b, at + m, s)
           /\ at + m = Len(b) => \A b2, at2 : SlotGood(x, y, need, b2, at2, s)
<1>1. x \in SlotType /\ x.i_batch \in Int
    BY DEF SlotGood, SlotType
<1>2. TurnGood(x, y, b, at, s)
    BY DEF SlotGood
<1>3. Generating(x) => x.state = "PROCESSING"
    BY DEF Generating
<1>4. ASSUME Generating(x), x.i_batch # -1
      PROVE  at + m <= x.i_batch /\ x.i_batch < Len(b)
    <2>1. at <= x.i_batch /\ x.i_batch < Len(b)
        BY <1>2, <1>4 DEF TurnGood
    <2>2. ~(x.i_batch < at + m)
        BY <1>3, <1>4, <2>1
    <2>. QED
        BY <1>1, <2>1, <2>2
<1>5. TurnGood(x, y, b, at + m, s)
    BY <1>2, <1>4 DEF TurnGood
<1>6. SlotGood(x, y, need, b, at + m, s)
    BY <1>5 DEF SlotGood
<1>7. ASSUME at + m = Len(b), NEW b2, NEW at2
      PROVE  SlotGood(x, y, need, b2, at2, s)
    <2>1. Generating(x) => x.i_batch = -1
        <3>1. SUFFICES ASSUME Generating(x), x.i_batch # -1
                       PROVE  FALSE
            OBVIOUS
        <3>2. at + m <= x.i_batch /\ x.i_batch < at + m
            BY <1>4, <1>7, <3>1
        <3>. QED
            BY <1>1, <3>2
    <2>2. TurnGood(x, y, b2, at2, s)
        BY <1>2, <2>1 DEF TurnGood
    <2>. QED
        BY <2>2 DEF SlotGood
<1>. QED
    BY <1>6, <1>7

\* A decode that succeeds keeps the invariant.
LEMMA DecodeOkKeeps ==
    ASSUME ContextInv, DecodeOk
    PROVE  ContextInv'
<1>. DEFINE at == work.at
            m == Len(View)
            b == IF at + work.n < Len(batch) THEN batch ELSE <<>>
            y == sys.tokens
<1>1. pc = "decode" /\ sys' = sys /\ file' = file /\ doubt' = doubt /\ scene' = scene
    BY Zenon DEF DecodeOk
<1>2. PICK d : d = Decode(kv, View) /\ d.ok /\ kv' = d.kv
    BY Zenon DEF DecodeOk
<1>3. /\ PartIs(batch, at, work.n, View)
      /\ DecodeMade(kv, View, d, m)
      /\ PartPlaced(World, at, View, kv', d.placed)
      /\ Settled(kv')
    <2>1. /\ PartIs(batch, work.at, work.n, View)
          /\ DecodeMade(kv, View, d, Len(View))
          /\ PartPlaced(World, work.at, View, d.kv, d.placed)
          /\ Settled(d.kv)
        BY <1>1, <1>2, DecodeView
    <2>. QED
        BY <1>2, <2>1
<1>4. d.placed = m /\ Sound(kv')
    BY <1>2, <1>3 DEF DecodeMade
<1>5. /\ WorldType(World) /\ WorldGood(World, at) /\ \A s \in Slots : SlotTrue(World, at, s)
      /\ work \in [at : Nat, n : 1 .. NBatch] /\ at \in Nat /\ SceneGood(scene)
      /\ \A f \in file : FileGood(f)
      /\ (file = {} \/ \E f \in file : file = {f})
      /\ ~sys.need
    BY <1>1, WorldParts DEF ContextInv, WorkGood
<1>6. /\ batch \in Seq(Entries) /\ SysGood(sys) /\ slots \in [Slots -> SlotType]
      /\ doubt \in [Slots -> SUBSET Doubts]
      /\ \A j \in DOMAIN batch : batch[j].pos >= Len(y)
      /\ (y = <<>> => Unshared(kv))
    BY <1>5, WorldFields DEF WorldType
<1>7. \A s \in Slots : SlotGood(slots[s], y, sys.need, batch, at, s)
    BY <1>5, WorldFields DEF SlotTrue
<1>8. \A s \in Slots : Believed(Content(kv', batch, at + m, s), y, sys.need, slots[s], doubt[s])
    BY <1>3, <1>4, <1>5, PlacedTrue, WorldFields
<1>9. y = <<>> => Unshared(kv')
    <2>1. /\ \A j \in 1 .. m : View[j] \in Entries /\ View[j].pos >= Len(y)
          /\ Len(y) \in Nat /\ m \in Nat
        BY <1>3, <1>4, <1>5, PlacedEntries, WorldFields
    <2>2. PutFirst(kv, kv', View, m)
        BY <1>3, <1>4, WorldFields DEF PartPlaced
    <2>. DEFINE v == View
                n == Len(v)
                L == Len(y)
                r == kv'
    <2>3. /\ PutFirst(kv, r, v, n) /\ n \in Nat /\ L \in Nat
          /\ \A j \in 1 .. n : v[j] \in Entries
          /\ \A j \in 1 .. n : v[j].pos >= L
        BY <2>1, <2>2
    <2>. HIDE DEF v, n, L, r
    <2>4. Unshared(kv) => Unshared(r)
        BY <2>3, PutHeld
    <2>. QED
        BY <1>6, <2>4 DEF r
<1>10. /\ work.n \in Nat /\ m \in Nat \ {0} /\ at + m <= Len(batch)
       /\ at + work.n < Len(batch) => m = work.n
       /\ ~(at + work.n < Len(batch)) => at + m = Len(batch)
    <2>1. work.n \in Nat
        BY <1>5, BatchAssumption
    <2>. HIDE DEF m, at
    <2>. QED
        BY <1>3, <2>1 DEF PartIs, m
<1>11. PICK tok \in [Sampling -> Outputs], ends \in SUBSET Sampling :
            slots' = [s \in Slots |->
                IF s \notin Sampling THEN slots[s]
                ELSE [slots[s] EXCEPT !.sampled = tok[s], !.n_decoded = @ + 1, !.i_batch = -1,
                                      !.command = IF s \in ends THEN "RELEASE" ELSE @]]
    BY Zenon DEF DecodeOk
<1>12. /\ batch' = b
       /\ pc' = IF at + work.n < Len(batch) THEN "decode" ELSE "tasks"
       /\ work' = IF at + work.n < Len(batch) THEN [work EXCEPT !.at = at + work.n] ELSE work
    BY <1>1, Zenon DEF DecodeOk
<1>13. ASSUME NEW s \in Slots
       PROVE  /\ slots'[s] \in SlotType
              /\ SlotGood(slots'[s], y, sys.need, b, work'.at, s)
              /\ Believed(Content(kv', b, work'.at, s), y, sys.need, slots'[s], doubt[s])
    <2>. DEFINE x == slots[s]
                z == slots'[s]
    <2>1. x \in SlotType /\ SlotGood(x, y, sys.need, batch, at, s)
        BY <1>6, <1>7
    <2>2. Content(kv', b, work'.at, s) = Content(kv', batch, at + m, s)
        <3>1. CASE at + work.n < Len(batch)
            <4>1. b = batch /\ work' = [work EXCEPT !.at = at + work.n]
                BY <1>12, <3>1
            <4>2. work'.at = at + m
                BY <1>5, <1>10, <3>1, <4>1
            <4>. QED
                BY <4>1, <4>2
        <3>2. CASE ~(at + work.n < Len(batch))
            <4>1. b = <<>> /\ at + m = Len(batch)
                BY <1>10, <3>2
            <4>2. Waiting(batch, Len(batch), s) = {}
                BY <1>6, AllDecoded
            <4>3. Waiting(b, work'.at, s) = {}
                BY <4>1, NoneWaiting
            <4>. QED
                BY <4>1, <4>2, <4>3 DEF Content
        <3>. QED
            BY <3>1, <3>2
    <2>3. CASE s \in Sampling
        <3>. DEFINE c == IF s \in ends THEN "RELEASE" ELSE x.command
                    u == tok[s]
        <3>1. z = Took(x, u, c)
            BY <1>11, <2>3, Zenon DEF Took
        <3>2. u \in Tokens
            BY <1>11, <2>3, ModelAssumption, Zenon
        <3>3. x.state = "PROCESSING"
            BY <2>3 DEF Sampling
        <3>4. c \in {x.command, "RELEASE"}
            OBVIOUS
        <3>. DEFINE need == sys.need
                    at2 == work'.at
        <3>. HIDE DEF x, z, c, u, b, y, m, at, need, at2
        <3>5. SlotGood(x, y, need, batch, at, s)
            BY <2>1 DEF need
        <3>6. TookAs(x, z, y, need, b, at2, s)
            BY <3>1, <3>2, <3>3, <3>4, <3>5, TookGood
        <3>7. Believed(Content(kv', b, work'.at, s), y, sys.need, z, doubt[s])
            <4>1. Believed(Content(kv', batch, at + m, s), y, sys.need, x, doubt[s])
                BY <1>8 DEF x
            <4>. QED
                BY <2>2, <3>6, <4>1 DEF TookAs, need
        <3>8. /\ slots'[s] \in SlotType
              /\ SlotGood(slots'[s], y, sys.need, b, work'.at, s)
              /\ Believed(Content(kv', b, work'.at, s), y, sys.need, slots'[s], doubt[s])
            BY <3>6, <3>7 DEF z, TookAs, need, at2
        <3>. QED
            BY <3>8
    <2>4. CASE s \notin Sampling
        <3>1. z = x
            BY <1>11, <2>4, Zenon
        <3>2. ~(x.state = "PROCESSING" /\ at <= x.i_batch /\ x.i_batch < at + m)
            BY <2>4 DEF Sampling
        <3>3. /\ SlotGood(x, y, sys.need, batch, at + m, s)
              /\ at + m = Len(batch) => \A b2, at2 : SlotGood(x, y, sys.need, b2, at2, s)
            <4>1. at \in Nat /\ m \in Nat
                BY <1>5, <1>10
            <4>. HIDE DEF x, y, m, at
            <4>. QED
                BY <2>1, <3>2, <4>1, TurnLater, Zenon
        <3>4. SlotGood(x, y, sys.need, b, work'.at, s)
            <4>1. CASE at + work.n < Len(batch)
                <5>1. b = batch /\ work' = [work EXCEPT !.at = at + work.n]
                    BY <1>12, <4>1
                <5>2. work'.at = at + m
                    BY <1>5, <1>10, <4>1, <5>1
                <5>. HIDE DEF b
                <5>. QED
                    BY <3>3, <5>1, <5>2
            <4>2. CASE ~(at + work.n < Len(batch))
                BY <1>10, <3>3, <4>2
            <4>. QED
                BY <4>1, <4>2
        <3>5. Believed(Content(kv', b, work'.at, s), y, sys.need, x, doubt[s])
            BY <1>8, <2>2
        <3>. HIDE DEF b
        <3>. QED
            BY <2>1, <3>1, <3>4, <3>5
    <2>. QED
        BY <2>3, <2>4
<1>14. b \in Seq(Entries) /\ \A j \in DOMAIN b : b[j].pos >= Len(y)
    BY <1>6
<1>15. slots' \in [Slots -> SlotType]
    BY <1>11, <1>13, Zenon
<1>. HIDE DEF b, y, m
<1>16. WorldGood(World', work'.at)
    <2>1. /\ World'.kv = kv' /\ World'.sys = sys /\ World'.slots = slots' /\ World'.batch = b
          /\ World'.doubt = doubt
          /\ World' = [kv |-> World'.kv, sys |-> World'.sys, slots |-> World'.slots,
                       batch |-> World'.batch, doubt |-> World'.doubt]
        BY <1>1, <1>12 DEF World
    <2>2. WorldType(World')
        BY <1>4, <1>6, <1>9, <1>14, <1>15, <2>1 DEF WorldType, y
    <2>3. \A s \in Slots : SlotTrue(World', work'.at, s)
        BY <1>13, <2>1 DEF SlotTrue, y
    <2>. QED
        BY <2>2, <2>3, WorldParts
<1>17. WorkGood'
    <2>1. CASE at + work.n < Len(batch)
        <3>1. /\ batch' = batch /\ work' = [work EXCEPT !.at = at + work.n] /\ pc' = "decode"
            BY <1>12, <2>1 DEF b
        <3>2. at + work.n \in Nat /\ work'.at = at + work.n
            BY <1>5, <1>10, <3>1
        <3>3. work' \in [at : Nat, n : 1 .. NBatch]
            BY <1>5, <3>1, <3>2
        <3>. QED
            BY <1>1, <1>5, <2>1, <3>1, <3>2, <3>3 DEF WorkGood
    <2>2. CASE ~(at + work.n < Len(batch))
        <3>1. batch' = <<>> /\ work' = work /\ pc' = "tasks"
            BY <1>12, <2>2 DEF b
        <3>. QED
            BY <1>3, <1>5, <3>1 DEF WorkGood, Settled
    <2>. QED
        BY <2>1, <2>2
<1>18. SceneGood(scene)' /\ (\A f \in file : FileGood(f))'
       /\ (file = {} \/ \E f \in file : file = {f})'
    BY <1>1, <1>5
<1>. QED
    BY <1>16, <1>17, <1>18 DEF ContextInv

\* What the two failures of a decode have in common.
LEMMA DecodeWorld ==
    ASSUME ContextInv, pc = "decode"
    PROVE  /\ WorldType(World) /\ WorldGood(World, work.at) /\ \A s \in Slots : SlotTrue(World, work.at, s)
           /\ work \in [at : Nat, n : 1 .. NBatch] /\ work.at \in Nat /\ SceneGood(scene)
           /\ work.n \in Nat \ {0}
           /\ work.at < Len(batch) /\ ~sys.need
           /\ \A f \in file : FileGood(f)
           /\ (file = {} \/ \E f \in file : file = {f})
           /\ batch \in Seq(Entries) /\ SysGood(sys) /\ slots \in [Slots -> SlotType]
           /\ doubt \in [Slots -> SUBSET Doubts]
           /\ \A j \in DOMAIN batch : batch[j].pos >= Len(sys.tokens)
           /\ (sys.tokens = <<>> => Unshared(kv))
           /\ \A s \in Slots : SlotGood(slots[s], sys.tokens, sys.need, batch, work.at, s)
<1>1. /\ WorldType(World) /\ WorldGood(World, work.at) /\ \A s \in Slots : SlotTrue(World, work.at, s)
      /\ work \in [at : Nat, n : 1 .. NBatch] /\ SceneGood(scene)
      /\ \A f \in file : FileGood(f)
      /\ (file = {} \/ \E f \in file : file = {f})
      /\ ~sys.need /\ work.at < Len(batch)
    BY WorldParts DEF ContextInv, WorkGood
<1>2. /\ batch \in Seq(Entries) /\ SysGood(sys) /\ slots \in [Slots -> SlotType]
      /\ doubt \in [Slots -> SUBSET Doubts]
      /\ \A j \in DOMAIN batch : batch[j].pos >= Len(sys.tokens)
      /\ (sys.tokens = <<>> => Unshared(kv))
    BY <1>1, WorldFields DEF WorldType
<1>3. \A s \in Slots : SlotGood(slots[s], sys.tokens, sys.need, batch, work.at, s)
    BY <1>1, WorldFields DEF SlotTrue
<1>4. work.at \in Nat /\ work.n \in Nat \ {0}
    <2>1. work.at \in Nat /\ work.n \in 1 .. NBatch /\ NBatch \in Nat
        BY <1>1, BatchAssumption
    <2>. QED
        BY <2>1
<1>. QED
    BY <1>1, <1>2, <1>3, <1>4

OthersHeld(k, r, v, m) ==
    \A s \in Slots : (\A j \in 1 .. m : v[j].seqs # {s + 1}) => Held(r, s) = Held(k, s)

\* No cell is shared when there is no system prompt, whatever was placed.
LEMMA PlacedUnshared ==
    ASSUME NEW w, NEW at \in Nat, WorldGood(w, at), NEW v, NEW r, NEW m, PartPlaced(w, at, v, r, m)
    PROVE  /\ w.sys.tokens = <<>> => Unshared(r)
           /\ OthersHeld(w.kv, r, v, m)
<1>. DEFINE L == Len(w.sys.tokens)
            k == w.kv
<1>1. /\ \A j \in 1 .. m : v[j] \in Entries
      /\ \A j \in 1 .. m : v[j].pos >= L
      /\ L \in Nat /\ m \in Nat
    BY PlacedEntries
<1>2. PutFirst(k, r, v, m)
    BY DEF PartPlaced
<1>3. w.sys.tokens = <<>> => Unshared(k)
    BY WorldParts DEF WorldType
<1>. HIDE DEF L, k
<1>4. /\ Unshared(k) => Unshared(r)
      /\ \A s \in Slots : (\A j \in 1 .. m : v[j].seqs # {s + 1}) => Held(r, s) = Held(k, s)
    BY <1>1, <1>2, PutHeld
<1>. QED
    BY <1>3, <1>4, Zenon DEF k, OthersHeld

\* Half a batch is a batch.
LEMMA Halves ==
    ASSUME NEW n \in Nat, n > 1, NEW m \in Nat, n <= m
    PROVE  n \div 2 \in 1 .. m
OBVIOUS

\* A decode that fails and is tried again with half the batch keeps it: what was
\* placed twice is in doubt.
LEMMA DecodeRetryKeeps ==
    ASSUME ContextInv, DecodeRetry
    PROVE  ContextInv'
<1>. DEFINE at == work.at
            y == sys.tokens
<1>1. /\ pc = "decode" /\ work.n > 1 /\ work' = [work EXCEPT !.n = work.n \div 2]
      /\ sys' = sys /\ slots' = slots /\ batch' = batch /\ pc' = pc /\ file' = file /\ scene' = scene
    BY DEF DecodeRetry, CanRetry, Halved
<1>2. PICK d : /\ d = Decode(kv, View) /\ ~d.ok /\ kv' = d.kv
               /\ doubt' = [s \in Slots |->
                        IF \E j \in 1 .. d.placed : View[j].seqs = {s + 1}
                        THEN doubt[s] \cup {"cells"} ELSE doubt[s]]
    BY DEF DecodeRetry
<1>3. PartPlaced(World, at, View, kv', d.placed) /\ Sound(kv')
    <2>1. PartPlaced(World, work.at, View, d.kv, d.placed)
        BY <1>1, <1>2, DecodeView
    <2>. QED
        BY <1>2, <2>1 DEF PartPlaced
<1>4. /\ WorldType(World) /\ WorldGood(World, at) /\ \A s \in Slots : SlotTrue(World, at, s)
      /\ work \in [at : Nat, n : 1 .. NBatch] /\ at \in Nat
      /\ SceneGood(scene) /\ ~sys.need /\ at < Len(batch)
      /\ \A f \in file : FileGood(f)
      /\ (file = {} \/ \E f \in file : file = {f})
    BY <1>1, DecodeWorld
<1>5. /\ batch \in Seq(Entries) /\ SysGood(sys) /\ slots \in [Slots -> SlotType]
      /\ doubt \in [Slots -> SUBSET Doubts]
      /\ \A j \in DOMAIN batch : batch[j].pos >= Len(y)
      /\ \A s \in Slots : SlotGood(slots[s], y, sys.need, batch, at, s)
    BY <1>1, DecodeWorld
<1>6. /\ y = <<>> => Unshared(kv')
      /\ \A s \in Slots : (\A j \in 1 .. d.placed : View[j].seqs # {s + 1}) => Held(kv', s) = Held(kv, s)
    <2>. DEFINE w == World
                v == View
                r == kv'
                m == d.placed
    <2>1. PartPlaced(w, at, v, r, m) /\ WorldGood(w, at) /\ at \in Nat
        BY <1>3, <1>4
    <2>2. w.sys = sys /\ w.kv = kv
        BY WorldFields
    <2>. HIDE DEF w, v, r, m, at
    <2>3. /\ w.sys.tokens = <<>> => Unshared(r)
          /\ OthersHeld(w.kv, r, v, m)
        BY <2>1, PlacedUnshared
    <2>. QED
        BY <2>2, <2>3, Zenon DEF v, r, m, OthersHeld
<1>7. doubt' \in [Slots -> SUBSET Doubts]
    BY <1>2, <1>5, Zenon DEF Doubts
<1>8. ASSUME NEW s \in Slots
      PROVE  Believed(Content(kv', batch, at, s), y, sys.need, slots[s], doubt'[s])
    <2>1. CASE \E j \in 1 .. d.placed : View[j].seqs = {s + 1}
        <3>1. doubt'[s] = doubt[s] \cup {"cells"}
            BY <1>2, <2>1
        <3>2. "system" \notin doubt[s] => SystemIn(Content(kv', batch, at, s), y)
            BY <1>3, <1>4, PlacedSystem, WorldFields
        <3>. HIDE DEF Content
        <3>. QED
            BY <3>1, <3>2 DEF Believed
    <2>2. CASE ~\E j \in 1 .. d.placed : View[j].seqs = {s + 1}
        <3>1. doubt'[s] = doubt[s]
            BY <1>2, <2>2
        <3>2. Held(kv', s) = Held(kv, s)
            BY <1>6, <2>2, Zenon
        <3>3. Content(kv', batch, at, s) = Content(kv, batch, at, s)
            BY <3>2 DEF Content
        <3>4. Believed(Content(kv, batch, at, s), y, sys.need, slots[s], doubt[s])
            BY <1>4, WorldFields DEF SlotTrue
        <3>. QED
            BY <3>1, <3>3, <3>4
    <2>. QED
        BY <2>1, <2>2
<1>9. work' \in [at : Nat, n : 1 .. NBatch] /\ work'.at = at
    <2>1. work.n \in 1 .. NBatch /\ NBatch \in Nat
        BY <1>4, BatchAssumption
    <2>2. work.n \in Nat /\ work.n <= NBatch
        BY <2>1
    <2>3. work.n \div 2 \in 1 .. NBatch
        BY <1>1, <2>1, <2>2, Halves
    <2>. QED
        BY <1>1, <1>4, <2>3
<1>10. WorldGood(World', work'.at)
    <2>. HIDE DEF y, at
    <2>1. /\ World'.kv = kv' /\ World'.sys = sys /\ World'.slots = slots /\ World'.batch = batch
          /\ World'.doubt = doubt'
          /\ World' = [kv |-> World'.kv, sys |-> World'.sys, slots |-> World'.slots,
                       batch |-> World'.batch, doubt |-> World'.doubt]
        BY <1>1 DEF World
    <2>2. WorldType(World')
        BY <1>3, <1>5, <1>6, <1>7, <2>1 DEF WorldType, y
    <2>3. \A s \in Slots : SlotTrue(World', at, s)
        BY <1>5, <1>8, <2>1 DEF SlotTrue, y
    <2>. QED
        BY <1>9, <2>2, <2>3, WorldParts
<1>11. WorkGood'
    BY <1>1, <1>4, <1>9 DEF WorkGood
<1>12. SceneGood(scene)' /\ (\A f \in file : FileGood(f))'
       /\ (file = {} \/ \E f \in file : file = {f})'
    BY <1>1, <1>4
<1>. QED
    BY <1>10, <1>11, <1>12 DEF ContextInv

\* A slot that is released with an error.
Dropped(x) == [x EXCEPT !.state = "PROCESSING", !.command = "RELEASE"]

\* A slot that is released after an error.
LEMMA DroppedGood ==
    ASSUME NEW x, NEW y, NEW need, NEW b, NEW at, NEW s, SlotGood(x, y, need, b, at, s),
           NEW b2, NEW at2
    PROVE  Dropped(x) \in SlotType /\ SlotGood(Dropped(x), y, need, b2, at2, s)
<1>. DEFINE z == Dropped(x)
<1>1. x \in SlotType
    BY DEF SlotGood
<1>2. z = [x EXCEPT !.state = "PROCESSING", !.command = "RELEASE"]
    BY DEF Dropped
<1>. HIDE DEF z
<1>3. /\ z \in SlotType /\ z.state = "PROCESSING" /\ z.command = "RELEASE"
      /\ z.prompt = x.prompt /\ z.n_keep = x.n_keep /\ z.n_past = x.n_past /\ z.i_batch = x.i_batch
    BY <1>1, <1>2, Zenon DEF SlotType
<1>4. ~Loading(z) /\ ~Generating(z)
    BY <1>3 DEF Loading, Generating
<1>5. SlotGood(z, y, need, b2, at2, s)
    <2>1. CommandGood(z)
        BY <1>3 DEF CommandGood
    <2>2. PromptGood(z)
        BY <1>3, <1>4 DEF PromptGood, SlotGood
    <2>3. CacheTokensGood(z)
        BY <1>4 DEF CacheTokensGood, Busy
    <2>4. TurnGood(z, y, b2, at2, s)
        BY <1>3, <1>4 DEF TurnGood, SlotGood
    <2>. QED
        BY <1>3, <2>1, <2>2, <2>3, <2>4 DEF SlotGood
<1>6. z \in SlotType /\ SlotGood(z, y, need, b2, at2, s)
    BY <1>3, <1>5
<1>. QED
    BY <1>6 DEF z

\* A decode that fails for good keeps it: no slot is left at work, and all are in
\* doubt.
LEMMA DecodeFailKeeps ==
    ASSUME ContextInv, DecodeFail
    PROVE  ContextInv'
<1>. DEFINE at == work.at
            y == sys.tokens
<1>1. /\ pc = "decode" /\ pc' = "tasks" /\ batch' = <<>>
      /\ sys' = sys /\ work' = work /\ file' = file /\ scene' = scene
      /\ slots' = [s \in Slots |-> Dropped(slots[s])]
      /\ doubt' = [s \in Slots |-> doubt[s] \cup {"cells"}]
    BY Zenon DEF DecodeFail, Dropped
<1>2. PICK d : d = Decode(kv, View) /\ ~d.ok /\ kv' = d.kv
    BY Zenon DEF DecodeFail
<1>3. PartPlaced(World, at, View, kv', d.placed) /\ Sound(kv') /\ Settled(kv')
    <2>1. PartPlaced(World, work.at, View, d.kv, d.placed) /\ Settled(d.kv)
        BY <1>1, <1>2, DecodeView
    <2>. QED
        BY <1>2, <2>1 DEF PartPlaced
<1>4. /\ WorldType(World) /\ WorldGood(World, at) /\ \A s \in Slots : SlotTrue(World, at, s)
      /\ work \in [at : Nat, n : 1 .. NBatch] /\ at \in Nat
      /\ SceneGood(scene) /\ ~sys.need /\ at < Len(batch)
      /\ \A f \in file : FileGood(f)
      /\ (file = {} \/ \E f \in file : file = {f})
    BY <1>1, DecodeWorld
<1>5. /\ batch \in Seq(Entries) /\ SysGood(sys) /\ slots \in [Slots -> SlotType]
      /\ doubt \in [Slots -> SUBSET Doubts]
      /\ \A s \in Slots : SlotGood(slots[s], y, sys.need, batch, at, s)
    BY <1>1, DecodeWorld
<1>6. y = <<>> => Unshared(kv')
    BY <1>3, <1>4, PlacedUnshared, WorldFields
<1>7. doubt' \in [Slots -> SUBSET Doubts]
    BY <1>1, <1>5 DEF Doubts
<1>. DEFINE at2 == work'.at
            b2 == batch'
<1>8. ASSUME NEW s \in Slots
      PROVE  /\ Believed(Content(kv', b2, at2, s), y, sys.need, slots'[s], doubt'[s])
             /\ SlotGood(slots'[s], y, sys.need, b2, at2, s)
             /\ slots'[s] \in SlotType
    <2>1. doubt'[s] = doubt[s] \cup {"cells"} /\ slots'[s] = Dropped(slots[s])
        BY <1>1
    <2>2. "system" \notin doubt[s] => SystemIn(Held(kv', s), y)
        BY <1>3, <1>4, PlacedSystem, WorldFields
    <2>3. Content(kv', b2, at2, s) = Held(kv', s)
        BY <1>1, NoBatch
    <2>4. Believed(Held(kv', s), y, sys.need, slots'[s], doubt'[s])
        BY <2>1, <2>2 DEF Believed
    <2>5. Dropped(slots[s]) \in SlotType /\ SlotGood(Dropped(slots[s]), y, sys.need, b2, at2, s)
        <3>1. SlotGood(slots[s], y, sys.need, batch, at, s)
            BY <1>5
        <3>. DEFINE x == slots[s]
                    need == sys.need
        <3>2. SlotGood(x, y, need, batch, at, s)
            BY <3>1
        <3>. HIDE DEF x, y, need, at, b2, at2
        <3>3. Dropped(x) \in SlotType /\ SlotGood(Dropped(x), y, need, b2, at2, s)
            BY <3>2, DroppedGood
        <3>. QED
            BY <3>3 DEF x, need
    <2>. HIDE DEF b2, at2, y
    <2>. QED
        BY <2>1, <2>3, <2>4, <2>5
<1>9. slots' \in [Slots -> SlotType]
    BY <1>1, <1>8, Zenon
<1>10. WorldGood(World', at2)
    <2>. HIDE DEF y, at, at2
    <2>1. /\ World'.kv = kv' /\ World'.sys = sys /\ World'.slots = slots' /\ World'.batch = <<>>
          /\ World'.doubt = doubt' /\ b2 = <<>>
          /\ World' = [kv |-> World'.kv, sys |-> World'.sys, slots |-> World'.slots,
                       batch |-> World'.batch, doubt |-> World'.doubt]
        BY <1>1 DEF World
    <2>2. WorldType(World')
        <3>1. <<>> \in Seq(Entries) /\ \A j \in DOMAIN <<>> : <<>>[j].pos >= Len(sys.tokens)
            OBVIOUS
        <3>. QED
            BY <1>3, <1>5, <1>6, <1>7, <1>9, <2>1, <3>1 DEF WorldType, y
    <2>3. \A s \in Slots : SlotTrue(World', at2, s)
        BY <1>8, <2>1 DEF SlotTrue, y
    <2>. QED
        BY <2>2, <2>3, WorldParts
<1>11. WorkGood'
    BY <1>1, <1>3, <1>4 DEF WorkGood, Settled
<1>12. SceneGood(scene)' /\ (\A f \in file : FileGood(f))'
       /\ (file = {} \/ \E f \in file : file = {f})'
    BY <1>1, <1>4
<1>. QED
    BY <1>10, <1>11, <1>12 DEF ContextInv

-----------------------------------------------------------------------------
(* update_slots, and what all tasks have in common.                        *)

FilesGood(F) == (\A f \in F : FileGood(f)) /\ (F = {} \/ \E f \in F : F = {f})

\* Without a batch it does not matter where the part at hand begins.
LEMMA AnywhereTrue ==
    ASSUME NEW w, w.batch = <<>>, NEW at \in Nat, WorldGood(w, at), NEW at2
    PROVE  WorldGood(w, at2)
<1>1. WorldType(w) /\ \A s \in Slots : SlotTrue(w, at, s)
    BY WorldParts
<1>2. ASSUME NEW s \in Slots
      PROVE  SlotTrue(w, at2, s)
    <2>. DEFINE x == w.slots[s]
                y == w.sys.tokens
                need == w.sys.need
                b == w.batch
    <2>1. /\ SlotGood(x, y, need, b, at, s)
          /\ Believed(Content(w.kv, b, at, s), y, need, x, w.doubt[s])
        BY <1>1 DEF SlotTrue
    <2>2. b = <<>>
        OBVIOUS
    <2>. HIDE DEF x, y, need, b
    <2>3. Generating(x) => x.i_batch = -1
        <3>1. TurnGood(x, y, <<>>, at, s) /\ x \in SlotType
            BY <2>1, <2>2 DEF SlotGood
        <3>. QED
            BY <3>1, NoTurn
    <2>4. SlotGood(x, y, need, b, at2, s)
        <3>1. TurnGood(x, y, b, at2, s)
            BY <2>1, <2>3 DEF SlotGood, TurnGood
        <3>. QED
            BY <2>1, <3>1 DEF SlotGood
    <2>5. Content(w.kv, b, at, s) = Content(w.kv, b, at2, s)
        BY <2>2, NoBatch
    <2>6. /\ SlotGood(x, y, need, b, at2, s)
          /\ Believed(Content(w.kv, b, at2, s), y, need, x, w.doubt[s])
        BY <2>1, <2>4, <2>5
    <2>. QED
        BY <2>6 DEF SlotTrue, x, y, need, b
<1>. QED
    BY <1>1, <1>2, WorldParts

\* Between two update_slots the invariant is TaskWorld of the variables,
LEMMA PresentGood ==
    ASSUME ContextInv, pc = "tasks"
    PROVE  /\ TaskWorld(Present) /\ World = Present /\ batch = <<>>
           /\ work \in [at : Nat, n : 1 .. NBatch] /\ SceneGood(scene) /\ FilesGood(file)
<1>1. /\ WorldGood(World, work.at) /\ batch = <<>> /\ Settled(kv)
      /\ work \in [at : Nat, n : 1 .. NBatch] /\ SceneGood(scene) /\ FilesGood(file)
    BY DEF ContextInv, WorkGood, FilesGood, Settled
<1>2. World = Present
    BY <1>1 DEF World, Present
<1>3. Present.batch = <<>> /\ Present.kv = kv
    BY DEF Present
<1>. DEFINE w == Present
            at == work.at
<1>4. at \in Nat
    BY <1>1
<1>5. w.batch = <<>> /\ WorldGood(w, at)
    BY <1>1, <1>2, <1>3
<1>. HIDE DEF w, at
<1>6. WorldGood(w, 0)
    BY <1>4, <1>5, AnywhereTrue
<1>. QED
    BY <1>1, <1>2, <1>3, <1>6 DEF w, TaskWorld

\* A step that leaves no batch.
LEMMA TaskDone ==
    ASSUME NEW w, TaskWorld(w),
           kv' = w.kv, sys' = w.sys, slots' = w.slots, doubt' = w.doubt,
           batch' = <<>>, pc' = "tasks", work' \in [at : Nat, n : 1 .. NBatch],
           SceneGood(scene'), FilesGood(file')
    PROVE  ContextInv'
<1>1. w = [kv |-> w.kv, sys |-> w.sys, slots |-> w.slots, batch |-> w.batch, doubt |-> w.doubt]
    BY DEF TaskWorld, WorldGood
<1>2. World' = w
    BY <1>1 DEF World, TaskWorld
<1>. DEFINE at == work'.at
<1>3. WorldGood(w, 0) /\ w.batch = <<>> /\ Settled(w.kv)
    BY DEF TaskWorld
<1>4. WorldGood(w, at)
    <2>1. 0 \in Nat
        OBVIOUS
    <2>. HIDE DEF at
    <2>. QED
        BY <1>3, <2>1, AnywhereTrue
<1>5. WorkGood'
    BY <1>3 DEF WorkGood, Settled
<1>6. WorldGood(World', work'.at)
    BY <1>2, <1>4
<1>. QED
    BY <1>5, <1>6 DEF ContextInv, FilesGood

\* and when the loops begin no system prompt is due.
LEMMA BegunGood ==
    ASSUME ContextInv, pc = "tasks"
    PROVE  TaskWorld(Begun) /\ Ready(Begun)
<1>. DEFINE u == Present
            v == SystemUpdated(u)
<1>1. TaskWorld(u)
    BY PresentGood
<1>2. TaskWorld(v) /\ ~v.sys.need
    <2>. HIDE DEF u
    <2>. QED
        BY <1>1, SystemUpdatedGood
<1>3. TaskWorld(ReleasesDone(v)) /\ Ready(ReleasesDone(v))
    <2>. HIDE DEF v
    <2>. QED
        BY <1>2, ReleasesGood
<1>. QED
    BY <1>3 DEF Begun

\* The number to discard does not fit in with a slot only if a request gave it: half
\* of what is behind the tokens to keep always does.
LEMMA StraysUnfit ==
    ASSUME NEW w, TaskWorld(w), Ready(w), NEW s \in Slots, Strays(w, s) \/ Throws(w, s)
    PROVE  w.slots[s].n_discard \notin 0 .. w.slots[s].n_past
<1>. DEFINE x == w.slots[s]
            L == Len(w.sys.tokens)
            ends == L + x.n_past
            keep == x.n_keep + AddBos
            own == x.n_discard
            d == IF own # 0 THEN own ELSE ((L + x.n_past) - keep) \div 2
<1>1. /\ WorldType(w) /\ SlotTrue(w, 0, s)
    BY WorldParts DEF TaskWorld
<1>2. x \in SlotType /\ SlotGood(x, w.sys.tokens, w.sys.need, w.batch, 0, s)
      /\ x.command # "RELEASE" /\ SysGood(w.sys)
    BY <1>1 DEF WorldType, SlotTrue, Ready
<1>3. L \in Nat /\ 2 * L < NCtx /\ x.n_past \in Nat /\ own \in Int /\ NCtx \in Nat /\ NCtx > 4
    BY <1>2, CtxAssumption, SizeFacts, Zenon DEF SysGood, SlotType
<1>4. /\ ContextFull(x, ends)
      /\ Strays(w, s) => d \notin 0 .. x.n_past
      /\ Throws(w, s) => x.cached /\ d > Len(x.cache_tokens)
    BY DEF Strays, Throws, Discards, Discard
<1>5. Processing(x) /\ ends >= NCtx - 1
    BY <1>4 DEF ContextFull
<1>6. x.n_keep \in 0 .. NCtx - 4 /\ Busy(x) /\ x.n_past > 0
    <2>. HIDE DEF x
    <2>. QED
        BY <1>2, <1>3, <1>5, FullWorks, Zenon DEF SlotGood
<1>7. keep \in 0 .. NCtx - 3
    BY <1>3, <1>6, ModelAssumption
<1>8. Throws(w, s) => d > x.n_past
    <2>1. x.cached => Len(x.cache_tokens) = x.n_past
        BY <1>2, <1>6 DEF SlotGood, CacheTokensGood
    <2>. QED
        BY <1>4, <2>1
<1>9. d \notin 0 .. x.n_past
    <2>. HIDE DEF d, x
    <2>. QED
        BY <1>3, <1>4, <1>8
<1>10. own = 0 => d \in 0 .. x.n_past
    <2>. HIDE DEF x, L, keep, own
    <2>. QED
        BY <1>3, <1>5, <1>7, ShiftNumbers
<1>11. own # 0 /\ d = own
    BY <1>9, <1>10
<1>. QED
    BY <1>9, <1>11

\* The slots of the next turn have what they have now.
LEMMA BegunSlots ==
    ASSUME ContextInv, pc = "tasks", NEW s \in Slots
    PROVE  Begun.slots[s].n_discard = slots[s].n_discard /\ Begun.slots[s].n_past = slots[s].n_past
<1>. DEFINE u == Present
            v == SystemUpdated(u)
            x == slots[s]
            n == [t \in Slots |->
                    IF slots[t].command = "RELEASE"
                    THEN [slots[t] EXCEPT !.state = "IDLE", !.command = "NONE"] ELSE slots[t]]
<1>1. TaskWorld(u) /\ u.slots = slots /\ slots \in [Slots -> SlotType]
    BY PresentGood DEF ContextInv, WorldGood, World, Present
<1>. HIDE DEF u
<1>2. u = [kv |-> u.kv, sys |-> u.sys, slots |-> u.slots, batch |-> u.batch, doubt |-> u.doubt]
    BY <1>1 DEF TaskWorld, WorldGood
<1>3. v.slots = slots /\ v = [kv |-> v.kv, sys |-> v.sys, slots |-> v.slots, batch |-> v.batch, doubt |-> v.doubt]
    <2>1. v.slots = u.slots
        BY <1>2, Zenon DEF SystemUpdated, CacheCleared
    <2>2. TaskWorld(v)
        BY <1>1, SystemUpdatedGood
    <2>. QED
        BY <1>1, <2>1, <2>2 DEF TaskWorld, WorldGood
<1>. HIDE DEF v
<1>4. Begun.slots = n
    BY <1>3, Zenon DEF Begun, ReleasesDone, u, v
<1>5. Begun.slots[s] = IF x.command = "RELEASE" THEN [x EXCEPT !.state = "IDLE", !.command = "NONE"] ELSE x
    BY <1>4
<1>6. x \in SlotType
    BY <1>1
<1>. HIDE DEF x
<1>7. Begun.slots[s].n_discard = x.n_discard /\ Begun.slots[s].n_past = x.n_past
    BY <1>5, <1>6, Zenon DEF SlotType
<1>. QED
    BY <1>7 DEF x

\* A context shift with such a number ends what is followed of the program.
LEMMA StopsKeep ==
    ASSUME ContextInv, pc = "tasks", ShiftThrows(Begun) \/ ShiftStrays(Begun),
           file' = file, scene' = scene
    PROVE  ContextInv'
<1>1. /\ kv' = kv /\ sys' = sys /\ slots' = slots /\ batch' = batch /\ work' = work
      /\ doubt' = doubt /\ pc' \in {"ended", "astray"}
    BY DEF ShiftThrows, ShiftStrays
<1>2. PICK s \in Slots : Throws(Begun, s) \/ Strays(Begun, s)
    BY DEF ShiftThrows, ShiftStrays
<1>3. TaskWorld(Begun) /\ Ready(Begun)
    BY BegunGood
<1>4. Begun.slots[s].n_discard \notin 0 .. Begun.slots[s].n_past
    BY <1>2, <1>3, StraysUnfit
<1>5. slots \in [Slots -> SlotType]
    BY DEF ContextInv, WorldGood, World
<1>6. Unfit(slots)
    <2>1. slots[s].n_discard \notin 0 .. slots[s].n_past
        BY <1>4, <1>5, BegunSlots
    <2>. QED
        BY <2>1 DEF Unfit
<1>7. WorkGood'
    BY <1>1, <1>6 DEF ContextInv, WorkGood
<1>8. World' = World
    BY <1>1 DEF World
<1>. QED
    BY <1>1, <1>7, <1>8 DEF ContextInv

\* update_slots up to its first decode keeps the invariant.
LEMMA BatchFilledKeeps ==
    ASSUME ContextInv, pc = "tasks", BatchFilled(Begun), file' = file, scene' = scene
    PROVE  ContextInv'
<1>. DEFINE u == Begun
<1>1. pc = "tasks" /\ file' = file /\ scene' = scene
    OBVIOUS
<1>2. /\ SceneGood(scene') /\ FilesGood(file')
      /\ [at |-> 0, n |-> NBatch] \in [at : Nat, n : 1 .. NBatch]
    <2>1. NBatch \in 1 .. NBatch
        BY BatchAssumption
    <2>2. SceneGood(scene) /\ FilesGood(file)
        BY <1>1, PresentGood
    <2>. QED
        BY <1>1, <2>1, <2>2
<1>3. TaskWorld(u) /\ Ready(u)
    BY <1>1, BegunGood
<1>4. PICK w : w = (IF AllIdle(u) THEN Rested(u) ELSE Filled(u)) /\ Becomes(w)
    BY DEF BatchFilled
<1>a. \A s \in Slots : ~Strays(u, s)
    BY DEF BatchFilled
<1>. HIDE DEF u
<1>5. /\ kv' = w.kv /\ sys' = w.sys /\ slots' = w.slots /\ batch' = w.batch /\ doubt' = w.doubt
      /\ pc' = IF w.batch = <<>> THEN "tasks" ELSE "decode"
      /\ work' = [at |-> 0, n |-> NBatch]
    BY <1>4 DEF Becomes
<1>6. WorldGood(w, 0) /\ ~w.sys.need /\ (w.kv.has_shift => w.batch # <<>>)
    <2>1. CASE AllIdle(u)
        <3>1. TaskWorld(w) /\ Ready(w)
            BY <1>3, <1>4, <2>1, RestedGood
        <3>. QED
            BY <3>1 DEF TaskWorld, Ready, Settled
    <2>2. CASE ~AllIdle(u)
        BY <1>3, <1>4, <1>a, <2>2, FilledGood
    <2>. QED
        BY <2>1, <2>2
<1>7. CASE w.batch = <<>>
    <2>1. Settled(w.kv)
        <3>1. Sound(w.kv) /\ ~w.kv.has_shift
            BY <1>6, <1>7 DEF WorldGood
        <3>. QED
            BY <3>1 DEF Sound, Settled
    <2>2. TaskWorld(w)
        BY <1>6, <1>7, <2>1 DEF TaskWorld
    <2>. QED
        BY <1>2, <1>5, <1>7, <2>2, TaskDone
<1>8. CASE w.batch # <<>>
    <2>1. w = [kv |-> w.kv, sys |-> w.sys, slots |-> w.slots, batch |-> w.batch, doubt |-> w.doubt]
          /\ w.batch \in Seq(Entries)
        BY <1>6 DEF WorldGood
    <2>2. World' = w
        BY <1>5, <2>1 DEF World
    <2>3. WorldGood(World', work'.at)
        BY <1>5, <1>6, <2>2
    <2>4. 0 < Len(w.batch)
        <3>. DEFINE b == w.batch
        <3>1. b \in Seq(Entries) /\ b # <<>>
            BY <1>8, <2>1
        <3>. HIDE DEF b
        <3>2. Len(b) \in Nat /\ Len(b) # 0
            BY <3>1, EmptySeq, LenProperties
        <3>3. 0 < Len(b)
            BY <3>2
        <3>. QED
            BY <3>3 DEF b
    <2>5. WorkGood'
        BY <1>2, <1>5, <1>6, <1>8, <2>4 DEF WorkGood
    <2>. QED
        BY <1>2, <2>3, <2>5 DEF ContextInv, FilesGood
<1>. QED
    BY <1>7, <1>8

LEMMA UpdateSlotsKeeps ==
    ASSUME ContextInv, UpdateSlots
    PROVE  ContextInv'
<1>1. pc = "tasks" /\ file' = file /\ scene' = scene
    BY DEF UpdateSlots, Task
<1>2. BatchFilled(Begun) \/ ShiftThrows(Begun) \/ ShiftStrays(Begun)
    BY DEF UpdateSlots
<1>. QED
    BY <1>1, <1>2, BatchFilledKeeps, StopsKeep

-----------------------------------------------------------------------------
(* The tasks.                                                              *)

\* What a slot is and believes between two update_slots, y being sys.
SlotStands(k, y, z, D, s) ==
    /\ SlotGood(z, y.tokens, y.need, <<>>, 0, s)
    /\ Believed(Held(k, s), y.tokens, y.need, z, D)

Standing(k, y, f, D) ==
    /\ Sound(k) /\ Settled(k) /\ SysGood(y)
    /\ y.tokens = <<>> => Unshared(k)
    /\ f \in [Slots -> SlotType] /\ D \in [Slots -> SUBSET Doubts]
    /\ \A s \in Slots : SlotStands(k, y, f[s], D[s], s)

\* What holds between two update_slots, slot by slot,
LEMMA TaskStanding ==
    ASSUME NEW w, TaskWorld(w)
    PROVE  Standing(w.kv, w.sys, w.slots, w.doubt)
<1>1. WorldType(w) /\ (\A s \in Slots : SlotTrue(w, 0, s)) /\ w.batch = <<>> /\ Settled(w.kv)
    BY WorldParts DEF TaskWorld
<1>2. ASSUME NEW s \in Slots
      PROVE  SlotStands(w.kv, w.sys, w.slots[s], w.doubt[s], s)
    <2>1. SlotTrue(w, 0, s)
        BY <1>1
    <2>2. Content(w.kv, w.batch, 0, s) = Held(w.kv, s)
        BY <1>1, NoBatch
    <2>. QED
        BY <1>1, <2>1, <2>2 DEF SlotTrue, SlotStands
<1>. QED
    BY <1>1, <1>2 DEF Standing, WorldType

\* is all that TaskWorld says.
LEMMA StandingTask ==
    ASSUME NEW k, NEW y, NEW f, NEW D, Standing(k, y, f, D)
    PROVE  TaskWorld([kv |-> k, sys |-> y, slots |-> f, batch |-> <<>>, doubt |-> D])
<1>. DEFINE w == [kv |-> k, sys |-> y, slots |-> f, batch |-> <<>>, doubt |-> D]
<1>1. /\ w.kv = k /\ w.sys = y /\ w.slots = f /\ w.batch = <<>> /\ w.doubt = D
      /\ w = [kv |-> w.kv, sys |-> w.sys, slots |-> w.slots, batch |-> w.batch, doubt |-> w.doubt]
    OBVIOUS
<1>. HIDE DEF w
<1>2. <<>> \in Seq(Entries) /\ \A j \in DOMAIN <<>> : <<>>[j].pos >= Len(y.tokens)
    OBVIOUS
<1>3. WorldType(w)
    BY <1>1, <1>2 DEF WorldType, Standing
<1>4. ASSUME NEW s \in Slots
      PROVE  SlotTrue(w, 0, s)
    <2>1. Content(k, <<>>, 0, s) = Held(k, s)
        BY NoBatch
    <2>2. SlotStands(k, y, f[s], D[s], s)
        BY DEF Standing
    <2>. QED
        BY <1>1, <2>1, <2>2 DEF SlotStands, SlotTrue
<1>5. WorldGood(w, 0)
    BY <1>3, <1>4, WorldParts
<1>6. TaskWorld(w)
    BY <1>1, <1>5 DEF TaskWorld, Standing
<1>. QED
    BY <1>6 DEF w

\* A task leaves the server standing.
LEMMA TaskKeeps ==
    ASSUME ContextInv, pc = "tasks", batch' = batch, pc' = pc, work' = work,
           Standing(kv', sys', slots', doubt'), SceneGood(scene'), FilesGood(file')
    PROVE  ContextInv'
<1>. DEFINE k == kv'
            y == sys'
            f == slots'
            D == doubt'
            w == [kv |-> k, sys |-> y, slots |-> f, batch |-> <<>>, doubt |-> D]
<1>1. TaskWorld(w)
    <2>1. Standing(k, y, f, D)
        OBVIOUS
    <2>. HIDE DEF k, y, f, D
    <2>. QED
        BY <2>1, StandingTask
<1>2. w.kv = kv' /\ w.sys = sys' /\ w.slots = slots' /\ w.doubt = doubt'
    OBVIOUS
<1>3. batch = <<>> /\ work \in [at : Nat, n : 1 .. NBatch]
    BY PresentGood
<1>. HIDE DEF w
<1>. QED
    BY <1>1, <1>2, <1>3, TaskDone

\* The invariant between two update_slots, slot by slot.
LEMMA NowStanding ==
    ASSUME ContextInv, pc = "tasks"
    PROVE  Standing(kv, sys, slots, doubt) /\ SceneGood(scene) /\ FilesGood(file)
<1>1. TaskWorld(Present) /\ SceneGood(scene) /\ FilesGood(file)
    BY PresentGood
<1>2. Present.kv = kv /\ Present.sys = sys /\ Present.slots = slots /\ Present.doubt = doubt
    BY DEF Present
<1>. DEFINE w == Present
<1>3. Standing(w.kv, w.sys, w.slots, w.doubt)
    <2>1. TaskWorld(w)
        BY <1>1
    <2>. HIDE DEF w
    <2>. QED
        BY <2>1, TaskStanding
<1>. QED
    BY <1>1, <1>2, <1>3

\* A slot that has the same cache_tokens, and does not begin to work, believes
\* what it believed.
LEMMA StandsOn ==
    ASSUME NEW k, NEW y, NEW x, NEW D, NEW s, SlotStands(k, y, x, D, s),
           NEW y2, y2.tokens = y.tokens, NEW z,
           z \in SlotType, CommandGood(z), PromptGood(z), CacheTokensGood(z),
           y2.need => z.n_past = 0, y.tokens = <<>> => z.n_past < NCtx,
           z.i_batch >= -1, Generating(z) => Generating(x) /\ TurnGood(z, y.tokens, <<>>, 0, s),
           z.cache_tokens = x.cache_tokens,
           ~y2.need /\ Working(z) => ~y.need /\ Working(x) /\ z.n_past = x.n_past
    PROVE  SlotStands(k, y2, z, D, s)
<1>1. TurnGood(z, y2.tokens, <<>>, 0, s)
    BY DEF TurnGood
<1>2. SlotGood(z, y2.tokens, y2.need, <<>>, 0, s)
    BY <1>1 DEF SlotGood
<1>3. Believed(Held(k, s), y2.tokens, y2.need, z, D)
    BY DEF Believed, SlotStands
<1>. QED
    BY <1>2, <1>3 DEF SlotStands

\* A slot that is released,
LEMMA ReleasedStands ==
    ASSUME NEW k, NEW y, NEW x, NEW D, NEW s, SlotStands(k, y, x, D, s)
    PROVE  SlotStands(k, y, Released(x), D, s) /\ ~Generating(Released(x)) /\ Released(x) \in SlotType
           /\ (x.state = "IDLE" => Released(x) = x)
<1>. DEFINE z == Released(x)
<1>1. x \in SlotType /\ SlotGood(x, y.tokens, y.need, <<>>, 0, s)
    BY DEF SlotStands, SlotGood
<1>2. CASE x.state = "PROCESSING"
    <2>1. z = [x EXCEPT !.command = "RELEASE"]
        BY <1>2 DEF Released
    <2>. HIDE DEF z
    <2>2. /\ z \in SlotType /\ z.state = "PROCESSING" /\ z.command = "RELEASE"
          /\ z.prompt = x.prompt /\ z.n_keep = x.n_keep /\ z.n_past = x.n_past
          /\ z.i_batch = x.i_batch /\ z.cache_tokens = x.cache_tokens
        BY <1>1, <1>2, <2>1, Zenon DEF SlotType
    <2>3. ~Loading(z) /\ ~Generating(z) /\ Processing(x)
        BY <1>2, <2>2 DEF Loading, Generating, Processing
    <2>4. CommandGood(z)
        BY <2>2 DEF CommandGood
    <2>5. PromptGood(z)
        BY <1>1, <2>2, <2>3 DEF PromptGood, SlotGood
    <2>6. CacheTokensGood(z)
        BY <2>3 DEF CacheTokensGood, Busy
    <2>7. z.i_batch >= -1
        BY <1>1, <2>2 DEF SlotGood, TurnGood
    <2>8. (y.need => z.n_past = 0) /\ (y.tokens = <<>> => z.n_past < NCtx)
        BY <1>1, <2>2 DEF SlotGood
    <2>9. Working(z) => Working(x)
        BY <2>2, <2>3 DEF Working
    <2>10. SlotStands(k, y, z, D, s)
        BY <2>2, <2>3, <2>4, <2>5, <2>6, <2>7, <2>8, <2>9, StandsOn
    <2>11. SlotStands(k, y, z, D, s) /\ ~Generating(z) /\ z \in SlotType
        BY <2>2, <2>3, <2>10
    <2>. QED
        BY <1>2, <2>11 DEF z
<1>3. CASE x.state # "PROCESSING"
    <2>1. z = x
        BY <1>3 DEF Released
    <2>. HIDE DEF z
    <2>2. ~Generating(z)
        BY <1>3, <2>1 DEF Generating
    <2>3. SlotStands(k, y, z, D, s) /\ ~Generating(z) /\ z \in SlotType /\ z = x
        BY <1>1, <2>1, <2>2
    <2>. QED
        BY <2>3 DEF z
<1>. QED
    BY <1>2, <1>3

\* A request with a system prompt: n_past is zero.
ZeroPast(x) == [x EXCEPT !.n_past = 0]

\* one whose n_past is set to zero for a new system prompt,
LEMMA ZeroPastStands ==
    ASSUME NEW k, NEW y, NEW x, NEW D, NEW s, SlotStands(k, y, x, D, s), ~Generating(x),
           NEW y2, y2.tokens = y.tokens, y2.need
    PROVE  SlotStands(k, y2, ZeroPast(x), D, s) /\ ZeroPast(x) \in SlotType
           /\ ZeroPast(x).state = x.state
<1>. DEFINE z == ZeroPast(x)
<1>1. x \in SlotType /\ SlotGood(x, y.tokens, y.need, <<>>, 0, s)
    BY DEF SlotStands, SlotGood
<1>2. z = [x EXCEPT !.n_past = 0]
    BY DEF ZeroPast
<1>. HIDE DEF z
<1>3. /\ z \in SlotType /\ z.state = x.state /\ z.command = x.command
      /\ z.prompt = x.prompt /\ z.n_keep = x.n_keep /\ z.n_past = 0 /\ z.cached = x.cached
      /\ z.i_batch = x.i_batch /\ z.cache_tokens = x.cache_tokens
    BY <1>1, <1>2, Zenon DEF SlotType
<1>4. (Loading(z) <=> Loading(x)) /\ ~Generating(z)
    BY <1>3 DEF Loading, Generating
<1>5. CommandGood(z)
    BY <1>1, <1>3 DEF CommandGood, SlotGood
<1>6. PromptGood(z)
    <2>1. z.prompt # <<>> => 0 < Len(z.prompt)
        <3>1. z.prompt \in Seq(Words)
            BY <1>3 DEF SlotType
        <3>. DEFINE p == z.prompt
        <3>2. p \in Seq(Words)
            BY <3>1
        <3>. HIDE DEF p
        <3>3. p # <<>> => Len(p) \in Nat /\ Len(p) # 0
            BY <3>2, EmptySeq, LenProperties
        <3>4. p # <<>> => 0 < Len(p)
            BY <3>3
        <3>. QED
            BY <3>4 DEF p
    <2>. QED
        BY <1>1, <1>3, <1>4, <2>1 DEF PromptGood, SlotGood
<1>7. CacheTokensGood(z)
    BY <1>1, <1>3, <1>4 DEF CacheTokensGood, Busy, SlotGood
<1>8. z.i_batch >= -1 /\ z.n_past < NCtx
    BY <1>1, <1>3, CtxAssumption DEF SlotGood, TurnGood
<1>9. SlotStands(k, y2, z, D, s)
    BY <1>3, <1>4, <1>5, <1>6, <1>7, <1>8, StandsOn
<1>10. SlotStands(k, y2, z, D, s) /\ z \in SlotType /\ z.state = x.state
    BY <1>3, <1>9
<1>. QED
    BY <1>10 DEF z

Launched(x, r) ==
    [x EXCEPT !.n_past = 0, !.command = "LOAD_PROMPT", !.prompt = <<>>,
              !.request = r.prompt, !.cached = r.cache_prompt,
              !.n_keep = r.n_keep, !.n_discard = r.n_discard, !.n_predict = r.n_predict]

\* and one that gets a request believe what they believed.
LEMMA LaunchedStands ==
    ASSUME NEW k, NEW y, NEW x, NEW D, NEW s, SlotStands(k, y, x, D, s), x.state = "IDLE",
           NEW r \in Requests, r.prompt \in Seq(Words)
    PROVE  SlotStands(k, y, Launched(x, r), D, s) /\ Launched(x, r) \in SlotType
<1>. DEFINE z == Launched(x, r)
<1>1. x \in SlotType /\ SlotGood(x, y.tokens, y.need, <<>>, 0, s)
    BY DEF SlotStands, SlotGood
<1>2. z = [x EXCEPT !.n_past = 0, !.command = "LOAD_PROMPT", !.prompt = <<>>,
                    !.request = r.prompt, !.cached = r.cache_prompt,
                    !.n_keep = r.n_keep, !.n_discard = r.n_discard, !.n_predict = r.n_predict]
    BY DEF Launched
<1>. HIDE DEF z
<1>3. /\ r.cache_prompt \in BOOLEAN /\ r.n_keep \in Int /\ r.n_discard \in Int
      /\ r.n_predict \in Int /\ <<>> \in Seq(Words)
    BY DEF Requests
<1>4. /\ z \in SlotType /\ z.state = "IDLE" /\ z.command = "LOAD_PROMPT"
      /\ z.prompt = <<>> /\ z.n_past = 0
      /\ z.i_batch = x.i_batch /\ z.cache_tokens = x.cache_tokens
    BY <1>1, <1>2, <1>3, Zenon DEF SlotType
<1>5. ~Generating(z) /\ ~Working(z) /\ ~Busy(z)
    BY <1>4 DEF Generating, Working, Busy
<1>6. CommandGood(z)
    BY <1>4 DEF CommandGood
<1>7. PromptGood(z)
    BY <1>4, <1>5 DEF PromptGood
<1>8. CacheTokensGood(z)
    BY <1>5 DEF CacheTokensGood
<1>9. z.i_batch >= -1 /\ z.n_past < NCtx
    BY <1>1, <1>4, CtxAssumption DEF SlotGood, TurnGood
<1>10. SlotStands(k, y, z, D, s)
    BY <1>4, <1>5, <1>6, <1>7, <1>8, <1>9, StandsOn
<1>11. SlotStands(k, y, z, D, s) /\ z \in SlotType
    BY <1>4, <1>10
<1>. QED
    BY <1>11 DEF z

\* The requests of clients.
LEMMA RequestGood ==
    ASSUME NEW c \in Scenarios, NEW r \in c.requests
    PROVE  /\ r \in Requests /\ r.prompt \in Seq(Words)
           /\ \A p \in r.sys : p \in Seq(Tokens) /\ 2 * Len(p) < NCtx
<1>1. r \in Requests
    BY ScenariosAssumption
<1>2. r.prompt \in Seq(Tokens) /\ r.sys \in SUBSET Seq(Tokens)
    BY <1>1 DEF Requests
<1>3. r.prompt \in Seq(Words)
    <2>. DEFINE q == r.prompt
    <2>1. q \in Seq(Tokens) /\ \A i \in DOMAIN q : q[i] # Zero
        BY <1>2, ZeroAssumption
    <2>. HIDE DEF q
    <2>2. Len(q) \in Nat /\ DOMAIN q = 1 .. Len(q) /\ \A i \in 1 .. Len(q) : q[i] \in Tokens
        BY <2>1, LenProperties, ElementOfSeq
    <2>3. \A i \in 1 .. Len(q) : q[i] \in Words
        BY <2>1, <2>2 DEF Words
    <2>4. q \in Seq(Words)
        BY <2>1, <2>2, <2>3
    <2>. QED
        BY <2>4 DEF q
<1>4. ASSUME NEW p \in r.sys
      PROVE  2 * Len(p) < NCtx
    BY SysPromptsAssumption
<1>. QED
    BY <1>1, <1>2, <1>3, <1>4

\* A scene with less to come.
LEMMA SceneSpent ==
    ASSUME NEW c, SceneGood(c), NEW n
    PROVE  SceneGood([c EXCEPT !.tasks = n]) /\ SceneGood([c EXCEPT !.actions = n])
BY DEF SceneGood

\* A completion, with or without a new system prompt, keeps the invariant,
LEMMA LaunchKeeps ==
    ASSUME ContextInv, NEW s \in Slots, NEW r \in scene.requests, Launch(s, r)
    PROVE  ContextInv'
<1>. DEFINE others == [t \in Slots |-> IF r.sys = {} THEN slots[t]
                                       ELSE ZeroPast(Released(slots[t]))]
<1>1. /\ pc = "tasks" /\ kv' = kv /\ batch' = batch /\ work' = work /\ pc' = pc /\ file' = file
      /\ doubt' = doubt /\ Available(slots[s])
      /\ scene' = [scene EXCEPT !.tasks = scene.tasks - 1]
      /\ slots' = [others EXCEPT ![s] = Launched(others[s], r)]
    BY Zenon DEF Launch, Task, Launched, ZeroPast
<1>2. Standing(kv, sys, slots, doubt) /\ SceneGood(scene) /\ FilesGood(file)
    BY <1>1, NowStanding
<1>3. /\ r \in Requests /\ r.prompt \in Seq(Words)
      /\ \A p \in r.sys : p \in Seq(Tokens) /\ 2 * Len(p) < NCtx
    BY <1>2, RequestGood DEF SceneGood
<1>4. SceneGood(scene') /\ FilesGood(file')
    BY <1>1, <1>2, SceneSpent, Zenon
<1>5. /\ SysGood(sys') /\ sys'.tokens = sys.tokens
      /\ r.sys # {} => sys'.need
      /\ r.sys = {} => sys' = sys
    <2>1. CASE r.sys = {}
        BY <1>2, <2>1 DEF Launch, Standing
    <2>2. CASE r.sys # {}
        <3>1. PICK p \in r.sys : sys' = [sys EXCEPT !.prompt = p, !.need = TRUE]
            BY <2>2, Zenon DEF Launch
        <3>2. p \in Seq(Tokens) /\ 2 * Len(p) < NCtx /\ SysGood(sys)
            BY <1>2, <1>3 DEF Standing
        <3>3. /\ sys' \in [ prompt : Seq(Tokens), tokens : Seq(Tokens), need : BOOLEAN, clean : BOOLEAN ]
              /\ sys'.prompt = p /\ sys'.tokens = sys.tokens /\ sys'.need
            BY <3>1, <3>2, Zenon DEF SysGood
        <3>. QED
            BY <2>2, <3>2, <3>3 DEF SysGood
    <2>. QED
        BY <2>1, <2>2
<1>6. ASSUME NEW t \in Slots
      PROVE  /\ SlotStands(kv, sys', others[t], doubt[t], t) /\ others[t] \in SlotType
             /\ slots[t].state = "IDLE" => others[t].state = "IDLE"
    <2>1. SlotStands(kv, sys, slots[t], doubt[t], t) /\ slots[t] \in SlotType
        BY <1>2 DEF Standing
    <2>2. CASE r.sys = {}
        BY <1>5, <2>1, <2>2
    <2>3. CASE r.sys # {}
        <3>. DEFINE x == slots[t]
                    u == Released(x)
                    D == doubt[t]
                    y == sys
                    y2 == sys'
                    z == ZeroPast(u)
        <3>1. SlotStands(kv, y, x, D, t)
            BY <2>1
        <3>2. y2.tokens = y.tokens /\ y2.need
            BY <1>5, <2>3
        <3>. HIDE DEF x, D, y, y2
        <3>3. SlotStands(kv, y, u, D, t) /\ ~Generating(u) /\ (x.state = "IDLE" => u = x)
            BY <3>1, ReleasedStands
        <3>. HIDE DEF u
        <3>4. SlotStands(kv, y2, z, D, t) /\ z \in SlotType /\ z.state = u.state
            BY <3>2, <3>3, ZeroPastStands
        <3>5. others[t] = z
            BY <2>3 DEF u, x
        <3>. HIDE DEF others, z
        <3>6. /\ SlotStands(kv, y2, others[t], D, t) /\ others[t] \in SlotType
              /\ x.state = "IDLE" => others[t].state = "IDLE"
            BY <3>3, <3>4, <3>5
        <3>. QED
            BY <3>6 DEF x, D, y2
    <2>. QED
        BY <2>2, <2>3
<1>7. ASSUME NEW t \in Slots
      PROVE  SlotStands(kv, sys', slots'[t], doubt[t], t) /\ slots'[t] \in SlotType
    <2>1. CASE t = s
        <3>. DEFINE x == others[s]
                    D == doubt[s]
                    y2 == sys'
        <3>1. slots'[s] = Launched(x, r)
            BY <1>1
        <3>2. SlotStands(kv, y2, x, D, s) /\ x.state = "IDLE"
            BY <1>1, <1>6 DEF Available
        <3>. HIDE DEF x, D, y2
        <3>3. SlotStands(kv, y2, Launched(x, r), D, s) /\ Launched(x, r) \in SlotType
            BY <1>3, <3>2, LaunchedStands
        <3>. QED
            BY <2>1, <3>1, <3>3 DEF D, y2
    <2>2. CASE t # s
        <3>1. slots'[t] = others[t]
            BY <1>1, <2>2
        <3>. HIDE DEF others
        <3>. QED
            BY <1>6, <3>1
    <2>. QED
        BY <2>1, <2>2
<1>8. slots' \in [Slots -> SlotType]
    <2>1. slots' = [t \in Slots |-> slots'[t]]
        BY <1>1, Zenon
    <2>. QED
        BY <1>7, <2>1
<1>9. Standing(kv', sys', slots', doubt')
    BY <1>1, <1>2, <1>5, <1>7, <1>8 DEF Standing
<1>. QED
    BY <1>1, <1>4, <1>9, TaskKeeps

\* a cancelled one too.
LEMMA CancelKeeps ==
    ASSUME ContextInv, NEW s \in Slots, Cancel(s)
    PROVE  ContextInv'
<1>1. /\ pc = "tasks" /\ kv' = kv /\ batch' = batch /\ work' = work /\ pc' = pc /\ file' = file
      /\ doubt' = doubt /\ sys' = sys
      /\ scene' = [scene EXCEPT !.actions = scene.actions - 1]
      /\ slots' = [slots EXCEPT ![s] = Released(slots[s])]
    BY DEF Cancel, Action, Task
<1>2. Standing(kv, sys, slots, doubt) /\ SceneGood(scene) /\ FilesGood(file)
    BY <1>1, NowStanding
<1>3. SceneGood(scene') /\ FilesGood(file')
    BY <1>1, <1>2, SceneSpent, Zenon
<1>4. SlotStands(kv, sys, Released(slots[s]), doubt[s], s) /\ Released(slots[s]) \in SlotType
    <2>. DEFINE x == slots[s]
                D == doubt[s]
    <2>1. SlotStands(kv, sys, x, D, s)
        BY <1>2 DEF Standing
    <2>. HIDE DEF x, D
    <2>2. SlotStands(kv, sys, Released(x), D, s) /\ Released(x) \in SlotType
        BY <2>1, ReleasedStands
    <2>. QED
        BY <2>2 DEF x, D
<1>5. ASSUME NEW t \in Slots
      PROVE  SlotStands(kv, sys, slots'[t], doubt[t], t)
    <2>1. slots[t] \in SlotType /\ SlotStands(kv, sys, slots[t], doubt[t], t) /\ slots \in [Slots -> SlotType]
        BY <1>2 DEF Standing
    <2>2. slots'[t] = IF t = s THEN Released(slots[s]) ELSE slots[t]
        BY <1>1, <2>1
    <2>. QED
        BY <1>4, <2>1, <2>2
<1>6. slots' \in [Slots -> SlotType]
    BY <1>1, <1>2, <1>4 DEF Standing
<1>7. Standing(kv', sys', slots', doubt')
    BY <1>1, <1>2, <1>5, <1>6 DEF Standing
<1>. QED
    BY <1>1, <1>3, <1>7, TaskKeeps

\* A slot that is not at work, with other cache_tokens.
Told(x, c) == [x EXCEPT !.cache_tokens = c]

\* An idle slot whose cache_tokens are replaced by tokens that are in the cache.
LEMMA ToldStands ==
    ASSUME NEW k, NEW k2, NEW y, NEW x, NEW D, NEW s, SlotStands(k, y, x, D, s), Available(x),
           NEW c \in Seq(Tokens), NEW E,
           "system" \notin E => SystemIn(Held(k2, s), y.tokens),
           E = {} => TokensIn(Held(k2, s), y.tokens, c)
                     /\ (y.tokens = <<>> => TightIn(Held(k2, s)))
    PROVE  SlotStands(k2, y, Told(x, c), E, s) /\ Told(x, c) \in SlotType
<1>. DEFINE z == Told(x, c)
<1>1. x \in SlotType /\ SlotGood(x, y.tokens, y.need, <<>>, 0, s)
    BY DEF SlotStands, SlotGood
<1>2. z = [x EXCEPT !.cache_tokens = c]
    BY DEF Told
<1>. HIDE DEF z
<1>3. /\ z \in SlotType /\ z.state = "IDLE" /\ z.command = "NONE"
      /\ z.prompt = x.prompt /\ z.n_past = x.n_past /\ z.n_keep = x.n_keep
      /\ z.i_batch = x.i_batch /\ z.cache_tokens = c
    BY <1>1, <1>2, Zenon DEF SlotType, Available
<1>4. ~Generating(z) /\ ~Working(z) /\ ~Busy(z) /\ ~Loading(z)
    BY <1>3 DEF Generating, Working, Busy, Processing, Loading
<1>5. CommandGood(z)
    BY <1>3 DEF CommandGood
<1>6. PromptGood(z)
    BY <1>1, <1>3, <1>4 DEF PromptGood, SlotGood
<1>7. CacheTokensGood(z)
    BY <1>4 DEF CacheTokensGood
<1>8. TurnGood(z, y.tokens, <<>>, 0, s)
    BY <1>1, <1>3, <1>4 DEF SlotGood, TurnGood
<1>9. SlotGood(z, y.tokens, y.need, <<>>, 0, s)
    BY <1>1, <1>3, <1>5, <1>6, <1>7, <1>8 DEF SlotGood
<1>10. Believed(Held(k2, s), y.tokens, y.need, z, E)
    BY <1>3, <1>4 DEF Believed
<1>11. SlotStands(k2, y, z, E, s) /\ z \in SlotType
    BY <1>3, <1>9, <1>10 DEF SlotStands
<1>. QED
    BY <1>11 DEF z

\* A slot action that changes the cells of one slot, and what it believes.
LEMMA SlotToldKeeps ==
    ASSUME ContextInv, pc = "tasks", NEW s \in Slots, Available(slots[s]),
           sys' = sys, batch' = batch, work' = work, pc' = pc,
           SceneGood(scene'), FilesGood(file'),
           Sound(kv'), Settled(kv'), sys.tokens = <<>> => Unshared(kv'),
           \A t \in Slots : t # s => Held(kv', t) = Held(kv, t),
           NEW c \in Seq(Tokens), slots' = [slots EXCEPT ![s] = Told(slots[s], c)],
           NEW E \in SUBSET Doubts, doubt' = [doubt EXCEPT ![s] = E],
           "system" \notin E => SystemIn(Held(kv', s), sys.tokens),
           E = {} => TokensIn(Held(kv', s), sys.tokens, c)
                     /\ (sys.tokens = <<>> => TightIn(Held(kv', s)))
    PROVE  ContextInv'
<1>1. Standing(kv, sys, slots, doubt)
    BY NowStanding
<1>2. SlotStands(kv', sys, Told(slots[s], c), E, s) /\ Told(slots[s], c) \in SlotType
    <2>. DEFINE k2 == kv'
                x == slots[s]
                D == doubt[s]
    <2>1. SlotStands(kv, sys, x, D, s) /\ Available(x)
        BY <1>1 DEF Standing
    <2>2. /\ "system" \notin E => SystemIn(Held(k2, s), sys.tokens)
          /\ E = {} => TokensIn(Held(k2, s), sys.tokens, c)
                       /\ (sys.tokens = <<>> => TightIn(Held(k2, s)))
        OBVIOUS
    <2>. HIDE DEF k2, x, D
    <2>3. SlotStands(k2, sys, Told(x, c), E, s) /\ Told(x, c) \in SlotType
        BY <2>1, <2>2, ToldStands, Zenon
    <2>. QED
        BY <2>3 DEF k2, x
<1>3. slots' \in [Slots -> SlotType] /\ doubt' \in [Slots -> SUBSET Doubts]
    BY <1>1, <1>2 DEF Standing
<1>4. ASSUME NEW t \in Slots
      PROVE  SlotStands(kv', sys, slots'[t], doubt'[t], t)
    <2>1. CASE t = s
        <3>1. slots'[t] = Told(slots[s], c) /\ doubt'[t] = E
            BY <1>1, <2>1 DEF Standing
        <3>. QED
            BY <1>2, <2>1, <3>1
    <2>2. CASE t # s
        <3>1. slots'[t] = slots[t] /\ doubt'[t] = doubt[t] /\ Held(kv', t) = Held(kv, t)
            BY <1>1, <2>2 DEF Standing
        <3>2. SlotStands(kv, sys, slots[t], doubt[t], t)
            BY <1>1 DEF Standing
        <3>. QED
            BY <3>1, <3>2 DEF SlotStands
    <2>. QED
        BY <2>1, <2>2
<1>5. Standing(kv', sys', slots', doubt')
    BY <1>1, <1>3, <1>4 DEF Standing
<1>. QED
    BY <1>5, TaskKeeps

\* A slot whose cells are all removed.
LEMMA AllRemoved ==
    ASSUME NEW k, Sound(k), Settled(k), NEW s \in Slots
    PROVE  LET r == SeqRm(k, s + 1, -1, -1)
           IN  /\ Sound(r) /\ Settled(r)
               /\ Unshared(k) => Unshared(r)
               /\ \A t \in Slots : t # s => Held(r, t) = Held(k, t)
               /\ Held(r, s) = {}
<1>. DEFINE r == SeqRm(k, s + 1, -1, -1)
<1>1. /\ Sound(r) /\ r.has_shift = k.has_shift /\ r.delta = k.delta
      /\ Unshared(k) => Unshared(r)
      /\ \A t \in Slots : t # s => Held(r, t) = Held(k, t)
      /\ Held(r, s) = {e \in Held(k, s) : ~InRange(e.pos, -1, -1)}
    <2>1. -1 \in Int
        OBVIOUS
    <2>. QED
        BY <2>1, RemovedHeld
<1>2. ASSUME NEW e \in Held(k, s)
      PROVE  InRange(e.pos, -1, -1)
    <2>1. e.pos \in Nat
        BY HeldPlaces
    <2>. QED
        BY <2>1 DEF InRange
<1>3. Settled(r)
    BY <1>1 DEF Settled
<1>4. Held(r, s) = {}
    BY <1>1, <1>2
<1>. QED
    BY <1>1, <1>3, <1>4

\* Of no cells no tokens are believed.
LEMMA NothingHeld ==
    ASSUME NEW y \in Seq(Tokens)
    PROVE  /\ TokensIn({}, y, <<>>) /\ TightIn({})
           /\ y = <<>> => SystemIn({}, y)
BY DEF TokensIn, TightIn, SystemIn

\* A slot that is erased: its system prompt is in doubt.
LEMMA EraseSlotKeeps ==
    ASSUME ContextInv, NEW s \in Slots, EraseSlot(s)
    PROVE  ContextInv'
<1>. DEFINE E == doubt[s] \cup LosesSystem
<1>1. /\ pc = "tasks" /\ Available(slots[s])
      /\ sys' = sys /\ batch' = batch /\ work' = work /\ pc' = pc /\ file' = file
      /\ kv' = SeqRm(kv, s + 1, -1, -1)
      /\ slots' = [slots EXCEPT ![s] = Told(slots[s], <<>>)]
      /\ doubt' = [doubt EXCEPT ![s] = E]
      /\ scene' = [scene EXCEPT !.actions = scene.actions - 1]
    BY DEF EraseSlot, Action, Task, Told
<1>2. Standing(kv, sys, slots, doubt) /\ SceneGood(scene) /\ FilesGood(file)
    BY <1>1, NowStanding
<1>3. SceneGood(scene') /\ FilesGood(file')
    BY <1>1, <1>2, SceneSpent, Zenon
<1>4. /\ Sound(kv') /\ Settled(kv') /\ (sys.tokens = <<>> => Unshared(kv'))
      /\ \A t \in Slots : t # s => Held(kv', t) = Held(kv, t)
      /\ Held(kv', s) = {}
    <2>. DEFINE r == SeqRm(kv, s + 1, -1, -1)
    <2>1. /\ Sound(r) /\ Settled(r)
          /\ Unshared(kv) => Unshared(r)
          /\ \A t \in Slots : t # s => Held(r, t) = Held(kv, t)
          /\ Held(r, s) = {}
        BY <1>2, AllRemoved DEF Standing
    <2>. QED
        BY <1>1, <1>2, <2>1 DEF Standing
<1>5. E \in SUBSET Doubts /\ sys.tokens \in Seq(Tokens)
    BY <1>2 DEF Standing, SysGood, LosesSystem, Doubts
<1>6. /\ "system" \notin E => SystemIn(Held(kv', s), sys.tokens)
      /\ E = {} => TokensIn(Held(kv', s), sys.tokens, <<>>)
                   /\ (sys.tokens = <<>> => TightIn(Held(kv', s)))
    BY <1>4, <1>5, NothingHeld DEF LosesSystem
<1>7. <<>> \in Seq(Tokens)
    OBVIOUS
<1>. HIDE DEF E
<1>. QED
    BY <1>1, <1>3, <1>4, <1>5, <1>6, <1>7, SlotToldKeeps, Zenon

\* There is at most one file, and it has rows.
LEMMA OneFile ==
    ASSUME FilesGood(file), NEW f \in file
    PROVE  /\ FileGood(f) /\ file = {f}
           /\ f.rows \in Seq(RowType) /\ Len(f.rows) \in Nat \ {0}
           /\ f.tokens \in Seq(Tokens) /\ f.sys \in Seq(Tokens) /\ f.doubt \in SUBSET Doubts
<1>1. FileGood(f) /\ file = {f}
    BY DEF FilesGood
<1>2. /\ f.rows \in Seq(RowType) /\ f.rows # <<>>
      /\ f.tokens \in Seq(Tokens) /\ f.sys \in Seq(Tokens) /\ f.doubt \in SUBSET Doubts
    BY <1>1 DEF FileGood
<1>. DEFINE u == f.rows
<1>3. Len(u) \in Nat \ {0}
    <2>1. u \in Seq(RowType) /\ u # <<>>
        BY <1>2
    <2>. HIDE DEF u
    <2>. QED
        BY <2>1, EmptySeq, LenProperties
<1>. QED
    BY <1>1, <1>2, <1>3

\* A restore that fails empties the slot as an erase does.
LEMMA RestoreSlotFailsKeeps ==
    ASSUME ContextInv, NEW s \in Slots, RestoreSlotFails(s)
    PROVE  ContextInv'
<1>. DEFINE E == doubt[s] \cup LosesSystem
            k == SeqRm(kv, s + 1, -1, -1)
<1>1. /\ pc = "tasks" /\ Available(slots[s])
      /\ sys' = sys /\ batch' = batch /\ work' = work /\ pc' = pc /\ file' = file
      /\ slots' = [slots EXCEPT ![s] = Told(slots[s], <<>>)]
      /\ doubt' = [doubt EXCEPT ![s] = E]
      /\ scene' = [scene EXCEPT !.actions = scene.actions - 1]
    BY DEF RestoreSlotFails, Action, Task, Told
<1>2. Standing(kv, sys, slots, doubt) /\ SceneGood(scene) /\ FilesGood(file)
    BY <1>1, NowStanding
<1>3. SceneGood(scene') /\ FilesGood(file')
    BY <1>1, <1>2, SceneSpent, Zenon
<1>4. PICK f \in file : /\ ~CanPlace(k, Len(f.rows))
                        /\ kv' = [k EXCEPT !.head = HeadAfterMiss(k, Len(f.rows))]
    BY Zenon DEF RestoreSlotFails
<1>5. Len(f.rows) \in Nat \ {0}
    BY <1>2, OneFile
<1>6. /\ Sound(k) /\ Settled(k)
      /\ Unshared(kv) => Unshared(k)
      /\ \A t \in Slots : t # s => Held(k, t) = Held(kv, t)
      /\ Held(k, s) = {}
    BY <1>2, AllRemoved DEF Standing
<1>. DEFINE n == Len(f.rows)
            h == HeadAfterMiss(k, n)
            r == [k EXCEPT !.head = h]
<1>. HIDE DEF k
<1>7. Sound(r) /\ SameCells(k, r) /\ Settled(r) /\ kv' = r
    <2>1. h \in Int
        BY <1>4, <1>5, <1>6, MissedHead
    <2>. HIDE DEF h
    <2>2. Sound([k EXCEPT !.head = h]) /\ SameCells(k, [k EXCEPT !.head = h]) /\ Settled([k EXCEPT !.head = h])
        BY <1>6, <2>1, HeadMoved
    <2>. QED
        BY <1>4, <2>2 DEF h
<1>. HIDE DEF r
<1>8. /\ \A t \in Slots : Held(r, t) = Held(k, t)
      /\ Unshared(k) => Unshared(r)
    <2>1. ASSUME NEW t \in Slots
          PROVE  Held(r, t) = Held(k, t)
        <3>1. SameHeld(k, r, t)
            BY <1>7 DEF SameCells, SameHeld
        <3>. QED
            BY <3>1, HeldSame
    <2>2. Unshared(k) => Unshared(r)
        BY <1>7 DEF SameCells, Unshared
    <2>. QED
        BY <2>1, <2>2
<1>9. /\ Sound(kv') /\ Settled(kv') /\ (sys.tokens = <<>> => Unshared(kv'))
      /\ \A t \in Slots : t # s => Held(kv', t) = Held(kv, t)
      /\ Held(kv', s) = {}
    BY <1>2, <1>6, <1>7, <1>8 DEF Standing
<1>10. E \in SUBSET Doubts /\ sys.tokens \in Seq(Tokens)
    BY <1>2 DEF Standing, SysGood, LosesSystem, Doubts
<1>11. /\ "system" \notin E => SystemIn(Held(kv', s), sys.tokens)
       /\ E = {} => TokensIn(Held(kv', s), sys.tokens, <<>>)
                    /\ (sys.tokens = <<>> => TightIn(Held(kv', s)))
    BY <1>9, <1>10, NothingHeld DEF LosesSystem
<1>12. <<>> \in Seq(Tokens)
    OBVIOUS
<1>. HIDE DEF E
<1>. QED
    BY <1>1, <1>3, <1>9, <1>10, <1>11, <1>12, SlotToldKeeps, Zenon

\* The rows of a slot file, put from cell h on for sequence q.
RestoredCache(k, rows, q, h) ==
    PutRows(Place(k, [n \in DOMAIN rows |-> [rows[n] EXCEPT !.seqs = {q}]], h), rows, h)

RestoredAt(k, r, u, q, h) ==
    /\ Sound(r) /\ Settled(r)
    /\ h \in Cells /\ h + Len(u) <= Size
    /\ \A i \in Cells :
        IF h <= i /\ i < h + Len(u)
        THEN /\ k.seq_id[i] = {}
             /\ r.seq_id[i] = {q}
             /\ r.pos[i] = u[i - h + 1].pos
             /\ r.tok[i] = u[i - h + 1].tok
        ELSE /\ r.seq_id[i] = k.seq_id[i]
             /\ r.pos[i] = k.pos[i]
             /\ r.tok[i] = k.tok[i]

\* The rows of a file are put into cells that were empty, for one sequence.
LEMMA RestoredCells ==
    ASSUME NEW k, Sound(k), Settled(k), NEW u \in Seq(RowType), Len(u) \in Nat \ {0},
           \A j \in DOMAIN u : u[j].rot = u[j].pos,
           NEW q \in Seqs, NEW h \in Fits(k, Len(u))
    PROVE  RestoredAt(k, RestoredCache(k, u, q, h), u, q, h)
<1>. DEFINE n  == Len(u)
            in(i) == h <= i /\ i < h + n
            v  == [j \in DOMAIN u |-> [u[j] EXCEPT !.seqs = {q}]]
            np == [i \in Cells |-> IF in(i) THEN v[i - h + 1].pos ELSE k.pos[i]]
            ns == [i \in Cells |-> IF in(i) THEN k.seq_id[i] \cup v[i - h + 1].seqs
                                            ELSE k.seq_id[i]]
            nu == k.used + n
            p  == Place(k, v, h)
            nt == [i \in Cells |-> IF in(i) THEN u[i - h + 1].tok ELSE p.tok[i]]
            nr == [i \in Cells |-> IF in(i) THEN u[i - h + 1].rot ELSE p.rot[i]]
            r  == PutRows(p, u, h)
<1>1. k \in Cache
    BY DEF Sound
<1>2. n \in Nat \ {0} /\ h \in Cells /\ h \in Int /\ h \in Nat /\ h + n <= Size
      /\ DOMAIN u = 1 .. n
    BY LenProperties, SizeAssumption DEF Fits, FitsAt, Cells
<1>3. \A j \in 1 .. n : /\ u[j] \in RowType /\ u[j].pos \in Nat /\ u[j].rot = u[j].pos
                        /\ u[j].tok \in Tokens \cup {NoToken}
                        /\ v[j].pos = u[j].pos /\ v[j].seqs = {q}
                        /\ v[j].pos \in Int /\ u[j].rot \in Int
    <2>1. \A j \in 1 .. n : u[j] \in RowType
        BY ElementOfSeq
    <2>. QED
        BY <1>2, <2>1 DEF RowType
<1>4. Len(v) = n
    <2>1. v = [j \in 1 .. n |-> [u[j] EXCEPT !.seqs = {q}]]
        BY <1>2
    <2>. HIDE DEF n
    <2>. QED
        BY <1>2, <2>1
<1>. HIDE DEF v
<1>5. ASSUME NEW i \in Cells, in(i)
      PROVE  i - h + 1 \in 1 .. n /\ k.seq_id[i] = {}
    <2>1. i \in Nat
        BY SizeAssumption DEF Cells
    <2>2. i - h + 1 \in 1 .. n /\ i \in h .. h + n - 1
        BY <1>2, <1>5, <2>1
    <2>3. Free(k, i)
        BY <2>2 DEF Fits, FitsAt
    <2>4. k.pos[i] \in Int /\ ~(k.pos[i] >= 0)
        BY <1>1, <2>3 DEF Free, Cache
    <2>. QED
        BY <2>2, <2>4 DEF Sound
<1>6. \A i \in Cells : in(i) => /\ v[i - h + 1].pos = u[i - h + 1].pos
                                /\ v[i - h + 1].seqs = {q}
                                /\ u[i - h + 1].pos \in Nat
                                /\ v[i - h + 1].pos \in Int
                                /\ u[i - h + 1].rot \in Int
                                /\ u[i - h + 1].rot = u[i - h + 1].pos
                                /\ u[i - h + 1].tok \in Tokens \cup {NoToken}
                                /\ k.seq_id[i] = {}
    <2>. HIDE DEF in, n
    <2>. QED
        BY <1>3, <1>5
<1>7. np \in [Cells -> Int] /\ ns \in [Cells -> SUBSET Seqs] /\ nu \in Int
    <2>. HIDE DEF in, n
    <2>1. np \in [Cells -> Int]
        <3>1. \A i \in Cells : in(i) => v[i - h + 1].pos \in Int
            BY <1>6
        <3>. QED
            BY <1>1, <3>1 DEF Cache
    <2>2. ns \in [Cells -> SUBSET Seqs]
        BY <1>1, <1>6 DEF Cache
    <2>3. nu \in Int
        BY <1>1, <1>2 DEF Cache
    <2>. QED
        BY <2>1, <2>2, <2>3
<1>8. p = [k EXCEPT !.pos = np, !.seq_id = ns, !.head = h, !.used = nu]
    BY <1>4 DEF Place
<1>9. /\ p \in Cache
      /\ p.pos = np /\ p.delta = k.delta /\ p.seq_id = ns /\ p.rot = k.rot
      /\ p.tok = k.tok /\ p.head = h /\ p.has_shift = k.has_shift /\ p.used = nu
      /\ p.do_defrag = k.do_defrag
    <2>. HIDE DEF np, ns, nu, p
    <2>. QED
        BY <1>1, <1>2, <1>7, <1>8, Zenon DEF Cache
<1>10. nt \in [Cells -> Tokens \cup {NoToken}] /\ nr \in [Cells -> Int]
    <2>1. \A i \in Cells : in(i) => /\ u[i - h + 1].rot \in Int
                                    /\ u[i - h + 1].tok \in Tokens \cup {NoToken}
        BY <1>6
    <2>2. p.tok \in [Cells -> Tokens \cup {NoToken}] /\ p.rot \in [Cells -> Int]
        BY <1>9 DEF Cache
    <2>. HIDE DEF in, p
    <2>. QED
        BY <2>1, <2>2
<1>11. r = [p EXCEPT !.tok = nt, !.rot = nr]
    BY DEF PutRows
<1>12. \A i \in Cells :
         IF in(i) THEN /\ np[i] = u[i - h + 1].pos /\ nr[i] = np[i] /\ np[i] \in Nat
                       /\ ns[i] = {q}
                       /\ nt[i] = u[i - h + 1].tok
         ELSE np[i] = k.pos[i] /\ nr[i] = k.rot[i] /\ ns[i] = k.seq_id[i] /\ nt[i] = k.tok[i]
    BY <1>6, <1>9
<1>13. /\ r \in Cache
       /\ r.pos = np /\ r.delta = k.delta /\ r.seq_id = ns /\ r.rot = nr /\ r.tok = nt
       /\ r.has_shift = k.has_shift /\ r.do_defrag = k.do_defrag
    <2>. HIDE DEF np, ns, nu, nt, nr, p, r
    <2>. QED
        BY <1>9, <1>10, <1>11, Zenon DEF Cache
<1>. HIDE DEF np, ns, nu, nt, nr, p, r
<1>14. ASSUME NEW i \in Cells
       PROVE  r.pos[i] >= 0 <=> r.seq_id[i] # {}
    <2>1. CASE in(i)
        <3>1. r.seq_id[i] = {q} /\ r.pos[i] \in Nat
            BY <1>12, <1>13, <2>1
        <3>. QED
            BY <3>1
    <2>2. CASE ~in(i)
        BY <1>12, <1>13, <2>2 DEF Sound
    <2>. QED
        BY <2>1, <2>2
<1>15. ASSUME NEW i \in Cells, r.seq_id[i] # {}
       PROVE  r.rot[i] + r.delta[i] = r.pos[i]
    <2>1. k.delta[i] = 0 /\ np[i] \in Int
        BY <1>7 DEF Settled
    <2>2. CASE in(i)
        BY <1>12, <1>13, <2>1, <2>2
    <2>3. CASE ~in(i)
        BY <1>12, <1>13, <1>15, <2>3 DEF Sound
    <2>. QED
        BY <2>2, <2>3
<1>16. Sound(r) /\ Settled(r)
    BY <1>13, <1>14, <1>15 DEF Sound, Settled
<1>17. \A i \in Cells : in(i) => k.seq_id[i] = {}
    BY <1>5
<1>. HIDE DEF in
<1>18. \A i \in Cells : in(i) <=> h <= i /\ i < h + Len(u)
    BY DEF in
<1>19. RestoredAt(k, r, u, q, h)
    BY <1>2, <1>12, <1>13, <1>16, <1>17, <1>18 DEF RestoredAt
<1>20. r = RestoredCache(k, u, q, h)
    BY DEF r, p, v, RestoredCache
<1>. QED
    BY <1>19, <1>20

\* What a slot that had nothing holds after a restore, and what the others hold.
LEMMA RestoredHeld ==
    ASSUME NEW k, NEW r, NEW u \in Seq(RowType), Len(u) \in Nat, NEW s \in Slots, NEW h,
           RestoredAt(k, r, u, s + 1, h), Held(k, s) = {}
    PROVE  /\ Unshared(k) => Unshared(r)
           /\ \A t \in Slots : t # s => Held(r, t) = Held(k, t)
           /\ Carried({RowItem(u, n) : n \in DOMAIN u}, Held(r, s))
<1>. DEFINE in(i) == h <= i /\ i < h + Len(u)
            C == {RowItem(u, n) : n \in DOMAIN u}
<1>1. /\ h \in Cells /\ h + Len(u) <= Size
      /\ \A i \in Cells :
            IF in(i) THEN /\ k.seq_id[i] = {}
                          /\ r.seq_id[i] = {s + 1}
                          /\ r.pos[i] = u[i - h + 1].pos
                          /\ r.tok[i] = u[i - h + 1].tok
            ELSE r.seq_id[i] = k.seq_id[i] /\ r.pos[i] = k.pos[i] /\ r.tok[i] = k.tok[i]
    BY DEF RestoredAt
<1>2. Unshared(k) => Unshared(r)
    <2>. HIDE DEF in
    <2>. QED
        BY <1>1 DEF Unshared
<1>3. ASSUME NEW t \in Slots, t # s
      PROVE  Held(r, t) = Held(k, t)
    <2>. HIDE DEF in
    <2>1. t + 1 # s + 1
        BY <1>3, SlotFacts
    <2>2. SameHeld(k, r, t)
        BY <1>1, <2>1 DEF SameHeld
    <2>. QED
        BY <2>2, HeldSame
<1>4. DOMAIN u = 1 .. Len(u)
    BY LenProperties
<1>. DEFINE g == [e \in C |-> CellItem(r, h + e.at - 1)]
<1>5. ASSUME NEW n \in 1 .. Len(u)
      PROVE  /\ h + n - 1 \in Cells /\ in(h + n - 1)
             /\ r.pos[h + n - 1] = u[n].pos /\ r.tok[h + n - 1] = u[n].tok
             /\ s + 1 \in r.seq_id[h + n - 1]
    <2>1. h \in Nat /\ n \in Nat
        BY <1>1, SizeAssumption DEF Cells
    <2>2. h + n - 1 \in Cells /\ in(h + n - 1) /\ (h + n - 1) - h + 1 = n
        BY <1>1, <2>1, SizeAssumption DEF Cells
    <2>. DEFINE i == h + n - 1
    <2>3. r.seq_id[i] = {s + 1} /\ r.pos[i] = u[i - h + 1].pos /\ r.tok[i] = u[i - h + 1].tok
        <3>1. i \in Cells /\ in(i)
            BY <2>2
        <3>. HIDE DEF i, in
        <3>. QED
            BY <1>1, <3>1
    <2>. QED
        BY <2>2, <2>3
<1>6. ASSUME NEW e \in C
      PROVE  \E n \in 1 .. Len(u) :
                /\ e = RowItem(u, n) /\ e.at = n
                /\ g[e] = CellItem(r, h + n - 1) /\ g[e].at = h + n - 1
                /\ g[e].pos = e.pos /\ g[e].tok = e.tok /\ g[e] \in Held(r, s)
    <2>1. PICK n \in 1 .. Len(u) : e = RowItem(u, n)
        BY <1>4
    <2>2. e.at = n /\ e.pos = u[n].pos /\ e.tok = u[n].tok
        BY <2>1 DEF RowItem
    <2>3. g[e] = CellItem(r, h + n - 1)
        BY <2>2
    <2>4. g[e] \in Held(r, s)
        BY <1>5, <2>3, HeldItems
    <2>5. g[e].at = h + n - 1 /\ g[e].pos = e.pos /\ g[e].tok = e.tok
        BY <1>5, <2>2, <2>3 DEF CellItem
    <2>. QED
        BY <2>1, <2>2, <2>3, <2>4, <2>5
<1>7. ASSUME NEW d \in Held(r, s)
      PROVE  \E e \in C : g[e] = d
    <2>1. PICK i \in Cells : s + 1 \in r.seq_id[i] /\ d = CellItem(r, i)
        BY HeldItems
    <2>2. in(i)
        <3>1. SUFFICES ASSUME ~in(i)
                       PROVE  FALSE
            OBVIOUS
        <3>2. s + 1 \in k.seq_id[i]
            <4>. HIDE DEF in
            <4>. QED
                BY <1>1, <2>1, <3>1
        <3>3. CellItem(k, i) \in Held(k, s)
            BY <3>2, HeldItems, Zenon
        <3>. QED
            BY <3>3
    <2>3. h \in Nat /\ i \in Nat
        BY <1>1, SizeAssumption DEF Cells
    <2>4. i - h + 1 \in 1 .. Len(u) /\ h + (i - h + 1) - 1 = i
        BY <2>2, <2>3
    <2>5. PICK n \in 1 .. Len(u) : h + n - 1 = i
        BY <2>4
    <2>6. RowItem(u, n) \in C
        BY <1>4
    <2>7. RowItem(u, n).at = n
        BY DEF RowItem
    <2>8. g[RowItem(u, n)] = CellItem(r, i)
        BY <2>5, <2>6, <2>7
    <2>. QED
        BY <2>1, <2>6, <2>8
<1>8. g \in [C -> Held(r, s)]
    BY <1>6, Zenon
<1>9. ASSUME NEW e \in C, NEW x \in C, g[e] = g[x]
      PROVE  e = x
    <2>1. PICK n \in 1 .. Len(u) : e = RowItem(u, n) /\ g[e].at = h + n - 1
        BY <1>6, Zenon
    <2>2. PICK m \in 1 .. Len(u) : x = RowItem(u, m) /\ g[x].at = h + m - 1
        BY <1>6, Zenon
    <2>3. h \in Int
        BY <1>1, SizeAssumption DEF Cells
    <2>4. h + n - 1 = h + m - 1
        BY <1>9, <2>1, <2>2
    <2>5. n = m
        BY <2>3, <2>4
    <2>. QED
        BY <2>1, <2>2, <2>5
<1>10. \A e \in C : g[e].pos = e.pos /\ g[e].tok = e.tok
    BY <1>6, Zenon
<1>. HIDE DEF g, C
<1>11. Carried(C, Held(r, s))
    BY <1>7, <1>8, <1>9, <1>10 DEF Carried
<1>. QED
    BY <1>2, <1>3, <1>11 DEF C

\* What is true of content is true of what it is carried to.
LEMMA CarriedTrue ==
    ASSUME NEW C, NEW D, Carried(C, D), NEW y
    PROVE  /\ SystemIn(C, y) => SystemIn(D, y)
           /\ \A c : TokensIn(C, y, c) => TokensIn(D, y, c)
           /\ TightIn(C) => TightIn(D)
<1>1. /\ \A p, t : Holds(C, p, t) => Holds(D, p, t)
      /\ TightIn(C) => TightIn(D)
    BY CarriedHolds
<1>. QED
    BY <1>1 DEF SystemIn, TokensIn

\* A slot that is restored has what was saved.
LEMMA RestoreSlotKeeps ==
    ASSUME ContextInv, NEW s \in Slots, RestoreSlot(s)
    PROVE  ContextInv'
<1>. DEFINE k == SeqRm(kv, s + 1, -1, -1)
<1>1. /\ pc = "tasks" /\ Available(slots[s])
      /\ sys' = sys /\ batch' = batch /\ work' = work /\ pc' = pc /\ file' = file
      /\ scene' = [scene EXCEPT !.actions = scene.actions - 1]
    BY DEF RestoreSlot, Action, Task
<1>2. PICK f \in file, h \in {FindSlot(k, Len(f.rows)) : f \in file} :
        /\ CanPlace(k, Len(f.rows)) /\ h = FindSlot(k, Len(f.rows))
        /\ kv' = RestoredCache(k, f.rows, s + 1, h)
    BY Zenon DEF RestoreSlot, RestoredCache
<1>3. Standing(kv, sys, slots, doubt) /\ SceneGood(scene) /\ FilesGood(file)
    BY <1>1, NowStanding
<1>4. SceneGood(scene') /\ FilesGood(file')
    BY <1>1, <1>3, SceneSpent, Zenon
<1>5. /\ FileGood(f) /\ file = {f}
      /\ f.rows \in Seq(RowType) /\ Len(f.rows) \in Nat \ {0}
      /\ f.tokens \in Seq(Tokens) /\ f.sys \in Seq(Tokens) /\ f.doubt \in SUBSET Doubts
    BY <1>3, OneFile
<1>. DEFINE E == f.doubt \cup IF f.sys = sys.tokens THEN {} ELSE {"system"}
            c == f.tokens
<1>6. slots' = [slots EXCEPT ![s] = Told(slots[s], c)] /\ doubt' = [doubt EXCEPT ![s] = E]
    <2>1. \E g \in file :
            /\ slots' = [slots EXCEPT ![s].cache_tokens = g.tokens]
            /\ doubt' = [doubt EXCEPT ![s] = g.doubt \cup IF g.sys = sys.tokens THEN {} ELSE {"system"}]
        BY Zenon DEF RestoreSlot
    <2>2. /\ slots' = [slots EXCEPT ![s].cache_tokens = f.tokens]
          /\ doubt' = [doubt EXCEPT ![s] = E]
        BY <1>5, <2>1
    <2>. QED
        BY <2>2 DEF Told
<1>7. /\ Sound(k) /\ Settled(k)
      /\ Unshared(kv) => Unshared(k)
      /\ \A t \in Slots : t # s => Held(k, t) = Held(kv, t)
      /\ Held(k, s) = {}
    BY <1>3, AllRemoved DEF Standing
<1>. DEFINE u == f.rows
            q == s + 1
            r == kv'
<1>8. RestoredAt(k, r, u, q, h)
    <2>1. h \in Fits(k, Len(u))
        BY <1>2, FindSlotFits
    <2>2. \A j \in DOMAIN u : u[j].rot = u[j].pos
        BY <1>5 DEF FileGood
    <2>3. q \in Seqs
        BY SlotFacts
    <2>4. u \in Seq(RowType) /\ Len(u) \in Nat \ {0} /\ r = RestoredCache(k, u, q, h)
        BY <1>2, <1>5
    <2>. HIDE DEF k, u, q, r
    <2>. QED
        BY <1>7, <2>1, <2>2, <2>3, <2>4, RestoredCells
<1>9. /\ Unshared(k) => Unshared(r)
      /\ \A t \in Slots : t # s => Held(r, t) = Held(k, t)
      /\ Carried(FileContent(f), Held(r, s))
    <2>1. u \in Seq(RowType) /\ Len(u) \in Nat
        BY <1>5
    <2>2. RestoredAt(k, r, u, s + 1, h)
        BY <1>8
    <2>. HIDE DEF k, u, r
    <2>3. /\ Unshared(k) => Unshared(r)
          /\ \A t \in Slots : t # s => Held(r, t) = Held(k, t)
          /\ Carried({RowItem(u, n) : n \in DOMAIN u}, Held(r, s))
        BY <1>7, <2>1, <2>2, RestoredHeld, Zenon
    <2>4. FileContent(f) = {RowItem(u, n) : n \in DOMAIN u}
        BY DEF FileContent, u
    <2>. QED
        BY <2>3, <2>4
<1>. DEFINE C == FileContent(f)
            y == sys.tokens
<1>10. /\ "system" \notin E => SystemIn(Held(r, s), y)
       /\ E = {} => TokensIn(Held(r, s), y, c) /\ (y = <<>> => TightIn(Held(r, s)))
    <2>1. "system" \notin E => f.sys = y /\ "system" \notin f.doubt
        OBVIOUS
    <2>2. E = {} => f.sys = y /\ f.doubt = {}
        OBVIOUS
    <2>3. /\ "system" \notin f.doubt => SystemIn(C, f.sys)
          /\ f.doubt = {} => TokensIn(C, f.sys, c) /\ (f.sys = <<>> => TightIn(C))
        BY <1>5 DEF FileGood
    <2>4. /\ SystemIn(C, y) => SystemIn(Held(r, s), y)
          /\ \A b : TokensIn(C, y, b) => TokensIn(Held(r, s), y, b)
          /\ TightIn(C) => TightIn(Held(r, s))
        <3>1. Carried(C, Held(r, s))
            BY <1>9
        <3>. HIDE DEF C, r, y
        <3>. QED
            BY <3>1, CarriedTrue, Zenon
    <2>. HIDE DEF C, r, y, E, c
    <2>. QED
        BY <2>1, <2>2, <2>3, <2>4
<1>11. /\ Sound(kv') /\ Settled(kv') /\ (sys.tokens = <<>> => Unshared(kv'))
       /\ \A t \in Slots : t # s => Held(kv', t) = Held(kv, t)
    <2>1. Sound(r) /\ Settled(r)
        BY <1>8 DEF RestoredAt
    <2>. HIDE DEF k
    <2>. QED
        BY <1>3, <1>7, <1>9, <2>1 DEF Standing
<1>12. E \in SUBSET Doubts /\ c \in Seq(Tokens)
    BY <1>5 DEF Doubts
<1>13. /\ "system" \notin E => SystemIn(Held(kv', s), sys.tokens)
       /\ E = {} => TokensIn(Held(kv', s), sys.tokens, c)
                    /\ (sys.tokens = <<>> => TightIn(Held(kv', s)))
    BY <1>10
<1>. HIDE DEF E, c
<1>. QED
    BY <1>1, <1>4, <1>6, <1>11, <1>12, <1>13, SlotToldKeeps, Zenon

SavedRows(k, I) == [n \in DOMAIN CellsIn(k, I) |-> Row(k, CellsIn(k, I)[n], {})]

SavedAs(k, s, u) ==
    /\ u \in Seq(RowType) /\ u # <<>>
    /\ \A n \in DOMAIN u : u[n].rot = u[n].pos
    /\ Carried(Held(k, s), {RowItem(u, n) : n \in DOMAIN u})

\* The rows saved of a slot are what it holds.
LEMMA SavedHeld ==
    ASSUME NEW k, Sound(k), Settled(k), NEW s \in Slots,
           NEW I, I = {i \in Cells : s + 1 \in k.seq_id[i]}, I # {},
           NEW u, u = SavedRows(k, I)
    PROVE  SavedAs(k, s, u)
<1>. DEFINE at == CellsIn(k, I)
            m == Cardinality(I)
            C == Held(k, s)
            D == {RowItem(u, n) : n \in DOMAIN u}
<1>1. /\ DOMAIN at = 1 .. m /\ m \in Nat
      /\ \A n \in 1 .. m : at[n] \in I
      /\ \A a, b \in 1 .. m : at[a] = at[b] => a = b
      /\ \A i \in I : \E n \in 1 .. m : at[n] = i
    <2>1. I \in SUBSET Cells
        OBVIOUS
    <2>2. /\ DOMAIN at = 1 .. m /\ m \in Nat
          /\ \A n \in 1 .. m : at[n] \in I
        BY <2>1, CellsInside, Zenon
    <2>3. \A a, b \in 1 .. m : at[a] = at[b] => a = b
        BY <2>1, CellsListed
    <2>4. \A i \in I : RankOf(I, i) \in 1 .. m /\ at[RankOf(I, i)] = i
        BY <2>1, CellsListed
    <2>. QED
        BY <2>2, <2>3, <2>4, Zenon
<1>2. k \in Cache /\ I \subseteq Cells
    BY DEF Sound
<1>3. u = [n \in 1 .. m |-> Row(k, at[n], {})]
    BY <1>1 DEF SavedRows
<1>4. ASSUME NEW n \in 1 .. m
      PROVE  /\ at[n] \in Cells /\ s + 1 \in k.seq_id[at[n]]
             /\ u[n] \in RowType /\ u[n].rot = u[n].pos
             /\ u[n].pos = k.pos[at[n]] /\ u[n].tok = k.tok[at[n]]
    <2>. DEFINE i == at[n]
    <2>1. i \in Cells /\ s + 1 \in k.seq_id[i]
        <3>1. at[n] \in I
            BY <1>1, Zenon
        <3>. HIDE DEF at
        <3>. QED
            BY <3>1
    <2>2. u[n] = Row(k, i, {})
        <3>. HIDE DEF at, m
        <3>. QED
            BY <1>3
    <2>. HIDE DEF i
    <2>3. k.pos[i] >= 0 /\ k.rot[i] + k.delta[i] = k.pos[i] /\ k.delta[i] = 0
        BY <2>1 DEF Sound, Settled
    <2>4. k.pos[i] \in Int /\ k.rot[i] \in Int /\ k.tok[i] \in Tokens \cup {NoToken}
        BY <1>2, <2>1 DEF Cache
    <2>5. k.pos[i] \in Nat /\ k.rot[i] = k.pos[i]
        BY <2>3, <2>4
    <2>6. u[n] = [pos |-> k.pos[i], seqs |-> {}, tok |-> k.tok[i], rot |-> k.rot[i]]
        BY <2>2 DEF Row
    <2>7. /\ u[n] \in RowType /\ u[n].rot = u[n].pos
          /\ u[n].pos = k.pos[i] /\ u[n].tok = k.tok[i]
        <3>. DEFINE p == k.pos[i]
                    t == k.tok[i]
                    o == k.rot[i]
                    e == u[n]
        <3>1. /\ e = [pos |-> p, seqs |-> {}, tok |-> t, rot |-> o]
              /\ p \in Nat /\ o \in Int /\ t \in Tokens \cup {NoToken} /\ o = p
              /\ {} \in SUBSET Seqs
            BY <2>4, <2>5, <2>6
        <3>. HIDE DEF p, t, o, e
        <3>2. e \in RowType /\ e.rot = e.pos /\ e.pos = p /\ e.tok = t
            BY <3>1 DEF RowType
        <3>. QED
            BY <3>2 DEF p, t, e
    <2>. QED
        BY <2>1, <2>7 DEF i
<1>. HIDE DEF at, m
<1>5. u \in Seq(RowType) /\ DOMAIN u = 1 .. m
    BY <1>1, <1>3, <1>4
<1>6. u # <<>>
    <2>1. PICK i \in I : TRUE
        OBVIOUS
    <2>2. PICK n \in 1 .. m : at[n] = i
        BY <1>1
    <2>3. n \in DOMAIN u /\ n \notin DOMAIN <<>>
        BY <1>5, <2>2
    <2>. QED
        BY <2>3
<1>. DEFINE num(i) == CHOOSE n \in 1 .. m : at[n] = i
            g == [e \in C |-> RowItem(u, num(e.at))]
<1>7. ASSUME NEW i \in Cells, s + 1 \in k.seq_id[i]
      PROVE  num(i) \in 1 .. m /\ at[num(i)] = i
    <2>1. i \in I
        BY <1>7
    <2>. QED
        BY <1>1, <2>1
<1>. HIDE DEF num
<1>8. ASSUME NEW e \in C
      PROVE  \E i \in Cells :
                /\ s + 1 \in k.seq_id[i] /\ e = CellItem(k, i) /\ e.at = i
                /\ num(i) \in 1 .. m /\ at[num(i)] = i
                /\ g[e] = RowItem(u, num(i)) /\ g[e].at = num(i)
                /\ g[e].pos = e.pos /\ g[e].tok = e.tok
    <2>1. PICK i \in Cells : s + 1 \in k.seq_id[i] /\ e = CellItem(k, i)
        BY HeldItems
    <2>2. e.at = i /\ e.pos = k.pos[i] /\ e.tok = k.tok[i]
        BY <2>1 DEF CellItem
    <2>3. num(i) \in 1 .. m /\ at[num(i)] = i
        BY <1>7, <2>1
    <2>4. g[e] = RowItem(u, num(i))
        BY <2>2
    <2>5. g[e].at = num(i) /\ g[e].pos = u[num(i)].pos /\ g[e].tok = u[num(i)].tok
        BY <2>4 DEF RowItem
    <2>6. g[e].pos = e.pos /\ g[e].tok = e.tok
        BY <1>4, <2>2, <2>3, <2>5
    <2>. QED
        BY <2>1, <2>2, <2>3, <2>4, <2>5, <2>6, Zenon
<1>9. g \in [C -> D]
    <2>1. ASSUME NEW e \in C
          PROVE  g[e] \in D
        BY <1>5, <1>8, Zenon
    <2>2. g = [e \in C |-> g[e]]
        OBVIOUS
    <2>. HIDE DEF g, D, C
    <2>. QED
        BY <2>1, <2>2
<1>10. ASSUME NEW e \in C, NEW x \in C, g[e] = g[x]
       PROVE  e = x
    <2>1. PICK i \in Cells : e = CellItem(k, i) /\ at[num(i)] = i /\ g[e].at = num(i)
        BY <1>8
    <2>2. PICK j \in Cells : x = CellItem(k, j) /\ at[num(j)] = j /\ g[x].at = num(j)
        BY <1>8
    <2>3. num(i) = num(j)
        BY <1>10, <2>1, <2>2
    <2>4. i = j
        BY <2>1, <2>2, <2>3
    <2>. QED
        BY <2>1, <2>2, <2>4
<1>11. ASSUME NEW d \in D
       PROVE  \E e \in C : g[e] = d
    <2>1. PICK n \in 1 .. m : d = RowItem(u, n)
        BY <1>5, Zenon
    <2>. DEFINE i == at[n]
                e == CellItem(k, i)
    <2>2. i \in Cells /\ s + 1 \in k.seq_id[i]
        BY <1>4
    <2>. HIDE DEF i
    <2>3. e \in C
        BY <2>2, HeldItems
    <2>4. e.at = i
        BY DEF CellItem
    <2>5. num(i) = n
        <3>1. num(i) \in 1 .. m /\ at[num(i)] = i
            BY <1>7, <2>2
        <3>. QED
            BY <1>1, <3>1 DEF i
    <2>6. g[e] = d
        BY <2>1, <2>3, <2>4, <2>5
    <2>. QED
        BY <2>3, <2>6, Zenon
<1>12. \A e \in C : g[e].pos = e.pos /\ g[e].tok = e.tok
    BY <1>8
<1>. HIDE DEF g, C, D
<1>13. Carried(C, D)
    BY <1>9, <1>10, <1>11, <1>12 DEF Carried
<1>14. \A n \in DOMAIN u : u[n].rot = u[n].pos
    BY <1>4, <1>5, Zenon
<1>. QED
    BY <1>5, <1>6, <1>13, <1>14 DEF C, D, SavedAs

\* A slot that is saved: the file says of the rows what the slot said of the cells.
LEMMA SaveSlotKeeps ==
    ASSUME ContextInv, NEW s \in Slots, SaveSlot(s)
    PROVE  ContextInv'
<1>. DEFINE I == OwnCells(s)
            u == SavedRows(kv, I)
            c == slots[s].cache_tokens
            y == sys.tokens
            D == doubt[s]
            f == [rows |-> u, tokens |-> c, sys |-> y, doubt |-> D]
<1>1. /\ pc = "tasks" /\ Available(slots[s]) /\ I # {}
      /\ kv' = kv /\ slots' = slots /\ doubt' = doubt
      /\ sys' = sys /\ batch' = batch /\ work' = work /\ pc' = pc
      /\ scene' = [scene EXCEPT !.actions = scene.actions - 1]
    BY DEF SaveSlot, Action, Task
<1>2. file' = {f}
    BY DEF SaveSlot, SavedRows
<1>3. Standing(kv, sys, slots, doubt) /\ SceneGood(scene)
    BY <1>1, NowStanding
<1>4. /\ u \in Seq(RowType) /\ u # <<>>
      /\ \A n \in DOMAIN u : u[n].rot = u[n].pos
      /\ Carried(Held(kv, s), {RowItem(u, n) : n \in DOMAIN u})
    <2>1. I = {i \in Cells : s + 1 \in kv.seq_id[i]}
        BY DEF OwnCells
    <2>2. u = SavedRows(kv, I) /\ Sound(kv) /\ Settled(kv)
        BY <1>3 DEF Standing
    <2>. HIDE DEF I, u
    <2>3. SavedAs(kv, s, u)
        BY <1>1, <2>1, <2>2, SavedHeld
    <2>. QED
        BY <2>3 DEF SavedAs
<1>5. c \in Seq(Tokens) /\ y \in Seq(Tokens) /\ D \in SUBSET Doubts
    <2>1. slots[s] \in SlotType /\ SysGood(sys) /\ doubt[s] \in SUBSET Doubts
        BY <1>3 DEF Standing
    <2>. QED
        BY <2>1, Zenon DEF SlotType, SysGood
<1>6. /\ "system" \notin D => SystemIn(Held(kv, s), y)
      /\ D = {} => TokensIn(Held(kv, s), y, c) /\ (y = <<>> => TightIn(Held(kv, s)))
    <2>1. SlotStands(kv, sys, slots[s], doubt[s], s)
        BY <1>3 DEF Standing
    <2>. QED
        BY <2>1 DEF SlotStands, Believed
<1>. HIDE DEF I, u, c, y, D
<1>7. f.rows = u /\ f.tokens = c /\ f.sys = y /\ f.doubt = D
    OBVIOUS
<1>8. f \in [rows : Seq(RowType), tokens : Seq(Tokens), sys : Seq(Tokens), doubt : SUBSET Doubts]
    BY <1>4, <1>5
<1>. HIDE DEF f
<1>9. FileGood(f)
    <2>. DEFINE B == FileContent(f)
    <2>1. Carried(Held(kv, s), B)
        BY <1>4, <1>7 DEF FileContent
    <2>2. /\ SystemIn(Held(kv, s), y) => SystemIn(B, y)
          /\ \A b : TokensIn(Held(kv, s), y, b) => TokensIn(B, y, b)
          /\ TightIn(Held(kv, s)) => TightIn(B)
        <3>. HIDE DEF B
        <3>. QED
            BY <2>1, CarriedTrue
    <2>. HIDE DEF B
    <2>3. /\ "system" \notin D => SystemIn(B, y)
          /\ D = {} => TokensIn(B, y, c) /\ (y = <<>> => TightIn(B))
        BY <1>6, <2>2
    <2>. QED
        BY <1>4, <1>7, <1>8, <2>3 DEF FileGood, B
<1>10. SceneGood(scene') /\ FilesGood(file')
    <2>1. FilesGood(file')
        BY <1>2, <1>9 DEF FilesGood
    <2>. QED
        BY <1>1, <1>3, <2>1, SceneSpent, Zenon
<1>11. Standing(kv', sys', slots', doubt')
    BY <1>1, <1>3
<1>. QED
    BY <1>1, <1>10, <1>11, TaskKeeps

-----------------------------------------------------------------------------
(* All steps.                                                              *)

\* The slots at the start.
LEMMA IdleStands ==
    ASSUME NEW y, SysGood(y), y.tokens = <<>>, NEW s \in Slots
    PROVE  SlotStands(InitCache, y, IdleSlot, {}, s) /\ IdleSlot \in SlotType
<1>. DEFINE x == IdleSlot
<1>1. /\ x.state = "IDLE" /\ x.command = "NONE" /\ x.prompt = <<>> /\ x.cache_tokens = <<>>
      /\ x.n_past = 0 /\ x.i_batch = -1
    BY DEF IdleSlot
<1>2. x \in SlotType
    <2>1. <<>> \in Seq(Words) /\ <<>> \in Seq(Tokens) /\ -1 \in Int /\ 0 \in Nat
        OBVIOUS
    <2>. QED
        BY <2>1 DEF SlotType, IdleSlot
<1>. HIDE DEF x
<1>3. ~Generating(x) /\ ~Working(x) /\ ~Busy(x) /\ ~Loading(x)
    BY <1>1 DEF Generating, Working, Busy, Loading, Processing
<1>4. CommandGood(x) /\ PromptGood(x) /\ CacheTokensGood(x)
    BY <1>1, <1>3 DEF CommandGood, PromptGood, CacheTokensGood
<1>5. TurnGood(x, y.tokens, <<>>, 0, s)
    <2>1. -1 >= -1
        OBVIOUS
    <2>. QED
        BY <1>1, <1>3, <2>1 DEF TurnGood
<1>6. SlotGood(x, y.tokens, y.need, <<>>, 0, s)
    <2>1. 0 < NCtx
        BY CtxAssumption
    <2>. QED
        BY <1>1, <1>2, <1>4, <1>5, <2>1 DEF SlotGood
<1>7. Held(InitCache, s) = {}
    BY InitSound DEF Held
<1>8. Believed({}, y.tokens, y.need, x, {})
    <2>1. <<>> \in Seq(Tokens)
        OBVIOUS
    <2>2. /\ TokensIn({}, <<>>, <<>>) /\ TightIn({}) /\ SystemIn({}, <<>>)
        BY <2>1, NothingHeld, Zenon
    <2>. QED
        BY <1>1, <1>3, <2>2 DEF Believed
<1>9. SlotStands(InitCache, y, x, {}, s) /\ x \in SlotType
    BY <1>2, <1>6, <1>7, <1>8 DEF SlotStands
<1>. QED
    BY <1>9 DEF x

\* The initial states satisfy the invariant,
LEMMA ContextBegins ==
    ASSUME Init
    PROVE  ContextInv
<1>1. /\ kv = InitCache /\ scene \in Scenarios
      /\ sys = [ prompt |-> scene.sys, tokens |-> <<>>, need |-> scene.sys # <<>>, clean |-> TRUE ]
      /\ slots = [s \in Slots |-> IdleSlot] /\ batch = <<>> /\ work = [at |-> 0, n |-> NBatch]
      /\ pc = "tasks" /\ file = {} /\ doubt = [s \in Slots |-> {}]
    BY DEF Init
<1>2. scene \in [ sys : Seq(Tokens), requests : SUBSET Requests, tasks : Nat, actions : Nat ]
    BY <1>1, ScenariosAssumption
<1>3. 2 * Len(scene.sys) < NCtx
    BY <1>1, SysPromptsAssumption
<1>4. SysGood(sys) /\ sys.tokens = <<>>
    <2>. DEFINE p == scene.sys
    <2>1. p \in Seq(Tokens) /\ 2 * Len(p) < NCtx
        BY <1>2, <1>3
    <2>. DEFINE b == p # <<>>
    <2>2. /\ sys = [ prompt |-> p, tokens |-> <<>>, need |-> b, clean |-> TRUE ]
          /\ b \in BOOLEAN /\ (~b => p = <<>>) /\ <<>> \in Seq(Tokens)
        BY <1>1
    <2>. HIDE DEF p, b
    <2>3. /\ sys \in [ prompt : Seq(Tokens), tokens : Seq(Tokens), need : BOOLEAN, clean : BOOLEAN ]
          /\ sys.prompt = p /\ sys.tokens = <<>> /\ (~sys.need => p = <<>>)
        BY <2>1, <2>2
    <2>4. 2 * Len(<<>>) < NCtx
        <3>1. Len(<<>>) = 0
            OBVIOUS
        <3>. QED
            BY <3>1, CtxAssumption
    <2>. QED
        BY <2>1, <2>3, <2>4 DEF SysGood
<1>5. Sound(kv) /\ Settled(kv) /\ Unshared(kv)
    <2>1. Sound(kv) /\ \A i \in Cells : kv.seq_id[i] = {}
        BY <1>1, InitSound
    <2>2. Settled(kv)
        BY <1>1 DEF Settled, InitCache
    <2>. QED
        BY <2>1, <2>2 DEF Unshared
<1>6. ASSUME NEW s \in Slots
      PROVE  SlotStands(kv, sys, slots[s], doubt[s], s) /\ slots[s] \in SlotType
    <2>1. SlotStands(InitCache, sys, IdleSlot, {}, s) /\ IdleSlot \in SlotType
        BY <1>4, IdleStands
    <2>. QED
        BY <1>1, <2>1
<1>7. slots \in [Slots -> SlotType] /\ doubt \in [Slots -> SUBSET Doubts]
    BY <1>1, <1>6
<1>8. Standing(kv, sys, slots, doubt)
    BY <1>4, <1>5, <1>6, <1>7 DEF Standing
<1>9. TaskWorld([kv |-> kv, sys |-> sys, slots |-> slots, batch |-> <<>>, doubt |-> doubt])
    BY <1>8, StandingTask
<1>10. WorldGood(World, work.at)
    <2>1. World = [kv |-> kv, sys |-> sys, slots |-> slots, batch |-> <<>>, doubt |-> doubt]
        BY <1>1 DEF World
    <2>2. work.at = 0
        BY <1>1
    <2>. QED
        BY <1>9, <2>1, <2>2 DEF TaskWorld
<1>11. WorkGood
    <2>1. work \in [at : Nat, n : 1 .. NBatch]
        BY <1>1, BatchAssumption
    <2>. QED
        BY <1>1, <1>5, <2>1 DEF WorkGood, Settled
<1>12. SceneGood(scene)
    BY <1>1, <1>2 DEF SceneGood
<1>. QED
    BY <1>1, <1>10, <1>11, <1>12 DEF ContextInv

\* stuttering keeps it,
LEMMA ContextStays ==
    ASSUME ContextInv, UNCHANGED vars
    PROVE  ContextInv'
BY DEF ContextInv, World, WorkGood, vars

\* and so does every step.
LEMMA ContextKept ==
    ASSUME ContextInv, [Next]_vars
    PROVE  ContextInv'
<1>1. CASE \E s \in Slots : \E r \in scene.requests : Launch(s, r)
    BY <1>1, LaunchKeeps
<1>2. CASE \E s \in Slots : Cancel(s)
    BY <1>2, CancelKeeps
<1>3. CASE \E s \in Slots : SaveSlot(s)
    BY <1>3, SaveSlotKeeps
<1>4. CASE \E s \in Slots : RestoreSlot(s)
    BY <1>4, RestoreSlotKeeps
<1>5. CASE \E s \in Slots : RestoreSlotFails(s)
    BY <1>5, RestoreSlotFailsKeeps
<1>6. CASE \E s \in Slots : EraseSlot(s)
    BY <1>6, EraseSlotKeeps
<1>7. CASE UpdateSlots
    BY <1>7, UpdateSlotsKeeps
<1>8. CASE DecodeOk
    BY <1>8, DecodeOkKeeps
<1>9. CASE DecodeRetry
    BY <1>9, DecodeRetryKeeps
<1>10. CASE DecodeFail
    BY <1>10, DecodeFailKeeps
<1>11. CASE UNCHANGED vars
    BY <1>11, ContextStays
<1>. QED
    BY <1>1, <1>2, <1>3, <1>4, <1>5, <1>6, <1>7, <1>8, <1>9, <1>10, <1>11 DEF Next, Over

\* The inductive invariant: in every reachable state the cells of a slot and the
\* entries that wait in the batch are, together, what the slot believes to have.
THEOREM ContextInvariant == Spec => []ContextInv
<1>1. Init => ContextInv
    BY ContextBegins
<1>2. ContextInv /\ [Next]_vars => ContextInv'
    BY ContextKept
<1>. QED
    BY <1>1, <1>2, PTL DEF Spec

-----------------------------------------------------------------------------
(* What follows from the invariant.                                        *)

\* ContextInv implies the invariants that are checked: the types,
LEMMA TypesGood ==
    ASSUME ContextInv
    PROVE  TypeOK
<1>1. WorldType(World) /\ \A s \in Slots : SlotTrue(World, work.at, s)
    BY WorldParts DEF ContextInv
<1>2. doubt \in [Slots -> SUBSET Doubts] /\ slots \in [Slots -> SlotType]
    BY <1>1, WorldFields DEF WorldType
<1>3. ASSUME NEW s \in Slots
      PROVE  /\ slots[s].state \in {"IDLE", "PROCESSING"}
             /\ slots[s].command \in {"NONE", "LOAD_PROMPT", "RELEASE"}
             /\ slots[s].cache_tokens \in Seq(Tokens)
             /\ slots[s].n_past \in Nat
             /\ slots[s].i_batch >= -1
    <2>1. slots[s] \in SlotType
        BY <1>2
    <2>2. slots[s].i_batch >= -1
        BY <1>1, WorldFields DEF SlotTrue, SlotGood, TurnGood
    <2>. QED
        BY <2>1, <2>2, Zenon DEF SlotType
<1>4. work.n \in 1 .. NBatch /\ work.at \in Nat
    BY DEF ContextInv, WorkGood
<1>5. pc = "decode" <=> batch # <<>>
    <2>1. CASE pc # "decode"
        BY <2>1 DEF ContextInv, WorkGood
    <2>2. CASE pc = "decode"
        <3>1. work.at < Len(batch)
            BY <2>2 DEF ContextInv, WorkGood
        <3>2. ASSUME batch = <<>>
              PROVE  FALSE
            <4>1. Len(batch) = 0
                BY <3>2
            <4>. QED
                BY <1>4, <3>1, <4>1
        <3>. QED
            BY <2>2, <3>2
    <2>. QED
        BY <2>1, <2>2
<1>7. pc \in {"tasks", "decode"} \/ \E s \in Slots : slots[s].n_discard \notin 0 .. slots[s].n_past
    BY DEF ContextInv, WorkGood, Unfit
<1>6. Cardinality(file) <= 1
    <2>1. CASE file = {}
        <3>1. Cardinality(file) = 0
            BY <2>1, FS_EmptySet
        <3>. QED
            BY <3>1
    <2>2. CASE \E f \in file : file = {f}
        <3>1. Cardinality(file) = 1
            BY <2>2, FS_Singleton
        <3>. QED
            BY <3>1
    <2>. QED
        BY <2>1, <2>2 DEF ContextInv
<1>. QED
    BY <1>2, <1>3, <1>4, <1>5, <1>6, <1>7, Zenon DEF TypeOK

\* settled rows between two update_slots,
LEMMA SettledRows ==
    ASSUME ContextInv
    PROVE  RowsSettled
<1>1. SUFFICES ASSUME pc = "tasks"
               PROVE  ~kv.has_shift /\ \A i \in UsedCells(kv) : kv.rot[i] = kv.pos[i]
    BY DEF RowsSettled
<1>2. Sound(kv) /\ Settled(kv)
    BY <1>1, NowStanding DEF Standing
<1>3. ASSUME NEW i \in UsedCells(kv)
      PROVE  kv.rot[i] = kv.pos[i]
    <2>1. i \in Cells /\ kv.seq_id[i] # {}
        BY DEF UsedCells, IsEmpty
    <2>2. kv.rot[i] + kv.delta[i] = kv.pos[i] /\ kv.delta[i] = 0
        BY <1>2, <2>1 DEF Sound, Settled
    <2>3. kv.rot[i] \in Int
        BY <1>2, <2>1 DEF Sound, Cache
    <2>. QED
        BY <2>2, <2>3
<1>. QED
    BY <1>2, <1>3 DEF Settled

\* and the logits of each slot at its own entry.
LEMMA OwnLogits ==
    ASSUME ContextInv
    PROVE  LogitsOwn
<1>1. ASSUME NEW s \in Slots
      PROVE  TurnGood(slots[s], sys.tokens, batch, work.at, s)
    BY WorldParts, WorldFields DEF ContextInv, SlotTrue, SlotGood
<1>. QED
    BY <1>1 DEF LogitsOwn, TurnGood, Generating

\* The cells that hold position p of a slot.
LEMMA HoldsCell ==
    ASSUME NEW s \in Slots, NEW p, NEW t, Holds(Held(kv, s), p, t)
    PROVE  \E c \in Cells : AtPos(s, p) = {c} /\ kv.tok[c] = t
<1>1. PICK e \in Held(kv, s) : e.pos = p /\ e.tok = t /\ \A x \in Held(kv, s) : x.pos = p => x = e
    BY DEF Holds
<1>2. PICK c \in Cells : s + 1 \in kv.seq_id[c] /\ e = CellItem(kv, c)
    BY HeldItems
<1>3. kv.pos[c] = p /\ kv.tok[c] = t
    BY <1>1, <1>2 DEF CellItem
<1>4. ASSUME NEW i \in Cells, s + 1 \in kv.seq_id[i], kv.pos[i] = p
      PROVE  i = c
    <2>1. CellItem(kv, i) \in Held(kv, s) /\ CellItem(kv, i).pos = p
        BY <1>4, HeldItems DEF CellItem
    <2>2. CellItem(kv, i) = CellItem(kv, c)
        BY <1>1, <1>2, <2>1
    <2>3. CellItem(kv, i).at = i /\ CellItem(kv, c).at = c
        BY DEF CellItem
    <2>. QED
        BY <2>2, <2>3
<1>5. AtPos(s, p) = {c}
    BY <1>2, <1>3, <1>4 DEF AtPos, OwnCells
<1>. QED
    BY <1>3, <1>5

\* An item that a slot has once is in one cell.
LEMMA OnceCell ==
    ASSUME NEW s \in Slots, NEW p, Once(Held(kv, s), p)
    PROVE  \E c \in Cells : AtPos(s, p) = {c}
<1>1. PICK e \in Held(kv, s) : e.pos = p /\ \A x \in Held(kv, s) : x.pos = p => x = e
    BY DEF Once
<1>2. Holds(Held(kv, s), p, e.tok)
    BY <1>1 DEF Holds
<1>. QED
    BY <1>2, HoldsCell

\* What a slot believes between two update_slots.
LEMMA TasksBelieved ==
    ASSUME ContextInv, Tasks, NEW s \in Slots
    PROVE  /\ Believed(Held(kv, s), sys.tokens, FALSE, slots[s], doubt[s])
           /\ SysGood(sys) /\ slots[s] \in SlotType /\ Sound(kv)
<1>1. pc = "tasks" /\ ~sys.need
    BY DEF Tasks
<1>2. Standing(kv, sys, slots, doubt)
    BY <1>1, NowStanding
<1>3. Believed(Held(kv, s), sys.tokens, sys.need, slots[s], doubt[s])
    BY <1>2 DEF Standing, SlotStands
<1>4. Believed(Held(kv, s), sys.tokens, FALSE, slots[s], doubt[s])
    BY <1>1, <1>3 DEF Believed
<1>. QED
    BY <1>2, <1>4, Zenon DEF Standing

\* The system prompt is there for every slot that is not in doubt,
LEMMA KeptSystem ==
    ASSUME ContextInv
    PROVE  SystemKept
<1>1. SUFFICES ASSUME Tasks, NEW s \in Slots, "system" \notin doubt[s], NEW i \in DOMAIN sys.tokens
               PROVE  \E c \in Cells : AtPos(s, i - 1) = {c} /\ kv.tok[c] = sys.tokens[i]
    BY DEF SystemKept
<1>2. Holds(Held(kv, s), i - 1, sys.tokens[i])
    BY <1>1, TasksBelieved DEF Believed, SystemIn
<1>. QED
    BY <1>2, HoldsCell

\* the tokens of cache_tokens too,
LEMMA TrueCacheTokens ==
    ASSUME ContextInv
    PROVE  CacheTokensTrue
<1>1. SUFFICES ASSUME Tasks, NEW s \in Slots, doubt[s] = {}, NEW i \in DOMAIN slots[s].cache_tokens,
                      slots[s].cache_tokens[i] # Zero
               PROVE  \E c \in Cells :
                        /\ AtPos(s, Len(sys.tokens) + i - 1) = {c}
                        /\ kv.tok[c] = slots[s].cache_tokens[i]
    BY DEF CacheTokensTrue
<1>2. Holds(Held(kv, s), Len(sys.tokens) + i - 1, slots[s].cache_tokens[i])
    BY <1>1, TasksBelieved DEF Believed, TokensIn
<1>. QED
    BY <1>2, HoldsCell

\* and each position up to the last, once.
LEMMA WholeContext ==
    ASSUME ContextInv
    PROVE  ContextWhole
<1>. SUFFICES ASSUME Tasks, NEW s \in Slots, Processing(slots[s]), slots[s].prompt # <<>>, doubt[s] = {},
                     NEW ends, ends = Len(sys.tokens) + slots[s].n_past
              PROVE  /\ \A p \in 0 .. ends - 1 : Cardinality(AtPos(s, p)) = 1
                     /\ Cardinality(OwnCells(s)) = ends
    BY DEF ContextWhole
<1>1. /\ WholeIn(Held(kv, s), ends) /\ SysGood(sys) /\ slots[s] \in SlotType /\ Sound(kv)
    BY TasksBelieved DEF Believed, Working
<1>2. ends \in Nat
    BY <1>1, SizeFacts DEF SlotType
<1>3. ASSUME NEW p \in 0 .. ends - 1
      PROVE  \E c \in Cells : AtPos(s, p) = {c}
    BY <1>1, OnceCell DEF WholeIn
<1>4. \A p \in 0 .. ends - 1 : Cardinality(AtPos(s, p)) = 1
    BY <1>3, FS_Singleton, Zenon
<1>. DEFINE F == [i \in OwnCells(s) |-> kv.pos[i]]
            T == 0 .. ends - 1
<1>5. \A i \in OwnCells(s) : kv.pos[i] \in T
    <2>1. ASSUME NEW i \in OwnCells(s)
          PROVE  kv.pos[i] \in T
        <3>1. CellItem(kv, i) \in Held(kv, s) /\ CellItem(kv, i).pos = kv.pos[i]
            BY HeldItems DEF OwnCells, CellItem
        <3>. QED
            BY <1>1, <3>1 DEF WholeIn
    <2>. QED
        BY <2>1
<1>6. F \in [OwnCells(s) -> T] /\ \A i \in OwnCells(s) : F[i] = kv.pos[i]
    BY <1>5
<1>7. \A i, j \in OwnCells(s) : F[i] = F[j] => i = j
    <2>1. ASSUME NEW i \in OwnCells(s), NEW j \in OwnCells(s), kv.pos[i] = kv.pos[j]
          PROVE  i = j
        <3>1. PICK c \in Cells : AtPos(s, kv.pos[i]) = {c}
            BY <1>3, <1>5
        <3>2. i \in AtPos(s, kv.pos[i]) /\ j \in AtPos(s, kv.pos[i])
            BY <2>1 DEF AtPos
        <3>. QED
            BY <3>1, <3>2
    <2>. QED
        BY <1>6, <2>1
<1>8. \A p \in T : \E i \in OwnCells(s) : F[i] = p
    <2>1. ASSUME NEW p \in T
          PROVE  \E i \in OwnCells(s) : kv.pos[i] = p
        <3>1. PICK c \in Cells : AtPos(s, p) = {c}
            BY <1>3
        <3>. QED
            BY <3>1 DEF AtPos
    <2>. QED
        BY <1>6, <2>1
<1>9. IsFiniteSet(T) /\ Cardinality(T) = ends
    <2>1. 0 \in Int /\ ends - 1 \in Int
        BY <1>2
    <2>2. IsFiniteSet(T) /\ Cardinality(T) = IF 0 > ends - 1 THEN 0 ELSE ends - 1 - 0 + 1
        BY <2>1, FS_Interval, Zenon
    <2>. HIDE DEF T
    <2>. QED
        BY <1>2, <2>2
<1>. HIDE DEF F, T
<1>10. F \in Injection(OwnCells(s), T) /\ F \in Surjection(OwnCells(s), T)
    BY <1>6, <1>7, <1>8, Fun_IsInj, Fun_IsSurj
<1>11. Cardinality(OwnCells(s)) = ends
    BY <1>9, <1>10, FS_Injection
<1>. QED
    BY <1>4, <1>11

-----------------------------------------------------------------------------
(* The cache is large enough.                                              *)

\* One less of something in each of several places.
LEMMA LessTimes ==
    ASSUME NEW a \in Nat \ {0}, NEW b \in Nat \ {0}, NEW c \in Int, a * b <= c
    PROVE  a * (b - 1) < c
<1>1. a * b \in Int /\ a * (b - 1) \in Int
    OBVIOUS
<1>2. a * (b - 1) = a * b - a
    OBVIOUS
<1>. QED
    BY <1>1, <1>2

\* Slots that hold no position twice, and no more than they may, cannot fill the
\* cache.
LEMMA NotCrowded ==
    ASSUME NEW r, AllUsed(r), Unshared(r), \A s \in Slots : TightIn(Held(r, s))
    PROVE  FALSE
<1>. DEFINE own(i) == CHOOSE s \in Slots : r.seq_id[i] = {s + 1}
            P == 0 .. NCtx - 2
            T == Slots \X P
            g == [i \in Cells |-> <<own(i), r.pos[i]>>]
<1>1. ASSUME NEW i \in Cells
      PROVE  /\ own(i) \in Slots /\ r.seq_id[i] = {own(i) + 1}
             /\ r.pos[i] \in P /\ CellItem(r, i) \in Held(r, own(i))
    <2>1. \E s \in Slots : r.seq_id[i] = {s + 1}
        BY DEF AllUsed, Unshared
    <2>2. own(i) \in Slots /\ r.seq_id[i] = {own(i) + 1}
        BY <2>1
    <2>. HIDE DEF own
    <2>3. CellItem(r, i) \in Held(r, own(i))
        BY <2>2, HeldItems
    <2>4. CellItem(r, i).pos = r.pos[i]
        BY DEF CellItem
    <2>5. r.pos[i] \in P
        BY <2>2, <2>3, <2>4 DEF TightIn
    <2>. QED
        BY <2>2, <2>3, <2>5
<1>. HIDE DEF own
<1>2. g \in [Cells -> T]
    <2>. HIDE DEF P
    <2>. QED
        BY <1>1
<1>3. ASSUME NEW i \in Cells, NEW j \in Cells, g[i] = g[j]
      PROVE  i = j
    <2>1. own(i) = own(j) /\ r.pos[i] = r.pos[j]
        BY <1>3
    <2>2. /\ CellItem(r, i).pos = r.pos[i] /\ CellItem(r, i).at = i
          /\ CellItem(r, j).pos = r.pos[j] /\ CellItem(r, j).at = j
        BY DEF CellItem
    <2>3. CellItem(r, i) \in Held(r, own(i)) /\ CellItem(r, j) \in Held(r, own(i)) /\ own(i) \in Slots
        BY <1>1, <2>1
    <2>4. CellItem(r, i) = CellItem(r, j)
        BY <2>1, <2>2, <2>3 DEF TightIn
    <2>. QED
        BY <2>2, <2>4
<1>4. IsFiniteSet(Slots) /\ Cardinality(Slots) = NSlots
    <2>1. NSlots \in Nat \ {0}
        BY SlotsAssumption
    <2>2. 0 \in Int /\ NSlots - 1 \in Int
        BY <2>1
    <2>3. IsFiniteSet(Slots) /\ Cardinality(Slots) = IF 0 > NSlots - 1 THEN 0 ELSE NSlots - 1 - 0 + 1
        BY <2>2, FS_Interval DEF Slots
    <2>. QED
        BY <2>1, <2>3
<1>5. IsFiniteSet(P) /\ Cardinality(P) = NCtx - 1
    <2>1. NCtx \in Nat /\ NCtx > 4
        BY CtxAssumption
    <2>2. 0 \in Int /\ NCtx - 2 \in Int
        BY <2>1
    <2>3. IsFiniteSet(P) /\ Cardinality(P) = IF 0 > NCtx - 2 THEN 0 ELSE NCtx - 2 - 0 + 1
        BY <2>2, FS_Interval
    <2>. HIDE DEF P
    <2>. QED
        BY <2>1, <2>3
<1>6. Cardinality(Cells) = Size
    <2>1. 0 \in Int /\ Size - 1 \in Int
        BY SizeAssumption
    <2>2. Cardinality(Cells) = IF 0 > Size - 1 THEN 0 ELSE Size - 1 - 0 + 1
        BY <2>1, FS_Interval DEF Cells
    <2>. QED
        BY <2>2, SizeAssumption
<1>. HIDE DEF P
<1>7. IsFiniteSet(T) /\ Cardinality(T) = NSlots * (NCtx - 1)
    BY <1>4, <1>5, FS_Product
<1>. HIDE DEF g, T
<1>8. g \in Injection(Cells, T)
    BY <1>2, <1>3, Fun_IsInj
<1>9. Cardinality(Cells) <= Cardinality(T)
    BY <1>7, <1>8, FS_Injection
<1>10. NSlots * (NCtx - 1) < Size
    <2>1. NSlots \in Nat \ {0} /\ NCtx \in Nat \ {0} /\ Size \in Int /\ NSlots * NCtx <= Size
        BY SlotsAssumption, CtxAssumption, SizeAssumption
    <2>. QED
        BY <2>1, LessTimes
<1>11. NSlots * (NCtx - 1) \in Int /\ Size \in Int
    BY SlotsAssumption, CtxAssumption, SizeAssumption
<1>12. Size <= NSlots * (NCtx - 1)
    BY <1>6, <1>7, <1>9
<1>. QED
    BY <1>10, <1>11, <1>12

\* A decode of a single token fails only if a slot is in doubt or there is a system
\* prompt.
LEMMA FullOnlyInDoubt ==
    ASSUME ContextInv, DecodeFail, sys.tokens = <<>>, \A s \in Slots : doubt[s] = {}
    PROVE  FALSE
<1>1. pc = "decode" /\ ~(work.n > 1)
    BY Zenon DEF DecodeFail, CanRetry
<1>2. PICK d : d = Decode(kv, View) /\ ~d.ok
    BY Zenon DEF DecodeFail
<1>3. /\ WorldGood(World, work.at) /\ work.at \in Nat /\ work.n \in Nat \ {0}
    BY <1>1, DecodeWorld
<1>4. /\ PartIs(batch, work.at, work.n, View)
      /\ DecodeMade(kv, View, d, Len(View))
      /\ PartPlaced(World, work.at, View, d.kv, d.placed)
    BY <1>1, <1>2, DecodeView
<1>5. AllUsed(d.kv)
    <2>1. work.n = 1
        BY <1>1, <1>3
    <2>2. Len(View) = 1
        BY <1>4, <2>1 DEF PartIs
    <2>. QED
        BY <1>2, <1>4, <2>2 DEF DecodeMade
<1>. DEFINE w == World
            r == d.kv
            at == work.at
            m == d.placed
            v == View
<1>6. /\ PartPlaced(w, at, v, r, m) /\ WorldGood(w, at) /\ at \in Nat
      /\ w.sys = sys /\ w.slots = slots /\ w.doubt = doubt
    BY <1>3, <1>4, WorldFields
<1>. HIDE DEF w, at, v, m, r
<1>7. Unshared(r)
    BY <1>6, PlacedUnshared
<1>8. ASSUME NEW s \in Slots
      PROVE  TightIn(Held(r, s))
    <2>1. Believed(Content(r, w.batch, at + m, s), w.sys.tokens, w.sys.need, w.slots[s], w.doubt[s])
        BY <1>6, PlacedTrue
    <2>2. TightIn(Content(r, w.batch, at + m, s))
        BY <1>6, <2>1 DEF Believed
    <2>. QED
        BY <2>2 DEF TightIn, Content
<1>9. AllUsed(r)
    BY <1>5 DEF r
<1>. QED
    BY <1>7, <1>8, <1>9, NotCrowded

-----------------------------------------------------------------------------
(* The theorems.                                                           *)

\* The types of slots, batch and cache, and that n_past is never negative.
THEOREM ContextTypes == Spec => []TypeOK
BY ContextInvariant, TypesGood, PTL

\* A slot that is at work and not in doubt has each of its positions once, and no
\* other: after reused prefixes, truncations, context shifts and halved batches.
THEOREM ContextIsWhole == Spec => []ContextWhole
BY ContextInvariant, WholeContext, PTL

\* The tokens in cache_tokens are in the cache, each at its position, unless the slot
\* is in doubt: a later request may rely on them.
THEOREM CacheTokensAreTrue == Spec => []CacheTokensTrue
BY ContextInvariant, TrueCacheTokens, PTL

\* The system prompt's tokens are in the sequence of every slot that is not in doubt
\* of it, whatever other slots do to the cells they share.
THEOREM SystemIsKept == Spec => []SystemKept
BY ContextInvariant, KeptSystem, PTL

\* Between two turns of update_slots no context shift is pending, so that a slot
\* file holds rows that fit their positions.
THEOREM RowsAreSettled == Spec => []RowsSettled
BY ContextInvariant, SettledRows, PTL

\* A slot that generates waits for the logits of an entry of the batch that is its
\* own and has its last position.
THEOREM LogitsAreOwn == Spec => []LogitsOwn
BY ContextInvariant, OwnLogits, PTL

\* As each slot has at most its context, no decode of a single token fails for want
\* of a cell, unless a slot is in doubt or a system prompt takes cells.
THEOREM CacheNeverFull == Spec => NeverFull
<1>1. ContextInv /\ [Next]_vars =>
        [DecodeFail => sys.tokens # <<>> \/ \E s \in Slots : doubt[s] # {}]_vars
    BY FullOnlyInDoubt
<1>. QED
    BY <1>1, ContextInvariant, PTL DEF Spec, NeverFull

=============================================================================
