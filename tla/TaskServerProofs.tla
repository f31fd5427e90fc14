-------------------------- MODULE TaskServerProofs --------------------------
(***************************************************************************)
(* TaskServer for every number of slots and clients and all requests: no   *)
(* work is forgotten, no task is in two places, what a stream receives is  *)
(* in order, and every task has one answer.                                *)
(***************************************************************************)
EXTENDS TaskServer, SequenceTheorems, FiniteSetTheorems, WellFoundedInduction, TLAPS

-----------------------------------------------------------------------------
(* The inductive invariant.                                                *)

Owners == Clients \cup {None}
Pairs  == Clients \X Nat

\* The task ids a client may come to use: its own, and those of subtasks.
AnId == Owners \cup Pairs

Types == {"completion", "cancel", "next response", "metrics", "lora", "slot action"}

Tasks == [type : Types, client : Owners, id : AnId, id_multi : Owners]

\* A task of a completion is one of a client that asked for a completion.
OfItsClient(q) ==
    \A i \in DOMAIN q : q[i].type = "completion" =>
        q[i].client \in Callers /\ IsCompletion(q[i].client)

Fields == {"state", "command", "id_task", "id_multi", "client", "prompt", "n_decoded"}

GoodSlot(r) ==
    /\ DOMAIN r = Fields
    /\ r.state \in {"idle", "processing"}
    /\ r.command \in {"none", "load prompt", "release"}

Free(r) == r.state = "idle" /\ r.command = "none"

SlotShape == DOMAIN slots = Slots /\ \A s \in Slots : GoodSlot(slots[s])

QueueShape ==
    /\ queue_tasks \in Seq(Tasks) /\ queue_tasks_deferred \in Seq(Tasks)
    /\ OfItsClient(queue_tasks) /\ OfItsClient(queue_tasks_deferred)

ClientShape ==
    /\ request \in Requests
    /\ DOMAIN pc = Callers
    /\ posted \in [Callers -> Nat]
    /\ \A c \in Callers : pc[c] \in {"add multitask", "post subtasks"} => IsMulti(c)

\* Completions ask for slots that there are.
SlotsExist ==
    \A r \in Requests : \A c \in DOMAIN r :
        r[c].type = "completion" => r[c].id_slot \in Slots \cup {AnySlot}

\* A task was deferred for a slot that is still busy.
Waiting ==
    SlotsExist /\ queue_tasks_deferred # <<>> => \E s \in Slots : ~Free(slots[s])

\* While something is left to do there is a task to keep the loop going.
Awake ==
    /\ loop = "decode" => queue_tasks # <<>>
    /\ loop = "wait" => queue_tasks # <<>> \/ \A s \in Slots : Free(slots[s])

WorkInv == SlotShape /\ QueueShape /\ ClientShape /\ Waiting /\ Awake

LEMMA WorkInit == Init => WorkInv
<1>. SUFFICES ASSUME Init PROVE WorkInv
    OBVIOUS
<1>1. <<>> \in Seq(Tasks) /\ OfItsClient(<<>>)
    BY DEF OfItsClient
<1>2. SlotShape
    BY DEF Init, IdleSlot, Fields, GoodSlot, SlotShape
<1>. QED
    BY <1>1, <1>2 DEF Init, WorkInv, QueueShape, ClientShape, Waiting, Awake, Callers

-----------------------------------------------------------------------------
(* The queues.                                                             *)

\* What a client asks for.
LEMMA Asked ==
    ASSUME ClientShape, NEW c \in Callers
    PROVE  /\ c \in Clients
           /\ request[c] \in Completion \cup Other
           /\ request[c].type \in Types
           /\ IsMulti(c) => IsCompletion(c)
<1>1. c \in Clients /\ request[c] \in Completion \cup Other
    BY RequestsAssumption DEF ClientShape, Callers
<1>. QED
    BY <1>1 DEF Completion, Other, Types, IsMulti

LEMMA AppendTask ==
    ASSUME NEW q \in Seq(Tasks), OfItsClient(q), NEW t \in Tasks,
           t.type = "completion" => t.client \in Callers /\ IsCompletion(t.client)
    PROVE  /\ Append(q, t) \in Seq(Tasks) /\ OfItsClient(Append(q, t))
           /\ Append(q, t) # <<>>
<1>1. /\ Append(q, t) \in Seq(Tasks) /\ Append(q, t) # <<>>
      /\ Len(Append(q, t)) = Len(q) + 1
      /\ \A i \in 1 .. Len(q) : Append(q, t)[i] = q[i]
      /\ Append(q, t)[Len(q) + 1] = t
    BY AppendProperties
<1>2. DOMAIN q = 1 .. Len(q) /\ Len(q) \in Nat /\ DOMAIN Append(q, t) = 1 .. Len(q) + 1
    BY <1>1, LenProperties
<1>3. ASSUME NEW i \in 1 .. Len(q) + 1, Append(q, t)[i].type = "completion"
      PROVE  Append(q, t)[i].client \in Callers /\ IsCompletion(Append(q, t)[i].client)
    <2>1. CASE i = Len(q) + 1
        BY <1>1, <1>3, <2>1
    <2>2. CASE i \in 1 .. Len(q)
        BY <1>1, <1>2, <1>3, <2>2 DEF OfItsClient
    <2>. QED
        BY <1>2, <2>1, <2>2
<1>. QED
    BY <1>1, <1>2, <1>3 DEF OfItsClient

LEMMA TailTasks ==
    ASSUME NEW q \in Seq(Tasks), OfItsClient(q), q # <<>>
    PROVE  /\ Tail(q) \in Seq(Tasks) /\ OfItsClient(Tail(q))
           /\ Head(q) \in Tasks
           /\ Head(q).type = "completion" =>
                  Head(q).client \in Callers /\ IsCompletion(Head(q).client)
<1>1. /\ Head(q) \in Tasks /\ Tail(q) \in Seq(Tasks)
      /\ Len(Tail(q)) = Len(q) - 1
      /\ \A i \in 1 .. Len(Tail(q)) : Tail(q)[i] = q[i + 1]
    BY HeadTailProperties
<1>2. /\ DOMAIN q = 1 .. Len(q) /\ Len(q) \in Nat \ {0}
      /\ DOMAIN Tail(q) = 1 .. Len(q) - 1 /\ Head(q) = q[1]
    BY <1>1, LenProperties, EmptySeq
<1>3. \A i \in DOMAIN Tail(q) : i + 1 \in DOMAIN q /\ Tail(q)[i] = q[i + 1]
    BY <1>1, <1>2
<1>. QED
    BY <1>1, <1>2, <1>3 DEF OfItsClient

LEMMA ConcatTasks ==
    ASSUME NEW q \in Seq(Tasks), OfItsClient(q), NEW d \in Seq(Tasks), OfItsClient(d)
    PROVE  q \o d \in Seq(Tasks) /\ OfItsClient(q \o d)
<1>1. /\ q \o d \in Seq(Tasks)
      /\ Len(q \o d) = Len(q) + Len(d)
      /\ \A i \in 1 .. Len(q) + Len(d) : (q \o d)[i] = IF i <= Len(q) THEN q[i] ELSE d[i - Len(q)]
    BY ConcatProperties
<1>2. /\ DOMAIN q = 1 .. Len(q) /\ Len(q) \in Nat
      /\ DOMAIN d = 1 .. Len(d) /\ Len(d) \in Nat
      /\ DOMAIN (q \o d) = 1 .. Len(q) + Len(d)
    BY <1>1, LenProperties
<1>3. \A i \in DOMAIN (q \o d) :
          \/ i \in DOMAIN q /\ (q \o d)[i] = q[i]
          \/ i - Len(q) \in DOMAIN d /\ (q \o d)[i] = d[i - Len(q)]
    BY <1>1, <1>2
<1>. QED
    BY <1>1, <1>3 DEF OfItsClient

-----------------------------------------------------------------------------
(* The slots.                                                              *)

LEMMA ReleaseKeeps ==
    ASSUME NEW r, GoodSlot(r)
    PROVE  GoodSlot(Release(r)) /\ (Free(Release(r)) <=> Free(r))
BY DEF GoodSlot, Fields, Release, Free

LEMMA SlotsForKeeps ==
    ASSUME SlotShape, NEW t
    PROVE  /\ DOMAIN SlotsFor(t) = Slots
           /\ \A s \in Slots : /\ GoodSlot(SlotsFor(t)[s])
                               /\ Free(SlotsFor(t)[s]) <=> Free(slots[s])
BY ReleaseKeeps DEF SlotShape, SlotsFor

-----------------------------------------------------------------------------
(* The steps of the main thread.                                           *)

\* A completion or a slot action waits only for a busy slot.
LEMMA WaitsForBusy ==
    ASSUME ClientShape, SlotShape, SlotsExist, NEW t, Waits(t),
           t.type = "completion" => t.client \in Callers /\ IsCompletion(t.client)
    PROVE  \E s \in Slots : ~Free(slots[s])
<1>1. CASE t.type = "completion" /\ ~CanLaunch(t)
    <2>1. request[t.client].id_slot \in Slots \cup {AnySlot}
        BY <1>1 DEF ClientShape, Callers, IsCompletion, SlotsExist
    <2>2. 0 \in Slots
        BY NSlotsAssumption DEF Slots
    <2>3. \E s \in Slots : request[t.client].id_slot \in {AnySlot, s}
        BY <2>1, <2>2
    <2>. QED
        BY <1>1, <2>3 DEF CanLaunch, Available, Free
<1>2. CASE t.type = "slot action" /\ request[t.client].id_slot \in Slots
           /\ ~Available(request[t.client].id_slot)
    BY <1>2 DEF Available, Free
<1>. QED
    BY <1>1, <1>2 DEF Waits

LEMMA ProcessTaskWork ==
    ASSUME WorkInv, ProcessTask
    PROVE  WorkInv'
<1>. DEFINE t == Head(queue_tasks)
<1>1. /\ queue_tasks # <<>> /\ queue_tasks' = Tail(queue_tasks) /\ loop = "tasks"
      /\ loop' = loop /\ request' = request /\ pc' = pc /\ posted' = posted
      /\ (\E s \in Slots : Launch(t, s)) \/ Defer(t) \/ Answer(t) \/ CancelSlot(t) \/ Skip(t)
    BY DEF ProcessTask, clientVars
<1>2. /\ Tail(queue_tasks) \in Seq(Tasks) /\ OfItsClient(Tail(queue_tasks))
      /\ t \in Tasks
      /\ t.type = "completion" => t.client \in Callers /\ IsCompletion(t.client)
    BY <1>1, TailTasks DEF WorkInv, QueueShape
<1>3. ClientShape' /\ Awake'
    BY <1>1 DEF WorkInv, ClientShape, Awake, Callers, IsMulti, IsCompletion
<1>4. ASSUME NEW q, OfItsClient(q)
      PROVE  OfItsClient(q)'
    BY <1>1, <1>4 DEF OfItsClient, Callers, IsCompletion
<1>. HIDE DEF t
<1>5. ASSUME NEW s \in Slots, Launch(t, s)
      PROVE  SlotShape' /\ QueueShape' /\ Waiting'
    <2>1. /\ DOMAIN SlotsFor(t) = Slots
          /\ \A r \in Slots : /\ GoodSlot(SlotsFor(t)[r])
                              /\ Free(SlotsFor(t)[r]) <=> Free(slots[r])
        BY SlotsForKeeps DEF WorkInv
    <2>2. queue_tasks_deferred' = queue_tasks_deferred /\ Free(slots[s])
        BY <1>5 DEF Launch, Available, Free
    <2>3. PICK x : /\ slots' = [SlotsFor(t) EXCEPT ![s] = x]
                   /\ GoodSlot(x)
        <3>1. GoodSlot(Assigned(SlotsFor(t)[s], t))
            BY <2>1 DEF Assigned, GoodSlot, Fields
        <3>2. ASSUME NEW n
              PROVE  GoodSlot([Assigned(SlotsFor(t)[s], t) EXCEPT !.command = "load prompt",
                                                                  !.prompt  = n])
            BY <3>1 DEF GoodSlot, Fields
        <3>. QED
            BY <1>5, <3>1, <3>2 DEF Launch
    <2>4. SlotShape'
        BY <2>1, <2>3 DEF SlotShape
    <2>5. \A r \in Slots : Free(slots[r])' => Free(slots[r])
        BY <2>1, <2>2, <2>3
    <2>6. Waiting'
        BY <2>2, <2>5 DEF WorkInv, Waiting
    <2>. QED
        BY <1>1, <1>2, <1>4, <2>2, <2>4, <2>6 DEF WorkInv, QueueShape
<1>6. CASE Defer(t)
    <2>1. /\ queue_tasks_deferred' = Append(queue_tasks_deferred, t) /\ slots' = slots
          /\ Waits(t)
        BY <1>6 DEF Defer
    <2>2. SlotsExist => \E s \in Slots : ~Free(slots[s])
        BY <1>2, <2>1, WaitsForBusy DEF WorkInv
    <2>3. Append(queue_tasks_deferred, t) \in Seq(Tasks)
          /\ OfItsClient(Append(queue_tasks_deferred, t))
        BY <1>2, AppendTask DEF WorkInv, QueueShape
    <2>. QED
        BY <1>1, <1>2, <1>3, <1>4, <2>1, <2>2, <2>3
           DEF WorkInv, SlotShape, QueueShape, Waiting
<1>7. CASE Answer(t) \/ Skip(t)
    <2>1. queue_tasks_deferred' = queue_tasks_deferred /\ slots' = slots
        BY <1>7 DEF Answer, Skip
    <2>. QED
        BY <1>1, <1>2, <1>3, <1>4, <2>1 DEF WorkInv, SlotShape, QueueShape, Waiting
<1>8. CASE CancelSlot(t)
    <2>1. queue_tasks_deferred' = queue_tasks_deferred
        BY <1>8 DEF CancelSlot
    <2>2. DOMAIN slots' = Slots /\ \A r \in Slots : slots'[r] \in {slots[r], Release(slots[r])}
        BY <1>8 DEF CancelSlot, WorkInv, SlotShape
    <2>3. /\ SlotShape'
          /\ \A r \in Slots : Free(slots'[r]) <=> Free(slots[r])
        BY <2>2, ReleaseKeeps DEF WorkInv, SlotShape
    <2>. QED
        BY <1>1, <1>2, <1>3, <1>4, <2>1, <2>3 DEF WorkInv, QueueShape, Waiting
<1>. QED
    BY <1>1, <1>3, <1>5, <1>6, <1>7, <1>8 DEF WorkInv

\* Releasing makes slots free, and brings the deferred tasks back.
LEMMA ReleasedKeeps ==
    ASSUME WorkInv
    PROVE  /\ DOMAIN Released(slots) = Slots
           /\ \A s \in Slots : /\ GoodSlot(Released(slots)[s])
                               /\ Released(slots)[s].command # "release"
           /\ Requeued.tasks \in Seq(Tasks) /\ OfItsClient(Requeued.tasks)
           /\ Requeued.deferred \in Seq(Tasks) /\ OfItsClient(Requeued.deferred)
           /\ Requeued.deferred # <<>> =>
                  /\ Requeued.deferred = queue_tasks_deferred
                  /\ \A s \in Slots : Released(slots)[s] = slots[s]
<1>1. /\ DOMAIN Released(slots) = Slots
      /\ \A s \in Slots : /\ GoodSlot(Released(slots)[s])
                          /\ Released(slots)[s].command # "release"
                          /\ slots[s].command # "release" => Released(slots)[s] = slots[s]
    BY DEF WorkInv, SlotShape, Released, GoodSlot, Fields
<1>2. CASE \E s \in Slots : slots[s].command = "release"
    <2>1. Requeued.tasks = queue_tasks \o queue_tasks_deferred /\ Requeued.deferred = <<>>
        BY <1>2 DEF Requeued
    <2>2. <<>> \in Seq(Tasks) /\ OfItsClient(<<>>)
        BY DEF OfItsClient
    <2>. QED
        BY <1>1, <2>1, <2>2, ConcatTasks DEF WorkInv, QueueShape
<1>3. CASE ~\E s \in Slots : slots[s].command = "release"
    <2>1. Requeued.tasks = queue_tasks /\ Requeued.deferred = queue_tasks_deferred
        BY <1>3 DEF Requeued
    <2>. QED
        BY <1>1, <1>3, <2>1 DEF WorkInv, QueueShape
<1>. QED
    BY <1>2, <1>3

\* A slot that was busy before its prompt was looked at is busy afterwards.
LEMMA LoadedKeeps ==
    ASSUME NEW ss, NEW s \in Slots, GoodSlot(ss[s])
    PROVE  /\ GoodSlot(Loaded(ss, s))
           /\ Free(Loaded(ss, s)) <=> Free(ss[s])
<1>. DEFINE left == ss[s].prompt - (TokensBefore(ss)[s + 1] - TokensBefore(ss)[s])
<1>1. Visited(ss, s) => ss[s].command = "load prompt"
    BY DEF Visited, Loading
<1>2. \/ Loaded(ss, s) = ss[s]
      \/ Visited(ss, s) /\ Loaded(ss, s) = [ss[s] EXCEPT !.state = "processing", !.command = "release"]
      \/ Visited(ss, s) /\ Loaded(ss, s) = [ss[s] EXCEPT !.state = "processing", !.command = "none",
                                                         !.prompt = 0, !.n_decoded = 0]
      \/ Visited(ss, s) /\ Loaded(ss, s) = [ss[s] EXCEPT !.prompt = left]
    BY DEF Loaded
<1>. HIDE DEF left
<1>. QED
    BY <1>1, <1>2 DEF GoodSlot, Fields, Free

LEMMA NextResponseTask == NextResponse \in Tasks /\ NextResponse.type # "completion"
BY DEF NextResponse, Task, Tasks, Types, AnId, Owners

\* Nothing of the clients changes while the main thread works.
LEMMA ClientsStay ==
    ASSUME ClientShape, request' = request, pc' = pc, posted' = posted
    PROVE  /\ ClientShape'
           /\ \A q : OfItsClient(q) => OfItsClient(q)'
BY DEF ClientShape, OfItsClient, Callers, IsMulti, IsCompletion

LEMMA UpdateIdleWork ==
    ASSUME WorkInv, UpdateIdle
    PROVE  WorkInv'
<1>1. /\ slots' = Released(slots) /\ loop' = "wait"
      /\ queue_tasks' = Requeued.tasks /\ queue_tasks_deferred' = Requeued.deferred
      /\ request' = request /\ pc' = pc /\ posted' = posted
      /\ AllIdle(Released(slots))
    BY DEF UpdateIdle, clientVars
<1>2. ClientShape' /\ \A q : OfItsClient(q) => OfItsClient(q)'
    BY <1>1, ClientsStay DEF WorkInv
<1>3. SlotShape' /\ QueueShape'
    BY <1>1, <1>2, ReleasedKeeps DEF SlotShape, QueueShape
<1>4. Waiting'
    BY <1>1, ReleasedKeeps DEF WorkInv, Waiting
<1>5. Awake'
    BY <1>1 DEF Awake, AllIdle, Free
<1>. QED
    BY <1>2, <1>3, <1>4, <1>5 DEF WorkInv

LEMMA UpdateBusyWork ==
    ASSUME WorkInv, UpdateBusy
    PROVE  WorkInv'
<1>. DEFINE ss == Released(slots)
<1>1. /\ slots' = [s \in Slots |-> Loaded(ss, s)]
      /\ queue_tasks' = Append(Requeued.tasks, NextResponse)
      /\ queue_tasks_deferred' = Requeued.deferred
      /\ request' = request /\ pc' = pc /\ posted' = posted
    BY DEF UpdateBusy, clientVars, KeptGoing
<1>2. ClientShape' /\ \A q : OfItsClient(q) => OfItsClient(q)'
    BY <1>1, ClientsStay DEF WorkInv
<1>3. queue_tasks' # <<>> /\ QueueShape'
    BY <1>1, <1>2, ReleasedKeeps, NextResponseTask, AppendTask DEF QueueShape
<1>4. SlotShape' /\ \A s \in Slots : Free(slots'[s]) <=> Free(ss[s])
    BY <1>1, ReleasedKeeps, LoadedKeeps DEF SlotShape
<1>5. Waiting'
    BY <1>1, <1>4, ReleasedKeeps DEF WorkInv, Waiting
<1>6. Awake'
    BY <1>3 DEF Awake
<1>. QED
    BY <1>2, <1>3, <1>4, <1>5, <1>6 DEF WorkInv

\* The other steps of the main thread leave the queues and never free a slot.
LEMMA DecodeWork ==
    ASSUME WorkInv, TasksDone \/ FinishMultitask \/ MultitasksDone \/ SampleToken
                    \/ StopSlot \/ DecodeFails \/ BatchDone \/ WakeUp
    PROVE  WorkInv'
<1>1. /\ queue_tasks' = queue_tasks /\ queue_tasks_deferred' = queue_tasks_deferred
      /\ request' = request /\ pc' = pc /\ posted' = posted
    BY DEF TasksDone, FinishMultitask, MultitasksDone, SampleToken, StopSlot, DecodeFails,
           BatchDone, WakeUp, queueVars, clientVars
<1>2. ClientShape' /\ QueueShape'
    BY <1>1, ClientsStay DEF WorkInv, QueueShape
<1>3. SlotShape' /\ \A s \in Slots : Free(slots'[s]) => Free(slots[s])
    <2>1. CASE TasksDone \/ FinishMultitask \/ MultitasksDone \/ BatchDone \/ WakeUp
        <3>1. slots' = slots
            BY <2>1 DEF TasksDone, FinishMultitask, MultitasksDone, BatchDone, WakeUp, mainVars
        <3>. QED
            BY <3>1 DEF WorkInv, SlotShape
    <2>2. CASE SampleToken
        <3>1. slots' = [slots EXCEPT ![Current] = [slots[Current] EXCEPT !.n_decoded = @ + 1]]
            BY <2>2 DEF SampleToken
        <3>2. ASSUME NEW r, GoodSlot(r), NEW n
              PROVE  GoodSlot([r EXCEPT !.n_decoded = n])
                     /\ (Free([r EXCEPT !.n_decoded = n]) <=> Free(r))
            BY <3>2 DEF GoodSlot, Fields, Free
        <3>. QED
            BY <3>1, <3>2 DEF WorkInv, SlotShape
    <2>3. CASE StopSlot
        <3>1. slots' = [slots EXCEPT ![Current] = Release(@)]
            BY <2>3 DEF StopSlot
        <3>. QED
            BY <3>1, ReleaseKeeps DEF WorkInv, SlotShape
    <2>4. CASE DecodeFails
        <3>1. slots' = [s \in Slots |->
                          [slots[s] EXCEPT !.state = "processing", !.command = "release"]]
            BY <2>4 DEF DecodeFails
        <3>2. ASSUME NEW r, GoodSlot(r)
              PROVE  GoodSlot([r EXCEPT !.state = "processing", !.command = "release"])
                     /\ ~Free([r EXCEPT !.state = "processing", !.command = "release"])
            BY <3>2 DEF GoodSlot, Fields, Free
        <3>. QED
            BY <3>1, <3>2 DEF WorkInv, SlotShape
    <2>. QED
        BY <2>1, <2>2, <2>3, <2>4
<1>4. Waiting'
    BY <1>1, <1>3 DEF WorkInv, Waiting
<1>5. Awake'
    <2>1. CASE DecodeFails \/ BatchDone
        BY <1>1, <2>1 DEF WorkInv, Awake, DecodeFails, BatchDone
    <2>2. CASE SampleToken \/ StopSlot
        BY <1>1, <2>2 DEF WorkInv, Awake, SampleToken, StopSlot
    <2>3. CASE TasksDone \/ FinishMultitask \/ MultitasksDone \/ WakeUp
        BY <1>1, <2>3 DEF WorkInv, Awake, TasksDone, FinishMultitask, MultitasksDone, WakeUp, mainVars
    <2>. QED
        BY <2>1, <2>2, <2>3
<1>. QED
    BY <1>2, <1>3, <1>4, <1>5 DEF WorkInv

-----------------------------------------------------------------------------
(* The steps of the clients.                                               *)

LEMMA ClientTasks ==
    ASSUME ClientShape, NEW c \in Callers
    PROVE  /\ TaskOf(c) \in Tasks /\ TaskOf(c).client = c
           /\ TaskOf(c).type = "completion" => IsCompletion(c)
           /\ CancelTask(c) \in Tasks /\ CancelTask(c).type # "completion"
           /\ \A n \in Nat : SubTask(c, n) \in Tasks /\ SubTask(c, n).client = c
BY Asked DEF TaskOf, CancelTask, SubTask, Task, Tasks, Types, AnId, Owners, Pairs, IsCompletion

LEMMA ClientWork ==
    ASSUME WorkInv, NEW c \in Callers, Client(c)
    PROVE  WorkInv'
<1>1. /\ slots' = slots /\ loop' = loop /\ queue_tasks_deferred' = queue_tasks_deferred
      /\ request' = request
    BY DEF Client, Register, PostTask, AddMultitask, PostSubtask, Recv, BreakEarly, Leave, Cancel,
           mainVars, queueVars
<1>2. DOMAIN pc' = Callers /\ DOMAIN pc = Callers /\ Callers' = Callers
    BY <1>1 DEF Client, Register, PostTask, AddMultitask, PostSubtask, Recv, BreakEarly, Leave,
                Cancel, At, WorkInv, ClientShape, Callers
<1>3. posted' \in [Callers -> Nat] /\ posted[c] + 1 \in Nat
    <2>0. posted \in [Callers -> Nat]
        BY DEF WorkInv, ClientShape
    <2>1. posted[c] \in Nat
        BY <2>0
    <2>2. posted' = posted \/ posted' = [posted EXCEPT ![c] = posted[c] + 1]
        BY DEF Client, Register, PostTask, AddMultitask, PostSubtask, Recv, BreakEarly, Leave, Cancel
    <2>. QED
        BY <2>0, <2>1, <2>2
<1>4. \A d \in Callers : pc'[d] \in {"add multitask", "post subtasks"} => IsMulti(d)
    <2>1. \A d \in Callers : d # c => pc'[d] = pc[d]
        BY <1>2 DEF Client, Register, PostTask, AddMultitask, PostSubtask, Recv, BreakEarly, Leave,
                    Cancel, At
    <2>2. pc'[c] \in {"add multitask", "post subtasks"} =>
              IsMulti(c) \/ pc[c] \in {"add multitask", "post subtasks"}
        BY <1>2 DEF Client, Register, PostTask, AddMultitask, PostSubtask, Recv, BreakEarly, Leave,
                    Cancel, At
    <2>. QED
        BY <2>1, <2>2 DEF WorkInv, ClientShape
<1>5. ClientShape'
    BY <1>1, <1>2, <1>3, <1>4 DEF WorkInv, ClientShape, IsMulti, IsCompletion
<1>6. \A q : OfItsClient(q) => OfItsClient(q)'
    BY <1>1 DEF OfItsClient, Callers, IsCompletion
<1>7. \/ queue_tasks' = queue_tasks
      \/ \E t \in Tasks :
            /\ queue_tasks' = Append(queue_tasks, t)
            /\ t.type = "completion" => t.client \in Callers /\ IsCompletion(t.client)
    <2>1. CASE PostTask(c)
        <3>1. queue_tasks' = Append(queue_tasks, TaskOf(c))
            BY <2>1 DEF PostTask, Post
        <3>. QED
            BY <3>1, ClientTasks DEF WorkInv
    <2>2. CASE PostSubtask(c)
        <3>1. queue_tasks' = Append(queue_tasks, SubTask(c, posted[c] + 1)) /\ IsMulti(c)
            BY <2>2 DEF PostSubtask, Post, WorkInv, ClientShape
        <3>2. IsCompletion(c)
            BY <3>1, Asked DEF WorkInv
        <3>. QED
            BY <1>3, <3>1, <3>2, ClientTasks DEF WorkInv
    <2>3. CASE Cancel(c)
        <3>1. queue_tasks' = Append(queue_tasks, CancelTask(c))
            BY <2>3 DEF Cancel, Post
        <3>. QED
            BY <3>1, ClientTasks DEF WorkInv
    <2>4. CASE Register(c) \/ AddMultitask(c) \/ Recv(c) \/ BreakEarly(c) \/ Leave(c)
        BY <2>4 DEF Register, AddMultitask, Recv, BreakEarly, Leave, queueVars
    <2>. QED
        BY <2>1, <2>2, <2>3, <2>4 DEF Client
<1>8. QueueShape' /\ (queue_tasks' # <<>> \/ queue_tasks' = queue_tasks)
    BY <1>1, <1>6, <1>7, AppendTask DEF WorkInv, QueueShape
<1>9. SlotShape' /\ Waiting' /\ Awake'
    BY <1>1, <1>8 DEF WorkInv, SlotShape, Waiting, Awake
<1>. QED
    BY <1>5, <1>8, <1>9 DEF WorkInv

LEMMA WorkStep ==
    ASSUME WorkInv, [Next]_vars
    PROVE  WorkInv'
<1>1. CASE UNCHANGED vars
    <2>1. /\ slots' = slots /\ loop' = loop /\ queue_tasks_deferred' = queue_tasks_deferred
          /\ queue_tasks' = queue_tasks
          /\ request' = request /\ pc' = pc /\ posted' = posted
        BY <1>1 DEF vars, mainVars, queueVars, clientVars
    <2>2. ClientShape' /\ QueueShape'
        BY <2>1, ClientsStay DEF WorkInv, QueueShape
    <2>. QED
        BY <2>1, <2>2 DEF WorkInv, SlotShape, Waiting, Awake
<1>2. CASE MainLoop
    BY <1>2, ProcessTaskWork, UpdateIdleWork, UpdateBusyWork, DecodeWork DEF MainLoop
<1>3. ASSUME NEW c \in Callers, Client(c)
      PROVE  WorkInv'
    BY <1>3, ClientWork
<1>. QED
    BY <1>1, <1>2, <1>3 DEF Next

\* While the server sleeps every slot is available and no task is deferred, as long
\* as completions ask for slots that there are.
THEOREM NothingForgotten ==
    ASSUME SlotsExist
    PROVE  Spec => []NoForgottenWork
<1>1. WorkInv => NoForgottenWork
    BY DEF WorkInv, Waiting, Awake, NoForgottenWork, AllIdle, Free
<1>. QED
    BY <1>1, WorkInit, WorkStep, PTL DEF Spec

-----------------------------------------------------------------------------
(* A task is in one place.                                                 *)

RealIds == AnId \ {None}

\* The client has posted the task with this id.
Known(x) ==
    \/ x \in Callers /\ pc[x] \notin {"start", "post"}
    \/ \E c \in Callers, n \in Nat : x = <<c, n>> /\ n <= posted[c]

Absent(q, x) == \A i \in DOMAIN q : q[i].id # x
Once(q) == \A i, j \in DOMAIN q : q[i].id = q[j].id /\ q[i].id # None => i = j

Works(r) ==
    \/ r.state = "idle" /\ r.command = "load prompt"
    \/ r.state = "processing" /\ r.command = "none"

AbsentSlots(ss, x) == \A s \in Slots : Works(ss[s]) => ss[s].id_task # x
OnceSlots(ss) ==
    \A r, s \in Slots :
        Works(ss[r]) /\ Works(ss[s]) /\ ss[r].id_task = ss[s].id_task
        /\ ss[r].id_task # None => r = s

Nowhere(q, d, ss, x) == Absent(q, x) /\ Absent(d, x) /\ AbsentSlots(ss, x)

Lone(q, d, ss, x) ==
    /\ Absent(q, x) \/ Absent(d, x)
    /\ AbsentSlots(ss, x) \/ (Absent(q, x) /\ Absent(d, x))

Settled(q, d, ss) ==
    /\ Once(q) /\ Once(d) /\ OnceSlots(ss)
    /\ \A x \in RealIds : Lone(q, d, ss, x)

PlaceInv ==
    /\ Settled(queue_tasks, queue_tasks_deferred, slots)
    /\ \A x \in RealIds : Known(x) \/ Nowhere(queue_tasks, queue_tasks_deferred, slots, x)

LEMMA PlaceInit == Init => PlaceInv
<1>. SUFFICES ASSUME Init PROVE PlaceInv
    OBVIOUS
<1>1. Once(<<>>) /\ \A x : Absent(<<>>, x)
    BY DEF Once, Absent
<1>2. OnceSlots(slots) /\ \A x : AbsentSlots(slots, x)
    BY DEF Init, IdleSlot, OnceSlots, AbsentSlots, Works
<1>. QED
    BY <1>1, <1>2 DEF Init, PlaceInv, Settled, Lone, Nowhere

LEMMA TailPlaces ==
    ASSUME NEW q \in Seq(Tasks), q # <<>>, Once(q)
    PROVE  /\ Once(Tail(q))
           /\ \A x : Absent(q, x) => Absent(Tail(q), x)
           /\ Head(q).id # None => Absent(Tail(q), Head(q).id)
           /\ ~Absent(q, Head(q).id)
           /\ Head(q) \in Tasks /\ Head(q).id \in AnId
<1>1. /\ Head(q) \in Tasks /\ Tail(q) \in Seq(Tasks)
      /\ Len(Tail(q)) = Len(q) - 1
      /\ \A i \in 1 .. Len(Tail(q)) : Tail(q)[i] = q[i + 1]
    BY HeadTailProperties
<1>2. /\ DOMAIN q = 1 .. Len(q) /\ Len(q) \in Nat \ {0}
      /\ DOMAIN Tail(q) = 1 .. Len(q) - 1 /\ Head(q) = q[1]
    BY <1>1, LenProperties, EmptySeq
<1>3. /\ 1 \in DOMAIN q
      /\ \A i \in DOMAIN Tail(q) : /\ i \in Int /\ i + 1 \in DOMAIN q /\ i + 1 # 1
                                   /\ Tail(q)[i] = q[i + 1]
    BY <1>1, <1>2
<1>0. Head(q).id \in AnId
    BY <1>1 DEF Tasks
<1>4. Once(Tail(q))
    <2>. SUFFICES ASSUME NEW i \in DOMAIN Tail(q), NEW j \in DOMAIN Tail(q),
                         Tail(q)[i].id = Tail(q)[j].id, Tail(q)[i].id # None
                  PROVE  i = j
        BY DEF Once
    <2>1. i + 1 = j + 1
        BY <1>3 DEF Once
    <2>. QED
        BY <1>3, <2>1
<1>. QED
    BY <1>0, <1>1, <1>2, <1>3, <1>4 DEF Once, Absent

LEMMA AppendPlaces ==
    ASSUME NEW q \in Seq(Tasks), NEW t \in Tasks
    PROVE  /\ Once(q) /\ (t.id = None \/ Absent(q, t.id)) => Once(Append(q, t))
           /\ \A x : Absent(q, x) /\ t.id # x => Absent(Append(q, t), x)
<1>1. /\ Append(q, t) \in Seq(Tasks) /\ Len(Append(q, t)) = Len(q) + 1
      /\ \A i \in 1 .. Len(q) : Append(q, t)[i] = q[i]
      /\ Append(q, t)[Len(q) + 1] = t
    BY AppendProperties
<1>2. DOMAIN q = 1 .. Len(q) /\ Len(q) \in Nat /\ DOMAIN Append(q, t) = 1 .. Len(q) + 1
    BY <1>1, LenProperties
<1>3. \A i \in DOMAIN Append(q, t) :
          \/ i \in DOMAIN q /\ Append(q, t)[i] = q[i]
          \/ i = Len(q) + 1 /\ Append(q, t)[i] = t
    BY <1>1, <1>2
<1>. QED
    BY <1>3 DEF Once, Absent

LEMMA ConcatPlaces ==
    ASSUME NEW q \in Seq(Tasks), NEW d \in Seq(Tasks)
    PROVE  /\ Once(q) /\ Once(d) /\ (\A x \in RealIds : Absent(q, x) \/ Absent(d, x))
                  => Once(q \o d)
           /\ \A x : Absent(q, x) /\ Absent(d, x) => Absent(q \o d, x)
<1>1. /\ q \o d \in Seq(Tasks)
      /\ Len(q \o d) = Len(q) + Len(d)
      /\ \A i \in 1 .. Len(q) + Len(d) : (q \o d)[i] = IF i <= Len(q) THEN q[i] ELSE d[i - Len(q)]
    BY ConcatProperties
<1>2. /\ DOMAIN q = 1 .. Len(q) /\ Len(q) \in Nat
      /\ DOMAIN d = 1 .. Len(d) /\ Len(d) \in Nat
      /\ DOMAIN (q \o d) = 1 .. Len(q) + Len(d)
    BY <1>1, LenProperties
<1>3. \A i \in DOMAIN (q \o d) : i \in Int /\
          \/ i \in DOMAIN q /\ (q \o d)[i] = q[i]
          \/ i - Len(q) \in DOMAIN d /\ (q \o d)[i] = d[i - Len(q)]
    BY <1>1, <1>2
<1>4. \A i \in DOMAIN q : q[i].id \in AnId
    <2>1. \A i \in DOMAIN q : q[i] \in Tasks
        BY <1>2, ElementOfSeq
    <2>. QED
        BY <2>1 DEF Tasks
<1>5. ASSUME Once(q), Once(d), \A x \in RealIds : Absent(q, x) \/ Absent(d, x),
             NEW i \in DOMAIN (q \o d), NEW j \in DOMAIN (q \o d),
             (q \o d)[i].id = (q \o d)[j].id, (q \o d)[i].id # None
      PROVE  i = j
    <2>1. CASE i \in DOMAIN q /\ (q \o d)[i] = q[i] /\ j \in DOMAIN q /\ (q \o d)[j] = q[j]
        BY <1>5, <2>1 DEF Once
    <2>2. CASE i - Len(q) \in DOMAIN d /\ (q \o d)[i] = d[i - Len(q)]
               /\ j - Len(q) \in DOMAIN d /\ (q \o d)[j] = d[j - Len(q)]
        <3>1. i - Len(q) = j - Len(q)
            BY <1>5, <2>2 DEF Once
        <3>. QED
            BY <1>2, <1>3, <3>1
    <2>3. CASE i \in DOMAIN q /\ (q \o d)[i] = q[i]
               /\ j - Len(q) \in DOMAIN d /\ (q \o d)[j] = d[j - Len(q)]
        BY <1>4, <1>5, <2>3 DEF Absent, RealIds
    <2>4. CASE j \in DOMAIN q /\ (q \o d)[j] = q[j]
               /\ i - Len(q) \in DOMAIN d /\ (q \o d)[i] = d[i - Len(q)]
        BY <1>4, <1>5, <2>4 DEF Absent, RealIds
    <2>. QED
        BY <1>3, <2>1, <2>2, <2>3, <2>4
<1>6. \A x : Absent(q, x) /\ Absent(d, x) => Absent(q \o d, x)
    BY <1>3 DEF Absent
<1>7. Once(q) /\ Once(d) /\ (\A x \in RealIds : Absent(q, x) \/ Absent(d, x)) => Once(q \o d)
    <2>. SUFFICES ASSUME Once(q), Once(d), \A x \in RealIds : Absent(q, x) \/ Absent(d, x)
                  PROVE  Once(q \o d)
        OBVIOUS
    <2>. QED
        BY <1>5 DEF Once
<1>. QED
    BY <1>6, <1>7

\* Slots that stop, or go on, with what they work for.
LEMMA FewerWork ==
    ASSUME NEW ss, NEW tt,
           \A s \in Slots : Works(tt[s]) => Works(ss[s]) /\ tt[s].id_task = ss[s].id_task
    PROVE  /\ OnceSlots(ss) => OnceSlots(tt)
           /\ \A x : AbsentSlots(ss, x) => AbsentSlots(tt, x)
BY DEF OnceSlots, AbsentSlots

\* A task that gets a slot is in this slot alone.
LEMMA LaunchPlaces ==
    ASSUME WorkInv, PlaceInv, ProcessTask, NEW s \in Slots, Launch(Head(queue_tasks), s)
    PROVE  Settled(queue_tasks', queue_tasks_deferred', slots')
           /\ \A x \in RealIds :
                 Nowhere(queue_tasks, queue_tasks_deferred, slots, x)
                 => Nowhere(queue_tasks', queue_tasks_deferred', slots', x)
<1>. DEFINE t == Head(queue_tasks)
            q == Tail(queue_tasks)
            ss == SlotsFor(t)
<1>1. /\ queue_tasks \in Seq(Tasks) /\ queue_tasks # <<>> /\ Once(queue_tasks)
      /\ queue_tasks' = q
      /\ queue_tasks_deferred' = queue_tasks_deferred
      /\ Available(s)
    BY DEF WorkInv, QueueShape, PlaceInv, Settled, ProcessTask, Launch
<1>2. /\ Once(q) /\ \A x : Absent(queue_tasks, x) => Absent(q, x)
      /\ t.id # None => Absent(q, t.id)
      /\ ~Absent(queue_tasks, t.id) /\ t.id \in AnId
    BY <1>1, TailPlaces
<1>3. /\ DOMAIN ss = Slots
      /\ \A r \in Slots : /\ GoodSlot(ss[r]) /\ ss[r].id_task = slots[r].id_task
                          /\ Works(ss[r]) => Works(slots[r])
                          /\ r = s => ~Works(ss[r])
    <2>1. DOMAIN ss = Slots /\ \A r \in Slots : ss[r] = slots[r] \/ ss[r] = Release(slots[r])
        BY DEF WorkInv, SlotShape, SlotsFor
    <2>2. \A r \in Slots : GoodSlot(slots[r]) /\ GoodSlot(Release(slots[r]))
        BY ReleaseKeeps DEF WorkInv, SlotShape
    <2>3. \A r \in Slots : /\ Release(slots[r]).id_task = slots[r].id_task
                           /\ Works(Release(slots[r])) => Works(slots[r])
        BY <2>2 DEF GoodSlot, Fields, Release, Works
    <2>4. ~Works(slots[s])
        BY <1>1 DEF Available, Works
    <2>. QED
        BY <2>1, <2>2, <2>3, <2>4
<1>. HIDE DEF ss
<1>4. PICK y : /\ slots' = [ss EXCEPT ![s] = y]
               /\ Works(y) => y.id_task = t.id
    <2>1. Assigned(ss[s], t).id_task = t.id /\ ~Works(Assigned(ss[s], t))
        BY <1>3 DEF Assigned, GoodSlot, Fields, Works
    <2>2. ASSUME NEW n
          PROVE  [Assigned(ss[s], t) EXCEPT !.command = "load prompt", !.prompt = n].id_task = t.id
        BY <1>3 DEF Assigned, GoodSlot, Fields
    <2>. QED
        BY <2>1, <2>2 DEF Launch, ss
<1>. HIDE DEF t, q
<1>5. \A r \in Slots : r # s /\ Works(slots'[r]) =>
          Works(slots[r]) /\ slots'[r].id_task = slots[r].id_task
    BY <1>3, <1>4
<1>6. Works(slots'[s]) => slots'[s].id_task = t.id
    BY <1>3, <1>4
<1>7. t.id # None => AbsentSlots(slots, t.id) /\ Absent(queue_tasks_deferred, t.id)
    BY <1>2 DEF PlaceInv, Settled, Lone, RealIds
<1>8. \A x : AbsentSlots(slots, x) /\ x # t.id => AbsentSlots(slots', x)
    BY <1>5, <1>6 DEF AbsentSlots
<1>9. OnceSlots(slots')
    <2>. SUFFICES ASSUME NEW r \in Slots, NEW u \in Slots, Works(slots'[r]), Works(slots'[u]),
                         slots'[r].id_task = slots'[u].id_task, slots'[r].id_task # None
                  PROVE  r = u
        BY DEF OnceSlots
    <2>1. CASE r # s /\ u # s
        BY <1>5, <2>1 DEF PlaceInv, Settled, OnceSlots
    <2>2. CASE r = s /\ u # s
        BY <1>5, <1>6, <1>7, <2>2 DEF AbsentSlots
    <2>3. CASE r # s /\ u = s
        BY <1>5, <1>6, <1>7, <2>3 DEF AbsentSlots
    <2>. QED
        BY <2>1, <2>2, <2>3
<1>10. ASSUME NEW x \in RealIds
       PROVE  /\ Lone(q, queue_tasks_deferred, slots', x)
              /\ Nowhere(queue_tasks, queue_tasks_deferred, slots, x)
                    => Nowhere(q, queue_tasks_deferred, slots', x)
    <2>1. CASE x = t.id
        BY <1>2, <1>7, <2>1 DEF Lone, Nowhere, RealIds
    <2>2. CASE x # t.id
        BY <1>2, <1>8, <2>2 DEF Lone, Nowhere, PlaceInv, Settled
    <2>. QED
        BY <2>1, <2>2
<1>. QED
    BY <1>1, <1>2, <1>9, <1>10 DEF Settled, PlaceInv

\* The other tasks leave the front of the queue for good or are deferred.
LEMMA TakePlaces ==
    ASSUME WorkInv, PlaceInv, ProcessTask, NEW t, t = Head(queue_tasks),
           Defer(t) \/ Answer(t) \/ CancelSlot(t) \/ Skip(t)
    PROVE  Settled(queue_tasks', queue_tasks_deferred', slots')
           /\ \A x \in RealIds :
                 Nowhere(queue_tasks, queue_tasks_deferred, slots, x)
                 => Nowhere(queue_tasks', queue_tasks_deferred', slots', x)
<1>. DEFINE q == Tail(queue_tasks)
            d == queue_tasks_deferred
<1>1. /\ queue_tasks \in Seq(Tasks) /\ queue_tasks # <<>> /\ Once(queue_tasks)
      /\ queue_tasks' = q /\ d \in Seq(Tasks)
    BY DEF WorkInv, QueueShape, PlaceInv, Settled, ProcessTask
<1>2. /\ Once(q) /\ \A x : Absent(queue_tasks, x) => Absent(q, x)
      /\ t.id # None => Absent(q, t.id)
      /\ ~Absent(queue_tasks, t.id) /\ t \in Tasks /\ t.id \in AnId
    BY <1>1, TailPlaces
<1>3. \A s \in Slots : Works(slots'[s]) => Works(slots[s]) /\ slots'[s].id_task = slots[s].id_task
    <2>1. \A s \in Slots : slots'[s] \in {slots[s], Release(slots[s])}
        BY DEF Defer, Answer, CancelSlot, Skip, WorkInv, SlotShape
    <2>2. \A s \in Slots : GoodSlot(slots[s])
        BY DEF WorkInv, SlotShape
    <2>3. \A s \in Slots : /\ Release(slots[s]).id_task = slots[s].id_task
                           /\ Works(Release(slots[s])) => Works(slots[s])
        BY <2>2 DEF GoodSlot, Fields, Release, Works
    <2>. QED
        BY <2>1, <2>3
<1>4. OnceSlots(slots') /\ \A x : AbsentSlots(slots, x) => AbsentSlots(slots', x)
    BY <1>3, FewerWork DEF PlaceInv, Settled
<1>5. d' = d \/ d' = Append(d, t)
    BY DEF Defer, Answer, CancelSlot, Skip
<1>. HIDE DEF q
<1>6. t.id # None => AbsentSlots(slots, t.id) /\ Absent(d, t.id)
    BY <1>2 DEF PlaceInv, Settled, Lone, RealIds
<1>7. /\ Once(d')
      /\ \A x : Absent(d, x) /\ x # t.id => Absent(d', x)
    BY <1>1, <1>2, <1>5, <1>6, AppendPlaces DEF PlaceInv, Settled
<1>8. ASSUME NEW x \in RealIds
      PROVE  /\ Lone(q, d', slots', x)
             /\ Nowhere(queue_tasks, d, slots, x) => Nowhere(q, d', slots', x)
    <2>1. CASE x = t.id
        BY <1>2, <1>4, <1>6, <2>1 DEF Lone, Nowhere, RealIds
    <2>2. CASE x # t.id
        BY <1>2, <1>4, <1>7, <2>2 DEF Lone, Nowhere, PlaceInv, Settled
    <2>. QED
        BY <2>1, <2>2
<1>. QED
    BY <1>1, <1>2, <1>4, <1>7, <1>8 DEF Settled

LEMMA RequeuedPlaces ==
    ASSUME WorkInv, PlaceInv
    PROVE  /\ Once(Requeued.tasks) /\ Once(Requeued.deferred)
           /\ Requeued.tasks \in Seq(Tasks)
           /\ \A x \in RealIds :
                 /\ Absent(Requeued.tasks, x) \/ Absent(Requeued.deferred, x)
                 /\ Absent(queue_tasks, x) /\ Absent(queue_tasks_deferred, x)
                       => Absent(Requeued.tasks, x) /\ Absent(Requeued.deferred, x)
<1>1. /\ queue_tasks \in Seq(Tasks) /\ queue_tasks_deferred \in Seq(Tasks)
      /\ Once(queue_tasks) /\ Once(queue_tasks_deferred)
      /\ \A x \in RealIds : Absent(queue_tasks, x) \/ Absent(queue_tasks_deferred, x)
    BY DEF WorkInv, QueueShape, PlaceInv, Settled, Lone
<1>2. Requeued.tasks \in Seq(Tasks)
    BY ReleasedKeeps
<1>3. CASE \E s \in Slots : slots[s].command = "release"
    <2>1. Requeued.tasks = queue_tasks \o queue_tasks_deferred /\ Requeued.deferred = <<>>
        BY <1>3 DEF Requeued
    <2>2. Once(<<>>) /\ \A x : Absent(<<>>, x)
        BY DEF Once, Absent
    <2>. QED
        BY <1>1, <1>2, <2>1, <2>2, ConcatPlaces
<1>4. CASE ~\E s \in Slots : slots[s].command = "release"
    <2>1. Requeued.tasks = queue_tasks /\ Requeued.deferred = queue_tasks_deferred
        BY <1>4 DEF Requeued
    <2>. QED
        BY <1>1, <1>2, <2>1
<1>. QED
    BY <1>3, <1>4

LEMMA ReleasedWork ==
    ASSUME WorkInv, NEW s \in Slots, Works(Released(slots)[s])
    PROVE  Works(slots[s]) /\ Released(slots)[s].id_task = slots[s].id_task
BY DEF WorkInv, SlotShape, Released, GoodSlot, Fields, Works

LEMMA LoadedWork ==
    ASSUME NEW ss, NEW s \in Slots, GoodSlot(ss[s]), Works(Loaded(ss, s))
    PROVE  Works(ss[s]) /\ Loaded(ss, s).id_task = ss[s].id_task
<1>. DEFINE left == ss[s].prompt - (TokensBefore(ss)[s + 1] - TokensBefore(ss)[s])
<1>1. Visited(ss, s) => ss[s].state = "idle" /\ ss[s].command = "load prompt"
    BY DEF Visited, Loading
<1>2. \/ Loaded(ss, s) = ss[s]
      \/ Visited(ss, s) /\ Loaded(ss, s) = [ss[s] EXCEPT !.state = "processing", !.command = "release"]
      \/ Visited(ss, s) /\ Loaded(ss, s) = [ss[s] EXCEPT !.state = "processing", !.command = "none",
                                                         !.prompt = 0, !.n_decoded = 0]
      \/ Visited(ss, s) /\ Loaded(ss, s) = [ss[s] EXCEPT !.prompt = left]
    BY DEF Loaded
<1>. HIDE DEF left
<1>. QED
    BY <1>1, <1>2 DEF GoodSlot, Fields, Works

LEMMA UpdatePlaces ==
    ASSUME WorkInv, PlaceInv, UpdateIdle \/ UpdateBusy
    PROVE  Settled(queue_tasks', queue_tasks_deferred', slots')
           /\ \A x \in RealIds :
                 Nowhere(queue_tasks, queue_tasks_deferred, slots, x)
                 => Nowhere(queue_tasks', queue_tasks_deferred', slots', x)
<1>. DEFINE q == Requeued.tasks
            d == Requeued.deferred
<1>1. /\ queue_tasks' = q \/ queue_tasks' = Append(q, NextResponse)
      /\ queue_tasks_deferred' = d
    BY DEF UpdateIdle, UpdateBusy, KeptGoing
<1>2. /\ Once(q) /\ Once(d) /\ q \in Seq(Tasks)
      /\ \A x \in RealIds :
            /\ Absent(q, x) \/ Absent(d, x)
            /\ Absent(queue_tasks, x) /\ Absent(queue_tasks_deferred, x) => Absent(q, x) /\ Absent(d, x)
    BY RequeuedPlaces
<1>. HIDE DEF q, d
<1>3. Once(queue_tasks') /\ \A x \in RealIds : Absent(q, x) => Absent(queue_tasks', x)
    <2>1. NextResponse.id = None
        BY DEF NextResponse, Task
    <2>2. /\ Once(Append(q, NextResponse))
          /\ \A x : Absent(q, x) /\ None # x => Absent(Append(q, NextResponse), x)
        BY <1>2, <2>1, NextResponseTask, AppendPlaces
    <2>. QED
        BY <1>1, <1>2, <2>2 DEF RealIds
<1>4. \A s \in Slots : Works(slots'[s]) => Works(slots[s]) /\ slots'[s].id_task = slots[s].id_task
    <2>1. \A s \in Slots : \/ slots'[s] = Released(slots)[s]
                           \/ slots'[s] = Loaded(Released(slots), s)
        BY DEF UpdateIdle, UpdateBusy
    <2>. QED
        BY <2>1, ReleasedWork, LoadedWork, ReleasedKeeps
<1>5. OnceSlots(slots') /\ \A x : AbsentSlots(slots, x) => AbsentSlots(slots', x)
    BY <1>4, FewerWork DEF PlaceInv, Settled
<1>6. ASSUME NEW x \in RealIds
      PROVE  /\ Lone(queue_tasks', d, slots', x)
             /\ Nowhere(queue_tasks, queue_tasks_deferred, slots, x) => Nowhere(queue_tasks', d, slots', x)
    BY <1>2, <1>3, <1>5 DEF Lone, Nowhere, PlaceInv, Settled
<1>. QED
    BY <1>1, <1>2, <1>3, <1>5, <1>6 DEF Settled

LEMMA DecodePlaces ==
    ASSUME WorkInv, PlaceInv,
           TasksDone \/ FinishMultitask \/ MultitasksDone \/ SampleToken
               \/ StopSlot \/ DecodeFails \/ BatchDone \/ WakeUp
    PROVE  Settled(queue_tasks', queue_tasks_deferred', slots')
           /\ \A x \in RealIds :
                 Nowhere(queue_tasks, queue_tasks_deferred, slots, x)
                 => Nowhere(queue_tasks', queue_tasks_deferred', slots', x)
<1>1. queue_tasks' = queue_tasks /\ queue_tasks_deferred' = queue_tasks_deferred
    BY DEF TasksDone, FinishMultitask, MultitasksDone, SampleToken, StopSlot, DecodeFails,
           BatchDone, WakeUp, queueVars
<1>2. DOMAIN slots = Slots /\ \A s \in Slots : GoodSlot(slots[s])
    BY DEF WorkInv, SlotShape
<1>3. \A s \in Slots : Works(slots'[s]) => Works(slots[s]) /\ slots'[s].id_task = slots[s].id_task
    <2>1. CASE TasksDone \/ FinishMultitask \/ MultitasksDone \/ BatchDone \/ WakeUp
        BY <2>1 DEF TasksDone, FinishMultitask, MultitasksDone, BatchDone, WakeUp, mainVars
    <2>2. CASE SampleToken
        <3>1. slots' = [slots EXCEPT ![Current] = [slots[Current] EXCEPT !.n_decoded = @ + 1]]
            BY <2>2 DEF SampleToken
        <3>2. ASSUME NEW r, GoodSlot(r), NEW n
              PROVE  /\ Works([r EXCEPT !.n_decoded = n]) => Works(r)
                     /\ [r EXCEPT !.n_decoded = n].id_task = r.id_task
            BY <3>2 DEF GoodSlot, Fields, Works
        <3>. QED
            BY <1>2, <3>1, <3>2
    <2>3. CASE StopSlot
        <3>1. slots' = [slots EXCEPT ![Current] = Release(@)]
            BY <2>3 DEF StopSlot
        <3>2. ASSUME NEW r, GoodSlot(r)
              PROVE  (Works(Release(r)) => Works(r)) /\ Release(r).id_task = r.id_task
            BY <3>2 DEF GoodSlot, Fields, Works, Release
        <3>. QED
            BY <1>2, <3>1, <3>2
    <2>4. CASE DecodeFails
        <3>1. slots' = [s \in Slots |->
                          [slots[s] EXCEPT !.state = "processing", !.command = "release"]]
            BY <2>4 DEF DecodeFails
        <3>2. ASSUME NEW r, GoodSlot(r)
              PROVE  ~Works([r EXCEPT !.state = "processing", !.command = "release"])
            BY <3>2 DEF GoodSlot, Fields, Works
        <3>. QED
            BY <1>2, <3>1, <3>2
    <2>. QED
        BY <2>1, <2>2, <2>3, <2>4
<1>4. OnceSlots(slots') /\ \A x : AbsentSlots(slots, x) => AbsentSlots(slots', x)
    BY <1>3, FewerWork DEF PlaceInv, Settled
<1>. QED
    BY <1>1, <1>4 DEF PlaceInv, Settled, Lone, Nowhere

\* The main thread puts no task anywhere that was nowhere.
LEMMA MainPlaces ==
    ASSUME WorkInv, PlaceInv, MainLoop
    PROVE  PlaceInv'
<1>1. Settled(queue_tasks', queue_tasks_deferred', slots')
      /\ \A x \in RealIds :
            Nowhere(queue_tasks, queue_tasks_deferred, slots, x)
            => Nowhere(queue_tasks', queue_tasks_deferred', slots', x)
    <2>1. CASE ProcessTask
        <3>1. \/ \E s \in Slots : Launch(Head(queue_tasks), s)
              \/ Defer(Head(queue_tasks)) \/ Answer(Head(queue_tasks))
              \/ CancelSlot(Head(queue_tasks)) \/ Skip(Head(queue_tasks))
            BY <2>1 DEF ProcessTask
        <3>. QED
            BY <2>1, <3>1, LaunchPlaces, TakePlaces
    <2>. QED
        BY <2>1, UpdatePlaces, DecodePlaces DEF MainLoop
<1>2. request' = request /\ pc' = pc /\ posted' = posted
    BY DEF MainLoop, ProcessTask, UpdateIdle, UpdateBusy, TasksDone, FinishMultitask, MultitasksDone,
           SampleToken, StopSlot, DecodeFails, BatchDone, WakeUp, clientVars
<1>3. \A x : Known(x) => Known(x)'
    BY <1>2 DEF Known, Callers
<1>. QED
    BY <1>1, <1>3 DEF PlaceInv

\* What a client posts was nowhere before.
LEMMA ClientPosts ==
    ASSUME WorkInv, NEW c \in Callers, Client(c)
    PROVE  \/ queue_tasks' = queue_tasks
           \/ \E t \in Tasks :
                 /\ queue_tasks' = Append(queue_tasks, t)
                 /\ t.id = None \/ (~Known(t.id) /\ Known(t.id)')
<1>1. request' = request /\ Callers' = Callers
    BY DEF Client, Register, PostTask, AddMultitask, PostSubtask, Recv, BreakEarly, Leave, Cancel,
           Callers
<1>2. c \in Clients /\ c \notin Pairs
    BY Asked, PairsAssumption DEF WorkInv, Pairs
<1>3. CASE PostTask(c)
    <2>1. /\ queue_tasks' = Append(queue_tasks, TaskOf(c))
          /\ pc[c] \in {"start", "post"} /\ pc' \in {[pc EXCEPT ![c] = "recv"], [pc EXCEPT ![c] = "posted"]}
        BY <1>3 DEF PostTask, Post, At
    <2>2. TaskOf(c) \in Tasks /\ TaskOf(c).id = c
        BY ClientTasks DEF WorkInv, TaskOf, Task
    <2>3. \A d \in Callers, n \in Nat : c # <<d, n>>
        BY <1>2, Asked DEF Pairs, WorkInv
    <2>4. ~Known(c)
        BY <2>1, <2>3 DEF Known
    <2>5. pc'[c] \notin {"start", "post"}
        BY <2>1 DEF WorkInv, ClientShape
    <2>6. Known(c)'
        BY <1>1, <2>5 DEF Known
    <2>. QED
        BY <2>1, <2>2, <2>4, <2>6
<1>4. CASE PostSubtask(c)
    <2>1. posted[c] + 1 \in Nat /\ posted \in [Callers -> Nat]
        <3>1. posted \in [Callers -> Nat]
            BY DEF WorkInv, ClientShape
        <3>2. posted[c] \in Nat
            BY <3>1
        <3>. QED
            BY <3>1, <3>2
    <2>2. PICK n \in Nat : n = posted[c] + 1
        BY <2>1
    <2>3. posted'[c] = n /\ queue_tasks' = Append(queue_tasks, SubTask(c, n))
        BY <1>4, <2>1, <2>2 DEF PostSubtask, Post
    <2>4. SubTask(c, n) \in Tasks /\ SubTask(c, n).id = <<c, n>>
        BY ClientTasks DEF WorkInv, SubTask, Task
    <2>5. <<c, n>> \notin Callers
        BY <1>2, Asked, PairsAssumption DEF Pairs, WorkInv
    <2>6. ~(n <= posted[c])
        BY <2>1, <2>2
    <2>7. ~Known(<<c, n>>)
        BY <2>5, <2>6 DEF Known
    <2>8. Known(<<c, n>>)'
        <3>1. n <= posted'[c]
            BY <2>3
        <3>. QED
            BY <1>1, <3>1 DEF Known
    <2>. QED
        BY <2>3, <2>4, <2>7, <2>8
<1>5. CASE Cancel(c)
    <2>1. queue_tasks' = Append(queue_tasks, CancelTask(c))
        BY <1>5 DEF Cancel, Post
    <2>2. CancelTask(c) \in Tasks /\ CancelTask(c).id = None
        BY ClientTasks DEF WorkInv, CancelTask, Task
    <2>. QED
        BY <2>1, <2>2
<1>6. CASE Register(c) \/ AddMultitask(c) \/ Recv(c) \/ BreakEarly(c) \/ Leave(c)
    BY <1>6 DEF Register, AddMultitask, Recv, BreakEarly, Leave, queueVars
<1>. QED
    BY <1>3, <1>4, <1>5, <1>6 DEF Client

\* A task that was posted stays so.
LEMMA KnownStays ==
    ASSUME WorkInv, NEW c \in Callers, Client(c), NEW x, Known(x)
    PROVE  Known(x)'
<1>1. request' = request /\ Callers' = Callers
    BY DEF Client, Register, PostTask, AddMultitask, PostSubtask, Recv, BreakEarly, Leave, Cancel,
           Callers
<1>2. \A d \in Callers : pc[d] \notin {"start", "post"} => pc'[d] \notin {"start", "post"}
    <2>1. DOMAIN pc = Callers
        BY DEF WorkInv, ClientShape
    <2>2. \A d \in Callers : d # c => pc'[d] = pc[d]
        BY <2>1 DEF Client, Register, PostTask, AddMultitask, PostSubtask, Recv, BreakEarly, Leave,
                    Cancel, At
    <2>3. pc[c] \notin {"start", "post"} => pc'[c] \notin {"start", "post"}
        BY <2>1 DEF Client, Register, PostTask, AddMultitask, PostSubtask, Recv, BreakEarly, Leave,
                    Cancel, At
    <2>. QED
        BY <2>2, <2>3
<1>3. \A d \in Callers : posted[d] \in Nat /\ posted'[d] \in Nat /\ posted[d] <= posted'[d]
    <2>1. posted \in [Callers -> Nat]
        BY DEF WorkInv, ClientShape
    <2>2. posted' = posted \/ posted' = [posted EXCEPT ![c] = posted[c] + 1]
        BY DEF Client, Register, PostTask, AddMultitask, PostSubtask, Recv, BreakEarly, Leave, Cancel
    <2>. QED
        BY <2>1, <2>2
<1>4. \A d \in Callers, n \in Nat : n <= posted[d] => n <= posted'[d]
    BY <1>3
<1>. QED
    BY <1>1, <1>2, <1>4 DEF Known

LEMMA ClientPlaces ==
    ASSUME WorkInv, PlaceInv, NEW c \in Callers, Client(c)
    PROVE  PlaceInv'
<1>1. slots' = slots /\ queue_tasks_deferred' = queue_tasks_deferred
    BY DEF Client, Register, PostTask, AddMultitask, PostSubtask, Recv, BreakEarly, Leave, Cancel,
           mainVars, queueVars
<1>2. \A x : Known(x) => Known(x)'
    BY KnownStays
<1>3. CASE queue_tasks' = queue_tasks
    BY <1>1, <1>2, <1>3 DEF PlaceInv
<1>4. ASSUME NEW t \in Tasks, queue_tasks' = Append(queue_tasks, t),
             t.id = None \/ (~Known(t.id) /\ Known(t.id)')
      PROVE  PlaceInv'
    <2>1. t.id \in AnId
        BY DEF Tasks
    <2>2. t.id # None => Nowhere(queue_tasks, queue_tasks_deferred, slots, t.id)
        BY <1>4, <2>1 DEF PlaceInv, RealIds
    <2>3. /\ Once(queue_tasks')
          /\ \A x : Absent(queue_tasks, x) /\ x # t.id => Absent(queue_tasks', x)
        BY <1>4, <2>2, AppendPlaces DEF PlaceInv, Settled, Nowhere, WorkInv, QueueShape
    <2>4. ASSUME NEW x \in RealIds
          PROVE  /\ Lone(queue_tasks', queue_tasks_deferred, slots, x)
                 /\ Known(x)' \/ Nowhere(queue_tasks', queue_tasks_deferred, slots, x)
        <3>1. CASE x = t.id
            BY <1>4, <2>2, <3>1 DEF Lone, Nowhere, RealIds
        <3>2. CASE x # t.id
            BY <1>2, <2>3, <3>2 DEF Lone, Nowhere, PlaceInv, Settled
        <3>. QED
            BY <3>1, <3>2
    <2>. QED
        BY <1>1, <2>3, <2>4 DEF PlaceInv, Settled
<1>. QED
    BY <1>3, <1>4, ClientPosts

LEMMA PlaceStep ==
    ASSUME WorkInv, PlaceInv, [Next]_vars
    PROVE  PlaceInv'
<1>1. CASE UNCHANGED vars
    BY <1>1 DEF vars, mainVars, queueVars, clientVars, PlaceInv, Known, Callers
<1>2. CASE MainLoop
    BY <1>2, MainPlaces
<1>3. ASSUME NEW c \in Callers, Client(c)
      PROVE  PlaceInv'
    BY <1>3, ClientPlaces
<1>. QED
    BY <1>1, <1>2, <1>3 DEF Next

-----------------------------------------------------------------------------
(* Least elements, sequences and loops.                                    *)

LEMMA MinIsLeast ==
    ASSUME NEW S \in SUBSET Nat, S # {}
    PROVE  Min(S) \in S /\ \A y \in S : Min(S) <= y
<1>1. PICK x \in S : \A y \in S : ~(<<y, x>> \in OpToRel(<, Nat))
    BY NatLessThanWellFounded, WFMin
<1>2. \A y \in S : ~(y < x)
    BY <1>1 DEF OpToRel
<1>3. \A y \in S : x <= y
    BY <1>2
<1>. QED
    BY <1>3 DEF Min

LEMMA Appended ==
    ASSUME NEW V, NEW q \in Seq(V), NEW t \in V, NEW r, r = Append(q, t)
    PROVE  /\ r \in Seq(V) /\ DOMAIN q \subseteq DOMAIN r
           /\ DOMAIN q \subseteq Nat /\ DOMAIN r \subseteq Nat
           /\ Len(q) + 1 \in DOMAIN r /\ Len(q) + 1 \notin DOMAIN q /\ r[Len(q) + 1] = t
           /\ \A i \in DOMAIN q : r[i] = q[i] /\ i < Len(q) + 1
           /\ \A i \in DOMAIN r : i \in DOMAIN q \/ i = Len(q) + 1
<1>1. /\ r \in Seq(V) /\ Len(r) = Len(q) + 1
      /\ \A i \in 1 .. Len(q) : r[i] = q[i]
      /\ r[Len(q) + 1] = t
    BY AppendProperties
<1>2. DOMAIN q = 1 .. Len(q) /\ Len(q) \in Nat /\ DOMAIN r = 1 .. Len(q) + 1
    BY <1>1, LenProperties
<1>. QED
    BY <1>1, <1>2

LEMMA RemovedAt ==
    ASSUME NEW V, NEW q \in Seq(V), NEW i \in 1 .. Len(q)
    PROVE  /\ RemoveAt(q, i) \in Seq(V)
           /\ DOMAIN RemoveAt(q, i) = 1 .. Len(q) - 1
           /\ \A j \in 1 .. Len(q) - 1 : RemoveAt(q, i)[j] = IF j < i THEN q[j] ELSE q[j + 1]
<1>. DEFINE a == SubSeq(q, 1, i - 1)
            b == SubSeq(q, i + 1, Len(q))
<1>0. Len(q) \in Nat /\ i \in Nat
    BY LenProperties
<1>1. /\ a \in Seq(V) /\ Len(a) = i - 1
      /\ \A j \in 1 .. i - 1 : a[j] = q[j]
    <2>1. \A j \in 1 .. i - 1 : j \in 1 .. Len(q)
        BY <1>0
    <2>2. 1 \in 1 .. Len(q) + 1 /\ i - 1 \in 1 - 1 .. Len(q)
        BY <1>0
    <2>3. /\ SubSeq(q, 1, i - 1) \in Seq(V)
          /\ Len(SubSeq(q, 1, i - 1)) = IF 1 <= i - 1 THEN i - 1 - 1 + 1 ELSE 0
          /\ \A j \in 1 .. i - 1 - 1 + 1 : SubSeq(q, 1, i - 1)[j] = q[1 + j - 1]
        BY <2>1, <2>2, SubSeqProperties
    <2>. QED
        BY <1>0, <2>3
<1>2. /\ b \in Seq(V) /\ Len(b) = Len(q) - i
      /\ \A j \in 1 .. Len(q) - i : b[j] = q[i + j]
    <2>2. i + 1 \in 1 .. Len(q) + 1 /\ Len(q) \in i + 1 - 1 .. Len(q)
        BY <1>0
    <2>3. /\ SubSeq(q, i + 1, Len(q)) \in Seq(V)
          /\ Len(SubSeq(q, i + 1, Len(q))) = IF i + 1 <= Len(q) THEN Len(q) - (i + 1) + 1 ELSE 0
          /\ \A j \in 1 .. Len(q) - (i + 1) + 1 :
                SubSeq(q, i + 1, Len(q))[j] = q[i + 1 + j - 1]
        BY <2>2, SubSeqProperties
    <2>. QED
        BY <1>0, <2>3
<1>. HIDE DEF a, b
<1>3. /\ a \o b \in Seq(V) /\ Len(a \o b) = Len(q) - 1
      /\ \A j \in 1 .. Len(a) + Len(b) : (a \o b)[j] = IF j <= Len(a) THEN a[j] ELSE b[j - Len(a)]
    <2>1. a \in Seq(V) /\ b \in Seq(V)
        BY <1>1, <1>2
    <2>2. /\ a \o b \in Seq(V) /\ Len(a \o b) = Len(a) + Len(b)
          /\ \A j \in 1 .. Len(a) + Len(b) : (a \o b)[j] = IF j <= Len(a) THEN a[j] ELSE b[j - Len(a)]
        BY <2>1, ConcatProperties
    <2>. QED
        BY <1>0, <1>1, <1>2, <2>2
<1>4. DOMAIN (a \o b) = 1 .. Len(q) - 1
    BY <1>3, LenProperties
<1>5. ASSUME NEW j \in 1 .. Len(q) - 1
      PROVE  (a \o b)[j] = IF j < i THEN q[j] ELSE q[j + 1]
    <2>1. CASE j < i
        BY <1>0, <1>1, <1>2, <1>3, <2>1
    <2>2. CASE ~(j < i)
        <3>1. (a \o b)[j] = b[j - (i - 1)] /\ j - (i - 1) \in 1 .. Len(q) - i
            BY <1>0, <1>1, <1>2, <1>3, <2>2
        <3>2. b[j - (i - 1)] = q[i + (j - (i - 1))]
            BY <1>2, <3>1
        <3>3. i + (j - (i - 1)) = j + 1
            BY <1>0
        <3>. QED
            BY <2>2, <3>1, <3>2, <3>3
    <2>. QED
        BY <2>1, <2>2
<1>6. RemoveAt(q, i) = a \o b
    BY DEF RemoveAt, a, b
<1>. QED
    BY <1>3, <1>4, <1>5, <1>6

\* The values of a loop over the slots, of which turn s takes v to g[s][v].
Turns(g, V) == g \in [1 .. NSlots -> [V -> V]]
Values(f, init, g, V) ==
    /\ f \in [0 .. NSlots -> V]
    /\ f[0] = init
    /\ \A s \in 1 .. NSlots : f[s] = g[s][f[s - 1]]

\* The equation that defines a recursive function has a solution.
LEMMA LoopHasValues ==
    ASSUME NEW V, NEW init \in V, NEW g, Turns(g, V)
    PROVE  \E f : Values(f, init, g, V)
<1>. USE NSlotsAssumption DEF Turns
<1>. DEFINE Ok(m, f) == /\ f \in [0 .. m -> V]
                        /\ f[0] = init
                        /\ \A i \in 1 .. m : f[i] = g[i][f[i - 1]]
            S == {m \in 0 .. NSlots : ~\E f : Ok(m, f)}
<1>1. CASE S = {}
    <2>1. PICK f : Ok(NSlots, f)
        <3>1. NSlots \in 0 .. NSlots
            OBVIOUS
        <3>. HIDE DEF Ok
        <3>2. \A m \in 0 .. NSlots : \E f : Ok(m, f)
            BY <1>1
        <3>. QED
            BY <3>1, <3>2
    <2>. QED
        BY <2>1 DEF Values
<1>2. CASE S # {}
    <2>0. S \in SUBSET Nat /\ S \subseteq 0 .. NSlots
        OBVIOUS
    <2>1. PICK m \in S : \A y \in S : m <= y
        <3>. HIDE DEF S
        <3>. QED
            BY <1>2, <2>0, MinIsLeast
    <2>2. CASE m = 0
        <3>1. Ok(0, [i \in 0 .. 0 |-> init])
            OBVIOUS
        <3>. QED
            BY <2>2, <3>1
    <2>3. CASE m # 0
        <3>1. m \in Nat /\ m - 1 \in 0 .. NSlots /\ m - 1 \notin S /\ m \in 1 .. NSlots
            <4>. HIDE DEF S
            <4>. QED
                BY <2>0, <2>1, <2>3
        <3>2. PICK f : Ok(m - 1, f)
            BY <3>1
        <3>. DEFINE h == [i \in 0 .. m |-> IF i = m THEN g[m][f[m - 1]] ELSE f[i]]
        <3>3. f[m - 1] \in V /\ g[m][f[m - 1]] \in V
            BY <3>1, <3>2
        <3>4. h \in [0 .. m -> V]
            BY <3>1, <3>2, <3>3
        <3>5. h[0] = init
            BY <3>1, <3>2
        <3>6. ASSUME NEW i \in 1 .. m
              PROVE  h[i] = g[i][h[i - 1]]
            BY <3>1, <3>2
        <3>7. Ok(m, h)
            BY <3>4, <3>5, <3>6
        <3>. QED
            BY <3>7
    <2>. QED
        BY <2>2, <2>3
<1>. QED
    BY <1>1, <1>2

\* What holds before the first slot, and after a slot if it held before, holds always.
LEMMA SlotInduction ==
    ASSUME NEW G, 0 \in G, \A s \in Slots : s \in G => s + 1 \in G
    PROVE  \A s \in 0 .. NSlots : s \in G
<1>. DEFINE Bad == {s \in 0 .. NSlots : s \notin G}
<1>0. NSlots \in Nat
    BY NSlotsAssumption
<1>1. ASSUME Bad # {}
      PROVE  FALSE
    <2>0. Bad \in SUBSET Nat
        OBVIOUS
    <2>. HIDE DEF Bad
    <2>1. PICK m \in Bad : \A y \in Bad : m <= y
        BY <1>1, <2>0, MinIsLeast
    <2>. USE DEF Bad
    <2>2. m \in 0 .. NSlots /\ m \notin G /\ m # 0
        BY <2>1
    <2>3. m - 1 \in Slots /\ m - 1 \in 0 .. NSlots /\ ~(m <= m - 1) /\ (m - 1) + 1 = m
        BY <1>0, <2>2 DEF Slots
    <2>4. m - 1 \notin Bad
        BY <2>1, <2>3
    <2>. QED
        BY <2>2, <2>3, <2>4
<1>. QED
    BY <1>1

-----------------------------------------------------------------------------
(* Sending results.                                                        *)

Qs == [results : Seq(AResult), multis : Seq(AMultitask)]

LEMMA SendDoes ==
    ASSUME NEW q \in Qs, NEW r \in AResult, NEW s, s = Send(q, r)
    PROVE  /\ s \in Qs
           /\ s.results = IF r.id \in waiting_task_ids THEN Append(q.results, r) ELSE q.results
           /\ DOMAIN s.multis = DOMAIN q.multis
           /\ \A i \in DOMAIN q.multis :
                /\ s.multis[i].id = q.multis[i].id
                /\ r.id_multi \notin waiting_task_ids \/ q.multis[i].id # r.id_multi
                        => s.multis[i] = q.multis[i]
                /\ r.id_multi \in waiting_task_ids /\ q.multis[i].id = r.id_multi
                        => /\ s.multis[i].remaining = q.multis[i].remaining \ {r.id}
                           /\ s.multis[i].results = Append(q.multis[i].results, r)
<1>. DEFINE N == Len(q.multis)
            new(i) == [q.multis[i] EXCEPT !.remaining = @ \ {r.id}, !.results = Append(@, r)]
            e(i) == IF q.multis[i].id # r.id_multi THEN q.multis[i] ELSE new(i)
<1>1. /\ q.results \in Seq(AResult) /\ q.multis \in Seq(AMultitask)
      /\ N \in Nat /\ DOMAIN q.multis = 1 .. N
    <2>1. q.results \in Seq(AResult) /\ q.multis \in Seq(AMultitask)
        BY DEF Qs
    <2>. QED
        BY <2>1, LenProperties
<1>2. \A i \in 1 .. N : q.multis[i] \in AMultitask
    BY <1>1, ElementOfSeq
<1>3. s.results = IF r.id \in waiting_task_ids THEN Append(q.results, r) ELSE q.results
    BY DEF Send
<1>4. s.multis = IF r.id_multi \notin waiting_task_ids THEN q.multis ELSE [i \in 1 .. N |-> e(i)]
    BY <1>1 DEF Send
<1>5. ASSUME NEW i \in 1 .. N
      PROVE  /\ new(i) \in AMultitask
             /\ new(i).id = q.multis[i].id
             /\ new(i).remaining = q.multis[i].remaining \ {r.id}
             /\ new(i).results = Append(q.multis[i].results, r)
    <2>1. ASSUME NEW m \in AMultitask
          PROVE  LET n == [m EXCEPT !.remaining = @ \ {r.id}, !.results = Append(@, r)]
                 IN  /\ n \in AMultitask
                     /\ n.id = m.id
                     /\ n.remaining = m.remaining \ {r.id}
                     /\ n.results = Append(m.results, r)
        <3>1. Append(m.results, r) \in Seq(AResult)
            BY AppendProperties DEF AMultitask
        <3>2. m.remaining \ {r.id} \in SUBSET Ids
            BY DEF AMultitask
        <3>. DEFINE x == m.remaining \ {r.id}
                    y == Append(m.results, r)
        <3>. HIDE DEF x, y
        <3>3. x \in SUBSET Ids /\ y \in Seq(AResult)
            BY <3>1, <3>2 DEF x, y
        <3>4. [m EXCEPT !.remaining = x, !.results = y] \in AMultitask
            BY <3>3 DEF AMultitask
        <3>5. /\ [m EXCEPT !.remaining = x, !.results = y].id = m.id
              /\ [m EXCEPT !.remaining = x, !.results = y].remaining = x
              /\ [m EXCEPT !.remaining = x, !.results = y].results = y
            BY DEF AMultitask
        <3>. QED
            BY <3>4, <3>5 DEF x, y
    <2>. QED
        BY <1>2, <2>1
<1>. HIDE DEF new
<1>6. \A i \in 1 .. N : e(i) \in AMultitask /\ e(i).id = q.multis[i].id
    BY <1>2, <1>5
<1>. HIDE DEF e
<1>7. [i \in 1 .. N |-> e(i)] \in Seq(AMultitask)
    BY <1>1, <1>6, IsASeq
<1>8. s.multis \in Seq(AMultitask) /\ s.results \in Seq(AResult)
    BY <1>1, <1>3, <1>4, <1>7, AppendProperties
<1>9. s = [results |-> s.results, multis |-> s.multis]
    BY DEF Send
<1>10. s \in Qs
    BY <1>8, <1>9 DEF Qs
<1>11. DOMAIN s.multis = DOMAIN q.multis
    BY <1>1, <1>4
<1>12. ASSUME NEW i \in 1 .. N
       PROVE  /\ s.multis[i].id = q.multis[i].id
              /\ r.id_multi \notin waiting_task_ids \/ q.multis[i].id # r.id_multi
                        => s.multis[i] = q.multis[i]
              /\ r.id_multi \in waiting_task_ids /\ q.multis[i].id = r.id_multi
                        => /\ s.multis[i].remaining = q.multis[i].remaining \ {r.id}
                           /\ s.multis[i].results = Append(q.multis[i].results, r)
    <2>1. CASE r.id_multi \notin waiting_task_ids
        BY <1>4, <2>1
    <2>2. CASE r.id_multi \in waiting_task_ids
        <3>1. s.multis[i] = e(i)
            BY <1>4, <2>2
        <3>. QED
            BY <1>5, <2>2, <3>1 DEF e
    <2>. QED
        BY <2>1, <2>2
<1>. QED
    BY <1>1, <1>3, <1>10, <1>11, <1>12

LEMMA SlotResultTyped ==
    ASSUME NEW r \in ASlot, NEW kind \in {"partial", "final", "error"}
    PROVE  SlotResult(r, kind) \in AResult
BY DEF SlotResult, Result, ASlot, AResult

\* The queues after each of the results that are sent for slots.
Sending(f, S, ss, kind) ==
    /\ f \in [0 .. NSlots -> Qs]
    /\ f[0] = Results /\ f[NSlots] = SentFor(S, ss, kind)
    /\ \A s \in Slots :
            f[s + 1] = IF s \in S THEN Send(f[s], SlotResult(ss[s], kind)) ELSE f[s]

LEMMA SentForSends ==
    ASSUME Results \in Qs, NEW S, NEW ss \in [Slots -> ASlot],
           NEW kind \in {"partial", "final", "error"}
    PROVE  \E f : Sending(f, S, ss, kind)
<1>. DEFINE turn(s, v) == IF s - 1 \in S THEN Send(v, SlotResult(ss[s - 1], kind)) ELSE v
            g == [s \in 1 .. NSlots |-> [v \in Qs |-> turn(s, v)]]
            all(f) == [s \in 0 .. NSlots |->
                          IF s = 0 THEN Results
                          ELSE IF s - 1 \in S THEN Send(f[s - 1], SlotResult(ss[s - 1], kind))
                               ELSE f[s - 1]]
            F == CHOOSE f : f = all(f)
<1>0. NSlots \in Nat \ {0} /\ \A s \in 1 .. NSlots : s - 1 \in Slots /\ s - 1 \in 0 .. NSlots
    BY NSlotsAssumption DEF Slots
<1>1. \A s \in 1 .. NSlots, v \in Qs : turn(s, v) \in Qs
    BY <1>0, SlotResultTyped, SendDoes
<1>. HIDE DEF turn
<1>2. Turns(g, Qs)
    BY <1>1 DEF Turns
<1>3. PICK f : Values(f, Results, g, Qs)
    BY <1>2, LoopHasValues
<1>4. /\ f \in [0 .. NSlots -> Qs] /\ f[0] = Results
      /\ \A s \in 1 .. NSlots : f[s] = turn(s, f[s - 1])
    BY <1>0, <1>3 DEF Values
<1>5. f = all(f)
    <2>1. \A s \in 0 .. NSlots : s = 0 \/ s \in 1 .. NSlots
        BY <1>0
    <2>. QED
        BY <1>4, <2>1 DEF turn
<1>6. F = all(F)
    BY <1>5
<1>7. SentFor(S, ss, kind) = F[NSlots]
    BY DEF SentFor
<1>. HIDE DEF F
<1>8. /\ DOMAIN F = 0 .. NSlots /\ F[0] = Results
      /\ \A s \in 1 .. NSlots : F[s] = turn(s, F[s - 1])
    BY <1>0, <1>6 DEF turn
<1>9. \A s \in 0 .. NSlots : F[s] \in Qs
    <2>. DEFINE G == {s \in 0 .. NSlots : F[s] \in Qs}
    <2>1. 0 \in G
        BY <1>0, <1>8
    <2>2. ASSUME NEW s \in Slots, s \in G
          PROVE  s + 1 \in G
        <3>1. s + 1 \in 1 .. NSlots /\ (s + 1) - 1 = s /\ s + 1 \in 0 .. NSlots
            BY <1>0 DEF Slots
        <3>2. F[s + 1] = turn(s + 1, F[s])
            BY <1>8, <3>1
        <3>. QED
            BY <1>1, <2>2, <3>1, <3>2
    <2>. HIDE DEF G
    <2>3. \A s \in 0 .. NSlots : s \in G
        BY <2>1, <2>2, SlotInduction
    <2>. QED
        BY <2>3 DEF G
<1>10. \A s \in Slots : s + 1 \in 1 .. NSlots /\ (s + 1) - 1 = s
    BY <1>0 DEF Slots
<1>11. ASSUME NEW s \in Slots
       PROVE  F[s + 1] = IF s \in S THEN Send(F[s], SlotResult(ss[s], kind)) ELSE F[s]
    <2>1. F[s + 1] = turn(s + 1, F[(s + 1) - 1])
        BY <1>8, <1>10
    <2>2. F[s + 1] = turn(s + 1, F[s])
        BY <1>10, <2>1
    <2>. QED
        BY <1>10, <2>2 DEF turn
<1>12. F \in [0 .. NSlots -> Qs]
    <2>1. F = [s \in 0 .. NSlots |-> F[s]]
        BY <1>6
    <2>. QED
        BY <1>9, <2>1
<1>. QED
    BY <1>7, <1>8, <1>11, <1>12 DEF Sending

\* The tokens of a batch before each of the slots.
LEMMA TokensCounted ==
    ASSUME NEW ss \in [Slots -> ASlot], NEW TB, TB = TokensBefore(ss)
    PROVE  /\ \A s \in 0 .. NSlots : TB[s] \in Nat
           /\ \A s \in Slots :
                TB[s + 1] = IF Loading(ss, s) /\ TB[s] < NBatch
                            THEN Min({NBatch, TB[s] + ss[s].prompt}) ELSE TB[s]
<1>. DEFINE c == Cardinality(Generating(ss))
            turn(s, v) == IF Loading(ss, s - 1) /\ v < NBatch
                          THEN Min({NBatch, v + ss[s - 1].prompt}) ELSE v
            g == [s \in 1 .. NSlots |-> [v \in Nat |-> turn(s, v)]]
            all(n) == [s \in 0 .. NSlots |->
                          IF s = 0 THEN Cardinality(Generating(ss))
                          ELSE IF Loading(ss, s - 1) /\ n[s - 1] < NBatch
                               THEN Min({NBatch, n[s - 1] + ss[s - 1].prompt})
                               ELSE n[s - 1]]
            F == CHOOSE n : n = all(n)
<1>0. NSlots \in Nat \ {0} /\ \A s \in 1 .. NSlots : s - 1 \in Slots /\ s - 1 \in 0 .. NSlots
    BY NSlotsAssumption DEF Slots
<1>1. c \in Nat
    <2>1. IsFiniteSet(Slots)
        BY <1>0, FS_Interval DEF Slots
    <2>2. Generating(ss) \in SUBSET Slots
        BY DEF Generating
    <2>. QED
        BY <2>1, <2>2, FS_Subset, FS_CardinalityType
<1>2. \A s \in 1 .. NSlots, v \in Nat : turn(s, v) \in Nat
    <2>. SUFFICES ASSUME NEW s \in 1 .. NSlots, NEW v \in Nat
                  PROVE  turn(s, v) \in Nat
        OBVIOUS
    <2>1. ss[s - 1].prompt \in Nat
        BY <1>0 DEF ASlot
    <2>. DEFINE S == {NBatch, v + ss[s - 1].prompt}
    <2>2. S \in SUBSET Nat /\ S # {}
        BY <2>1, NBatchAssumption
    <2>. HIDE DEF S
    <2>3. Min(S) \in Nat
        BY <2>2, MinIsLeast
    <2>. QED
        BY <2>3 DEF S
<1>. HIDE DEF turn, c
<1>3. Turns(g, Nat)
    BY <1>2 DEF Turns
<1>4. PICK f : Values(f, c, g, Nat)
    BY <1>1, <1>3, LoopHasValues
<1>5. /\ f \in [0 .. NSlots -> Nat] /\ f[0] = c
      /\ \A s \in 1 .. NSlots : f[s] = turn(s, f[s - 1])
    BY <1>0, <1>4 DEF Values
<1>6. f = all(f)
    <2>1. \A s \in 0 .. NSlots : s = 0 \/ s \in 1 .. NSlots
        BY <1>0
    <2>. QED
        BY <1>5, <2>1 DEF turn, c
<1>7. F = all(F)
    BY <1>6
<1>8. TB = F
    BY DEF TokensBefore
<1>9. TB[0] = c /\ \A s \in 1 .. NSlots : TB[s] = turn(s, TB[s - 1])
    <2>1. TB = all(TB)
        BY <1>7, <1>8
    <2>. HIDE DEF F
    <2>2. 0 \in 0 .. NSlots /\ \A s \in 1 .. NSlots : s \in 0 .. NSlots /\ s # 0
        BY <1>0
    <2>. QED
        BY <2>1, <2>2 DEF turn, c
<1>. HIDE DEF F
<1>10. \A s \in 0 .. NSlots : TB[s] \in Nat
    <2>. DEFINE G == {s \in 0 .. NSlots : TB[s] \in Nat}
    <2>1. 0 \in G
        BY <1>0, <1>1, <1>9
    <2>2. ASSUME NEW s \in Slots, s \in G
          PROVE  s + 1 \in G
        <3>1. s + 1 \in 1 .. NSlots /\ (s + 1) - 1 = s /\ s + 1 \in 0 .. NSlots
            BY <1>0 DEF Slots
        <3>2. TB[s + 1] = turn(s + 1, TB[s])
            BY <1>9, <3>1
        <3>. QED
            BY <1>2, <2>2, <3>1, <3>2
    <2>. HIDE DEF G
    <2>3. \A s \in 0 .. NSlots : s \in G
        BY <2>1, <2>2, SlotInduction
    <2>. QED
        BY <2>3 DEF G
<1>11. \A s \in Slots : s + 1 \in 1 .. NSlots /\ (s + 1) - 1 = s
    BY <1>0 DEF Slots
<1>. QED
    BY <1>9, <1>10, <1>11 DEF turn

-----------------------------------------------------------------------------
(* Types.                                                                  *)

\* A client of a multitask posts its subtasks one after the other.
SubtasksPosted ==
    \A c \in Callers : IsMulti(c) =>
        /\ pc[c] # "post"
        /\ pc[c] \in {"start", "add multitask"} => posted[c] = 0
        /\ pc[c] = "post subtasks" => posted[c] < request[c].n_prompts
        /\ pc[c] \notin {"start", "add multitask", "post subtasks"}
               => posted[c] = request[c].n_prompts

TypeInv == TypeOK /\ SubtasksPosted /\ (loop # "decode" => ~stopped)

\* The types depend on the requests alone.
LEMMA TypesStay ==
    ASSUME request' = request
    PROVE  /\ Ids' = Ids
           /\ ATask' = ATask /\ AResult' = AResult /\ AMultitask' = AMultitask /\ ASlot' = ASlot
<1>1. Ids' = Ids
    BY DEF Ids, Callers, SubIds, IsMulti, IsCompletion
<1>2. TaskIds' = TaskIds
    BY <1>1 DEF TaskIds
<1>3. AResult' = AResult /\ ATask' = ATask /\ ASlot' = ASlot
    BY <1>2 DEF AResult, ATask, ASlot
<1>4. AMultitask' = AMultitask
    BY <1>1, <1>3 DEF AMultitask
<1>. QED
    BY <1>1, <1>3, <1>4

LEMMA TypeInit == Init => TypeInv
<1>. SUFFICES ASSUME Init PROVE TypeInv
    OBVIOUS
<1>1. /\ <<>> \in Seq(ATask) /\ <<>> \in Seq(AMultitask) /\ <<>> \in Seq(AResult)
      /\ IdleSlot \in ASlot
    BY DEF IdleSlot, ASlot, TaskIds
<1>2. TypeOK
    BY <1>1 DEF Init, TypeOK
<1>3. SubtasksPosted
    BY DEF Init, SubtasksPosted, Callers
<1>. QED
    BY <1>2, <1>3 DEF Init, TypeInv

\* What a step of the main thread may do to the variables.
LEMMA MainTypes ==
    ASSUME TypeInv,
           request' = request, pc' = pc, posted' = posted, waiting_task_ids' = waiting_task_ids,
           queue_tasks' \in Seq(ATask), queue_tasks_deferred' \in Seq(ATask),
           queue_multitasks' \in Seq(AMultitask), queue_results' \in Seq(AResult),
           loop' \in {"tasks", "multitasks", "update", "decode", "wait"},
           slots' \in [Slots -> ASlot], batch' \subseteq Slots,
           stopped' => batch' # {}, loop' # "decode" => ~stopped'
    PROVE  TypeInv'
<1>1. /\ ATask' = ATask /\ AResult' = AResult /\ AMultitask' = AMultitask /\ ASlot' = ASlot
    BY TypesStay
<1>2. TypeOK'
    BY <1>1 DEF TypeInv, TypeOK
<1>3. SubtasksPosted'
    BY DEF TypeInv, SubtasksPosted, Callers, IsMulti, IsCompletion
<1>. QED
    BY <1>2, <1>3 DEF TypeInv

LEMMA ResultsTyped ==
    ASSUME TypeInv
    PROVE  Results \in Qs
BY DEF TypeInv, TypeOK, Results, Qs

LEMMA SetTyped ==
    ASSUME NEW q \in Qs, SetResults(q)
    PROVE  queue_multitasks' \in Seq(AMultitask) /\ queue_results' \in Seq(AResult)
BY DEF SetResults, Qs

LEMMA ReleaseTyped ==
    ASSUME NEW r \in ASlot
    PROVE  Release(r) \in ASlot
BY DEF Release, ASlot

LEMMA ProcessTaskTypes ==
    ASSUME WorkInv, TypeInv, ProcessTask
    PROVE  TypeInv'
<1>. DEFINE t == Head(queue_tasks)
<1>1. /\ queue_tasks \in Seq(ATask) /\ queue_tasks_deferred \in Seq(ATask)
      /\ slots \in [Slots -> ASlot] /\ Results \in Qs
      /\ queue_multitasks \in Seq(AMultitask) /\ queue_results \in Seq(AResult)
    BY ResultsTyped DEF TypeInv, TypeOK
<1>2. /\ loop = "tasks" /\ queue_tasks # <<>> /\ queue_tasks' = Tail(queue_tasks)
      /\ loop' = loop /\ batch' = batch /\ stopped' = stopped
      /\ request' = request /\ pc' = pc /\ posted' = posted /\ waiting_task_ids' = waiting_task_ids
      /\ (\E s \in Slots : Launch(t, s)) \/ Defer(t) \/ Answer(t) \/ CancelSlot(t) \/ Skip(t)
    BY DEF ProcessTask, clientVars
<1>3. t \in ATask /\ Tail(queue_tasks) \in Seq(ATask)
    BY <1>1, <1>2, HeadTailProperties
<1>4. t.type = "completion" => t.client \in Callers /\ IsCompletion(t.client)
    BY <1>2, TailTasks DEF WorkInv, QueueShape
<1>5. \A n \in Nat, kind \in {"partial", "final", "error"} :
          Result(t.id, t.id_multi, kind, n) \in AResult /\ Result(t.id, None, kind, n) \in AResult
    BY <1>3 DEF ATask, AResult, Result
<1>. HIDE DEF t
<1>6. /\ queue_tasks_deferred' \in Seq(ATask) /\ slots' \in [Slots -> ASlot]
      /\ queue_multitasks' \in Seq(AMultitask) /\ queue_results' \in Seq(AResult)
    <2>1. ASSUME NEW s \in Slots, Launch(t, s)
          PROVE  <1>6!:
        <3>1. SlotsFor(t) \in [Slots -> ASlot]
            BY <1>1, ReleaseTyped DEF SlotsFor
        <3>2. Assigned(SlotsFor(t)[s], t) \in ASlot
            BY <1>3, <3>1 DEF Assigned, ASlot, ATask
        <3>3. queue_tasks_deferred' = queue_tasks_deferred
            BY <2>1 DEF Launch
        <3>4. CASE request[t.client].valid
            <4>1. request[t.client].prompt \in Nat
                <5>1. request[t.client] \in Completion \cup Other /\ request[t.client].type = "completion"
                    BY <1>4, <2>1, Asked DEF Launch, WorkInv, IsCompletion
                <5>. QED
                    BY <5>1 DEF Completion, Other
            <4>2. PICK p \in Nat : p = request[t.client].prompt
                BY <4>1
            <4>3. [Assigned(SlotsFor(t)[s], t) EXCEPT !.command = "load prompt", !.prompt = p] \in ASlot
                BY <3>2 DEF ASlot
            <4>4. /\ slots' = [SlotsFor(t) EXCEPT ![s] =
                                [Assigned(SlotsFor(t)[s], t) EXCEPT !.command = "load prompt",
                                                                    !.prompt = p]]
                  /\ queue_multitasks' = queue_multitasks /\ queue_results' = queue_results
                BY <2>1, <3>1, <3>4, <4>2 DEF Launch, resultVars
            <4>. QED
                BY <1>1, <3>1, <3>3, <4>3, <4>4
        <3>5. CASE ~request[t.client].valid
            <4>1. /\ slots' = [SlotsFor(t) EXCEPT ![s] = Assigned(SlotsFor(t)[s], t)]
                  /\ SetResults(Send(Results, Result(t.id, t.id_multi, "error", 0)))
                BY <2>1, <3>1, <3>5 DEF Launch
            <4>2. Send(Results, Result(t.id, t.id_multi, "error", 0)) \in Qs
                BY <1>1, <1>5, SendDoes
            <4>. QED
                BY <1>1, <3>1, <3>2, <3>3, <4>1, <4>2, SetTyped
        <3>. QED
            BY <3>4, <3>5
    <2>2. CASE Defer(t)
        BY <1>1, <1>3, <2>2, AppendProperties DEF Defer, resultVars
    <2>3. CASE Answer(t)
        <3>1. PICK kind \in {"final", "error"} :
                    SetResults(Send(Results, Result(t.id, None, kind, 0)))
            BY <2>3 DEF Answer
        <3>2. Send(Results, Result(t.id, None, kind, 0)) \in Qs
            BY <1>1, <1>5, SendDoes
        <3>. QED
            BY <1>1, <2>3, <3>1, <3>2, SetTyped DEF Answer
    <2>4. CASE CancelSlot(t)
        <3>1. slots' = slots \/ \E s : slots' = [slots EXCEPT ![s] = Release(slots[s])]
            BY <2>4 DEF CancelSlot
        <3>2. slots' \in [Slots -> ASlot]
            BY <1>1, <3>1, ReleaseTyped
        <3>. QED
            BY <1>1, <2>4, <3>2 DEF CancelSlot, resultVars
    <2>5. CASE Skip(t)
        BY <1>1, <2>5 DEF Skip, resultVars
    <2>. QED
        BY <1>2, <2>1, <2>2, <2>3, <2>4, <2>5
<1>. QED
    BY <1>2, <1>3, <1>6, MainTypes DEF TypeInv, TypeOK

\* The first multitask without remaining subtasks.
LEMMA FirstFinished ==
    ASSUME TypeInv, FinishMultitask, NEW i, i = Min(Finished), NEW q,
           q = Send(Results, Result(queue_multitasks[i].id, None, "final", 0))
    PROVE  /\ i \in DOMAIN queue_multitasks /\ queue_multitasks[i].remaining = {}
           /\ queue_multitasks[i].id \in Clients
           /\ Result(queue_multitasks[i].id, None, "final", 0) \in AResult
           /\ q \in Qs /\ i \in 1 .. Len(q.multis)
           /\ queue_results' = q.results /\ queue_multitasks' = RemoveAt(q.multis, i)
<1>1. /\ queue_multitasks \in Seq(AMultitask) /\ Results \in Qs
      /\ Results.multis = queue_multitasks
    BY ResultsTyped DEF TypeInv, TypeOK, Results
<1>2. DOMAIN queue_multitasks = 1 .. Len(queue_multitasks) /\ Len(queue_multitasks) \in Nat
    BY <1>1, LenProperties
<1>3. i \in DOMAIN queue_multitasks /\ queue_multitasks[i].remaining = {}
    <2>1. Finished \in SUBSET Nat /\ Finished # {}
        BY <1>2 DEF Finished, FinishMultitask
    <2>2. i \in Finished
        BY <2>1, MinIsLeast
    <2>. QED
        BY <2>2 DEF Finished
<1>4. queue_multitasks[i] \in AMultitask
    BY <1>1, <1>2, <1>3, ElementOfSeq
<1>5. Result(queue_multitasks[i].id, None, "final", 0) \in AResult
    BY <1>4 DEF AMultitask, AResult, Result, TaskIds
<1>6. q \in Qs /\ DOMAIN q.multis = DOMAIN queue_multitasks
    BY <1>1, <1>5, SendDoes
<1>7. i \in 1 .. Len(q.multis)
    <2>1. q.multis \in Seq(AMultitask)
        BY <1>6 DEF Qs
    <2>. QED
        BY <1>3, <1>6, <2>1, LenProperties
<1>8. queue_results' = q.results /\ queue_multitasks' = RemoveAt(q.multis, i)
    <2>1. SetResults([q EXCEPT !.multis = RemoveAt(q.multis, i)])
        BY DEF FinishMultitask
    <2>2. /\ [q EXCEPT !.multis = RemoveAt(q.multis, i)].results = q.results
          /\ [q EXCEPT !.multis = RemoveAt(q.multis, i)].multis = RemoveAt(q.multis, i)
        BY <1>6 DEF Qs
    <2>. QED
        BY <2>1, <2>2 DEF SetResults
<1>. QED
    BY <1>3, <1>4, <1>5, <1>6, <1>7, <1>8 DEF AMultitask

LEMMA FinishTypes ==
    ASSUME TypeInv, FinishMultitask
    PROVE  TypeInv'
<1>. DEFINE i == Min(Finished)
            q == Send(Results, Result(queue_multitasks[i].id, None, "final", 0))
<1>1. /\ q \in Qs /\ i \in 1 .. Len(q.multis)
      /\ queue_results' = q.results /\ queue_multitasks' = RemoveAt(q.multis, i)
    BY FirstFinished
<1>. HIDE DEF q, i
<1>2. queue_results' \in Seq(AResult) /\ queue_multitasks' \in Seq(AMultitask)
    BY <1>1, RemovedAt DEF Qs
<1>3. /\ queue_tasks' = queue_tasks /\ queue_tasks_deferred' = queue_tasks_deferred
      /\ loop' = loop /\ slots' = slots /\ batch' = batch /\ stopped' = stopped
      /\ request' = request /\ pc' = pc /\ posted' = posted /\ waiting_task_ids' = waiting_task_ids
    BY DEF FinishMultitask, queueVars, mainVars, clientVars
<1>. QED
    BY <1>2, <1>3, MainTypes DEF TypeInv, TypeOK

LEMMA ReleasedTyped ==
    ASSUME TypeInv
    PROVE  /\ Released(slots) \in [Slots -> ASlot]
           /\ Requeued.tasks \in Seq(ATask) /\ Requeued.deferred \in Seq(ATask)
<1>1. /\ slots \in [Slots -> ASlot]
      /\ queue_tasks \in Seq(ATask) /\ queue_tasks_deferred \in Seq(ATask)
    BY DEF TypeInv, TypeOK
<1>2. \A r \in ASlot : [r EXCEPT !.state = "idle", !.command = "none"] \in ASlot
    BY DEF ASlot
<1>3. Released(slots) \in [Slots -> ASlot]
    BY <1>1, <1>2 DEF Released
<1>4. queue_tasks \o queue_tasks_deferred \in Seq(ATask) /\ <<>> \in Seq(ATask)
    BY <1>1, ConcatProperties
<1>. QED
    BY <1>1, <1>3, <1>4 DEF Requeued

LEMMA LoadedTyped ==
    ASSUME NEW ss \in [Slots -> ASlot], NEW s \in Slots
    PROVE  Loaded(ss, s) \in ASlot
<1>. DEFINE TB == TokensBefore(ss)
            left == ss[s].prompt - (TB[s + 1] - TB[s])
<1>1. ss[s] \in ASlot /\ ss[s].prompt \in Nat
    BY DEF ASlot
<1>2. /\ s \in Nat /\ s \in 0 .. NSlots /\ s + 1 \in 0 .. NSlots
      /\ NBatch \in Nat
    BY NSlotsAssumption, NBatchAssumption DEF Slots
<1>3. /\ TB[s] \in Nat /\ TB[s + 1] \in Nat
      /\ TB[s + 1] = IF Loading(ss, s) /\ TB[s] < NBatch
                     THEN Min({NBatch, TB[s] + ss[s].prompt}) ELSE TB[s]
    BY <1>2, TokensCounted
<1>4. left \in Nat
    <2>1. CASE Loading(ss, s) /\ TB[s] < NBatch
        <3>. DEFINE S == {NBatch, TB[s] + ss[s].prompt}
        <3>1. S \in SUBSET Nat /\ S # {} /\ TB[s] + ss[s].prompt \in S
            BY <1>1, <1>2, <1>3
        <3>2. TB[s + 1] = Min(S)
            BY <1>3, <2>1
        <3>. HIDE DEF S
        <3>3. Min(S) <= TB[s] + ss[s].prompt
            BY <3>1, MinIsLeast
        <3>. HIDE DEF TB
        <3>. QED
            BY <1>1, <1>3, <3>2, <3>3
    <2>2. CASE ~(Loading(ss, s) /\ TB[s] < NBatch)
        BY <1>1, <1>3, <2>2
    <2>. QED
        BY <2>1, <2>2
<1>5. \/ Loaded(ss, s) = ss[s]
      \/ Loaded(ss, s) = [ss[s] EXCEPT !.state = "processing", !.command = "release"]
      \/ Loaded(ss, s) = [ss[s] EXCEPT !.state = "processing", !.command = "none",
                                       !.prompt = 0, !.n_decoded = 0]
      \/ Loaded(ss, s) = [ss[s] EXCEPT !.prompt = left]
    BY DEF Loaded
<1>. HIDE DEF left
<1>6. ASSUME NEW r \in ASlot
      PROVE  /\ [r EXCEPT !.state = "processing", !.command = "release"] \in ASlot
             /\ [r EXCEPT !.state = "processing", !.command = "none",
                          !.prompt = 0, !.n_decoded = 0] \in ASlot
             /\ [r EXCEPT !.prompt = left] \in ASlot
    BY <1>4 DEF ASlot
<1>. QED
    BY <1>1, <1>5, <1>6

LEMMA NextResponseTyped == NextResponse \in ATask
BY DEF NextResponse, Task, ATask, TaskIds

LEMMA UpdateTypes ==
    ASSUME TypeInv, UpdateIdle \/ UpdateBusy
    PROVE  TypeInv'
<1>. DEFINE ss == Released(slots)
<1>1. /\ ss \in [Slots -> ASlot]
      /\ Requeued.tasks \in Seq(ATask) /\ Requeued.deferred \in Seq(ATask)
      /\ Append(Requeued.tasks, NextResponse) \in Seq(ATask)
    BY ReleasedTyped, NextResponseTyped, AppendProperties
<1>2. /\ request' = request /\ pc' = pc /\ posted' = posted /\ waiting_task_ids' = waiting_task_ids
      /\ stopped' = stopped /\ queue_tasks_deferred' = Requeued.deferred
    BY DEF UpdateIdle, UpdateBusy, clientVars
<1>3. ~stopped
    BY DEF UpdateIdle, UpdateBusy, TypeInv
<1>4. CASE UpdateIdle
    <2>1. /\ slots' = ss /\ queue_tasks' = Requeued.tasks /\ loop' = "wait" /\ batch' = batch
          /\ queue_multitasks' = queue_multitasks /\ queue_results' = queue_results
        BY <1>4 DEF UpdateIdle, resultVars
    <2>. QED
        BY <1>1, <1>2, <1>3, <2>1, MainTypes DEF TypeInv, TypeOK
<1>5. CASE UpdateBusy
    <2>. DEFINE empty == {s \in Slots : Visited(ss, s) /\ ss[s].prompt = 0}
    <2>1. /\ slots' = [s \in Slots |-> Loaded(ss, s)]
          /\ queue_tasks' = Append(Requeued.tasks, NextResponse)
          /\ loop' \in {"wait", "decode"} /\ batch' \subseteq Slots
          /\ SetResults(SentFor(empty, ss, "final"))
        BY <1>5 DEF UpdateBusy, KeptGoing
    <2>2. slots' \in [Slots -> ASlot]
        <3>. HIDE DEF ss
        <3>. QED
            BY <1>1, <2>1, LoadedTyped
    <2>. HIDE DEF empty, ss
    <2>3. SentFor(empty, ss, "final") \in Qs
        <3>1. PICK f : Sending(f, empty, ss, "final")
            BY <1>1, ResultsTyped, SentForSends
        <3>. QED
            BY <3>1, NSlotsAssumption DEF Sending
    <2>. QED
        BY <1>1, <1>2, <1>3, <2>1, <2>2, <2>3, SetTyped, MainTypes DEF TypeInv
<1>. QED
    BY <1>4, <1>5

LEMMA CurrentSlot ==
    ASSUME TypeInv, batch # {}
    PROVE  Current \in batch /\ Current \in Slots
<1>1. batch \in SUBSET Nat /\ batch \subseteq Slots
    BY DEF TypeInv, TypeOK, Slots
<1>. QED
    BY <1>1, MinIsLeast DEF Current

LEMMA DecodeTypes ==
    ASSUME TypeInv,
           TasksDone \/ MultitasksDone \/ SampleToken \/ StopSlot \/ DecodeFails \/ BatchDone \/ WakeUp
    PROVE  TypeInv'
<1>1. /\ queue_tasks' = queue_tasks /\ queue_tasks_deferred' = queue_tasks_deferred
      /\ request' = request /\ pc' = pc /\ posted' = posted /\ waiting_task_ids' = waiting_task_ids
    BY DEF TasksDone, MultitasksDone, SampleToken, StopSlot, DecodeFails, BatchDone, WakeUp,
           queueVars, clientVars
<1>2. /\ queue_tasks \in Seq(ATask) /\ queue_tasks_deferred \in Seq(ATask)
      /\ slots \in [Slots -> ASlot] /\ Results \in Qs
      /\ queue_multitasks \in Seq(AMultitask) /\ queue_results \in Seq(AResult)
      /\ batch \subseteq Slots /\ (stopped => batch # {}) /\ (loop # "decode" => ~stopped)
    BY ResultsTyped DEF TypeInv, TypeOK
<1>3. CASE TasksDone \/ MultitasksDone \/ BatchDone \/ WakeUp
    <2>1. /\ queue_multitasks' = queue_multitasks /\ queue_results' = queue_results
          /\ slots' = slots /\ batch' = batch /\ stopped' = stopped
          /\ loop' \in {"tasks", "multitasks", "update", "decode", "wait"}
          /\ (loop # "decode" \/ batch = {})
        BY <1>3 DEF TasksDone, MultitasksDone, BatchDone, WakeUp, resultVars
    <2>. QED
        BY <1>1, <1>2, <2>1, MainTypes
<1>4. CASE SampleToken
    <2>. DEFINE slot == [slots[Current] EXCEPT !.n_decoded = @ + 1]
    <2>1. /\ slots' = [slots EXCEPT ![Current] = slot] /\ batch # {}
          /\ loop' = "decode" /\ loop = "decode"
          /\ \/ SetResults(Send(Results, SlotResult(slot, "partial")))
             \/ queue_multitasks' = queue_multitasks /\ queue_results' = queue_results
          /\ \/ stopped' = TRUE /\ batch' = batch
             \/ batch' = batch \ {Current} /\ stopped' = stopped /\ ~stopped
        BY <1>4 DEF SampleToken, resultVars
    <2>2. Current \in Slots
        BY <2>1, CurrentSlot
    <2>3. slot \in ASlot
        <3>1. ASSUME NEW r \in ASlot
              PROVE  [r EXCEPT !.n_decoded = @ + 1] \in ASlot
            <4>0. r.n_decoded \in Nat
                BY DEF ASlot
            <4>1. r.n_decoded + 1 \in Nat
                BY <4>0
            <4>2. PICK n \in Nat : n = r.n_decoded + 1
                BY <4>1
            <4>3. [r EXCEPT !.n_decoded = n] \in ASlot
                BY DEF ASlot
            <4>. QED
                BY <4>2, <4>3
        <3>. QED
            BY <1>2, <2>2, <3>1
    <2>. HIDE DEF slot
    <2>4. Send(Results, SlotResult(slot, "partial")) \in Qs
        BY <1>2, <2>3, SlotResultTyped, SendDoes
    <2>5. queue_multitasks' \in Seq(AMultitask) /\ queue_results' \in Seq(AResult)
        BY <1>2, <2>1, <2>4, SetTyped
    <2>6. slots' \in [Slots -> ASlot] /\ batch' \subseteq Slots
        BY <1>2, <2>1, <2>3
    <2>7. stopped' => batch' # {}
        BY <2>1, Zenon
    <2>. QED
        BY <1>1, <1>2, <2>1, <2>5, <2>6, <2>7, MainTypes
<1>5. CASE StopSlot
    <2>1. /\ slots' = [slots EXCEPT ![Current] = Release(slots[Current])] /\ stopped
          /\ SetResults(Send(Results, SlotResult(slots[Current], "final")))
          /\ batch' = batch \ {Current} /\ stopped' = FALSE
          /\ loop' = "decode" /\ loop = "decode"
        BY <1>5 DEF StopSlot
    <2>2. Current \in Slots /\ slots[Current] \in ASlot
        BY <1>2, <2>1, CurrentSlot
    <2>3. Send(Results, SlotResult(slots[Current], "final")) \in Qs
        BY <1>2, <2>2, SlotResultTyped, SendDoes
    <2>4. slots' \in [Slots -> ASlot]
        BY <1>2, <2>1, <2>2, ReleaseTyped
    <2>. QED
        BY <1>1, <1>2, <2>1, <2>3, <2>4, SetTyped, MainTypes
<1>6. CASE DecodeFails
    <2>1. /\ slots' = [s \in Slots |->
                          [slots[s] EXCEPT !.state = "processing", !.command = "release"]]
          /\ SetResults(SentFor(Slots, slots, "error"))
          /\ batch' = {} /\ loop' = "wait" /\ stopped' = stopped /\ ~stopped
        BY <1>6 DEF DecodeFails
    <2>2. \A r \in ASlot : [r EXCEPT !.state = "processing", !.command = "release"] \in ASlot
        BY DEF ASlot
    <2>3. slots' \in [Slots -> ASlot]
        BY <1>2, <2>1, <2>2
    <2>4. SentFor(Slots, slots, "error") \in Qs
        <3>1. PICK f : Sending(f, Slots, slots, "error")
            BY <1>2, SentForSends
        <3>. QED
            BY <3>1, NSlotsAssumption DEF Sending
    <2>. QED
        BY <1>1, <1>2, <2>1, <2>3, <2>4, SetTyped, MainTypes
<1>. QED
    BY <1>3, <1>4, <1>5, <1>6

\* What the handler of a request does to the variables of the other threads.
LEMMA ClientLeaves ==
    ASSUME NEW c \in Callers, Client(c)
    PROVE  /\ request' = request /\ queue_tasks_deferred' = queue_tasks_deferred
           /\ loop' = loop /\ slots' = slots /\ batch' = batch /\ stopped' = stopped
BY DEF Client, Register, PostTask, AddMultitask, PostSubtask, Recv, BreakEarly, Leave, Cancel,
       queueVars, mainVars

\* A subtask and its number.
LEMMA SubtaskPosted ==
    ASSUME WorkInv, SubtasksPosted, NEW c \in Callers, PostSubtask(c)
    PROVE  /\ IsMulti(c) /\ IsCompletion(c) /\ posted \in [Callers -> Nat]
           /\ posted[c] \in Nat /\ posted[c] + 1 \in 1 .. request[c].n_prompts
           /\ request[c].n_prompts \in Nat
           /\ posted' = [posted EXCEPT ![c] = posted[c] + 1]
           /\ queue_tasks' = Append(queue_tasks, SubTask(c, posted[c] + 1))
           /\ pc[c] = "post subtasks"
           /\ pc' = IF posted[c] + 1 = request[c].n_prompts
                    THEN [pc EXCEPT ![c] = "recv"] ELSE pc
<1>1. IsMulti(c) /\ IsCompletion(c) /\ pc[c] = "post subtasks"
    BY Asked DEF WorkInv, ClientShape, PostSubtask
<1>2. posted[c] < request[c].n_prompts
    BY <1>1 DEF SubtasksPosted
<1>3. posted \in [Callers -> Nat]
    BY DEF WorkInv, ClientShape
<1>4. posted[c] \in Nat
    BY <1>3
<1>5. request[c] \in Completion
    BY <1>1, Asked DEF WorkInv, IsCompletion, Other
<1>6. request[c].n_prompts \in 1 .. 2
    BY <1>5 DEF Completion
<1>7. posted' = [posted EXCEPT ![c] = posted[c] + 1]
    BY DEF PostSubtask
<1>8. posted'[c] = posted[c] + 1
    BY <1>3, <1>7
<1>9. posted[c] + 1 \in 1 .. request[c].n_prompts
    BY <1>2, <1>4, <1>6
<1>10. queue_tasks' = Append(queue_tasks, SubTask(c, posted'[c]))
       /\ pc' = IF posted'[c] = request[c].n_prompts THEN [pc EXCEPT ![c] = "recv"] ELSE pc
    BY DEF PostSubtask, Post
<1>11. request[c].n_prompts \in Nat
    BY <1>6
<1>. QED
    BY <1>1, <1>3, <1>4, <1>7, <1>8, <1>9, <1>10, <1>11

LEMMA SubtasksPostedClient ==
    ASSUME WorkInv, SubtasksPosted, NEW c \in Callers, Client(c)
    PROVE  SubtasksPosted'
<1>1. request' = request /\ Callers' = Callers /\ DOMAIN pc = Callers /\ posted \in [Callers -> Nat]
    BY ClientLeaves DEF Callers, WorkInv, ClientShape
<1>2. ASSUME NEW d \in Callers, d # c
      PROVE  pc'[d] = pc[d] /\ posted'[d] = posted[d]
    BY <1>1, <1>2 DEF Client, Register, PostTask, AddMultitask, PostSubtask, Recv, BreakEarly, Leave,
                      Cancel, At
<1>3. ASSUME IsMulti(c)
      PROVE  /\ pc'[c] # "post"
             /\ pc'[c] \in {"start", "add multitask"} => posted'[c] = 0
             /\ pc'[c] = "post subtasks" => posted'[c] < request[c].n_prompts
             /\ pc'[c] \notin {"start", "add multitask", "post subtasks"}
                    => posted'[c] = request[c].n_prompts
    <2>0. request[c] \in Completion
        BY <1>3, Asked DEF WorkInv, IsCompletion, Other
    <2>1. ~PostsFirst(c) /\ request[c].n_prompts > 1 /\ request[c].n_prompts \in 1 .. 2
        BY <1>3, <2>0 DEF IsMulti, IsCompletion, PostsFirst, Completion
    <2>2. /\ pc[c] # "post"
          /\ pc[c] \in {"start", "add multitask"} => posted[c] = 0
          /\ pc[c] \notin {"start", "add multitask", "post subtasks"}
                 => posted[c] = request[c].n_prompts
        BY <1>3 DEF SubtasksPosted
    <2>3. CASE PostSubtask(c)
        <3>1. /\ posted' = [posted EXCEPT ![c] = posted[c] + 1]
              /\ posted[c] \in Nat /\ posted[c] + 1 \in 1 .. request[c].n_prompts
              /\ request[c].n_prompts \in Nat
              /\ pc[c] = "post subtasks"
              /\ pc' = IF posted[c] + 1 = request[c].n_prompts
                       THEN [pc EXCEPT ![c] = "recv"] ELSE pc
            BY <2>3, SubtaskPosted
        <3>2. posted'[c] = posted[c] + 1
            BY <1>1, <3>1
        <3>3. CASE posted[c] + 1 = request[c].n_prompts
            BY <1>1, <3>1, <3>2, <3>3
        <3>4. CASE posted[c] + 1 # request[c].n_prompts
            <4>1. PICK n \in Nat : n = request[c].n_prompts
                BY <3>1
            <4>2. PICK m \in Nat : m = posted[c]
                BY <3>1
            <4>3. m + 1 \in 1 .. n /\ m + 1 # n
                BY <3>1, <3>4, <4>1, <4>2
            <4>4. m + 1 < n
                BY <4>3
            <4>5. pc'[c] = "post subtasks"
                BY <3>1, <3>4
            <4>. QED
                BY <3>2, <4>1, <4>2, <4>4, <4>5
        <3>. QED
            BY <3>3, <3>4
    <2>4. CASE Register(c) \/ AddMultitask(c)
        <3>1. posted' = posted /\ pc'[c] \in {"add multitask", "post subtasks"} /\ posted[c] = 0
            BY <1>1, <1>3, <2>1, <2>2, <2>4 DEF Register, AddMultitask, At
        <3>2. PICK n \in 1 .. 2 : n = request[c].n_prompts /\ n > 1
            BY <2>1
        <3>3. 0 < n
            BY <3>2
        <3>4. posted'[c] = 0
            BY <3>1
        <3>5. posted'[c] < request[c].n_prompts
            BY <3>2, <3>3, <3>4
        <3>. QED
            BY <3>1, <3>4, <3>5
    <2>5. CASE PostTask(c)
        BY <2>1, <2>2, <2>5 DEF PostTask, At
    <2>6. CASE Recv(c) \/ BreakEarly(c) \/ Leave(c) \/ Cancel(c)
        <3>1. posted' = posted /\ pc[c] \in {"recv", "leave", "cancel"}
              /\ pc'[c] \in {"recv", "leave", "cancel", "done"}
            BY <1>1, <2>6 DEF Recv, BreakEarly, Leave, Cancel, At
        <3>. QED
            BY <2>2, <3>1
    <2>. QED
        BY <2>3, <2>4, <2>5, <2>6 DEF Client
<1>4. \A d \in Callers : IsMulti(d)' <=> IsMulti(d)
    BY <1>1 DEF IsMulti, IsCompletion
<1>. QED
    BY <1>1, <1>2, <1>3, <1>4 DEF SubtasksPosted

\* The result that recv takes.
LEMMA FirstResult ==
    ASSUME TypeInv, NEW c \in Callers, Recv(c), NEW k, k = Taken(c)
    PROVE  /\ k \in 1 .. Len(queue_results) /\ queue_results[k].id = c
           /\ \A j \in DOMAIN queue_results : queue_results[j].id = c => k <= j
           /\ queue_results' = RemoveAt(queue_results, k)
           /\ received' = [received EXCEPT ![c] = Append(received[c], queue_results[k])]
<1>1. queue_results \in Seq(AResult)
    BY DEF TypeInv, TypeOK
<1>2. DOMAIN queue_results = 1 .. Len(queue_results) /\ Len(queue_results) \in Nat
    BY <1>1, LenProperties
<1>3. ResultsFor(c) \in SUBSET Nat /\ ResultsFor(c) # {}
    BY <1>2 DEF ResultsFor, Recv
<1>4. k \in ResultsFor(c) /\ \A j \in ResultsFor(c) : k <= j
    BY <1>3, MinIsLeast DEF Taken
<1>. QED
    BY <1>2, <1>4 DEF ResultsFor, Recv

LEMMA ClientTypes ==
    ASSUME WorkInv, TypeInv, NEW c \in Callers, Client(c)
    PROVE  TypeInv'
<1>1. /\ request' = request /\ queue_tasks_deferred' = queue_tasks_deferred
      /\ loop' = loop /\ slots' = slots /\ batch' = batch /\ stopped' = stopped
    BY ClientLeaves
<1>2. /\ ATask' = ATask /\ AResult' = AResult /\ AMultitask' = AMultitask /\ ASlot' = ASlot
    BY <1>1, TypesStay
<1>3. /\ queue_tasks \in Seq(ATask) /\ queue_results \in Seq(AResult)
      /\ queue_multitasks \in Seq(AMultitask) /\ waiting_task_ids \subseteq Clients
    BY DEF TypeInv, TypeOK
<1>4. c \in Clients /\ request[c].type \in Types
    BY Asked DEF WorkInv
<1>5. queue_tasks' \in Seq(ATask)
    <2>1. CASE PostTask(c)
        <3>1. TaskOf(c) \in ATask
            BY <1>4 DEF TaskOf, Task, ATask, TaskIds, Types
        <3>. QED
            BY <1>3, <2>1, <3>1, AppendProperties DEF PostTask, Post
    <2>2. CASE PostSubtask(c)
        <3>1. /\ IsMulti(c) /\ posted[c] + 1 \in 1 .. request[c].n_prompts
              /\ queue_tasks' = Append(queue_tasks, SubTask(c, posted[c] + 1))
            BY <2>2, SubtaskPosted DEF TypeInv
        <3>2. <<c, posted[c] + 1>> \in Ids
            BY <3>1 DEF Ids, SubIds
        <3>3. SubTask(c, posted[c] + 1) \in ATask
            BY <1>4, <3>2 DEF SubTask, Task, ATask, TaskIds
        <3>. QED
            BY <1>3, <3>1, <3>3, AppendProperties
    <2>3. CASE Cancel(c)
        <3>1. CancelTask(c) \in ATask
            BY <1>4 DEF CancelTask, Task, ATask, TaskIds
        <3>. QED
            BY <1>3, <2>3, <3>1, AppendProperties DEF Cancel, Post
    <2>4. CASE Register(c) \/ AddMultitask(c) \/ Recv(c) \/ BreakEarly(c) \/ Leave(c)
        BY <1>3, <2>4 DEF Register, AddMultitask, Recv, BreakEarly, Leave, queueVars
    <2>. QED
        BY <2>1, <2>2, <2>3, <2>4 DEF Client
<1>6. queue_multitasks' \in Seq(AMultitask)
    <2>1. CASE AddMultitask(c)
        <3>1. SubIds(c) \subseteq Ids /\ <<>> \in Seq(AResult)
            BY DEF Ids
        <3>2. [id |-> c, remaining |-> SubIds(c), results |-> <<>>] \in AMultitask
            BY <1>4, <3>1 DEF AMultitask
        <3>. QED
            BY <1>3, <2>1, <3>2, AppendProperties DEF AddMultitask
    <2>2. CASE ~AddMultitask(c)
        <3>1. queue_multitasks' = queue_multitasks
            BY <2>2 DEF Client, Register, PostTask, PostSubtask, Recv, BreakEarly, Leave, Cancel,
                        resultVars
        <3>. QED
            BY <1>3, <3>1
    <2>. QED
        BY <2>1, <2>2
<1>7. queue_results' \in Seq(AResult)
    <2>1. CASE Recv(c)
        BY <1>3, <2>1, FirstResult, RemovedAt
    <2>2. CASE ~Recv(c)
        <3>1. queue_results' = queue_results
            BY <2>2 DEF Client, Register, PostTask, AddMultitask, PostSubtask, BreakEarly, Leave,
                        Cancel, resultVars
        <3>. QED
            BY <1>3, <3>1
    <2>. QED
        BY <2>1, <2>2
<1>8. waiting_task_ids' \subseteq Clients
    BY <1>3, <1>4 DEF Client, Register, PostTask, AddMultitask, PostSubtask, Recv, BreakEarly, Leave,
                      Cancel
<1>9. TypeOK'
    BY <1>1, <1>2, <1>5, <1>6, <1>7, <1>8 DEF TypeInv, TypeOK
<1>. QED
    BY <1>1, <1>9, SubtasksPostedClient DEF TypeInv

LEMMA TypeStep ==
    ASSUME WorkInv, TypeInv, [Next]_vars
    PROVE  TypeInv'
<1>1. CASE UNCHANGED vars
    <2>1. /\ request' = request /\ pc' = pc /\ posted' = posted
          /\ waiting_task_ids' = waiting_task_ids
          /\ queue_tasks' = queue_tasks /\ queue_tasks_deferred' = queue_tasks_deferred
          /\ queue_multitasks' = queue_multitasks /\ queue_results' = queue_results
          /\ loop' = loop /\ slots' = slots /\ batch' = batch /\ stopped' = stopped
        BY <1>1 DEF vars, mainVars, queueVars, clientVars, resultVars
    <2>. QED
        BY <2>1, MainTypes DEF TypeInv, TypeOK
<1>2. CASE MainLoop
    BY <1>2, ProcessTaskTypes, FinishTypes, UpdateTypes, DecodeTypes DEF MainLoop
<1>3. ASSUME NEW c \in Callers, Client(c)
      PROVE  TypeInv'
    BY <1>3, ClientTypes
<1>. QED
    BY <1>1, <1>2, <1>3 DEF Next

\* The queues, the multitasks and the slots keep their types.
THEOREM TypesKept == Spec => []TypeOK
<1>1. TypeInv => TypeOK
    BY DEF TypeInv
<1>. QED
    BY <1>1, WorkInit, WorkStep, TypeInit, TypeStep, PTL DEF Spec

-----------------------------------------------------------------------------
(* Whose tasks, slots and multitasks are.                                  *)

\* The id and the multitask of a task of client c.
Owned(id, id_multi, c) ==
    /\ c \in Callers
    /\ id \in SubIds(c)
    /\ id_multi = IF IsMulti(c) THEN c ELSE None

OwnedTask(t) ==
    \/ t.type = "next response" /\ t.id = None
    \/ t.type = "cancel" /\ t.id = None /\ t.client \in Callers /\ pc[t.client] = "done"
    \/ Owned(t.id, t.id_multi, t.client) /\ t.type = request[t.client].type

OwnedTasks(q) == \A i \in DOMAIN q : OwnedTask(q[i])

OwnedSlots(ss) ==
    \A s \in Slots : Works(ss[s]) =>
        /\ Owned(ss[s].id_task, ss[s].id_multi, ss[s].client)
        /\ IsCompletion(ss[s].client)

\* The multitasks are those of different clients, who are past adding them.
OwnMultis(multis) ==
    /\ \A i \in DOMAIN multis :
        /\ multis[i].id \in Callers /\ IsMulti(multis[i].id)
        /\ pc[multis[i].id] \notin {"start", "add multitask"}
    /\ \A i, j \in DOMAIN multis : multis[i].id = multis[j].id => i = j

\* A client is registered before it posts a task, except for those that post first.
Registered ==
    \A c \in Callers :
        ~PostsFirst(c) /\ pc[c] \in {"post", "add multitask", "post subtasks", "recv"}
        => c \in waiting_task_ids

Going(r) == r.state = "processing" /\ r.command = "none"

OwnInv ==
    /\ OwnedTasks(queue_tasks) /\ OwnedTasks(queue_tasks_deferred)
    /\ OwnedSlots(slots)
    /\ OwnMultis(queue_multitasks)
    /\ Registered
    /\ loop = "decode" => \A s \in batch : Going(slots[s])

LEMMA OwnInit == Init => OwnInv
<1>. SUFFICES ASSUME Init PROVE OwnInv
    OBVIOUS
<1>1. OwnedTasks(<<>>) /\ OwnMultis(<<>>)
    BY DEF OwnedTasks, OwnMultis
<1>2. OwnedSlots(slots)
    BY DEF Init, IdleSlot, OwnedSlots, Works
<1>3. Registered
    BY DEF Init, Registered, Callers
<1>. QED
    BY <1>1, <1>2, <1>3 DEF Init, OwnInv

\* The main thread leaves alone what ownership depends on.
LEMMA OwnStays ==
    ASSUME request' = request, pc' = pc
    PROVE  /\ \A q : OwnedTasks(q) => OwnedTasks(q)'
           /\ \A ss : OwnedSlots(ss) => OwnedSlots(ss)'
           /\ \A multis : OwnMultis(multis) => OwnMultis(multis)'
<1>1. \A c : (IsMulti(c)' <=> IsMulti(c)) /\ (IsCompletion(c)' <=> IsCompletion(c))
    BY DEF IsMulti, IsCompletion
<1>2. \A id, id_multi, c : Owned(id, id_multi, c) => Owned(id, id_multi, c)'
    BY DEF Owned, Callers, SubIds, IsMulti, IsCompletion
<1>3. \A t : OwnedTask(t) => OwnedTask(t)'
    BY <1>2 DEF OwnedTask, Callers
<1>4. \A q : OwnedTasks(q) => OwnedTasks(q)'
    BY <1>3 DEF OwnedTasks
<1>5. \A ss : OwnedSlots(ss) => OwnedSlots(ss)'
    BY <1>1, <1>2 DEF OwnedSlots
<1>6. \A multis : OwnMultis(multis) => OwnMultis(multis)'
    BY <1>1 DEF OwnMultis, Callers
<1>. QED
    BY <1>4, <1>5, <1>6

LEMMA AppendOwned ==
    ASSUME NEW q \in Seq(ATask), OwnedTasks(q), NEW t \in ATask, OwnedTask(t)
    PROVE  OwnedTasks(Append(q, t))
<1>1. /\ Append(q, t) \in Seq(ATask) /\ Len(Append(q, t)) = Len(q) + 1
      /\ \A i \in 1 .. Len(q) : Append(q, t)[i] = q[i]
      /\ Append(q, t)[Len(q) + 1] = t
    BY AppendProperties
<1>2. DOMAIN q = 1 .. Len(q) /\ Len(q) \in Nat /\ DOMAIN Append(q, t) = 1 .. Len(q) + 1
    BY <1>1, LenProperties
<1>3. \A i \in DOMAIN Append(q, t) :
          (i \in DOMAIN q /\ Append(q, t)[i] = q[i]) \/ Append(q, t)[i] = t
    BY <1>1, <1>2
<1>. QED
    BY <1>3 DEF OwnedTasks

LEMMA TailOwned ==
    ASSUME NEW q \in Seq(ATask), OwnedTasks(q), q # <<>>
    PROVE  OwnedTasks(Tail(q)) /\ OwnedTask(Head(q)) /\ Head(q) \in ATask /\ Tail(q) \in Seq(ATask)
<1>1. /\ Head(q) \in ATask /\ Tail(q) \in Seq(ATask)
      /\ Len(Tail(q)) = Len(q) - 1
      /\ \A i \in 1 .. Len(Tail(q)) : Tail(q)[i] = q[i + 1]
    BY HeadTailProperties
<1>2. /\ DOMAIN q = 1 .. Len(q) /\ Len(q) \in Nat \ {0}
      /\ DOMAIN Tail(q) = 1 .. Len(q) - 1 /\ Head(q) = q[1]
    BY <1>1, LenProperties, EmptySeq
<1>3. \A i \in DOMAIN Tail(q) : i + 1 \in DOMAIN q /\ Tail(q)[i] = q[i + 1]
    BY <1>1, <1>2
<1>4. 1 \in DOMAIN q
    BY <1>2
<1>. QED
    BY <1>1, <1>2, <1>3, <1>4 DEF OwnedTasks

LEMMA ConcatOwned ==
    ASSUME NEW q \in Seq(ATask), OwnedTasks(q), NEW d \in Seq(ATask), OwnedTasks(d)
    PROVE  OwnedTasks(q \o d)
<1>1. /\ q \o d \in Seq(ATask)
      /\ Len(q \o d) = Len(q) + Len(d)
      /\ \A i \in 1 .. Len(q) + Len(d) : (q \o d)[i] = IF i <= Len(q) THEN q[i] ELSE d[i - Len(q)]
    BY ConcatProperties
<1>2. /\ DOMAIN q = 1 .. Len(q) /\ Len(q) \in Nat
      /\ DOMAIN d = 1 .. Len(d) /\ Len(d) \in Nat
      /\ DOMAIN (q \o d) = 1 .. Len(q) + Len(d)
    BY <1>1, LenProperties
<1>3. \A i \in DOMAIN (q \o d) :
          \/ i \in DOMAIN q /\ (q \o d)[i] = q[i]
          \/ i - Len(q) \in DOMAIN d /\ (q \o d)[i] = d[i - Len(q)]
    BY <1>1, <1>2
<1>. QED
    BY <1>3 DEF OwnedTasks

LEMMA RequeuedOwned ==
    ASSUME TypeInv, OwnInv
    PROVE  OwnedTasks(Requeued.tasks) /\ OwnedTasks(Requeued.deferred)
<1>1. /\ queue_tasks \in Seq(ATask) /\ queue_tasks_deferred \in Seq(ATask)
      /\ OwnedTasks(queue_tasks) /\ OwnedTasks(queue_tasks_deferred) /\ OwnedTasks(<<>>)
    BY DEF TypeInv, TypeOK, OwnInv, OwnedTasks
<1>2. OwnedTasks(queue_tasks \o queue_tasks_deferred)
    BY <1>1, ConcatOwned
<1>. QED
    BY <1>1, <1>2 DEF Requeued

LEMMA SendOwn ==
    ASSUME NEW q \in Qs, NEW r \in AResult, OwnMultis(q.multis)
    PROVE  OwnMultis(Send(q, r).multis)
<1>1. PICK s : s = Send(q, r)
    OBVIOUS
<1>2. DOMAIN s.multis = DOMAIN q.multis /\ \A i \in DOMAIN q.multis : s.multis[i].id = q.multis[i].id
    BY <1>1, SendDoes
<1>. QED
    BY <1>1, <1>2 DEF OwnMultis

LEMMA SentForOwn ==
    ASSUME Results \in Qs, NEW S, NEW ss \in [Slots -> ASlot],
           NEW kind \in {"partial", "final", "error"}, OwnMultis(Results.multis)
    PROVE  OwnMultis(SentFor(S, ss, kind).multis)
<1>1. PICK f : Sending(f, S, ss, kind)
    BY SentForSends
<1>. DEFINE G == {s \in 0 .. NSlots : OwnMultis(f[s].multis)}
<1>2. 0 \in G
    BY <1>1, NSlotsAssumption DEF Sending
<1>3. ASSUME NEW s \in Slots, s \in G
      PROVE  s + 1 \in G
    <2>1. s \in 0 .. NSlots /\ s + 1 \in 0 .. NSlots
        BY NSlotsAssumption DEF Slots
    <2>2. f[s] \in Qs /\ OwnMultis(f[s].multis)
        BY <1>1, <1>3, <2>1 DEF Sending
    <2>3. SlotResult(ss[s], kind) \in AResult
        BY SlotResultTyped
    <2>4. OwnMultis(f[s + 1].multis)
        BY <1>1, <2>2, <2>3, SendOwn DEF Sending
    <2>. QED
        BY <2>1, <2>4
<1>. HIDE DEF G
<1>4. NSlots \in G
    BY <1>2, <1>3, SlotInduction, NSlotsAssumption
<1>. QED
    BY <1>1, <1>4 DEF G, Sending

LEMMA SetOwn ==
    ASSUME NEW q, OwnMultis(q.multis), SetResults(q)
    PROVE  OwnMultis(queue_multitasks')
BY DEF SetResults

\* A step of the main thread keeps what is left to be said of OwnInv.
LEMMA MainOwn ==
    ASSUME OwnInv, request' = request, pc' = pc, waiting_task_ids' = waiting_task_ids,
           OwnedTasks(queue_tasks'), OwnedTasks(queue_tasks_deferred'), OwnedSlots(slots'),
           OwnMultis(queue_multitasks'), loop' = "decode" => \A s \in batch' : Going(slots'[s])
    PROVE  OwnInv'
<1>1. Registered'
    BY DEF OwnInv, Registered, PostsFirst, Callers
<1>2. OwnedTasks(queue_tasks)' /\ OwnedTasks(queue_tasks_deferred)'
    BY OwnStays
<1>3. OwnedSlots(slots)' /\ OwnMultis(queue_multitasks)'
    BY OwnStays
<1>4. (loop = "decode" => \A s \in batch : Going(slots[s]))'
    BY DEF Going
<1>. QED
    BY <1>1, <1>2, <1>3, <1>4 DEF OwnInv

-----------------------------------------------------------------------------
(* What becomes of the slots.                                              *)

Loads(r) == r.state = "idle" /\ r.command = "load prompt"

\* Two slots work for the same task.
Alike(a, b) == a.id_task = b.id_task /\ a.id_multi = b.id_multi /\ a.client = b.client

LEMMA WorksHow == \A r : Works(r) <=> Loads(r) \/ Going(r)
BY DEF Works, Loads, Going

LEMMA ReleaseDoes ==
    ASSUME NEW r \in ASlot
    PROVE  /\ Alike(Release(r), r)
           /\ Works(Release(r)) <=> Loads(r)
           /\ Loads(r) => Release(r) = r
BY DEF ASlot, Release, Alike, Works, Loads

LEMMA ReleasedDoes ==
    ASSUME TypeInv, NEW s \in Slots
    PROVE  /\ Works(Released(slots)[s]) <=> Works(slots[s])
           /\ Works(slots[s]) => Released(slots)[s] = slots[s]
<1>1. slots[s] \in ASlot
    BY DEF TypeInv, TypeOK
<1>2. Released(slots)[s] = IF slots[s].command = "release"
                           THEN [slots[s] EXCEPT !.state = "idle", !.command = "none"] ELSE slots[s]
    BY DEF Released
<1>. QED
    BY <1>1, <1>2 DEF ASlot, Works

LEMMA LoadedDoes ==
    ASSUME NEW ss \in [Slots -> ASlot], NEW s \in Slots
    PROVE  /\ Works(Loaded(ss, s)) <=> Works(ss[s]) /\ ~(Visited(ss, s) /\ ss[s].prompt = 0)
           /\ Alike(Loaded(ss, s), ss[s])
           /\ Going(ss[s]) => Loaded(ss, s) = ss[s]
           /\ Visited(ss, s) => Loads(ss[s])
<1>. DEFINE left == ss[s].prompt - (TokensBefore(ss)[s + 1] - TokensBefore(ss)[s])
<1>1. ss[s] \in ASlot
    OBVIOUS
<1>2. Visited(ss, s) => Loads(ss[s])
    BY DEF Visited, Loading, Loads
<1>3. \/ ~Visited(ss, s) /\ Loaded(ss, s) = ss[s]
      \/ /\ Visited(ss, s) /\ ss[s].prompt = 0
         /\ Loaded(ss, s) = [ss[s] EXCEPT !.state = "processing", !.command = "release"]
      \/ /\ Visited(ss, s) /\ ss[s].prompt # 0
         /\ Loaded(ss, s) = [ss[s] EXCEPT !.state = "processing", !.command = "none",
                                          !.prompt = 0, !.n_decoded = 0]
      \/ /\ Visited(ss, s) /\ ss[s].prompt # 0
         /\ Loaded(ss, s) = [ss[s] EXCEPT !.prompt = left]
    BY DEF Loaded
<1>. HIDE DEF left
<1>. QED
    BY <1>1, <1>2, <1>3 DEF ASlot, Works, Loads, Going, Alike

\* The slots with an empty prompt are done, and others go on.
LEMMA UpdatedSlots ==
    ASSUME TypeInv, UpdateBusy, NEW ss, ss = Released(slots),
           NEW empty, empty = {s \in Slots : Visited(ss, s) /\ ss[s].prompt = 0}
    PROVE  /\ ss \in [Slots -> ASlot] /\ empty \subseteq Slots
           /\ SetResults(SentFor(empty, ss, "final"))
           /\ \A s \in Slots :
                /\ s \in empty => Loads(slots[s]) /\ ss[s] = slots[s]
                /\ Works(slots'[s]) <=> Works(slots[s]) /\ s \notin empty
                /\ Works(slots[s]) => Alike(slots'[s], slots[s])
                /\ Going(slots[s]) => slots'[s] = slots[s]
<1>1. ss \in [Slots -> ASlot]
    BY ReleasedTyped
<1>2. /\ slots' = [s \in Slots |-> Loaded(ss, s)]
      /\ SetResults(SentFor(empty, ss, "final"))
    BY DEF UpdateBusy
<1>3. ASSUME NEW s \in Slots
      PROVE  /\ s \in empty => Loads(slots[s]) /\ ss[s] = slots[s]
             /\ Works(slots'[s]) <=> Works(slots[s]) /\ s \notin empty
             /\ Works(slots[s]) => Alike(slots'[s], slots[s])
             /\ Going(slots[s]) => slots'[s] = slots[s]
    <2>1. slots'[s] = Loaded(ss, s)
        BY <1>2
    <2>2. /\ Works(ss[s]) <=> Works(slots[s])
          /\ Works(slots[s]) => ss[s] = slots[s]
        BY ReleasedDoes
    <2>3. s \in empty <=> Visited(ss, s) /\ ss[s].prompt = 0
        OBVIOUS
    <2>4. /\ Works(Loaded(ss, s)) <=> Works(ss[s]) /\ ~(Visited(ss, s) /\ ss[s].prompt = 0)
          /\ Alike(Loaded(ss, s), ss[s])
          /\ Going(ss[s]) => Loaded(ss, s) = ss[s]
          /\ Visited(ss, s) => Loads(ss[s])
        BY <1>1, LoadedDoes
    <2>5. /\ Works(ss[s]) <=> Loads(ss[s]) \/ Going(ss[s])
          /\ Works(slots[s]) <=> Loads(slots[s]) \/ Going(slots[s])
        BY WorksHow
    <2>. QED
        BY <2>1, <2>2, <2>3, <2>4, <2>5
<1>. QED
    BY <1>1, <1>2, <1>3

\* A slot takes the task at the front, and a new system prompt stops others.
LEMMA LaunchedSlots ==
    ASSUME TypeInv, NEW t \in ATask, NEW s \in Slots, Launch(t, s)
    PROVE  /\ ~Works(slots[s])
           /\ \A r \in Slots \ {s} :
                /\ Works(slots'[r]) => slots'[r] = slots[r]
                /\ ~request[t.client].system => slots'[r] = slots[r]
           /\ request[t.client].valid =>
                /\ Loads(slots'[s]) /\ slots'[s].id_task = t.id
                /\ slots'[s].id_multi = t.id_multi /\ slots'[s].client = t.client
                /\ queue_multitasks' = queue_multitasks /\ queue_results' = queue_results
           /\ ~request[t.client].valid =>
                /\ ~Works(slots'[s])
                /\ SetResults(Send(Results, Result(t.id, t.id_multi, "error", 0)))
<1>1. slots \in [Slots -> ASlot]
    BY DEF TypeInv, TypeOK
<1>2. /\ SlotsFor(t) \in [Slots -> ASlot]
      /\ \A r \in Slots :
            /\ SlotsFor(t)[r] = slots[r] \/ SlotsFor(t)[r] = Release(slots[r])
            /\ ~request[t.client].system => SlotsFor(t)[r] = slots[r]
    BY <1>1, ReleaseTyped DEF SlotsFor
<1>3. ASSUME NEW r \in Slots, Works(SlotsFor(t)[r])
      PROVE  SlotsFor(t)[r] = slots[r]
    <2>1. slots[r] \in ASlot
        BY <1>1
    <2>. QED
        BY <1>2, <1>3, <2>1, ReleaseDoes
<1>4. slots[s].state = "idle" /\ slots[s].command = "none"
    BY DEF Launch, Available
<1>5. ~Works(slots[s])
    BY <1>4 DEF Works
<1>. DEFINE a == Assigned(SlotsFor(t)[s], t)
<1>6. /\ a \in ASlot
      /\ a.id_task = t.id /\ a.id_multi = t.id_multi /\ a.client = t.client
      /\ a.state = "idle" /\ a.command = "none"
    <2>1. SlotsFor(t)[s] = slots[s]
        BY <1>2, <1>4 DEF Release
    <2>2. slots[s] \in ASlot
        BY <1>1
    <2>. QED
        BY <1>4, <2>1, <2>2 DEF Assigned, ASlot, ATask
<1>7. ASSUME request[t.client].valid
      PROVE  /\ Loads(slots'[s]) /\ slots'[s].id_task = t.id
             /\ slots'[s].id_multi = t.id_multi /\ slots'[s].client = t.client
             /\ queue_multitasks' = queue_multitasks /\ queue_results' = queue_results
             /\ \A r \in Slots \ {s} : slots'[r] = SlotsFor(t)[r]
    <2>. DEFINE p == request[t.client].prompt
    <2>1. /\ slots' = [SlotsFor(t) EXCEPT ![s] = [a EXCEPT !.command = "load prompt", !.prompt = p]]
          /\ queue_multitasks' = queue_multitasks /\ queue_results' = queue_results
        BY <1>2, <1>7 DEF Launch, resultVars
    <2>. HIDE DEF p, a
    <2>2. slots'[s] = [a EXCEPT !.command = "load prompt", !.prompt = p]
        BY <1>2, <2>1
    <2>. QED
        BY <1>2, <1>6, <2>1, <2>2 DEF ASlot, Loads
<1>8. ASSUME ~request[t.client].valid
      PROVE  /\ ~Works(slots'[s])
             /\ SetResults(Send(Results, Result(t.id, t.id_multi, "error", 0)))
             /\ \A r \in Slots \ {s} : slots'[r] = SlotsFor(t)[r]
    <2>1. /\ slots' = [SlotsFor(t) EXCEPT ![s] = a]
          /\ SetResults(Send(Results, Result(t.id, t.id_multi, "error", 0)))
        BY <1>2, <1>8 DEF Launch
    <2>. HIDE DEF a
    <2>. QED
        BY <1>2, <1>6, <2>1 DEF Works
<1>. QED
    BY <1>2, <1>3, <1>5, <1>7, <1>8

\* CancelSlot releases at most one slot, which works for the client that cancels.
LEMMA CancelledSlots ==
    ASSUME TypeInv, NEW t, CancelSlot(t), NEW s \in Slots
    PROVE  /\ Works(slots'[s]) => slots'[s] = slots[s]
           /\ Works(slots[s]) /\ slots[s].id_task # t.client => slots'[s] = slots[s]
<1>. DEFINE mine == {r \in Slots : slots[r].id_task = t.client}
<1>1. slots \in [Slots -> ASlot] /\ slots[s] \in ASlot
    BY DEF TypeInv, TypeOK
<1>2. slots' = IF mine = {} THEN slots ELSE [slots EXCEPT ![Min(mine)] = Release(slots[Min(mine)])]
    BY DEF CancelSlot
<1>3. mine # {} => slots[Min(mine)].id_task = t.client
    <2>1. mine \in SUBSET Nat
        BY DEF Slots
    <2>2. mine # {} => Min(mine) \in mine
        <3>. HIDE DEF mine
        <3>. QED
            BY <2>1, MinIsLeast
    <2>. QED
        BY <2>2
<1>. HIDE DEF mine
<1>4. slots'[s] = slots[s] \/ (slots'[s] = Release(slots[s]) /\ slots[s].id_task = t.client)
    BY <1>1, <1>2, <1>3
<1>. QED
    BY <1>1, <1>4, ReleaseDoes

-----------------------------------------------------------------------------
(* Ownership is kept.                                                      *)

\* The head of the queue, and what is left of the queue.
LEMMA TakenTask ==
    ASSUME WorkInv, TypeInv, OwnInv, ProcessTask, NEW t, t = Head(queue_tasks)
    PROVE  /\ t \in ATask /\ OwnedTask(t)
           /\ t.type = "completion" => t.client \in Callers /\ IsCompletion(t.client)
           /\ t.id \in TaskIds
           /\ queue_tasks' = Tail(queue_tasks) /\ queue_tasks' \in Seq(ATask)
           /\ OwnedTasks(queue_tasks')
           /\ loop = "tasks" /\ loop' = loop /\ batch' = batch /\ stopped' = stopped
           /\ request' = request /\ pc' = pc /\ posted' = posted /\ received' = received
           /\ waiting_task_ids' = waiting_task_ids
           /\ (\E s \in Slots : Launch(t, s)) \/ Defer(t) \/ Answer(t) \/ CancelSlot(t) \/ Skip(t)
<1>1. /\ queue_tasks \in Seq(ATask) /\ OwnedTasks(queue_tasks)
      /\ queue_tasks # <<>> /\ queue_tasks' = Tail(queue_tasks)
    BY DEF TypeInv, TypeOK, OwnInv, ProcessTask
<1>2. /\ t \in ATask /\ OwnedTask(t) /\ queue_tasks' \in Seq(ATask) /\ OwnedTasks(queue_tasks')
    BY <1>1, TailOwned
<1>3. t.type = "completion" => t.client \in Callers /\ IsCompletion(t.client)
    BY <1>1, TailTasks DEF WorkInv, QueueShape
<1>4. t.id \in TaskIds
    BY <1>2 DEF ATask
<1>. QED
    BY <1>1, <1>2, <1>3, <1>4 DEF ProcessTask, clientVars

LEMMA ResultTyped ==
    ASSUME NEW id \in TaskIds, NEW id_multi \in Clients \cup {None},
           NEW kind \in {"partial", "final", "error"}, NEW n \in Nat
    PROVE  Result(id, id_multi, kind, n) \in AResult
BY DEF Result, AResult

LEMMA ProcessTaskOwn ==
    ASSUME WorkInv, TypeInv, OwnInv, ProcessTask
    PROVE  OwnInv'
<1>1. PICK t : t = Head(queue_tasks)
    OBVIOUS
<1>2. /\ t \in ATask /\ OwnedTask(t)
      /\ t.type = "completion" => t.client \in Callers /\ IsCompletion(t.client)
      /\ OwnedTasks(queue_tasks')
      /\ loop = "tasks" /\ loop' = loop
      /\ request' = request /\ pc' = pc /\ waiting_task_ids' = waiting_task_ids
      /\ (\E s \in Slots : Launch(t, s)) \/ Defer(t) \/ Answer(t) \/ CancelSlot(t) \/ Skip(t)
    BY <1>1, TakenTask
<1>3. /\ OwnedTasks(queue_tasks_deferred) /\ OwnedSlots(slots) /\ OwnMultis(queue_multitasks)
      /\ queue_tasks_deferred \in Seq(ATask) /\ Results \in Qs /\ Results.multis = queue_multitasks
    BY ResultsTyped DEF OwnInv, TypeInv, TypeOK, Results
<1>4. \A kind \in {"final", "error"} :
          /\ Result(t.id, t.id_multi, kind, 0) \in AResult
          /\ Result(t.id, None, kind, 0) \in AResult
    BY <1>2 DEF ATask, AResult, Result
<1>5. ASSUME NEW s \in Slots, Launch(t, s)
      PROVE  /\ OwnedTasks(queue_tasks_deferred') /\ OwnedSlots(slots') /\ OwnMultis(queue_multitasks')
    <2>1. t.type = "completion" /\ queue_tasks_deferred' = queue_tasks_deferred
        BY <1>5 DEF Launch
    <2>2. Owned(t.id, t.id_multi, t.client) /\ IsCompletion(t.client)
        BY <1>2, <2>1 DEF OwnedTask
    <2>3. /\ \A r \in Slots \ {s} : Works(slots'[r]) => slots'[r] = slots[r]
          /\ request[t.client].valid =>
               /\ slots'[s].id_task = t.id /\ slots'[s].id_multi = t.id_multi
               /\ slots'[s].client = t.client /\ queue_multitasks' = queue_multitasks
          /\ ~request[t.client].valid =>
                /\ ~Works(slots'[s])
                /\ SetResults(Send(Results, Result(t.id, t.id_multi, "error", 0)))
        BY <1>2, <1>5, LaunchedSlots
    <2>4. OwnedSlots(slots')
        BY <1>3, <2>2, <2>3 DEF OwnedSlots
    <2>5. OwnMultis(queue_multitasks')
        BY <1>3, <1>4, <2>3, SendOwn, SetOwn
    <2>. QED
        BY <1>3, <2>1, <2>4, <2>5
<1>6. CASE Defer(t)
    <2>1. /\ queue_tasks_deferred' = Append(queue_tasks_deferred, t) /\ slots' = slots
          /\ queue_multitasks' = queue_multitasks
        BY <1>6 DEF Defer, resultVars
    <2>2. OwnedTasks(queue_tasks_deferred')
        BY <1>2, <1>3, <2>1, AppendOwned
    <2>. QED
        BY <1>2, <1>3, <2>1, <2>2, MainOwn
<1>7. CASE Answer(t)
    <2>1. /\ queue_tasks_deferred' = queue_tasks_deferred /\ slots' = slots
          /\ \E kind \in {"final", "error"} : SetResults(Send(Results, Result(t.id, None, kind, 0)))
        BY <1>7 DEF Answer
    <2>2. OwnMultis(queue_multitasks')
        BY <1>3, <1>4, <2>1, SendOwn, SetOwn
    <2>. QED
        BY <1>2, <1>3, <2>1, <2>2, MainOwn
<1>8. CASE CancelSlot(t)
    <2>1. /\ queue_tasks_deferred' = queue_tasks_deferred /\ queue_multitasks' = queue_multitasks
        BY <1>8 DEF CancelSlot, resultVars
    <2>2. \A s \in Slots : Works(slots'[s]) => slots'[s] = slots[s]
        BY <1>8, CancelledSlots
    <2>3. OwnedSlots(slots')
        BY <1>3, <2>2 DEF OwnedSlots
    <2>. QED
        BY <1>2, <1>3, <2>1, <2>3, MainOwn
<1>9. CASE Skip(t)
    BY <1>2, <1>3, <1>9, MainOwn DEF Skip, resultVars
<1>. QED
    BY <1>2, <1>5, <1>6, <1>7, <1>8, <1>9, MainOwn

LEMMA FinishOwn ==
    ASSUME TypeInv, OwnInv, FinishMultitask
    PROVE  OwnInv'
<1>. DEFINE i == Min(Finished)
            r == Result(queue_multitasks[i].id, None, "final", 0)
            q == Send(Results, r)
<1>1. /\ r \in AResult /\ q \in Qs /\ i \in 1 .. Len(q.multis)
      /\ queue_multitasks' = RemoveAt(q.multis, i)
    BY FirstFinished
<1>2. Results \in Qs /\ OwnMultis(Results.multis)
    BY ResultsTyped DEF OwnInv, Results
<1>3. OwnMultis(q.multis)
    <2>. HIDE DEF r
    <2>. QED
        BY <1>1, <1>2, SendOwn
<1>. HIDE DEF q, i, r
<1>4. q.multis \in Seq(AMultitask)
    BY <1>1 DEF Qs
<1>5. /\ DOMAIN q.multis = 1 .. Len(q.multis) /\ Len(q.multis) \in Nat
      /\ DOMAIN queue_multitasks' = 1 .. Len(q.multis) - 1
      /\ \A j \in 1 .. Len(q.multis) - 1 :
            queue_multitasks'[j] = IF j < i THEN q.multis[j] ELSE q.multis[j + 1]
    BY <1>1, <1>4, RemovedAt, LenProperties
<1>6. /\ \A j \in DOMAIN queue_multitasks' : \E k \in DOMAIN q.multis :
            queue_multitasks'[j] = q.multis[k] /\ k = IF j < i THEN j ELSE j + 1
    BY <1>1, <1>5
<1>7. OwnMultis(queue_multitasks')
    <2>1. \A j \in DOMAIN queue_multitasks' :
            /\ queue_multitasks'[j].id \in Callers /\ IsMulti(queue_multitasks'[j].id)
            /\ pc[queue_multitasks'[j].id] \notin {"start", "add multitask"}
        BY <1>3, <1>6 DEF OwnMultis
    <2>2. ASSUME NEW j \in DOMAIN queue_multitasks', NEW k \in DOMAIN queue_multitasks',
                 queue_multitasks'[j].id = queue_multitasks'[k].id
          PROVE  j = k
        <3>1. PICK a \in DOMAIN q.multis :
                queue_multitasks'[j] = q.multis[a] /\ a = IF j < i THEN j ELSE j + 1
            BY <1>6
        <3>2. PICK b \in DOMAIN q.multis :
                queue_multitasks'[k] = q.multis[b] /\ b = IF k < i THEN k ELSE k + 1
            BY <1>6
        <3>3. a = b
            BY <1>3, <2>2, <3>1, <3>2 DEF OwnMultis
        <3>4. j \in Nat /\ k \in Nat /\ i \in Nat
            BY <1>1, <1>5
        <3>5. a = (IF j < i THEN j ELSE j + 1) /\ a = (IF k < i THEN k ELSE k + 1)
            BY <3>1, <3>2, <3>3
        <3>. QED
            BY <3>4, <3>5
    <2>. QED
        BY <2>1, <2>2 DEF OwnMultis
<1>8. /\ queue_tasks' = queue_tasks /\ queue_tasks_deferred' = queue_tasks_deferred
      /\ loop' = loop /\ slots' = slots /\ batch' = batch
      /\ request' = request /\ pc' = pc /\ waiting_task_ids' = waiting_task_ids
    BY DEF FinishMultitask, queueVars, mainVars, clientVars
<1>. QED
    BY <1>7, <1>8, MainOwn DEF OwnInv

LEMMA UpdateOwn ==
    ASSUME TypeInv, OwnInv, UpdateIdle \/ UpdateBusy
    PROVE  OwnInv'
<1>1. /\ request' = request /\ pc' = pc /\ waiting_task_ids' = waiting_task_ids
      /\ queue_tasks_deferred' = Requeued.deferred
    BY DEF UpdateIdle, UpdateBusy, clientVars
<1>2. OwnedTasks(Requeued.tasks) /\ OwnedTasks(Requeued.deferred) /\ OwnedSlots(slots)
      /\ Requeued.tasks \in Seq(ATask)
    BY RequeuedOwned, ReleasedTyped DEF OwnInv
<1>3. CASE UpdateIdle
    <2>1. /\ slots' = Released(slots) /\ queue_tasks' = Requeued.tasks
          /\ queue_multitasks' = queue_multitasks /\ loop' = "wait"
        BY <1>3 DEF UpdateIdle, resultVars
    <2>2. OwnedSlots(slots')
        BY <1>2, <2>1, ReleasedDoes DEF OwnedSlots
    <2>. QED
        BY <1>1, <1>2, <2>1, <2>2, MainOwn DEF OwnInv
<1>4. CASE UpdateBusy
    <2>1. PICK ss : ss = Released(slots)
        OBVIOUS
    <2>2. PICK empty : empty = {s \in Slots : Visited(ss, s) /\ ss[s].prompt = 0}
        OBVIOUS
    <2>3. /\ ss \in [Slots -> ASlot] /\ SetResults(SentFor(empty, ss, "final"))
          /\ \A s \in Slots :
                /\ Works(slots'[s]) <=> Works(slots[s]) /\ s \notin empty
                /\ Works(slots[s]) => Alike(slots'[s], slots[s])
        BY <1>4, <2>1, <2>2, UpdatedSlots
    <2>4. OwnedSlots(slots')
        BY <1>2, <2>3 DEF OwnedSlots, Alike
    <2>5. OwnMultis(queue_multitasks')
        <3>1. Results \in Qs /\ OwnMultis(Results.multis)
            BY ResultsTyped DEF OwnInv, Results
        <3>2. OwnMultis(SentFor(empty, ss, "final").multis)
            BY <2>3, <3>1, SentForOwn
        <3>. QED
            BY <2>3, <3>2, SetOwn
    <2>6. OwnedTasks(queue_tasks')
        <3>1. OwnedTask(NextResponse)
            BY DEF OwnedTask, NextResponse, Task
        <3>2. queue_tasks' = Append(Requeued.tasks, NextResponse)
            BY <1>4 DEF UpdateBusy, KeptGoing
        <3>. QED
            BY <1>2, <3>1, <3>2, NextResponseTyped, AppendOwned
    <2>7. \A s \in batch' : Going(slots'[s])
        BY <1>4 DEF UpdateBusy, Going
    <2>. QED
        BY <1>1, <1>2, <2>4, <2>5, <2>6, <2>7, MainOwn
<1>. QED
    BY <1>3, <1>4

LEMMA DecodeOwn ==
    ASSUME TypeInv, OwnInv,
           TasksDone \/ MultitasksDone \/ SampleToken \/ StopSlot \/ DecodeFails \/ BatchDone \/ WakeUp
    PROVE  OwnInv'
<1>1. /\ queue_tasks' = queue_tasks /\ queue_tasks_deferred' = queue_tasks_deferred
      /\ request' = request /\ pc' = pc /\ waiting_task_ids' = waiting_task_ids
    BY DEF TasksDone, MultitasksDone, SampleToken, StopSlot, DecodeFails, BatchDone, WakeUp,
           queueVars, clientVars
<1>2. /\ OwnedTasks(queue_tasks) /\ OwnedTasks(queue_tasks_deferred) /\ OwnedSlots(slots)
      /\ OwnMultis(queue_multitasks) /\ Results \in Qs /\ OwnMultis(Results.multis)
      /\ slots \in [Slots -> ASlot]
      /\ loop = "decode" => \A s \in batch : Going(slots[s])
    BY ResultsTyped DEF OwnInv, Results, TypeInv, TypeOK
<1>3. CASE TasksDone \/ MultitasksDone \/ BatchDone \/ WakeUp
    <2>1. /\ queue_multitasks' = queue_multitasks /\ slots' = slots /\ batch' = batch
          /\ loop' # "decode"
        BY <1>3 DEF TasksDone, MultitasksDone, BatchDone, WakeUp, resultVars
    <2>. QED
        BY <1>1, <1>2, <2>1, MainOwn
<1>4. CASE SampleToken
    <2>. DEFINE slot == [slots[Current] EXCEPT !.n_decoded = @ + 1]
    <2>1. /\ slots' = [slots EXCEPT ![Current] = slot] /\ batch # {}
          /\ loop = "decode" /\ batch' \subseteq batch
          /\ \/ SetResults(Send(Results, SlotResult(slot, "partial")))
             \/ queue_multitasks' = queue_multitasks
        BY <1>4 DEF SampleToken, resultVars
    <2>2. Current \in batch /\ Current \in Slots
        BY <2>1, CurrentSlot
    <2>3. slots[Current] \in ASlot /\ Going(slots[Current])
        BY <1>2, <2>1, <2>2
    <2>4. slots[Current].n_decoded + 1 \in Nat
        <3>1. slots[Current].n_decoded \in Nat
            BY <2>3 DEF ASlot
        <3>. QED
            BY <3>1
    <2>5. /\ slot \in ASlot /\ Going(slot) /\ Works(slot) /\ Alike(slot, slots[Current])
        BY <2>3, <2>4 DEF ASlot, Going, Works, Alike
    <2>. HIDE DEF slot
    <2>6. Works(slots[Current])
        BY <2>3 DEF Going, Works
    <2>7. OwnedSlots(slots')
        BY <1>2, <2>1, <2>2, <2>5, <2>6 DEF OwnedSlots, Alike
    <2>8. OwnMultis(queue_multitasks')
        BY <1>2, <2>1, <2>5, SlotResultTyped, SendOwn, SetOwn
    <2>9. \A s \in batch' : Going(slots'[s])
        <3>1. batch \subseteq Slots
            BY DEF TypeInv, TypeOK
        <3>. QED
            BY <1>2, <2>1, <2>5, <3>1
    <2>. QED
        BY <1>1, <1>2, <2>7, <2>8, <2>9, MainOwn
<1>5. CASE StopSlot
    <2>1. /\ slots' = [slots EXCEPT ![Current] = Release(slots[Current])] /\ stopped
          /\ SetResults(Send(Results, SlotResult(slots[Current], "final")))
          /\ batch' = batch \ {Current} /\ loop = "decode"
        BY <1>5 DEF StopSlot
    <2>2. Current \in Slots /\ slots[Current] \in ASlot
        BY <1>2, <2>1, CurrentSlot DEF TypeInv, TypeOK
    <2>3. \A s \in Slots : Works(slots'[s]) => slots'[s] = slots[s]
        BY <1>2, <2>1, <2>2, ReleaseDoes
    <2>4. OwnedSlots(slots')
        BY <1>2, <2>3 DEF OwnedSlots
    <2>5. OwnMultis(queue_multitasks')
        BY <1>2, <2>1, <2>2, SlotResultTyped, SendOwn, SetOwn
    <2>6. \A s \in batch' : Going(slots'[s])
        <3>1. batch \subseteq Slots
            BY DEF TypeInv, TypeOK
        <3>. QED
            BY <1>2, <2>1, <3>1
    <2>. QED
        BY <1>1, <1>2, <2>4, <2>5, <2>6, MainOwn
<1>6. CASE DecodeFails
    <2>1. /\ slots' = [s \in Slots |->
                          [slots[s] EXCEPT !.state = "processing", !.command = "release"]]
          /\ SetResults(SentFor(Slots, slots, "error")) /\ loop' = "wait"
        BY <1>6 DEF DecodeFails
    <2>2. \A r \in ASlot : ~Works([r EXCEPT !.state = "processing", !.command = "release"])
        BY DEF ASlot, Works
    <2>3. OwnedSlots(slots')
        BY <1>2, <2>1, <2>2 DEF OwnedSlots
    <2>4. OwnMultis(SentFor(Slots, slots, "error").multis)
        BY <1>2, SentForOwn
    <2>5. OwnMultis(queue_multitasks')
        BY <2>1, <2>4, SetOwn
    <2>. QED
        BY <1>1, <1>2, <2>1, <2>3, <2>5, MainOwn
<1>. QED
    BY <1>3, <1>4, <1>5, <1>6

\* Where the handler of a request goes, and nobody else.
LEMMA ClientGoes ==
    ASSUME WorkInv, NEW c \in Callers, Client(c)
    PROVE  /\ \A d \in Callers \ {c} : pc'[d] = pc[d] /\ posted'[d] = posted[d]
           /\ pc[c] = "done" => pc'[c] = "done"
           /\ pc'[c] \in {"start", "add multitask"} => pc[c] = "start"
           /\ pc'[c] = "start" => FALSE
           /\ pc'[c] = "post" => pc[c] = "start"
           /\ DOMAIN pc' = Callers
<1>1. DOMAIN pc = Callers /\ posted \in [Callers -> Nat] /\ request' = request
    BY ClientLeaves DEF WorkInv, ClientShape
<1>. QED
    BY <1>1 DEF Client, Register, PostTask, AddMultitask, PostSubtask, Recv, BreakEarly, Leave,
                Cancel, At

LEMMA RegisteredClient ==
    ASSUME WorkInv, OwnInv, NEW c \in Callers, Client(c)
    PROVE  Registered'
<1>1. request' = request /\ Callers' = Callers
    BY ClientLeaves DEF Callers
<1>2. DOMAIN pc = Callers /\ \A d \in Callers \ {c} : pc'[d] = pc[d]
    BY ClientGoes DEF WorkInv, ClientShape
<1>3. \A d \in Callers \ {c} : d \in waiting_task_ids => d \in waiting_task_ids'
    BY DEF Client, Register, PostTask, AddMultitask, PostSubtask, Recv, BreakEarly, Leave, Cancel
<1>4. ASSUME ~PostsFirst(c), pc'[c] \in {"post", "add multitask", "post subtasks", "recv"}
      PROVE  c \in waiting_task_ids'
    <2>0. pc[c] \in {"post", "add multitask", "post subtasks", "recv"} => c \in waiting_task_ids
        BY <1>4 DEF OwnInv, Registered
    <2>1. CASE Register(c)
        BY <2>1 DEF Register
    <2>2. CASE PostTask(c) \/ AddMultitask(c) \/ PostSubtask(c) \/ Recv(c) \/ BreakEarly(c)
        <3>1. waiting_task_ids' = waiting_task_ids
            BY <2>2 DEF PostTask, AddMultitask, PostSubtask, Recv, BreakEarly
        <3>2. pc[c] \in {"post", "add multitask", "post subtasks", "recv"}
            BY <1>4, <2>2 DEF PostTask, AddMultitask, PostSubtask, Recv, BreakEarly, At
        <3>. QED
            BY <2>0, <3>1, <3>2
    <2>3. CASE Leave(c) \/ Cancel(c)
        BY <1>2, <1>4, <2>3 DEF Leave, Cancel, At
    <2>. QED
        BY <2>1, <2>2, <2>3 DEF Client
<1>5. \A d \in Callers : PostsFirst(d)' <=> PostsFirst(d)
    BY <1>1 DEF PostsFirst
<1>. QED
    BY <1>1, <1>2, <1>3, <1>4, <1>5 DEF OwnInv, Registered

LEMMA ClientOwn ==
    ASSUME WorkInv, TypeInv, OwnInv, NEW c \in Callers, Client(c)
    PROVE  OwnInv'
<1>1. /\ request' = request /\ queue_tasks_deferred' = queue_tasks_deferred
      /\ loop' = loop /\ slots' = slots /\ batch' = batch /\ Callers' = Callers
    BY ClientLeaves DEF Callers
<1>2. /\ \A d \in Callers \ {c} : pc'[d] = pc[d]
      /\ pc[c] = "done" => pc'[c] = "done"
      /\ pc'[c] \in {"start", "add multitask"} => pc[c] = "start"
    BY ClientGoes
<1>3. \A d : (IsMulti(d)' <=> IsMulti(d)) /\ (IsCompletion(d)' <=> IsCompletion(d))
    BY <1>1 DEF IsMulti, IsCompletion
<1>4. \A id, id_multi, d : Owned(id, id_multi, d)' <=> Owned(id, id_multi, d)
    BY <1>1 DEF Owned, Callers, SubIds, IsMulti, IsCompletion
<1>5. \A t : OwnedTask(t) => OwnedTask(t)'
    BY <1>1, <1>2, <1>4 DEF OwnedTask
<1>6. \A q : OwnedTasks(q) => OwnedTasks(q)'
    BY <1>5 DEF OwnedTasks
<1>7. OwnedTasks(queue_tasks_deferred)' /\ OwnedSlots(slots)'
      /\ (loop = "decode" => \A s \in batch : Going(slots[s]))'
    <2>1. OwnedTasks(queue_tasks_deferred)'
        BY <1>1, <1>6 DEF OwnInv
    <2>2. OwnedSlots(slots)'
        BY <1>1, <1>3, <1>4 DEF OwnInv, OwnedSlots
    <2>. QED
        BY <1>1, <2>1, <2>2 DEF OwnInv, Going
<1>8. OwnedTasks(queue_tasks)'
    <2>0. queue_tasks \in Seq(ATask) /\ OwnedTasks(queue_tasks) /\ TypeInv'
        BY ClientTypes DEF TypeInv, TypeOK, OwnInv
    <2>1. CASE queue_tasks' = queue_tasks
        BY <1>6, <2>0, <2>1
    <2>2. ASSUME NEW t, queue_tasks' = Append(queue_tasks, t), OwnedTask(t)'
          PROVE  OwnedTasks(queue_tasks)'
        <3>1. /\ Len(Append(queue_tasks, t)) = Len(queue_tasks) + 1
              /\ \A i \in 1 .. Len(queue_tasks) : Append(queue_tasks, t)[i] = queue_tasks[i]
              /\ Append(queue_tasks, t)[Len(queue_tasks) + 1] = t
              /\ DOMAIN Append(queue_tasks, t) = 1 .. Len(queue_tasks) + 1
              /\ DOMAIN queue_tasks = 1 .. Len(queue_tasks) /\ Len(queue_tasks) \in Nat
            <4>1. queue_tasks \in Seq({queue_tasks[i] : i \in DOMAIN queue_tasks} \cup {t} \cup ATask)
                BY <2>0, SeqMonotonic
            <4>. DEFINE V == {queue_tasks[i] : i \in DOMAIN queue_tasks} \cup {t} \cup ATask
            <4>2. queue_tasks \in Seq(V) /\ t \in V
                BY <4>1
            <4>. HIDE DEF V
            <4>. QED
                BY <4>2, AppendProperties, LenProperties
        <3>2. \A i \in DOMAIN queue_tasks' :
                  \/ i \in DOMAIN queue_tasks /\ queue_tasks'[i] = queue_tasks[i]
                  \/ queue_tasks'[i] = t
            BY <2>2, <3>1
        <3>. QED
            BY <1>5, <2>0, <2>2, <3>2 DEF OwnedTasks
    <2>3. CASE PostTask(c)
        <3>1. ~IsMulti(c)
            BY <2>3 DEF PostTask, At, TypeInv, SubtasksPosted, PostsFirst, IsMulti, IsCompletion
        <3>2. OwnedTask(TaskOf(c))
            BY <3>1 DEF OwnedTask, Owned, SubIds, TaskOf, Task
        <3>. QED
            BY <1>5, <2>2, <2>3, <3>2 DEF PostTask, Post
    <2>4. CASE PostSubtask(c)
        <3>1. /\ IsMulti(c) /\ IsCompletion(c) /\ posted[c] + 1 \in 1 .. request[c].n_prompts
              /\ queue_tasks' = Append(queue_tasks, SubTask(c, posted[c] + 1))
            BY <2>4, SubtaskPosted DEF TypeInv
        <3>2. OwnedTask(SubTask(c, posted[c] + 1))
            BY <3>1 DEF OwnedTask, Owned, SubIds, SubTask, Task, IsCompletion
        <3>. QED
            BY <1>5, <2>2, <3>1, <3>2
    <2>5. CASE Cancel(c)
        <3>1. pc'[c] = "done" /\ queue_tasks' = Append(queue_tasks, CancelTask(c))
            BY <2>5 DEF Cancel, Post, At, WorkInv, ClientShape
        <3>2. OwnedTask(CancelTask(c))'
            BY <1>1, <3>1 DEF OwnedTask, CancelTask, Task
        <3>3. PICK t : t = CancelTask(c)
            OBVIOUS
        <3>4. OwnedTask(t)'
            BY <1>1, <3>1, <3>3 DEF OwnedTask, CancelTask, Task
        <3>. QED
            BY <2>2, <3>1, <3>3, <3>4
    <2>6. CASE Register(c) \/ AddMultitask(c) \/ Recv(c) \/ BreakEarly(c) \/ Leave(c)
        BY <2>1, <2>6 DEF Register, AddMultitask, Recv, BreakEarly, Leave, queueVars
    <2>. QED
        BY <2>3, <2>4, <2>5, <2>6 DEF Client
<1>9. OwnMultis(queue_multitasks)'
    <2>0. queue_multitasks \in Seq(AMultitask) /\ OwnMultis(queue_multitasks)
        BY DEF TypeInv, TypeOK, OwnInv
    <2>1. CASE AddMultitask(c)
        <3>. DEFINE m == [id |-> c, remaining |-> SubIds(c), results |-> <<>>]
        <3>1. /\ queue_multitasks' = Append(queue_multitasks, m) /\ m.id = c
              /\ pc[c] = "add multitask" /\ pc'[c] = "post subtasks" /\ IsMulti(c)
            BY <2>1 DEF AddMultitask, At, WorkInv, ClientShape
        <3>2. m \in AMultitask
            BY Asked DEF AMultitask, Ids, WorkInv
        <3>. HIDE DEF m
        <3>. DEFINE old == queue_multitasks
                    new == queue_multitasks'
        <3>3. /\ \A i \in DOMAIN old : new[i] = old[i]
              /\ \A i \in DOMAIN new : i \in DOMAIN old \/ (i = Len(old) + 1 /\ new[i] = m)
            <4>1. old \in Seq(AMultitask) /\ m \in AMultitask /\ new = Append(old, m)
                BY <2>0, <3>1, <3>2
            <4>. HIDE DEF old, new
            <4>. QED
                BY <4>1, Appended
        <3>4. \A i \in DOMAIN old : old[i].id # c
            BY <2>0, <3>1 DEF OwnMultis
        <3>5. \A i \in DOMAIN old :
                /\ old[i].id \in Callers /\ IsMulti(old[i].id)
                /\ pc'[old[i].id] \notin {"start", "add multitask"}
            BY <1>2, <2>0, <3>4 DEF OwnMultis
        <3>6. \A i, j \in DOMAIN old : old[i].id = old[j].id => i = j
            BY <2>0 DEF OwnMultis
        <3>. HIDE DEF old, new
        <3>7. \A i \in DOMAIN new :
                /\ new[i].id \in Callers /\ IsMulti(new[i].id)
                /\ pc'[new[i].id] \notin {"start", "add multitask"}
            BY <3>1, <3>3, <3>5
        <3>8. \A i, j \in DOMAIN new : new[i].id = new[j].id => i = j
            BY <3>1, <3>3, <3>4, <3>6
        <3>. QED
            BY <1>1, <1>3, <3>7, <3>8 DEF OwnMultis, new
    <2>2. CASE ~AddMultitask(c)
        <3>1. queue_multitasks' = queue_multitasks
            BY <2>2 DEF Client, Register, PostTask, PostSubtask, Recv, BreakEarly, Leave, Cancel,
                        resultVars
        <3>. QED
            BY <1>1, <1>2, <1>3, <2>0, <3>1 DEF OwnMultis
    <2>. QED
        BY <2>1, <2>2
<1>. QED
    BY <1>7, <1>8, <1>9, RegisteredClient DEF OwnInv

LEMMA OwnStep ==
    ASSUME WorkInv, TypeInv, OwnInv, [Next]_vars
    PROVE  OwnInv'
<1>1. CASE UNCHANGED vars
    <2>1. /\ request' = request /\ pc' = pc /\ waiting_task_ids' = waiting_task_ids
          /\ queue_tasks' = queue_tasks /\ queue_tasks_deferred' = queue_tasks_deferred
          /\ queue_multitasks' = queue_multitasks
          /\ loop' = loop /\ slots' = slots /\ batch' = batch
        BY <1>1 DEF vars, mainVars, queueVars, clientVars, resultVars
    <2>. QED
        BY <2>1, MainOwn DEF OwnInv
<1>2. CASE MainLoop
    BY <1>2, ProcessTaskOwn, FinishOwn, UpdateOwn, DecodeOwn DEF MainLoop
<1>3. ASSUME NEW c \in Callers, Client(c)
      PROVE  OwnInv'
    BY <1>3, ClientOwn
<1>. QED
    BY <1>1, <1>2, <1>3 DEF Next

-----------------------------------------------------------------------------
(* The places of tasks, once more: the queues and the slots that work.     *)

Queued == {x \in Ids : ~Absent(queue_tasks, x) \/ ~Absent(queue_tasks_deferred, x)}

Working == {s \in Slots : Works(slots[s])}

\* The task is in one of the queues, A, or in one of the slots of W.
InPlace(A, W, ss, x) == x \in A \/ \E s \in W : ss[s].id_task = x

LEMMA OwnedFacts ==
    ASSUME ClientShape, NEW id, NEW id_multi, NEW c, Owned(id, id_multi, c)
    PROVE  /\ c \in Callers /\ c \in Clients /\ id \in Ids /\ id \in RealIds
           /\ ~IsMulti(c) => id = c /\ id_multi = None
           /\ IsMulti(c) => /\ id_multi = c /\ id \notin Clients
                            /\ \E n \in 1 .. request[c].n_prompts : id = <<c, n>>
<1>1. c \in Callers /\ c \in Clients /\ id \in SubIds(c)
    BY Asked DEF Owned
<1>2. id \in Ids
    BY <1>1 DEF Ids
<1>3. CASE ~IsMulti(c)
    BY <1>1, <1>2, <1>3, NoneAssumption DEF Owned, SubIds, RealIds, AnId, Owners
<1>4. CASE IsMulti(c)
    <2>1. PICK n \in 1 .. request[c].n_prompts : id = <<c, n>>
        BY <1>1, <1>4 DEF SubIds
    <2>2. n \in Nat
        <3>1. request[c].type = "completion" /\ request[c] \in Completion \cup Other
            BY <1>1, <1>4, Asked DEF IsMulti, IsCompletion
        <3>3. request[c] \in Completion
            BY <3>1 DEF Other
        <3>2. request[c].n_prompts \in 1 .. 2
            BY <3>3 DEF Completion
        <3>. QED
            BY <3>2
    <2>3. id \in Pairs
        BY <1>1, <2>1, <2>2 DEF Pairs
    <2>4. id \notin Clients /\ id # None
        BY <2>3, PairsAssumption DEF Pairs
    <2>. QED
        BY <1>1, <1>2, <1>4, <2>1, <2>3, <2>4 DEF Owned, RealIds, AnId
<1>. QED
    BY <1>3, <1>4

\* The ids are those of tasks, and none of them is None.
LEMMA IdsReal ==
    ASSUME ClientShape, NEW x \in Ids
    PROVE  x \in RealIds /\ x # None
<1>1. PICK c \in Callers : x \in SubIds(c)
    BY DEF Ids
<1>2. Owned(x, IF IsMulti(c) THEN c ELSE None, c)
    BY <1>1 DEF Owned
<1>. QED
    BY <1>2, OwnedFacts DEF RealIds

LEMMA CallersIds ==
    ASSUME NEW c \in Callers, ~IsMulti(c)
    PROVE  c \in Ids
BY DEF Ids, SubIds

\* No task is in two places, and the slots that work have their tasks from clients.
LEMMA Apart ==
    ASSUME WorkInv, PlaceInv, OwnInv
    PROVE  /\ Working \subseteq Slots
           /\ \A s \in Working : /\ Owned(slots[s].id_task, slots[s].id_multi, slots[s].client)
                                 /\ IsCompletion(slots[s].client)
                                 /\ slots[s].id_task \notin Queued
           /\ \A r, s \in Working : slots[r].id_task = slots[s].id_task => r = s
           /\ \A x \in Queued : Absent(queue_tasks, x) \/ Absent(queue_tasks_deferred, x)
<1>1. \A s \in Working : /\ s \in Slots /\ Works(slots[s])
                         /\ Owned(slots[s].id_task, slots[s].id_multi, slots[s].client)
                         /\ IsCompletion(slots[s].client)
    BY DEF Working, OwnInv, OwnedSlots
<1>2. \A s \in Working : slots[s].id_task \in RealIds /\ slots[s].id_task # None
    BY <1>1, OwnedFacts DEF WorkInv, RealIds
<1>3. ASSUME NEW s \in Working
      PROVE  slots[s].id_task \notin Queued
    BY <1>1, <1>2, <1>3 DEF PlaceInv, Settled, Lone, AbsentSlots, Queued
<1>4. \A r, s \in Working : slots[r].id_task = slots[s].id_task => r = s
    BY <1>1, <1>2 DEF PlaceInv, Settled, OnceSlots
<1>5. \A x \in Queued : Absent(queue_tasks, x) \/ Absent(queue_tasks_deferred, x)
    BY IdsReal DEF Queued, PlaceInv, Settled, Lone, WorkInv
<1>. QED
    BY <1>1, <1>3, <1>4, <1>5

\* A task that was not posted is in no place.
LEMMA NotPosted ==
    ASSUME WorkInv, PlaceInv, NEW x \in Ids, ~Known(x)
    PROVE  ~InPlace(Queued, Working, slots, x)
BY IdsReal DEF PlaceInv, Nowhere, AbsentSlots, InPlace, Queued, Working, WorkInv

LEMMA AbsentTail ==
    ASSUME NEW q \in Seq(ATask), q # <<>>, NEW x
    PROVE  /\ x # Head(q).id => (Absent(Tail(q), x) <=> Absent(q, x))
           /\ ~Absent(q, Head(q).id)
<1>1. /\ Tail(q) \in Seq(ATask)
      /\ Len(Tail(q)) = Len(q) - 1
      /\ \A i \in 1 .. Len(Tail(q)) : Tail(q)[i] = q[i + 1]
    BY HeadTailProperties
<1>2. /\ DOMAIN q = 1 .. Len(q) /\ Len(q) \in Nat \ {0}
      /\ DOMAIN Tail(q) = 1 .. Len(q) - 1 /\ Head(q) = q[1]
    BY <1>1, LenProperties, EmptySeq
<1>3. \A i \in DOMAIN Tail(q) : i + 1 \in DOMAIN q /\ Tail(q)[i] = q[i + 1]
    BY <1>1, <1>2
<1>4. \A i \in DOMAIN q : i = 1 \/ \E j \in DOMAIN Tail(q) : Tail(q)[j] = q[i]
    <2>. SUFFICES ASSUME NEW i \in DOMAIN q, i # 1
                  PROVE  \E j \in DOMAIN Tail(q) : Tail(q)[j] = q[i]
        OBVIOUS
    <2>1. i - 1 \in DOMAIN Tail(q) /\ (i - 1) + 1 = i
        BY <1>2
    <2>. QED
        BY <1>3, <2>1
<1>5. 1 \in DOMAIN q
    BY <1>2
<1>. QED
    BY <1>2, <1>3, <1>4, <1>5 DEF Absent

LEMMA AbsentAppend ==
    ASSUME NEW q \in Seq(ATask), NEW t \in ATask, NEW x
    PROVE  Absent(Append(q, t), x) <=> Absent(q, x) /\ t.id # x
<1>1. PICK r : r = Append(q, t)
    OBVIOUS
<1>2. /\ DOMAIN q \subseteq DOMAIN r
      /\ Len(q) + 1 \in DOMAIN r /\ r[Len(q) + 1] = t
      /\ \A i \in DOMAIN q : r[i] = q[i]
      /\ \A i \in DOMAIN r : i \in DOMAIN q \/ i = Len(q) + 1
    BY <1>1, Appended
<1>. QED
    BY <1>1, <1>2 DEF Absent

LEMMA AbsentConcat ==
    ASSUME NEW q \in Seq(ATask), NEW d \in Seq(ATask), NEW x
    PROVE  Absent(q \o d, x) <=> Absent(q, x) /\ Absent(d, x)
<1>1. /\ q \o d \in Seq(ATask)
      /\ Len(q \o d) = Len(q) + Len(d)
      /\ \A i \in 1 .. Len(q) + Len(d) : (q \o d)[i] = IF i <= Len(q) THEN q[i] ELSE d[i - Len(q)]
    BY ConcatProperties
<1>2. /\ DOMAIN q = 1 .. Len(q) /\ Len(q) \in Nat
      /\ DOMAIN d = 1 .. Len(d) /\ Len(d) \in Nat
      /\ DOMAIN (q \o d) = 1 .. Len(q) + Len(d)
    BY <1>1, LenProperties
<1>3. \A i \in DOMAIN (q \o d) :
          \/ i \in DOMAIN q /\ (q \o d)[i] = q[i]
          \/ i - Len(q) \in DOMAIN d /\ (q \o d)[i] = d[i - Len(q)]
    BY <1>1, <1>2
<1>4. \A i \in DOMAIN q : i \in DOMAIN (q \o d) /\ (q \o d)[i] = q[i]
    BY <1>1, <1>2
<1>5. ASSUME NEW i \in DOMAIN d
      PROVE  i + Len(q) \in DOMAIN (q \o d) /\ (q \o d)[i + Len(q)] = d[i]
    <2>1. i \in Nat /\ i >= 1 /\ ~(i + Len(q) <= Len(q)) /\ (i + Len(q)) - Len(q) = i
        BY <1>2
    <2>. QED
        BY <1>1, <1>2, <2>1
<1>6. Absent(q, x) /\ Absent(d, x) => Absent(q \o d, x)
    BY <1>3 DEF Absent
<1>7. Absent(q \o d, x) => Absent(q, x)
    BY <1>4 DEF Absent
<1>8. Absent(q \o d, x) => Absent(d, x)
    <2>. SUFFICES ASSUME Absent(q \o d, x), NEW i \in DOMAIN d
                  PROVE  d[i].id # x
        BY DEF Absent
    <2>. QED
        BY <1>5 DEF Absent
<1>. QED
    BY <1>6, <1>7, <1>8

\* The task at the front leaves the queues, unless it is deferred.
LEMMA QueuedTaken ==
    ASSUME WorkInv, TypeInv, PlaceInv, OwnInv, ProcessTask, NEW t, t = Head(queue_tasks)
    PROVE  /\ t.id \in Ids => t.id \in Queued
           /\ queue_tasks_deferred' = queue_tasks_deferred => Queued' = Queued \ {t.id}
           /\ queue_tasks_deferred' = Append(queue_tasks_deferred, t) => Queued' = Queued
<1>1. /\ queue_tasks \in Seq(ATask) /\ queue_tasks # <<>> /\ queue_tasks' = Tail(queue_tasks)
      /\ queue_tasks_deferred \in Seq(ATask) /\ Ids' = Ids /\ t \in ATask
    BY TakenTask, TypesStay DEF TypeInv, TypeOK, ProcessTask
<1>2. t.id \in Ids => t.id \in Queued
    BY <1>1, AbsentTail DEF Queued
<1>3. \A x \in Ids : x # t.id => (Absent(queue_tasks', x) <=> Absent(queue_tasks, x))
    BY <1>1, AbsentTail
<1>4. t.id \in Ids => Absent(queue_tasks', t.id) /\ Absent(queue_tasks_deferred, t.id)
    <2>. SUFFICES ASSUME t.id \in Ids
                  PROVE  Absent(queue_tasks', t.id) /\ Absent(queue_tasks_deferred, t.id)
        OBVIOUS
    <2>1. t.id # None
        BY IdsReal DEF WorkInv
    <2>2. Absent(Tail(queue_tasks), t.id) /\ ~Absent(queue_tasks, t.id)
        BY <1>1, <2>1, TailPlaces DEF WorkInv, QueueShape, PlaceInv, Settled
    <2>3. Absent(queue_tasks_deferred, t.id)
        BY <1>2, <2>2, Apart
    <2>. QED
        BY <1>1, <2>2, <2>3
<1>5. ASSUME queue_tasks_deferred' = queue_tasks_deferred
      PROVE  Queued' = Queued \ {t.id}
    BY <1>1, <1>3, <1>4, <1>5 DEF Queued, Absent
<1>6. ASSUME queue_tasks_deferred' = Append(queue_tasks_deferred, t)
      PROVE  Queued' = Queued
    <2>1. \A x : Absent(queue_tasks_deferred', x) <=> Absent(queue_tasks_deferred, x) /\ t.id # x
        BY <1>1, <1>6, AbsentAppend
    <2>2. \A x \in Ids : (~Absent(queue_tasks', x) \/ ~Absent(queue_tasks_deferred', x))
                         <=> (~Absent(queue_tasks, x) \/ ~Absent(queue_tasks_deferred, x))
        BY <1>2, <1>3, <2>1 DEF Queued
    <2>3. Queued' = {x \in Ids : ~Absent(queue_tasks', x) \/ ~Absent(queue_tasks_deferred', x)}
        BY <1>1 DEF Queued, Absent
    <2>. QED
        BY <2>2, <2>3 DEF Queued
<1>. QED
    BY <1>2, <1>5, <1>6

\* The deferred tasks change the queue, no more.
LEMMA QueuedRequeued ==
    ASSUME WorkInv, TypeInv, UpdateIdle \/ UpdateBusy
    PROVE  Queued' = Queued
<1>1. /\ queue_tasks \in Seq(ATask) /\ queue_tasks_deferred \in Seq(ATask)
      /\ Requeued.tasks \in Seq(ATask) /\ Requeued.deferred \in Seq(ATask)
    BY ReleasedTyped DEF TypeInv, TypeOK
<1>2. /\ queue_tasks' = Requeued.tasks \/ queue_tasks' = Append(Requeued.tasks, NextResponse)
      /\ queue_tasks_deferred' = Requeued.deferred /\ request' = request
    BY DEF UpdateIdle, UpdateBusy, KeptGoing, clientVars
<1>3. \A x : Absent(<<>>, x)
    BY DEF Absent
<1>4. \A x : Absent(Requeued.tasks, x) /\ Absent(Requeued.deferred, x)
             <=> Absent(queue_tasks, x) /\ Absent(queue_tasks_deferred, x)
    BY <1>1, <1>3, AbsentConcat DEF Requeued
<1>5. ASSUME NEW x, x # None
      PROVE  Absent(queue_tasks', x) <=> Absent(Requeued.tasks, x)
    <2>1. NextResponse.id = None
        BY DEF NextResponse, Task
    <2>2. CASE queue_tasks' = Append(Requeued.tasks, NextResponse)
        BY <1>1, <1>5, <2>1, <2>2, NextResponseTyped, AbsentAppend
    <2>. QED
        BY <1>2, <2>2
<1>6. \A x \in Ids : x # None
    BY IdsReal DEF WorkInv
<1>7. Queued' = {x \in Ids : ~Absent(queue_tasks', x) \/ ~Absent(queue_tasks_deferred', x)}
    BY <1>2, TypesStay DEF Queued, Absent
<1>. QED
    BY <1>2, <1>4, <1>5, <1>6, <1>7 DEF Queued

LEMMA QueuedSame ==
    ASSUME queue_tasks' = queue_tasks, queue_tasks_deferred' = queue_tasks_deferred, request' = request
    PROVE  Queued' = Queued
BY TypesStay DEF Queued, Absent

-----------------------------------------------------------------------------
(* The results of a client, in their order.                                *)

\* The client has received the result r, or it is queued for the client.
Got(q, c, r) ==
    \/ \E i \in DOMAIN received[c] : received[c][i] = r
    \/ \E i \in DOMAIN q.results : q.results[i].id = c /\ q.results[i] = r

InOrder(q, c) ==
    /\ \A i, j \in DOMAIN received[c] : i < j => Before(received[c][i], received[c][j])
    /\ \A j \in DOMAIN q.results : q.results[j].id = c =>
        /\ \A i \in DOMAIN received[c] : Before(received[c][i], q.results[j])
        /\ \A i \in DOMAIN q.results :
                q.results[i].id = c /\ i < j => Before(q.results[i], q.results[j])

Untold(q, c) == \A r : ~Got(q, c, r)

\* What the client of a multitask can have: nothing until it is finished.
MultiTold(q, c) ==
    /\ pc[c] \in {"start", "add multitask"} => Untold(q, c)
    /\ \A i \in DOMAIN q.multis : q.multis[i].id = c => Untold(q, c)
    /\ \A r : Got(q, c, r) => r.kind # "partial"

\* What another client can have: nothing until its task has a slot, and then the
\* tokens that this slot has generated.  A are the tasks in the queues, W the slots
\* of ss that work.
SingleTold(q, A, W, ss, c) ==
    /\ pc[c] \in {"start", "post"} \/ c \in A => Untold(q, c)
    /\ \A s \in W : ss[s].id_task = c =>
        \A r : Got(q, c, r) => Going(ss[s]) /\ r.kind = "partial" /\ r.n <= ss[s].n_decoded

Told(q, A, W, ss, c) == IF IsMulti(c) THEN MultiTold(q, c) ELSE SingleTold(q, A, W, ss, c)

Ordered(q, A, W, ss) == \A c \in Callers : InOrder(q, c) /\ Told(q, A, W, ss, c)

OrderInv ==
    /\ received \in [Callers -> Seq(AResult)]
    /\ Ordered(Results, Queued, Working, slots)

LEMMA OrderInit == Init => OrderInv
<1>. SUFFICES ASSUME Init PROVE OrderInv
    OBVIOUS
<1>1. <<>> \in Seq(AResult) /\ DOMAIN <<>> = {}
    OBVIOUS
<1>2. received \in [Callers -> Seq(AResult)] /\ \A c \in Callers : DOMAIN received[c] = {}
    BY <1>1 DEF Init
<1>3. DOMAIN Results.results = {}
    BY <1>1 DEF Init, Results
<1>4. \A c \in Callers : Untold(Results, c) /\ InOrder(Results, c)
    BY <1>2, <1>3 DEF Untold, Got, InOrder
<1>5. \A c \in Callers : Told(Results, Queued, Working, slots, c)
    BY <1>4 DEF Told, MultiTold, SingleTold, Untold
<1>. QED
    BY <1>2, <1>4, <1>5 DEF OrderInv, Ordered

\* What is sent to a client comes after what it has.
LEMMA SendOrder ==
    ASSUME NEW q \in Qs, NEW r \in AResult, NEW c \in Callers, InOrder(q, c),
           r.id = c => \A g : Got(q, c, g) => Before(g, r)
    PROVE  /\ InOrder(Send(q, r), c)
           /\ \A g : Got(Send(q, r), c, g) => Got(q, c, g) \/ (r.id = c /\ g = r)
<1>1. PICK s : s = Send(q, r)
    OBVIOUS
<1>2. /\ q.results \in Seq(AResult)
      /\ s.results = IF r.id \in waiting_task_ids THEN Append(q.results, r) ELSE q.results
    BY <1>1, SendDoes DEF Qs
<1>3. CASE s.results = q.results
    BY <1>1, <1>3 DEF InOrder, Got
<1>4. CASE s.results = Append(q.results, r)
    <2>. DEFINE n == Len(q.results) + 1
    <2>1. /\ DOMAIN q.results \subseteq DOMAIN s.results
          /\ DOMAIN q.results \subseteq Nat /\ DOMAIN s.results \subseteq Nat
          /\ n \in DOMAIN s.results /\ n \notin DOMAIN q.results /\ s.results[n] = r
          /\ \A i \in DOMAIN q.results : s.results[i] = q.results[i] /\ i < n
          /\ \A i \in DOMAIN s.results : i \in DOMAIN q.results \/ i = n
        BY <1>2, <1>4, Appended
    <2>. HIDE DEF n
    <2>2. \A g : Got(s, c, g) => Got(q, c, g) \/ (r.id = c /\ g = r)
        BY <2>1 DEF Got
    <2>3. ASSUME NEW j \in DOMAIN s.results, s.results[j].id = c
          PROVE  /\ \A i \in DOMAIN received[c] : Before(received[c][i], s.results[j])
                 /\ \A i \in DOMAIN s.results :
                        s.results[i].id = c /\ i < j => Before(s.results[i], s.results[j])
        <3>1. CASE j \in DOMAIN q.results
            <4>1. \A i \in DOMAIN s.results : i < j => i \in DOMAIN q.results
                BY <2>1, <3>1
            <4>. QED
                BY <2>1, <2>3, <3>1, <4>1 DEF InOrder
        <3>2. CASE j = n
            <4>1. r.id = c /\ s.results[j] = r /\ \A g : Got(q, c, g) => Before(g, r)
                BY <2>1, <2>3, <3>2
            <4>2. \A i \in DOMAIN s.results : i < j => i \in DOMAIN q.results
                BY <2>1, <3>2
            <4>. QED
                BY <2>1, <4>1, <4>2 DEF Got
        <3>. QED
            BY <2>1, <3>1, <3>2
    <2>4. InOrder(s, c)
        BY <2>3 DEF InOrder
    <2>. QED
        BY <1>1, <2>2, <2>4
<1>. QED
    BY <1>2, <1>3, <1>4

\* Tasks move on from the queues to the slots, and slots go on with theirs.
LEMMA OrderMoves ==
    ASSUME NEW q, NEW A, NEW W, NEW ss, Ordered(q, A, W, ss),
           \A c \in Callers : \A r : Got(q, c, r) => r \in AResult,
           NEW A2, NEW W2, NEW ss2, \A s \in W : ss[s] \in ASlot, \A s \in W2 : ss2[s] \in ASlot,
           \A x \in Callers : x \in A2 => x \in A,
           \A s \in W2 :
                \/ ss2[s].id_task \in A
                \/ /\ s \in W /\ ss[s].id_task = ss2[s].id_task
                   /\ Going(ss[s]) => Going(ss2[s]) /\ ss[s].n_decoded <= ss2[s].n_decoded
    PROVE  Ordered(q, A2, W2, ss2)
<1>. SUFFICES ASSUME NEW c \in Callers, ~IsMulti(c), SingleTold(q, A, W, ss, c)
              PROVE  SingleTold(q, A2, W2, ss2, c)
    BY DEF Ordered, Told
<1>1. ASSUME NEW s \in W2, ss2[s].id_task = c, NEW r, Got(q, c, r)
      PROVE  Going(ss2[s]) /\ r.kind = "partial" /\ r.n <= ss2[s].n_decoded
    <2>1. c \notin A
        BY <1>1 DEF SingleTold, Untold
    <2>2. /\ s \in W /\ ss[s].id_task = c
          /\ Going(ss[s]) => Going(ss2[s]) /\ ss[s].n_decoded <= ss2[s].n_decoded
        BY <1>1, <2>1
    <2>3. Going(ss[s]) /\ r.kind = "partial" /\ r.n <= ss[s].n_decoded
        BY <1>1, <2>2 DEF SingleTold
    <2>4. r.n \in Nat /\ ss[s].n_decoded \in Nat /\ ss2[s].n_decoded \in Nat
        <3>1. r \in AResult /\ ss[s] \in ASlot /\ ss2[s] \in ASlot
            BY <1>1, <2>2
        <3>. QED
            BY <3>1 DEF ASlot, AResult
    <2>. QED
        BY <2>2, <2>3, <2>4
<1>. QED
    BY <1>1 DEF SingleTold

\* A slot, or the server itself, sends the last result of a task and is done with it.
LEMMA OrderEnds ==
    ASSUME NEW q \in Qs, NEW A, NEW W, NEW ss, Ordered(q, A, W, ss), ClientShape,
           NEW r \in AResult, r.kind # "partial", NEW d, Owned(r.id, r.id_multi, d),
           r.id \in Callers => pc[r.id] \notin {"start", "post"},
           InPlace(A, W, ss, r.id),
           NEW A2, NEW W2, NEW ss2, A2 \subseteq A, W2 \subseteq W, \A s \in W2 : ss2[s] = ss[s],
           ~InPlace(A2, W2, ss2, r.id)
    PROVE  Send(q, r) \in Qs /\ Ordered(Send(q, r), A2, W2, ss2)
<1>1. PICK q2 : q2 = Send(q, r)
    OBVIOUS
<1>2. /\ q2 \in Qs /\ DOMAIN q2.multis = DOMAIN q.multis
      /\ \A i \in DOMAIN q.multis : q2.multis[i].id = q.multis[i].id
    BY <1>1, SendDoes
<1>3. ASSUME NEW c \in Callers
      PROVE  InOrder(q2, c) /\ Told(q2, A2, W2, ss2, c)
    <2>0. InOrder(q, c) /\ Told(q, A, W, ss, c) /\ c \in Clients
        BY Asked DEF Ordered
    <2>1. CASE r.id = c
        <3>1. ~IsMulti(c) /\ pc[c] \notin {"start", "post"}
            <4>1. c = d
                BY <2>0, <2>1, OwnedFacts
            <4>. QED
                BY <2>0, <2>1, <4>1, OwnedFacts
        <3>2. SingleTold(q, A, W, ss, c)
            BY <2>0, <3>1 DEF Told
        <3>3. \A g : Got(q, c, g) => g.kind = "partial"
            BY <2>1, <3>2 DEF SingleTold, Untold, InPlace
        <3>4. \A g : Got(q, c, g) => Before(g, r)
            BY <3>3 DEF Before
        <3>5. InOrder(q2, c)
            BY <1>1, <2>0, <3>4, SendOrder
        <3>6. SingleTold(q2, A2, W2, ss2, c)
            BY <2>1, <3>1 DEF SingleTold, InPlace
        <3>. QED
            BY <3>1, <3>5, <3>6 DEF Told
    <2>2. CASE r.id # c
        <3>1. InOrder(q2, c) /\ \A g : Got(q2, c, g) => Got(q, c, g)
            BY <1>1, <2>0, <2>2, SendOrder
        <3>2. CASE IsMulti(c)
            BY <1>2, <2>0, <3>1, <3>2 DEF Told, MultiTold, Untold
        <3>3. CASE ~IsMulti(c)
            BY <2>0, <3>1, <3>3 DEF Told, SingleTold, Untold
        <3>. QED
            BY <3>1, <3>2, <3>3
    <2>. QED
        BY <2>1, <2>2
<1>. QED
    BY <1>1, <1>2, <1>3 DEF Ordered

LEMMA GotTyped ==
    ASSUME TypeInv, OrderInv, NEW c \in Callers, NEW r, Got(Results, c, r)
    PROVE  r \in AResult
<1>1. received[c] \in Seq(AResult) /\ Results.results \in Seq(AResult)
    BY ResultsTyped DEF OrderInv, Qs
<1>2. /\ \A i \in DOMAIN received[c] : received[c][i] \in AResult
      /\ \A i \in DOMAIN Results.results : Results.results[i] \in AResult
    BY <1>1, LenProperties, ElementOfSeq
<1>. QED
    BY <1>2 DEF Got

\* The client of a task that has a place is past posting it.
LEMMA PostedInPlace ==
    ASSUME WorkInv, PlaceInv, OwnInv, NEW x \in Ids, InPlace(Queued, Working, slots, x), x \in Callers
    PROVE  pc[x] \notin {"start", "post"}
<1>1. Known(x)
    BY NotPosted
<1>2. \A c \in Callers, n \in Nat : x # <<c, n>>
    BY Asked, PairsAssumption DEF WorkInv, Pairs
<1>. QED
    BY <1>1, <1>2 DEF Known

\* A step of the main thread leaves the clients alone.
LEMMA MainOrder ==
    ASSUME OrderInv, TypeInv, request' = request, pc' = pc, received' = received,
           NEW q, queue_results' = q.results, queue_multitasks' = q.multis,
           NEW A, A = Queued', NEW W, W = Working', Ordered(q, A, W, slots')
    PROVE  OrderInv'
<1>0. Callers' = Callers /\ AResult' = AResult
    BY TypesStay DEF Callers
<1>1. received' \in [Callers' -> Seq(AResult')]
    BY <1>0 DEF OrderInv
<1>2. ASSUME NEW c \in Callers
      PROVE  InOrder(Results, c)' /\ Told(Results, Queued, Working, slots, c)'
    <2>1. InOrder(q, c) /\ Told(q, A, W, slots', c)
        BY DEF Ordered
    <2>2. Results.results' = q.results /\ Results.multis' = q.multis
        BY DEF Results
    <2>3. \A r : Got(Results, c, r)' <=> Got(q, c, r)
        BY <2>2 DEF Got
    <2>4. InOrder(Results, c)'
        BY <2>1, <2>2 DEF InOrder
    <2>0. IsMulti(c)' <=> IsMulti(c)
        BY DEF IsMulti, IsCompletion
    <2>5. CASE IsMulti(c)
        <3>1. MultiTold(q, c)
            BY <2>1, <2>5 DEF Told
        <3>2. MultiTold(Results, c)'
            BY <2>2, <2>3, <3>1 DEF MultiTold, Untold
        <3>. QED
            BY <2>0, <2>4, <2>5, <3>2 DEF Told
    <2>6. CASE ~IsMulti(c)
        <3>1. SingleTold(q, A, W, slots', c)
            BY <2>1, <2>6 DEF Told
        <3>2. SingleTold(Results, Queued, Working, slots, c)'
            BY <2>3, <3>1 DEF SingleTold, Untold, Going
        <3>. QED
            BY <2>0, <2>4, <2>6, <3>2 DEF Told
    <2>. QED
        BY <2>4, <2>5, <2>6
<1>. QED
    BY <1>0, <1>1, <1>2 DEF OrderInv, Ordered

\* A slot sends a token.
LEMMA OrderSpeaks ==
    ASSUME NEW q \in Qs, NEW A, NEW W, NEW ss, Ordered(q, A, W, ss), ClientShape,
           NEW cur \in W, ss[cur].id_task \notin A, Going(ss[cur]),
           \A s \in W : ss[s].id_task = ss[cur].id_task => s = cur,
           NEW d, Owned(ss[cur].id_task, ss[cur].id_multi, d),
           ss[cur].id_task \in Callers => pc[ss[cur].id_task] \notin {"start", "post"},
           NEW r \in AResult, r = SlotResult(ss[cur], "partial"),
           ss[cur].id_task \in Callers => \A g : Got(q, ss[cur].id_task, g) => Before(g, r)
    PROVE  Ordered(Send(q, r), A, W, ss)
<1>1. PICK q2 : q2 = Send(q, r)
    OBVIOUS
<1>2. /\ DOMAIN q2.multis = DOMAIN q.multis
      /\ \A i \in DOMAIN q.multis : q2.multis[i].id = q.multis[i].id
    BY <1>1, SendDoes
<1>3. r.id = ss[cur].id_task /\ r.kind = "partial" /\ r.n = ss[cur].n_decoded /\ r.n \in Nat
    BY DEF SlotResult, Result, AResult
<1>4. r.n <= ss[cur].n_decoded
    BY <1>3
<1>5. ASSUME NEW c \in Callers
      PROVE  InOrder(q2, c) /\ Told(q2, A, W, ss, c)
    <2>0. InOrder(q, c) /\ Told(q, A, W, ss, c) /\ c \in Clients
        BY Asked DEF Ordered
    <2>1. /\ InOrder(q2, c)
          /\ \A g : Got(q2, c, g) => Got(q, c, g) \/ (r.id = c /\ g = r)
        BY <1>1, <1>3, <2>0, SendOrder
    <2>2. CASE r.id = c
        <3>1. ~IsMulti(c)
            <4>1. c = d
                BY <1>3, <2>0, <2>2, OwnedFacts
            <4>. QED
                BY <1>3, <2>0, <2>2, <4>1, OwnedFacts
        <3>2. SingleTold(q, A, W, ss, c)
            BY <2>0, <3>1 DEF Told
        <3>3. \A g : Got(q2, c, g) => g.kind = "partial" /\ g.n <= ss[cur].n_decoded
            BY <1>3, <1>4, <2>1, <2>2, <3>2 DEF SingleTold
        <3>4. SingleTold(q2, A, W, ss, c)
            BY <1>3, <2>2, <3>3 DEF SingleTold
        <3>. QED
            BY <2>1, <3>1, <3>4 DEF Told
    <2>3. CASE r.id # c
        <3>1. \A g : Got(q2, c, g) => Got(q, c, g)
            BY <2>1, <2>3
        <3>2. CASE IsMulti(c)
            BY <1>2, <2>0, <2>1, <3>1, <3>2 DEF Told, MultiTold, Untold
        <3>3. CASE ~IsMulti(c)
            BY <2>0, <2>1, <3>1, <3>3 DEF Told, SingleTold, Untold
        <3>. QED
            BY <3>2, <3>3
    <2>. QED
        BY <2>2, <2>3
<1>. QED
    BY <1>1, <1>5 DEF Ordered

\* The tasks in the queues and the slots that work after a step of the main thread.
LEMMA MovesOn ==
    ASSUME TypeInv, TypeInv', OrderInv, request' = request, pc' = pc, received' = received,
           queue_results' = queue_results, queue_multitasks' = queue_multitasks,
           Queued' \subseteq Queued,
           \A s \in Working' :
                \/ slots'[s].id_task \in Queued
                \/ /\ s \in Working /\ slots[s].id_task = slots'[s].id_task
                   /\ \/ ~Going(slots[s]) \/ slots'[s] = slots[s]
                      \/ Going(slots'[s]) /\ slots[s].n_decoded <= slots'[s].n_decoded
    PROVE  OrderInv'
<1>1. PICK A, W : A = Queued' /\ W = Working'
    OBVIOUS
<1>2. W \subseteq Slots /\ Working \subseteq Slots
    BY <1>1 DEF Working
<1>3. /\ slots \in [Slots -> ASlot] /\ slots' \in [Slots -> ASlot]
    BY TypesStay DEF TypeInv, TypeOK
<1>4. \A s \in Slots : slots[s].n_decoded \in Nat
    BY <1>3 DEF ASlot
<1>5. \A s \in Slots : slots[s].n_decoded <= slots[s].n_decoded
    BY <1>4
<1>6. Ordered(Results, Queued, Working, slots)
    BY DEF OrderInv
<1>7. Ordered(Results, A, W, slots')
    BY <1>1, <1>2, <1>3, <1>5, <1>6, GotTyped, OrderMoves
<1>. QED
    BY <1>1, <1>7, MainOrder DEF Results

LEMMA ProcessTaskOrder ==
    ASSUME WorkInv, TypeInv, PlaceInv, OwnInv, OrderInv, ProcessTask
    PROVE  OrderInv'
<1>1. PICK t : t = Head(queue_tasks)
    OBVIOUS
<1>2. /\ t \in ATask /\ OwnedTask(t)
      /\ request' = request /\ pc' = pc /\ received' = received
      /\ (\E s \in Slots : Launch(t, s)) \/ Defer(t) \/ Answer(t) \/ CancelSlot(t) \/ Skip(t)
    BY <1>1, TakenTask
<1>3. /\ t.id \in Ids => t.id \in Queued
      /\ queue_tasks_deferred' = queue_tasks_deferred => Queued' = Queued \ {t.id}
      /\ queue_tasks_deferred' = Append(queue_tasks_deferred, t) => Queued' = Queued
    BY <1>1, QueuedTaken
<1>4. TypeInv'
    BY ProcessTaskTypes
<1>5. \A s : s \in Working' <=> s \in Slots /\ Works(slots'[s])
    BY DEF Working, Works
<1>6. \A s : s \in Working <=> s \in Slots /\ Works(slots[s])
    BY DEF Working
<1>7. \A s \in Working : slots[s].id_task \notin Queued
    BY Apart
<1>8. ASSUME NEW r \in AResult, r.kind # "partial", r.id = t.id, Owned(r.id, r.id_multi, t.client),
             SetResults(Send(Results, r)), queue_tasks_deferred' = queue_tasks_deferred,
             \A s \in Working' : s \in Working /\ slots'[s] = slots[s]
      PROVE  OrderInv'
    <2>1. PICK q : q = Send(Results, r)
        OBVIOUS
    <2>2. PICK A, W : A = Queued' /\ W = Working'
        OBVIOUS
    <2>3. r.id \in Ids /\ r.id \in Queued
        BY <1>3, <1>8, OwnedFacts DEF WorkInv
    <2>4. InPlace(Queued, Working, slots, r.id)
        BY <2>3 DEF InPlace
    <2>5. r.id \in Callers => pc[r.id] \notin {"start", "post"}
        BY <2>3, <2>4, PostedInPlace
    <2>6. /\ A \subseteq Queued /\ W \subseteq Working /\ \A s \in W : slots'[s] = slots[s]
          /\ ~InPlace(A, W, slots', r.id)
        BY <1>3, <1>7, <1>8, <2>2, <2>3 DEF InPlace
    <2>7. Ordered(q, A, W, slots')
        BY <1>8, <2>1, <2>4, <2>5, <2>6, ResultsTyped, OrderEnds DEF OrderInv, WorkInv
    <2>. QED
        BY <1>2, <1>8, <2>1, <2>2, <2>7, MainOrder DEF SetResults
<1>9. ASSUME NEW s \in Slots, Launch(t, s)
      PROVE  OrderInv'
    <2>1. t.type = "completion" /\ queue_tasks_deferred' = queue_tasks_deferred
        BY <1>9 DEF Launch
    <2>2. Owned(t.id, t.id_multi, t.client)
        BY <1>2, <2>1 DEF OwnedTask
    <2>3. t.id \in Queued
        BY <1>3, <2>2, OwnedFacts DEF WorkInv
    <2>4. /\ \A r \in Slots \ {s} : Works(slots'[r]) => slots'[r] = slots[r]
          /\ request[t.client].valid =>
                /\ slots'[s].id_task = t.id
                /\ queue_multitasks' = queue_multitasks /\ queue_results' = queue_results
          /\ ~request[t.client].valid =>
                /\ ~Works(slots'[s])
                /\ SetResults(Send(Results, Result(t.id, t.id_multi, "error", 0)))
        BY <1>2, <1>9, LaunchedSlots
    <2>5. CASE request[t.client].valid
        <3>1. Queued' \subseteq Queued
            BY <1>3, <2>1
        <3>2. \A r \in Working' : slots'[r].id_task \in Queued \/ (r \in Working /\ slots'[r] = slots[r])
            BY <1>5, <1>6, <2>3, <2>4, <2>5
        <3>. QED
            BY <1>2, <1>4, <2>4, <2>5, <3>1, <3>2, MovesOn
    <2>6. CASE ~request[t.client].valid
        <3>1. \A r \in Working' : r \in Working /\ slots'[r] = slots[r]
            BY <1>5, <1>6, <2>4, <2>6
        <3>2. PICK r : r = Result(t.id, t.id_multi, "error", 0)
            OBVIOUS
        <3>3. /\ r \in AResult /\ r.kind # "partial" /\ r.id = t.id /\ r.id_multi = t.id_multi
            BY <1>2, <3>2 DEF ATask, AResult, Result
        <3>. QED
            BY <1>8, <2>1, <2>2, <2>4, <2>6, <3>1, <3>2, <3>3
    <2>. QED
        BY <2>5, <2>6
<1>10. CASE Answer(t)
    <2>1. /\ queue_tasks_deferred' = queue_tasks_deferred /\ slots' = slots
          /\ \E kind \in {"final", "error"} : SetResults(Send(Results, Result(t.id, None, kind, 0)))
          /\ t.type \in {"metrics", "lora", "slot action"}
        BY <1>10 DEF Answer
    <2>2. Owned(t.id, t.id_multi, t.client) /\ ~IsMulti(t.client)
        BY <1>2, <2>1 DEF OwnedTask, IsMulti, IsCompletion
    <2>3. PICK r \in AResult : /\ r.kind # "partial" /\ r.id = t.id /\ r.id_multi = None
                               /\ SetResults(Send(Results, r))
        BY <1>2, <2>1 DEF ATask, AResult, Result
    <2>4. \A s \in Working' : s \in Working /\ slots'[s] = slots[s]
        BY <1>5, <1>6, <2>1
    <2>5. Owned(r.id, r.id_multi, t.client)
        BY <2>2, <2>3 DEF Owned
    <2>. QED
        BY <1>8, <2>1, <2>3, <2>4, <2>5
<1>11. CASE Defer(t) \/ CancelSlot(t) \/ Skip(t)
    <2>1. /\ queue_results' = queue_results /\ queue_multitasks' = queue_multitasks
        BY <1>11 DEF Defer, CancelSlot, Skip, resultVars
    <2>2. \A s \in Slots : Works(slots'[s]) => slots'[s] = slots[s]
        BY <1>11, CancelledSlots DEF Defer, Skip
    <2>3. Queued' \subseteq Queued
        BY <1>3, <1>11 DEF Defer, CancelSlot, Skip
    <2>4. \A s \in Working' : s \in Working /\ slots'[s] = slots[s]
        BY <1>5, <1>6, <2>2
    <2>. QED
        BY <1>2, <1>4, <2>1, <2>3, <2>4, MovesOn
<1>. QED
    BY <1>2, <1>9, <1>10, <1>11

\* A multitask that is finished is answered, and removed.
LEMMA FinishOrder ==
    ASSUME WorkInv, TypeInv, OwnInv, OrderInv, FinishMultitask
    PROVE  OrderInv'
<1>. DEFINE i == Min(Finished)
            c == queue_multitasks[i].id
            r == Result(c, None, "final", 0)
            q == Send(Results, r)
            left == RemoveAt(q.multis, i)
            q2 == [results |-> q.results, multis |-> left]
<1>1. /\ i \in DOMAIN queue_multitasks /\ r \in AResult /\ q \in Qs /\ i \in 1 .. Len(q.multis)
      /\ queue_results' = q.results /\ queue_multitasks' = left
    BY FirstFinished
<1>2. /\ OwnMultis(queue_multitasks) /\ Results \in Qs /\ Results.multis = queue_multitasks
    BY ResultsTyped DEF OwnInv, Results
<1>3. r.id = c /\ r.kind = "final"
    BY DEF Result
<1>4. /\ DOMAIN q.multis = DOMAIN queue_multitasks
      /\ \A j \in DOMAIN queue_multitasks : q.multis[j].id = queue_multitasks[j].id
    <2>. HIDE DEF r
    <2>. QED
        BY <1>1, <1>2, SendDoes
<1>5. c \in Callers /\ IsMulti(c) /\ pc[c] \notin {"start", "add multitask"}
    BY <1>1, <1>2 DEF OwnMultis
<1>6. \A d \in Callers : InOrder(Results, d) /\ Told(Results, Queued, Working, slots, d)
    BY DEF OrderInv, Ordered
<1>7. Untold(Results, c)
    BY <1>1, <1>2, <1>5, <1>6 DEF Told, MultiTold
<1>. HIDE DEF i, r
<1>8. \A d \in Callers : /\ InOrder(q, d)
                         /\ \A g : Got(q, d, g) => Got(Results, d, g) \/ (d = c /\ g = r)
    <2>. SUFFICES ASSUME NEW d \in Callers
                  PROVE  /\ InOrder(q, d)
                         /\ \A g : Got(q, d, g) => Got(Results, d, g) \/ (d = c /\ g = r)
        OBVIOUS
    <2>1. r.id = d => \A g : Got(Results, d, g) => Before(g, r)
        BY <1>3, <1>7 DEF Untold
    <2>2. InOrder(Results, d)
        BY <1>6
    <2>. HIDE DEF c
    <2>. QED
        BY <1>1, <1>2, <1>3, <2>1, <2>2, SendOrder
<1>. HIDE DEF c, q
<1>9. q2.results = q.results /\ q2.multis = left
    OBVIOUS
<1>10. \A j \in DOMAIN left : \E k \in DOMAIN queue_multitasks :
            left[j].id = queue_multitasks[k].id /\ k # i
    <2>1. q.multis \in Seq(AMultitask)
        BY <1>1 DEF Qs
    <2>2. /\ DOMAIN left = 1 .. Len(q.multis) - 1
          /\ \A j \in 1 .. Len(q.multis) - 1 :
                left[j] = IF j < i THEN q.multis[j] ELSE q.multis[j + 1]
          /\ DOMAIN q.multis = 1 .. Len(q.multis) /\ Len(q.multis) \in Nat
        BY <1>1, <2>1, RemovedAt, LenProperties
    <2>. HIDE DEF left
    <2>3. ASSUME NEW j \in DOMAIN left
          PROVE  \E k \in DOMAIN q.multis : left[j] = q.multis[k] /\ k # i
        <3>1. CASE j < i
            BY <1>1, <2>2, <3>1
        <3>2. CASE ~(j < i)
            <4>1. j + 1 \in DOMAIN q.multis /\ j + 1 # i /\ left[j] = q.multis[j + 1]
                BY <1>1, <2>2, <3>2
            <4>. QED
                BY <4>1
        <3>. QED
            BY <3>1, <3>2
    <2>. QED
        BY <1>4, <2>3
<1>. HIDE DEF left
<1>11. ASSUME NEW d \in Callers
       PROVE  InOrder(q2, d) /\ Told(q2, Queued, Working, slots, d)
    <2>1. (\A g : Got(q2, d, g) <=> Got(q, d, g)) /\ InOrder(q2, d)
        BY <1>8, <1>9 DEF Got, InOrder
    <2>2. CASE d = c
        <3>1. \A j \in DOMAIN q2.multis : q2.multis[j].id # c
            <4>1. \A k \in DOMAIN queue_multitasks : k # i => queue_multitasks[k].id # c
                BY <1>1, <1>2 DEF OwnMultis, c
            <4>2. \A j \in DOMAIN left : left[j].id # c
                BY <1>10, <4>1
            <4>. QED
                BY <1>9, <4>2
        <3>2. MultiTold(q2, c)
            BY <1>3, <1>5, <1>7, <1>8, <2>1, <2>2, <3>1 DEF MultiTold, Untold
        <3>. QED
            BY <1>5, <2>1, <2>2, <3>2 DEF Told
    <2>3. CASE d # c
        <3>1. \A g : Got(q2, d, g) => Got(Results, d, g)
            BY <1>8, <2>1, <2>3
        <3>2. CASE IsMulti(d)
            <4>1. MultiTold(Results, d)
                BY <1>6, <3>2 DEF Told
            <4>2. MultiTold(q2, d)
                BY <1>2, <1>9, <1>10, <3>1, <4>1 DEF MultiTold, Untold
            <4>. QED
                BY <2>1, <3>2, <4>2 DEF Told
        <3>3. CASE ~IsMulti(d)
            BY <1>6, <2>1, <3>1, <3>3 DEF Told, SingleTold, Untold
        <3>. QED
            BY <3>2, <3>3
    <2>. QED
        BY <2>2, <2>3
<1>12. /\ queue_tasks' = queue_tasks /\ queue_tasks_deferred' = queue_tasks_deferred
       /\ slots' = slots /\ request' = request /\ pc' = pc /\ received' = received
    BY DEF FinishMultitask, queueVars, mainVars, clientVars
<1>13. Queued' = Queued /\ Working' = Working
    BY <1>12, QueuedSame DEF Working, Works
<1>14. PICK A, W : A = Queued' /\ W = Working'
    OBVIOUS
<1>15. Ordered(q2, A, W, slots')
    BY <1>11, <1>12, <1>13, <1>14 DEF Ordered
<1>. HIDE DEF q2
<1>. QED
    BY <1>1, <1>9, <1>12, <1>14, <1>15, MainOrder

LEMMA UpdateOrder ==
    ASSUME WorkInv, TypeInv, PlaceInv, OwnInv, OrderInv, UpdateIdle \/ UpdateBusy
    PROVE  OrderInv'
<1>1. /\ request' = request /\ pc' = pc /\ received' = received
    BY DEF UpdateIdle, UpdateBusy, clientVars
<1>2. Queued' = Queued /\ TypeInv'
    BY QueuedRequeued, UpdateTypes
<1>3. \A s : s \in Working' <=> s \in Slots /\ Works(slots'[s])
    BY DEF Working, Works
<1>4. \A s : s \in Working <=> s \in Slots /\ Works(slots[s])
    BY DEF Working
<1>5. CASE UpdateIdle
    <2>1. /\ slots' = Released(slots)
          /\ queue_results' = queue_results /\ queue_multitasks' = queue_multitasks
        BY <1>5 DEF UpdateIdle, resultVars
    <2>2. \A s \in Working' : s \in Working /\ slots'[s] = slots[s]
        BY <1>3, <1>4, <2>1, ReleasedDoes
    <2>. QED
        BY <1>1, <1>2, <2>1, <2>2, MovesOn
<1>6. CASE UpdateBusy
    <2>1. PICK ss : ss = Released(slots)
        OBVIOUS
    <2>2. PICK empty : empty = {s \in Slots : Visited(ss, s) /\ ss[s].prompt = 0}
        OBVIOUS
    <2>3. /\ ss \in [Slots -> ASlot] /\ empty \subseteq Slots
          /\ SetResults(SentFor(empty, ss, "final"))
          /\ \A s \in Slots :
                /\ s \in empty => Loads(slots[s]) /\ ss[s] = slots[s]
                /\ Works(slots'[s]) <=> Works(slots[s]) /\ s \notin empty
                /\ Works(slots[s]) => Alike(slots'[s], slots[s])
                /\ Going(slots[s]) => slots'[s] = slots[s]
        BY <1>6, <2>1, <2>2, UpdatedSlots
    <2>4. PICK f : Sending(f, empty, ss, "final")
        BY <2>3, ResultsTyped, SentForSends
    <2>5. \A s \in Working : ss[s] = slots[s] /\ s \in Slots
        BY <1>4, <2>1, ReleasedDoes
    <2>. DEFINE W(k) == {s \in Working : s \in empty => s >= k}
                G == {k \in 0 .. NSlots : Ordered(f[k], Queued, W(k), slots)}
    <2>6. 0 \in G
        <3>1. W(0) = Working
            BY <2>5 DEF Slots
        <3>2. f[0] = Results /\ 0 \in 0 .. NSlots
            BY <2>4, NSlotsAssumption DEF Sending
        <3>. HIDE DEF W
        <3>. QED
            BY <3>1, <3>2 DEF OrderInv
    <2>7. ASSUME NEW s \in Slots, s \in G
          PROVE  s + 1 \in G
        <3>1. s \in 0 .. NSlots /\ s + 1 \in 0 .. NSlots /\ s \in Nat
            BY NSlotsAssumption DEF Slots
        <3>2. f[s] \in Qs /\ Ordered(f[s], Queued, W(s), slots)
            BY <2>4, <2>7, <3>1 DEF Sending
        <3>3. CASE s \notin empty
            <4>1. W(s + 1) = W(s)
                BY <2>5, <3>1, <3>3 DEF Slots
            <4>2. f[s + 1] = f[s]
                BY <2>4, <3>3 DEF Sending
            <4>. HIDE DEF W
            <4>. QED
                BY <3>1, <3>2, <4>1, <4>2
        <3>4. CASE s \in empty
            <4>1. s \in Working /\ ss[s] = slots[s]
                BY <1>4, <2>3, <3>4, WorksHow
            <4>2. W(s + 1) = W(s) \ {s} /\ s \in W(s) /\ W(s) \subseteq Working
                <5>1. \A k \in Working : k >= s + 1 <=> k >= s /\ k # s
                    BY <2>5, <3>1 DEF Slots
                <5>2. s \in W(s)
                    BY <3>1, <4>1
                <5>3. \A k \in Working : k # s => (k \in W(s + 1) <=> k \in W(s))
                    BY <5>1
                <5>4. s \notin W(s + 1)
                    BY <3>4, <4>1, <5>1
                <5>. QED
                    BY <5>2, <5>3, <5>4
            <4>. HIDE DEF W
            <4>3. PICK r : r = SlotResult(slots[s], "final")
                OBVIOUS
            <4>4. /\ r \in AResult /\ r.kind # "partial"
                  /\ r.id = slots[s].id_task /\ r.id_multi = slots[s].id_multi
                BY <2>3, <4>1, <4>3, SlotResultTyped DEF SlotResult, Result
            <4>5. /\ Owned(r.id, r.id_multi, slots[s].client) /\ r.id \notin Queued
                  /\ \A k \in Working : slots[k].id_task = r.id => k = s
                BY <4>1, <4>4, Apart
            <4>6. /\ InPlace(Queued, W(s), slots, r.id) /\ InPlace(Queued, Working, slots, r.id)
                  /\ ~InPlace(Queued, W(s + 1), slots, r.id)
                BY <4>1, <4>2, <4>4, <4>5 DEF InPlace
            <4>7. r.id \in Callers => pc[r.id] \notin {"start", "post"}
                BY <4>5, <4>6, PostedInPlace, OwnedFacts DEF WorkInv
            <4>8. W(s + 1) \subseteq W(s)
                BY <4>2
            <4>9. Ordered(Send(f[s], r), Queued, W(s + 1), slots)
                BY <3>2, <4>4, <4>5, <4>6, <4>7, <4>8, OrderEnds DEF WorkInv
            <4>10. f[s + 1] = Send(f[s], r)
                BY <2>4, <3>4, <4>1, <4>3 DEF Sending
            <4>. QED
                BY <3>1, <4>9, <4>10
        <3>. QED
            BY <3>3, <3>4
    <2>. HIDE DEF G
    <2>8. NSlots \in G
        BY <2>6, <2>7, SlotInduction, NSlotsAssumption
    <2>. USE DEF G
    <2>9. PICK q : q = f[NSlots]
        OBVIOUS
    <2>10. Ordered(q, Queued, W(NSlots), slots) /\ SetResults(q)
        BY <2>3, <2>4, <2>8, <2>9 DEF Sending
    <2>. HIDE DEF G
    <2>11. PICK V : V = Working'
        OBVIOUS
    <2>12. \A s \in V : s \in W(NSlots) /\ s \in Slots /\ Alike(slots'[s], slots[s])
                        /\ (Going(slots[s]) => slots'[s] = slots[s])
        BY <1>3, <1>4, <2>3, <2>11
    <2>13. W(NSlots) \subseteq Slots
        BY <2>5
    <2>. HIDE DEF W
    <2>14. slots \in [Slots -> ASlot] /\ slots' \in [Slots -> ASlot]
        BY <1>1, <1>2, TypesStay DEF TypeInv, TypeOK
    <2>15. \A s \in Slots : slots[s].n_decoded <= slots[s].n_decoded
        <3>1. \A s \in Slots : slots[s].n_decoded \in Nat
            BY <2>14 DEF ASlot
        <3>. QED
            BY <3>1
    <2>16. \A c \in Callers : \A r : Got(q, c, r) => r \in AResult
        <3>1. queue_results' \in Seq(AResult) /\ queue_results' = q.results
            BY <1>1, <1>2, <2>10, TypesStay DEF TypeInv, TypeOK, SetResults
        <3>2. \A c \in Callers : received[c] \in Seq(AResult)
            BY DEF OrderInv
        <3>3. /\ \A i \in DOMAIN q.results : q.results[i] \in AResult
              /\ \A c \in Callers : \A i \in DOMAIN received[c] : received[c][i] \in AResult
            BY <3>1, <3>2, LenProperties, ElementOfSeq
        <3>. QED
            BY <3>3 DEF Got
    <2>17. Ordered(q, Queued, V, slots')
        <3>1. \A s \in V : /\ s \in W(NSlots) /\ slots[s].id_task = slots'[s].id_task
                           /\ Going(slots[s]) => /\ Going(slots'[s])
                                                 /\ slots[s].n_decoded <= slots'[s].n_decoded
            BY <2>12, <2>15 DEF Alike
        <3>2. (\A s \in W(NSlots) : slots[s] \in ASlot) /\ (\A s \in V : slots'[s] \in ASlot)
            BY <2>12, <2>13, <2>14
        <3>. QED
            BY <2>10, <2>16, <3>1, <3>2, OrderMoves
    <2>18. PICK A : A = Queued'
        OBVIOUS
    <2>. QED
        BY <1>1, <1>2, <2>10, <2>11, <2>17, <2>18, MainOrder DEF SetResults
<1>. QED
    BY <1>5, <1>6

LEMMA DecodeOrder ==
    ASSUME WorkInv, TypeInv, PlaceInv, OwnInv, OrderInv, ~MayFail,
           TasksDone \/ MultitasksDone \/ SampleToken \/ StopSlot \/ DecodeFails \/ BatchDone \/ WakeUp
    PROVE  OrderInv'
<1>1. /\ queue_tasks' = queue_tasks /\ queue_tasks_deferred' = queue_tasks_deferred
      /\ request' = request /\ pc' = pc /\ received' = received
    BY DEF TasksDone, MultitasksDone, SampleToken, StopSlot, DecodeFails, BatchDone, WakeUp,
           queueVars, clientVars
<1>2. Queued' = Queued /\ TypeInv'
    BY <1>1, QueuedSame, DecodeTypes
<1>3. \A s : s \in Working' <=> s \in Slots /\ Works(slots'[s])
    BY DEF Working, Works
<1>4. \A s : s \in Working <=> s \in Slots /\ Works(slots[s])
    BY DEF Working
<1>5. /\ slots \in [Slots -> ASlot] /\ Results \in Qs
      /\ Ordered(Results, Queued, Working, slots)
      /\ loop = "decode" => \A s \in batch : Going(slots[s])
    BY ResultsTyped DEF TypeInv, TypeOK, OrderInv, OwnInv
<1>6. PICK A, W : A = Queued' /\ W = Working'
    OBVIOUS
<1>7. CASE TasksDone \/ MultitasksDone \/ BatchDone \/ WakeUp
    <2>1. /\ queue_multitasks' = queue_multitasks /\ queue_results' = queue_results
          /\ slots' = slots
        BY <1>7 DEF TasksDone, MultitasksDone, BatchDone, WakeUp, resultVars
    <2>2. \A s \in Working' : s \in Working /\ slots'[s] = slots[s]
        BY <1>3, <1>4, <2>1
    <2>. QED
        BY <1>1, <1>2, <2>1, <2>2, MovesOn
<1>8. CASE DecodeFails
    <2>1. PICK s \in Slots : (s \in batch \/ Loading(slots, s)) /\ request[slots[s].client].fills
        BY <1>8 DEF DecodeFails
    <2>2. s \in Working
        BY <1>4, <1>5, <1>8, <2>1, WorksHow DEF DecodeFails, Loading, Loads
    <2>3. slots[s].client \in Callers /\ IsCompletion(slots[s].client)
        BY <2>2, Apart DEF Owned
    <2>. QED
        BY <2>1, <2>3 DEF MayFail
<1>. DEFINE cur == Current
            x == slots[cur].id_task
<1>9. ASSUME batch # {}, loop = "decode"
      PROVE  /\ cur \in Slots /\ slots[cur] \in ASlot /\ Going(slots[cur]) /\ cur \in Working
             /\ Owned(x, slots[cur].id_multi, slots[cur].client) /\ x \notin Queued
             /\ \A s \in Working : slots[s].id_task = x => s = cur
             /\ InPlace(Queued, Working, slots, x)
             /\ x \in Callers => pc[x] \notin {"start", "post"}
    <2>1. /\ cur \in Slots /\ slots[cur] \in ASlot /\ Going(slots[cur]) /\ cur \in Working
        BY <1>4, <1>5, <1>9, CurrentSlot, WorksHow
    <2>2. /\ Owned(x, slots[cur].id_multi, slots[cur].client) /\ x \notin Queued
          /\ \A s \in Working : slots[s].id_task = x => s = cur
        BY <2>1, Apart
    <2>3. InPlace(Queued, Working, slots, x)
        BY <2>1 DEF InPlace
    <2>4. x \in Ids
        BY <2>2, OwnedFacts DEF WorkInv
    <2>. HIDE DEF x, cur
    <2>. QED
        BY <2>1, <2>2, <2>3, <2>4, PostedInPlace
<1>. HIDE DEF cur, x
<1>10. CASE SampleToken
    <2>. DEFINE slot == [slots[cur] EXCEPT !.n_decoded = @ + 1]
                r == SlotResult(slot, "partial")
    <2>1. /\ slots' = [slots EXCEPT ![cur] = slot] /\ batch # {} /\ loop = "decode"
          /\ \/ SetResults(Send(Results, r))
             \/ queue_results' = queue_results /\ queue_multitasks' = queue_multitasks
        BY <1>10 DEF SampleToken, resultVars, cur
    <2>2. slots[cur].n_decoded \in Nat
        BY <1>9, <2>1 DEF ASlot
    <2>3. PICK n \in Nat : n = slots[cur].n_decoded + 1 /\ slots[cur].n_decoded < n
        <3>1. slots[cur].n_decoded + 1 \in Nat /\ slots[cur].n_decoded < slots[cur].n_decoded + 1
            BY <2>2
        <3>. QED
            BY <3>1
    <2>4. /\ slot \in ASlot /\ Going(slot) /\ Alike(slot, slots[cur]) /\ slot.n_decoded = n
        BY <1>9, <2>1, <2>3 DEF ASlot, Going, Alike
    <2>. HIDE DEF slot
    <2>5. /\ r \in AResult /\ r.id = x /\ r.kind = "partial" /\ r.n = n
        BY <2>4, SlotResultTyped DEF SlotResult, Result, Alike, x
    <2>6. /\ slots'[cur] = slot /\ \A s \in Slots \ {cur} : slots'[s] = slots[s]
        BY <1>5, <1>9, <2>1
    <2>7. W = Working /\ A = Queued
        <3>1. \A s \in Slots : Works(slots'[s]) <=> Works(slots[s])
            BY <1>9, <2>1, <2>4, <2>6, WorksHow
        <3>. QED
            BY <1>2, <1>3, <1>4, <1>6, <3>1
    <2>8. \A s \in W : slots'[s].id_task = slots[s].id_task
        BY <1>4, <2>4, <2>6, <2>7 DEF Alike, x
    <2>9. Ordered(Results, A, W, slots')
        <3>1. /\ \A s \in W : slots[s] \in ASlot
              /\ \A s \in W : slots'[s] \in ASlot
            BY <1>4, <1>5, <2>4, <2>6, <2>7
        <3>2. \A s \in Slots : slots[s].n_decoded \in Nat
            BY <1>5 DEF ASlot
        <3>3. \A s \in Slots : slots[s].n_decoded <= slots'[s].n_decoded
            BY <2>2, <2>3, <2>4, <2>6, <3>2
        <3>4. \A s \in W : Going(slots[s]) => Going(slots'[s]) /\ slots[s].n_decoded <= slots'[s].n_decoded
            BY <1>4, <2>4, <2>6, <2>7, <3>3
        <3>. QED
            BY <1>5, <2>7, <2>8, <3>1, <3>4, GotTyped, OrderMoves
    <2>10. CASE queue_results' = queue_results /\ queue_multitasks' = queue_multitasks
        BY <1>1, <1>6, <2>9, <2>10, MainOrder DEF Results
    <2>11. CASE SetResults(Send(Results, r))
        <3>1. x \in Callers => \A g : Got(Results, x, g) => Before(g, r)
            <4>. SUFFICES ASSUME x \in Callers, NEW g, Got(Results, x, g)
                          PROVE  Before(g, r)
                OBVIOUS
            <4>1. ~IsMulti(x)
                <5>1. x = slots[cur].client
                    BY <1>9, <2>1, OwnedFacts, Asked DEF WorkInv
                <5>. QED
                    BY <1>9, <2>1, <5>1, OwnedFacts, Asked DEF WorkInv
            <4>2. SingleTold(Results, Queued, Working, slots, x)
                BY <1>5, <4>1 DEF Ordered, Told
            <4>3. g.kind = "partial" /\ g.n <= slots[cur].n_decoded
                BY <1>9, <2>1, <4>2 DEF SingleTold, x
            <4>4. g \in AResult
                BY GotTyped
            <4>5. g.n \in Nat
                BY <4>4 DEF AResult
            <4>6. g.n < n
                BY <2>2, <2>3, <4>3, <4>5
            <4>. QED
                BY <2>5, <4>3, <4>6 DEF Before
        <3>2. /\ cur \in W /\ slots'[cur].id_task = x /\ x \notin A /\ Going(slots'[cur])
              /\ \A s \in W : slots'[s].id_task = x => s = cur
              /\ Owned(x, slots'[cur].id_multi, slots[cur].client)
              /\ x \in Callers => pc[x] \notin {"start", "post"}
            BY <1>9, <2>1, <2>4, <2>6, <2>7, <2>8 DEF Alike, x
        <3>3. r = SlotResult(slots'[cur], "partial")
            BY <2>6
        <3>. HIDE DEF r
        <3>4. Ordered(Send(Results, r), A, W, slots')
            BY <1>5, <2>5, <2>9, <3>1, <3>2, <3>3, OrderSpeaks DEF WorkInv
        <3>. QED
            BY <1>1, <1>6, <2>11, <3>4, MainOrder DEF SetResults
    <2>. QED
        BY <2>1, <2>10, <2>11
<1>11. CASE StopSlot
    <2>1. /\ slots' = [slots EXCEPT ![cur] = Release(slots[cur])] /\ batch # {}
          /\ SetResults(Send(Results, SlotResult(slots[cur], "final"))) /\ loop = "decode"
        BY <1>11 DEF StopSlot, cur, TypeInv, TypeOK
    <2>2. PICK r : r = SlotResult(slots[cur], "final")
        OBVIOUS
    <2>3. /\ r \in AResult /\ r.kind # "partial" /\ r.id = x /\ r.id_multi = slots[cur].id_multi
        BY <1>9, <2>1, <2>2, SlotResultTyped DEF SlotResult, Result, x
    <2>4. \A s \in Slots : Works(slots'[s]) <=> Works(slots[s]) /\ s # cur
        BY <1>5, <1>9, <2>1, ReleaseDoes, WorksHow DEF Going, Loads
    <2>5. /\ A = Queued /\ W = Working \ {cur} /\ \A s \in W : slots'[s] = slots[s]
        BY <1>2, <1>3, <1>4, <1>5, <1>6, <2>1, <2>4
    <2>6. ~InPlace(A, W, slots', x)
        BY <1>9, <2>1, <2>5 DEF InPlace
    <2>7. A \subseteq Queued /\ W \subseteq Working
        BY <2>5
    <2>8. /\ Owned(r.id, r.id_multi, slots[cur].client) /\ InPlace(Queued, Working, slots, r.id)
          /\ r.id \in Callers => pc[r.id] \notin {"start", "post"}
          /\ ~InPlace(A, W, slots', r.id) /\ ClientShape
        BY <1>9, <2>1, <2>3, <2>6 DEF WorkInv
    <2>9. Ordered(Send(Results, r), A, W, slots')
        <3>1. Results \in Qs /\ Ordered(Results, Queued, Working, slots)
              /\ r \in AResult /\ r.kind # "partial" /\ \A s \in W : slots'[s] = slots[s]
            BY <1>5, <2>3, <2>5
        <3>. QED
            BY <2>7, <2>8, <3>1, OrderEnds
    <2>. QED
        BY <1>1, <1>6, <2>1, <2>2, <2>9, MainOrder DEF SetResults
<1>. QED
    BY <1>7, <1>8, <1>10, <1>11

\* recv moves the first of the results of its client from the queue to its end.
LEMMA RecvOrder ==
    ASSUME TypeInv, OrderInv, NEW c \in Callers, Recv(c), NEW d \in Callers
    PROVE  /\ InOrder(Results, d)'
           /\ \A r : Got(Results, d, r)' => Got(Results, d, r)
<1>. DEFINE old == queue_results
            new == queue_results'
            k == Taken(c)
            m(j) == IF j < k THEN j ELSE j + 1
<1>1. /\ k \in 1 .. Len(old) /\ old[k].id = c
      /\ \A j \in DOMAIN old : old[j].id = c => k <= j
      /\ new = RemoveAt(old, k)
      /\ received' = [received EXCEPT ![c] = Append(received[c], old[k])]
    BY FirstResult
<1>2. old \in Seq(AResult) /\ received \in [Callers -> Seq(AResult)]
    BY DEF TypeInv, TypeOK, OrderInv
<1>3. InOrder(Results, d)
    BY DEF OrderInv, Ordered
<1>. HIDE DEF old, new, k
<1>4. /\ DOMAIN old = 1 .. Len(old) /\ Len(old) \in Nat
      /\ DOMAIN new = 1 .. Len(old) - 1
      /\ \A j \in 1 .. Len(old) - 1 : new[j] = IF j < k THEN old[j] ELSE old[j + 1]
    BY <1>1, <1>2, RemovedAt, LenProperties
<1>5. /\ \A j \in DOMAIN new : m(j) \in DOMAIN old /\ new[j] = old[m(j)] /\ m(j) # k
      /\ \A i, j \in DOMAIN new : i < j => m(i) < m(j)
    BY <1>1, <1>4
<1>6. \A j \in DOMAIN old : j \in Nat
    BY <1>4
<1>7. k \in DOMAIN old
    BY <1>1, <1>4
<1>. HIDE DEF m
<1>8. \A i, j \in DOMAIN old : old[i].id = d /\ old[j].id = d /\ i < j => Before(old[i], old[j])
    BY <1>3 DEF InOrder, Results, old
<1>9. \A i \in DOMAIN received[d], j \in DOMAIN old : old[j].id = d => Before(received[d][i], old[j])
    BY <1>3 DEF InOrder, Results, old
<1>10. \A i, j \in DOMAIN received[d] : i < j => Before(received[d][i], received[d][j])
    BY <1>3 DEF InOrder
<1>11. Results'.results = new
    BY DEF Results, new
<1>12. \A i, j \in DOMAIN new : new[i].id = d /\ new[j].id = d /\ i < j => Before(new[i], new[j])
    BY <1>5, <1>8
<1>13. CASE d # c
    <2>1. received'[d] = received[d]
        BY <1>1, <1>2, <1>13
    <2>2. InOrder(Results, d)'
        BY <1>5, <1>9, <1>10, <1>11, <1>12, <2>1 DEF InOrder
    <2>3. \A r : Got(Results, d, r)' => Got(Results, d, r)
        BY <1>5, <1>11, <2>1 DEF Got, Results, old
    <2>. QED
        BY <2>2, <2>3
<1>14. CASE d = c
    <2>. DEFINE a == received[d]
                b == received'[d]
                n == Len(a) + 1
    <2>1. b = Append(a, old[k]) /\ a \in Seq(AResult) /\ old[k] \in AResult
        BY <1>1, <1>2, <1>4, <1>14, ElementOfSeq
    <2>. HIDE DEF a, b
    <2>2. /\ n \in DOMAIN b /\ b[n] = old[k] /\ DOMAIN a \subseteq Nat /\ DOMAIN b \subseteq Nat
          /\ \A i \in DOMAIN a : b[i] = a[i] /\ i < n
          /\ \A i \in DOMAIN b : i \in DOMAIN a \/ i = n
        BY <2>1, Appended
    <2>. HIDE DEF n
    <2>3. \A i, j \in DOMAIN b : i < j => Before(b[i], b[j])
        <3>. SUFFICES ASSUME NEW i \in DOMAIN b, NEW j \in DOMAIN b, i < j
                      PROVE  Before(b[i], b[j])
            OBVIOUS
        <3>1. i \in DOMAIN a
            BY <2>2
        <3>2. CASE j \in DOMAIN a
            BY <1>10, <2>2, <3>1, <3>2 DEF a
        <3>3. CASE j = n
            BY <1>1, <1>7, <1>9, <1>14, <2>2, <3>1, <3>3 DEF a
        <3>. QED
            BY <2>2, <3>2, <3>3
    <2>4. ASSUME NEW j \in DOMAIN new, new[j].id = d, NEW i \in DOMAIN b
          PROVE  Before(b[i], new[j])
        <3>1. m(j) \in DOMAIN old /\ new[j] = old[m(j)] /\ m(j) # k /\ old[m(j)].id = d
            BY <1>5, <2>4
        <3>2. k < m(j)
            BY <1>1, <1>6, <1>7, <1>14, <3>1
        <3>3. CASE i \in DOMAIN a
            BY <1>9, <2>2, <3>1, <3>3 DEF a
        <3>4. CASE i = n
            BY <1>1, <1>7, <1>8, <1>14, <2>2, <3>1, <3>2, <3>4
        <3>. QED
            BY <2>2, <3>3, <3>4
    <2>5. InOrder(Results, d)'
        BY <1>11, <1>12, <2>3, <2>4 DEF InOrder, b
    <2>6. \A r : Got(Results, d, r)' => Got(Results, d, r)
        <3>. SUFFICES ASSUME NEW r, Got(Results, d, r)'
                      PROVE  Got(Results, d, r)
            OBVIOUS
        <3>1. CASE \E i \in DOMAIN b : b[i] = r
            BY <1>1, <1>7, <1>14, <2>2, <3>1 DEF Got, Results, old, a
        <3>2. CASE \E i \in DOMAIN new : new[i].id = d /\ new[i] = r
            BY <1>5, <3>2 DEF Got, Results, old
        <3>. QED
            BY <1>11, <3>1, <3>2 DEF Got, b
    <2>. QED
        BY <2>5, <2>6
<1>. QED
    BY <1>13, <1>14

LEMMA ClientOrder ==
    ASSUME WorkInv, TypeInv, PlaceInv, OwnInv, OrderInv, NEW c \in Callers, Client(c)
    PROVE  OrderInv'
<1>1. /\ request' = request /\ queue_tasks_deferred' = queue_tasks_deferred /\ slots' = slots
      /\ Callers' = Callers /\ AResult' = AResult
    BY ClientLeaves, TypesStay DEF Callers
<1>2. /\ \A d \in Callers \ {c} : pc'[d] = pc[d]
      /\ pc'[c] \in {"start", "add multitask"} => pc[c] = "start"
      /\ pc'[c] # "start"
      /\ pc'[c] = "post" => pc[c] = "start"
    BY ClientGoes
<1>3. received' \in [Callers -> Seq(AResult)]
    <2>1. received \in [Callers -> Seq(AResult)]
        BY DEF OrderInv
    <2>2. CASE Recv(c)
        <3>1. PICK k : k = Taken(c)
            OBVIOUS
        <3>2. /\ k \in 1 .. Len(queue_results) /\ queue_results \in Seq(AResult)
              /\ received' = [received EXCEPT ![c] = Append(received[c], queue_results[k])]
            BY <2>2, <3>1, FirstResult DEF TypeInv, TypeOK
        <3>3. queue_results[k] \in AResult /\ received[c] \in Seq(AResult)
            BY <2>1, <3>2, ElementOfSeq
        <3>4. Append(received[c], queue_results[k]) \in Seq(AResult)
            BY <3>3, AppendProperties
        <3>. QED
            BY <2>1, <3>2, <3>4
    <2>3. CASE ~Recv(c)
        BY <2>1, <2>3 DEF Client, Register, PostTask, AddMultitask, PostSubtask, BreakEarly, Leave, Cancel
    <2>. QED
        BY <2>2, <2>3
<1>4. ASSUME NEW d \in Callers
      PROVE  /\ InOrder(Results, d)'
             /\ \A r : Got(Results, d, r)' => Got(Results, d, r)
    <2>1. CASE Recv(c)
        BY <2>1, RecvOrder
    <2>2. CASE ~Recv(c)
        <3>1. received' = received /\ queue_results' = queue_results
            BY <2>2 DEF Client, Register, PostTask, AddMultitask, PostSubtask, BreakEarly, Leave, Cancel,
                        resultVars
        <3>2. InOrder(Results, d)
            BY DEF OrderInv, Ordered
        <3>. QED
            BY <3>1, <3>2 DEF InOrder, Got, Results
    <2>. QED
        BY <2>1, <2>2
<1>5. \A d \in Callers : d \in Queued' => d \in Queued \/ pc[d] \in {"start", "post"}
    <2>. SUFFICES ASSUME NEW d \in Callers, d \in Queued', d \notin Queued
                  PROVE  pc[d] \in {"start", "post"}
        OBVIOUS
    <2>1. d \in Ids /\ Absent(queue_tasks, d) /\ ~Absent(queue_tasks, d)'
        BY <1>1, TypesStay DEF Queued, Absent
    <2>2. PICK t \in Tasks : /\ queue_tasks' = Append(queue_tasks, t)
                             /\ t.id = None \/ ~Known(t.id)
        BY <2>1, ClientPosts DEF Absent
    <2>3. t.id = d
        <3>. DEFINE q == queue_tasks
                    r == queue_tasks'
        <3>1. q \in Seq(Tasks)
            BY DEF WorkInv, QueueShape
        <3>2. r = Append(q, t)
            BY <2>2
        <3>. HIDE DEF q, r
        <3>3. /\ Len(q) + 1 \in DOMAIN r /\ r[Len(q) + 1] = t
              /\ \A i \in DOMAIN q : r[i] = q[i]
              /\ \A i \in DOMAIN r : i \in DOMAIN q \/ i = Len(q) + 1
            BY <3>1, <3>2, Appended
        <3>4. PICK i \in DOMAIN r : r[i].id = d
            BY <2>1 DEF Absent, r
        <3>5. i \notin DOMAIN q
            BY <2>1, <3>3, <3>4 DEF Absent, q
        <3>. QED
            BY <3>3, <3>4, <3>5
    <2>4. d # None
        BY <2>1, IdsReal DEF WorkInv
    <2>. QED
        BY <2>2, <2>3, <2>4 DEF Known
<1>6. \A i \in DOMAIN queue_multitasks' :
          \/ queue_multitasks'[i].id = c /\ pc[c] = "add multitask"
          \/ \E j \in DOMAIN queue_multitasks : queue_multitasks'[i] = queue_multitasks[j]
    <2>. DEFINE old == queue_multitasks
                new == queue_multitasks'
    <2>1. CASE AddMultitask(c)
        <3>. DEFINE m == [id |-> c, remaining |-> SubIds(c), results |-> <<>>]
        <3>0. c \in Clients /\ pc[c] = "add multitask"
            BY <2>1, Asked DEF AddMultitask, At, WorkInv
        <3>1. m \in AMultitask /\ m.id = c
            <4>1. SubIds(c) \subseteq Ids /\ <<>> \in Seq(AResult)
                BY DEF Ids
            <4>. QED
                BY <3>0, <4>1 DEF AMultitask
        <3>2. new = Append(old, m) /\ old \in Seq(AMultitask)
            BY <2>1 DEF AddMultitask, TypeInv, TypeOK
        <3>. HIDE DEF m, old, new
        <3>3. /\ \A i \in DOMAIN new : i \in DOMAIN old \/ i = Len(old) + 1
              /\ \A i \in DOMAIN old : new[i] = old[i]
              /\ new[Len(old) + 1] = m
            BY <3>1, <3>2, Appended
        <3>4. \A i \in DOMAIN new : (i \in DOMAIN old /\ new[i] = old[i]) \/ new[i] = m
            BY <3>3
        <3>. USE DEF old, new
        <3>. QED
            BY <3>0, <3>1, <3>4
    <2>2. CASE ~AddMultitask(c)
        <3>1. queue_multitasks' = queue_multitasks
            BY <2>2 DEF Client, Register, PostTask, PostSubtask, Recv, BreakEarly, Leave, Cancel,
                        resultVars
        <3>. QED
            BY <3>1
    <2>. QED
        BY <2>1, <2>2
<1>7. ASSUME NEW d \in Callers
      PROVE  Told(Results, Queued, Working, slots, d)'
    <2>0. Told(Results, Queued, Working, slots, d)
        BY DEF OrderInv, Ordered
    <2>1. IsMulti(d)' <=> IsMulti(d)
        BY <1>1 DEF IsMulti, IsCompletion
    <2>2. CASE IsMulti(d)
        <3>1. MultiTold(Results, d)
            BY <2>0, <2>2 DEF Told
        <3>2. pc'[d] \in {"start", "add multitask"} => Untold(Results, d)
            BY <1>2, <3>1 DEF MultiTold
        <3>3. \A i \in DOMAIN queue_multitasks' : queue_multitasks'[i].id = d => Untold(Results, d)
            BY <1>6, <3>1 DEF MultiTold, Results
        <3>4. MultiTold(Results, d)'
            BY <1>4, <3>1, <3>2, <3>3 DEF MultiTold, Untold, Results
        <3>. QED
            BY <2>1, <2>2, <3>4 DEF Told
    <2>3. CASE ~IsMulti(d)
        <3>1. SingleTold(Results, Queued, Working, slots, d)
            BY <2>0, <2>3 DEF Told
        <3>2. pc'[d] \in {"start", "post"} => pc[d] \in {"start", "post"}
            BY <1>2
        <3>3. Working' = Working
            BY <1>1 DEF Working, Works
        <3>4. SingleTold(Results, Queued, Working, slots, d)'
            BY <1>1, <1>4, <1>5, <3>1, <3>2, <3>3 DEF SingleTold, Untold, Going
        <3>. QED
            BY <2>1, <2>3, <3>4 DEF Told
    <2>. QED
        BY <2>2, <2>3
<1>. QED
    BY <1>1, <1>3, <1>4, <1>7 DEF OrderInv, Ordered

LEMMA OrderStep ==
    ASSUME WorkInv, TypeInv, PlaceInv, OwnInv, OrderInv, ~MayFail, [Next]_vars
    PROVE  OrderInv'
<1>1. CASE UNCHANGED vars
    <2>1. /\ request' = request /\ pc' = pc /\ received' = received
          /\ queue_tasks' = queue_tasks /\ queue_tasks_deferred' = queue_tasks_deferred
          /\ queue_multitasks' = queue_multitasks /\ queue_results' = queue_results
          /\ slots' = slots
        BY <1>1 DEF vars, mainVars, queueVars, clientVars, resultVars
    <2>2. Queued' = Queued /\ Working' = Working
        BY <2>1, QueuedSame DEF Working, Works
    <2>3. TypeInv'
        BY TypeStep
    <2>. QED
        BY <2>1, <2>2, <2>3, MovesOn
<1>2. CASE MainLoop
    BY <1>2, ProcessTaskOrder, FinishOrder, UpdateOrder, DecodeOrder DEF MainLoop
<1>3. ASSUME NEW c \in Callers, Client(c)
      PROVE  OrderInv'
    BY <1>3, ClientOrder
<1>. QED
    BY <1>1, <1>2, <1>3 DEF Next

\* What the clients ask for never changes.
LEMMA RequestsStay ==
    ASSUME [Next]_vars
    PROVE  request' = request
BY DEF Next, MainLoop, ProcessTask, TasksDone, FinishMultitask, MultitasksDone, UpdateIdle,
       UpdateBusy, SampleToken, StopSlot, DecodeFails, BatchDone, WakeUp, Client, Register,
       PostTask, AddMultitask, PostSubtask, Recv, BreakEarly, Leave, Cancel, vars, mainVars,
       queueVars, clientVars, resultVars

\* Unless llama_decode may fail for good, what the client of a stream receives is
\* in the order in which it was generated, and nothing comes after its last result.
THEOREM StreamsInOrder == Spec => []StreamInOrder
<1>. DEFINE I == WorkInv /\ TypeInv /\ PlaceInv /\ OwnInv /\ (MayFail \/ OrderInv)
<1>1. Init => I
    BY WorkInit, TypeInit, PlaceInit, OwnInit, OrderInit
<1>2. I /\ [Next]_vars => I'
    <2>. SUFFICES ASSUME I, [Next]_vars
                  PROVE  I'
        OBVIOUS
    <2>1. WorkInv' /\ TypeInv' /\ PlaceInv' /\ OwnInv'
        BY WorkStep, TypeStep, PlaceStep, OwnStep
    <2>2. ~MayFail' => OrderInv'
        <3>1. CASE MayFail
            BY <3>1, RequestsStay DEF MayFail, Callers, IsCompletion
        <3>2. CASE ~MayFail
            BY <3>2, OrderStep
        <3>. QED
            BY <3>1, <3>2
    <2>. QED
        BY <2>1, <2>2
<1>3. I => StreamInOrder
    <2>. SUFFICES ASSUME OrderInv, NEW c \in Callers
                  PROVE  InOrder(Results, c)
        BY DEF StreamInOrder, InOrder, ResultsFor, Results
    <2>. QED
        BY DEF OrderInv, Ordered
<1>. QED
    BY <1>1, <1>2, <1>3, PTL DEF Spec

-----------------------------------------------------------------------------
(* Every task has its answer.                                              *)

Placed == {x \in Ids : InPlace(Queued, Working, slots, x)}

HasLast(q, c) ==
    \E i \in DOMAIN q.results : q.results[i].id = c /\ q.results[i].kind # "partial"

\* P are the tasks that have a place.
SingleAnswered(q, P, c) == pc[c] = "recv" /\ ~PostsFirst(c) => c \in P \/ HasLast(q, c)

LastOf(m, x, j) ==
    j \in DOMAIN m.results /\ m.results[j].id = x /\ m.results[j].kind # "partial"

\* The multitask m of client c waits for subtask n.
WaitsFor(m, P, c, n) ==
    /\ \A j, k : LastOf(m, <<c, n>>, j) /\ LastOf(m, <<c, n>>, k) => j = k
    /\ <<c, n>> \in m.remaining <=> ~ \E j : LastOf(m, <<c, n>>, j)
    /\ <<c, n>> \in m.remaining <=> posted[c] < n \/ <<c, n>> \in P

Open(m, P, c) == m.id = c /\ \A n \in 1 .. request[c].n_prompts : WaitsFor(m, P, c, n)

MultiAnswered(q, P, c) ==
    pc[c] \in {"post subtasks", "recv"} =>
        \/ \E i \in DOMAIN q.multis : Open(q.multis[i], P, c)
        \/ /\ \A i \in DOMAIN q.multis : q.multis[i].id # c
           /\ HasLast(q, c)
           /\ \A n \in 1 .. request[c].n_prompts : ~(posted[c] < n) /\ <<c, n>> \notin P

AllAnswered(q, P) ==
    \A c \in Callers : IF IsMulti(c) THEN MultiAnswered(q, P, c) ELSE SingleAnswered(q, P, c)

AnswerInv == AllAnswered(Results, Placed)

\* No request streams the results of several prompts, which the code does not tell
\* apart, and none that sets a new system prompt, which stops all slots, is mixed
\* with others.
Plain ==
    /\ \A c \in Callers : IsStream(c) => ~IsMulti(c)
    /\ \A c, d \in Callers :
        IsCompletion(c) /\ request[c].system /\ IsCompletion(d) => c = d /\ ~IsMulti(c)

LEMMA AnswerInit == Init => AnswerInv
<1>. SUFFICES ASSUME Init PROVE AnswerInv
    OBVIOUS
<1>1. \A c \in Callers : pc[c] = "start"
    BY DEF Init
<1>. QED
    BY <1>1 DEF AnswerInv, AllAnswered, MultiAnswered, SingleAnswered

LEMMA Prompts ==
    ASSUME ClientShape, NEW c \in Callers, IsMulti(c)
    PROVE  /\ request[c].n_prompts \in Nat
           /\ \A n \in 1 .. request[c].n_prompts : <<c, n>> \in Ids /\ <<c, n>> \notin Clients
<1>1. request[c].type = "completion" /\ request[c] \in Completion \cup Other /\ c \in Clients
    BY Asked DEF IsMulti, IsCompletion
<1>2. request[c] \in Completion
    BY <1>1 DEF Other
<1>3. request[c].n_prompts \in 1 .. 2
    BY <1>2 DEF Completion
<1>4. ASSUME NEW n \in 1 .. request[c].n_prompts
      PROVE  <<c, n>> \in Ids /\ <<c, n>> \notin Clients
    <2>1. n \in Nat
        BY <1>3
    <2>2. <<c, n>> \in SubIds(c)
        BY DEF SubIds
    <2>3. <<c, n>> \in Clients \X Nat
        BY <1>1, <2>1
    <2>. QED
        BY <2>2, <2>3, PairsAssumption DEF Ids
<1>. QED
    BY <1>3, <1>4

\* More results, and the same tasks in place.
LEMMA AnswerGrows ==
    ASSUME NEW q, NEW P, AllAnswered(q, P), NEW q2, NEW P2,
           \A c \in Callers : HasLast(q, c) => HasLast(q2, c),
           q2.multis = q.multis,
           \A c \in Callers : pc[c] = "recv" /\ c \in P => c \in P2,
           \A c \in Callers : IsMulti(c) =>
                \A n \in 1 .. request[c].n_prompts : <<c, n>> \in P2 <=> <<c, n>> \in P
    PROVE  AllAnswered(q2, P2)
<1>. SUFFICES ASSUME NEW c \in Callers
              PROVE  IF IsMulti(c) THEN MultiAnswered(q2, P2, c) ELSE SingleAnswered(q2, P2, c)
    BY DEF AllAnswered
<1>1. CASE ~IsMulti(c)
    BY <1>1 DEF AllAnswered, SingleAnswered
<1>2. CASE IsMulti(c)
    <2>. SUFFICES ASSUME pc[c] \in {"post subtasks", "recv"}
                  PROVE  MultiAnswered(q2, P2, c)
        BY <1>2 DEF MultiAnswered
    <2>1. \A m : Open(m, P, c) => Open(m, P2, c)
        BY <1>2 DEF Open, WaitsFor
    <2>2. MultiAnswered(q, P, c)
        BY <1>2 DEF AllAnswered
    <2>3. CASE \E i \in DOMAIN q.multis : Open(q.multis[i], P, c)
        BY <2>1, <2>3 DEF MultiAnswered
    <2>4. CASE ~ \E i \in DOMAIN q.multis : Open(q.multis[i], P, c)
        BY <1>2, <2>2, <2>4 DEF MultiAnswered
    <2>. QED
        BY <2>3, <2>4
<1>. QED
    BY <1>1, <1>2

\* A result of the client is queued when it waits for one.
LEMMA SendKeeps ==
    ASSUME NEW q \in Qs, NEW r \in AResult, NEW c
    PROVE  /\ HasLast(q, c) => HasLast(Send(q, r), c)
           /\ r.id = c /\ c \in waiting_task_ids /\ r.kind # "partial" => HasLast(Send(q, r), c)
<1>1. PICK s : s = Send(q, r)
    OBVIOUS
<1>2. /\ q.results \in Seq(AResult)
      /\ s.results = IF r.id \in waiting_task_ids THEN Append(q.results, r) ELSE q.results
    BY <1>1, SendDoes DEF Qs
<1>3. CASE r.id \notin waiting_task_ids
    BY <1>1, <1>2, <1>3 DEF HasLast
<1>4. CASE r.id \in waiting_task_ids
    <2>1. /\ DOMAIN q.results \subseteq DOMAIN s.results
          /\ Len(q.results) + 1 \in DOMAIN s.results /\ s.results[Len(q.results) + 1] = r
          /\ \A i \in DOMAIN q.results : s.results[i] = q.results[i]
        BY <1>2, <1>4, Appended
    <2>. QED
        BY <1>1, <2>1 DEF HasLast
<1>. QED
    BY <1>3, <1>4

\* The last results of a multitask that has got another one.
LEMMA LastSent ==
    ASSUME NEW m, m.results \in Seq(AResult), NEW r \in AResult, NEW m2,
           m2.results = Append(m.results, r)
    PROVE  /\ \A x, j : r.id # x => (LastOf(m2, x, j) <=> LastOf(m, x, j))
           /\ r.kind # "partial" => LastOf(m2, r.id, Len(m.results) + 1)
           /\ \A j : LastOf(m2, r.id, j) => LastOf(m, r.id, j) \/ j = Len(m.results) + 1
<1>1. PICK a : a = m.results
    OBVIOUS
<1>2. PICK b : b = m2.results
    OBVIOUS
<1>3. PICK z : z = Len(a) + 1
    OBVIOUS
<1>4. a \in Seq(AResult) /\ b = Append(a, r)
    BY <1>1, <1>2
<1>5. /\ DOMAIN a \subseteq DOMAIN b
      /\ z \in DOMAIN b /\ b[z] = r
      /\ \A j \in DOMAIN a : b[j] = a[j]
      /\ \A j \in DOMAIN b : j \in DOMAIN a \/ j = z
    BY <1>3, <1>4, Appended
<1>6. \A x, j : r.id # x => (LastOf(m2, x, j) <=> LastOf(m, x, j))
    BY <1>1, <1>2, <1>5 DEF LastOf
<1>7. r.kind # "partial" => LastOf(m2, r.id, z)
    BY <1>1, <1>2, <1>5 DEF LastOf
<1>8. \A j : LastOf(m2, r.id, j) => LastOf(m, r.id, j) \/ j = z
    BY <1>1, <1>2, <1>5 DEF LastOf
<1>. QED
    BY <1>1, <1>3, <1>6, <1>7, <1>8

LEMMA WaitsDone ==
    ASSUME NEW m, NEW P, NEW c, NEW n, NEW x, x = <<c, n>>, NEW z, LastOf(m, x, z),
           \A j : LastOf(m, x, j) => j = z,
           x \notin m.remaining, x \notin P, ~(posted[c] < n)
    PROVE  WaitsFor(m, P, c, n)
<1>1. \A j, k : LastOf(m, x, j) /\ LastOf(m, x, k) => j = k
    OBVIOUS
<1>2. \E j : LastOf(m, x, j)
    OBVIOUS
<1>. QED
    BY <1>1, <1>2 DEF WaitsFor

\* The multitask gets the last result of subtask n.
LEMMA SubDone ==
    ASSUME NEW m, m.results \in Seq(AResult), NEW r \in AResult, r.kind # "partial", NEW m2,
           m2.results = Append(m.results, r), m2.remaining = m.remaining \ {r.id},
           NEW c, NEW n, r.id = <<c, n>>, NEW P, r.id \in P, WaitsFor(m, P, c, n),
           ~(posted[c] < n)
    PROVE  WaitsFor(m2, P \ {r.id}, c, n)
<1>1. PICK x : x = r.id
    OBVIOUS
<1>2. PICK z : z = Len(m.results) + 1
    OBVIOUS
<1>3. ~ \E j : LastOf(m, x, j)
    <2>1. <<c, n>> = x
        BY <1>1
    <2>2. x \in m.remaining <=> ~ \E j : LastOf(m, x, j)
        BY <2>1 DEF WaitsFor
    <2>3. x \in m.remaining <=> posted[c] < n \/ x \in P
        BY <2>1 DEF WaitsFor
    <2>. QED
        BY <1>1, <2>2, <2>3
<1>4. LastOf(m2, x, z) /\ \A j : LastOf(m2, x, j) => LastOf(m, x, j) \/ j = z
    BY <1>1, <1>2, LastSent
<1>5. LastOf(m2, x, z) /\ \A j : LastOf(m2, x, j) => j = z
    BY <1>3, <1>4
<1>6. x = <<c, n>> /\ x \notin m2.remaining /\ x \notin P \ {r.id}
    BY <1>1
<1>. QED
    BY <1>5, <1>6, WaitsDone

\* A task gets its last result and leaves its place.
LEMMA AnswerEnds ==
    ASSUME NEW q \in Qs, NEW P, AllAnswered(q, P), ClientShape, Registered, OwnMultis(q.multis),
           waiting_task_ids \subseteq Clients,
           NEW r \in AResult, r.kind # "partial", NEW d, Owned(r.id, r.id_multi, d), r.id \in P,
           \A n \in 1 .. request[d].n_prompts : r.id = <<d, n>> => ~(posted[d] < n)
    PROVE  AllAnswered(Send(q, r), P \ {r.id})
<1>. DEFINE P2 == P \ {r.id}
<1>1. PICK q2 : q2 = Send(q, r)
    OBVIOUS
<1>2. /\ DOMAIN q2.multis = DOMAIN q.multis
      /\ \A i \in DOMAIN q.multis :
            /\ q2.multis[i].id = q.multis[i].id
            /\ r.id_multi \notin waiting_task_ids \/ q.multis[i].id # r.id_multi
                    => q2.multis[i] = q.multis[i]
            /\ r.id_multi \in waiting_task_ids /\ q.multis[i].id = r.id_multi
                    => /\ q2.multis[i].remaining = q.multis[i].remaining \ {r.id}
                       /\ q2.multis[i].results = Append(q.multis[i].results, r)
    BY <1>1, SendDoes
<1>3. \A c : HasLast(q, c) => HasLast(q2, c)
    BY <1>1, SendKeeps
<1>4. d \in Clients
    BY OwnedFacts
<1>5. /\ ~IsMulti(d) => r.id = d /\ r.id_multi = None
      /\ IsMulti(d) => r.id_multi = d /\ r.id \notin Clients
                       /\ \E n \in 1 .. request[d].n_prompts : r.id = <<d, n>>
      /\ d \in Callers
    BY OwnedFacts
<1>6. None \notin waiting_task_ids
    BY NoneAssumption
<1>. SUFFICES ASSUME NEW c \in Callers
              PROVE  IF IsMulti(c) THEN MultiAnswered(q2, P2, c) ELSE SingleAnswered(q2, P2, c)
    BY <1>1 DEF AllAnswered
<1>7. CASE ~IsMulti(c)
    <2>. SUFFICES ASSUME pc[c] = "recv", ~PostsFirst(c)
                  PROVE  c \in P2 \/ HasLast(q2, c)
        BY <1>7 DEF SingleAnswered
    <2>1. c \in waiting_task_ids
        BY DEF Registered
    <2>2. c \in P \/ HasLast(q, c)
        BY <1>7 DEF AllAnswered, SingleAnswered
    <2>3. r.id = c => HasLast(q2, c)
        BY <1>1, <2>1, SendKeeps
    <2>. QED
        BY <1>3, <2>2, <2>3
<1>8. CASE IsMulti(c)
    <2>. SUFFICES ASSUME pc[c] \in {"post subtasks", "recv"}
                  PROVE  MultiAnswered(q2, P2, c)
        BY <1>8 DEF MultiAnswered
    <2>1. c \in waiting_task_ids
        BY <1>8 DEF Registered, IsMulti, IsCompletion, PostsFirst
    <2>2. MultiAnswered(q, P, c)
        BY <1>8 DEF AllAnswered
    <2>3. ASSUME NEW i \in DOMAIN q.multis, Open(q.multis[i], P, c)
          PROVE  Open(q2.multis[i], P2, c)
        <3>1. q.multis[i].id = c /\ q2.multis[i].id = c
            BY <1>2, <2>3 DEF Open
        <3>2. CASE c # d
            <4>1. q2.multis[i] = q.multis[i]
                BY <1>2, <1>5, <1>6, <3>1, <3>2
            <4>2. \A n \in 1 .. request[c].n_prompts : <<c, n>> # r.id
                <5>. SUFFICES ASSUME NEW n \in 1 .. request[c].n_prompts, <<c, n>> = r.id
                              PROVE  FALSE
                    OBVIOUS
                <5>1. <<c, n>> \notin Clients
                    BY <1>8, Prompts
                <5>2. PICK k : <<c, n>> = <<d, k>>
                    BY <1>4, <1>5, <5>1
                <5>. QED
                    BY <3>2, <5>2
            <4>. QED
                BY <2>3, <4>1, <4>2 DEF Open, WaitsFor
        <3>3. CASE c = d
            <4>1. PICK n0 \in 1 .. request[c].n_prompts : r.id = <<c, n0>>
                BY <1>5, <1>8, <3>3
            <4>. DEFINE m == q.multis[i]
                        m2 == q2.multis[i]
            <4>2. m2.remaining = m.remaining \ {r.id} /\ m2.results = Append(m.results, r)
                BY <1>2, <1>5, <1>8, <2>1, <3>1, <3>3
            <4>3. m.results \in Seq(AResult)
                <5>1. q.multis \in Seq(AMultitask)
                    BY DEF Qs
                <5>2. m \in AMultitask
                    BY <5>1, LenProperties, ElementOfSeq
                <5>. QED
                    BY <5>2 DEF AMultitask
            <4>. HIDE DEF m, m2
            <4>5. \A n \in 1 .. request[c].n_prompts : WaitsFor(m, P, c, n)
                BY <2>3 DEF Open, m
            <4>6. ASSUME NEW n \in 1 .. request[c].n_prompts, n # n0
                  PROVE  WaitsFor(m2, P2, c, n)
                <5>1. <<c, n>> # r.id
                    <6>1. <<c, n>> = <<c, n0>> => n = n0
                        OBVIOUS
                    <6>. QED
                        BY <4>1, <4>6, <6>1
                <5>2. \A j : LastOf(m2, <<c, n>>, j) <=> LastOf(m, <<c, n>>, j)
                    BY <4>2, <4>3, <5>1, LastSent
                <5>3. WaitsFor(m, P, c, n)
                    BY <4>5
                <5>. QED
                    BY <4>2, <5>1, <5>2, <5>3 DEF WaitsFor
            <4>7. WaitsFor(m2, P2, c, n0)
                <5>1. WaitsFor(m, P, c, n0)
                    BY <4>5
                <5>2. \A k \in 1 .. request[c].n_prompts : r.id = <<c, k>> => ~(posted[c] < k)
                    BY <3>3
                <5>3. m.results \in Seq(AResult) /\ m2.results = Append(m.results, r)
                    BY <4>2, <4>3
                <5>4. m2.remaining = m.remaining \ {r.id}
                    BY <4>2
                <5>5. ~(posted[c] < n0)
                    BY <4>1, <5>2
                <5>. QED
                    BY <4>1, <5>1, <5>3, <5>4, <5>5, SubDone
            <4>. QED
                BY <3>1, <4>6, <4>7 DEF Open, m2
        <3>. QED
            BY <3>2, <3>3
    <2>4. CASE \E i \in DOMAIN q.multis : Open(q.multis[i], P, c)
        BY <1>2, <2>3, <2>4 DEF MultiAnswered
    <2>5. CASE ~ \E i \in DOMAIN q.multis : Open(q.multis[i], P, c)
        <3>1. /\ \A i \in DOMAIN q.multis : q.multis[i].id # c
              /\ HasLast(q, c)
              /\ \A n \in 1 .. request[c].n_prompts : ~(posted[c] < n) /\ <<c, n>> \notin P
            BY <2>2, <2>5 DEF MultiAnswered
        <3>2. /\ \A i \in DOMAIN q2.multis : q2.multis[i].id # c
              /\ HasLast(q2, c)
            BY <1>2, <1>3, <3>1
        <3>. QED
            BY <3>1, <3>2 DEF MultiAnswered
    <2>. QED
        BY <2>4, <2>5
<1>. QED
    BY <1>7, <1>8

\* The main thread leaves alone what the answers of a client depend on.
LEMMA AnswersStay ==
    ASSUME request' = request, pc' = pc, posted' = posted, NEW q, NEW P, AllAnswered(q, P)
    PROVE  AllAnswered(q, P)'
<1>1. Callers' = Callers /\ \A c : (IsMulti(c)' <=> IsMulti(c)) /\ (PostsFirst(c)' <=> PostsFirst(c))
    BY DEF Callers, IsMulti, IsCompletion, PostsFirst
<1>2. \A c : HasLast(q, c)' <=> HasLast(q, c)
    BY DEF HasLast
<1>3. \A m, c : Open(m, P, c)' <=> Open(m, P, c)
    BY DEF Open, WaitsFor, LastOf
<1>4. \A c : SingleAnswered(q, P, c) => SingleAnswered(q, P, c)'
    BY <1>1, <1>2 DEF SingleAnswered
<1>5. \A c : MultiAnswered(q, P, c) => MultiAnswered(q, P, c)'
    BY <1>2, <1>3 DEF MultiAnswered
<1>. QED
    BY <1>1, <1>4, <1>5 DEF AllAnswered

LEMMA MainAnswer ==
    ASSUME request' = request, pc' = pc, posted' = posted,
           NEW q, queue_results' = q.results, queue_multitasks' = q.multis,
           NEW P, P = Placed', AllAnswered(q, P)
    PROVE  AnswerInv'
<1>1. PICK q2 : q2 = Results'
    OBVIOUS
<1>2. q2.results = q.results /\ q2.multis = q.multis
    BY <1>1 DEF Results
<1>3. AllAnswered(q2, P)
    BY <1>2, AnswerGrows DEF HasLast
<1>4. AllAnswered(q2, P)'
    BY <1>3, AnswersStay
<1>. QED
    BY <1>1, <1>4 DEF AnswerInv

\* No task is lost or answered, but one of a client that does not wait.
LEMMA AnswerMoves ==
    ASSUME AnswerInv, request' = request, pc' = pc, posted' = posted,
           queue_results' = queue_results, queue_multitasks' = queue_multitasks,
           NEW P, P = Placed', \A c \in Callers : pc[c] = "recv" /\ c \in Placed => c \in P,
           \A c \in Callers : IsMulti(c) =>
                \A n \in 1 .. request[c].n_prompts : <<c, n>> \in P <=> <<c, n>> \in Placed
    PROVE  AnswerInv'
<1>1. AllAnswered(Results, P)
    BY AnswerGrows DEF AnswerInv
<1>. QED
    BY <1>1, MainAnswer DEF Results

LEMMA PlacedNow ==
    /\ Placed \subseteq Ids
    /\ \A x : x \in Placed <=> x \in Ids /\ (x \in Queued \/ \E s \in Working : slots[s].id_task = x)
BY DEF Placed, InPlace

LEMMA PlacedThen ==
    ASSUME request' = request
    PROVE  \A x : x \in Placed' <=>
                x \in Ids /\ (x \in Queued' \/ \E s \in Working' : slots'[s].id_task = x)
<1>1. Ids' = Ids
    BY TypesStay
<1>. QED
    BY <1>1 DEF Placed, InPlace

\* A subtask that is in place has been posted.
LEMMA PlacedPosted ==
    ASSUME WorkInv, PlaceInv, NEW x \in Placed, NEW d \in Clients, NEW n \in 1 .. request[d].n_prompts,
           IsMulti(d), d \in Callers, x = <<d, n>>
    PROVE  ~(posted[d] < n)
<1>1. x \in Ids /\ InPlace(Queued, Working, slots, x)
    BY DEF Placed
<1>2. Known(x)
    BY <1>1, NotPosted
<1>3. x \notin Callers
    BY Prompts, Asked DEF WorkInv
<1>4. PICK c \in Callers, k \in Nat : x = <<c, k>> /\ k <= posted[c]
    BY <1>2, <1>3 DEF Known
<1>5. c = d /\ k = n
    BY <1>4
<1>6. posted[d] \in Nat
    BY DEF WorkInv, ClientShape
<1>. QED
    BY <1>4, <1>5, <1>6

\* A task in place gets its last result.
LEMMA EndsInPlace ==
    ASSUME WorkInv, TypeInv, PlaceInv, OwnInv, NEW q \in Qs, NEW P, AllAnswered(q, P),
           OwnMultis(q.multis), P \subseteq Placed,
           NEW r \in AResult, r.kind # "partial", NEW d, Owned(r.id, r.id_multi, d), r.id \in P
    PROVE  AllAnswered(Send(q, r), P \ {r.id})
<1>1. ClientShape /\ Registered /\ waiting_task_ids \subseteq Clients
    BY DEF WorkInv, OwnInv, TypeInv, TypeOK
<1>2. ASSUME NEW n \in 1 .. request[d].n_prompts, r.id = <<d, n>>
      PROVE  ~(posted[d] < n)
    <2>1. d \in Callers /\ d \in Clients
        BY <1>1, OwnedFacts
    <2>2. IsMulti(d)
        <3>1. ~IsMulti(d) => <<d, n>> = d
            BY <1>1, <1>2, OwnedFacts
        <3>2. d \notin Clients \X Nat
            BY <2>1, PairsAssumption
        <3>. QED
            BY <2>1, <3>1, <3>2
    <2>. QED
        BY <1>2, <2>1, <2>2, PlacedPosted
<1>. QED
    BY <1>1, <1>2, AnswerEnds

\* A completion with a new system prompt finds no slot at work, as it is the only one.
LEMMA SystemAlone ==
    ASSUME WorkInv, PlaceInv, OwnInv, Plain, NEW t, OwnedTask(t), t.type = "completion",
           t.client \in Callers, IsCompletion(t.client), request[t.client].system, t.id \in Queued
    PROVE  Working = {}
<1>. SUFFICES ASSUME NEW s \in Working
              PROVE  FALSE
    OBVIOUS
<1>1. /\ Owned(slots[s].id_task, slots[s].id_multi, slots[s].client)
      /\ IsCompletion(slots[s].client) /\ slots[s].id_task \notin Queued
    BY Apart
<1>2. slots[s].client \in Callers
    BY <1>1 DEF Owned
<1>3. slots[s].client = t.client /\ ~IsMulti(t.client)
    BY <1>1, <1>2 DEF Plain
<1>4. Owned(t.id, t.id_multi, t.client)
    BY DEF OwnedTask
<1>5. slots[s].id_task = t.client /\ t.id = t.client
    BY <1>1, <1>3, <1>4, OwnedFacts DEF WorkInv
<1>. QED
    BY <1>1, <1>5

LEMMA ProcessTaskAnswer ==
    ASSUME WorkInv, TypeInv, PlaceInv, OwnInv, AnswerInv, Plain, ProcessTask
    PROVE  AnswerInv'
<1>1. PICK t : t = Head(queue_tasks)
    OBVIOUS
<1>2. /\ t \in ATask /\ OwnedTask(t)
      /\ t.type = "completion" => t.client \in Callers /\ IsCompletion(t.client)
      /\ request' = request /\ pc' = pc /\ posted' = posted
      /\ (\E s \in Slots : Launch(t, s)) \/ Defer(t) \/ Answer(t) \/ CancelSlot(t) \/ Skip(t)
    BY <1>1, TakenTask
<1>3. /\ t.id \in Ids => t.id \in Queued
      /\ queue_tasks_deferred' = queue_tasks_deferred => Queued' = Queued \ {t.id}
      /\ queue_tasks_deferred' = Append(queue_tasks_deferred, t) => Queued' = Queued
    BY <1>1, QueuedTaken
<1>4. \A s : s \in Working' <=> s \in Slots /\ Works(slots'[s])
    BY DEF Working, Works
<1>5. \A s : s \in Working <=> s \in Slots /\ Works(slots[s])
    BY DEF Working
<1>6. \A s \in Working : slots[s].id_task \notin Queued
    BY Apart
<1>7. PICK P : P = Placed'
    OBVIOUS
<1>8. \A x : x \in P <=> x \in Ids /\ (x \in Queued' \/ \E s \in Working' : slots'[s].id_task = x)
    BY <1>2, <1>7, PlacedThen
<1>9. \A x : x \in Placed <=> x \in Ids /\ (x \in Queued \/ \E s \in Working : slots[s].id_task = x)
    BY PlacedNow
<1>10. ASSUME NEW r \in AResult, r.kind # "partial", r.id = t.id, Owned(r.id, r.id_multi, t.client),
              SetResults(Send(Results, r)), queue_tasks_deferred' = queue_tasks_deferred,
              \A s : s \in Working' <=> s \in Working, \A s \in Working : slots'[s] = slots[s]
       PROVE  AnswerInv'
    <2>1. PICK q : q = Send(Results, r)
        OBVIOUS
    <2>2. r.id \in Ids /\ r.id \in Queued
        BY <1>3, <1>10, OwnedFacts DEF WorkInv
    <2>3. r.id \in Placed
        BY <1>9, <2>2
    <2>4. P = Placed \ {r.id}
        BY <1>3, <1>6, <1>8, <1>9, <1>10, <2>2
    <2>5. AllAnswered(Results, Placed) /\ Results \in Qs /\ OwnMultis(Results.multis)
        BY ResultsTyped DEF AnswerInv, OwnInv, Results
    <2>6. AllAnswered(q, P)
        BY <1>10, <2>1, <2>3, <2>4, <2>5, EndsInPlace
    <2>. QED
        BY <1>2, <1>7, <1>10, <2>1, <2>6, MainAnswer DEF SetResults
<1>11. ASSUME NEW s \in Slots, Launch(t, s)
       PROVE  AnswerInv'
    <2>1. t.type = "completion" /\ queue_tasks_deferred' = queue_tasks_deferred
        BY <1>11 DEF Launch
    <2>2. Owned(t.id, t.id_multi, t.client)
        BY <1>2, <2>1 DEF OwnedTask
    <2>3. t.id \in Queued /\ t.id \in Ids
        BY <1>3, <2>2, OwnedFacts DEF WorkInv
    <2>4. /\ ~Works(slots[s])
          /\ \A r \in Slots \ {s} :
                /\ Works(slots'[r]) => slots'[r] = slots[r]
                /\ ~request[t.client].system => slots'[r] = slots[r]
          /\ request[t.client].valid =>
                /\ Loads(slots'[s]) /\ slots'[s].id_task = t.id
                /\ queue_multitasks' = queue_multitasks /\ queue_results' = queue_results
          /\ ~request[t.client].valid =>
                /\ ~Works(slots'[s])
                /\ SetResults(Send(Results, Result(t.id, t.id_multi, "error", 0)))
        BY <1>2, <1>11, LaunchedSlots
    <2>5. /\ \A r \in Working : slots'[r] = slots[r]
          /\ \A r : r \in Working' /\ r # s <=> r \in Working
        <3>1. CASE request[t.client].system
            <4>1. Working = {}
                BY <1>2, <2>1, <2>3, <3>1, SystemAlone
            <4>. QED
                BY <1>4, <1>5, <2>4, <4>1
        <3>2. CASE ~request[t.client].system
            BY <1>4, <1>5, <2>4, <3>2
        <3>. QED
            BY <3>1, <3>2
    <2>6. CASE request[t.client].valid
        <3>1. s \in Working' /\ slots'[s].id_task = t.id
            BY <1>4, <2>4, <2>6, WorksHow
        <3>2. \A x : x \in P <=> x \in Placed
            BY <1>3, <1>8, <1>9, <2>1, <2>3, <2>5, <3>1
        <3>. QED
            BY <1>2, <1>7, <2>4, <2>6, <3>2, AnswerMoves
    <2>7. CASE ~request[t.client].valid
        <3>1. s \notin Working'
            BY <1>4, <2>4, <2>7
        <3>2. \A r : r \in Working' <=> r \in Working
            BY <2>5, <3>1
        <3>3. PICK r : r = Result(t.id, t.id_multi, "error", 0)
            OBVIOUS
        <3>4. /\ r \in AResult /\ r.kind # "partial" /\ r.id = t.id /\ r.id_multi = t.id_multi
            BY <1>2, <3>3 DEF ATask, AResult, Result
        <3>. QED
            BY <1>10, <2>1, <2>2, <2>4, <2>5, <2>7, <3>2, <3>3, <3>4
    <2>. QED
        BY <2>6, <2>7
<1>12. CASE Answer(t)
    <2>1. /\ queue_tasks_deferred' = queue_tasks_deferred /\ slots' = slots
          /\ \E kind \in {"final", "error"} : SetResults(Send(Results, Result(t.id, None, kind, 0)))
          /\ t.type \in {"metrics", "lora", "slot action"}
        BY <1>12 DEF Answer
    <2>2. Owned(t.id, t.id_multi, t.client) /\ ~IsMulti(t.client)
        BY <1>2, <2>1 DEF OwnedTask, IsMulti, IsCompletion
    <2>3. PICK r \in AResult : /\ r.kind # "partial" /\ r.id = t.id /\ r.id_multi = None
                               /\ SetResults(Send(Results, r))
        BY <1>2, <2>1 DEF ATask, AResult, Result
    <2>4. (\A s : s \in Working' <=> s \in Working) /\ \A s \in Working : slots'[s] = slots[s]
        BY <1>4, <1>5, <2>1
    <2>5. Owned(r.id, r.id_multi, t.client)
        BY <2>2, <2>3 DEF Owned
    <2>. QED
        BY <1>10, <2>1, <2>3, <2>4, <2>5
<1>13. CASE Defer(t)
    <2>1. /\ queue_results' = queue_results /\ queue_multitasks' = queue_multitasks
          /\ queue_tasks_deferred' = Append(queue_tasks_deferred, t) /\ slots' = slots
        BY <1>13 DEF Defer, resultVars
    <2>2. \A x : x \in P <=> x \in Placed
        BY <1>3, <1>4, <1>5, <1>8, <1>9, <2>1
    <2>. QED
        BY <1>2, <1>7, <2>1, <2>2, AnswerMoves
<1>14. CASE CancelSlot(t) \/ Skip(t)
    <2>1. /\ queue_results' = queue_results /\ queue_multitasks' = queue_multitasks
          /\ queue_tasks_deferred' = queue_tasks_deferred
        BY <1>14 DEF CancelSlot, Skip, resultVars
    <2>2. t.type \in {"cancel", "next response"}
        BY <1>14 DEF CancelSlot, Skip
    <2>3. ~(Owned(t.id, t.id_multi, t.client) /\ t.type = request[t.client].type)
        <3>. SUFFICES ASSUME Owned(t.id, t.id_multi, t.client), t.type = request[t.client].type
                      PROVE  FALSE
            OBVIOUS
        <3>1. t.client \in Callers
            BY DEF Owned
        <3>2. request[t.client] \in Completion \cup Other
            BY <3>1, Asked DEF WorkInv
        <3>. QED
            BY <2>2, <3>2 DEF Completion, Other
    <2>4. t.id = None /\ (t.type = "cancel" => t.client \in Callers /\ pc[t.client] = "done")
        BY <1>2, <2>2, <2>3 DEF OwnedTask
    <2>5. Queued' = Queued
        <3>1. None \notin Queued
            BY IdsReal DEF Queued, WorkInv
        <3>. QED
            BY <1>3, <2>1, <2>4, <3>1
    <2>6. \A s \in Slots : /\ Works(slots'[s]) => slots'[s] = slots[s]
                           /\ Works(slots[s]) /\ slots[s].id_task # t.client => slots'[s] = slots[s]
        BY <1>14, CancelledSlots DEF Skip
    <2>7. \A x : /\ x \in P => x \in Placed
                 /\ x \in Placed /\ x # t.client => x \in P
        BY <1>4, <1>5, <1>8, <1>9, <2>5, <2>6
    <2>8. CASE t.type = "cancel"
        <3>1. \A c \in Callers : pc[c] = "recv" /\ c \in Placed => c \in P
            BY <2>4, <2>7, <2>8
        <3>2. t.client \in Clients
            BY <2>4, <2>8, Asked DEF WorkInv
        <3>3. \A c \in Callers : IsMulti(c) =>
                    \A n \in 1 .. request[c].n_prompts : <<c, n>> \in P <=> <<c, n>> \in Placed
            BY <2>7, <3>2, Prompts DEF WorkInv
        <3>. QED
            BY <1>2, <1>7, <2>1, <3>1, <3>3, AnswerMoves
    <2>9. CASE t.type # "cancel"
        <3>1. slots' = slots
            BY <1>14, <2>9 DEF CancelSlot, Skip
        <3>2. \A x : x \in P <=> x \in Placed
            BY <1>4, <1>5, <1>8, <1>9, <2>5, <3>1
        <3>. QED
            BY <1>2, <1>7, <2>1, <3>2, AnswerMoves
    <2>. QED
        BY <2>8, <2>9
<1>. QED
    BY <1>2, <1>11, <1>12, <1>13, <1>14

\* What is left of a sequence without its i-th element are the other ones.
LEMMA RemovedKeeps ==
    ASSUME NEW V, NEW q \in Seq(V), NEW i \in 1 .. Len(q), NEW left, left = RemoveAt(q, i)
    PROVE  /\ \A k \in DOMAIN q : k # i => \E j \in DOMAIN left : left[j] = q[k]
           /\ \A j \in DOMAIN left : \E k \in DOMAIN q : k # i /\ left[j] = q[k]
<1>1. PICK n : n = Len(q)
    OBVIOUS
<1>2. /\ n \in Nat /\ DOMAIN q = 1 .. n /\ i \in 1 .. n /\ i \in Nat
      /\ DOMAIN left = 1 .. n - 1
      /\ \A j \in 1 .. n - 1 : left[j] = IF j < i THEN q[j] ELSE q[j + 1]
    BY <1>1, RemovedAt, LenProperties
<1>3. ASSUME NEW k \in DOMAIN q, k # i
      PROVE  \E j \in DOMAIN left : left[j] = q[k]
    <2>0. k \in Nat /\ k \in 1 .. n
        BY <1>2
    <2>1. CASE k < i
        <3>1. k \in 1 .. n - 1
            BY <1>2, <2>0, <2>1
        <3>2. left[k] = q[k]
            BY <1>2, <2>1, <3>1
        <3>. QED
            BY <1>2, <3>1, <3>2
    <2>2. CASE ~(k < i)
        <3>1. PICK j : j = k - 1
            OBVIOUS
        <3>2. j \in 1 .. n - 1 /\ ~(j < i) /\ j + 1 = k
            BY <1>2, <1>3, <2>0, <2>2, <3>1
        <3>3. left[j] = q[k]
            BY <1>2, <3>2
        <3>. QED
            BY <1>2, <3>2, <3>3
    <2>. QED
        BY <2>1, <2>2
<1>4. ASSUME NEW j \in DOMAIN left
      PROVE  \E k \in DOMAIN q : k # i /\ left[j] = q[k]
    <2>1. CASE j < i
        <3>1. j \in 1 .. n /\ j # i /\ left[j] = q[j]
            BY <1>2, <2>1
        <3>. QED
            BY <1>2, <3>1
    <2>2. CASE ~(j < i)
        <3>1. PICK k : k = j + 1
            OBVIOUS
        <3>2. k \in 1 .. n /\ k # i /\ left[j] = q[k]
            BY <1>2, <2>2, <3>1
        <3>. QED
            BY <1>2, <3>2
    <2>. QED
        BY <2>1, <2>2
<1>. QED
    BY <1>3, <1>4

\* A multitask whose subtasks all have their result is answered, and removed.
LEMMA FinishAnswer ==
    ASSUME WorkInv, TypeInv, OwnInv, AnswerInv, FinishMultitask
    PROVE  AnswerInv'
<1>1. PICK i : i = Min(Finished)
    OBVIOUS
<1>2. PICK c : c = queue_multitasks[i].id
    OBVIOUS
<1>3. PICK r : r = Result(c, None, "final", 0)
    OBVIOUS
<1>4. PICK q : q = Send(Results, r)
    OBVIOUS
<1>5. PICK left : left = RemoveAt(q.multis, i)
    OBVIOUS
<1>6. /\ i \in DOMAIN queue_multitasks /\ queue_multitasks[i].remaining = {}
      /\ r \in AResult /\ q \in Qs /\ i \in 1 .. Len(q.multis)
      /\ queue_results' = q.results /\ queue_multitasks' = left
    BY <1>1, <1>2, <1>3, <1>4, <1>5, FirstFinished
<1>7. r.id = c /\ r.kind = "final" /\ r.id_multi = None
    BY <1>3 DEF Result
<1>8. q.multis = queue_multitasks
    <2>1. None \notin waiting_task_ids
        BY NoneAssumption DEF TypeInv, TypeOK
    <2>. QED
        BY <1>4, <1>7, <2>1 DEF Send, Results
<1>9. /\ \A k \in DOMAIN queue_multitasks : k # i =>
            \E j \in DOMAIN left : left[j] = queue_multitasks[k]
      /\ \A j \in DOMAIN left : \E k \in DOMAIN queue_multitasks :
            k # i /\ left[j] = queue_multitasks[k]
    <2>1. queue_multitasks \in Seq(AMultitask)
        BY DEF TypeInv, TypeOK
    <2>. QED
        BY <1>5, <1>6, <1>8, <2>1, RemovedKeeps
<1>10. \A k \in DOMAIN queue_multitasks : k # i => queue_multitasks[k].id # c
    BY <1>2, <1>6 DEF OwnInv, OwnMultis
<1>11. c \in Callers /\ IsMulti(c)
    BY <1>2, <1>6 DEF OwnInv, OwnMultis
<1>12. \A d : HasLast(Results, d) => HasLast(q, d)
    BY <1>4, <1>6, SendKeeps, ResultsTyped
<1>13. pc[c] \in {"post subtasks", "recv"} => HasLast(q, c)
    <2>1. pc[c] \in {"post subtasks", "recv"} => c \in waiting_task_ids
        BY <1>11 DEF OwnInv, Registered, PostsFirst, IsMulti, IsCompletion
    <2>. QED
        BY <1>4, <1>6, <1>7, <2>1, SendKeeps, ResultsTyped
<1>14. PICK q2 : q2 = [results |-> q.results, multis |-> left]
    OBVIOUS
<1>15. q2.results = q.results /\ q2.multis = left
    BY <1>14
<1>16. \A d : HasLast(q2, d) <=> HasLast(q, d)
    BY <1>15 DEF HasLast
<1>17. AllAnswered(Results, Placed) /\ Results.multis = queue_multitasks
    BY DEF AnswerInv, Results
<1>18. ASSUME NEW d \in Callers
       PROVE  IF IsMulti(d) THEN MultiAnswered(q2, Placed, d) ELSE SingleAnswered(q2, Placed, d)
    <2>1. CASE ~IsMulti(d)
        BY <1>12, <1>16, <1>17, <2>1 DEF AllAnswered, SingleAnswered
    <2>2. CASE IsMulti(d)
        <3>. SUFFICES ASSUME pc[d] \in {"post subtasks", "recv"}
                      PROVE  MultiAnswered(q2, Placed, d)
            BY <2>2 DEF MultiAnswered
        <3>1. \/ \E k \in DOMAIN queue_multitasks : Open(queue_multitasks[k], Placed, d)
              \/ /\ \A k \in DOMAIN queue_multitasks : queue_multitasks[k].id # d
                 /\ HasLast(Results, d)
                 /\ \A n \in 1 .. request[d].n_prompts : ~(posted[d] < n) /\ <<d, n>> \notin Placed
            BY <1>17, <2>2 DEF AllAnswered, MultiAnswered
        <3>2. CASE d = c
            <4>1. Open(queue_multitasks[i], Placed, d)
                BY <1>2, <1>6, <1>10, <3>1, <3>2 DEF Open
            <4>2. \A n \in 1 .. request[d].n_prompts : ~(posted[d] < n) /\ <<d, n>> \notin Placed
                <5>. SUFFICES ASSUME NEW n \in 1 .. request[d].n_prompts
                              PROVE  ~(posted[d] < n) /\ <<d, n>> \notin Placed
                    OBVIOUS
                <5>1. PICK m : m = queue_multitasks[i]
                    OBVIOUS
                <5>2. WaitsFor(m, Placed, d, n) /\ m.remaining = {}
                    BY <1>6, <4>1, <5>1 DEF Open
                <5>3. PICK x : x = <<d, n>>
                    OBVIOUS
                <5>4. x \in m.remaining <=> posted[d] < n \/ x \in Placed
                    BY <5>2, <5>3 DEF WaitsFor
                <5>5. x \notin m.remaining
                    BY <5>2
                <5>. QED
                    BY <5>3, <5>4, <5>5
            <4>3. \A j \in DOMAIN q2.multis : q2.multis[j].id # d
                <5>1. \A j \in DOMAIN left : left[j].id # d
                    BY <1>9, <1>10, <3>2
                <5>. QED
                    BY <1>15, <5>1
            <4>. QED
                BY <1>13, <1>16, <3>2, <4>2, <4>3 DEF MultiAnswered
        <3>3. CASE d # c /\ \E k \in DOMAIN queue_multitasks : Open(queue_multitasks[k], Placed, d)
            <4>1. PICK k \in DOMAIN queue_multitasks : Open(queue_multitasks[k], Placed, d)
                BY <3>3
            <4>2. k # i
                BY <1>2, <3>3, <4>1 DEF Open
            <4>3. PICK j \in DOMAIN left : left[j] = queue_multitasks[k]
                BY <1>9, <4>2
            <4>4. Open(q2.multis[j], Placed, d) /\ j \in DOMAIN q2.multis
                BY <1>15, <4>1, <4>3
            <4>5. \E k0 \in DOMAIN q2.multis : Open(q2.multis[k0], Placed, d)
                BY <4>4
            <4>. QED
                BY <4>5 DEF MultiAnswered
        <3>4. CASE d # c /\ ~ \E k \in DOMAIN queue_multitasks : Open(queue_multitasks[k], Placed, d)
            <4>1. \A j \in DOMAIN q2.multis : q2.multis[j].id # d
                <5>1. \A k \in DOMAIN queue_multitasks : queue_multitasks[k].id # d
                    BY <3>1, <3>4
                <5>2. \A j \in DOMAIN left : left[j].id # d
                    BY <1>9, <5>1
                <5>. QED
                    BY <1>15, <5>2
            <4>. QED
                BY <1>12, <1>16, <3>1, <3>4, <4>1 DEF MultiAnswered
        <3>. QED
            BY <3>2, <3>3, <3>4
    <2>. QED
        BY <2>1, <2>2
<1>19. /\ queue_tasks' = queue_tasks /\ queue_tasks_deferred' = queue_tasks_deferred
       /\ slots' = slots /\ request' = request /\ pc' = pc /\ posted' = posted
    BY DEF FinishMultitask, queueVars, mainVars, clientVars
<1>20. PICK P : P = Placed'
    OBVIOUS
<1>21. \A x : x \in P <=> x \in Placed
    <2>1. Queued' = Queued /\ Working' = Working
        BY <1>19, QueuedSame DEF Working, Works
    <2>. QED
        BY <1>19, <1>20, <2>1, PlacedNow, PlacedThen
<1>22. AllAnswered(q2, P)
    BY <1>18, <1>21, AnswerGrows DEF AllAnswered
<1>. QED
    BY <1>6, <1>15, <1>19, <1>20, <1>22, MainAnswer

LEMMA UpdateAnswer ==
    ASSUME WorkInv, TypeInv, PlaceInv, OwnInv, AnswerInv, UpdateIdle \/ UpdateBusy
    PROVE  AnswerInv'
<1>1. /\ request' = request /\ pc' = pc /\ posted' = posted
    BY DEF UpdateIdle, UpdateBusy, clientVars
<1>2. Queued' = Queued
    BY QueuedRequeued
<1>3. \A s : s \in Working' <=> s \in Slots /\ Works(slots'[s])
    BY DEF Working, Works
<1>4. \A s : s \in Working <=> s \in Slots /\ Works(slots[s])
    BY DEF Working
<1>5. PICK P : P = Placed'
    OBVIOUS
<1>6. \A x : x \in P <=> x \in Ids /\ (x \in Queued' \/ \E s \in Working' : slots'[s].id_task = x)
    BY <1>1, <1>5, PlacedThen
<1>7. \A x : x \in Placed <=> x \in Ids /\ (x \in Queued \/ \E s \in Working : slots[s].id_task = x)
    BY PlacedNow
<1>8. CASE UpdateIdle
    <2>1. /\ slots' = Released(slots)
          /\ queue_results' = queue_results /\ queue_multitasks' = queue_multitasks
        BY <1>8 DEF UpdateIdle, resultVars
    <2>2. (\A s : s \in Working' <=> s \in Working) /\ \A s \in Working : slots'[s] = slots[s]
        BY <1>3, <1>4, <2>1, ReleasedDoes
    <2>3. \A x : x \in P <=> x \in Placed
        BY <1>2, <1>6, <1>7, <2>2
    <2>. QED
        BY <1>1, <1>5, <2>1, <2>3, AnswerMoves
<1>9. CASE UpdateBusy
    <2>1. PICK ss : ss = Released(slots)
        OBVIOUS
    <2>2. PICK empty : empty = {s \in Slots : Visited(ss, s) /\ ss[s].prompt = 0}
        OBVIOUS
    <2>3. /\ ss \in [Slots -> ASlot] /\ empty \subseteq Slots
          /\ SetResults(SentFor(empty, ss, "final"))
          /\ \A s \in Slots :
                /\ s \in empty => Loads(slots[s]) /\ ss[s] = slots[s]
                /\ Works(slots'[s]) <=> Works(slots[s]) /\ s \notin empty
                /\ Works(slots[s]) => Alike(slots'[s], slots[s])
        BY <1>9, <2>1, <2>2, UpdatedSlots
    <2>4. PICK f : Sending(f, empty, ss, "final")
        BY <2>3, ResultsTyped, SentForSends
    <2>5. empty \subseteq Working
        BY <1>4, <2>3, WorksHow
    <2>. DEFINE Gone(k) == {slots[s].id_task : s \in {z \in empty : z < k}}
                Left(k) == Placed \ Gone(k)
                G == {k \in 0 .. NSlots : AllAnswered(f[k], Left(k)) /\ OwnMultis(f[k].multis)}
    <2>6. \A k \in 0 .. NSlots :
            \A x : x \in Left(k) <=> x \in Placed /\ \A s \in empty : s < k => slots[s].id_task # x
        OBVIOUS
    <2>. HIDE DEF Left
    <2>7. 0 \in G
        <3>1. f[0] = Results /\ 0 \in 0 .. NSlots
            BY <2>4, NSlotsAssumption DEF Sending
        <3>2. \A s \in empty : ~(s < 0)
            BY <2>3, NSlotsAssumption DEF Slots
        <3>3. Left(0) = Placed
            BY <2>6, <3>1, <3>2
        <3>. QED
            BY <3>1, <3>3 DEF AnswerInv, OwnInv, Results
    <2>8. ASSUME NEW s \in Slots, s \in G
          PROVE  s + 1 \in G
        <3>1. s \in 0 .. NSlots /\ s + 1 \in 0 .. NSlots /\ s \in Nat
            BY NSlotsAssumption DEF Slots
        <3>2. f[s] \in Qs /\ AllAnswered(f[s], Left(s)) /\ OwnMultis(f[s].multis)
            BY <2>4, <2>8, <3>1 DEF Sending
        <3>3. \A k \in empty : k < s + 1 <=> k < s \/ k = s
            BY <2>3, <3>1, NSlotsAssumption DEF Slots
        <3>4. CASE s \notin empty
            <4>1. Left(s + 1) = Left(s)
                BY <2>6, <3>1, <3>3, <3>4
            <4>2. f[s + 1] = f[s]
                BY <2>4, <3>4 DEF Sending
            <4>. QED
                BY <3>1, <3>2, <4>1, <4>2
        <3>5. CASE s \in empty
            <4>1. s \in Working /\ ss[s] = slots[s] /\ slots[s] \in ASlot
                BY <2>3, <2>5, <3>5
            <4>2. PICK r : r = SlotResult(slots[s], "final")
                OBVIOUS
            <4>3. /\ r \in AResult /\ r.kind # "partial"
                  /\ r.id = slots[s].id_task /\ r.id_multi = slots[s].id_multi
                BY <4>1, <4>2, SlotResultTyped DEF SlotResult, Result
            <4>4. /\ Owned(r.id, r.id_multi, slots[s].client)
                  /\ \A k \in Working : slots[k].id_task = r.id => k = s
                BY <4>1, <4>3, Apart
            <4>5. r.id \in Ids
                BY <4>4, OwnedFacts DEF WorkInv
            <4>6. r.id \in Placed
                BY <1>7, <4>1, <4>3, <4>5
            <4>7. \A k \in empty : slots[k].id_task = r.id => k = s
                BY <2>5, <4>4
            <4>8. ~(s < s)
                BY <3>1
            <4>9. r.id \in Left(s)
                BY <2>6, <3>1, <4>6, <4>7, <4>8
            <4>10. Left(s + 1) = Left(s) \ {r.id}
                BY <2>6, <3>1, <3>3, <3>5, <4>3
            <4>11. Left(s) \subseteq Placed
                BY <2>6, <3>1
            <4>12. AllAnswered(Send(f[s], r), Left(s + 1))
                BY <3>2, <4>3, <4>4, <4>9, <4>10, <4>11, EndsInPlace
            <4>13. f[s + 1] = Send(f[s], r)
                BY <2>4, <3>5, <4>1, <4>2 DEF Sending
            <4>14. OwnMultis(Send(f[s], r).multis)
                BY <3>2, <4>3, SendOwn
            <4>. QED
                BY <3>1, <4>12, <4>13, <4>14
        <3>. QED
            BY <3>4, <3>5
    <2>. HIDE DEF G
    <2>9. NSlots \in G
        BY <2>7, <2>8, SlotInduction, NSlotsAssumption
    <2>. USE DEF G
    <2>10. PICK q : q = f[NSlots]
        OBVIOUS
    <2>11. AllAnswered(q, Left(NSlots)) /\ SetResults(q) /\ NSlots \in 0 .. NSlots
        BY <2>3, <2>4, <2>9, <2>10 DEF Sending
    <2>. HIDE DEF G
    <2>12. \A s \in empty : s < NSlots
        BY <2>3, NSlotsAssumption DEF Slots
    <2>13. \A s : s \in Working' <=> s \in Working /\ s \notin empty
        BY <1>3, <1>4, <2>3
    <2>14. \A s \in Working : slots'[s].id_task = slots[s].id_task
        BY <1>4, <2>3 DEF Alike
    <2>15. /\ \A s \in Working : slots[s].id_task \notin Queued
           /\ \A r, s \in Working : slots[r].id_task = slots[s].id_task => r = s
        BY Apart
    <2>16. \A x : x \in Left(NSlots) <=> x \in Placed /\ \A s \in empty : slots[s].id_task # x
        BY <2>6, <2>11, <2>12
    <2>17. \A x : x \in P <=> x \in Left(NSlots)
        <3>1. ASSUME NEW x \in P
              PROVE  x \in Placed /\ \A s \in empty : slots[s].id_task # x
            <4>1. CASE x \in Queued
                BY <1>6, <1>7, <2>5, <2>15, <3>1, <4>1
            <4>2. CASE x \notin Queued
                <5>1. PICK s \in Working' : slots'[s].id_task = x
                    BY <1>2, <1>6, <3>1, <4>2
                <5>2. s \in Working /\ s \notin empty /\ slots[s].id_task = x
                    BY <2>13, <2>14, <5>1
                <5>. QED
                    BY <1>6, <1>7, <2>5, <2>15, <3>1, <5>2
            <4>. QED
                BY <4>1, <4>2
        <3>2. ASSUME NEW x \in Placed, \A s \in empty : slots[s].id_task # x
              PROVE  x \in P
            BY <1>2, <1>6, <1>7, <2>13, <2>14, <3>2
        <3>. QED
            BY <2>16, <3>1, <3>2
    <2>18. AllAnswered(q, P)
        <3>1. P = Left(NSlots)
            BY <2>17
        <3>. QED
            BY <2>11, <3>1
    <2>. QED
        BY <1>1, <1>5, <2>11, <2>18, MainAnswer DEF SetResults
<1>. QED
    BY <1>8, <1>9

LEMMA DecodeAnswer ==
    ASSUME WorkInv, TypeInv, PlaceInv, OwnInv, AnswerInv, Plain, ~MayFail,
           TasksDone \/ MultitasksDone \/ SampleToken \/ StopSlot \/ DecodeFails \/ BatchDone \/ WakeUp
    PROVE  AnswerInv'
<1>1. /\ queue_tasks' = queue_tasks /\ queue_tasks_deferred' = queue_tasks_deferred
      /\ request' = request /\ pc' = pc /\ posted' = posted
    BY DEF TasksDone, MultitasksDone, SampleToken, StopSlot, DecodeFails, BatchDone, WakeUp,
           queueVars, clientVars
<1>2. Queued' = Queued
    BY <1>1, QueuedSame
<1>3. \A s : s \in Working' <=> s \in Slots /\ Works(slots'[s])
    BY DEF Working, Works
<1>4. \A s : s \in Working <=> s \in Slots /\ Works(slots[s])
    BY DEF Working
<1>5. /\ slots \in [Slots -> ASlot] /\ Results \in Qs
      /\ AllAnswered(Results, Placed) /\ OwnMultis(Results.multis)
      /\ loop = "decode" => \A s \in batch : Going(slots[s])
    BY ResultsTyped DEF TypeInv, TypeOK, AnswerInv, OwnInv, Results
<1>6. PICK P : P = Placed'
    OBVIOUS
<1>7. \A x : x \in P <=> x \in Ids /\ (x \in Queued' \/ \E s \in Working' : slots'[s].id_task = x)
    BY <1>1, <1>6, PlacedThen
<1>8. \A x : x \in Placed <=> x \in Ids /\ (x \in Queued \/ \E s \in Working : slots[s].id_task = x)
    BY PlacedNow
<1>9. CASE TasksDone \/ MultitasksDone \/ BatchDone \/ WakeUp
    <2>1. /\ queue_multitasks' = queue_multitasks /\ queue_results' = queue_results
          /\ slots' = slots
        BY <1>9 DEF TasksDone, MultitasksDone, BatchDone, WakeUp, resultVars
    <2>2. \A x : x \in P <=> x \in Placed
        BY <1>2, <1>3, <1>4, <1>7, <1>8, <2>1
    <2>. QED
        BY <1>1, <1>6, <2>1, <2>2, AnswerMoves
<1>10. CASE DecodeFails
    <2>1. PICK s \in Slots : (s \in batch \/ Loading(slots, s)) /\ request[slots[s].client].fills
        BY <1>10 DEF DecodeFails
    <2>2. s \in Working
        BY <1>4, <1>5, <1>10, <2>1, WorksHow DEF DecodeFails, Loading, Loads
    <2>3. slots[s].client \in Callers /\ IsCompletion(slots[s].client)
        BY <2>2, Apart DEF Owned
    <2>. QED
        BY <2>1, <2>3 DEF MayFail
<1>11. PICK cur : cur = Current
    OBVIOUS
<1>12. PICK x : x = slots[cur].id_task
    OBVIOUS
<1>13. ASSUME batch # {}, loop = "decode"
       PROVE  /\ cur \in Slots /\ slots[cur] \in ASlot /\ Going(slots[cur]) /\ cur \in Working
              /\ Owned(x, slots[cur].id_multi, slots[cur].client) /\ x \notin Queued
              /\ IsCompletion(slots[cur].client)
              /\ \A s \in Working : slots[s].id_task = x => s = cur
              /\ x \in Ids
    <2>1. /\ cur \in Slots /\ slots[cur] \in ASlot /\ Going(slots[cur]) /\ cur \in Working
        BY <1>4, <1>5, <1>11, <1>13, CurrentSlot, WorksHow
    <2>2. /\ Owned(x, slots[cur].id_multi, slots[cur].client) /\ x \notin Queued
          /\ IsCompletion(slots[cur].client)
          /\ \A s \in Working : slots[s].id_task = x => s = cur
        BY <1>12, <2>1, Apart
    <2>3. x \in Ids
        BY <2>2, OwnedFacts DEF WorkInv
    <2>. QED
        BY <2>1, <2>2, <2>3
<1>14. CASE SampleToken
    <2>1. PICK slot : slot = [slots[cur] EXCEPT !.n_decoded = @ + 1]
        OBVIOUS
    <2>2. PICK r : r = SlotResult(slot, "partial")
        OBVIOUS
    <2>3. /\ slots' = [slots EXCEPT ![cur] = slot] /\ batch # {} /\ loop = "decode"
          /\ \/ IsStream(slot.client) /\ SetResults(Send(Results, r))
             \/ queue_results' = queue_results /\ queue_multitasks' = queue_multitasks
        BY <1>11, <1>14, <2>1, <2>2 DEF SampleToken, resultVars
    <2>4. slots[cur].n_decoded \in Nat
        BY <1>13, <2>3 DEF ASlot
    <2>5. PICK n \in Nat : n = slots[cur].n_decoded + 1
        <3>1. slots[cur].n_decoded + 1 \in Nat
            BY <2>4
        <3>. QED
            BY <3>1
    <2>6. slot \in ASlot /\ Going(slot) /\ Alike(slot, slots[cur])
        BY <1>13, <2>1, <2>3, <2>5 DEF ASlot, Going, Alike
    <2>7. r \in AResult /\ r.kind = "partial" /\ r.id_multi = slots[cur].id_multi
        BY <2>2, <2>6, SlotResultTyped DEF SlotResult, Result, Alike
    <2>8. slots'[cur] = slot /\ \A s \in Slots \ {cur} : slots'[s] = slots[s]
        BY <1>5, <1>13, <2>3
    <2>9. \A s \in Slots : /\ Works(slots'[s]) <=> Works(slots[s])
                           /\ slots'[s].id_task = slots[s].id_task
        BY <1>13, <2>3, <2>6, <2>8, WorksHow DEF Alike
    <2>10. \A y : y \in P <=> y \in Placed
        BY <1>2, <1>3, <1>4, <1>7, <1>8, <2>9
    <2>11. CASE queue_results' = queue_results /\ queue_multitasks' = queue_multitasks
        BY <1>1, <1>6, <2>10, <2>11, AnswerMoves
    <2>12. CASE IsStream(slot.client) /\ SetResults(Send(Results, r))
        <3>1. PICK q : q = Send(Results, r)
            OBVIOUS
        <3>2. slots[cur].client \in Callers /\ ~IsMulti(slots[cur].client)
            BY <1>13, <2>3, <2>6, <2>12 DEF Owned, Alike, Plain
        <3>3. r.id_multi = None
            BY <1>13, <2>3, <2>7, <3>2 DEF Owned
        <3>4. r.id_multi \notin waiting_task_ids
            BY <3>3, NoneAssumption DEF TypeInv, TypeOK
        <3>5. q.multis = Results.multis
            BY <3>1, <3>4 DEF Send
        <3>6. \A c : HasLast(Results, c) => HasLast(q, c)
            BY <1>5, <2>7, <3>1, SendKeeps
        <3>7. AllAnswered(q, P)
            BY <1>5, <2>10, <3>5, <3>6, AnswerGrows
        <3>. QED
            BY <1>1, <1>6, <2>12, <3>1, <3>7, MainAnswer DEF SetResults
    <2>. QED
        BY <2>3, <2>11, <2>12
<1>15. CASE StopSlot
    <2>1. PICK r : r = SlotResult(slots[cur], "final")
        OBVIOUS
    <2>2. /\ loop = "decode" /\ stopped
          /\ slots' = [slots EXCEPT ![cur] = Release(slots[cur])]
          /\ SetResults(Send(Results, r))
        BY <1>11, <1>15, <2>1 DEF StopSlot
    <2>3. batch # {}
        BY <2>2 DEF TypeInv, TypeOK
    <2>4. /\ r \in AResult /\ r.kind # "partial" /\ r.id = x /\ r.id_multi = slots[cur].id_multi
        BY <1>12, <1>13, <2>1, <2>2, <2>3, SlotResultTyped DEF SlotResult, Result
    <2>5. slots'[cur] = Release(slots[cur]) /\ \A s \in Slots \ {cur} : slots'[s] = slots[s]
        BY <1>5, <1>13, <2>2, <2>3
    <2>6. ~Works(slots'[cur])
        BY <1>13, <2>2, <2>3, <2>5, ReleaseDoes DEF Going, Loads
    <2>7. /\ \A s : s \in Working' <=> s \in Working /\ s # cur
          /\ \A s \in Working : s # cur => slots'[s] = slots[s]
        BY <1>3, <1>4, <2>5, <2>6
    <2>8. x \in Placed
        BY <1>8, <1>12, <1>13, <2>2, <2>3
    <2>9. \A y : y \in P <=> y \in Placed /\ y # x
        <3>1. /\ x \notin Queued /\ \A s \in Working : slots[s].id_task = x => s = cur
            BY <1>13, <2>2, <2>3
        <3>. QED
            BY <1>2, <1>7, <1>8, <1>12, <2>7, <3>1
    <2>10. P = Placed \ {r.id}
        BY <2>4, <2>9
    <2>11. PICK q : q = Send(Results, r)
        OBVIOUS
    <2>12. Owned(r.id, r.id_multi, slots[cur].client)
        BY <1>13, <2>2, <2>3, <2>4
    <2>13. AllAnswered(q, P)
        BY <1>5, <2>4, <2>8, <2>10, <2>11, <2>12, EndsInPlace
    <2>. QED
        BY <1>1, <1>6, <2>2, <2>11, <2>13, MainAnswer DEF SetResults
<1>. QED
    BY <1>9, <1>10, <1>14, <1>15

-----------------------------------------------------------------------------
(* Clients and their answers.                                              *)

ClientAnswered(q, P, c) == IF IsMulti(c) THEN MultiAnswered(q, P, c) ELSE SingleAnswered(q, P, c)

\* A client that does not move loses nothing by what another client does.
LEMMA OtherAnswered ==
    ASSUME request' = request, NEW d \in Callers, pc'[d] = pc[d], posted'[d] = posted[d],
           NEW q, NEW P, ClientAnswered(q, P, d), NEW q2, NEW P2,
           HasLast(q, d) => HasLast(q2, d),
           \A i \in DOMAIN q.multis : i \in DOMAIN q2.multis /\ q2.multis[i] = q.multis[i],
           \A i \in DOMAIN q2.multis : i \in DOMAIN q.multis \/ q2.multis[i].id # d,
           pc[d] = "recv" /\ d \in P => d \in P2,
           IsMulti(d) => \A n \in 1 .. request[d].n_prompts : <<d, n>> \in P2 <=> <<d, n>> \in P
    PROVE  ClientAnswered(q2, P2, d)'
<1>1. (IsMulti(d)' <=> IsMulti(d)) /\ (PostsFirst(d)' <=> PostsFirst(d))
    BY DEF IsMulti, IsCompletion, PostsFirst
<1>2. HasLast(q2, d)' <=> HasLast(q2, d)
    BY DEF HasLast
<1>3. CASE ~IsMulti(d)
    <2>1. SingleAnswered(q2, P2, d)'
        BY <1>1, <1>2, <1>3 DEF ClientAnswered, SingleAnswered
    <2>. QED
        BY <1>1, <1>3, <2>1 DEF ClientAnswered
<1>4. CASE IsMulti(d)
    <2>1. MultiAnswered(q, P, d)
        BY <1>4 DEF ClientAnswered
    <2>2. \A m : Open(m, P2, d)' <=> Open(m, P2, d)
        BY DEF Open, WaitsFor, LastOf
    <2>3. \A m : Open(m, P, d) => Open(m, P2, d)
        BY <1>4 DEF Open, WaitsFor
    <2>4. CASE pc[d] \notin {"post subtasks", "recv"}
        <3>1. MultiAnswered(q2, P2, d)'
            BY <2>4 DEF MultiAnswered
        <3>. QED
            BY <1>1, <1>4, <3>1 DEF ClientAnswered
    <2>5. CASE \E i \in DOMAIN q.multis : Open(q.multis[i], P, d)
        <3>1. \E i \in DOMAIN q2.multis : Open(q2.multis[i], P2, d)'
            BY <2>2, <2>3, <2>5
        <3>2. MultiAnswered(q2, P2, d)'
            BY <3>1 DEF MultiAnswered
        <3>. QED
            BY <1>1, <1>4, <3>2 DEF ClientAnswered
    <2>6. CASE pc[d] \in {"post subtasks", "recv"} /\ ~ \E i \in DOMAIN q.multis : Open(q.multis[i], P, d)
        <3>1. /\ \A i \in DOMAIN q.multis : q.multis[i].id # d
              /\ HasLast(q, d)
              /\ \A n \in 1 .. request[d].n_prompts : ~(posted[d] < n) /\ <<d, n>> \notin P
            BY <2>1, <2>6 DEF MultiAnswered
        <3>2. \A i \in DOMAIN q2.multis : q2.multis[i].id # d
            BY <3>1
        <3>3. \A n \in 1 .. request[d].n_prompts : ~(posted[d] < n) /\ <<d, n>> \notin P2
            BY <1>4, <3>1
        <3>4. MultiAnswered(q2, P2, d)'
            BY <1>2, <3>1, <3>2, <3>3 DEF MultiAnswered
        <3>. QED
            BY <1>1, <1>4, <3>4 DEF ClientAnswered
    <2>. QED
        BY <2>4, <2>5, <2>6
<1>. QED
    BY <1>3, <1>4

LEMMA AllClients ==
    ASSUME request' = request, NEW q2, q2 = Results', NEW P2, P2 = Placed',
           \A d \in Callers : ClientAnswered(q2, P2, d)'
    PROVE  AnswerInv'
<1>1. Callers' = Callers
    BY DEF Callers
<1>2. AllAnswered(q2, P2)'
    BY <1>1 DEF AllAnswered, ClientAnswered
<1>. QED
    BY <1>2 DEF AnswerInv

\* The tasks in place after a client has posted one, or none.
LEMMA ClientPlaced ==
    ASSUME TypeInv, NEW c \in Callers, Client(c), NEW P2, P2 = Placed'
    PROVE  /\ queue_tasks' = queue_tasks => \A x : x \in P2 <=> x \in Placed
           /\ \A t \in ATask : queue_tasks' = Append(queue_tasks, t) =>
                \A x : x \in P2 <=> x \in Placed \/ (x \in Ids /\ x = t.id)
<1>1. request' = request /\ queue_tasks_deferred' = queue_tasks_deferred /\ slots' = slots
    BY ClientLeaves
<1>2. Ids' = Ids
    BY <1>1, TypesStay
<1>3. \A x : x \in P2 <=> x \in Ids /\ (x \in Queued' \/ \E s \in Working' : slots'[s].id_task = x)
    BY <1>1, PlacedThen
<1>4. \A x : x \in Placed <=> x \in Ids /\ (x \in Queued \/ \E s \in Working : slots[s].id_task = x)
    BY PlacedNow
<1>5. Working' = Working
    BY <1>1 DEF Working, Works
<1>6. ASSUME queue_tasks' = queue_tasks
      PROVE  \A x : x \in P2 <=> x \in Placed
    <2>1. Queued' = Queued
        BY <1>1, <1>6, QueuedSame
    <2>. QED
        BY <1>1, <1>3, <1>4, <1>5, <2>1
<1>7. ASSUME NEW t \in ATask, queue_tasks' = Append(queue_tasks, t)
      PROVE  \A x : x \in P2 <=> x \in Placed \/ (x \in Ids /\ x = t.id)
    <2>1. queue_tasks \in Seq(ATask)
        BY DEF TypeInv, TypeOK
    <2>2. PICK q : q = queue_tasks'
        OBVIOUS
    <2>3. \A x : Absent(q, x) <=> Absent(queue_tasks, x) /\ t.id # x
        BY <1>7, <2>1, <2>2, AbsentAppend
    <2>4. \A x : x \in Queued' <=> x \in Ids /\ (~Absent(q, x) \/ ~Absent(queue_tasks_deferred, x))
        BY <1>1, <1>2, <2>2 DEF Queued, Absent
    <2>5. \A x : x \in Queued <=> x \in Ids /\ (~Absent(queue_tasks, x) \/ ~Absent(queue_tasks_deferred, x))
        BY DEF Queued
    <2>6. \A x : x \in Queued' <=> x \in Queued \/ (x \in Ids /\ x = t.id)
        BY <2>3, <2>4, <2>5
    <2>. QED
        BY <1>1, <1>3, <1>4, <1>5, <2>6
<1>. QED
    BY <1>6, <1>7

\* recv takes one result of its client; it takes the last one when the client leaves.
LEMMA RecvLeaves ==
    ASSUME WorkInv, TypeInv, NEW c \in Callers, Recv(c), NEW d, HasLast(Results, d), NEW q2, q2 = Results',
           c # d \/ (pc'[c] = "recv" /\ IsStream(c))
    PROVE  HasLast(q2, d)
<1>1. PICK k : k = Taken(c)
    OBVIOUS
<1>2. PICK r : r = queue_results[k]
    OBVIOUS
<1>3. /\ k \in 1 .. Len(queue_results) /\ r.id = c
      /\ q2.results = RemoveAt(queue_results, k)
    BY <1>1, <1>2, FirstResult DEF Results
<1>4. queue_results \in Seq(AResult)
    BY DEF TypeInv, TypeOK
<1>5. pc'[c] = "recv" /\ IsStream(c) => r.kind = "partial"
    <2>. SUFFICES ASSUME pc'[c] = "recv", IsStream(c), r.kind # "partial"
                  PROVE  FALSE
        OBVIOUS
    <2>1. At(c, "recv", "leave")
        BY <1>1, <1>2 DEF Recv
    <2>2. pc' = [pc EXCEPT ![c] = "leave"] /\ pc[c] = "recv"
        BY <2>1 DEF At
    <2>3. pc'[c] = "leave"
        BY <2>2 DEF WorkInv, ClientShape
    <2>. QED
        BY <2>3
<1>6. PICK i \in DOMAIN queue_results : queue_results[i].id = d /\ queue_results[i].kind # "partial"
    BY DEF HasLast, Results
<1>7. i # k
    BY <1>2, <1>3, <1>5, <1>6
<1>8. PICK j \in DOMAIN q2.results : q2.results[j] = queue_results[i]
    BY <1>3, <1>4, <1>6, <1>7, RemovedKeeps
<1>. QED
    BY <1>6, <1>8 DEF HasLast

\* What a client posts has its own id, or is one of its subtasks.
LEMMA ClientPostsTyped ==
    ASSUME WorkInv, TypeInv, NEW c \in Callers, Client(c), queue_tasks' # queue_tasks
    PROVE  \E t \in ATask : /\ queue_tasks' = Append(queue_tasks, t)
                            /\ t.id \in Clients \cup {None} \/ \E k : t.id = <<c, k>>
<1>1. c \in Clients /\ request[c] \in Completion \cup Other
    BY Asked DEF WorkInv
<1>2. CASE PostTask(c)
    <2>1. queue_tasks' = Append(queue_tasks, TaskOf(c))
        BY <1>2 DEF PostTask, Post
    <2>2. TaskOf(c) \in ATask /\ TaskOf(c).id = c
        BY <1>1 DEF TaskOf, Task, ATask, TaskIds, Completion, Other
    <2>. QED
        BY <1>1, <2>1, <2>2
<1>3. CASE PostSubtask(c)
    <2>1. /\ posted[c] + 1 \in 1 .. request[c].n_prompts /\ IsMulti(c)
          /\ queue_tasks' = Append(queue_tasks, SubTask(c, posted[c] + 1))
        BY <1>3, SubtaskPosted DEF TypeInv
    <2>2. PICK n : n = posted[c] + 1
        OBVIOUS
    <2>3. PICK x : x = <<c, n>>
        OBVIOUS
    <2>4. x \in Ids
        BY <2>1, <2>2, <2>3, Prompts DEF WorkInv
    <2>5. SubTask(c, n) \in ATask /\ SubTask(c, n).id = x
        BY <1>1, <2>3, <2>4 DEF SubTask, Task, ATask, TaskIds
    <2>. QED
        BY <2>1, <2>2, <2>3, <2>5
<1>4. CASE Cancel(c)
    <2>1. queue_tasks' = Append(queue_tasks, CancelTask(c))
        BY <1>4 DEF Cancel, Post
    <2>2. CancelTask(c) \in ATask /\ CancelTask(c).id = None
        BY <1>1 DEF CancelTask, Task, ATask, TaskIds
    <2>. QED
        BY <2>1, <2>2
<1>. QED
    BY <1>2, <1>3, <1>4 DEF Client, Register, AddMultitask, Recv, BreakEarly, Leave, queueVars

\* A client that posts one task or a subtask, or nothing, as seen by the others.
LEMMA OthersAnswered ==
    ASSUME WorkInv, TypeInv, AnswerInv, NEW c \in Callers, Client(c), NEW d \in Callers, d # c,
           NEW q2, q2 = Results', NEW P2, P2 = Placed'
    PROVE  ClientAnswered(q2, P2, d)'
<1>1. request' = request /\ pc'[d] = pc[d] /\ posted'[d] = posted[d]
    BY ClientLeaves, ClientGoes
<1>2. PICK q : q = Results
    OBVIOUS
<1>3. ClientAnswered(q, Placed, d)
    BY <1>2 DEF AnswerInv, AllAnswered, ClientAnswered
<1>4. HasLast(q, d) => HasLast(q2, d)
    <2>1. CASE Recv(c)
        BY <1>2, <2>1, RecvLeaves
    <2>2. CASE ~Recv(c)
        <3>1. queue_results' = queue_results
            BY <2>2 DEF Client, Register, PostTask, AddMultitask, PostSubtask, BreakEarly, Leave, Cancel,
                        resultVars
        <3>. QED
            BY <1>2, <3>1 DEF HasLast, Results
    <2>. QED
        BY <2>1, <2>2
<1>5. /\ \A i \in DOMAIN q.multis : i \in DOMAIN q2.multis /\ q2.multis[i] = q.multis[i]
      /\ \A i \in DOMAIN q2.multis : i \in DOMAIN q.multis \/ q2.multis[i].id # d
    <2>1. q.multis = queue_multitasks /\ q2.multis = queue_multitasks'
        BY <1>2 DEF Results
    <2>2. CASE AddMultitask(c)
        <3>1. PICK m : m = [id |-> c, remaining |-> SubIds(c), results |-> <<>>]
            OBVIOUS
        <3>2. queue_multitasks' = Append(queue_multitasks, m) /\ m.id = c
            BY <2>2, <3>1 DEF AddMultitask
        <3>3. queue_multitasks \in Seq(AMultitask) /\ queue_multitasks' \in Seq(AMultitask)
            BY <1>1, ClientTypes, TypesStay DEF TypeInv, TypeOK
        <3>4. queue_multitasks \in Seq({m} \cup AMultitask)
            BY <3>3, SeqDef
        <3>5. /\ \A i \in DOMAIN queue_multitasks :
                    i \in DOMAIN queue_multitasks' /\ queue_multitasks'[i] = queue_multitasks[i]
              /\ \A i \in DOMAIN queue_multitasks' :
                    i \in DOMAIN queue_multitasks \/ queue_multitasks'[i] = m
            <4>1. PICK z : z = queue_multitasks'
                OBVIOUS
            <4>2. /\ DOMAIN queue_multitasks \subseteq DOMAIN z
                  /\ z[Len(queue_multitasks) + 1] = m
                  /\ \A i \in DOMAIN queue_multitasks : z[i] = queue_multitasks[i]
                  /\ \A i \in DOMAIN z : i \in DOMAIN queue_multitasks \/ i = Len(queue_multitasks) + 1
                BY <3>2, <3>4, <4>1, Appended
            <4>. QED
                BY <4>1, <4>2
        <3>. QED
            BY <2>1, <3>2, <3>5
    <2>3. CASE ~AddMultitask(c)
        <3>1. queue_multitasks' = queue_multitasks
            BY <2>3 DEF Client, Register, PostTask, Recv, PostSubtask, BreakEarly, Leave, Cancel,
                        resultVars
        <3>. QED
            BY <2>1, <3>1
    <2>. QED
        BY <2>2, <2>3
<1>6. \A x : x \in Placed => x \in P2
    <2>1. CASE queue_tasks' = queue_tasks
        BY <2>1, ClientPlaced
    <2>2. CASE queue_tasks' # queue_tasks
        <3>1. PICK t \in ATask : queue_tasks' = Append(queue_tasks, t)
            BY <2>2, ClientPostsTyped
        <3>. QED
            BY <3>1, ClientPlaced
    <2>. QED
        BY <2>1, <2>2
<1>7. IsMulti(d) => \A n \in 1 .. request[d].n_prompts : <<d, n>> \in P2 <=> <<d, n>> \in Placed
    <2>. SUFFICES ASSUME IsMulti(d), NEW n \in 1 .. request[d].n_prompts, NEW x, x = <<d, n>>
                  PROVE  x \in P2 <=> x \in Placed
        OBVIOUS
    <2>1. CASE queue_tasks' = queue_tasks
        BY <2>1, ClientPlaced
    <2>2. CASE queue_tasks' # queue_tasks
        <3>1. PICK t \in ATask : /\ queue_tasks' = Append(queue_tasks, t)
                                 /\ t.id \in Clients \cup {None} \/ \E k : t.id = <<c, k>>
            BY <2>2, ClientPostsTyped
        <3>2. x \notin Clients \cup {None}
            <4>1. x \in Ids /\ x \notin Clients
                BY Prompts DEF WorkInv
            <4>. QED
                BY <4>1, IdsReal DEF WorkInv
        <3>3. \A k : x # <<c, k>>
            OBVIOUS
        <3>4. t.id # x
            BY <3>1, <3>2, <3>3
        <3>. QED
            BY <3>1, <3>4, ClientPlaced
    <2>. QED
        BY <2>1, <2>2
<1>. QED
    BY <1>1, <1>3, <1>4, <1>5, <1>6, <1>7, OtherAnswered

\* A multitask is open with all its subtasks before any of them is posted.
LEMMA AddedAnswered ==
    ASSUME WorkInv, TypeInv, PlaceInv, OwnInv, NEW c \in Callers, AddMultitask(c),
           NEW q2, q2 = Results', NEW P2, P2 = Placed'
    PROVE  ClientAnswered(q2, P2, c)'
<1>1. /\ pc[c] = "add multitask" /\ IsMulti(c) /\ posted[c] = 0
      /\ request' = request /\ posted' = posted /\ queue_tasks' = queue_tasks
    BY DEF AddMultitask, At, WorkInv, ClientShape, TypeInv, SubtasksPosted, queueVars
<1>2. IsMulti(c)'
    BY <1>1 DEF IsMulti, IsCompletion
<1>3. PICK m : m = [id |-> c, remaining |-> SubIds(c), results |-> <<>>]
    OBVIOUS
<1>4. m.id = c /\ m.remaining = SubIds(c) /\ m.results = <<>>
    BY <1>3
<1>5. \E i \in DOMAIN q2.multis : q2.multis[i] = m
    <2>1. queue_multitasks \in Seq(AMultitask) /\ queue_multitasks' = Append(queue_multitasks, m)
        BY <1>3 DEF TypeInv, TypeOK, AddMultitask
    <2>2. queue_multitasks \in Seq({m} \cup AMultitask)
        BY <2>1, SeqDef
    <2>3. PICK z : z = queue_multitasks'
        OBVIOUS
    <2>4. Len(queue_multitasks) + 1 \in DOMAIN z /\ z[Len(queue_multitasks) + 1] = m
        BY <2>1, <2>2, <2>3, Appended
    <2>5. q2.multis = z
        BY <2>3 DEF Results
    <2>. QED
        BY <2>4, <2>5
<1>6. \A x : x \in P2 <=> x \in Placed
    BY <1>1, ClientPlaced DEF Client
<1>7. request[c].n_prompts \in Nat
    BY <1>1, Prompts DEF WorkInv
<1>8. ASSUME NEW n \in 1 .. request[c].n_prompts
      PROVE  WaitsFor(m, P2, c, n)'
    <2>1. PICK x : x = <<c, n>>
        OBVIOUS
    <2>2. x \in m.remaining
        BY <1>1, <1>4, <2>1 DEF SubIds
    <2>3. posted'[c] < n
        <3>1. posted'[c] = 0
            BY <1>1
        <3>2. n \in Int /\ 0 < n
            BY <1>7
        <3>. QED
            BY <3>1, <3>2
    <2>4. \A j : ~LastOf(m, x, j)'
        BY <1>4 DEF LastOf
    <2>5. \A j, k : LastOf(m, x, j)' /\ LastOf(m, x, k)' => j = k
        BY <2>4
    <2>6. x \in m.remaining <=> ~ \E j : LastOf(m, x, j)'
        BY <2>2, <2>4
    <2>. QED
        BY <2>1, <2>2, <2>3, <2>5, <2>6 DEF WaitsFor
<1>9. Open(m, P2, c)'
    BY <1>1, <1>4, <1>8 DEF Open
<1>10. MultiAnswered(q2, P2, c)'
    <2>1. \E i \in DOMAIN q2.multis : Open(q2.multis[i], P2, c)'
        BY <1>5, <1>9
    <2>. QED
        BY <2>1 DEF MultiAnswered
<1>. QED
    BY <1>2, <1>10 DEF ClientAnswered

\* A subtask is in the queue when it counts as posted.
LEMMA SubtaskAnswered ==
    ASSUME WorkInv, TypeInv, PlaceInv, OwnInv, AnswerInv, NEW c \in Callers, PostSubtask(c),
           NEW q2, q2 = Results', NEW P2, P2 = Placed'
    PROVE  ClientAnswered(q2, P2, c)'
<1>1. /\ IsMulti(c) /\ posted \in [Callers -> Nat] /\ pc[c] = "post subtasks"
      /\ posted[c] \in Nat /\ posted[c] + 1 \in 1 .. request[c].n_prompts
      /\ request[c].n_prompts \in Nat
      /\ posted' = [posted EXCEPT ![c] = posted[c] + 1]
      /\ queue_tasks' = Append(queue_tasks, SubTask(c, posted[c] + 1))
    BY SubtaskPosted DEF TypeInv
<1>2. /\ request' = request /\ queue_results' = queue_results /\ queue_multitasks' = queue_multitasks
    BY DEF PostSubtask, resultVars
<1>3. IsMulti(c)'
    BY <1>1, <1>2 DEF IsMulti, IsCompletion
<1>4. PICK p : p = posted[c]
    OBVIOUS
<1>5. PICK n0 : n0 = p + 1
    OBVIOUS
<1>6. PICK y : y = <<c, n0>>
    OBVIOUS
<1>7. p \in Nat /\ n0 \in 1 .. request[c].n_prompts /\ posted[c] = p /\ posted'[c] = n0
    BY <1>1, <1>4, <1>5
<1>8. y \in Ids
    BY <1>1, <1>6, <1>7, Prompts DEF WorkInv
<1>9. \A x : x \in P2 <=> x \in Placed \/ x = y
    <2>1. PICK t : t = SubTask(c, n0)
        OBVIOUS
    <2>2. t.id = y
        BY <1>6, <2>1 DEF SubTask, Task
    <2>3. c \in Clients
        BY Asked DEF WorkInv
    <2>4. t \in ATask
        BY <1>6, <1>8, <2>1, <2>3 DEF SubTask, Task, ATask, TaskIds
    <2>5. queue_tasks' = Append(queue_tasks, t)
        BY <1>1, <1>4, <1>5, <2>1
    <2>. QED
        BY <1>8, <2>2, <2>4, <2>5, ClientPlaced DEF Client
<1>10. PICK i \in DOMAIN queue_multitasks : Open(queue_multitasks[i], Placed, c)
    <2>1. MultiAnswered(Results, Placed, c)
        BY <1>1 DEF AnswerInv, AllAnswered
    <2>2. posted[c] < n0
        BY <1>5, <1>7
    <2>3. ~ \A n \in 1 .. request[c].n_prompts : ~(posted[c] < n) /\ <<c, n>> \notin Placed
        BY <1>7, <2>2
    <2>. QED
        BY <1>1, <2>1, <2>3 DEF MultiAnswered, Results
<1>11. PICK m : m = queue_multitasks[i]
    OBVIOUS
<1>12. m.id = c /\ \A n \in 1 .. request[c].n_prompts : WaitsFor(m, Placed, c, n)
    BY <1>10, <1>11 DEF Open
<1>13. ASSUME NEW n \in 1 .. request[c].n_prompts
       PROVE  WaitsFor(m, P2, c, n)'
    <2>1. PICK x : x = <<c, n>>
        OBVIOUS
    <2>2. \A j : LastOf(m, x, j)' <=> LastOf(m, x, j)
        BY DEF LastOf
    <2>3. /\ \A j, k : LastOf(m, x, j) /\ LastOf(m, x, k) => j = k
          /\ x \in m.remaining <=> ~ \E j : LastOf(m, x, j)
          /\ x \in m.remaining <=> posted[c] < n \/ x \in Placed
        BY <1>12, <2>1 DEF WaitsFor
    <2>4. n \in Nat /\ (posted[c] < n <=> p < n) /\ (posted'[c] < n <=> n0 < n)
        <3>1. request[c].n_prompts \in Nat
            BY <1>1
        <3>2. n \in Nat
            BY <3>1
        <3>. QED
            BY <1>7, <3>2
    <2>5. p < n <=> n0 < n \/ n = n0
        BY <1>5, <1>7, <2>4
    <2>6. x = y <=> n = n0
        BY <1>6, <2>1
    <2>7. x \in m.remaining <=> posted'[c] < n \/ x \in P2
        BY <1>9, <2>3, <2>4, <2>5, <2>6
    <2>8. /\ \A j, k : LastOf(m, x, j)' /\ LastOf(m, x, k)' => j = k
          /\ x \in m.remaining <=> ~ \E j : LastOf(m, x, j)'
        BY <2>2, <2>3
    <2>. QED
        BY <2>1, <2>7, <2>8 DEF WaitsFor
<1>14. Open(m, P2, c)'
    BY <1>2, <1>12, <1>13 DEF Open
<1>15. MultiAnswered(q2, P2, c)'
    <2>1. q2.multis = queue_multitasks
        BY <1>2 DEF Results
    <2>2. \E k \in DOMAIN q2.multis : Open(q2.multis[k], P2, c)'
        BY <1>10, <1>11, <1>14, <2>1
    <2>. QED
        BY <2>2 DEF MultiAnswered
<1>. QED
    BY <1>3, <1>15 DEF ClientAnswered

\* The last result is what ends the waiting.
LEMMA RecvAnswered ==
    ASSUME WorkInv, TypeInv, AnswerInv, Plain, NEW c \in Callers, Recv(c),
           NEW q2, q2 = Results', NEW P2, P2 = Placed'
    PROVE  ClientAnswered(q2, P2, c)'
<1>1. /\ request' = request /\ posted' = posted /\ queue_tasks' = queue_tasks /\ pc[c] = "recv"
      /\ queue_multitasks' = queue_multitasks
    BY DEF Recv, queueVars
<1>2. pc'[c] = "leave" \/ (pc' = pc /\ IsStream(c))
    BY DEF Recv, At, WorkInv, ClientShape
<1>3. CASE pc'[c] = "leave"
    BY <1>3 DEF ClientAnswered, SingleAnswered, MultiAnswered
<1>4. CASE pc' = pc /\ IsStream(c)
    <2>1. ~IsMulti(c)
        BY <1>4 DEF Plain
    <2>2. HasLast(Results, c) => HasLast(q2, c)
        BY <1>1, <1>4, RecvLeaves
    <2>3. \A x : x \in P2 <=> x \in Placed
        BY <1>1, ClientPlaced DEF Client
    <2>4. PICK q : q = Results
        OBVIOUS
    <2>5. ClientAnswered(q, Placed, c)
        BY <2>4 DEF AnswerInv, AllAnswered, ClientAnswered
    <2>6. q2.multis = q.multis
        BY <1>1, <2>4 DEF Results
    <2>. QED
        BY <1>1, <1>4, <2>1, <2>2, <2>3, <2>4, <2>5, <2>6, OtherAnswered
<1>. QED
    BY <1>2, <1>3, <1>4

\* The task is in the queue when its client begins to wait.
LEMMA TaskAnswered ==
    ASSUME WorkInv, TypeInv, NEW c \in Callers, PostTask(c),
           NEW q2, q2 = Results', NEW P2, P2 = Placed'
    PROVE  ClientAnswered(q2, P2, c)'
<1>1. request' = request /\ queue_tasks' = Append(queue_tasks, TaskOf(c))
    BY ClientLeaves DEF PostTask, Post, Client
<1>2. ~IsMulti(c)
    BY DEF PostTask, At, PostsFirst, TypeInv, SubtasksPosted, IsMulti, IsCompletion
<1>3. ~IsMulti(c)'
    BY <1>1, <1>2 DEF IsMulti, IsCompletion
<1>4. c \in Clients /\ request[c] \in Completion \cup Other
    BY Asked DEF WorkInv
<1>5. TaskOf(c) \in ATask /\ TaskOf(c).id = c
    BY <1>4 DEF TaskOf, Task, ATask, TaskIds, Completion, Other
<1>6. c \in P2
    BY <1>1, <1>2, <1>5, CallersIds, ClientPlaced DEF Client
<1>. QED
    BY <1>3, <1>6 DEF ClientAnswered, SingleAnswered

LEMMA ClientAnswer ==
    ASSUME WorkInv, TypeInv, PlaceInv, OwnInv, AnswerInv, Plain, NEW c \in Callers, Client(c)
    PROVE  AnswerInv'
<1>1. PICK q2 : q2 = Results'
    OBVIOUS
<1>2. PICK P2 : P2 = Placed'
    OBVIOUS
<1>3. request' = request
    BY ClientLeaves
<1>4. ClientAnswered(q2, P2, c)'
    <2>1. CASE PostTask(c)
        BY <1>1, <1>2, <2>1, TaskAnswered
    <2>2. CASE AddMultitask(c)
        BY <1>1, <1>2, <2>2, AddedAnswered
    <2>3. CASE PostSubtask(c)
        BY <1>1, <1>2, <2>3, SubtaskAnswered
    <2>4. CASE Recv(c)
        BY <1>1, <1>2, <2>4, RecvAnswered
    <2>5. CASE Register(c)
        <3>1. pc'[c] \in {"add multitask", "post"} \/ (PostsFirst(c) /\ pc'[c] = "recv")
            BY <2>5 DEF Register, At, WorkInv, ClientShape
        <3>2. PostsFirst(c) => ~IsMulti(c)' /\ PostsFirst(c)'
            BY <1>3 DEF PostsFirst, IsMulti, IsCompletion
        <3>. QED
            BY <3>1, <3>2 DEF ClientAnswered, SingleAnswered, MultiAnswered
    <2>6. CASE BreakEarly(c) \/ Leave(c) \/ Cancel(c)
        <3>1. pc'[c] \notin {"post subtasks", "recv"}
            BY <2>6 DEF BreakEarly, Leave, Cancel, At, WorkInv, ClientShape
        <3>. QED
            BY <3>1 DEF ClientAnswered, SingleAnswered, MultiAnswered
    <2>. QED
        BY <2>1, <2>2, <2>3, <2>4, <2>5, <2>6 DEF Client
<1>5. \A d \in Callers : ClientAnswered(q2, P2, d)'
    BY <1>1, <1>2, <1>4, OthersAnswered
<1>. QED
    BY <1>1, <1>2, <1>3, <1>5, AllClients

LEMMA AnswerStep ==
    ASSUME WorkInv, TypeInv, PlaceInv, OwnInv, AnswerInv, Plain, ~MayFail, [Next]_vars
    PROVE  AnswerInv'
<1>1. CASE UNCHANGED vars
    <2>1. /\ request' = request /\ pc' = pc /\ posted' = posted
          /\ queue_tasks' = queue_tasks /\ queue_tasks_deferred' = queue_tasks_deferred
          /\ queue_multitasks' = queue_multitasks /\ queue_results' = queue_results
          /\ slots' = slots
        BY <1>1 DEF vars, mainVars, queueVars, clientVars, resultVars
    <2>2. Queued' = Queued /\ Working' = Working
        BY <2>1, QueuedSame DEF Working, Works
    <2>3. PICK P : P = Placed'
        OBVIOUS
    <2>4. \A x : x \in P <=> x \in Placed
        BY <2>1, <2>2, <2>3, PlacedNow, PlacedThen
    <2>. QED
        BY <2>1, <2>3, <2>4, AnswerMoves
<1>2. CASE MainLoop
    BY <1>2, ProcessTaskAnswer, FinishAnswer, UpdateAnswer, DecodeAnswer DEF MainLoop
<1>3. ASSUME NEW c \in Callers, Client(c)
      PROVE  AnswerInv'
    BY <1>3, ClientAnswer
<1>. QED
    BY <1>1, <1>2, <1>3 DEF Next

LEMMA PlainStays ==
    ASSUME [Next]_vars
    PROVE  (Plain' <=> Plain) /\ (MayFail' <=> MayFail)
BY RequestsStay DEF Plain, MayFail, Callers, IsCompletion, IsStream, IsMulti

-----------------------------------------------------------------------------
(* Counting places and answers.                                            *)

LEMMA OneOf ==
    ASSUME NEW S, \A a, b \in S : a = b, S # {}
    PROVE  Cardinality(S) = 1
<1>1. PICK a \in S : S = {a}
    OBVIOUS
<1>. QED
    BY <1>1, FS_Singleton

\* A task is in one place when it is in place, and in none otherwise.
LEMMA PlacesCount ==
    ASSUME WorkInv, PlaceInv, NEW id \in Ids
    PROVE  Places(id) = IF id \in Placed THEN 1 ELSE 0
<1>. DEFINE Q == {i \in DOMAIN queue_tasks : queue_tasks[i].id = id}
            D == {i \in DOMAIN queue_tasks_deferred : queue_tasks_deferred[i].id = id}
            S == {s \in Slots : Busy(s) /\ slots[s].id_task = id}
<1>1. id \in RealIds /\ id # None
    BY IdsReal DEF WorkInv
<1>2. Lone(queue_tasks, queue_tasks_deferred, slots, id)
    BY <1>1 DEF PlaceInv, Settled
<1>3. \A s \in Slots : Busy(s) <=> Works(slots[s])
    BY DEF Busy, Loading, Works
<1>4. (\A a, b \in Q : a = b) /\ (Absent(queue_tasks, id) <=> Q = {})
    BY <1>1 DEF PlaceInv, Settled, Once, Absent
<1>5. (\A a, b \in D : a = b) /\ (Absent(queue_tasks_deferred, id) <=> D = {})
    BY <1>1 DEF PlaceInv, Settled, Once, Absent
<1>6. (\A a, b \in S : a = b) /\ (AbsentSlots(slots, id) <=> S = {})
    BY <1>1, <1>3 DEF PlaceInv, Settled, OnceSlots, AbsentSlots
<1>7. Places(id) = Cardinality(Q) + Cardinality(D) + Cardinality(S)
    BY DEF Places
<1>8. id \in Placed <=> Q # {} \/ D # {} \/ S # {}
    <2>1. AbsentSlots(slots, id) <=> ~ \E s \in Working : slots[s].id_task = id
        BY DEF AbsentSlots, Working
    <2>2. id \in Queued <=> ~Absent(queue_tasks, id) \/ ~Absent(queue_tasks_deferred, id)
        BY DEF Queued
    <2>. HIDE DEF Q, D, S
    <2>. QED
        BY <1>4, <1>5, <1>6, <2>1, <2>2, PlacedNow
<1>. HIDE DEF Q, D, S
<1>9. /\ Q = {} => Cardinality(Q) = 0
      /\ D = {} => Cardinality(D) = 0
      /\ S = {} => Cardinality(S) = 0
    BY FS_EmptySet
<1>10. /\ Q # {} => Cardinality(Q) = 1
       /\ D # {} => Cardinality(D) = 1
       /\ S # {} => Cardinality(S) = 1
    BY <1>4, <1>5, <1>6, OneOf
<1>11. (S = {} \/ (Q = {} /\ D = {})) /\ (Q = {} \/ D = {})
    BY <1>2, <1>4, <1>5, <1>6 DEF Lone
<1>. QED
    BY <1>7, <1>8, <1>9, <1>10, <1>11

\* Wherever clients and slots are and whatever fails, a task is never in two queues,
\* in two slots, or in a queue and a slot.
THEOREM PlacesApart == Spec => []OnePlace
<1>1. WorkInv /\ PlaceInv => OnePlace
    BY PlacesCount DEF OnePlace
<1>. QED
    BY <1>1, WorkInit, WorkStep, PlaceInit, PlaceStep, PTL DEF Spec

\* Two last results of a client are one and the same.
LEMMA LastOnce ==
    ASSUME TypeInv, OrderInv, NEW c \in Callers,
           NEW i \in DOMAIN queue_results, NEW j \in DOMAIN queue_results,
           queue_results[i].id = c, queue_results[j].id = c,
           queue_results[i].kind # "partial", queue_results[j].kind # "partial"
    PROVE  i = j
<1>1. InOrder(Results, c) /\ Results.results = queue_results
    BY DEF OrderInv, Ordered, Results
<1>2. i \in Int /\ j \in Int
    <2>1. queue_results \in Seq(AResult)
        BY DEF TypeInv, TypeOK
    <2>2. DOMAIN queue_results = 1 .. Len(queue_results) /\ Len(queue_results) \in Nat
        BY <2>1, LenProperties
    <2>. QED
        BY <2>2
<1>3. ~(i < j) /\ ~(j < i)
    BY <1>1 DEF InOrder, Before
<1>. QED
    BY <1>2, <1>3

\* The answers to a request with one task.
LEMMA SingleCount ==
    ASSUME WorkInv, TypeInv, PlaceInv, OrderInv, AnswerInv, NEW c \in Callers, ~IsMulti(c),
           pc[c] = "recv", ~PostsFirst(c)
    PROVE  Answers(c, c) = IF c \in Placed THEN 0 ELSE 1
<1>. DEFINE L == {i \in DOMAIN queue_results :
                    queue_results[i].id = c /\ queue_results[i].kind # "partial"}
<1>1. Answers(c, c) = Cardinality(L)
    BY DEF Answers
<1>2. \A a, b \in L : a = b
    BY LastOnce
<1>3. L # {} <=> HasLast(Results, c)
    BY DEF HasLast, Results
<1>4. c \in Placed => L = {}
    <2>. SUFFICES ASSUME c \in Placed, NEW i \in L
                  PROVE  FALSE
        OBVIOUS
    <2>1. SingleTold(Results, Queued, Working, slots, c)
        BY DEF OrderInv, Ordered, Told
    <2>2. Got(Results, c, queue_results[i]) /\ queue_results[i].kind # "partial"
        BY DEF Got, Results
    <2>3. c \in Queued \/ \E s \in Working : slots[s].id_task = c
        BY PlacedNow
    <2>. QED
        BY <2>1, <2>2, <2>3 DEF SingleTold, Untold
<1>5. c \in Placed \/ HasLast(Results, c)
    BY DEF AnswerInv, AllAnswered, SingleAnswered
<1>. HIDE DEF L
<1>6. (L = {} => Cardinality(L) = 0) /\ (L # {} => Cardinality(L) = 1)
    BY <1>2, FS_EmptySet, OneOf
<1>. QED
    BY <1>1, <1>3, <1>4, <1>5, <1>6

\* The answers to one of the subtasks of a multitask.
LEMMA MultiCount ==
    ASSUME WorkInv, TypeInv, PlaceInv, OwnInv, OrderInv, AnswerInv, NEW c \in Callers, IsMulti(c),
           pc[c] = "recv", NEW n \in 1 .. request[c].n_prompts, NEW x, x = <<c, n>>
    PROVE  Answers(c, x) = IF x \in Placed THEN 0 ELSE 1
<1>. DEFINE L(rs) == {i \in DOMAIN rs : rs[i].id = x /\ rs[i].kind # "partial"}
            O == {i \in DOMAIN queue_multitasks : queue_multitasks[i].id = c}
            R == {i \in DOMAIN queue_results : queue_results[i].id = c}
<1>1. x # c
    <2>1. x \notin Clients /\ c \in Clients
        BY Prompts, Asked DEF WorkInv
    <2>. QED
        BY <2>1
<1>2. Answers(c, x) = IF O # {} THEN Cardinality(L(queue_multitasks[Min(O)].results))
                      ELSE Cardinality(R)
    BY <1>1 DEF Answers
<1>3. \/ \E i \in DOMAIN queue_multitasks : Open(queue_multitasks[i], Placed, c)
      \/ /\ \A i \in DOMAIN queue_multitasks : queue_multitasks[i].id # c
         /\ HasLast(Results, c)
         /\ \A k \in 1 .. request[c].n_prompts : ~(posted[c] < k) /\ <<c, k>> \notin Placed
    BY DEF AnswerInv, AllAnswered, MultiAnswered, Results
<1>4. CASE \E i \in DOMAIN queue_multitasks : Open(queue_multitasks[i], Placed, c)
    <2>1. PICK i \in DOMAIN queue_multitasks : Open(queue_multitasks[i], Placed, c)
        BY <1>4
    <2>2. \A j \in DOMAIN queue_multitasks : queue_multitasks[j].id = c => j = i
        BY <2>1 DEF Open, OwnInv, OwnMultis
    <2>3. O = {i}
        BY <2>1, <2>2 DEF Open
    <2>4. i \in Nat
        <3>1. queue_multitasks \in Seq(AMultitask)
            BY DEF TypeInv, TypeOK
        <3>2. DOMAIN queue_multitasks = 1 .. Len(queue_multitasks) /\ Len(queue_multitasks) \in Nat
            BY <3>1, LenProperties
        <3>. QED
            BY <3>2
    <2>5. Min(O) = i
        <3>. HIDE DEF O
        <3>. QED
            BY <2>3, <2>4, MinIsLeast
    <2>6. PICK m : m = queue_multitasks[i]
        OBVIOUS
    <2>7. WaitsFor(m, Placed, c, n)
        BY <2>1, <2>6 DEF Open
    <2>8. /\ \A j, k : LastOf(m, x, j) /\ LastOf(m, x, k) => j = k
          /\ x \in m.remaining <=> ~ \E j : LastOf(m, x, j)
          /\ x \in m.remaining <=> posted[c] < n \/ x \in Placed
        BY <2>7 DEF WaitsFor
    <2>9. PICK A : A = L(m.results)
        OBVIOUS
    <2>10. \A j : j \in A <=> LastOf(m, x, j)
        BY <2>9 DEF LastOf
    <2>11. ~(posted[c] < n)
        <3>1. posted[c] = request[c].n_prompts
            BY DEF TypeInv, SubtasksPosted
        <3>2. request[c].n_prompts \in Nat
            BY Prompts DEF WorkInv
        <3>. QED
            BY <3>1, <3>2
    <2>12. Answers(c, x) = Cardinality(A)
        <3>1. O # {}
            BY <2>3
        <3>. QED
            BY <1>2, <2>5, <2>6, <2>9, <3>1
    <2>13. (\A a, b \in A : a = b) /\ (A = {} <=> x \in Placed)
        BY <2>8, <2>10, <2>11
    <2>14. (A = {} => Cardinality(A) = 0) /\ (A # {} => Cardinality(A) = 1)
        BY <2>13, FS_EmptySet, OneOf
    <2>. QED
        BY <2>12, <2>13, <2>14
<1>5. CASE ~ \E i \in DOMAIN queue_multitasks : Open(queue_multitasks[i], Placed, c)
    <2>1. O = {}
        BY <1>3, <1>5
    <2>2. x \notin Placed
        BY <1>3, <1>5
    <2>3. R # {}
        BY <1>3, <1>5 DEF HasLast, Results
    <2>4. MultiTold(Results, c)
        BY DEF OrderInv, Ordered, Told
    <2>5. \A i \in R : queue_results[i].kind # "partial"
        BY <2>4 DEF MultiTold, Got, Results
    <2>6. \A a, b \in R : a = b
        BY <2>5, LastOnce
    <2>7. Answers(c, x) = Cardinality(R)
        BY <1>2, <2>1
    <2>. HIDE DEF R
    <2>8. Cardinality(R) = 1
        BY <2>3, <2>6, OneOf
    <2>. QED
        BY <2>2, <2>7, <2>8
<1>. QED
    BY <1>4, <1>5

\* While a client waits, each of its tasks is in one queue or slot or has one last
\* result, never neither nor both, as long as llama_decode does not fail for good and
\* the requests are such that the code can keep their results and tasks apart.
THEOREM EveryTaskAnswered == Spec => [](Plain => OneAnswer)
<1>. DEFINE I == /\ WorkInv /\ TypeInv /\ PlaceInv /\ OwnInv
                 /\ MayFail \/ OrderInv
                 /\ MayFail \/ ~Plain \/ AnswerInv
<1>1. Init => I
    BY WorkInit, TypeInit, PlaceInit, OwnInit, OrderInit, AnswerInit
<1>2. I /\ [Next]_vars => I'
    <2>. SUFFICES ASSUME I, [Next]_vars
                  PROVE  I'
        OBVIOUS
    <2>1. WorkInv' /\ TypeInv' /\ PlaceInv' /\ OwnInv'
        BY WorkStep, TypeStep, PlaceStep, OwnStep
    <2>2. (Plain' <=> Plain) /\ (MayFail' <=> MayFail)
        BY PlainStays
    <2>3. MayFail' \/ OrderInv'
        BY <2>2, OrderStep
    <2>4. MayFail' \/ ~Plain' \/ AnswerInv'
        BY <2>2, AnswerStep
    <2>. QED
        BY <2>1, <2>3, <2>4
<1>3. I => (Plain => OneAnswer)
    <2>. SUFFICES ASSUME WorkInv, TypeInv, PlaceInv, OwnInv, OrderInv, AnswerInv,
                         NEW c \in Callers, pc[c] = "recv", ~PostsFirst(c), NEW id \in SubIds(c)
                  PROVE  Places(id) + Answers(c, id) = 1
        BY DEF OneAnswer
    <2>1. id \in Ids
        BY DEF Ids
    <2>2. Answers(c, id) = IF id \in Placed THEN 0 ELSE 1
        <3>1. CASE IsMulti(c)
            <4>1. PICK n \in 1 .. request[c].n_prompts : id = <<c, n>>
                BY <3>1 DEF SubIds
            <4>. QED
                BY <3>1, <4>1, MultiCount
        <3>2. CASE ~IsMulti(c)
            BY <3>2, SingleCount DEF SubIds
        <3>. QED
            BY <3>1, <3>2
    <2>. QED
        BY <2>1, <2>2, PlacesCount
<1>. QED
    BY <1>1, <1>2, <1>3, PTL DEF Spec

=============================================================================
