----------------------------- MODULE TaskServer -----------------------------
(***************************************************************************)
(* The task queue, the result queue and the slots of the HTTP server       *)
(* (examples/server/server.cpp).  Every request is handled by a thread of  *)
(* its own, a client here: it posts tasks and waits for results.  The main *)
(* thread takes the tasks, gives slots to completions and runs all busy    *)
(* slots in one batch per turn of its loop.                                *)
(*                                                                         *)
(* What a slot does to its part of the KV cache is left out; here it       *)
(* loads a prompt of so many tokens and then generates tokens until the    *)
(* model stops it or its budget is used up.  A step of a client holds at   *)
(* most one of the two mutexes, and steps of the main thread that only     *)
(* touch its own state are joined with the next that does not.             *)
(*                                                                         *)
(* queue_tasks.running is left out: terminate() is called by the signal    *)
(* handler alone, which main installs after start_loop has returned.       *)
(***************************************************************************)
EXTENDS Integers, FiniteSets, SequencesExt

CONSTANTS
    Clients,   \* the requests, and the ids of their tasks
    NSlots,    \* params.n_parallel
    NBatch,    \* llama_n_batch: most tokens of a batch
    Requests,  \* what the clients may ask for: functions from some of them
    None       \* -1: no task

Slots == 0 .. NSlots - 1

AnySlot == -1

Completion ==
    [ type      : {"completion"},
      n_prompts : 1 .. 2,             \* an array of prompts makes a multitask
      prompt    : Nat,                \* tokens of a prompt
      n_predict : Nat,                \* most tokens to generate
      stream    : BOOLEAN,
      leaves    : BOOLEAN,            \* the connection may break
      valid     : BOOLEAN,            \* launch_slot_with_task accepts it
      fills     : BOOLEAN,            \* the KV cache may be full while it is worked for
      system    : BOOLEAN,            \* it brings a system prompt
      id_slot   : Int ]

\* Slot actions (save, restore, erase), /slots and /metrics, LoRA scales.
Other == [type : {"slot action", "metrics", "lora"}, id_slot : Int]

ASSUME NSlotsAssumption == NSlots \in Nat \ {0}
ASSUME NBatchAssumption == NBatch \in Nat \ {0}
ASSUME RequestsAssumption ==
    \A r \in Requests : /\ DOMAIN r \subseteq Clients
                        /\ \A c \in DOMAIN r : r[c] \in Completion \cup Other
ASSUME NoneAssumption == None \notin Clients
ASSUME PairsAssumption == \A x \in Clients \cup {None} : x \notin Clients \X Nat

VARIABLES
    \* server_queue
    queue_tasks, queue_tasks_deferred, queue_multitasks,
    \* server_response
    waiting_task_ids, queue_results,
    \* the main thread: where it is, the slots, those of the batch that have not
    \* been sampled, and whether the first of these has stopped
    loop, slots, batch, stopped,
    \* the clients: what each asks for, which never changes, where it is, the
    \* subtasks it posted, what it received
    request, pc, posted, received

queueVars  == <<queue_tasks, queue_tasks_deferred>>
resultVars == <<queue_multitasks, queue_results>>
mainVars   == <<loop, slots, batch, stopped>>
clientVars == <<request, pc, posted, received, waiting_task_ids>>
vars == <<queueVars, resultVars, mainVars, clientVars>>

-----------------------------------------------------------------------------
(* Tasks and results.                                                      *)

IsCompletion(c) == request[c].type = "completion"
IsMulti(c) == IsCompletion(c) /\ request[c].n_prompts > 1
IsStream(c) == IsCompletion(c) /\ request[c].stream

\* A client's task has the client for its id, its n-th subtask the pair.
SubIds(c) == IF IsMulti(c) THEN {<<c, n>> : n \in 1 .. request[c].n_prompts} ELSE {c}

Callers == DOMAIN request

Ids == UNION {SubIds(c) : c \in Callers}

\* The task with the given id; id_target is the client to cancel.
Task(type, c, id, id_multi) ==
    [type |-> type, client |-> c, id |-> id, id_multi |-> id_multi]

TaskOf(c)      == Task(request[c].type, c, c, None)
SubTask(c, n)  == Task("completion", c, <<c, n>>, c)
CancelTask(c)  == Task("cancel", c, None, None)
NextResponse   == Task("next response", None, None, None)

Result(id, id_multi, kind, n) == [id |-> id, id_multi |-> id_multi, kind |-> kind, n |-> n]

\* server_response::send: a multitask that is waited for takes the result of
\* its subtask, whose id nobody waits for; others are queued when waited for,
\* or dropped.  q is [results, multis].
Send(q, r) ==
    [ results |-> IF r.id \in waiting_task_ids THEN Append(q.results, r) ELSE q.results,
      multis  |->
        IF r.id_multi \notin waiting_task_ids THEN q.multis
        ELSE [i \in DOMAIN q.multis |->
                IF q.multis[i].id # r.id_multi THEN q.multis[i]
                ELSE [q.multis[i] EXCEPT !.remaining = @ \ {r.id},
                                         !.results   = Append(@, r)]] ]

Results == [results |-> queue_results, multis |-> queue_multitasks]

SetResults(q) ==
    /\ queue_results' = q.results
    /\ queue_multitasks' = q.multis

-----------------------------------------------------------------------------
(* Slots.                                                                  *)

IdleSlot ==
    [ state |-> "idle", command |-> "none", id_task |-> None, id_multi |-> None,
      client |-> None, prompt |-> 0, n_decoded |-> 0 ]

Available(s) == slots[s].state = "idle" /\ slots[s].command = "none"

\* A slot that loads a prompt is not released.
Release(slot) ==
    IF slot.state = "processing" THEN [slot EXCEPT !.command = "release"] ELSE slot

SlotResult(slot, kind) == Result(slot.id_task, slot.id_multi, kind, slot.n_decoded)

Init ==
    /\ queue_tasks = <<>> /\ queue_tasks_deferred = <<>> /\ queue_multitasks = <<>>
    /\ waiting_task_ids = {} /\ queue_results = <<>>
    /\ loop = "tasks" /\ slots = [s \in Slots |-> IdleSlot] /\ batch = {} /\ stopped = FALSE
    /\ request \in Requests
    /\ pc = [c \in Callers |-> "start"]
    /\ posted = [c \in Callers |-> 0]
    /\ received = [c \in Callers |-> <<>>]

-----------------------------------------------------------------------------
(* The main thread: tasks.                                                 *)

\* system_prompt_set releases all slots.
SlotsFor(t) ==
    IF request[t.client].system THEN [s \in Slots |-> Release(slots[s])] ELSE slots

Assigned(slot, t) ==
    [slot EXCEPT !.id_task = t.id, !.id_multi = t.id_multi, !.client = t.client]

\* An available slot takes the completion, any of them when none is asked for.
Launch(t, s) ==
    /\ t.type = "completion"
    /\ Available(s)
    /\ request[t.client].id_slot \in {AnySlot, s}
    /\ IF request[t.client].valid
       THEN /\ slots' = [SlotsFor(t) EXCEPT ![s] =
                            [Assigned(@, t) EXCEPT !.command = "load prompt",
                                                   !.prompt  = request[t.client].prompt]]
            /\ UNCHANGED resultVars
       ELSE /\ slots' = [SlotsFor(t) EXCEPT ![s] = Assigned(@, t)]
            /\ SetResults(Send(Results, Result(t.id, t.id_multi, "error", 0)))
    /\ UNCHANGED queue_tasks_deferred

CanLaunch(t) == \E s \in Slots : Available(s) /\ request[t.client].id_slot \in {AnySlot, s}

\* A slot action wants its slot available, too.
Waits(t) ==
    \/ t.type = "completion" /\ ~CanLaunch(t)
    \/ /\ t.type = "slot action"
       /\ request[t.client].id_slot \in Slots
       /\ ~Available(request[t.client].id_slot)

Defer(t) ==
    /\ Waits(t)
    /\ queue_tasks_deferred' = Append(queue_tasks_deferred, t)
    /\ UNCHANGED <<slots, resultVars>>

\* Metrics, LoRA scales and slot actions are answered at once.
Answer(t) ==
    /\ t.type \in {"metrics", "lora", "slot action"}
    /\ ~Waits(t)
    /\ LET wrong == t.type = "slot action" /\ request[t.client].id_slot \notin Slots
       IN  SetResults(Send(Results,
                           Result(t.id, None, IF wrong THEN "error" ELSE "final", 0)))
    /\ UNCHANGED <<slots, queue_tasks_deferred>>

CancelSlot(t) ==
    /\ t.type = "cancel"
    /\ LET mine == {s \in Slots : slots[s].id_task = t.client}
       IN  slots' = IF mine = {} THEN slots
                    ELSE [slots EXCEPT ![Min(mine)] = Release(@)]
    /\ UNCHANGED <<queue_tasks_deferred, resultVars>>

Skip(t) ==
    /\ t.type = "next response"
    /\ UNCHANGED <<slots, queue_tasks_deferred, resultVars>>

ProcessTask ==
    /\ loop = "tasks"
    /\ queue_tasks # <<>>
    /\ LET t == Head(queue_tasks)
       IN  (\E s \in Slots : Launch(t, s)) \/ Defer(t) \/ Answer(t) \/ CancelSlot(t) \/ Skip(t)
    /\ queue_tasks' = Tail(queue_tasks)
    /\ UNCHANGED <<loop, batch, stopped, clientVars>>

TasksDone ==
    /\ loop = "tasks"
    /\ queue_tasks = <<>>
    /\ loop' = "multitasks"
    /\ UNCHANGED <<queueVars, resultVars, slots, batch, stopped, clientVars>>

\* Mutant of Finished: one subtask may remain.
FinishedEarly ==
    {i \in DOMAIN queue_multitasks : Cardinality(queue_multitasks[i].remaining) <= 1}

\* The first multitask without remaining subtasks is answered and removed.
Finished == {i \in DOMAIN queue_multitasks : queue_multitasks[i].remaining = {}}

FinishMultitask ==
    /\ loop = "multitasks"
    /\ Finished # {}
    /\ LET i == Min(Finished)
           q == Send(Results, Result(queue_multitasks[i].id, None, "final", 0))
       IN  SetResults([q EXCEPT !.multis = RemoveAt(@, i)])
    /\ UNCHANGED <<queueVars, mainVars, clientVars>>

MultitasksDone ==
    /\ loop = "multitasks"
    /\ Finished = {}
    /\ loop' = "update"
    /\ UNCHANGED <<queueVars, resultVars, slots, batch, stopped, clientVars>>

-----------------------------------------------------------------------------
(* The main thread: update_slots.                                          *)

Released(ss) ==
    [s \in Slots |-> IF ss[s].command = "release"
                     THEN [ss[s] EXCEPT !.state = "idle", !.command = "none"] ELSE ss[s]]

\* Mutants of Requeued: the deferred tasks stay deferred, too; they are never
\* returned.
RequeuedTwice ==
    [tasks    |-> IF \E s \in Slots : slots[s].command = "release"
                  THEN queue_tasks \o queue_tasks_deferred ELSE queue_tasks,
     deferred |-> queue_tasks_deferred]

RequeuedNever == [tasks |-> queue_tasks, deferred |-> queue_tasks_deferred]

\* A released slot lets the deferred tasks try again.
Requeued ==
    IF \E s \in Slots : slots[s].command = "release"
    THEN [tasks |-> queue_tasks \o queue_tasks_deferred, deferred |-> <<>>]
    ELSE [tasks |-> queue_tasks, deferred |-> queue_tasks_deferred]

AllIdle(ss) == \A s \in Slots : ss[s].state = "idle" /\ ss[s].command = "none"

\* Mutant of UpdateIdle: a task is posted here, too.
UpdateIdleAgain ==
    /\ loop = "update"
    /\ AllIdle(Released(slots))
    /\ slots' = Released(slots)
    /\ queue_tasks' = Append(Requeued.tasks, NextResponse)
    /\ queue_tasks_deferred' = Requeued.deferred
    /\ loop' = "wait"
    /\ UNCHANGED <<resultVars, batch, stopped, clientVars>>

\* No slot is busy: nothing else to do, and the loop will wait for a task.
UpdateIdle ==
    /\ loop = "update"
    /\ AllIdle(Released(slots))
    /\ slots' = Released(slots)
    /\ queue_tasks' = Requeued.tasks
    /\ queue_tasks_deferred' = Requeued.deferred
    /\ loop' = "wait"
    /\ UNCHANGED <<resultVars, batch, stopped, clientVars>>

Generating(ss) == {s \in Slots : ss[s].state = "processing"}

Loading(ss, s) == ss[s].state = "idle" /\ ss[s].command = "load prompt"

\* The tokens in the batch before slot s adds its prompt: one of each generating
\* slot, then the prompts in order, as much of each as there is room for.
TokensBefore(ss) ==
    LET n[s \in 0 .. NSlots] ==
            IF s = 0 THEN Cardinality(Generating(ss))
            ELSE IF Loading(ss, s - 1) /\ n[s - 1] < NBatch
                 THEN Min({NBatch, n[s - 1] + ss[s - 1].prompt})
                 ELSE n[s - 1]
    IN  n

\* Slots are looked at until the batch is full.
Visited(ss, s) == Loading(ss, s) /\ (s = 0 \/ TokensBefore(ss)[s] < NBatch)

\* What becomes of a slot that loads its prompt: an empty one ends at once, one
\* that is complete begins to generate, and others go on in the next turn.
Loaded(ss, s) ==
    LET left == ss[s].prompt - (TokensBefore(ss)[s + 1] - TokensBefore(ss)[s])
    IN  IF ~Visited(ss, s) THEN ss[s]
        ELSE IF ss[s].prompt = 0
             THEN [ss[s] EXCEPT !.state = "processing", !.command = "release"]
        ELSE IF left = 0
             THEN [ss[s] EXCEPT !.state = "processing", !.command = "none",
                                !.prompt = 0, !.n_decoded = 0]
        ELSE [ss[s] EXCEPT !.prompt = left]

\* A result of each slot of S is sent, in order.
SentFor(S, ss, kind) ==
    LET r[s \in 0 .. NSlots] ==
            IF s = 0 THEN Results
            ELSE IF s - 1 \in S THEN Send(r[s - 1], SlotResult(ss[s - 1], kind)) ELSE r[s - 1]
    IN  r[NSlots]

\* Mutant of KeptGoing: no task is posted.
KeptQuiet == Requeued.tasks

\* A task that does nothing but make the loop take its next turn.
KeptGoing == Append(Requeued.tasks, NextResponse)

\* Some slot is busy: a task is posted to keep the loop going, and the batch made.
UpdateBusy ==
    /\ loop = "update"
    /\ \E ss \in {Released(slots)} :
        /\ ~AllIdle(ss)
        /\ slots' = [s \in Slots |-> Loaded(ss, s)]
        /\ LET empty == {s \in Slots : Visited(ss, s) /\ ss[s].prompt = 0}
           IN  SetResults(SentFor(empty, ss, "final"))
        /\ batch' = {s \in Slots : slots'[s].state = "processing" /\ slots'[s].command = "none"}
        /\ loop' = IF TokensBefore(ss)[NSlots] = 0 THEN "wait" ELSE "decode"
    /\ queue_tasks' = KeptGoing
    /\ queue_tasks_deferred' = Requeued.deferred
    /\ UNCHANGED <<stopped, clientVars>>

\* The slot sampled next.  (Chunks of a batch that is decoded in several, after
\* a retry, are taken for one.)
Current == Min(batch)

\* process_token: the token is sent when the request is a stream and it does not
\* end within a character; the slot stops at the budget, or when the model does.
SampleToken ==
    /\ loop = "decode" /\ batch # {} /\ ~stopped
    /\ LET slot == [slots[Current] EXCEPT !.n_decoded = @ + 1]
       IN  /\ slots' = [slots EXCEPT ![Current] = slot]
           /\ \/ IsStream(slot.client) /\ SetResults(Send(Results, SlotResult(slot, "partial")))
              \/ UNCHANGED resultVars
           /\ \/ stopped' = TRUE /\ UNCHANGED batch
              \/ /\ slot.n_decoded < request[slot.client].n_predict
                 /\ batch' = batch \ {Current}
                 /\ UNCHANGED stopped
    /\ UNCHANGED <<queueVars, loop, clientVars>>

\* Mutant of StopSlot: the next slot is taken to have stopped, too.
StopSlotForgets ==
    /\ loop = "decode" /\ stopped
    /\ slots' = [slots EXCEPT ![Current] = Release(@)]
    /\ SetResults(Send(Results, SlotResult(slots[Current], "final")))
    /\ batch' = batch \ {Current}
    /\ UNCHANGED <<stopped, queueVars, loop, clientVars>>

StopSlot ==
    /\ loop = "decode" /\ stopped
    /\ slots' = [slots EXCEPT ![Current] = Release(@)]
    /\ SetResults(Send(Results, SlotResult(slots[Current], "final")))
    /\ batch' = batch \ {Current}
    /\ stopped' = FALSE
    /\ UNCHANGED <<queueVars, loop, clientVars>>

\* llama_decode fails for good, for the rest of the batch or, after some of it
\* was decoded, of a prompt: an error is sent for every slot there is.
DecodeFails ==
    /\ loop = "decode" /\ ~stopped
    /\ \E s \in Slots : /\ s \in batch \/ Loading(slots, s)
                       /\ request[slots[s].client].fills
    /\ slots' = [s \in Slots |->
                    [slots[s] EXCEPT !.state = "processing", !.command = "release"]]
    /\ SetResults(SentFor(Slots, slots, "error"))
    /\ batch' = {}
    /\ loop' = "wait"
    /\ UNCHANGED <<queueVars, stopped, clientVars>>

BatchDone ==
    /\ loop = "decode" /\ batch = {}
    /\ loop' = "wait"
    /\ UNCHANGED <<queueVars, resultVars, slots, batch, stopped, clientVars>>

WakeUp ==
    /\ loop = "wait"
    /\ queue_tasks # <<>>
    /\ loop' = "tasks"
    /\ UNCHANGED <<queueVars, resultVars, slots, batch, stopped, clientVars>>

MainLoop ==
    \/ ProcessTask \/ TasksDone \/ FinishMultitask \/ MultitasksDone
    \/ UpdateIdle \/ UpdateBusy
    \/ SampleToken \/ StopSlot \/ DecodeFails \/ BatchDone \/ WakeUp

-----------------------------------------------------------------------------
(* The clients: the handlers of the HTTP threads.                          *)

At(c, here, there) == pc[c] = here /\ pc' = [pc EXCEPT ![c] = there]

Post(task) == queue_tasks' = Append(queue_tasks, task)

\* Slot actions and LoRA scales get their id from post, so they wait for the
\* result only after the task is in the queue.
PostsFirst(c) == request[c].type \in {"slot action", "lora"}

Register(c) ==
    /\ \/ ~PostsFirst(c) /\ At(c, "start", IF IsMulti(c) THEN "add multitask" ELSE "post")
       \/ PostsFirst(c) /\ At(c, "posted", "recv")
    /\ waiting_task_ids' = waiting_task_ids \cup {c}
    /\ UNCHANGED <<queueVars, resultVars, mainVars, request, posted, received>>

PostTask(c) ==
    /\ \/ At(c, "post", "recv")
       \/ PostsFirst(c) /\ At(c, "start", "posted")
    /\ Post(TaskOf(c))
    /\ UNCHANGED <<queue_tasks_deferred, resultVars, mainVars, request, posted, received,
                   waiting_task_ids>>

AddMultitask(c) ==
    /\ At(c, "add multitask", "post subtasks")
    /\ queue_multitasks' =
            Append(queue_multitasks, [id |-> c, remaining |-> SubIds(c), results |-> <<>>])
    /\ UNCHANGED <<queueVars, queue_results, mainVars, request, posted, received, waiting_task_ids>>

PostSubtask(c) ==
    /\ pc[c] = "post subtasks"
    /\ posted' = [posted EXCEPT ![c] = @ + 1]
    /\ Post(SubTask(c, posted'[c]))
    /\ pc' = IF posted'[c] = request[c].n_prompts THEN [pc EXCEPT ![c] = "recv"] ELSE pc
    /\ UNCHANGED <<queue_tasks_deferred, resultVars, mainVars, request, received, waiting_task_ids>>

\* The results for a client.
ResultsFor(c) == {i \in DOMAIN queue_results : queue_results[i].id = c}

\* Mutant of Taken: the newest result.
TakenLast(c) == Max(ResultsFor(c))

\* recv looks for the result from the front of the queue on.
Taken(c) == Min(ResultsFor(c))

\* recv takes the oldest result of the client.  A stream goes on until its last
\* result, unless the connection breaks when this one is written.
Recv(c) ==
    /\ pc[c] = "recv"
    /\ ResultsFor(c) # {}
    /\ LET r == queue_results[Taken(c)]
       IN  /\ queue_results' = RemoveAt(queue_results, Taken(c))
           /\ received' = [received EXCEPT ![c] = Append(@, r)]
           /\ \/ ~(IsStream(c) /\ r.kind = "partial") /\ At(c, "recv", "leave")
              \/ IsStream(c) /\ r.kind = "partial" /\ UNCHANGED pc
              \/ IsStream(c) /\ request[c].leaves /\ At(c, "recv", "leave")
    /\ UNCHANGED <<queueVars, queue_multitasks, mainVars, request, posted, waiting_task_ids>>

\* The connection of a stream is found broken before anything is written.
BreakEarly(c) ==
    /\ IsStream(c)
    /\ request[c].leaves
    /\ received[c] = <<>>
    /\ At(c, "recv", "cancel")
    /\ UNCHANGED <<queueVars, resultVars, mainVars, request, posted, received, waiting_task_ids>>

Leave(c) ==
    /\ At(c, "leave", IF IsStream(c) THEN "cancel" ELSE "done")
    /\ waiting_task_ids' = waiting_task_ids \ {c}
    /\ UNCHANGED <<queueVars, resultVars, mainVars, request, posted, received>>

\* on_complete: a stream is always cancelled in the end.
Cancel(c) ==
    /\ At(c, "cancel", "done")
    /\ Post(CancelTask(c))
    /\ waiting_task_ids' = waiting_task_ids \ {c}
    /\ UNCHANGED <<queue_tasks_deferred, resultVars, mainVars, request, posted, received>>

Client(c) ==
    \/ Register(c) \/ PostTask(c) \/ AddMultitask(c) \/ PostSubtask(c)
    \/ Recv(c) \/ BreakEarly(c) \/ Leave(c) \/ Cancel(c)

Next == MainLoop \/ \E c \in Callers : Client(c)

Spec == Init /\ [][Next]_vars

\* The operating system runs every thread that can run.
Fairness == WF_vars(MainLoop) /\ \A c \in Clients : WF_vars(c \in Callers /\ Client(c))

FairSpec == Spec /\ Fairness

-----------------------------------------------------------------------------
(* Properties.                                                             *)

TaskIds == Ids \cup Clients \cup {None}

ATask ==
    [ type     : {"completion", "cancel", "next response", "metrics", "lora", "slot action"},
      client   : Clients \cup {None},
      id       : TaskIds,
      id_multi : Clients \cup {None} ]

AResult ==
    [ id : TaskIds, id_multi : Clients \cup {None},
      kind : {"partial", "final", "error"}, n : Nat ]

AMultitask == [id : Clients, remaining : SUBSET Ids, results : Seq(AResult)]

ASlot ==
    [ state : {"idle", "processing"}, command : {"none", "load prompt", "release"},
      id_task : TaskIds, id_multi : Clients \cup {None}, client : Clients \cup {None},
      prompt : Nat, n_decoded : Nat ]

\* The types of the queues and the slots.
TypeOK ==
    /\ queue_tasks \in Seq(ATask) /\ queue_tasks_deferred \in Seq(ATask)
    /\ queue_multitasks \in Seq(AMultitask)
    /\ queue_results \in Seq(AResult) /\ waiting_task_ids \subseteq Clients
    /\ loop \in {"tasks", "multitasks", "update", "decode", "wait"}
    /\ slots \in [Slots -> ASlot]
    /\ batch \subseteq Slots
    /\ stopped => batch # {}

Busy(s) ==
    \/ Loading(slots, s)
    \/ slots[s].state = "processing" /\ slots[s].command = "none"

\* Where the task with an id is: in a queue, or in a slot that works for it.
Places(id) ==
    Cardinality({i \in DOMAIN queue_tasks : queue_tasks[i].id = id})
    + Cardinality({i \in DOMAIN queue_tasks_deferred : queue_tasks_deferred[i].id = id})
    + Cardinality({s \in Slots : Busy(s) /\ slots[s].id_task = id})

\* The last results for it that are on their way to the client.
Answers(c, id) ==
    LET last(rs)  == {i \in DOMAIN rs : rs[i].id = id /\ rs[i].kind # "partial"}
        open      == {i \in DOMAIN queue_multitasks : queue_multitasks[i].id = c}
    IN  IF id = c THEN Cardinality(last(queue_results))
        ELSE IF open # {} THEN Cardinality(last(queue_multitasks[Min(open)].results))
        ELSE Cardinality({i \in DOMAIN queue_results : queue_results[i].id = c})

\* llama_decode can fail for good.
MayFail == \E c \in Callers : IsCompletion(c) /\ request[c].fills

\* No task is lost, run twice or answered twice: while its client waits, it is
\* in exactly one queue or slot, or else it has exactly one last result.  Two
\* cases are known to differ: when llama_decode fails for good, an error is sent
\* in the name of idle slots, too, for tasks they have done; and the result of a
\* task posted by a client that registers afterwards may be dropped.
OneAnswer ==
    \A c \in Callers : pc[c] = "recv" /\ ~MayFail /\ ~PostsFirst(c) =>
        \A id \in SubIds(c) : Places(id) + Answers(c, id) = 1

\* No task is in two places at once, whether anybody waits for it or not.
OnePlace == \A id \in Ids : Places(id) <= 1

\* A result of a stream that may be followed by r: an earlier token.
Before(q, r) == q.kind = "partial" /\ (r.kind = "partial" => q.n < r.n)

\* The tokens of a stream arrive in order and its last result after them: those the
\* client has received first, then those that are queued for it.
StreamInOrder ==
    \A c \in Callers : IsStream(c) /\ ~MayFail =>
        /\ \A i, j \in DOMAIN received[c] : i < j => Before(received[c][i], received[c][j])
        /\ \A j \in ResultsFor(c) :
            /\ \A i \in DOMAIN received[c] : Before(received[c][i], queue_results[j])
            /\ \A i \in ResultsFor(c) : i < j => Before(queue_results[i], queue_results[j])

\* When the main thread sleeps there is nothing to do: every slot is available,
\* and no task was deferred that no slot change would bring back.
NoForgottenWork ==
    loop = "wait" /\ queue_tasks = <<>> =>
        AllIdle(slots) /\ queue_tasks_deferred = <<>>

\* Every request is answered, whatever fails, if its client was registered for
\* the result before it posted the task.
Answered == \A c \in Clients : <>(c \notin Callers \/ PostsFirst(c) \/ pc[c] = "done")

\* So is a request whose handler registers only afterwards: "This function blocks
\* the thread until there is a response for this id_task".
PostedAnswered == \A c \in Clients : <>(c \notin Callers \/ pc[c] = "done")

\* The server comes to rest, and nobody is left who asks.
Settles == <>[](loop = "wait" /\ queue_tasks = <<>>)

=============================================================================
