---------------------------- MODULE MCTaskServer ----------------------------
(***************************************************************************)
(* TaskServer with two or three clients that want slots at the same time.  *)
(***************************************************************************)
EXTENDS TaskServer

CONSTANTS c1, c2, c3

Simple ==
    [ type |-> "completion", n_prompts |-> 1, prompt |-> 1, n_predict |-> 1,
      stream |-> FALSE, leaves |-> FALSE, valid |-> TRUE, fills |-> FALSE,
      system |-> FALSE, id_slot |-> 0 ]

Anywhere(r) == [r EXCEPT !.id_slot = AnySlot]

Multi   == Anywhere([Simple EXCEPT !.n_prompts = 2])
Stream  == [Simple EXCEPT !.stream = TRUE, !.n_predict = 2]
Leaves  == [Stream EXCEPT !.leaves = TRUE]
Invalid == [Simple EXCEPT !.valid = FALSE]
Empty   == [Simple EXCEPT !.prompt = 0]
System  == [Simple EXCEPT !.system = TRUE, !.n_predict = 2]

Ask(type, s) == [type |-> type, id_slot |-> s]

Two(x, y)      == c1 :> x @@ c2 :> y
Three(x, y, z) == Two(x, y) @@ c3 :> z

Scenarios ==
    { \* more tasks than slots, and a prompt longer than a batch
      Two(Multi, [Stream EXCEPT !.prompt = 3]),
      \* a stream that breaks off, in front of others for the same slot
      Three(Leaves, Invalid, Simple),
      \* a batch that cannot be decoded, an empty prompt
      Two(Empty, [Multi EXCEPT !.fills = TRUE]),
      \* a slot action, LoRA scales and a new system prompt
      Three(Ask("slot action", 0), System, Ask("lora", AnySlot)),
      \* a slot that does not exist, metrics
      Two(Ask("slot action", NSlots), Ask("metrics", AnySlot)) }

\* What the server does not live up to: a slot action is answered before its
\* client is registered, and a new system prompt ends what other slots do.
Erasing   == { Two(Ask("slot action", 0), Simple) }
Replacing == { Two([Simple EXCEPT !.n_predict = 2], [System EXCEPT !.id_slot = 1]) }
=============================================================================
