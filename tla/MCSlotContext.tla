--------------------------- MODULE MCSlotContext ---------------------------
(***************************************************************************)
(* Requests for TLC to check SlotContext with.                             *)
(***************************************************************************)
EXTENDS SlotContext

CONSTANTS tok1, tok2, tok3, tok0

AllTokens == {tok1, tok2, tok3, tok0}
AllSeqs == 0 .. NSlots

Request(prompt, cache_prompt, n_keep, n_predict, p) ==
    [ prompt |-> prompt, cache_prompt |-> cache_prompt, n_keep |-> n_keep,
      n_discard |-> 0, n_predict |-> n_predict, sys |-> p ]

\* A chat, its continuation, a long prompt that is cut and not kept, an empty
\* one, one as long as the context allows, and one with a system prompt.
Chat      == Request(<<tok1, tok2>>, TRUE, 0, 5, {})
Continued == Request(<<tok1, tok3, tok3, tok2>>, TRUE, 1, 1, {})
Long      == Request(<<tok1, tok2, tok1, tok1, tok2, tok2, tok1>>, FALSE, 1, 1, {})
Empty     == Request(<<>>, TRUE, 0, 1, {})
Full      == Request(<<tok2, tok1, tok2, tok1, tok2>>, TRUE, -1, 1, {})
Prompted  == Request(<<tok2>>, TRUE, 0, 1, {<<tok1>>})

\* Requests that generate past the context and say how much a context shift
\* discards: one of five tokens; four of five, all that are not kept; five of five,
\* the kept ones, too; six; six without cache_tokens; and a negative number.
Discarding(cache_prompt, n) ==
    [Request(<<tok1, tok2, tok1, tok2>>, cache_prompt, 0, 4, {}) EXCEPT !.n_discard = n]

OwnDiscards ==
    { Discarding(TRUE, 1), Discarding(TRUE, 4), Discarding(TRUE, 5), Discarding(TRUE, 6),
      Discarding(FALSE, 6), Discarding(TRUE, -1) }

\* With a system prompt of two tokens: three of three tokens, two of these kept.
DiscardsAll ==
    [Request(<<tok2, tok1>>, TRUE, 2, 4, {}) EXCEPT !.n_discard = 3]

Scene(p, requests, tasks, actions) ==
    [sys |-> p, requests |-> requests, tasks |-> tasks, actions |-> actions]

AllScenes ==
    { Scene(<<>>, {Chat, Continued, Long, Full}, 3, 0),
      Scene(<<>>, {Chat, Full}, 2, 3),
      Scene(<<tok1, tok2>>, {Full, Prompted}, 2, 3),
      Scene(<<tok1>>, {Chat, Empty, Prompted}, 3, 0),
      Scene(<<>>, OwnDiscards, 2, 0),
      Scene(<<tok1, tok2>>, {DiscardsAll, Prompted}, 2, 0) }

OnlyTok3 == {tok3}

=============================================================================
