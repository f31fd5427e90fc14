---------------------------- MODULE MCKvSession ----------------------------
(***************************************************************************)
(* KvSession on a cache of a few cells that two sequences share.  Files    *)
(* come from the cache itself, or from a larger one.                       *)
(***************************************************************************)
EXTENDS KvSession

CONSTANTS a

E(p, S) == [tok |-> a, pos |-> p, seqs |-> S]

SessionBatches == { <<E(0, {0, 1})>>, <<E(1, {1}), E(1, {0})>> }

R(p, S) == [pos |-> p, seqs |-> S, tok |-> a, rot |-> p]

\* An empty state, one that does not fit, and a sequence that does not.
Elsewhere == { [whole |-> TRUE, cells |-> <<>>],
               [whole |-> TRUE, cells |-> [n \in 1 .. Size + 1 |-> R(0, {0})]],
               [whole |-> FALSE, cells |-> [n \in 1 .. Size + 1 |-> R(1, {})]] }

AllCircumstances == { {}, {"pending shift"}, {"damaged file", "empty sequence"} }
PendingShift == { {"pending shift"} }

MCDeltas == {-1}
MCDivisors == {}
=============================================================================
