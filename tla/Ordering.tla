------------------------------- MODULE Ordering --------------------------------
(***************************************************************************)
(* Sorting, as the modules use it: a finite set in the order of a relation *)
(* that is a strict total order on it.  An element's place is the number   *)
(* of those before it, which is a definition that the proofs can reason    *)
(* about (SequenceFacts, InOrderSorts).                                    *)
(***************************************************************************)
EXTENDS Integers, Sequences, FiniteSets

\* The pairs <<x, y>> in R have x before y.
Place(x, S, R) == Cardinality({y \in S : <<y, x>> \in R}) + 1

InOrder(S, R) == [k \in 1..Cardinality(S) |-> CHOOSE x \in S : Place(x, S, R) = k]

\* The numbers in S, from the lowest to the highest.
Ascending(S) == InOrder(S, {pair \in S \X S : pair[1] < pair[2]})

\* What stands at the places in S of a sequence, in its order.
AtPlaces(s, S) == LET places == Ascending(S) IN [k \in DOMAIN places |-> s[places[k]]]

=============================================================================
