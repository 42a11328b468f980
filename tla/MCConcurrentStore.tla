------------------------- MODULE MCConcurrentStore -------------------------
(***************************************************************************)
(* Instances of ConcurrentStore for TLC.                                   *)
(***************************************************************************)
EXTENDS ConcurrentStore, TLC

\* Two stripes; odd keys hash to the second one.
MCStripeIndexForKey == [k \in Keys |-> 1 + (k % LastStripe)]

\* Lifetimes: none, and one tick.
MCTtls == {Never, 1}

\* The server never passes a TTL.
MCNoTtls == {Never}

CONSTANT t1

\* The calls of each thread: a few of both, or one call next to many.
TwoEach == [t \in Threads |-> 2]

FiveAndOne == [t \in Threads |-> IF t = t1 THEN 5 ELSE 1]

\* Threads and values are interchangeable; keys are ordered and are not.
MCSymmetry == Permutations(Threads) \cup Permutations(Values)

=============================================================================
