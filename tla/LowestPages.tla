------------------------------ MODULE LowestPages ------------------------------
(***************************************************************************)
(* What operator new does with the pages that are free, as Heap states it  *)
(* and KStdLib uses it: it takes the lowest, wherever they lie.            *)
(***************************************************************************)
EXTENDS Integers, FiniteSets

\* The call that takes the last page does not return.
HasRoom(free, k) == Cardinality(free) > k

Lowest(free, k) ==
  CHOOSE S \in SUBSET free :
    /\ Cardinality(S) = k
    /\ \A p \in S, q \in free \ S : p < q
=============================================================================
