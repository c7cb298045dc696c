--------------------------------- MODULE Heap ---------------------------------
(***************************************************************************)
(* What the callers of new and delete get from the kernel: a block is the  *)
(* lowest free pages, all its own, until it is deleted; delete gives back  *)
(* the first page of the block and loses the others.  How the managers     *)
(* keep their lists, tables and ids does not show.                         *)
(***************************************************************************)
EXTENDS LowestPages, FiniteSetsExt

CONSTANTS
  Avail,  \* the pages that are free at first
  Sizes   \* of blocks, in pages

VARIABLES
  free,   \* the pages that are free
  held,   \* the blocks callers hold, each its pages
  down    \* the heap no longer answers

vars == <<free, held, down>>

Init == free = Avail /\ held = {} /\ down = FALSE

New(k) ==
  /\ ~down /\ HasRoom(free, k)
  /\ free' = free \ Lowest(free, k)
  /\ held' = held \union {Lowest(free, k)}
  /\ down' = FALSE

Delete(b) ==
  /\ ~down
  /\ free' = free \union {Min(b)}
  /\ held' = held \ {b}
  /\ down' = FALSE

\* Only a call for all that is left does not return.
Stop ==
  /\ ~down
  /\ \E k \in Sizes : ~HasRoom(free, k)
  /\ free' = {} /\ held' = held
  /\ down' = TRUE

Next ==
  \/ \E k \in Sizes : New(k)
  \/ \E b \in held : Delete(b)
  \/ Stop

Spec == Init /\ [][Next]_vars
=============================================================================
