---------------------------- MODULE PageAllocator ----------------------------
(***************************************************************************)
(* What the physical memory manager promises its callers, whatever the     *)
(* search it uses: a request is answered with a run of consecutive pages   *)
(* nobody holds, a free gives back exactly the run that was handed out,    *)
(* and pages outside the allocatable set are never handed out.  The        *)
(* manager may stop for good (a panic or an endless search) at any time,   *)
(* and then nothing changes hands any more.                                *)
(***************************************************************************)
EXTENDS Integers

CONSTANTS
  Page,   \* page numbers, in address order
  Avail   \* the pages that may be handed out

VARIABLES
  owned,  \* the runs callers hold: records [first, last]
  down    \* the manager no longer answers

vars == <<owned, down>>

Held == UNION {b.first .. b.last : b \in owned}

Init ==
  /\ owned = {}
  /\ down = FALSE

Grab(first, last) ==
  /\ ~down
  /\ first <= last
  /\ first .. last \subseteq Avail \ Held
  /\ owned' = owned \union {[first |-> first, last |-> last]}
  /\ down' = FALSE

Release(b) ==
  /\ ~down
  /\ owned' = owned \ {b}
  /\ down' = FALSE

Stop ==
  /\ ~down
  /\ down' = TRUE
  /\ owned' = owned

Next ==
  \/ \E first, last \in Page : Grab(first, last)
  \/ \E b \in owned : Release(b)
  \/ Stop

Spec == Init /\ [][Next]_vars
=============================================================================
