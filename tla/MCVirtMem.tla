------------------------------ MODULE MCVirtMem ------------------------------
(***************************************************************************)
(* A small machine for VirtMem: page 0 for the kernel, a hole with video   *)
(* memory, four pages of RAM below the tables, five for them, and a device *)
(* page that is not RAM.  Uncleared memory holds zeros, or user entries    *)
(* for a page that is handed out.                                          *)
(***************************************************************************)
EXTENDS VirtMem

MCBootMap ==
  [p \in Page |-> IF p \in {1, 11} THEN "reserved" ELSE "usable"]
MCRequests == {PAGE_SIZE_BYTES}
MCDevice == {11}
MCSizes == {1, 2}
MCTested == 0 .. 10
MCLeftover == {{}, {0, 1, 2} \union Addr(3)}
=============================================================================
