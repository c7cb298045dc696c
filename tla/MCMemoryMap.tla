----------------------------- MODULE MCMemoryMap -----------------------------
(***************************************************************************)
(* Small boot maps for MemoryMap: the kernel's addresses are eight pages   *)
(* of four units.                                                          *)
(***************************************************************************)
EXTENDS MemoryMap

\* A region that overlaps the one before, one that follows it, and holes
\* of less than a page and of a page.
MCGaps == {-2, 0, 2, 4}
\* No size, less than a page, one and a half, two.
MCSizes == {0, 2, 6, 8}
MCStates == {usable, reserved, 3}
=============================================================================
