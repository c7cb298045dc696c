------------------------------ MODULE MCPhysMem ------------------------------
(***************************************************************************)
(* Small memories for PhysMem.  The boot maps have the shape of a PC's: a  *)
(* little RAM below the legacy hole, the hole, an ACPI table, then RAM.    *)
(***************************************************************************)
EXTENDS PhysMem

\* RAM cut in two by a firmware table; the first page goes to the kernel.
MCBootMap ==
  [p \in Page |->
     CASE p = 1 -> "reserved"
       [] p = 5 -> "acpiReclaim"
       [] OTHER -> "usable"]

MCRequests == {0, 1, 4096, 4097, 12288}
MCShort == {1, 4097}
=============================================================================
