------------------------------ MODULE MCFatImage ------------------------------
(***************************************************************************)
(* Small disks for FatImage.  As on every disk the tool accepts, the FAT   *)
(* has entries for a few clusters more than there are.                     *)
(***************************************************************************)
EXTENDS FatImage

MCDisks == {48, 52}
\* Less than a cluster, exactly one, and five; the last one does not fit the
\* field for the size.
MCFileSizes == {0, 100, 128, 600}
=============================================================================
