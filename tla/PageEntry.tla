------------------------------ MODULE PageEntry ------------------------------
(***************************************************************************)
(* The entries of the page directory and the page tables: classes PDTEntry *)
(* and PTEntry of src/src/arch/x86/x86_32 (pdt_entry.cpp, pt_entry.cpp).   *)
(*                                                                         *)
(* A word and an address are the sets of their bits.  |= adds bits, a      *)
(* shift moves them, and a mask or the width of a type keeps some.         *)
(***************************************************************************)
EXTENDS Words

\* The address of a page frame.
Addr(frame) == Shift(BitsOf(frame), 12)

-----------------------------------------------------------------------------
(* PDTEntry *)

\* The constructor: a page of 4 MB has the page size bit.
PDTEntry(ps) == IF ps = "MB" THEN {7} ELSE {}

isMBPage(w) == 7 \in w

PDTBit ==
  [present |-> 0, readWrite |-> 1, user |-> 2, writeThrough |-> 3,
   disableCache |-> 4, accessed |-> 5, dirty |-> 6, global |-> 8,
   pageAttr |-> 12]

\* The Set... functions: three of the bits exist for a 4 MB page only.
PDTSet(w, flag) ==
  IF flag \in {"dirty", "global", "pageAttr"} /\ ~isMBPage(w)
  THEN w
  ELSE w \union {PDTBit[flag]}

\* SetPTAddress: of a 4 MB page, bits 32 to 39 of the address go to bits 13
\* to 20 of the entry; otherwise the entry has the frame of a table.
SetPTAddress(w, addr) ==
  IF isMBPage(w)
  THEN w \union Shift(Field(addr, 32, 39), -19) \union Field(addr, 22, 31)
  ELSE w \union Field(addr, 12, 31)

KERN_PDT == PDTSet(PDTSet(PDTEntry("KB"), "present"), "readWrite")
USER_PDT == PDTSet(KERN_PDT, "user")

-----------------------------------------------------------------------------
(* PTEntry *)

PTBit ==
  [present |-> 0, readWrite |-> 1, user |-> 2, writeThrough |-> 3,
   disableCache |-> 4, accessed |-> 5, dirty |-> 6, pageAttr |-> 7,
   global |-> 8]

PTSet(w, flag) == w \union {PTBit[flag]}

SetPageAddress(w, addr) == w \union Field(addr, 12, 31)

NONPRESENT_PT == {}
KERN_PT == PTSet(PTSet(NONPRESENT_PT, "present"), "readWrite")
USER_PT == PTSet(PTSet(PTSet(NONPRESENT_PT, "present"), "user"), "readWrite")

-----------------------------------------------------------------------------
(* The kernel's unit tests of the two classes, which the words must pass. *)

testPDTEntry ==
  LET addr == Hex(<<11, 0, 0, 11, 5, 5, 5, 5, 5>>)
      large == SetPTAddress(PDTSet(PDTSet(PDTEntry("MB"), "user"),
                                   "pageAttr"), addr)
      small == PDTSet(PDTSet(PDTSet(PDTEntry("KB"), "present"),
                             "readWrite"), "global")
  IN /\ PDTSet(PDTSet(large, "present"), "readWrite")
          = Hex(<<8, 1, 7, 0, 8, 7>>)
     /\ SetPTAddress(small, addr) = Hex(<<11, 5, 5, 0, 0, 3>>)
     /\ SetPTAddress(KERN_PDT, Hex(<<2, 5, 0, 1, 0, 0, 0>>))
          = Hex(<<2, 5, 0, 1, 0, 0, 3>>)
     /\ SetPTAddress(USER_PDT, Hex(<<2, 5, 0, 1, 0, 0, 0>>))
          = Hex(<<2, 5, 0, 1, 0, 0, 7>>)

testPTEntry ==
  LET flags == PTSet(PTSet(PTSet(NONPRESENT_PT, "present"), "user"), "global")
  IN /\ SetPageAddress(flags, Hex(<<11, 0, 0, 11, 5>>))
          = Hex(<<11, 0, 1, 0, 5>>)
     /\ SetPageAddress(NONPRESENT_PT, Hex(<<15, 15, 15, 15, 15, 0, 0, 0>>))
          = Hex(<<15, 15, 15, 15, 15, 0, 0, 0>>)
     /\ SetPageAddress(KERN_PT, Hex(<<2, 5, 0, 1, 0, 0, 0>>))
          = Hex(<<2, 5, 0, 1, 0, 0, 3>>)
     /\ SetPageAddress(USER_PT, Hex(<<2, 5, 0, 1, 0, 0, 0>>))
          = Hex(<<2, 5, 0, 1, 0, 0, 7>>)

ASSUME EncodingsTested == testPDTEntry /\ testPTEntry
=============================================================================
