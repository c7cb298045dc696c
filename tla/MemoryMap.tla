------------------------------ MODULE MemoryMap ------------------------------
(***************************************************************************)
(* The boot memory map: func_DiscoverMemory of the early loader            *)
(* (src/boot/earlyloader/memory.asm) has the BIOS write one descriptor     *)
(* per region into a table, and the constructor of Memory                  *)
(* (src/src/arch/x86/x86_32/memory.cpp) turns the table into the list of   *)
(* pages that PhysMem starts from.                                         *)
(*                                                                         *)
(* Addresses are in units smaller than a page.  A word of the table holds  *)
(* numbers below WORD, an address of the 32-bit kernel is a word, and the  *)
(* 64-bit numbers the constructor computes with are two.  table is the     *)
(* memory the descriptors are in; the BIOS writes entryWords words each    *)
(* time, and the constructor reads five at a time.                         *)
(***************************************************************************)
EXTENDS Integers, Sequences, FiniteSets

CONSTANTS
  WORD,            \* 2^32, in units
  PAGE_SIZE_BYTES, \* in units
  KERNEL_MEMORY_REGION_SIZE_BYTES, \* in units
  EntryWords,      \* the lengths of a descriptor BIOSes write, in words
  Gaps,            \* how far a region may start from the last one's end
  Sizes,           \* the sizes a region may have
  States,          \* the types a region may have
  TestedBytes,     \* what testVirtualMemory looks up, 16 MB, in units
  MaxRegions,      \* bound: regions the BIOS reports
  ListRoom         \* bound: a list longer than this is followed no further

usable == 1
reserved == 2
KERN == 6

ASSUME WordAssumption == WORD \in Nat /\ PAGE_SIZE_BYTES \in 1 .. (WORD - 1)
ASSUME KernelSizeAssumption ==
  /\ KERNEL_MEMORY_REGION_SIZE_BYTES \in Nat \ {0}
  /\ KERNEL_MEMORY_REGION_SIZE_BYTES % PAGE_SIZE_BYTES = 0
ASSUME EntryWordsAssumption == EntryWords \subseteq {5, 6}
ASSUME BiosAssumption ==
  /\ Gaps \subseteq Int /\ Sizes \subseteq Nat
  /\ States \subseteq (1 .. 5) /\ reserved \in States
  /\ MaxRegions \in Nat \ {0} /\ TestedBytes \in Nat
\* There is room for the pages of a whole address space.
ASSUME RoomAssumption ==
  ListRoom \in Nat /\ ListRoom * PAGE_SIZE_BYTES >= WORD

VARIABLES
  status,          \* the next step, or how the boot stopped
  entryWords,      \* the BIOS: the length of its descriptors
  regions,         \* the BIOS: the regions it reported, [base, size, state]
  table,           \* the words of the table
  memRegionsCount, \* the descriptors the loader counted
  bootMemRegionsCount, \* the descriptor the constructor is at
  prevRegionEndAddr,   \* where the region before it ended
  pages,           \* the list: records [base, state, region]
  freePagePtr      \* the index of the first usable page, or 0

loaderVars == <<entryWords, regions, table, memRegionsCount>>
listVars == <<bootMemRegionsCount, prevRegionEndAddr, pages, freePagePtr>>
vars == <<status, loaderVars, listVars>>

Stopped == {"bootFailure", "runaway", "wild", "panicked", "hung", "booted"}

Init ==
  /\ status = "discover"
  /\ entryWords \in EntryWords
  /\ regions = <<>>
  /\ table = <<>>
  /\ memRegionsCount = 0
  /\ bootMemRegionsCount = 0
  /\ prevRegionEndAddr = 0
  /\ pages = <<>>
  /\ freePagePtr = 0

-----------------------------------------------------------------------------
(* The early loader *)

RegionEnd(r) == r.base + r.size

LastEnd ==
  IF regions = <<>> THEN 0 ELSE RegionEnd(regions[Len(regions)])

\* The regions a BIOS may report next; they start at an address.
NextRegions ==
  {r \in [base : {LastEnd + g : g \in Gaps}, size : Sizes, state : States] :
     r.base >= 0}

\* A descriptor: base and size in two words each, the type, and the
\* attributes when the BIOS writes those too.
Descriptor(r) ==
  LET five == <<r.base % WORD, r.base \div WORD,
                r.size % WORD, r.size \div WORD, r.state>>
  IN  IF entryWords = 6 THEN Append(five, 1) ELSE five

\* int 15h answers: the descriptor is at es:di, and bx is 0 after the last.
Discovered(r, more) ==
  /\ regions' = Append(regions, r)
  /\ table' = table \o Descriptor(r)
  /\ status' = IF more THEN "discover" ELSE "build"

\* One turn of NextEntry.  The count is incremented before the call; an
\* error, which some BIOSes report in place of a last entry, ends the boot.
NextEntry ==
  /\ status = "discover"
  /\ memRegionsCount' = memRegionsCount + 1
  /\ \/ \E r \in NextRegions, more \in BOOLEAN :
          /\ more => memRegionsCount' < MaxRegions
          /\ Discovered(r, more)
     \/ /\ status' = "bootFailure"
        /\ UNCHANGED <<regions, table>>
  /\ UNCHANGED <<entryWords, listVars>>

-----------------------------------------------------------------------------
(* The constructor of Memory *)

Word(i) == table[i + 1]

Word64(i) == Word(i) + WORD * Word(i + 1)

Add64(a, b) == (a + b) % (WORD * WORD)

\* The descriptor read at a stride of five words, whatever the BIOS wrote.
Entry(k) ==
  [base  |-> Word64(5 * k), size |-> Word64(5 * k + 2),
   state |-> Word(5 * k + 4)]

PageRecord(e, i, st, id) ==
  [base   |-> (e.base + i * PAGE_SIZE_BYTES) % WORD,
   state  |-> st,
   region |-> id]

\* Mutant: a rest smaller than a page is a page of the region's state.
SplitRegionRestUsable(e, id) ==
  [i \in 1 .. ((e.size + PAGE_SIZE_BYTES - 1) \div PAGE_SIZE_BYTES) |->
     PageRecord(e, i - 1, e.state, id)]

\* splitRegion: the whole pages of a region, and a reserved one for the rest.
SplitRegion(e, id) ==
  LET whole == e.size \div PAGE_SIZE_BYTES
      rest  == IF e.size % PAGE_SIZE_BYTES # 0 THEN 1 ELSE 0
  IN  [i \in 1 .. (whole + rest) |->
         PageRecord(e, i - 1, IF i <= whole THEN e.state ELSE reserved, id)]

\* The constructor appends the pages of e.  Nothing bounds the list: one too
\* long runs over whatever is behind it, and is not followed.
AppendPages(e, done) ==
  IF Len(pages) + e.size \div PAGE_SIZE_BYTES > ListRoom
  THEN /\ status' = "runaway"
       /\ UNCHANGED pages
  ELSE /\ pages' = pages \o SplitRegion(e, bootMemRegionsCount)
       /\ status' = IF done THEN "test" ELSE "build"

\* Mutant: the end of the hole is not remembered as the region's start.
MarkHoleForgetting(e) ==
  LET hole == [base  |-> prevRegionEndAddr,
               size  |-> (e.base - prevRegionEndAddr) % (WORD * WORD),
               state |-> reserved]
  IN  /\ AppendPages(hole, FALSE)
      /\ prevRegionEndAddr' = Add64(e.base, e.size)
      /\ UNCHANGED bootMemRegionsCount

\* The region does not start where the last one ended: the addresses between
\* become reserved pages, and the same descriptor is read again.  For a
\* region that starts below that end the size is a huge unsigned number.
MarkHole(e) ==
  LET hole == [base  |-> prevRegionEndAddr,
               size  |-> (e.base - prevRegionEndAddr) % (WORD * WORD),
               state |-> reserved]
  IN  /\ AppendPages(hole, FALSE)
      /\ prevRegionEndAddr' = Add64(hole.base, hole.size)
      /\ UNCHANGED bootMemRegionsCount

AddRegion(e) ==
  /\ AppendPages(e, bootMemRegionsCount + 1 = memRegionsCount)
  /\ prevRegionEndAddr' = Add64(e.base, e.size)
  /\ bootMemRegionsCount' = bootMemRegionsCount + 1

\* An empty region ends the loop.
StopAtEmpty(e) ==
  /\ status' = "test"
  /\ prevRegionEndAddr' = e.base
  /\ UNCHANGED <<bootMemRegionsCount, pages>>

\* One turn of the constructor's loop.
ReadRegion ==
  /\ status = "build"
  /\ LET e == Entry(bootMemRegionsCount) IN
       \/ e.size # 0 /\ prevRegionEndAddr # e.base /\ MarkHole(e)
       \/ e.size # 0 /\ prevRegionEndAddr = e.base /\ AddRegion(e)
       \/ e.size = 0 /\ StopAtEmpty(e)
  /\ UNCHANGED <<loaderVars, freePagePtr>>

\* The self test for overlaps: no page starts above the end of the last one.
LastSeenAddr(i) ==
  IF i = 1 THEN 0 ELSE (pages[i - 1].base + PAGE_SIZE_BYTES) % WORD

GapSeen == \E i \in DOMAIN pages : pages[i].base > LastSeenAddr(i)

\* The self test for order: the difference of two pointers is a signed word.
PtrDiff(a, b) ==
  LET d == (a - b) % WORD IN IF 2 * d < WORD THEN d ELSE d - WORD

NotSorted ==
  \E i \in DOMAIN pages \ {1} :
    PtrDiff(pages[i].base, pages[i - 1].base) > PAGE_SIZE_BYTES

\* The self tests.  With no page at all they follow a next pointer that
\* nobody wrote.
SelfTests ==
  /\ status = "test"
  /\ status' = IF pages = <<>> THEN "wild"
               ELSE IF GapSeen \/ NotSorted THEN "panicked" ELSE "reserve"
  /\ UNCHANGED <<loaderVars, listVars>>

\* The pages reserverKernelMemory marks, from the head on: those that are
\* not reserved, until they are KERNEL_MEMORY_REGION_SIZE_BYTES.
KernelPages ==
  LET Free(k) == {i \in 1 .. k : pages[i].state # reserved}
      Bytes(S) == Cardinality(S) * PAGE_SIZE_BYTES
  IN  {i \in Free(Len(pages)) :
         Bytes(Free(i - 1)) < KERNEL_MEMORY_REGION_SIZE_BYTES}

\* reserverKernelMemory.  With too little memory it walks off the list.
ReserveKernelMemory ==
  /\ status = "reserve"
  /\ IF Cardinality(KernelPages) * PAGE_SIZE_BYTES
          >= KERNEL_MEMORY_REGION_SIZE_BYTES
     THEN /\ pages' = [i \in DOMAIN pages |->
                         IF i \in KernelPages
                         THEN [pages[i] EXCEPT !.state = KERN]
                         ELSE pages[i]]
          /\ status' = "point"
     ELSE /\ status' = "wild"
          /\ UNCHANGED pages
  /\ UNCHANGED <<loaderVars, bootMemRegionsCount, prevRegionEndAddr,
                 freePagePtr>>

\* setupFreePagePtr, which walks off a list with no usable page too.
SetupFreePagePtr ==
  /\ status = "point"
  /\ \/ \E i \in DOMAIN pages :
          /\ pages[i].state = usable
          /\ \A j \in 1 .. (i - 1) : pages[j].state # usable
          /\ freePagePtr' = i
          /\ status' = "ready"
     \/ /\ \A i \in DOMAIN pages : pages[i].state # usable
        /\ status' = "wild"
        /\ UNCHANGED freePagePtr
  /\ UNCHANGED <<loaderVars, bootMemRegionsCount, prevRegionEndAddr, pages>>

-----------------------------------------------------------------------------
(* The look-ups of the virtual manager *)

NotFound == -1

PageAligned(addr) == addr - (addr % PAGE_SIZE_BYTES)

\* Mutant: the page in the middle is left out of the half on its left.
GetPageAtSkipsMiddle(addr) ==
  LET base == PageAligned(addr)
      search[b \in (0 .. Len(pages)) \X (0 .. Len(pages))] ==
        LET l == b[1]  r == b[2]  mid == l + (r - l) \div 2 IN
        IF l >= r \/ pages[mid + 1].base = base THEN mid + 1
        ELSE IF pages[mid + 1].base <= base
             THEN IF mid = l THEN NotFound ELSE search[<<mid, r>>]
             ELSE search[<<l, IF mid = 0 THEN 0 ELSE mid - 1>>]
  IN  search[<<0, Len(pages)>>]

\* GetPageAt: the index of the page at an address.  Its binary search goes
\* round for ever when it has come to two neighbours, neither the page.
GetPageAt(addr) ==
  LET base == PageAligned(addr)
      search[b \in (0 .. Len(pages)) \X (0 .. Len(pages))] ==
        LET l == b[1]  r == b[2]  mid == l + (r - l) \div 2 IN
        IF l >= r \/ pages[mid + 1].base = base THEN mid + 1
        ELSE IF pages[mid + 1].base <= base
             THEN IF mid = l THEN NotFound ELSE search[<<mid, r>>]
             ELSE search[<<l, mid>>]
  IN  search[<<0, Len(pages)>>]

\* testVirtualMemory asks for the page of every address it tests before it
\* looks whether the page is usable; what it tests of it is in VirtMem.
TestVirtualMemory ==
  /\ status = "ready"
  /\ status' = IF \E u \in 0 .. (TestedBytes - 1) : GetPageAt(u) = NotFound
               THEN "hung" ELSE "booted"
  /\ UNCHANGED <<loaderVars, listVars>>

Next ==
  \/ NextEntry
  \/ ReadRegion
  \/ SelfTests
  \/ ReserveKernelMemory
  \/ SetupFreePagePtr
  \/ TestVirtualMemory

Spec == Init /\ [][Next]_vars

-----------------------------------------------------------------------------
(* Properties *)

\* Maps the constructor is written for: descriptors of five words, regions
\* of some size in order, without overlaps, below the end of the addresses.
InOrder ==
  /\ entryWords = 5
  /\ \A k \in DOMAIN regions :
       /\ regions[k].size # 0
       /\ RegionEnd(regions[k]) <= WORD
       /\ k > 1 => regions[k].base >= RegionEnd(regions[k - 1])

\* Maps whose regions also start and end at pages.
Aligned ==
  \A k \in DOMAIN regions :
    /\ regions[k].base % PAGE_SIZE_BYTES = 0
    /\ regions[k].size % PAGE_SIZE_BYTES = 0

PageUnits(i) == pages[i].base .. (pages[i].base + PAGE_SIZE_BYTES - 1)

RegionUnits(k) == regions[k].base .. (RegionEnd(regions[k]) - 1)

\* On a map in order no page is called usable unless all of it is RAM the
\* BIOS reported: not a hole, not the rest of a region, not a neighbour.
UsableIsRam ==
  \A i \in DOMAIN pages : pages[i].state = usable =>
    \E k \in DOMAIN regions :
      regions[k].state = usable /\ PageUnits(i) \subseteq RegionUnits(k)

\* On a map in order the list has a page for every address up to the end of
\* the last region: holes and rests are marked, and no memory is forgotten.
ListCovers ==
  \A u \in 0 .. (LastEnd - 1) : \E i \in DOMAIN pages : u \in PageUnits(i)

\* The list is a map of the machine: both, on a map in order.  (That no
\* address is in two pages is not true of the code: the page for the rest of
\* a region overlaps the first of the next one, and the self tests pass.)
ListIsMap == (InOrder /\ status = "ready") => UsableIsRam /\ ListCovers

\* A map in order whose regions start and end at pages boots whenever there
\* is a page more than the kernel takes and the map reaches as far as the
\* self test of paging looks; and then the list is what PhysMem assumes:
\* page i is at address i pages, so that an index is an address.
AlignedMapBoots ==
  (InOrder /\ Aligned /\ status \in Stopped \ {"bootFailure"}) =>
    /\ \A i \in DOMAIN pages : pages[i].base = (i - 1) * PAGE_SIZE_BYTES
    /\ \/ status = "booted"
       \/ status = "hung" /\ LastEnd < TestedBytes
       \/ \A k \in DOMAIN regions : regions[k].state = usable =>
            RegionEnd(regions[k]) - regions[k].base <=
              KERNEL_MEMORY_REGION_SIZE_BYTES

\* On a map in order GetPageAt finds the page of every address that has one
\* and none for the others, whatever rests and holes are in the list.  It
\* looks for a page that starts at the page boundary below the address.
SearchFinds ==
  (InOrder /\ status = "ready") =>
    \A u \in 0 .. (WORD - 1) :
      LET p == GetPageAt(u) IN
      IF \E i \in DOMAIN pages : pages[i].base = PageAligned(u)
      THEN p # NotFound /\ pages[p].base = PageAligned(u)
      ELSE p = NotFound
=============================================================================
