------------------------------- MODULE VirtMem -------------------------------
(***************************************************************************)
(* The virtual memory manager: class VirtualMemory of                      *)
(* src/src/arch/x86/x86_32/vmm.cpp, over the physical manager of PhysMem.  *)
(* new and delete call it (kstdlib/global_operators.cpp).                  *)
(*                                                                         *)
(* The page directory and its tables are words in memory, at frames of     *)
(* their own; the words are those of PageEntry.  A directory and a table   *)
(* have ENTRIES_COUNT words and fill a frame, 1024 in the code.  A virtual *)
(* page is its number.  The TLB is one arbitrary translation: what it may  *)
(* hold stale is a question about one at a time.                           *)
(*                                                                         *)
(* held is a history variable: the blocks callers of Allocate hold, each   *)
(* the sequence of pages allocated for it, in order.                       *)
(***************************************************************************)
EXTENDS PhysMem, PageEntry, Sequences

CONSTANTS
  ENTRIES_COUNT,
  PDTAddress, PTAddress, \* the frames of the directory and the first table
  TestedPages, \* the pages testVirtualMemory looks at
  Leftover,    \* words uncleared memory may hold
  VideoPage,   \* 0xb8000, mapped for the kernel by mapSystemMemory
  Device,      \* pages of device registers that drivers map and unmap
  Sizes,       \* block sizes callers ask for, in pages
  MaxHeld,     \* bound: callers never hold more pages than this
  MaxUsed      \* bound: so many pages are handed out and not given back

VPage == 0 .. (ENTRIES_COUNT * ENTRIES_COUNT - 1)

TableFrames == {PDTAddress} \union (PTAddress .. (PTAddress + ENTRIES_COUNT - 1))

ASSUME TablesAssumption ==
  /\ ENTRIES_COUNT \in 1 .. 1024 \* a frame number has 20 bits in an entry
  /\ PDTAddress \in Nat /\ PTAddress \in Nat
  /\ PDTAddress \notin PTAddress .. (PTAddress + ENTRIES_COUNT - 1)
  /\ Page \subseteq VPage /\ TableFrames \subseteq Page
  /\ Leftover \subseteq SUBSET (0 .. 31)

ASSUME VirtAssumption ==
  /\ VideoPage \in Page
  /\ Device \subseteq {p \in Page \ {0} : BootState[p] # "usable"}
  /\ PAGE_SIZE_BYTES \in Requests
  /\ Sizes \subseteq Nat \ {0} /\ MaxHeld \in Nat /\ MaxUsed \in Nat
\* GetPageAt does not return for a page that is not in the list (MemoryMap).
ASSUME TestAssumption == TestedPages \subseteq Page

VARIABLES
  vstatus, \* the step of initializeMemory, or running
  at,      \* the entry or page its loops are at
  mem,     \* the words of the tables, frame by frame
  tlb,     \* a cached translation, or NoEntry
  left,    \* pages the Allocate in progress still has to get
  got,     \* the pages it got
  held     \* history: the blocks callers hold

bootVars == <<vstatus, at>>
vvars == <<bootVars, mem, tlb, left, got, held>>

NoEntry == [page |-> -1]

-----------------------------------------------------------------------------
(* The tables *)

\* The address bits an entry for a frame has, and the frame of an entry: the
\* one that gives it its address bits.
AddressBits == [frame \in VPage |-> Field(Addr(frame), 12, 31)]
FrameOf(w) == CHOOSE frame \in VPage : AddressBits[frame] = Field(w, 12, 31)

DirEntry(v) == mem[PDTAddress][v \div ENTRIES_COUNT]

TableOf(v) == FrameOf(DirEntry(v))

\* GetPageEntry.
GetPageEntry(v) == mem[TableOf(v)][v % ENTRIES_COUNT]

\* virtualToPhysicalAddr.
Translate(v) == FrameOf(GetPageEntry(v))

\* What the processor makes of both words; nothing when one is not present.
Walk(v) ==
  LET d == DirEntry(v)
      e == GetPageEntry(v)
  IN  [page |-> v, present |-> 0 \in d \intersect e, frame |-> FrameOf(e),
       write |-> 1 \in d \intersect e, user |-> 2 \in d \intersect e]

VMM_KERN == {0}
VMM_UNMAP == {}

\* Mutant: VMM_UNMAP is tested first, as an equality.
createPTEntryUnmaps(frame, flags) ==
  IF flags = VMM_UNMAP THEN NONPRESENT_PT
  ELSE SetPageAddress(KERN_PT, Addr(frame))

\* createPTEntry: the test of VMM_UNMAP, which is no bit, never holds, and
\* every entry it writes is present.
createPTEntry(frame, flags) ==
  IF flags \intersect VMM_KERN # {} THEN SetPageAddress(KERN_PT, Addr(frame))
  ELSE IF flags \intersect VMM_UNMAP # {} THEN SetPageAddress(NONPRESENT_PT, {})
  ELSE SetPageAddress(USER_PT, Addr(frame))

\* The table entry of v is written through the directory.
WriteEntry(m, v, word) == [m EXCEPT ![TableOf(v)][v % ENTRIES_COUNT] = word]

\* map: once paging is on the TLB is flushed.
map(v, frame, flags) ==
  /\ mem' = WriteEntry(mem, v, createPTEntry(frame, flags))
  /\ tlb' = NoEntry

\* unmap writes the entry and leaves the TLB alone.
unmap(v) == mem' = WriteEntry(mem, v, createPTEntry(0, VMM_UNMAP))

-----------------------------------------------------------------------------
(* initializeMemory *)

\* Nobody cleared the memory the tables are in.
VInit ==
  /\ Init
  /\ vstatus = "directory" /\ at = 0
  /\ \E w \in Leftover :
       mem = [f \in TableFrames |-> [i \in 0 .. (ENTRIES_COUNT - 1) |-> w]]
  /\ tlb = NoEntry
  /\ left = 0 /\ got = << >> /\ held = {}

\* A loop goes on to next, or to the step after it.
Turn(next, end, after) ==
  IF next < end
  THEN at' = next /\ vstatus' = vstatus
  ELSE at' = 0 /\ vstatus' = after

\* setupPageDirectoryTable, an entry at a time, with createPDTEntry.
SetupPageDirectoryTable ==
  /\ vstatus = "directory"
  /\ mem' = [mem EXCEPT ![PDTAddress][at] =
                          SetPTAddress(KERN_PDT, Addr(PTAddress + at))]
  /\ Turn(at + 1, ENTRIES_COUNT, "map")
  /\ UNCHANGED <<tlb, left, got, held, vars>>

\* mapSystemMemory: the physical list one to one, the usable pages for the
\* kernel, and then video memory.
MapSystemMemory ==
  \/ /\ vstatus = "map"
     /\ map(at, at, IF state[at] = "usable" THEN VMM_KERN ELSE VMM_UNMAP)
     /\ Turn(at + 1, N, "video")
     /\ UNCHANGED <<left, got, held, vars>>
  \/ /\ vstatus = "video"
     /\ map(VideoPage, VideoPage, VMM_KERN)
     /\ vstatus' = "test"
     /\ UNCHANGED <<at, left, got, held, vars>>

\* testAddrTranslation of every usable page: it must lead to itself.
TestPasses ==
  \A p \in TestedPages : state[p] = "usable" => Translate(p) = p

\* enablePaging, after the self test.
EnablePaging ==
  /\ vstatus = "test"
  /\ vstatus' = IF TestPasses THEN "running" ELSE "panicked"
  /\ UNCHANGED <<at, mem, tlb, left, got, held, vars>>

-----------------------------------------------------------------------------
(* Allocate and Free *)

Pages(b) == {b[i] : i \in DOMAIN b}

HeldPages == UNION {Pages(b) : b \in held \union {got}}

Idle == vstatus = "running" /\ status = "running" /\ left = 0

\* Allocate(size) for a block of k pages.  It asks for them one by one, and
\* each is an allocation of its own to the physical manager.
VAllocate(k) ==
  /\ Idle
  /\ nextAllocID + k <= MaxAllocID
  /\ Cardinality(HeldPages) + k <= MaxHeld
  /\ Cardinality(blocks) + k <= MaxUsed
  /\ left' = k
  /\ UNCHANGED <<bootVars, mem, tlb, got, held, vars>>

\* The page joins the block; the last one completes it.
Collect(p) ==
  /\ left' = left - 1
  /\ IF left = 1
     THEN /\ held' = held \union {Append(got, p)}
          /\ got' = << >>
     ELSE /\ got' = Append(got, p)
          /\ held' = held

\* Mutant: the pages of a block are mapped behind its first one.
VAllocatePageInRow ==
  /\ left > 0
  /\ Allocate(PAGE_SIZE_BYTES)
  /\ status' = "running"
  /\ map(IF got = << >> THEN freePagePtr ELSE got[1] + Len(got), freePagePtr,
         VMM_KERN)
  /\ Collect(freePagePtr)
  /\ UNCHANGED bootVars

\* Mutant: the frame is read from the free pointer after it has moved on.
VAllocatePageLate ==
  /\ left > 0
  /\ Allocate(PAGE_SIZE_BYTES)
  /\ status' = "running"
  /\ map(freePagePtr, freePagePtr', VMM_KERN)
  /\ Collect(freePagePtr)
  /\ UNCHANGED bootVars

\* One turn of its loop: AllocPhysicalPage, then map at the frame's address.
\* The call that takes the last usable page does not return.
VAllocatePage ==
  /\ left > 0
  /\ Allocate(PAGE_SIZE_BYTES)
  /\ IF status' = "running"
     THEN map(freePagePtr, freePagePtr, VMM_KERN) /\ Collect(freePagePtr)
     ELSE UNCHANGED <<mem, tlb, left, got, held>>
  /\ UNCHANGED bootVars

\* Mutant: the id is tested after the page is unmapped.
UnmappedByOnePast(v) == v .. (v + Cardinality(PageString(Translate(v))))

\* The pages the loop of Free unmaps: as many from v on as carry the id of
\* v's frame.
UnmappedBy(v) == v .. (v + Cardinality(PageString(Translate(v))) - 1)

\* The loop's stores, all through the directory; no two of them meet.
UnmapAll(V) ==
  mem' = [f \in TableFrames |-> [i \in 0 .. (ENTRIES_COUNT - 1) |->
            IF \E v \in V : TableOf(v) = f /\ v % ENTRIES_COUNT = i
            THEN createPTEntry(0, VMM_UNMAP) ELSE mem[f][i]]]

\* Mutant: the TLB is not flushed.
VFreeNoFlush(b) ==
  /\ Idle
  /\ Free(Translate(b[1]))
  /\ UnmapAll(UnmappedBy(b[1]))
  /\ held' = held \ {b}
  /\ UNCHANGED <<bootVars, tlb, left, got>>

\* Free(ptr) of a block: its first page is translated, the entries are
\* cleared, the frame is given back and the TLB flushed.
VFree(b) ==
  /\ Idle
  /\ Free(Translate(b[1]))
  /\ UnmapAll(UnmappedBy(b[1]))
  /\ tlb' = NoEntry
  /\ held' = held \ {b}
  /\ UNCHANGED <<bootVars, left, got>>

\* MMap of a device's registers at their own address.
MMap(p) ==
  /\ Idle
  /\ map(p, p, VMM_KERN)
  /\ UNCHANGED <<bootVars, left, got, held, vars>>

\* Unmap: the TLB is left alone.
Unmap(p) ==
  /\ Idle
  /\ unmap(p)
  /\ UNCHANGED <<bootVars, tlb, left, got, held, vars>>

\* Once paging is on the processor may cache any translation at any time.
\* The one that is followed is chosen once, and stays until it is flushed.
Touch(v) ==
  /\ vstatus = "running"
  /\ tlb = NoEntry
  /\ Walk(v).present
  /\ tlb' = Walk(v)
  /\ UNCHANGED <<bootVars, mem, left, got, held, vars>>

VNext ==
  \/ SetupPageDirectoryTable \/ MapSystemMemory \/ EnablePaging
  \/ \E k \in Sizes : VAllocate(k)
  \/ VAllocatePage
  \/ \E b \in held : VFree(b)
  \/ \E p \in Device : MMap(p) \/ Unmap(p)
  \/ \E v \in VPage : Touch(v)

VSpec == VInit /\ [][VNext]_<<vars, vvars>>

-----------------------------------------------------------------------------
(***************************************************************************)
(* Properties.                                                             *)
(***************************************************************************)

\* A page the kernel reads and writes at its own address, and user code not.
KernelPage(p) ==
  Walk(p) = [page |-> p, present |-> TRUE, frame |-> p, write |-> TRUE,
             user |-> FALSE]

\* A pointer that new returned stays good until delete: each page of a block
\* is KERN in the physical list and the tables lead to it, for the kernel to
\* write, whatever other blocks were freed and unmapped meanwhile.
HeldMapped ==
  \A p \in HeldPages : state[p] = "KERN" /\ KernelPage(p)

\* No page is in two blocks, or in one twice, the block that Allocate is
\* putting together included.
Disjoint ==
  /\ got \notin held
  /\ \A b, c \in held \union {got} :
       \A i \in DOMAIN b, j \in DOMAIN c : b[i] = c[j] => b = c /\ i = j

\* Two callers never share a page, and a frame in use is reached through one
\* address of the list only: what unmap leaves behind (a present entry for
\* frame 0) and the entries of mapSystemMemory never give a second way into
\* a block.
HeldPrivate ==
  Disjoint /\ \A p \in HeldPages, v \in Page : Translate(v) = p => v = p

\* The TLB disagrees with the page tables only for device pages, whose Unmap
\* does not flush: memory given back is never reached through an old entry.
TlbFresh ==
  tlb # NoEntry /\ tlb.page \notin Device => tlb = Walk(tlb.page)

\* Turning paging on takes nothing from the kernel: every page of the list,
\* whatever its state, is present at its own address when the self test has
\* passed, and the test does pass.  The comments say otherwise: that the map
\* lacks the kernel (vmm.cpp:81), and that writing to pages without a block
\* fails (kernel.cpp:72).  The kernel's own pages are mapped as VMM_UNMAP
\* leaves them, which is why that must not mean absent.
PagingKeepsMemory ==
  /\ vstatus # "panicked"
  /\ vstatus = "running" /\ held = {} /\ nextAllocID = 1 =>
       \A p \in Page \ Device :
         Walk(p).present /\ Walk(p).write /\ Walk(p).frame = p

\* The pages of RAM below all the tables.
BelowTables ==
  {p \in Page : BootState[p] = "usable" /\ \A f \in TableFrames : p < f}

\* The tables lie in RAM, and below them is room for all the pages that are
\* ever in use at once, those that Free leaks included.
TablesHaveRoom ==
  /\ \A f \in TableFrames : BootState[f] = "usable"
  /\ MaxUsed <= Cardinality(BelowTables)

\* The manager finds its tables again once paging is on, through the tables
\* themselves, and no caller was given their memory.  They lie in RAM that
\* nothing reserves, so this rests on the free pointer: as long as the pages
\* in use fit below the tables, pages given back are used again before any
\* above them.
TablesKept ==
  TablesHaveRoom /\ vstatus = "running" =>
    \A f \in TableFrames : f \notin HeldPages /\ KernelPage(f)

\* The virtual manager is the disciplined caller the physical one needs: all
\* it does is request single pages and free what it was given, once.
UsesPhysMem == Spec

\* What new and delete promise (Heap) is what the two managers together do:
\* ids, pointers, tables and the pages a half allocated block has do not show.
Kernel ==
  INSTANCE Heap WITH
    Avail <- {p \in Page : BootState[p] = "usable"},
    free  <- IF status = "running"
             THEN {p \in Page : state[p] = "usable"} \union Pages(got)
             ELSE {},
    held  <- {Pages(b) : b \in held},
    down  <- status # "running"

ImplementsHeap == Kernel!Spec

\* docs/OSMap.txt:76-77 gives the directory and the tables memory of their
\* own, "VMM PDT" and "VMM PTs": no caller is ever given a page of it.  The
\* pages of a block behind its first, which Free does not give back, bring
\* the free pointer there however few pages are held.
TablesReserved == HeldPages \intersect TableFrames = {}
=============================================================================
