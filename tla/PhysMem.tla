------------------------------- MODULE PhysMem -------------------------------
(***************************************************************************)
(* The physical memory manager: class Memory of                            *)
(* src/src/arch/x86/x86_32/memory.cpp.  The manager keeps one MemoryRegion *)
(* record per page frame, in address order, and a pointer to the first     *)
(* usable one.  Pages of one request carry the same allocation id; Free    *)
(* gives back the string of pages that carry the id of the page it is      *)
(* given.                                                                  *)
(*                                                                         *)
(* A page is its index in the list.  Page 0 is at address 0, which is the  *)
(* NULL of Free.  Requests are in bytes.  blocks is a history variable:    *)
(* the allocations that returned to a caller and were not freed since.     *)
(***************************************************************************)
EXTENDS Integers, FiniteSets

CONSTANTS
  N,           \* physicalPagesCount
  BootMap,     \* the state splitRegion gave each page, from the boot table
  KernelPages, \* KERNEL_MEMORY_REGION_SIZE_BYTES in pages
  Requests,    \* the sizes callers ask for, in bytes
  MaxAllocID   \* bound: no request is made once nextAllocID is this large

Page == 0 .. (N - 1)

PAGE_SIZE_BYTES == 4096

MemState ==
  {"usable", "reserved", "acpiReclaim", "acpiNVS", "badMem", "KERN"}

(***************************************************************************)
(* reserverKernelMemory: the first KernelPages pages that are not          *)
(* `reserved' become KERN, the ACPI and bad ones among them included.      *)
(***************************************************************************)
KernelReserved ==
  {p \in Page :
     /\ BootMap[p] # "reserved"
     /\ Cardinality({q \in 0 .. (p - 1) : BootMap[q] # "reserved"})
          < KernelPages}

BootState ==
  [p \in Page |-> IF p \in KernelReserved THEN "KERN" ELSE BootMap[p]]

ASSUME PageCountAssumption == N \in Nat \ {0}
ASSUME BootMapAssumption == BootMap \in [Page -> MemState \ {"KERN"}]
ASSUME RequestsAssumption == Requests \subseteq Nat /\ MaxAllocID \in Nat
\* Page 0 is never handed out, so Free(NULL) frees no allocation.
ASSUME KernelAssumption == KernelPages \in Nat \ {0}
\* Otherwise the constructor itself walks off the list.
ASSUME BootUsableAssumption ==
  /\ Cardinality(KernelReserved) = KernelPages
  /\ \E p \in Page : BootState[p] = "usable"

VARIABLES
  state,       \* MemoryRegion::state of each page
  allocID,     \* MemoryRegion::allocRequestID of each page
  freePagePtr, \* the first usable page
  nextAllocID, \* the id of the last request
  status,      \* running, or how the manager stopped
  blocks       \* history: the live allocations, records [id, base, len]

vars == <<state, allocID, freePagePtr, nextAllocID, status, blocks>>

Status == {"running", "hung", "wild", "panicked"}

Block == [id : Nat, base : Page, len : Nat \ {0}]

Span(b) == b.base .. (b.base + b.len - 1)

-----------------------------------------------------------------------------
IsFirstUsable(p, st) ==
  /\ st[p] = "usable"
  /\ \A q \in Page : q < p => st[q] # "usable"

(***************************************************************************)
(* setupFreePagePtr walks from the head to the first usable page.  With    *)
(* none left it follows the NULL that ends the list and reads page 0 of    *)
(* memory as a MemoryRegion: where the walk ends is then undefined.        *)
(***************************************************************************)
SetupFreePagePtr(st) ==
  \/ \E p \in Page :
       /\ IsFirstUsable(p, st)
       /\ freePagePtr' = p
       /\ status' = "running"
  \/ /\ \A p \in Page : st[p] # "usable"
     /\ freePagePtr' = freePagePtr
     /\ status' = "wild"

Init ==
  /\ state = BootState
  /\ allocID = [p \in Page |-> 0]
  /\ freePagePtr \in Page /\ IsFirstUsable(freePagePtr, BootState)
  /\ nextAllocID = 1
  /\ status = "running"
  /\ blocks = {}

-----------------------------------------------------------------------------
(* Allocate *)

PagesFor(sizeBytes) ==
  IF sizeBytes % PAGE_SIZE_BYTES > 0
  THEN (sizeBytes + PAGE_SIZE_BYTES) \div PAGE_SIZE_BYTES
  ELSE sizeBytes \div PAGE_SIZE_BYTES

\* The pages findEmptyRegionFor scans; they may reach past the list.
Window(n) == freePagePtr .. (freePagePtr + n - 1)

Usable(S) == \A p \in S : state[p] = "usable"

\* Mutant: the marking loop ends one page early.
MarkAllButLast(S) ==
  LET T == {p \in S : p + 1 \in S} IN
  /\ state' = [p \in Page |-> IF p \in T THEN "KERN" ELSE state[p]]
  /\ allocID' = [p \in Page |-> IF p \in T THEN nextAllocID' ELSE allocID[p]]

Mark(S) ==
  /\ state' = [p \in Page |-> IF p \in S THEN "KERN" ELSE state[p]]
  /\ allocID' = [p \in Page |-> IF p \in S THEN nextAllocID' ELSE allocID[p]]

\* Mutant: the id counter is not advanced.
RequestSameID(sizeBytes) ==
  /\ status = "running"
  /\ sizeBytes # 0
  /\ nextAllocID < MaxAllocID
  /\ nextAllocID' = nextAllocID

\* A request for no bytes returns NULL and changes nothing.
Request(sizeBytes) ==
  /\ status = "running"
  /\ sizeBytes # 0
  /\ nextAllocID < MaxAllocID
  /\ nextAllocID' = nextAllocID + 1

\* Mutant: setupFreePagePtr is not called after the pages are marked.
AllocateFoundStalePtr(sizeBytes) ==
  LET n == PagesFor(sizeBytes) IN
  /\ Request(sizeBytes)
  /\ Window(n) \subseteq Page
  /\ Usable(Window(n))
  /\ Mark(Window(n))
  /\ UNCHANGED <<freePagePtr, status>>
  /\ blocks' = blocks \union
                 {[id |-> nextAllocID', base |-> freePagePtr, len |-> n]}

(***************************************************************************)
(* All the pages scanned are usable: they are marked, the free pointer is  *)
(* set up again and the first page is returned.  The call does not return  *)
(* when that last walk finds no usable page.                               *)
(***************************************************************************)
AllocateFound(sizeBytes) ==
  LET n == PagesFor(sizeBytes) IN
  /\ Request(sizeBytes)
  /\ Window(n) \subseteq Page
  /\ Usable(Window(n))
  /\ Mark(Window(n))
  /\ SetupFreePagePtr(state')
  /\ blocks' =
       IF status' = "running"
       THEN blocks \union
              {[id |-> nextAllocID', base |-> freePagePtr, len |-> n]}
       ELSE blocks

(***************************************************************************)
(* findEmptyRegionFor meets a page that is not usable and stays on it: it  *)
(* sets ptr to walker and walker to ptr, and never advances.  Past the     *)
(* list it reads whatever memory holds there, so it may stop there too.    *)
(***************************************************************************)
AllocateSpins(sizeBytes) ==
  LET n == PagesFor(sizeBytes) IN
  /\ Request(sizeBytes)
  /\ ~(Window(n) \subseteq Page /\ Usable(Window(n)))
  /\ status' = "hung"
  /\ UNCHANGED <<state, allocID, freePagePtr, blocks>>

(***************************************************************************)
(* The memory past the list happens to read as usable pages: the pages up  *)
(* to the end of the list are marked and the next one is taken through     *)
(* NULL.                                                                   *)
(***************************************************************************)
AllocateRunsOff(sizeBytes) ==
  LET n == PagesFor(sizeBytes) IN
  /\ Request(sizeBytes)
  /\ ~(Window(n) \subseteq Page)
  /\ Usable(Window(n) \intersect Page)
  /\ Mark(Window(n) \intersect Page)
  /\ status' = "wild"
  /\ UNCHANGED <<freePagePtr, blocks>>

Allocate(sizeBytes) ==
  \/ AllocateFound(sizeBytes)
  \/ AllocateSpins(sizeBytes)
  \/ AllocateRunsOff(sizeBytes)

-----------------------------------------------------------------------------
(* Free *)

\* Mutant: the id is tested after the step, so one page too many is visited.
PageStringOnePast(p) ==
  {q \in p .. (N - 1) :
     \A r \in p .. q : r = p \/ allocID[r - 1] = allocID[p]}

\* The pages freePageString visits from p: those that carry p's id.
PageString(p) ==
  {q \in p .. (N - 1) : \A r \in p .. q : allocID[r] = allocID[p]}

Unmark(S) ==
  /\ state' = [q \in Page |-> IF q \in S THEN "usable" ELSE state[q]]
  /\ allocID' = [q \in Page |-> IF q \in S THEN 0 ELSE allocID[q]]
  /\ blocks' = {b \in blocks : Span(b) \intersect S = {}}

\* Mutant: setupFreePagePtr is not called after the pages are released.
FreeStringStalePtr(p) ==
  /\ status = "running"
  /\ p # 0
  /\ \A q \in PageString(p) : state[q] = "KERN"
  /\ Unmark(PageString(p))
  /\ UNCHANGED <<freePagePtr, nextAllocID, status>>

\* Free(NULL), that is of page 0, returns at once.
FreeString(p) ==
  /\ status = "running"
  /\ p # 0
  /\ \A q \in PageString(p) : state[q] = "KERN"
  /\ Unmark(PageString(p))
  /\ SetupFreePagePtr(state')
  /\ nextAllocID' = nextAllocID

\* A page of the string is not KERN: those before it are already free when
\* the panic stops the kernel.
FreePanics(p) ==
  LET str == PageString(p) IN
  /\ status = "running"
  /\ p # 0
  /\ \E q \in str : state[q] # "KERN"
  /\ Unmark({q \in str : \A r \in p .. q : state[r] = "KERN"})
  /\ status' = "panicked"
  /\ UNCHANGED <<freePagePtr, nextAllocID>>

Free(p) == FreeString(p) \/ FreePanics(p)

-----------------------------------------------------------------------------
\* Callers as the kernel has them: they free what they were given, once.
Next ==
  \/ \E s \in Requests : Allocate(s)
  \/ \E b \in blocks : Free(b.base)

Spec == Init /\ [][Next]_vars
-----------------------------------------------------------------------------
(***************************************************************************)
(* Properties.                                                             *)
(***************************************************************************)

\* Every variable keeps the type of the field it models.
TypeOK ==
  /\ state \in [Page -> MemState]
  /\ allocID \in [Page -> Nat]
  /\ freePagePtr \in Page
  /\ nextAllocID \in Nat
  /\ status \in Status
  /\ blocks \subseteq Block

\* While the manager runs, freePagePtr (memory.cpp setupFreePagePtr) is the
\* lowest usable page: no sequence of Allocate and Free leaves it on a page
\* that was handed out or above one that was given back.
FreePtrIsFirstUsable ==
  status = "running" => IsFirstUsable(freePagePtr, state)

\* The pages that carry a live allocation's id are the pages of that
\* allocation and they are KERN: what freePageString relies on to find the
\* end of a string, and why no page belongs to two allocations.
IdsNameBlocks ==
  \A b \in blocks :
    /\ Span(b) \subseteq Page
    /\ \A p \in Page :
         /\ (allocID[p] = b.id) <=> (p \in Span(b))
         /\ (p \in Span(b)) => (state[p] = "KERN")

\* Ids are issued in order and never reused: no page and no live allocation
\* carries an id above nextAllocID, and an id names one allocation only.
IdsIssuedOnce ==
  /\ nextAllocID > 0
  /\ \A p \in Page : allocID[p] <= nextAllocID
  /\ \A b \in blocks : b.id > 0 /\ b.id <= nextAllocID
  /\ \A b, c \in blocks : b.id = c.id => b = c

\* Both facts about ids: a string of pages with one id is one allocation.
IdsCorrect == IdsIssuedOnce /\ IdsNameBlocks

\* No page leaves the allocator's books: while it runs, a page is either in
\* the state the boot table and reserverKernelMemory gave it, or it was
\* usable at boot and a live allocation holds it.  Kernel and reserved pages
\* are never handed out, and a free leaks nothing.
PagesAccounted ==
  status = "running" =>
    \A p \in Page :
      IF \E b \in blocks : p \in Span(b)
      THEN BootState[p] = "usable" /\ state[p] = "KERN"
      ELSE state[p] = BootState[p] /\ allocID[p] = 0

\* Free releases the pages of the allocation it was given, all of them and
\* no other, however its neighbours in the list came and went.
FreeReleasesBlock ==
  [][\A b \in blocks \ blocks' :
       \A p \in Page :
         state'[p] = IF p \in Span(b) THEN "usable" ELSE state[p]]_vars

\* A request of one page (AllocPhysicalPage, the only request the virtual
\* memory manager makes) is answered whatever was given back in front of it,
\* unless it takes the last usable page: it meets neither the endless search
\* nor the end of the list.  Requests of more pages do meet the search, once a
\* page was freed in front of a live one.
SinglePageServed ==
  [][\A s \in Requests :
       PagesFor(s) = 1 /\ Allocate(s) =>
         \/ \E b \in blocks' : b.id = nextAllocID' /\ b.base = freePagePtr
         \/ \A p \in Page : state'[p] # "usable"]_vars

\* Disciplined callers never reach the panics of Free and freePageString.
NeverPanics == status # "panicked"

Extent(b) == [first |-> b.base, last |-> b.base + b.len - 1]

\* The manager keeps the promise of PageAllocator.
Contract ==
  INSTANCE PageAllocator WITH
    Avail <- {p \in Page : BootState[p] = "usable"},
    owned <- {Extent(b) : b \in blocks},
    down  <- status # "running"

ImplementsContract == Contract!Spec
=============================================================================
