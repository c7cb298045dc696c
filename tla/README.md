# Verification of QBeOS

TLA+ models of the QBeOS kernel (`src/src`), of the stages that boot it
(`src/boot`) and of the tool that makes its boot disk (`src/scripts/fatfs`), with TLC runs on small instances and TLAPS proofs
for all values of the constants. Every definition is translated from the code;
the comments in the modules name the functions, and `PROJECT.json` ("map") gives
each definition the lines it stands for. Hardware (8259, 8254, 8042, keyboard,
TLB) is modelled from how the drivers use it and is marked external there.

## 1. The system

QBeOS is a 32-bit x86 hobby kernel in C++. A boot sector and an early loader
(assembly) switch on address line 20, leave the BIOS memory map and a boot header
at fixed addresses and enter protected mode in the kernel loader (C), which so
far lists the PCI functions of the machine and halts. The kernel starts in `kmain`
(`src/src/kernel.cpp`), which builds one object per subsystem, runs self tests
and halts with interrupts on. There is one thread, `kmain`; everything
concurrent comes from interrupt handlers and from devices.

| Component | State | Operations | Talks to |
|---|---|---|---|
| Boot sector, early loader (`boot/bootloader`, `boot/earlyloader`) | counters, interrupt flag, A20 line, boot header | `func_ResetDisk`, the load loops, `func_EnableA20`, `func_DiscoverMemory`, `func_DiscoverPCI`, `func_PrepareGDT` | BIOS, keyboard controller; the table of regions goes to the kernel loader and the kernel |
| Kernel loader (`boot/qbekloader`) | boot header, end-of-region allocator, device list | `parse_boot_hdr`, `init_memory`, `malloc`, `enumerate_devices`, `add_device` | configuration space |
| Physical memory manager (`memory.cpp`) | list of page records (state, allocation id), `freePagePtr`, `nextAllocID` | `Allocate`, `AllocPhysicalPage`, `Free`, `GetPageAt` | called by the virtual manager, at boot too; panics |
| Virtual memory manager (`vmm.cpp`, `pdt_entry.cpp`, `pt_entry.cpp`) | page directory, page tables, the TLB | `initializeMemory`, `Allocate`, `Free`, `MMap`, `Unmap`; `new`/`delete` are its callers | physical manager, one call per page |
| Console (`screen.cpp`, `logger.cpp`) | video memory, `currCursorPos` | `WriteString`, `WriteCharacterToScreen`, `ScrollUp`, `ClearScreen` | `kmain` and handlers share it, no lock |
| Interrupt delivery (`pic.cpp`, `pit.cpp`, `idt.cpp`, `interrupt_32.cpp`, end of `kmain`) | request/service/mask registers, timer, interrupt flag | `PIC::Initialize`, `CLI`, `EnableInterrupt`, `SendEOI`, `PIT::Reload`, the handlers | CPU, 8259, 8254, keyboard controller |
| Keyboard controller driver (`ps2.cpp`) | configuration byte, test flags | `initialize`, `WriteCommand`, `ReadData`, `EnableInterrupt1` | 8042, keyboard behind it |
| Keyboard driver (`atkbd.cpp`) | `isBreak`, the scan set it reads | `Initialize`, `Handler`, `handleData` | PS2, console |
| FAT32 image tool (Go) | two FATs, data region, root directory | `NewManager`, `Add` (file or directory), `Serialize` | the host's file system |
| Formatting (`formater.cpp`) | the buffer of each `kprintf` | `Format`, `putNumber` and its sisters | console |
| Kernel library (`vector.h`, `hashtable.h`, ...) | a vector's store, a table's buckets, lists and nodes | `Push`, `Pop`, `Insert`, `Get`, `Hash` | `new`/`delete`: the virtual manager |
| Descriptor tables (`gdt.cpp`, `tss.cpp`, `idt.cpp`) | the bytes of the GDT and the IDT, the limits in force, the task register | `AddGDTEntry`, `RefreshGDT`, the constructors of `GDT`, `TSSManager`, `IDT` | the processor, at every interrupt and exception |
| APIC, tasks, ACPI, PCI, CPUID | tables | set-up or read-only parsing at boot | firmware |

What is hard, and what makes each component correct:

- **Boot.** Everything the hardware answers may be an error or come late; the A20
  methods are tried in turn and share a counter and a buffer with the keyboard;
  each stage must leave what the next one takes for granted. Correct means:
  protected mode is entered with interrupts off, the line on, the header filled
  in and every sector in place; the scan lists what is there, once, as far as there
  is room, for which nobody looks; it all ends.
- **Boot map.** A BIOS reports regions of any size, with holes and overlaps, in
  descriptors of 20 or 24 bytes, and the constructor cuts them into pages.
  A binary search over that list is asked, before paging, for addresses it need
  not have. Correct means: only RAM is called usable, no memory is forgotten,
  and the search finds what is there.
- **Physical memory.** The page list has no explicit notion of an allocation: a
  block is a maximal string of pages with one id, and the free pointer is
  recomputed by a walk. Correct means: ids name blocks, the pointer is the first
  usable page, no page is lost or handed out twice, kernel and firmware pages
  are never handed out — after *any* sequence of calls.
- **Virtual memory.** A block is many allocations of the physical manager, its
  entries are found again by counting ids, unmapped entries stay present, and
  the TLB may be stale. The tables are built in memory nobody cleared, in RAM
  nothing reserves. Correct means: turning paging on takes nothing away, live
  blocks stay mapped and private, memory given back is not reached through an
  old translation, and the tables stay out of callers' hands.
- **Descriptor tables.** The processor reads bytes that the kernel encoded at
  boot, at moments nobody chose. Correct means: the selectors and vectors lead
  where their names say, and no device stops the machine at any step of the boot.
- **Console.** Two writers race on the cursor and on video memory; the scroll
  test is an equality. Correct means: the cursor never leaves the screen, the
  text comes out as on a terminal, and an interrupt in a harmless place costs
  no text of the main thread's.
- **Interrupts.** Edge-triggered requests, a one-shot timer loaded by hand in
  two writes, non-specific EOIs, a mask register read and written back, and an
  initialisation that runs while the keyboard may already send. Correct means:
  each EOI ends its own service, the clock never stops, no byte is forgotten.
- **Keyboard controller and keyboard.** Every answer goes through one buffer;
  reads give up after 1000 polls; a keyboard may ask to resend or send early.
  Correct means: answers stay in step with commands, the device comes up in the
  right mode, and the decoder recovers from any state.
- **Kernel library.** Memory comes back from `new` as somebody left it, the table
  does not clear its buckets, and a store of several pages is only as contiguous
  as the pages that happen to be free. Correct means: a vector is a stack and a
  table a map, whatever their memory held before.
- **FAT tool.** The search for empty clusters reports no shortage, `addDir`
  ignores errors, sizes are cut to four bytes. Correct means: the files of an image
  that is written are all there along their chains.

The full list of hazards, each at its line, with the properties that would catch
it, is "hazards" in `PROJECT.json`.

## 2. The modules

```
BootLoader             boot/bootloader, boot/earlyloader
Loader                 boot/qbekloader       EXTENDS BootLoader
MemoryMap              memory.asm, constructor of Memory, GetPageAt
PageAllocator          the promise of the physical manager      (abstract)
PhysMem                memory.cpp                               implements PageAllocator
Words                  bits of machine words
PageEntry              pdt_entry.cpp, pt_entry.cpp   EXTENDS Words
LowestPages, Heap      the promise of new and delete            (abstract)
VirtMem                vmm.cpp     EXTENDS PhysMem, PageEntry;  implements Heap, and PhysMem!Spec as its caller
Terminal               what a terminal shows of a text          (reference)
Formater               formater.cpp, and what a format says (reference)
Console                screen.cpp, kprintf   EXTENDS Terminal, Formater
KStdLib                kstdlib               EXTENDS LowestPages
Descriptors            gdt, tss, idt, handlers, both PICs, kmain   EXTENDS Words
Interrupts             pic, pit, idt, handlers, end of kmain
PS2                    ps2.cpp, 8042, keyboard
Keyboard               atkbd.cpp             EXTENDS PS2
FatImage               scripts/fatfs
MemoryManagers_proofs, MemoryMap_proofs, Descriptors_proofs, Kernel_proofs,
Keyboard_proofs, Loader_proofs, FatImage_proofs, KStdLib_proofs     theorems
MC*                    instances for TLC
```

**BootLoader, Loader.** One program counter for the three stages; an action is one
step between two questions to the hardware, and beside it the keyboard
controller takes and answers. `placed` is what the disk reads put where. The
byte `EnableA20` reads from the controller is only told apart as the port's value or
a key's, because that is what decides what is written back; a key's may reset
the processor (`cpuReset`). The load loops' counters and sector numbers are the real
ones. In the third stage a machine is a set of functions, and the slots that
say they have more than one, and the room it has for them: `ram` pages at the end of
the first RAM region that nothing else uses (31 on a PC, where the boot header ends at
0x80000 and the region at 0x9fc00), and the list's `MAX_DEV_COUNT` slots. `malloc` and `add_device`
look at neither; a record below these pages (`memory.c:30-33`) or an entry behind
the last slot (`pcie.c:124`) is written over something else, and the model ends in
`wild`. `OverrunsOnlyIfTooMany` says which machines get there, and `EnumeratesAll` what
the others get.

**MemoryMap.** Addresses are counted in units smaller than a page, and the
numbers wrap where the code's do: a table word at `WORD`, a page's base (a
pointer) at `WORD`, the constructor's sums at `WORD` squared. The table is the words
the BIOS wrote, and the constructor reads it five words at a time whatever the
BIOS wrote. The self tests are the two that can fail. Page lists that get longer
than any map in order are not followed (`runaway`): in the code they run over what
is behind the list. `GetPageAt` is a search by halves with the code's ends, which
goes on for ever when its two ends are neighbours (`NotFound`);
`testVirtualMemory` calls it for every address below 16 MB (`TestedBytes`)
before it asks whether the page is usable, so that a machine whose list ends
below that hangs at boot (holes are cut into pages like regions, so the search finds
them). What `AlignedMapBoots` shows is what PhysMem assumes: the index
of a page is its address.

**PhysMem.** A page is its index in the list; `state` and `allocID` are the
record's fields. `BootMap` is what the constructor made of the boot table: any
map with a usable page left. Requests are in bytes because the rounding matters.
`Allocate` has three outcomes the code really has: the region is found; the
search stays on the first page in use for ever (`AllocateSpins`,
`findEmptyRegionFor` never advances); or it runs off the list. The last walk of
`setupFreePagePtr` has no end test, so taking the last usable page ends in
`wild`: what the code reads at address 0 is undefined. `status` records such
ends; nothing is claimed beyond them. `blocks` is a history variable, the
allocations callers hold; callers free what they were given, once. `PageAllocator`
states what a caller may rely on without ids or a pointer.

**VirtMem, PageEntry, Words.** The directory and the tables are words in the
frames they have, a word being the set of its bits that are one (bits beyond 31
occur in the unit tests of `PDTEntry`). `VInit` is memory nobody cleared;
`SetupPageDirectoryTable`, `MapSystemMemory` and `EnablePaging` are the steps of
`initializeMemory`, an entry at a time; `Walk` is what the processor makes of both
words. Every store goes through the directory, so a table that was lost would be
lost in the model. Three things look like slips and are modelled as they are:
`VMM_UNMAP` is no bit, so its test never holds and an unmapped page gets a present
user entry for frame 0; `createPTEntry`'s third case is what maps the kernel's own
pages; `Free` counts pages that carry the first frame's id. `VAllocatePage` is one
turn of the loop in `Allocate`, so that a block half allocated is a state. The TLB
is one arbitrary translation, chosen once until it is flushed: any translation
may be that one, and staleness is a question about one at a time. `UsesPhysMem`
says that the virtual manager's steps are steps of `PhysMem!Spec`: everything
proved of the physical manager's disciplined callers applies to it.

**Heap, LowestPages.** What `new` and `delete` amount to: a block is the lowest
free pages, wherever they lie, and `delete` gives back its first page only.
`ImplementsHeap` of VirtMem is the refinement; a block appears when its last page
is mapped. KStdLib takes its memory by the same operators, which is what ties it
to the managers below.

**Descriptors.** The GDT is the bytes `encodeEntry` writes, the IDT the words
`EncodeEntryAt` writes, and `Segment`, `Accepted`, `Target` are what the processor
reads back from them, limits included. `After` is kmain's order of steps from its
`cli` to its `sti`; a device may raise a line and an exception may happen at every
one of them, whatever mask the BIOS left. The handlers' bodies are one step
(panic, or return with or without an end of interrupt). `EnableInterrupt` of a
line of the slave reads the master's mask, and `SendEOI` forgets the slave for
line 8, as in the code; no driver uses such a line. encodeEntry's check for the
table's overflow (1 MB of entries) cannot be met by six entries and is left out.

**Console.** A handler runs from start to end between two instructions of the
main thread (interrupt gates), the main thread goes store by store. The unlocked
cursor is a data race and the build decides its meaning: the kernel is built
with `-O3`, and there GCC keeps the cursor in a register from the start of
`WriteString` to its end and stores it after each character (seen in the
assembly of `g++ -m32 -O3`). The main thread prints messages: `kprintf` formats into a
buffer of its own, so handlers cannot disturb that, and then writes; `Format` reads
the format two characters at a time as the code does, and `Said` says what should
come out, without the loops: a piece for each character of the format, a number's
digits from the highest down. `WellFormed` is what the kernel's formats have in
common. Handlers print plain strings. `Characters` are what all of them are made of. `text` and `damage` are history variables: what
should be on the screen, and which guarantee interrupts have left.

**KStdLib.** Memory is words at addresses, so that a store that is too short or a
stale bucket has the consequences it has in the code. `Allocate` is the virtual
manager's as its callers see it (`Heap`): whole pages, the lowest free ones, uncleared.
`status` becomes `wild` where the code follows a pointer nobody stored (a bucket
that was not NULL when the table was made: `stale`) or uses a block whose pages
do not follow one another; nothing is claimed beyond that. `stack` and `map` are
history variables, what was pushed and inserted. The walk of a bucket is cut off after as many
lists as there are pages, which is proved to be no limit. Every `Insert` and every `Get`
loses the page that `Hash` returned.

**Interrupts.** Lines 0 and 1, the only ones ever unmasked. `irr` is edge
triggered: a line that is high when `PIC::Initialize` resets the controller
raises nothing until it was low. Spurious interrupts (line 7) are not modelled. Timer mode 0: `Reload` low byte stops and drops
the line, high byte starts the count.

**PS2, Keyboard.** Each step is one command with its answer or one read. The
answers are the keyboard's, with *disturbances* counted by `faults`: an answer
later than the 1000 polls, a request to resend, a key pressed early. Flags start
with any value, because the object is built on the stack and copied. After
`run`, keys are pressed, repeat while held, and are released, and the handler
decodes the bytes. Extended keys send the prefix 0xe0, which the decoder does not
know: it prints it like a key without a character.

**FatImage.** The disk's layout is computed as the tool computes it; `GetEmptyClusters`
pads with zeros; a name whose extension is too short panics in the converter;
`addDir` ignores errors. A cluster holds an interval of a file's bytes. An entry's size
has four bytes, and `IntToBytes` cuts what does not fit (`SIZE_RANGE`): a file of
4 GiB or more, on a disk that takes it (`-sb 8`), is written whole, and its entry says
it is shorter. So `ReadsBack` claims all the bytes of every file along its chain, and the size in
the entry for files it fits. It speaks of files: a directory that finds no room in the
root is ignored (`fat32.go:416`), and the image is written without it. Disks are
of any size whose clusters have numbers below the end mark of 28 bits.

### Order and plan

Built so far, in the order of importance: PhysMem, VirtMem with PageEntry and Heap,
Console, Interrupts, Descriptors, PS2/Keyboard, FatImage, MemoryMap,
BootLoader/Loader, KStdLib, Formater, and the proofs about PhysMem, VirtMem,
Descriptors, Interrupts, Console with Formater, Keyboard, Loader, FatImage, MemoryMap
and KStdLib. Every safety property of the passing runs is proved. What could be added:

1. `PCI`: the kernel's own scan (`pci/pci.cpp`) beside the loader's, whose loops
   end one bus and one slot early.
2. `System`: `Interrupts` and `Console` composed, so that which handler prints
   when is not free but follows from the masks and the flag.

## 3. What is checked

Runs that pass (`tlc -config <cfg> <module>`):

| Run | Instance | Distinct states | Shows |
|---|---|---|---|
| `physmem` | 9 pages, hole at 1, ACPI page at 5; requests of 0, 1, 2 and 3 pages; ids to 9 | 26,992 | free pointer, accounting, exact frees, no panics, single pages served while there are any, `PageAllocator` implemented |
| `virtmem` | 12 pages, five of them for a directory and tables of 4 words, one device page, memory uncleared in two ways, blocks of 1 and 2, ids to 6 | 77,148 | paging takes nothing away; live blocks mapped and private; TLB fresh; tables kept; physical manager used as it must be; `Heap` implemented |
| `console` | 2 by 2 cells, text to 8 characters, messages with numbers in three bases | 386,362 | cursor on screen, terminal layout, text kept in place under harmless interrupts |
| `kstdlib` | 10 pages of 3 words, table of 2 buckets, 3 keys, vector to 5 items, one page that may be dirty | 720,310 | the vector is a stack, the table a map, until a wild pointer is followed |
| `interrupts` | 3 steps of work | 146 | EOIs match, the clock runs, no byte forgotten; ticks and reads go on |
| `descriptors` | lines 0, 1, 7 and 12, handlers on both sides of a 64 KB boundary, every mask of these lines at boot | 16,079 | selectors and vectors mean what they are named, no device stops the machine |
| `keyboard` | 2 firmware settings, keyboard in set 1 or 2, 1 disturbance, 7 bytes typed with an ordinary, a lock and an extended key | 326,856 | answers in step, keyboard comes up, presses printed, initialisation ends |
| `memorymap` | 32 units, pages of 4; up to 3 regions of 0, 2, 6 or 8 units, -2, 0, 2 or 4 after the last; descriptors of 5 and 6 words; 12 units looked up at boot | 832,390 | only RAM usable, no address forgotten, aligned maps boot into PhysMem's list, the search finds what is there |
| `loader` | 2 buses of 2 slots of 3 functions, 8 of them possible, one of an unknown kind; RAM for 3 or 9 records, a list of 5 slots | 157,970 | protected mode entered safely, every function listed once in a record of its own, overruns on machines with too many functions and no others, the boot ends |
| `fatimage` | disks of 48 and 52 sectors of 32 bytes, files of 0, 100, 128 and 600 bytes, 6 entries | 13,965 | written images have all files' bytes and the sizes that fit, no cross links, a disk with too few clusters refused |

Why the bounds are enough. *physmem*: nine pages leave two separate stretches of
usable pages, so that a three-page request meets a hole, the end of the list and
a freed page in front of a live one; nine ids allow all seven usable pages to be
taken, freed and taken again. *virtmem*: two-page blocks
are the smallest whose pages get different ids; six ids allow three blocks, a
leaked page and a reuse of a frame; four words are the smallest tables that have
several tables in use and entries at their ends; uncleared memory is zeros or
user entries for a page that is handed out. `MaxHeld` is what callers hold,
`MaxUsed` what is handed out and not given back, leaked pages included: at four
it keeps the allocator below the tables, which is the condition under which
`TablesKept` can hold at all (`virtmem_tables` drops it, 12 pages). On the machine
that is the memory between 1 and 5 MB. *descriptors*: the tables are the real
ones; 7 is a line of the master without a driver, 12 one of the slave. *console*: two rows are needed to scroll and to keep a line; eight
characters scroll the screen at least twice; the messages have a sign at their
start, two signs in a row, and a zero. *kstdlib*: two of the keys share all
Hash looks at; five items move the store twice, into one block of two pages and one
of three that do not follow one another; ten pages (the last is never handed out) are enough for a vector, a
table and two lists in one bucket. *interrupts*: only `Work` is a
parameter, and nothing but the number of repetitions depends on it (the proofs
hold for any). *keyboard*: one disturbance at every possible place; seven bytes
are two releases around a lock key, or the press and release of an extended key around another. *memorymap*: the sizes are nothing, less
than a page, a page and a half, and two pages, the distances an overlap, none,
less than a page and a page; three regions let a rest, a hole and a neighbour
meet, reach the end of the addresses, and put the kernel's page before, between
or after them. *loader*: the first two stages have no parameter; the eight
functions include slots with and without function 0, gaps between functions,
and the last slot of a bus and of the machine; three pages of RAM let the region
run out before the list, and with nine the list of five slots does. *fatimage*: files of no bytes, less than a
cluster, exactly one, and five, the last longer than what a size field of `SIZE_RANGE` = 512 holds; both disks can be filled, and the root directory
(one cluster, four entries of 32 bytes here) fills up before the six entries
are added. As on every disk of the sizes the tool is used with, the FAT has some
more entries than the disk has clusters; where it has fewer, the last clusters
are not used.

Where TLC finds what the code does against what a text of the repository says
("findings" in `PROJECT.json`), in two runs by violating the property, in one by
confirming it against the text:

| Run | Property | What happens |
|---|---|---|
| `virtmem_tables` | `TablesReserved` | callers that never hold more than two pages are given the page directory (`memory.h:17`, `vmm.cpp:225`) |
| `interrupts_early` | `EarlyByteRead` | a key pressed before `pic.Initialize` is never read, nor any later one (`kernel.cpp:505`) |
| `virtmem` (holds) | `PagingKeepsMemory` | `vmm.cpp:81` says that the identity map does not map the kernel, `kernel.cpp:72-74` that writing to pages of the physical manager fails once paging is on; every page of the list is present and writable at its own address then, because `VMM_UNMAP` is no bit |

More places where the models do what the code does, and no property
claims otherwise: a search for more than one page stays on a page in use for ever
(`memory.cpp:88`, `AllocateSpins`; nobody asks for more than one); freeing a block
of several pages gives back the first one only, because each was taken with an
id of its own (`vmm.cpp:225`, although the comment above says that it frees "the
page string of the allocation"; `Heap` says what that amounts to); the page
made for the rest of a region overlaps the first page of the next one
(`memory.cpp:36-48`), and the self tests pass;
a machine whose list ends below 16 MB hangs before paging (`vmm.cpp:10`);
a machine with more PCI functions than `malloc` has pages or the list slots has memory
overwritten (`memory.c:30-33`, `pcie.c:124`), although the comment above `malloc` takes
memory from the end of the region "to avoid any overwrites"; a file of 4 GiB or more gets its
size modulo 2^32 (`fatdirentry.go:83`), and a directory can be missing from a written image (`fat32.go:416`); `Hash` looks at the
lowest byte of a key alone, because its index counts bits and its bound bytes
(`simplehasher.cpp:15`); a format of one character prints nothing (`formater.cpp:15`), nor does
an unknown sign, which one failing self test has (`kernel.cpp:402`, `%D`): both are outside `WellFormed`;
a block's pages need not follow each other (`vmm.cpp:192`), a
keyboard that is not in set 2 makes `setScanSet` wait for ever (`atkbd.cpp:67`; `InitEnds`
speaks of set 2), and the first port's clock bit is tested for the second's
(`ps2.cpp:216`), so that a second port is never found.

Each property of a passing run has a mutant in the modules: the definition as a
plausible slip would have it, under which TLC finds the property violated.

### Fairness

*Interrupts.* Weak fairness of the timer's count and of every handler step: the
hardware counts and the processor runs. Weak fairness of taking line 0, which
has the highest priority. Weak fairness of `kmain`'s steps: nothing stops it before
its `sti`, and after it interrupts may keep it from going on for ever, which is
not assumed away. Strong fairness of taking line 1, because it is disabled and enabled again by
the timer for ever. That alone is not enough — the divisor is 1, and a machine that does nothing but
serve the timer is a behaviour — so `ByteRead` states the room it
needs as an assumption: time and again a handler has returned and no timer
request waits. `ClockTicks` needs none. That `kmain` ends is not claimed.

*Keyboard.* Weak fairness of the initialisation's steps and of the handler: both
are the processor going on. The keyboard need not answer: reads time out.

*Loader.* Weak fairness of the processor's steps, and of the keyboard controller
taking what is written to it and answering the request for its output port:
the waits in `enableA20.asm` have no end of their own, so the boot ends only on a
machine with a controller that works. Keys may come or not.

PhysMem, VirtMem, Descriptors, Console, KStdLib, MemoryMap and FatImage have safety properties only; nobody has
to call them.

## 4. What is proved

`MemoryManagers_proofs`, its first part, from the assumptions of PhysMem (a non-empty page list, any boot
map, any set of requests, at least one kernel page, at least one usable page):

- `Invariance`: `IInv` is inductive. `IInv` is typing, `IdsCorrect`, `FreePtrIsFirstUsable`,
  `PagesAccounted` and `NeverPanics` together. None of the last three is
  inductive alone: a free is exact only because no neighbour carries the same id
  (`IdsCorrect`), ids are unique only because none is above the counter
  (`IdsIssuedOnce`), the pages a request takes belong to nobody only because
  every page outside live blocks is as it was at boot (`PagesAccounted`). The key
  lemma, `StringIsBlock`, says that the string `freePageString` visits from a
  block's base is that block.
- `FreePtrCorrect`, `NothingLeaks`, `NoPanic`: the invariants of the run
  `physmem`; `TypeCorrect` and `IdsInvariant`: what they rest on.
- `FreeExact` and `SinglePageReturns`: its action properties. The second says
  that a one-page request is answered unless it takes the last usable page: it
  cannot meet the endless search nor run off the list, because the free pointer
  is on a usable page.
- `Refinement`: PhysMem implements PageAllocator, every step a `Grab`, a
  `Release`, a `Stop` or a stutter.

`MemoryManagers_proofs`, its second part, from PhysMem's assumptions and VirtMem's own (tables of 1 to 1024
words, all of the list and of the devices within their reach, the tables above the
first page, callers that may ask for a page):

- `VInvariance`: `VInv`, kept together with PhysMem's `IInv` because neither stands
  alone. That the physical manager is used as its own proof demands (`PhysMemUsed`)
  follows from `VInv`: what the virtual manager frees is an allocation of one page it
  was given. `VInv` says in turn that the directory leads to the tables as far as it is
  written, that the entry of a page of the list leads to that page or to frame 0,
  that blocks are disjoint and their pages ascend, that each held page is mapped, and that
  the TLB has what the tables have. The blocks' order is not for its own sake: that
  `Allocate` gets ever higher pages is why the entries it writes are not those of
  pages it has (`BlocksOK`).
- Below it are two layers. A word names one frame: the twenty bits of the address
  determine the frame number (`BitsDetermine`, an induction from the
  highest bit down, carried out as the least element of a set), so `KernWord`, `UserWord` and
  `DirWord` lead where they say (`WordFacts`). And every read and store is one entry's:
  behind the directory, two pages' words never meet (`ThroughDirectory`, `Store`), nor do
  those a loop of stores writes (`StoreAll`).
- `HeldStaysMapped`, `HeldStaysPrivate`, `TlbStaysFresh`, `PagingSafe`: the run's
  invariants.
- `TablesStayKept`: if the tables lie in usable RAM and callers use no more pages
  than are usable below them, no table is ever given away. It needs a count of its own
  (`TablesInv`): the lowest usable page is below the tables because the pages
  taken below it are some of those in use.
- `HeapRefinement`: VirtMem implements Heap. `HeapFree`, the pages as Heap has them, are
  the usable ones and those of the block being collected; that the collected pages
  are the lowest is again `BlocksOK`.

`Descriptors_proofs`, for any addresses of the handlers, the task and its segment, any
devices and any mask left by the BIOS:

- What is encoded is what the processor decodes: `EncodedIsDecoded` for the eight bytes of
  any descriptor (base and limit taken apart and put together from their digits,
  `Digits`), `GateDecodes` for the two words of any gate, `SegmentIsEntry` and `GateLeads`
  for their place in the tables. Each vector's gate was written for a handler
  declared for its frame (`VectorsLead`), and `NothingLeads` says where there is none.
- `Invariance`: `DInv`. The GDT is the encoding of the entries added so far, the last
  one busy after `ltr` (`GDTOK`); the limit in force is that of the last
  `RefreshGDT`; the masks are those of each step of `kmain` (`PICOK`); the flag is set
  only before `cli` and after `sti`, and in between nobody but `kmain` runs
  unless there was an exception (`CPUOK`).
- `SelectorsStayNamed`, `VectorsAlwaysReach`, `LinesAlwaysServed`: the invariants of the run. The last
  needs all of `DInv`: a line is served because its mask is open only when its gate is
  in place, its selector is in the table, and the chip's base is the gate's.

`Keyboard_proofs`, for any firmware settings, scan sets, keys (no lock key an ordinary
one) and any number of disturbances: `Invariance`, `AnswersInStep` (`InStep`),
`ComesUpWorking` (`ComesUp`) and `PressesPrinted` (`PrintsPresses`). `KInv` has three parts.
`Undisturbed` says, for each step reached without a disturbance, what is on its
way, which command the keyboard waits for the argument of, and which scan set it is in;
`CommandInv` and `DriverReadInv` are the two shapes a step has. `Typed` holds
disturbed or not: before the handler runs only answers are on their way, and no
answer is a break code. That is what the third part stands on: `KeysFollow`, behind a
break code there are only keys' bytes, and `Recovered`, from an ordinary release on
`isBreak` says whether the last byte was a break code.

`Kernel_proofs`, its first part, for any `Work`: `TypeCorrect`, `EOICorrect`, `ClockNeverStops` and
`NoByteForgotten`, from `Invariance` of their conjunction. They are proved
together because a request is kept across a step only if no handler is between
two of its own, and that is what `EOIsMatch` says: with the flag set nothing
is in service (`FlagMeansMain`).

`Kernel_proofs`, its second part, for a screen of any size, handlers with any strings and messages
of any length that are `WellFormed` (`TextAssumption`):

- The console is made of folds: `WriteString` over a string, `Layout` over a text, `Format`
  over a format's positions. The library's fold is a recursive function on the sets of
  positions that are done, and the induction theorems cannot be used. So all three are turns of one
  generic loop (`Turn`), for which it is proved once that the recursive
  function exists, that any two agree, and that a longer sequence is one more turn
  (`LoopExists`, `LoopsAgree`, `FoldStep`), each from the least number for which it would fail
  (`LeastNat`). What follows are the equations that one would like to
  start from: `WrittenAppend`, `LayoutAppend`, `FormatTurn`.
- `FormatIs`: what `kprintf` writes is what the message says. `putNumber` puts the digits
  in front one by one and `Numeral` counts its digits first and takes them from
  the highest; `NumberIs` shows that they are the same, by `LongNumeral`: a numeral is its quotient's and
  one more digit. `Begun` says what the loop over pairs of characters has put
  into the buffer before each turn, and which arguments it has left: those
  that the signs behind it name (`NamedIs`).
- `PutCharShows`: a memory that shows a layout shows, after `WriteCharacterToScreen`, the layout
  with one character more. `Shows(m, lay, exact)` is by rows and columns: the cells of a line
  hold its characters, and the cells behind its end are blank if `exact`. The
  scroll is deferred, so that a full screen whose next line is not begun, and
  the scrolled one with that line empty (`Opened`), show the same text.
- `ScreenInvariance`: `ScreenInv`. The cursor's bounds alone are not inductive, as a store is in bounds only if
  the screen was scrolled at its end exactly; nor is what an idle screen shows (`Settled`), as the main thread has steps
  between. `Progress` says for each step which layout is on the screen: at a character's start that
  of what is done; within `ScrollUp` some memory with that layout, of which the cells below the index
  are scrolled (`HalfScrolled`: a turn reads a cell that no turn has
  written yet); after a store the layout with the character, the cursor one behind. A
  handler's string between two characters lies behind the main thread's cursor
  (`reg <= cursor`), where no character of the text is (`InkBelow`), so `exact` is lost and the
  text is not. `Cleared` says which cells the clearing loop has passed.
- `CursorStaysOnScreen`, `TextShown`, `TextStaysInPlace`: the invariants of the run.

`Loader_proofs`, for machines of any size (within 256 buses, 32 slots, 8 functions), any room for
records and any number of slots in the list:

- `ProtectedSafe`: from two invariants that are inductive apart.
  `SectorsInPlace` says which sectors are in memory at each step, the load loops'
  counters included (`SectorsGrow` is one turn of a loop); `Ready` says from which
  step on the line, the header and the interrupt flag are as they must be.
- `RecordsStayApart`: from `Scan`. The records of the devices lie in the pages that are free
  at the start and apart because each was put below all before it (`RecordAdded`), and
  nothing is listed before the region's size is known.
- `EveryDeviceListed` (`EnumeratesAll`): from `Listed`, which says that the list has
  the functions that precede the current one in the order of the scan
  (`Precedes`), each once. It needs to know where the scan can be: past function 0 only
  of a slot that is there and has several (`ScanPasses`). That there are as many
  entries as functions is a bijection between the two (`CountsList`).
- `OverrunsOnTooMany`: from the same two. Every record and every slot is paid for by
  one function that the scan has passed (`RecordsPaid`), and what the list has and the
  function at hand are among those to be found (`ListReaches`), so that an overrun needs one more than there is
  room for; and a scan that halts has listed them all.
- `TypeCorrect`: the groups of variables one by one. `Counted` is why the A20
  attempts stay in bounds: each method is entered with one value of the counter.

`FatImage_proofs`, for any disk whose clusters have numbers below the end mark, files of any
size and trees of any length:

- `Invariance`: `FInv`. As long as nobody got too few clusters, every entry of the root
  has a chain of its own (`OwnChains`): it begins where the entry says, each cluster
  leads to the next and the last is marked, no cluster stands on two, and those of
  a file hold its bytes (`Sound`). A new chain is made of free clusters, whose
  FAT entries are empty, so it neither breaks nor meets another (`ChainKept`).
  Once somebody did get too few, its chain ended in entry 0 and the
  signature is gone for good (`SignatureGoes`).
- `TooSmallRefused`, `NothingShared`, `FilesReadBack`: the invariants of the run. The
  third claims the bytes of files of any size, and the size in the entry where it fits (`SmallUncut`). The
  last two need that a reader comes along the chain that was written (`Followed`,
  `ReadChain`). `ChainFrom` is a recursive function, and what it computes is proved in
  two steps: the chain in hand satisfies its equation, so that there is
  such a function, and any two agree, because there is no least place where they
  differ (`LeastNat`).
- The n-th free cluster is the one with n - 1 free ones below it, and there is one
  because such counts are injective (`Ranked`).

`MemoryMap_proofs`, for any page size and number of regions (a kernel region of whole
pages, as `memory.h:17-19` has it, and room for the list of a whole address space:
what a longer list overwrites is not modelled):

- `Invariance`: `MInv`. The descriptors in the table are the regions (`TableRead`); for
  maps in order the list is ordered and starts at 0 (`Listed`), has a page for
  every address below `prevRegionEndAddr` (`Covers`) and calls only RAM usable
  (`Ram`). `splitRegion` keeps that whether its piece is a hole or a region, because
  either starts where the list ends (`ListGrows`). For maps of whole pages `AlignedSound` has more:
  page i is at address i pages (`Exact`), and has its region's state until the
  kernel's memory is reserved (`StatesKept`).
- `ListIsMapAlways` and `AlignedMapsBoot` are the run's first two invariants. The second has to say
  what is left when `reserverKernelMemory` has run: a region is a run of pages (`RegionIsRun`), and
  a run the kernel takes to its last page is not longer than what it asks for,
  because that page is taken only when those before it are too few (`TakenRun`);
  the walk runs off the list only when it has taken all there is (`TakesAll`).
- `SearchAlwaysFinds`: where the binary search ends is a function of the bases (`Answer`), and
  one turn of the loop does not change it (`TurnAnswers`). The recursive function is
  met as in FatImage: `Answer` satisfies its equation, and there is no shortest
  interval on which two solutions differ (`SearchEnds`).

`KStdLib_proofs`, for any page size, number of pages, table capacity, keys, items and
contents of RAM at the start that `StdLibAssumption` admits:

- `Invariance`: until a wild pointer is followed, memory has a shape (`Sound`). The
  vector's words are the stack, in a run of pages (`VectorIn`). The table has a page, and
  each key one for its list and one for its node, all different, none free, none the
  vector's (`Apart`). A bucket leads from list to list and ends in NULL (`Linked`),
  in an order that has each of its keys once (`Kept`), and each list leads to its key and
  value (`Filled`). Pages that are lost, `Hash`'s and replaced nodes, are in none of
  these sets, and nobody writes there.
- On this shape the walk of a bucket meets the lists of its keys and ends
  (`BucketIs`): there are no more of them than pages, because their pages differ (`FewKeys`).
  What is a recursive function in the model is met as in FatImage. So `Insert`
  finds the list of a key if there is one (`HoldingIs`), and `Get` its value (`LookupIs`).
- Writing to pages of others changes neither the table nor the vector (`TableKept`,
  `VectorKept`), and `new` takes free pages. What remains is each operation's own
  words: a push in place or to a new run of pages (`PushInPlaceSound`,
  `ExpandAndPushSound`; pages that are no run make the status wild), a list's new
  node (`Replaced`), a new list behind the last (`Added`).
- `VectorIsStackAlways` and `TableIsMapAlways`: the invariants of the run. They claim
  nothing once a pointer was wild, because nothing can be.

Only model-checked: all liveness (`ClockTicks`, `ByteRead`, `BootEnds` of
Loader, `InitEnds`), because fairness and ENABLED are beyond the prover.

## 5. What is not modelled

- What the fixed addresses of the kernel's other tables hold against the
  allocator (`docs/memory_layout.txt`): `TablesReserved` is about the page tables;
  the GDT at 4 MB, the page list and the IDT lie in RAM nothing reserves just so.
- User mode: the task's stack (whose address is that of a temporary, `tss.cpp:8`),
  and the second address space it would need.
- In PS2: `resetDevices`, `resetPort1`, `resetPort2`, `resetPC` and `testPorts` (no
  caller). The Pause key's bytes.
- Colours and wording of what is printed; numbers of more than 31 bits in formats
  (TLC's integers end there); the kernel loader's copies of the formatter and of
  the screen (`format.c`, `screen.c`).
- In the FAT tool: the search below the root (its parent is always "."), name
  collisions of 8.3 names, the boot sector's fields, what a listing prints.
- APIC (compiled out), ACPI (its constructor call is commented out), PCI, CPUID,
  tasks (a stub): straight-line set-up or read-only.
- In the boot: the early loader's segment registers and messages, machines
  without any RAM region (where `malloc` returns 0), BIOSes without a keyboard
  controller, what `configure_generic` and its kin read into a device's record.
- In the kernel library: `DriversRepo` (empty), and tables or vectors of anything but ints.
