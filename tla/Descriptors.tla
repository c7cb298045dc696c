----------------------------- MODULE Descriptors -----------------------------
(***************************************************************************)
(* The tables the processor reads behind the kernel's back, and kmain's    *)
(* order of setting them up with the interrupt controller: classes GDT,    *)
(* TSSManager, IDT and IDTEntry, the handlers of interrupt_32.cpp, class   *)
(* PIC with both of its chips, and kmain of src/src/kernel.cpp.            *)
(*                                                                         *)
(* The tables hold words (module Words).  Fault(v) is an exception or an   *)
(* NMI, at any time: what makes the kernel fault is not in the model, only *)
(* where it ends.  A handler's body is one step here; what the handlers of *)
(* lines 0 and 1 do in between is in Interrupts, and what the steps of     *)
(* kmain between those below do is in VirtMem, PS2 and Keyboard.           *)
(***************************************************************************)
EXTENDS Words, Sequences

CONSTANTS
  Address,    \* where the code of each handler is
  TSSAddress, \* where the task is that TSSManager builds
  TSSLimit,   \* sizeof(tss)
  Devices     \* the lines something may raise

-----------------------------------------------------------------------------
(* The handlers *)

\* interruptVector names the handlers of these vectors; the others it has
\* are BadInterrupt up to 47 and BadHRDWRInterrupt from 50 on.
Named ==
  [DivZero |-> 0, DebugException |-> 1, NMI |-> 2, Breakpoint |-> 3,
   Overflow |-> 4, BoundRangeExceeded |-> 5, InvalidOpcode |-> 6,
   DeviceNotAbailable |-> 7, DoubleFault |-> 8, InvalidTSS |-> 10,
   SegmentNotPresent |-> 11, StackSegmentFault |-> 12,
   GeneralProtectionFault |-> 13, PageFault |-> 14, MathFault |-> 16,
   AligmentCheckFault |-> 17, MachineCheckFault |-> 18, SIMDFault |-> 19,
   VirtualizationFault |-> 20, ControlProtectionException |-> 21,
   CMCIHandler |-> 32, TimerHandler |-> 33, PMCHandler |-> 34,
   LINT0Handler |-> 35, LINT1Handler |-> 36, APICErrHandler |-> 37,
   PITTimerHandler |-> 48, KeyboardHandler |-> 49]

interruptVector ==
  [v \in 0 .. 63 |->
     IF \E h \in DOMAIN Named : Named[h] = v
     THEN CHOOSE h \in DOMAIN Named : Named[h] = v
     ELSE IF v < 50 THEN "BadInterrupt" ELSE "BadHRDWRInterrupt"]

Handlers ==
  DOMAIN Named \union {"BadInterrupt", "BadHRDWRInterrupt", "SpuriousHandler"}

\* Those declared with an error code, which their iret would drop.
TakesErrCode ==
  {"DoubleFault", "InvalidTSS", "SegmentNotPresent", "StackSegmentFault",
   "GeneralProtectionFault", "PageFault", "AligmentCheckFault",
   "ControlProtectionException"}

\* Those that print and return; the others panic.
Returns ==
  {"TimerHandler", "LINT0Handler", "LINT1Handler", "PMCHandler",
   "CMCIHandler", "SpuriousHandler", "APICErrHandler", "PITTimerHandler",
   "KeyboardHandler"}

ASSUME AddressAssumption ==
  /\ Address \in [Handlers -> SUBSET (0 .. 31)]
  /\ \A h, k \in Handlers : Address[h] = Address[k] => h = k
ASSUME TaskAssumption ==
  TSSAddress \subseteq 0 .. 31 /\ TSSLimit \subseteq 0 .. 19
ASSUME DeviceAssumption == Devices \subseteq 0 .. 15

VARIABLES
  pc,      \* the next step of kmain
  cpu,     \* main, a handler, or how the machine stopped
  iflag,   \* the processor's interrupt flag
  gdt,     \* the entries written, each its eight bytes
  countEntries, \* of class GDT
  gdtr,    \* the limit in force, or NoTable: the loader's is
  tr,      \* currTaskSelector, which ltr loads; 0 before
  idt,     \* the gates written
  idtr,    \* the limit in force, or NoTable
  base,    \* the first vector of each chip of the interrupt controller
  irr, isr, imr, \* its request, in-service and mask registers
  faulted  \* history: an exception was raised

tables == <<gdt, countEntries, gdtr, tr, idt, idtr>>
pic == <<base, irr, isr, imr>>
vars == <<pc, cpu, iflag, tables, pic, faulted>>

NoTable == -1

-----------------------------------------------------------------------------
(* The GDT *)

SEGMENT_KERNEL_CODE == {7, 4, 3, 1}
SEGMENT_KERNEL_DATA == {7, 4, 1}
SEGMENT_USER_CODE == {7, 6, 5, 4, 3, 1}
SEGMENT_USER_DATA == {7, 6, 5, 4, 1}
SEGMENT_FLAGS_DEFAULT == {3, 2}

ConstructGDTEntry(start, limit, access, flags) ==
  [base |-> start, limit |-> limit, access |-> access, flags |-> flags]

ConstructTSSKernEntry(start, limit) ==
  ConstructGDTEntry(start, limit, {7, 3, 0}, {2})

\* Those of the constructor, in its order.
BootEntries ==
  LET flat(start, access) ==
        ConstructGDTEntry(start, 0 .. 19, access, SEGMENT_FLAGS_DEFAULT)
      user == {23, 22} \* 0x00c00000
  IN  <<ConstructGDTEntry({}, {}, {}, {}),
        flat({}, SEGMENT_KERNEL_CODE), flat({}, SEGMENT_KERNEL_DATA),
        flat(user, SEGMENT_USER_CODE), flat(user, SEGMENT_USER_DATA)>>

\* Mutant: the flags are stored over the limit's last bits.
encodeEntryOver(e) ==
  <<Byte(e.limit, 0), Byte(e.limit, 1), Byte(e.base, 0), Byte(e.base, 1),
    Byte(e.base, 2), e.access, Shift(e.flags, 4), Byte(e.base, 3)>>

\* encodeEntry: the bytes of an entry.
encodeEntry(e) ==
  <<Byte(e.limit, 0), Byte(e.limit, 1), Byte(e.base, 0), Byte(e.base, 1),
    Byte(e.base, 2), e.access,
    Field(Shift(e.flags, 4), 0, 7) \union Field(Byte(e.limit, 2), 0, 3),
    Byte(e.base, 3)>>

\* AddGDTEntry; its selector is countEntries << 3.  There is room for 1 MB.
AddGDTEntry(e) ==
  /\ gdt' = Append(gdt, encodeEntry(e))
  /\ countEntries' = (countEntries + 1) % 256

\* RefreshGDT: the limit is eight times the size of the table.  It turns
\* interrupts off and loads the kernel's selectors.
RefreshGDT ==
  /\ gdtr' = (8 * 8 * countEntries) % 2^16
  /\ iflag' = FALSE

\* What the processor reads at a selector; no segment beyond the limit.
Segment(sel) ==
  LET i == sel \div 8
      Bits(n) == IF n \in 0 .. 7 THEN gdt[i + 1][n + 1] ELSE {}
  IN  IF i \in 1 .. (Len(gdt) - 1) /\ 8 * i + 7 <= gdtr
      THEN [base |-> Bits(2) \union Shift(Bits(3), 8) \union
                     Shift(Bits(4), 16) \union Shift(Bits(7), 24),
            limit |-> Bits(0) \union Shift(Bits(1), 8) \union
                      Shift(Field(Bits(6), 0, 3), 16),
            access |-> Bits(5),
            flags |-> Shift(Field(Bits(6), 4, 7), -4)]
      ELSE ConstructGDTEntry({}, {}, {}, {})

IsCode(sel) == {7, 4, 3} \subseteq Segment(sel).access

-----------------------------------------------------------------------------
(* The IDT *)

GDT_KERNEL_CODE_DESCRIPTOR_SEL == 8
GATE_32INTR_F == {15, 11, 10, 9}

\* SetOffset, SetSegment and SetFlags of an IDTEntry.
IDTEntryWith(offset, segment, flags) ==
  [offsetLow |-> Field(offset, 0, 15),
   offsetHigh |-> Shift(Field(offset, 16, 31), -16),
   segment |-> segment, flags |-> flags]

\* GetOffset.
GetOffset(e) == Shift(e.offsetHigh, 16) \union e.offsetLow

\* EncodeEntryAt: two words of memory, the second the higher one.
EncodeEntryAt(e) ==
  LET offsetAndSegment == Shift(e.segment, 16) \union e.offsetLow
      offsetAndFlags == Shift(e.offsetHigh, 16) \union e.flags
  IN  offsetAndSegment \union Shift(offsetAndFlags, 32)

\* The constructor that takes the 64 bits.
IDTEntry(w) ==
  [offsetLow |-> Field(w, 0, 15),
   segment |-> Shift(Field(w, 16, 31), -16),
   flags |-> Field(Shift(Field(w, 32, 47), -32), 8, 15),
   offsetHigh |-> Shift(Field(w, 48, 63), -48)]

testIDTEntry ==
  LET e == IDTEntry(EncodeEntryAt(
             IDTEntryWith(Hex(<<15, 15>>), BitsOf(8), Hex(<<4, 14, 0, 0>>))))
  IN  /\ e.flags = Hex(<<4, 14, 0, 0>>) /\ e.segment = BitsOf(8)
      /\ GetOffset(e) = Hex(<<15, 15>>)

Gate(handler) ==
  EncodeEntryAt(IDTEntryWith(Address[handler],
                  BitsOf(GDT_KERNEL_CODE_DESCRIPTOR_SEL), GATE_32INTR_F))

countDefinedInterrupts == 63

\* Mutant: the second loop starts from 0 again.
IDTTableAgain ==
  [v \in 0 .. 254 |->
     Gate(IF v < 254 THEN interruptVector[9] ELSE "SpuriousHandler")]

\* The gates that the constructor of IDT writes; 255 has none.
IDTTable ==
  [v \in 0 .. 254 |->
     Gate(IF v < countDefinedInterrupts THEN interruptVector[v]
          ELSE IF v < 254 THEN interruptVector[9] ELSE "SpuriousHandler")]

SelectorAt ==
  [s \in {BitsOf(8 * i) : i \in 1 .. 5} |->
     CHOOSE n \in {8 * i : i \in 1 .. 5} : BitsOf(n) = s]

\* A gate the processor accepts: below the limit, present, of the type of a
\* 32-bit interrupt gate, and to a code segment.
Accepted(v) ==
  /\ 8 * v + 7 <= idtr
  /\ Field(idt[v], 40, 47) = Shift(GATE_32INTR_F, 32)
  /\ LET s == Shift(Field(idt[v], 16, 31), -16)
     IN  s \in DOMAIN SelectorAt /\ IsCode(SelectorAt[s])

HandlerAt == [a \in {Address[h] : h \in Handlers} |->
                CHOOSE h \in Handlers : Address[h] = a]

\* What the processor runs for a gate.
Target(v) ==
  LET offset == Field(idt[v], 0, 15) \union Shift(Field(idt[v], 48, 63), -32)
  IN  IF offset \in DOMAIN HandlerAt THEN HandlerAt[offset] ELSE "reset"

\* Where an interrupt or exception ends up: without a gate, in that of the
\* general protection fault, and without that the processor resets.
Outcome(v) ==
  IF Accepted(v) THEN Target(v)
  ELSE IF Accepted(13) THEN Target(13) ELSE "reset"

-----------------------------------------------------------------------------
(* The interrupt controller *)

Slave == 8 .. 15

\* Initialize: both chips forget their requests and their masks.
InitializePIC ==
  /\ base' = [master |-> 48, slave |-> 56]
  /\ irr' = {} /\ isr' = {} /\ imr' = {}

\* Mutant: the master's lines stay as they are.
CLISlave == imr' = imr \union Slave

CLI == imr' = 0 .. 15

\* EnableInterrupt and DisableInterrupt.  For a line of the slave they read
\* the master's mask, and write it to the slave.
MaskRead(n) == IF n < 8 THEN imr \ Slave ELSE {k + 8 : k \in imr \ Slave}

MaskWritten(n, mask) ==
  imr' = mask \union (IF n < 8 THEN imr \intersect Slave ELSE imr \ Slave)

EnableInterrupt(n) == MaskWritten(n, MaskRead(n) \ {n})

DisableInterrupt(n) == MaskWritten(n, MaskRead(n) \union {n})

\* The order in which the chips serve their lines; 2 stands for the slave.
Priority(n) == IF n < 2 THEN n ELSE IF n \in Slave THEN n - 6 ELSE n + 7

Pending ==
  {n \in irr \ imr : /\ n \in Slave => 2 \notin imr
                     /\ \A k \in isr : Priority(n) < Priority(k)}

VectorOf(n) ==
  IF n \in Slave THEN base.slave + n - 8 ELSE base.master + n

\* What an end of interrupt ends: the chip's first line in service.
Ended(lines) == {n \in lines : \A k \in lines : Priority(n) <= Priority(k)}

\* SendEOI: the slave gets one only above line 8.
SendEOI(n) ==
  LET ended == Ended(isr \ Slave) \union
               (IF n > 8 THEN Ended(isr \intersect Slave) ELSE {})
  IN  isr' = isr \ ended

-----------------------------------------------------------------------------
(* The processor *)

Stopped == {"panicked", "reset"}

\* A device raises its line.
RaiseLine(n) ==
  /\ cpu \notin Stopped
  /\ n \notin irr
  /\ irr' = irr \union {n}
  /\ UNCHANGED <<pc, cpu, iflag, tables, base, isr, imr, faulted>>

\* A request is taken between two instructions, through an interrupt gate.
Accept(n) ==
  /\ cpu = "main" /\ iflag
  /\ n \in Pending
  /\ \A k \in Pending : Priority(n) <= Priority(k)
  /\ cpu' = Outcome(VectorOf(n))
  /\ iflag' = FALSE
  /\ irr' = irr \ {n}
  /\ isr' = isr \union {n}
  /\ UNCHANGED <<pc, tables, base, imr, faulted>>

Exceptions == (0 .. 21) \ {9, 15}

Fault(v) ==
  /\ cpu \notin Stopped
  /\ cpu' = Outcome(v)
  /\ iflag' = FALSE
  /\ faulted' = TRUE
  /\ UNCHANGED <<pc, tables, pic>>

\* A handler panics, or returns with the flag as it was.  Two of them send
\* an end of interrupt to this controller.
Handle ==
  /\ cpu \in Handlers
  /\ IF cpu \in Returns
     THEN cpu' = "main" /\ iflag' = TRUE
     ELSE cpu' = "panicked" /\ iflag' = iflag
  /\ CASE cpu = "PITTimerHandler" -> SendEOI(0)
       [] cpu = "KeyboardHandler" -> SendEOI(1)
       [] OTHER -> isr' = isr
  /\ UNCHANGED <<pc, tables, base, irr, imr, faulted>>

-----------------------------------------------------------------------------
(* kmain *)

After ==
  [cli |-> "gdt", refresh |-> "tss", tss |-> "refreshTSS",
   refreshTSS |-> "ltr", ltr |-> "idt", idt |-> "lidt", lidt |-> "pic",
   pic |-> "mask", mask |-> "pit", pit |-> "keyboard",
   keyboard |-> "picAgain", picAgain |-> "maskAgain",
   maskAgain |-> "enable1", enable1 |-> "enable0", enable0 |-> "sti",
   sti |-> "running"]

Runs(step) == cpu = "main" /\ pc = step

Step(step) == Runs(step) /\ pc' = After[step] /\ cpu' = cpu

\* Whoever started the kernel left the controller as the BIOS has it.
Init ==
  /\ pc = "cli" /\ cpu = "main" /\ iflag \in BOOLEAN
  /\ gdt = << >> /\ countEntries = 0 /\ gdtr = NoTable /\ tr = 0
  /\ idt = << >> /\ idtr = NoTable
  /\ base = [master |-> 8, slave |-> 112]
  /\ irr = {} /\ isr = {} /\ imr \in SUBSET Devices
  /\ faulted = FALSE

Cli ==
  /\ Step("cli")
  /\ iflag' = FALSE
  /\ UNCHANGED <<tables, pic>>

\* The constructor of GDT, an entry at a time.
SetupGDT ==
  \/ /\ Runs("gdt")
     /\ AddGDTEntry(BootEntries[Len(gdt) + 1])
     /\ pc' = IF Len(gdt) + 1 < Len(BootEntries) THEN "gdt" ELSE "refresh"
     /\ UNCHANGED <<cpu, iflag, gdtr, tr, idt, idtr, pic>>
  \/ /\ Step("refresh")
     /\ RefreshGDT
     /\ UNCHANGED <<gdt, countEntries, tr, idt, idtr, pic>>

\* The constructor of TSSManager.  ltr marks the entry busy, and faults on
\* one that is no task.
SetupTSS ==
  \/ /\ Step("tss")
     /\ tr' = countEntries * 8
     /\ AddGDTEntry(ConstructTSSKernEntry(TSSAddress, TSSLimit))
     /\ UNCHANGED <<iflag, gdtr, idt, idtr, pic>>
  \/ /\ Step("refreshTSS")
     /\ RefreshGDT
     /\ UNCHANGED <<gdt, countEntries, tr, idt, idtr, pic>>
  \/ /\ Runs("ltr")
     /\ pc' = After["ltr"]
     /\ IF Segment(tr).access = {7, 3, 0}
        THEN /\ gdt' = [gdt EXCEPT ![tr \div 8 + 1][6] = @ \union {1}]
             /\ cpu' = cpu
        ELSE gdt' = gdt /\ cpu' = Outcome(13)
     /\ UNCHANGED <<iflag, countEntries, gdtr, tr, idt, idtr, pic>>

\* The constructor of IDT.
SetupIDT ==
  \/ /\ Step("idt")
     /\ idt' = IDTTable
     /\ UNCHANGED <<iflag, gdt, countEntries, gdtr, tr, idtr, pic>>
  \/ /\ Step("lidt")
     /\ idtr' = 8 * 255
     /\ UNCHANGED <<iflag, gdt, countEntries, gdtr, tr, idt, pic>>

\* The controller is initialised and masked twice; in between the timer's
\* constructor masks line 0 and the keyboard's driver unmasks line 1.
SetupPIC ==
  /\ \/ (Step("pic") \/ Step("picAgain")) /\ InitializePIC
     \/ /\ \/ (Step("mask") \/ Step("maskAgain")) /\ CLI
           \/ Step("pit") /\ DisableInterrupt(0)
           \/ (Step("keyboard") \/ Step("enable1")) /\ EnableInterrupt(1)
           \/ Step("enable0") /\ EnableInterrupt(0)
        /\ UNCHANGED <<base, irr, isr>>
  /\ UNCHANGED <<iflag, tables>>

Sti ==
  /\ Step("sti")
  /\ iflag' = TRUE
  /\ UNCHANGED <<tables, pic>>

Boot ==
  /\ Cli \/ SetupGDT \/ SetupTSS \/ SetupIDT \/ SetupPIC \/ Sti
  /\ UNCHANGED faulted

Next ==
  \/ \E n \in Devices : RaiseLine(n) \/ Accept(n)
  \/ \E v \in Exceptions : Fault(v)
  \/ Handle
  \/ Boot

Spec == Init /\ [][Next]_vars

-----------------------------------------------------------------------------
(***************************************************************************)
(* Properties.                                                             *)
(***************************************************************************)

\* The selectors of gdt.h name the segments they are named for as soon as
\* the table is loaded and ever after: the processor reads back from the
\* bytes of encodeEntry what was put in, within the limit, also when an
\* entry is added later; and the task register is on the kernel's task.
SelectorsName ==
  gdtr # NoTable =>
    /\ \A i \in 1 .. 4 : Segment(8 * i) = BootEntries[i + 1]
    /\ pc \notin {"tss", "refreshTSS", "ltr"} /\ cpu # "reset" =>
         /\ tr = 40
         /\ Segment(tr) = [ConstructTSSKernEntry(TSSAddress, TSSLimit)
                             EXCEPT !.access = @ \union {1}]

\* The processor pushes an error code for these.
PushesErrCode == {8, 10, 11, 12, 13, 14, 17, 21}

\* From lidt on nothing resets the machine: each exception reaches a handler
\* declared for the frame the processor pushes, and it panics; each line of
\* the controller's vectors reaches its device's handler; no vector that
\* nobody asked for returns, the one without a gate included.
VectorsReach ==
  idtr # NoTable =>
    /\ testIDTEntry
    /\ \A v \in Exceptions :
         /\ Outcome(v) \in Handlers \ Returns
         /\ Outcome(v) \in TakesErrCode <=> v \in PushesErrCode
    /\ Outcome(48) = "PITTimerHandler" /\ Outcome(49) = "KeyboardHandler"
    /\ \A v \in (22 .. 255) \ ({254} \union (32 .. 37) \union {48, 49}) :
         Outcome(v) \in Handlers \ Returns

\* From kmain's cli on no device stops the machine, whatever line it raises
\* at whatever step of the boot, and whatever the BIOS left unmasked: a line
\* that is taken is one whose handler returns, and its service has ended
\* when interrupts are on again.
LinesServed ==
  pc # "cli" =>
    /\ cpu # "main" /\ ~faulted => cpu \in Returns \ TakesErrCode
    /\ iflag => isr = {}
=============================================================================
