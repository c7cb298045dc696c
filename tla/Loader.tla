-------------------------------- MODULE Loader --------------------------------
(***************************************************************************)
(* The whole boot: BootLoader, and the third stage it jumps to, the        *)
(* kernel loader in C (src/boot/qbekloader), which keeps an allocator      *)
(* that only takes, and lists the PCI functions of the machine.            *)
(*                                                                         *)
(* A function of the machine is a triple <<bus, device, function>>, and    *)
(* its function 0 a slot.  The allocator takes pages from the end of its   *)
(* region; they are counted from the highest address below which something *)
(* else is kept there, and a record of a device takes one.                 *)
(***************************************************************************)
EXTENDS BootLoader, Sequences, FiniteSets

CONSTANTS
  MaxBus, MaxDev, MaxFunc,  \* bounds: 255, 31 and 7 in the code
  MachineFunctions,         \* the functions a machine may have
  StrangeFunctions,         \* those that may have an unknown header
  MAX_DEV_COUNT,            \* the slots of the list: 256 in the code
  RamPages                  \* how many pages nothing else uses at the end of
                            \* the first RAM region: 31 on a PC, where the boot
                            \* header ends at 0x80000 and the region at 0x9fc00

ASSUME BoundsAssumption ==
  MaxBus \in 0 .. 255 /\ MaxDev \in 0 .. 31 /\ MaxFunc \in 1 .. 7

Functions == (0 .. MaxBus) \X (0 .. MaxDev) \X (0 .. MaxFunc)
Slots == (0 .. MaxBus) \X (0 .. MaxDev) \X {0}

ASSUME MachineAssumption ==
  /\ MachineFunctions \subseteq Functions
  /\ StrangeFunctions \subseteq Functions
  /\ MAX_DEV_COUNT \in Nat
  /\ RamPages \subseteq Nat

VARIABLES
  present, \* the functions the machine has
  multi,   \* the slots whose header says that there are more functions
  strange, \* the functions whose header is of none of the kinds known
  ram,     \* the pages nothing else uses at the end of the first RAM region
  sizeb,   \* how many of them are left
  at,      \* the function the enumeration looks at
  devices  \* the list: records [dev, page]

machineVars == <<present, multi, strange, ram>>
qbekVars == <<machineVars, sizeb, at, devices>>
vars == <<bootVars, qbekVars>>

LoaderStopped == {"noPCI", "unsupported", "halted"}
Stopped == BootStopped \union LoaderStopped

Init ==
  /\ BootInit
  /\ present = {} /\ multi = {} /\ strange = {}
  /\ ram = 0 /\ sizeb = 0
  /\ at = <<0, 0, 0>>
  /\ devices = <<>>

-----------------------------------------------------------------------------
\* parse_boot_hdr and init_memory; the machine is looked at from here on.
ParseBootHdr ==
  /\ pc = "parseBootHdr"
  /\ present' \in SUBSET MachineFunctions
  /\ multi' \in SUBSET Slots
  /\ strange' \in SUBSET StrangeFunctions
  /\ ram' \in RamPages /\ sizeb' = ram'
  /\ pc' = "initPCI"
  /\ UNCHANGED <<a20Vars, diskVars, header, at, devices>>

is_pcie_supported == header.pci /\ header.mech = 1

InitPCI ==
  /\ pc = "initPCI"
  /\ pc' = IF is_pcie_supported THEN "enumerate" ELSE "noPCI"
  /\ UNCHANGED <<a20Vars, diskVars, header, qbekVars>>

\* What read_conf tells: that there is such a function, that its header says
\* there are more in the slot, and that its header is of a known kind.
Answers(f) == f \in present
is_multifunc(f) == f \in multi
KnownHeader(f) == f \notin strange

\* The loops of enumerate_devices: the first function of the next slot, and
\* the next function of this one.
NextSlot ==
  IF at[2] < MaxDev THEN <<at[1], at[2] + 1, 0>> ELSE <<at[1] + 1, 0, 0>>

GoTo(f) ==
  /\ at' = f
  /\ pc' = IF f[1] <= MaxBus THEN "enumerate" ELSE "halted"

GoToNextSlot == GoTo(NextSlot)

GoToNextFunction ==
  IF at[3] < MaxFunc THEN GoTo(<<at[1], at[2], at[3] + 1>>) ELSE GoToNextSlot

\* After a function: a slot goes on past function 0 when that one's header
\* says so, and then to the end.
GoOn(f) ==
  IF f[3] # 0 \/ is_multifunc(f) THEN GoToNextFunction ELSE GoToNextSlot

\* Mutant: the size is rounded up to one page more.
MallocTwo == sizeb' = sizeb - 2

\* malloc of a record: the last page of the region is taken off it, without
\* a look at what is left.
malloc == sizeb' = sizeb - 1

\* The next free slot of the list.
last_dev_idx == Len(devices)

\* add_device: the record is taken and filled; a header of a kind it does
\* not know panics before the record is in the list.  A record below the
\* free pages is written over what is there, an entry behind the last slot
\* over what is behind the list: nothing is known from then on ("wild").
AddDevice(f) ==
  /\ malloc
  /\ \/ /\ sizeb' < 0
        /\ pc' = "wild"
        /\ UNCHANGED <<at, devices>>
     \/ /\ sizeb' >= 0 /\ ~KnownHeader(f)
        /\ pc' = "unsupported"
        /\ UNCHANGED <<at, devices>>
     \/ /\ sizeb' >= 0 /\ KnownHeader(f) /\ last_dev_idx >= MAX_DEV_COUNT
        /\ pc' = "wild"
        /\ UNCHANGED <<at, devices>>
     \/ /\ sizeb' >= 0 /\ KnownHeader(f) /\ last_dev_idx < MAX_DEV_COUNT
        /\ devices' = Append(devices, [dev |-> f, page |-> sizeb'])
        /\ GoOn(f)

\* Mutant: the first function that is absent ends the slot.
SkipRest(f) ==
  /\ GoToNextSlot
  /\ UNCHANGED <<sizeb, devices>>

\* A function that is absent: function 0 ends its slot.
SkipDevice(f) ==
  /\ IF f[3] = 0 THEN GoToNextSlot ELSE GoToNextFunction
  /\ UNCHANGED <<sizeb, devices>>

\* One turn of the loops of enumerate_devices.
EnumerateDevice ==
  /\ pc = "enumerate"
  /\ IF Answers(at) THEN AddDevice(at) ELSE SkipDevice(at)
  /\ UNCHANGED <<a20Vars, diskVars, header, machineVars>>

QbekStep == ParseBootHdr \/ InitPCI \/ EnumerateDevice

Next ==
  \/ (LoaderStep \/ KbcStep) /\ UNCHANGED qbekVars
  \/ QbekStep

\* The processor goes on, and the keyboard controller takes what is written
\* to it and answers.
Fairness ==
  /\ WF_vars(LoaderStep /\ UNCHANGED qbekVars)
  /\ WF_vars(QbekStep)
  /\ WF_vars(KbcTakes /\ UNCHANGED qbekVars)
  /\ WF_vars(KbcAnswers /\ UNCHANGED qbekVars)

Spec == Init /\ [][Next]_vars /\ Fairness

-----------------------------------------------------------------------------
(* Properties *)

\* Types: the enumeration stays within the buses, devices and functions.
TypeOK ==
  /\ pc \in BootSteps \union Stopped \union
              {"parseBootHdr", "initPCI", "enumerate", "wild"}
  /\ BootTypeOK
  /\ present \subseteq MachineFunctions /\ multi \subseteq Slots
  /\ strange \subseteq StrangeFunctions
  /\ ram \in Nat /\ sizeb \in Int
  /\ at \in (0 .. (MaxBus + 1)) \X (0 .. MaxDev) \X (0 .. MaxFunc)
  /\ devices \in Seq([dev : Functions, page : Int])

\* The sectors the two stages read, up to n, where their numbers put them.
Sectors(n) == {<<s, 33792 + 512 * (s - 2)>> : s \in 2 .. n}

\* Protected mode, where no BIOS handler works any more, is entered with
\* interrupts off, the line on and the header filled in, whatever the
\* hardware answered on the way.  The load loops of both stages read one
\* sector more than they count; the last one of the first loop lies under
\* the first one of the second, and is the same: every sector is in memory
\* once, at the place its number gives it.
ProtectedSafely ==
  pc \in {"parseBootHdr", "initPCI", "enumerate"} \union LoaderStopped =>
    /\ ~iflag
    /\ a20
    /\ header.memory /\ header.pci /\ header.mech \in {1, 2}
    /\ placed = Sectors(66)

\* The functions a scan can find: those whose function 0 answers, and says
\* that there are more of them.
SlotOf(f) == <<f[1], f[2], 0>>
Reachable ==
  {f \in present : SlotOf(f) \in present /\ (f[3] = 0 \/ SlotOf(f) \in multi)}

\* The records of the devices lie in the pages that nothing else uses, and
\* apart from each other.
RecordsApart ==
  \A i, j \in DOMAIN devices :
    /\ devices[i].page \in 0 .. (ram - 1)
    /\ i # j => devices[i].page # devices[j].page

\* When the loader halts it lists every function a scan can find, and each
\* once; and a record in the list was never written over another one, nor
\* over anything else.
EnumeratesAll ==
  /\ RecordsApart
  /\ pc = "halted" =>
       /\ {devices[i].dev : i \in DOMAIN devices} = Reachable
       /\ Len(devices) = Cardinality(Reachable)

\* malloc and add_device check neither what is left of the region nor how
\* many slots the list has.  That goes wrong only on machines that have more
\* functions to be found than pages or slots, and there the loader never gets
\* to its halt: each function costs one page and one slot.
OverrunsOnlyIfTooMany ==
  LET TooMany == \E room \in {ram, MAX_DEV_COUNT} : Cardinality(Reachable) > room
  IN  /\ pc = "wild" => TooMany
      /\ pc = "halted" => ~TooMany

\* The boot ends: in the halt of the loader or in one of the failures.  After
\* a store where the loader has no room nothing is claimed.
BootEnds == <>(pc \in Stopped \union {"wild"})
=============================================================================
