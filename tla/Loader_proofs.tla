---------------------------- MODULE Loader_proofs ----------------------------
(***************************************************************************)
(* Theorems about Loader, for machines of any size: its types, the state   *)
(* in which protected mode is entered, the allocator of the third stage    *)
(* and the list its scan makes.                                            *)
(***************************************************************************)
EXTENDS Loader, FiniteSetTheorems, TLAPS

ThirdStage ==
  {"parseBootHdr", "initPCI", "enumerate", "wild"} \union LoaderStopped

\* What holds from the first step to the last of func_EnableA20, and after.
AfterA20 ==
  {"discoverMemory", "discoverPCI", "loadStage3", "prepareGDT", "protect"}
    \union ThirdStage

\* The sectors in memory at each step: both load loops are between their
\* first sector and the one after the last.
SectorsInPlace ==
  /\ pc \in {"resetDisk", "checkExtensions"} => placed = {}
  /\ pc = "loadStage2" =>
       cl \in 0 .. 2 /\ lba = 2 + cl /\ placed = Sectors(lba - 1)
  /\ pc \in {"stage2", "discoverMemory", "discoverPCI"} \union A20Steps =>
       placed = Sectors(4)
  /\ pc = "loadStage3" =>
       /\ cl \in 0 .. 62 /\ lba = 4 + cl
       /\ placed = Sectors(4) \union Sectors(lba - 1)
  /\ pc \in {"prepareGDT", "protect"} \union ThirdStage =>
       placed = Sectors(66)

\* The header is filled in on the way, the line is on after EnableA20, and
\* the interrupt flag is clear from PrepareGDT on.
ReadyInTime ==
  /\ pc \in AfterA20 => a20
  /\ pc \in AfterA20 \ {"discoverMemory"} => header.memory
  /\ pc \in AfterA20 \ {"discoverMemory", "discoverPCI"} =>
       header.pci /\ header.mech \in {1, 2}
  /\ pc \in {"protect"} \union ThirdStage => ~iflag

\* The records lie above what is left of the region, each at its own page.
RecordsStacked ==
  \A i, j \in DOMAIN devices :
    /\ devices[i].page >= sizeb
    /\ devices[i].page \in 0 .. (ram - 1)
    /\ i # j => devices[i].page # devices[j].page

\* Each function listed cost one page and one slot.
RecordsPaid ==
  /\ sizeb <= ram
  /\ pc \in {"initPCI", "enumerate", "halted"} =>
       /\ sizeb \in Nat
       /\ Len(devices) = ram - sizeb
       /\ Len(devices) <= MAX_DEV_COUNT
  /\ pc = "wild" => Len(devices) \in {ram, MAX_DEV_COUNT}

-----------------------------------------------------------------------------
\* Nothing is read before the first sector.
LEMMA SectorsEmpty == Sectors(1) = {}
BY DEF Sectors

\* One more sector read by a load loop.
LEMMA SectorsGrow ==
  ASSUME NEW n \in Nat, n >= 1
  PROVE  Sectors(n + 1) = Sectors(n) \union {<<n + 1, 33792 + 512 * (n - 1)>>}
<1>1. 2 .. (n + 1) = (2 .. n) \union {n + 1}
  OBVIOUS
<1>2. 33792 + 512 * (n - 1) = 33792 + 512 * ((n + 1) - 2)
  OBVIOUS
<1> QED
  BY <1>1, <1>2 DEF Sectors

\* What was read stays.
LEMMA SectorsMonotone ==
  ASSUME NEW n \in Nat, NEW m \in Nat, n <= m
  PROVE  Sectors(n) \subseteq Sectors(m)
BY DEF Sectors

-----------------------------------------------------------------------------
(* The sectors in memory: SectorsInPlace is inductive by itself. *)

\* The load loop of the boot sector.
LEMMA Stage2Loaded ==
  ASSUME SectorsInPlace, LoadStage2
  PROVE  SectorsInPlace'
<1> USE DEF LoadStage2, ReadSector, A20Steps, KbcSteps, ThirdStage, LoaderStopped
<1>1. cl \in 0 .. 2 /\ lba = 2 + cl /\ placed = Sectors(lba - 1)
  BY DEF SectorsInPlace
<1>2. CASE pc' = "bootFailure"
  BY <1>2 DEF SectorsInPlace
<1>3. CASE pc' # "bootFailure"
  <2>1. lba' = lba + 1 /\ cl' = cl + 1
        /\ placed' = placed \union {<<lba, 33792 + 512 * cl>>}
        /\ pc' = IF cl' <= 2 THEN "loadStage2" ELSE "stage2"
    BY <1>3
  <2>2. placed' = Sectors(lba)
    BY <1>1, <2>1, SectorsGrow, lba - 1 \in Nat, lba - 1 >= 1,
       (lba - 1) + 1 = lba, (lba - 1) - 1 = cl
  <2>3. placed' = Sectors(lba' - 1)
    BY <1>1, <2>1, <2>2, lba' - 1 = lba
  <2>4. CASE cl' <= 2
    <3>1. pc' = "loadStage2" /\ cl' \in 0 .. 2 /\ lba' = 2 + cl'
      BY <1>1, <2>1, <2>4
    <3> QED
      BY <3>1, <2>3 DEF SectorsInPlace
  <2>5. CASE ~(cl' <= 2)
    <3>1. pc' = "stage2" /\ lba = 4
      BY <1>1, <2>1, <2>5
    <3> QED
      BY <3>1, <2>2 DEF SectorsInPlace
  <2> QED
    BY <2>4, <2>5
<1> QED
  BY <1>2, <1>3

\* The load loop of the early loader.
LEMMA Stage3Loaded ==
  ASSUME SectorsInPlace, LoadStage3
  PROVE  SectorsInPlace'
<1> USE DEF LoadStage3, ReadSector, A20Steps, KbcSteps, ThirdStage, LoaderStopped
<1>1. /\ cl \in 0 .. 62 /\ lba = 4 + cl
      /\ placed = Sectors(4) \union Sectors(lba - 1)
  BY DEF SectorsInPlace
<1>2. CASE pc' = "bootFailure"
  BY <1>2 DEF SectorsInPlace
<1>3. CASE pc' # "bootFailure"
  <2>1. lba' = lba + 1 /\ cl' = cl + 1
        /\ placed' = placed \union {<<lba, 34816 + 512 * cl>>}
        /\ pc' = IF cl' <= 62 THEN "loadStage3" ELSE "prepareGDT"
    BY <1>3
  <2>2. Sectors(lba) = Sectors(lba - 1) \union {<<lba, 34816 + 512 * cl>>}
    <3>1. 34816 + 512 * cl = 33792 + 512 * ((lba - 1) - 1)
      BY <1>1
    <3> QED
      BY <1>1, <3>1, SectorsGrow, lba - 1 \in Nat, lba - 1 >= 1, (lba - 1) + 1 = lba
  <2>3. placed' = Sectors(4) \union Sectors(lba' - 1)
    BY <1>1, <2>1, <2>2, lba' - 1 = lba
  <2>4. CASE cl' <= 62
    <3>1. pc' = "loadStage3" /\ cl' \in 0 .. 62 /\ lba' = 4 + cl'
      BY <1>1, <2>1, <2>4
    <3> QED
      BY <3>1, <2>3 DEF SectorsInPlace
  <2>5. CASE ~(cl' <= 62)
    <3>1. pc' = "prepareGDT" /\ lba' = 67
      BY <1>1, <2>1, <2>5
    <3>2. Sectors(4) \subseteq Sectors(66)
      BY SectorsMonotone
    <3>3. placed' = Sectors(66)
      BY <2>3, <3>1, <3>2
    <3> QED
      BY <3>1, <3>3 DEF SectorsInPlace
  <2> QED
    BY <2>4, <2>5
<1> QED
  BY <1>2, <1>3

\* The steps that read nothing.
LEMMA EarlyLoaded ==
  ASSUME SectorsInPlace, LoaderStep \/ KbcStep
  PROVE  SectorsInPlace'
<1> USE DEF A20Steps, KbcSteps, ThirdStage, LoaderStopped, diskVars
<1>1. CASE ResetDisk
  BY <1>1 DEF ResetDisk, SectorsInPlace
<1>2. CASE CheckExtensions
  <2>1. placed = {} /\ placed' = placed /\ pc' \in {"loadStage2", "bootFailure"}
    BY <1>2 DEF CheckExtensions, StartReading, SectorsInPlace
  <2>2. pc' = "loadStage2" => lba' = 2 /\ cl' = 0
    BY <1>2 DEF CheckExtensions, StartReading
  <2>3. pc' = "loadStage2" => lba' - 1 = 1
    BY <2>2
  <2> QED
    BY <2>1, <2>2, <2>3, SectorsEmpty DEF SectorsInPlace
<1>3. CASE LoadStage2 \/ LoadStage3
  BY <1>3, Stage2Loaded, Stage3Loaded
<1>4. CASE EnterStage2
  BY <1>4 DEF EnterStage2, SectorsInPlace
<1>5. CASE TestA20
  BY <1>5 DEF TestA20, EndA20, TryNext, Method, SectorsInPlace
<1>6. CASE BiosA20
  BY <1>6 DEF BiosA20, Method, SectorsInPlace
<1>7. CASE KeyboardControllerEnable \/ FastGateEnable
  BY <1>7 DEF KeyboardControllerEnable, FastGateEnable, SectorsInPlace
<1>8. CASE KbcEnableA20
  BY <1>8 DEF KbcEnableA20, WaitAndWrite, FetchPort, SectorsInPlace
<1>9. CASE DiscoverMemory
  BY <1>9 DEF DiscoverMemory, SectorsInPlace
<1>10. CASE DiscoverPCI
  <2>1. placed = Sectors(4) /\ placed' = placed /\ pc' \in {"loadStage3", "bootFailure"}
    BY <1>10 DEF DiscoverPCI, StartReading, SectorsInPlace
  <2>2. pc' = "loadStage3" => lba' = 4 /\ cl' = 0
    BY <1>10 DEF DiscoverPCI, StartReading
  <2>3. pc' = "loadStage3" => lba' - 1 = 3
    BY <2>2
  <2>4. Sectors(4) = Sectors(4) \union Sectors(3)
    BY SectorsMonotone
  <2> QED
    BY <2>1, <2>2, <2>3, <2>4 DEF SectorsInPlace
<1>11. CASE PrepareGDT \/ EnterProtected
  BY <1>11 DEF PrepareGDT, EnterProtected, SectorsInPlace
<1>12. CASE KbcStep
  BY <1>12 DEF KbcStep, KbcTakes, KbcAnswers, KeyPressed, SectorsInPlace
<1> QED
  BY <1>1, <1>2, <1>3, <1>4, <1>5, <1>6, <1>7, <1>8, <1>9, <1>10, <1>11, <1>12
     DEF LoaderStep

-----------------------------------------------------------------------------
(* The header, the line and the interrupt flag. *)

Ready == ReadyInTime /\ header \in Header

\* Each step leaves the machine as the next one needs it.
LEMMA EarlyReady ==
  ASSUME Ready, LoaderStep \/ KbcStep
  PROVE  Ready'
<1> USE DEF Ready, AfterA20, ThirdStage, LoaderStopped, KbcSteps, A20Steps
<1>1. CASE ResetDisk \/ CheckExtensions \/ EnterStage2
  BY <1>1 DEF ResetDisk, CheckExtensions, EnterStage2, ReadyInTime
<1>2. CASE LoadStage2 \/ LoadStage3
  BY <1>2 DEF LoadStage2, LoadStage3, ReadSector, a20Vars, ReadyInTime
<1>3. CASE TestA20
  BY <1>3 DEF TestA20, EndA20, TryNext, Method, ReadyInTime
<1>4. CASE BiosA20
  BY <1>4 DEF BiosA20, Method, ReadyInTime
<1>5. CASE KeyboardControllerEnable \/ FastGateEnable
  BY <1>5 DEF KeyboardControllerEnable, FastGateEnable, ReadyInTime
<1>6. CASE KbcEnableA20
  BY <1>6 DEF KbcEnableA20, WaitAndWrite, FetchPort, ReadyInTime
<1>7. CASE DiscoverMemory
  <2>1. a20 /\ a20' = a20 /\ pc' \in {"discoverPCI", "bootFailure"}
    BY <1>7 DEF DiscoverMemory, a20Vars, ReadyInTime
  <2>2. header' \in Header /\ (pc' = "discoverPCI" => header'.memory)
    BY <1>7 DEF DiscoverMemory, Header
  <2> QED
    BY <2>1, <2>2 DEF ReadyInTime
<1>8. CASE DiscoverPCI
  <2>1. a20 /\ a20' = a20 /\ header.memory /\ pc' \in {"loadStage3", "bootFailure"}
    BY <1>8 DEF DiscoverPCI, a20Vars, ReadyInTime
  <2>2. CASE pc' = "bootFailure"
    BY <1>8, <2>1, <2>2 DEF DiscoverPCI, ReadyInTime
  <2>3. CASE pc' = "loadStage3"
    <3>1. PICK m \in {1, 2} : header' = [header EXCEPT !.pci = TRUE, !.mech = m]
      BY <1>8, <2>3 DEF DiscoverPCI
    <3> DEFINE h == [header EXCEPT !.pci = TRUE]
    <3>2. h \in Header /\ h.memory /\ h.pci
      BY <2>1 DEF Header
    <3>3. header' = [h EXCEPT !.mech = m]
      BY <3>1
    <3> HIDE DEF h
    <3>4. header' = [memory |-> h.memory, pci |-> h.pci, mech |-> m]
      BY <3>2, <3>3, Zenon DEF Header
    <3>5. header' \in Header /\ header'.mech \in {1, 2}
      BY <3>2, <3>4 DEF Header
    <3>6. header'.memory /\ header'.pci
      BY <3>2, <3>4
    <3> QED
      BY <2>1, <2>3, <3>5, <3>6 DEF ReadyInTime
  <2> QED
    BY <2>1, <2>2, <2>3
<1>9. CASE PrepareGDT
  BY <1>9 DEF PrepareGDT, ReadyInTime
<1>10. CASE EnterProtected
  BY <1>10 DEF EnterProtected, a20Vars, ReadyInTime
<1>11. CASE KbcTakes
  BY <1>11 DEF KbcTakes, GateMayOpen, ReadyInTime
<1>12. CASE KbcAnswers \/ KeyPressed
  BY <1>12 DEF KbcAnswers, KeyPressed, ReadyInTime
<1> QED
  BY <1>1, <1>2, <1>3, <1>4, <1>5, <1>6, <1>7, <1>8, <1>9, <1>10, <1>11, <1>12
     DEF LoaderStep, KbcStep

-----------------------------------------------------------------------------
(* The third stage. *)

\* It touches nothing of what the first two leave.
LEMMA ThirdStageKeeps ==
  ASSUME QbekStep
  PROVE  /\ UNCHANGED <<cx, iflag, a20, kbc, al, lba, cl, placed, header>>
         /\ pc \in ThirdStage /\ pc' \in ThirdStage
<1>1. CASE ParseBootHdr
  BY <1>1 DEF ParseBootHdr, a20Vars, diskVars, ThirdStage
<1>2. CASE InitPCI
  BY <1>2 DEF InitPCI, a20Vars, diskVars, ThirdStage, LoaderStopped
<1>3. CASE EnumerateDevice
  <2>1. UNCHANGED <<a20Vars, diskVars, header>> /\ pc = "enumerate"
    BY <1>3 DEF EnumerateDevice
  <2>2. pc' \in {"enumerate", "halted", "unsupported", "wild"}
    BY <1>3 DEF EnumerateDevice, AddDevice, SkipDevice, GoOn,
       GoToNextFunction, GoToNextSlot, GoTo
  <2> QED
    BY <2>1, <2>2 DEF a20Vars, diskVars, ThirdStage, LoaderStopped
<1> QED
  BY <1>1, <1>2, <1>3 DEF QbekStep

\* Nor does it undo what they made ready.
LEMMA ThirdStageReady ==
  ASSUME SectorsInPlace, Ready, QbekStep
  PROVE  SectorsInPlace' /\ Ready'
<1>1. SectorsInPlace'
  BY ThirdStageKeeps
     DEF SectorsInPlace, ThirdStage, LoaderStopped, A20Steps, KbcSteps
<1>2. Ready'
  BY ThirdStageKeeps DEF Ready, ReadyInTime, AfterA20, ThirdStage, LoaderStopped
<1> QED
  BY <1>1, <1>2

\* What a step of the scan does to where it is: it stays within the
\* devices and functions, and the scan ends after the last bus.
At == (0 .. (MaxBus + 1)) \X (0 .. MaxDev) \X (0 .. MaxFunc)

InBounds ==
  /\ at \in At
  /\ pc \in BootSteps \union {"parseBootHdr", "initPCI", "enumerate"} =>
       at[1] <= MaxBus

Record == [dev : Functions, page : Int]

Records ==
  /\ ram \in Nat /\ sizeb \in Int
  /\ devices \in Seq(Record)
  /\ RecordsStacked

\* Nothing is listed before the scan.
Unscanned == pc \in BootSteps \union {"parseBootHdr", "initPCI"} => devices = <<>>

Scan == InBounds /\ Records /\ RecordsPaid /\ Unscanned

\* From one function to the next, the scan stays within its bounds.
LEMMA ScanGoesOn ==
  ASSUME InBounds, pc = "enumerate", GoToNextSlot \/ GoToNextFunction
  PROVE  InBounds'
<1> USE BoundsAssumption
<1>1. PICK b \in 0 .. MaxBus, d \in 0 .. MaxDev, f \in 0 .. MaxFunc :
        at = <<b, d, f>>
  BY DEF InBounds, At
<1>2. at[1] = b /\ at[2] = d /\ at[3] = f
  BY <1>1
<1>3. PICK g \in At : GoTo(g)
  <2>1. NextSlot \in At
    BY <1>2 DEF NextSlot, At
  <2>2. at[3] < MaxFunc => <<at[1], at[2], at[3] + 1>> \in At
    BY <1>2 DEF At
  <2> QED
    BY <2>1, <2>2 DEF GoToNextSlot, GoToNextFunction
<1>4. at' \in At /\ pc' \in {"enumerate", "halted"}
      /\ (pc' = "enumerate" => at'[1] <= MaxBus)
  BY <1>3 DEF GoTo
<1> QED
  BY <1>4 DEF InBounds, BootSteps, A20Steps, KbcSteps

\* The page of a record is a page.
LEMMA PagesTyped ==
  ASSUME devices \in Seq(Record)
  PROVE  \A i \in DOMAIN devices : devices[i].page \in Int
<1>1. \A i \in DOMAIN devices : devices[i] \in Record
  OBVIOUS
<1> QED
  BY <1>1 DEF Record

\* A record goes under those that are there.
LEMMA RecordAdded ==
  ASSUME Records, sizeb <= ram, NEW f \in Functions, malloc, sizeb' >= 0, ram' = ram,
         devices' = Append(devices, [dev |-> f, page |-> sizeb'])
  PROVE  Records' /\ Len(devices') = Len(devices) + 1
<1>1. sizeb' \in Int /\ sizeb' < sizeb /\ ram \in Nat /\ ram' \in Nat
      /\ sizeb' \in 0 .. (ram' - 1)
  BY DEF Records, malloc
<1>2. devices' \in Seq(Record)
  <2>1. [dev |-> f, page |-> sizeb'] \in Record
    BY <1>1 DEF Record
  <2> QED
    BY <2>1 DEF Records
<1>3. DOMAIN devices = 1 .. Len(devices) /\ Len(devices) \in Nat
      /\ DOMAIN devices' = 1 .. (Len(devices) + 1)
  BY DEF Records
<1>4. \A i \in DOMAIN devices : devices'[i] = devices[i] /\ devices[i].page \in Int
  <2> TAKE i \in DOMAIN devices
  <2>1. devices'[i] = devices[i]
    BY <1>3 DEF Records
  <2>2. devices[i].page \in Int
    BY PagesTyped DEF Records
  <2> QED
    BY <2>1, <2>2
<1>5. devices'[Len(devices) + 1].page = sizeb'
  BY <1>3 DEF Records
<1>6. \A i \in DOMAIN devices : devices'[i].page > sizeb'
  BY <1>1, <1>4 DEF Records, RecordsStacked
<1>7. RecordsStacked'
  <2> SUFFICES ASSUME NEW i \in DOMAIN devices', NEW j \in DOMAIN devices'
               PROVE  /\ devices'[i].page >= sizeb'
                      /\ devices'[i].page \in 0 .. (ram' - 1)
                      /\ i # j => devices'[i].page # devices'[j].page
    BY DEF RecordsStacked
  <2>1. i \in DOMAIN devices \/ i = Len(devices) + 1
    BY <1>3
  <2>2. j \in DOMAIN devices \/ j = Len(devices) + 1
    BY <1>3
  <2>3. CASE i \in DOMAIN devices /\ j \in DOMAIN devices
    <3>1. i # j => devices[i].page # devices[j].page
      BY <2>3 DEF Records, RecordsStacked
    <3>2. devices'[i].page > sizeb' /\ devices'[i].page \in 0 .. (ram' - 1)
      BY <2>3, <1>4, <1>6 DEF Records, RecordsStacked
    <3> QED
      BY <2>3, <3>1, <3>2, <1>1, <1>4
  <2>4. CASE i \in DOMAIN devices /\ j = Len(devices) + 1
    <3>1. devices'[i].page \in 0 .. (ram' - 1)
      BY <2>4, <1>4 DEF Records, RecordsStacked
    <3> QED
      BY <2>4, <3>1, <1>1, <1>4, <1>5, <1>6
  <2>5. CASE i = Len(devices) + 1 /\ j \in DOMAIN devices
    BY <2>5, <1>1, <1>4, <1>5, <1>6
  <2>6. CASE i = Len(devices) + 1 /\ j = Len(devices) + 1
    BY <2>6, <1>1, <1>5
  <2> QED
    BY <2>1, <2>2, <2>3, <2>4, <2>5, <2>6
<1> QED
  BY <1>1, <1>2, <1>3, <1>7 DEF Records

\* Each step of the third stage keeps the scan in its bounds, the records apart.
LEMMA ThirdStageScans ==
  ASSUME Scan, QbekStep
  PROVE  Scan'
<1> USE DEF Scan
<1>1. CASE ParseBootHdr
  <2>1. /\ pc = "parseBootHdr" /\ pc' = "initPCI"
        /\ ram' \in Nat /\ sizeb' = ram'
        /\ at' = at /\ devices' = devices
    BY <1>1, MachineAssumption DEF ParseBootHdr
  <2>2. devices' = <<>> /\ Len(devices') = 0
    BY <2>1 DEF Unscanned
  <2>3. Records'
    BY <2>1, <2>2 DEF Records, RecordsStacked
  <2>4. PICK r \in Nat : ram' = r /\ sizeb' = r
    BY <2>1
  <2>5. RecordsPaid'
    <3>1. r <= r /\ r - r = 0
      OBVIOUS
    <3>2. 0 <= MAX_DEV_COUNT
      BY MachineAssumption
    <3> QED
      BY <2>1, <2>2, <2>4, <3>1, <3>2 DEF RecordsPaid
  <2> QED
    BY <2>1, <2>2, <2>3, <2>5 DEF InBounds, Unscanned
<1>2. CASE InitPCI
  <2>1. pc = "initPCI" /\ pc' \in {"enumerate", "noPCI"}
        /\ ram' = ram /\ sizeb' = sizeb /\ at' = at /\ devices' = devices
    BY <1>2 DEF InitPCI, qbekVars, machineVars
  <2>2. Records' /\ RecordsPaid'
    BY <2>1 DEF Records, RecordsStacked, RecordsPaid
  <2> QED
    BY <2>1, <2>2 DEF InBounds, Unscanned, BootSteps, A20Steps, KbcSteps
<1>3. CASE EnumerateDevice
  <2>1. pc' \in {"enumerate", "halted", "unsupported", "wild"}
    BY <1>3 DEF EnumerateDevice, AddDevice, SkipDevice, GoOn,
       GoToNextFunction, GoToNextSlot, GoTo
  <2>2. Unscanned'
    BY <2>1 DEF Unscanned, BootSteps, A20Steps, KbcSteps
  <2>3. at \in Functions
    BY <1>3, BoundsAssumption DEF EnumerateDevice, InBounds, At, Functions
  <2>4. /\ pc = "enumerate" /\ ram' = ram /\ ram \in Nat /\ sizeb \in Nat /\ sizeb <= ram
        /\ Len(devices) \in Nat /\ Len(devices) = ram - sizeb
        /\ Len(devices) <= MAX_DEV_COUNT /\ MAX_DEV_COUNT \in Nat
    BY <1>3, MachineAssumption DEF EnumerateDevice, machineVars, Records, RecordsPaid
  <2>5. CASE /\ malloc /\ sizeb' >= 0 /\ last_dev_idx < MAX_DEV_COUNT /\ GoOn(at)
             /\ devices' = Append(devices, [dev |-> at, page |-> sizeb'])
    <3>1. InBounds' /\ pc' \in {"enumerate", "halted"}
      BY <2>4, <2>5, ScanGoesOn
         DEF GoOn, GoToNextFunction, GoToNextSlot, GoTo
    <3>2. Records' /\ Len(devices') = Len(devices) + 1
      BY <2>3, <2>4, <2>5, RecordAdded
    <3>3. RecordsPaid'
      BY <2>4, <2>5, <3>1, <3>2 DEF RecordsPaid, malloc, last_dev_idx
    <3> QED
      BY <2>2, <3>1, <3>2, <3>3
  <2>6. CASE /\ malloc /\ UNCHANGED <<at, devices>>
             /\ \/ pc' = "unsupported"
                \/ pc' = "wild" /\ (sizeb' < 0 \/ last_dev_idx >= MAX_DEV_COUNT)
    <3>1. sizeb' \in Int /\ sizeb' < sizeb /\ devices' = devices
          /\ (sizeb' < 0 => sizeb = 0)
      BY <2>4, <2>6 DEF malloc
    <3>2. \A i \in DOMAIN devices : devices[i].page \in Int
      BY PagesTyped DEF Records
    <3>3. Records'
      BY <2>4, <3>1, <3>2 DEF Records, RecordsStacked
    <3>4. pc' = "wild" => Len(devices) \in {ram, MAX_DEV_COUNT}
      BY <2>4, <2>6, <3>1 DEF last_dev_idx
    <3>5. RecordsPaid'
      <4>1. sizeb' <= ram' /\ pc' \in {"unsupported", "wild"} /\ ram' = ram
        BY <2>4, <2>6, <3>1
      <4> QED
        BY <3>1, <3>4, <4>1 DEF RecordsPaid
    <3> QED
      BY <2>2, <2>6, <3>3, <3>5 DEF InBounds, BootSteps, A20Steps, KbcSteps
  <2>7. CASE ~Answers(at)
    <3>1. SkipDevice(at) /\ pc = "enumerate"
      BY <1>3, <2>7 DEF EnumerateDevice
    <3>2. sizeb' = sizeb /\ devices' = devices
      BY <3>1 DEF SkipDevice
    <3>3. InBounds' /\ pc' \in {"enumerate", "halted"}
      BY <3>1, ScanGoesOn DEF SkipDevice, GoToNextFunction, GoToNextSlot, GoTo
    <3>4. Records' /\ RecordsPaid'
      BY <2>4, <3>2, <3>3 DEF Records, RecordsStacked, RecordsPaid
    <3> QED
      BY <2>2, <3>3, <3>4
  <2>8. CASE Answers(at)
    BY <1>3, <2>5, <2>6, <2>8 DEF EnumerateDevice, AddDevice
  <2> QED
    BY <2>7, <2>8
<1> QED
  BY <1>1, <1>2, <1>3 DEF QbekStep

\* The first two stages only lead into it.
LEMMA EarlyFrom ==
  ASSUME LoaderStep \/ KbcStep
  PROVE  /\ pc \in BootSteps \/ pc' \in {pc, "cpuReset"}
         /\ pc' \in BootSteps \union BootStopped \union {"parseBootHdr", pc}
<1> USE DEF BootSteps, A20Steps, KbcSteps, BootStopped
<1>1. CASE ResetDisk \/ CheckExtensions \/ EnterStage2
  BY <1>1 DEF ResetDisk, CheckExtensions, EnterStage2
<1>2. CASE LoadStage2 \/ LoadStage3
  BY <1>2 DEF LoadStage2, LoadStage3, ReadSector
<1>3. CASE TestA20
  BY <1>3 DEF TestA20, EndA20, TryNext, Method
<1>4. CASE BiosA20
  BY <1>4 DEF BiosA20, Method
<1>5. CASE KeyboardControllerEnable \/ FastGateEnable
  BY <1>5 DEF KeyboardControllerEnable, FastGateEnable
<1>6. CASE KbcEnableA20
  BY <1>6 DEF KbcEnableA20, WaitAndWrite, FetchPort
<1>7. CASE DiscoverMemory \/ DiscoverPCI
  BY <1>7 DEF DiscoverMemory, DiscoverPCI
<1>8. CASE PrepareGDT \/ EnterProtected
  BY <1>8 DEF PrepareGDT, EnterProtected
<1>9. CASE KbcTakes
  BY <1>9 DEF KbcTakes
<1>10. CASE KbcAnswers \/ KeyPressed
  BY <1>10 DEF KbcAnswers, KeyPressed
<1> QED
  BY <1>1, <1>2, <1>3, <1>4, <1>5, <1>6, <1>7, <1>8, <1>9, <1>10
     DEF LoaderStep, KbcStep

\* Before the third stage there are no records.
LEMMA EarlyScans ==
  ASSUME Scan, LoaderStep \/ KbcStep, UNCHANGED qbekVars
  PROVE  Scan'
<1>1. ram' = ram /\ sizeb' = sizeb /\ at' = at /\ devices' = devices
  BY DEF qbekVars, machineVars
<1>2. Records' /\ RecordsPaid'
  <2>1. pc' = pc \/ pc' \in BootSteps \union BootStopped \union {"parseBootHdr"}
    BY EarlyFrom
  <2>2. pc' = pc \/ pc' \notin {"initPCI", "enumerate", "halted", "wild"}
    BY <2>1 DEF BootSteps, A20Steps, KbcSteps, BootStopped
  <2> QED
    BY <1>1, <2>2 DEF Scan, Records, RecordsStacked, RecordsPaid
<1>3. InBounds'
  BY <1>1, EarlyFrom DEF Scan, InBounds, BootSteps, A20Steps, KbcSteps
<1>4. Unscanned'
  BY <1>1, EarlyFrom DEF Scan, Unscanned, BootSteps, A20Steps, KbcSteps
<1> QED
  BY <1>2, <1>3, <1>4 DEF Scan

\* So does each step.
LEMMA NextScans ==
  ASSUME Scan, [Next]_vars
  PROVE  Scan'
<1>1. CASE (LoaderStep \/ KbcStep) /\ UNCHANGED qbekVars
  BY <1>1, EarlyScans
<1>2. CASE QbekStep
  BY <1>2, ThirdStageScans
<1>3. CASE UNCHANGED vars
  <2>1. UNCHANGED <<pc, ram, sizeb, at, devices>>
    BY <1>3 DEF vars, bootVars, qbekVars, machineVars
  <2> QED
    BY <2>1 DEF Scan, InBounds, Records, RecordsStacked, RecordsPaid, Unscanned
<1> QED
  BY <1>1, <1>2, <1>3 DEF Next

\* At first there are none either.
LEMMA InitScans == Init => Scan
BY BoundsAssumption DEF Init, BootInit, Scan, InBounds, At, Records,
   RecordsStacked, RecordsPaid, Unscanned

-----------------------------------------------------------------------------
\* Protected mode is entered with interrupts off, the line on, the header
\* filled in and every sector of the two stages in its place.
THEOREM ProtectedSafe == Spec => []ProtectedSafely
<1> DEFINE Inv == SectorsInPlace /\ Ready
<1>1. Init => Inv
  BY DEF Init, BootInit, SectorsInPlace, Ready, ReadyInTime, Header, AfterA20,
     ThirdStage, LoaderStopped, A20Steps, KbcSteps
<1>2. Inv /\ [Next]_vars => Inv'
  <2> SUFFICES ASSUME Inv, [Next]_vars PROVE Inv'
    OBVIOUS
  <2>1. CASE LoaderStep \/ KbcStep
    BY <2>1, EarlyLoaded, EarlyReady
  <2>2. CASE QbekStep
    BY <2>2, ThirdStageReady
  <2>3. CASE UNCHANGED vars
    <3>1. UNCHANGED <<pc, cx, iflag, a20, lba, cl, placed, header>>
      BY <2>3 DEF vars, bootVars, a20Vars, diskVars
    <3> QED
      BY <3>1 DEF SectorsInPlace, Ready, ReadyInTime
  <2> QED
    BY <2>1, <2>2, <2>3 DEF Next
<1>3. Inv => ProtectedSafely
  BY DEF SectorsInPlace, Ready, ReadyInTime, AfterA20, ThirdStage,
     LoaderStopped, ProtectedSafely
<1> QED
  BY <1>1, <1>2, <1>3, PTL DEF Spec

\* The scan stays within the buses, devices and functions, and the records
\* of the devices in the list lie in pages that nothing else uses, and apart.
THEOREM RecordsStayApart == Spec => []RecordsApart
<1>1. Init => Scan
  BY InitScans
<1>2. Scan /\ [Next]_vars => Scan'
  BY NextScans
<1>3. Scan => RecordsApart
  BY DEF Scan, Records, RecordsStacked, RecordsApart
<1> QED
  BY <1>1, <1>2, <1>3, PTL DEF Spec

-----------------------------------------------------------------------------
(* Types.  Each group of variables has its own inductive invariant. *)

\* No step does anything to the flags but set and clear them.
LEMMA EarlyFlags ==
  ASSUME LoaderStep \/ KbcStep
  PROVE  iflag' \in {iflag, TRUE, FALSE} /\ a20' \in {a20, TRUE}
<1> USE DEF a20Vars
<1>1. CASE ResetDisk \/ EnterStage2 \/ PrepareGDT
  BY <1>1 DEF ResetDisk, EnterStage2, PrepareGDT
<1>2. CASE CheckExtensions \/ DiscoverMemory \/ DiscoverPCI \/ EnterProtected
  BY <1>2 DEF CheckExtensions, DiscoverMemory, DiscoverPCI, EnterProtected
<1>3. CASE LoadStage2 \/ LoadStage3
  <2>1. UNCHANGED a20Vars
    BY <1>3 DEF LoadStage2, LoadStage3, ReadSector
  <2> QED
    BY <2>1
<1>4. CASE TestA20
  BY <1>4 DEF TestA20, EndA20, TryNext
<1>5. CASE BiosA20
  BY <1>5 DEF BiosA20, GateMayOpen
<1>6. CASE KeyboardControllerEnable \/ FastGateEnable
  BY <1>6 DEF KeyboardControllerEnable, FastGateEnable, GateMayOpen
<1>7. CASE KbcEnableA20
  BY <1>7 DEF KbcEnableA20
<1>8. CASE KbcTakes
  BY <1>8 DEF KbcTakes, GateMayOpen
<1>9. CASE KbcAnswers \/ KeyPressed
  BY <1>9 DEF KbcAnswers, KeyPressed
<1> QED
  BY <1>1, <1>2, <1>3, <1>4, <1>5, <1>6, <1>7, <1>8, <1>9
     DEF LoaderStep, KbcStep

\* The counters of ResetDisk and of EnableA20.
Counted ==
  /\ cx \in 0 .. 3
  /\ pc \in {"resetDisk", "checkExtensions", "loadStage2", "stage2"} => cx \in 1 .. 3
  /\ pc = "biosA20" => cx = 0
  /\ pc = "kbcA20" => cx = 1
  /\ pc = "fastA20" => cx = 2

\* The attempts to open the gate are counted down.
LEMMA EarlyCounted ==
  ASSUME Counted, LoaderStep \/ KbcStep
  PROVE  Counted'
<1> USE DEF Counted, A20Steps, KbcSteps
<1>1. CASE ResetDisk
  BY <1>1 DEF ResetDisk
<1>2. CASE CheckExtensions \/ DiscoverMemory \/ DiscoverPCI
  BY <1>2 DEF CheckExtensions, DiscoverMemory, DiscoverPCI, a20Vars
<1>3. CASE LoadStage2 \/ LoadStage3
  BY <1>3 DEF LoadStage2, LoadStage3, ReadSector, a20Vars
<1>4. CASE EnterStage2
  BY <1>4 DEF EnterStage2
<1>5. CASE TestA20
  BY <1>5 DEF TestA20, EndA20, TryNext, Method
<1>6. CASE BiosA20
  BY <1>6 DEF BiosA20, Method
<1>7. CASE KeyboardControllerEnable
  BY <1>7 DEF KeyboardControllerEnable
<1>8. CASE FastGateEnable
  BY <1>8 DEF FastGateEnable
<1>9. CASE KbcEnableA20
  BY <1>9 DEF KbcEnableA20, WaitAndWrite, FetchPort
<1>10. CASE PrepareGDT
  BY <1>10 DEF PrepareGDT
<1>11. CASE EnterProtected
  BY <1>11 DEF EnterProtected, a20Vars
<1>12. CASE KbcTakes
  BY <1>12 DEF KbcTakes
<1>13. CASE KbcAnswers \/ KeyPressed
  BY <1>13 DEF KbcAnswers, KeyPressed
<1> QED
  BY <1>1, <1>2, <1>3, <1>4, <1>5, <1>6, <1>7, <1>8, <1>9, <1>10, <1>11,
     <1>12, <1>13 DEF LoaderStep, KbcStep

\* The keyboard controller, and the byte EnableA20 writes back to it.
Buffered ==
  /\ kbc \in Kbc
  /\ al \in {"none", "port", "key"}
  /\ pc \in {"writePort", "data"} => al \in {"port", "key"}

\* What is written back to the controller was read from it.
LEMMA EarlyBuffered ==
  ASSUME Buffered, LoaderStep \/ KbcStep
  PROVE  Buffered'
<1> USE DEF Buffered, A20Steps, KbcSteps
<1>1. CASE ResetDisk \/ EnterStage2 \/ PrepareGDT
  BY <1>1 DEF ResetDisk, EnterStage2, PrepareGDT
<1>2. CASE CheckExtensions \/ DiscoverMemory \/ DiscoverPCI \/ EnterProtected
  BY <1>2 DEF CheckExtensions, DiscoverMemory, DiscoverPCI, EnterProtected, a20Vars
<1>3. CASE LoadStage2 \/ LoadStage3
  BY <1>3 DEF LoadStage2, LoadStage3, ReadSector, a20Vars
<1>5. CASE TestA20
  BY <1>5 DEF TestA20, EndA20, TryNext, Method, Kbc
<1>6. CASE BiosA20
  BY <1>6 DEF BiosA20, Method
<1>7. CASE KeyboardControllerEnable \/ FastGateEnable
  BY <1>7 DEF KeyboardControllerEnable, FastGateEnable
<1>9. CASE KbcEnableA20
  BY <1>9 DEF KbcEnableA20, WaitAndWrite, FetchPort, Kbc
<1>12. CASE KbcTakes
  BY <1>12 DEF KbcTakes, Kbc
<1>13. CASE KbcAnswers \/ KeyPressed
  BY <1>13 DEF KbcAnswers, KeyPressed, Kbc
<1> QED
  BY <1>1, <1>2, <1>3, <1>5, <1>6, <1>7, <1>9, <1>12, <1>13
     DEF LoaderStep, KbcStep

\* The load loops stay within their counters.
Loading == lba \in 0 .. 67 /\ cl \in 0 .. 63 /\ SectorsInPlace

\* The counters of the load loops stay in range.
LEMMA EarlyLoading ==
  ASSUME Loading, LoaderStep \/ KbcStep
  PROVE  Loading'
<1>1. CASE CheckExtensions \/ DiscoverPCI
  <2>1. UNCHANGED <<lba, cl>> \/ (lba' \in {2, 4} /\ cl' = 0)
    BY <1>1 DEF CheckExtensions, DiscoverPCI, StartReading, diskVars
  <2> QED
    BY <2>1, EarlyLoaded DEF Loading
<1>2. CASE LoadStage2
  <2>1. UNCHANGED <<lba, cl>> \/ (lba' = lba + 1 /\ cl' = cl + 1)
    BY <1>2 DEF LoadStage2, ReadSector, diskVars
  <2>2. cl \in 0 .. 2 /\ lba = 2 + cl
    BY <1>2 DEF LoadStage2, ReadSector, Loading, SectorsInPlace
  <2> QED
    BY <2>1, <2>2, EarlyLoaded DEF Loading
<1>3. CASE LoadStage3
  <2>1. UNCHANGED <<lba, cl>> \/ (lba' = lba + 1 /\ cl' = cl + 1)
    BY <1>3 DEF LoadStage3, ReadSector, diskVars
  <2>2. cl \in 0 .. 62 /\ lba = 4 + cl
    BY <1>3 DEF LoadStage3, ReadSector, Loading, SectorsInPlace
  <2> QED
    BY <2>1, <2>2, EarlyLoaded DEF Loading
<1>4. CASE ~(CheckExtensions \/ DiscoverPCI \/ LoadStage2 \/ LoadStage3)
  <2>1. UNCHANGED diskVars
    BY <1>4 DEF LoaderStep, KbcStep, ResetDisk, EnterStage2, TestA20, BiosA20,
       KeyboardControllerEnable, FastGateEnable, KbcEnableA20, DiscoverMemory,
       PrepareGDT, EnterProtected, KbcTakes, KbcAnswers, KeyPressed
  <2> QED
    BY <2>1, EarlyLoaded DEF Loading, diskVars
<1> QED
  BY <1>1, <1>2, <1>3, <1>4

Types ==
  /\ pc \in BootSteps \union Stopped \union
              {"parseBootHdr", "initPCI", "enumerate", "wild"}
  /\ iflag \in BOOLEAN /\ a20 \in BOOLEAN
  /\ Counted /\ Buffered /\ Loading /\ Ready /\ Scan
  /\ present \subseteq MachineFunctions /\ multi \subseteq Slots
  /\ strange \subseteq StrangeFunctions

\* The variables keep their types, the loops stay within their counters and
\* the scan within the buses, devices and functions.
THEOREM TypeCorrect == Spec => []TypeOK
<1>1. Init => Types
  <2> SUFFICES ASSUME Init PROVE Types
    OBVIOUS
  <2> USE DEF Init, BootInit, BootSteps, A20Steps, KbcSteps, ThirdStage,
          LoaderStopped
  <2>1. Counted /\ Buffered
    BY DEF Counted, Buffered, Kbc
  <2>2. Loading
    BY DEF Loading, SectorsInPlace
  <2>3. Ready
    BY DEF Ready, ReadyInTime, Header, AfterA20
  <2>4. Scan
    BY InitScans
  <2> QED
    BY <2>1, <2>2, <2>3, <2>4 DEF Types
<1>2. Types /\ [Next]_vars => Types'
  <2> SUFFICES ASSUME Types, [Next]_vars PROVE Types'
    OBVIOUS
  <2>1. CASE (LoaderStep \/ KbcStep) /\ UNCHANGED qbekVars
    <3>1. UNCHANGED <<present, multi, strange>>
      BY <2>1 DEF qbekVars, machineVars
    <3>2. pc' \in BootSteps \union Stopped \union
                    {"parseBootHdr", "initPCI", "enumerate", "wild"}
      BY <2>1, EarlyFrom DEF Types, Stopped
    <3>3. iflag' \in BOOLEAN /\ a20' \in BOOLEAN
      BY <2>1, EarlyFlags DEF Types
    <3>4. Counted' /\ Buffered' /\ Loading' /\ Ready' /\ Scan'
      BY <2>1, EarlyCounted, EarlyBuffered, EarlyLoading, EarlyReady,
         EarlyScans DEF Types
    <3> QED
      BY <3>1, <3>2, <3>3, <3>4 DEF Types
  <2>2. CASE QbekStep
    <3>1. /\ UNCHANGED <<cx, iflag, a20, kbc, al, lba, cl>>
          /\ pc \in ThirdStage /\ pc' \in ThirdStage
      BY <2>2, ThirdStageKeeps
    <3>2. Counted' /\ Buffered'
      BY <3>1 DEF Types, Counted, Buffered, ThirdStage, LoaderStopped
    <3>3. Loading' /\ Ready' /\ Scan'
      BY <2>2, <3>1, ThirdStageReady, ThirdStageScans DEF Types, Loading
    <3>4. /\ present' \subseteq MachineFunctions /\ multi' \subseteq Slots
          /\ strange' \subseteq StrangeFunctions
      <4>1. CASE ParseBootHdr
        BY <4>1 DEF ParseBootHdr
      <4>2. CASE InitPCI
        BY <4>2 DEF InitPCI, qbekVars, machineVars, Types
      <4>3. CASE EnumerateDevice
        BY <4>3 DEF EnumerateDevice, machineVars, Types
      <4> QED
        BY <2>2, <4>1, <4>2, <4>3 DEF QbekStep
    <3> QED
      BY <3>1, <3>2, <3>3, <3>4 DEF Types, ThirdStage, Stopped
  <2>3. CASE UNCHANGED vars
    <3>1. /\ UNCHANGED <<pc, cx, iflag, a20, kbc, al, lba, cl, placed, header>>
          /\ UNCHANGED <<present, multi, strange, ram, sizeb, at, devices>>
      BY <2>3 DEF vars, bootVars, a20Vars, diskVars, qbekVars, machineVars
    <3>2. Counted' /\ Buffered' /\ Loading'
      BY <3>1 DEF Types, Counted, Buffered, Loading, SectorsInPlace
    <3>3. Ready' /\ Scan'
      BY <3>1 DEF Types, Ready, ReadyInTime, Scan, InBounds, Records,
         RecordsStacked, RecordsPaid, Unscanned
    <3> QED
      BY <3>1, <3>2, <3>3 DEF Types
  <2> QED
    BY <2>1, <2>2, <2>3 DEF Next
<1>3. Types => TypeOK
  BY DEF Types, TypeOK, BootTypeOK, Counted, Buffered, Loading, Ready, Scan,
     InBounds, At, Records, Record
<1> QED
  BY <1>1, <1>2, <1>3, PTL DEF Spec

-----------------------------------------------------------------------------
(* The list.  It has the functions behind it in the order of the scan. *)

Precedes(f, g) ==
  \/ f[1] < g[1]
  \/ f[1] = g[1] /\ f[2] < g[2]
  \/ f[1] = g[1] /\ f[2] = g[2] /\ f[3] < g[3]

IsListed(f) == \E i \in DOMAIN devices : devices[i].dev = f

\* Past function 0 of a slot the scan is only if that one is there and says
\* that there are more; it halts behind the last bus.
Listed ==
  /\ present \subseteq Functions
  /\ pc \in BootSteps \union {"parseBootHdr", "initPCI"} => at = <<0, 0, 0>>
  /\ pc = "enumerate" /\ at[3] # 0 => SlotOf(at) \in present /\ SlotOf(at) \in multi
  /\ pc = "halted" => at[1] = MaxBus + 1
  /\ pc = "wild" => at \in Reachable
  /\ pc \in {"enumerate", "halted", "wild"} =>
       /\ \A f \in Functions : IsListed(f) <=> f \in Reachable /\ Precedes(f, at)
       /\ \A i, j \in DOMAIN devices : i # j => devices[i].dev # devices[j].dev

\* Functions are triples of a bus, a slot and a number.
LEMMA Triples ==
  ASSUME NEW f \in Functions
  PROVE  /\ f[1] \in 0 .. MaxBus /\ f[2] \in 0 .. MaxDev /\ f[3] \in 0 .. MaxFunc
         /\ f = <<f[1], f[2], f[3]>>
BY DEF Functions

\* From one function to the next the scan passes that one, and of the others
\* only such as it cannot find.
LEMMA ScanPasses ==
  ASSUME Listed, pc = "enumerate", at \in Functions, UNCHANGED machineVars,
         \/ at \in present /\ GoOn(at)
         \/ at \notin present /\ at[3] = 0 /\ GoToNextSlot
         \/ at \notin present /\ at[3] # 0 /\ GoToNextFunction
  PROVE  /\ Reachable' = Reachable
         /\ at \in Reachable <=> at \in present
         /\ \A f \in Reachable : Precedes(f, at') <=> Precedes(f, at) \/ f = at
         /\ pc' = "enumerate" /\ at'[3] # 0 => SlotOf(at') \in present' /\ SlotOf(at') \in multi'
         /\ pc' = "halted" => at'[1] = MaxBus + 1
         /\ pc' \in {"enumerate", "halted"}
<1> USE BoundsAssumption
<1>1. Reachable' = Reachable /\ present' = present /\ multi' = multi
  BY DEF machineVars, Reachable
<1>2. PICK b \in 0 .. MaxBus, d \in 0 .. MaxDev, n \in 0 .. MaxFunc : at = <<b, d, n>>
  BY DEF Functions
<1>3. at[1] = b /\ at[2] = d /\ at[3] = n /\ SlotOf(at) = <<b, d, 0>>
  BY <1>2 DEF SlotOf
<1>4. at \in Reachable <=> at \in present
  <2>1. CASE n = 0
    BY <1>2, <1>3, <2>1 DEF Reachable
  <2>2. CASE n # 0
    BY <1>3, <2>2 DEF Reachable, Listed
  <2> QED
    BY <2>1, <2>2
<1>5. ASSUME NEW f \in Reachable
      PROVE  /\ f[1] \in 0 .. MaxBus /\ f[2] \in 0 .. MaxDev /\ f[3] \in 0 .. MaxFunc
             /\ f = <<f[1], f[2], f[3]>>
             /\ f[3] = 0 \/ (<<f[1], f[2], 0>> \in present /\ <<f[1], f[2], 0>> \in multi)
  BY Triples DEF Reachable, Listed, SlotOf
<1>6. CASE n < MaxFunc /\ GoTo(<<b, d, n + 1>>) /\ (n # 0 \/ (at \in present /\ at \in multi))
  <2>1. at' = <<b, d, n + 1>> /\ pc' = "enumerate"
    BY <1>6 DEF GoTo
  <2>2. at'[1] = b /\ at'[2] = d /\ at'[3] = n + 1 /\ SlotOf(at') = <<b, d, 0>>
    BY <2>1 DEF SlotOf
  <2>3. SlotOf(at') \in present /\ SlotOf(at') \in multi
    BY <1>2, <1>3, <1>6, <2>2 DEF Listed
  <2>4. ASSUME NEW f \in Reachable PROVE Precedes(f, at') <=> Precedes(f, at) \/ f = at
    <3>1. PICK x \in 0 .. MaxBus, y \in 0 .. MaxDev, z \in 0 .. MaxFunc :
            f[1] = x /\ f[2] = y /\ f[3] = z /\ f = <<x, y, z>>
      BY <1>5
    <3>2. f = at <=> x = b /\ y = d /\ z = n
      BY <1>2, <3>1
    <3>3. z < n + 1 <=> z < n \/ z = n
      OBVIOUS
    <3> QED
      BY <1>3, <2>2, <3>1, <3>2, <3>3 DEF Precedes
  <2>5. at'[3] # 0 => SlotOf(at') \in present' /\ SlotOf(at') \in multi'
    BY <1>1, <2>3
  <2> QED
    BY <1>1, <1>4, <2>1, <2>4, <2>5
<1>7. CASE GoToNextSlot /\ (n = MaxFunc \/ (n = 0 /\ ~ (at \in present /\ at \in multi)))
  <2>1. /\ at'[3] = 0
        /\ (at'[1] = b /\ at'[2] = d + 1 /\ d < MaxDev) \/ (at'[1] = b + 1 /\ at'[2] = 0 /\ d = MaxDev)
        /\ pc' = IF at'[1] <= MaxBus THEN "enumerate" ELSE "halted"
    <3>1. at' = NextSlot /\ pc' = IF NextSlot[1] <= MaxBus THEN "enumerate" ELSE "halted"
      BY <1>7 DEF GoToNextSlot, GoTo
    <3> QED
      BY <1>3, <3>1 DEF NextSlot
  <2>2. ASSUME NEW f \in Reachable PROVE Precedes(f, at') <=> Precedes(f, at) \/ f = at
    <3>1. PICK x \in 0 .. MaxBus, y \in 0 .. MaxDev, z \in 0 .. MaxFunc :
            /\ f[1] = x /\ f[2] = y /\ f[3] = z /\ f = <<x, y, z>>
            /\ z = 0 \/ (<<x, y, 0>> \in present /\ <<x, y, 0>> \in multi)
      BY <1>5
    <3>2. f = at <=> x = b /\ y = d /\ z = n
      BY <1>2, <3>1
    <3>3. x = b /\ y = d => z <= n
      BY <1>2, <1>7, <3>1
    <3>4. Precedes(f, at') <=> x < b \/ (x = b /\ y <= d)
      <4>1. PICK p \in Int, q \in Int :
                /\ at'[1] = p /\ at'[2] = q /\ at'[3] = 0
                /\ ((p = b /\ q = d + 1) \/ (p = b + 1 /\ q = 0 /\ d = MaxDev))
        BY <2>1
      <4> QED
        BY <3>1, <4>1 DEF Precedes
    <3>5. Precedes(f, at) <=> x < b \/ (x = b /\ y < d) \/ (x = b /\ y = d /\ z < n)
      BY <1>3, <3>1 DEF Precedes
    <3> QED
      BY <3>2, <3>3, <3>4, <3>5
  <2>3. pc' = "halted" => at'[1] = MaxBus + 1
    BY <2>1
  <2> QED
    BY <1>1, <1>4, <2>1, <2>2, <2>3
<1>8. \/ n < MaxFunc /\ GoTo(<<b, d, n + 1>>) /\ (n # 0 \/ (at \in present /\ at \in multi))
      \/ GoToNextSlot /\ (n = MaxFunc \/ (n = 0 /\ ~ (at \in present /\ at \in multi)))
  BY <1>3 DEF GoOn, GoToNextFunction, is_multifunc
<1> QED
  BY <1>6, <1>7, <1>8

\* A function that is there joins the list when the scan passes it.
LEMMA ListGrows ==
  ASSUME Records, NEW f, NEW p, devices' = Append(devices, [dev |-> f, page |-> p]),
         \A i, j \in DOMAIN devices : i # j => devices[i].dev # devices[j].dev, ~ IsListed(f)
  PROVE  /\ \A g : IsListed(g)' <=> IsListed(g) \/ g = f
         /\ (\A i, j \in DOMAIN devices : i # j => devices[i].dev # devices[j].dev)'
<1>1. PICK r : r = [dev |-> f, page |-> p] /\ r.dev = f
  OBVIOUS
<1>2. /\ DOMAIN devices = 1 .. Len(devices) /\ Len(devices) \in Nat
      /\ DOMAIN devices' = 1 .. Len(devices) + 1
      /\ \A i \in DOMAIN devices : devices'[i] = devices[i]
      /\ devices'[Len(devices) + 1] = r
  BY <1>1 DEF Records
<1>3. DOMAIN devices' = DOMAIN devices \union {Len(devices) + 1}
  BY <1>2
<1>4. /\ \A i \in DOMAIN devices : devices'[i].dev = devices[i].dev
      /\ devices'[Len(devices) + 1].dev = f
  BY <1>1, <1>2
<1>5. \A g : IsListed(g)' <=> IsListed(g) \/ g = f
  BY <1>3, <1>4 DEF IsListed
<1>6. (\A i, j \in DOMAIN devices : i # j => devices[i].dev # devices[j].dev)'
  BY <1>3, <1>4 DEF IsListed
<1> QED
  BY <1>5, <1>6

\* The step of the scan keeps the list complete up to where it is.
LEMMA ScanLists ==
  ASSUME Scan, Listed, EnumerateDevice
  PROVE  Listed'
<1>1. pc = "enumerate" /\ at \in Functions /\ UNCHANGED machineVars
  BY BoundsAssumption DEF EnumerateDevice, Scan, InBounds, At, Functions
<1>2. /\ \A f \in Functions : IsListed(f) <=> f \in Reachable /\ Precedes(f, at)
      /\ \A i, j \in DOMAIN devices : i # j => devices[i].dev # devices[j].dev
  BY <1>1 DEF Listed
<1>3. present' = present /\ present \subseteq Functions /\ Reachable \subseteq Functions
  BY <1>1 DEF machineVars, Listed, Reachable
<1>4. ~ Precedes(at, at)
  BY <1>1, Triples DEF Precedes
<1> DEFINE Passes == \/ at \in present /\ GoOn(at)
                     \/ at \notin present /\ at[3] = 0 /\ GoToNextSlot
                     \/ at \notin present /\ at[3] # 0 /\ GoToNextFunction
<1>5. ASSUME Passes, \A f \in Functions : IsListed(f)' <=> f \in Reachable /\ (Precedes(f, at) \/ f = at),
             (\A i, j \in DOMAIN devices : i # j => devices[i].dev # devices[j].dev)'
      PROVE  Listed'
  <2>1. /\ Reachable' = Reachable
        /\ \A f \in Reachable : Precedes(f, at') <=> Precedes(f, at) \/ f = at
        /\ pc' = "enumerate" /\ at'[3] # 0 => SlotOf(at') \in present' /\ SlotOf(at') \in multi'
        /\ pc' = "halted" => at'[1] = MaxBus + 1
        /\ pc' \in {"enumerate", "halted"}
    BY <1>1, <1>5, ScanPasses
  <2>2. \A f \in Functions : IsListed(f)' <=> f \in Reachable' /\ Precedes(f, at')
    BY <1>5, <2>1
  <2>3. pc' \notin BootSteps \union {"parseBootHdr", "initPCI"}
    BY <2>1 DEF BootSteps, A20Steps, KbcSteps
  <2> QED
    BY <1>3, <1>5, <2>1, <2>2, <2>3 DEF Listed, SlotOf
<1>6. CASE at \in present /\ GoOn(at) /\ devices' = Append(devices, [dev |-> at, page |-> sizeb'])
  <2>2. ~ IsListed(at)
    BY <1>1, <1>2, <1>4
  <2>3. PICK p : devices' = Append(devices, [dev |-> at, page |-> p])
    BY <1>6
  <2>4. /\ \A g : IsListed(g)' <=> IsListed(g) \/ g = at
        /\ (\A i, j \in DOMAIN devices : i # j => devices[i].dev # devices[j].dev)'
    BY <1>2, <2>2, <2>3, ListGrows DEF Scan
  <2>5. at \in Reachable
    BY <1>1, <1>6, ScanPasses
  <2> QED
    BY <1>2, <1>5, <1>6, <2>4, <2>5
<1>7. CASE at \in present /\ pc' \in {"unsupported", "wild"} /\ UNCHANGED <<at, devices>>
  <2>1. at \in Reachable
    BY <1>1, <1>7, BoundsAssumption DEF Listed, Reachable, SlotOf, Functions
  <2>2. Reachable' = Reachable /\ \A f : IsListed(f)' <=> IsListed(f)
    BY <1>1, <1>7 DEF machineVars, Reachable, IsListed
  <2> QED
    BY <1>2, <1>3, <1>7, <2>1, <2>2 DEF Listed, BootSteps, A20Steps, KbcSteps
<1>8. CASE at \notin present
  <2>1. Passes /\ devices' = devices
    BY <1>8 DEF EnumerateDevice, Answers, SkipDevice
  <2>2. at \notin Reachable
    BY <1>1, <1>8, <2>1, ScanPasses
  <2>3. \A f : IsListed(f)' <=> IsListed(f)
    BY <2>1 DEF IsListed
  <2> QED
    BY <1>2, <1>5, <2>1, <2>2, <2>3
<1>9. CASE at \in present
  BY <1>6, <1>7, <1>9 DEF EnumerateDevice, Answers, AddDevice
<1> QED
  BY <1>8, <1>9

\* Nothing is listed at first.
LEMMA InitLists == Init => Listed
BY DEF Init, BootInit, Listed

\* Each step keeps the list as it must be.
LEMMA NextLists ==
  ASSUME Scan, Listed, [Next]_vars
  PROVE  Listed'
<1>1. CASE (LoaderStep \/ KbcStep) /\ UNCHANGED qbekVars
  <2>1. UNCHANGED <<present, multi, at, devices>>
    BY <1>1 DEF qbekVars, machineVars
  <2>2. /\ pc \in BootSteps \/ pc' \in {pc, "cpuReset"}
        /\ pc' \in BootSteps \union BootStopped \union {"parseBootHdr", pc}
    BY <1>1, EarlyFrom
  <2>3. CASE pc' = pc
    BY <2>1, <2>3 DEF Listed, IsListed, Reachable, SlotOf
  <2>4. CASE pc' = "cpuReset"
    BY <2>1, <2>4 DEF Listed, BootSteps, A20Steps, KbcSteps
  <2>5. CASE pc \in BootSteps /\ pc' \in BootSteps \union BootStopped \union {"parseBootHdr"}
    <3>1. pc' \notin {"enumerate", "halted", "wild"}
      BY <2>5 DEF BootSteps, A20Steps, KbcSteps, BootStopped
    <3> QED
      BY <2>1, <2>5, <3>1 DEF Listed
  <2> QED
    BY <2>2, <2>3, <2>4, <2>5
<1>2. CASE ParseBootHdr
  <2>1. /\ pc = "parseBootHdr" /\ pc' = "initPCI" /\ present' \subseteq MachineFunctions
        /\ at' = at
    BY <1>2 DEF ParseBootHdr
  <2> QED
    BY <2>1, MachineAssumption DEF Listed
<1>3. CASE InitPCI
  <2>1. /\ pc = "initPCI" /\ pc' \in {"enumerate", "noPCI"}
        /\ UNCHANGED <<present, multi, at, devices>>
    BY <1>3 DEF InitPCI, qbekVars, machineVars
  <2>2. at = <<0, 0, 0>> /\ devices = << >>
    BY <2>1 DEF Listed, Scan, Unscanned
  <2>3. \A f \in Functions : ~ Precedes(f, at)
    BY <2>2, Triples, BoundsAssumption DEF Precedes
  <2>4. \A f \in Functions : ~ IsListed(f)
    BY <2>2 DEF IsListed
  <2>5. at[3] = 0
    BY <2>2
  <2> QED
    BY <2>1, <2>2, <2>3, <2>4, <2>5 DEF Listed, BootSteps, A20Steps, KbcSteps, IsListed
<1>4. CASE EnumerateDevice
  BY <1>4, ScanLists
<1>5. CASE UNCHANGED vars
  <2>1. UNCHANGED <<pc, present, multi, at, devices>>
    BY <1>5 DEF vars, bootVars, qbekVars, machineVars
  <2> QED
    BY <2>1 DEF Listed, IsListed, Reachable, SlotOf
<1> QED
  BY <1>1, <1>2, <1>3, <1>4, <1>5 DEF Next, QbekStep

\* A list without repetitions has as many entries as functions.
LEMMA CountsList ==
  ASSUME Records, \A i, j \in DOMAIN devices : i # j => devices[i].dev # devices[j].dev
  PROVE  Len(devices) = Cardinality({devices[i].dev : i \in DOMAIN devices})
<1> DEFINE D == {devices[i].dev : i \in DOMAIN devices}
           g == [i \in DOMAIN devices |-> devices[i].dev]
<1>1. DOMAIN devices = 1 .. Len(devices) /\ Len(devices) \in Nat
  BY DEF Records
<1>2. g \in Bijection(1 .. Len(devices), D)
  BY <1>1 DEF Bijection, Injection, Surjection, IsInjective
<1>3. ExistsBijection(1 .. Len(devices), D)
  BY <1>2 DEF ExistsBijection
<1> QED
  BY <1>1, <1>3, FS_CountingElements

\* The functions listed are reachable, and there are as many as entries.
LEMMA ListReaches ==
  ASSUME Scan, Listed, pc \in {"enumerate", "halted", "wild"}
  PROVE  /\ {devices[i].dev : i \in DOMAIN devices} = {f \in Reachable : Precedes(f, at)}
         /\ Len(devices) = Cardinality({f \in Reachable : Precedes(f, at)})
         /\ Reachable \subseteq Functions /\ IsFiniteSet(Reachable)
<1>1. \A i \in DOMAIN devices : devices[i].dev \in Functions
  <2>1. \A i \in DOMAIN devices : devices[i] \in Record
    BY DEF Scan, Records
  <2> QED
    BY <2>1 DEF Record
<1>2. Reachable \subseteq Functions
  BY DEF Listed, Reachable
<1>3. {devices[i].dev : i \in DOMAIN devices} = {f \in Reachable : Precedes(f, at)}
  BY <1>1, <1>2 DEF Listed, IsListed
<1>4. IsFiniteSet(Functions)
  <2>1. /\ IsFiniteSet(0 .. MaxBus) /\ IsFiniteSet(0 .. MaxDev)
        /\ IsFiniteSet(0 .. MaxFunc)
    BY BoundsAssumption, FS_Interval
  <2> DEFINE Nested == ((0 .. MaxBus) \X (0 .. MaxDev)) \X (0 .. MaxFunc)
             flat == [p \in Nested |-> <<p[1][1], p[1][2], p[2]>>]
  <2>2. IsFiniteSet(Nested)
    BY <2>1, FS_Product
  <2>3. flat \in Surjection(Nested, Functions)
    <3>1. \A p \in Nested : flat[p] \in Functions
      BY DEF Functions
    <3>2. ASSUME NEW f \in Functions PROVE \E p \in Nested : flat[p] = f
      <4>1. PICK b \in 0 .. MaxBus, d \in 0 .. MaxDev, n \in 0 .. MaxFunc :
              f = <<b, d, n>>
        BY Triples
      <4>2. <<<<b, d>>, n>> \in Nested
        OBVIOUS
      <4>3. flat[<<<<b, d>>, n>>] = <<b, d, n>>
        BY <4>2
      <4> QED
        BY <4>1, <4>2, <4>3
    <3> QED
      BY <3>1, <3>2 DEF Surjection
  <2> QED
    BY <2>2, <2>3, FS_Surjection
<1> QED
  BY <1>2, <1>3, <1>4, CountsList, FS_Subset DEF Scan, Listed

\* When the scan is at its end, it has passed every function.
LEMMA AllPassed ==
  ASSUME Listed, pc = "halted"
  PROVE  \A f \in Functions : Precedes(f, at)
BY Triples, BoundsAssumption DEF Listed, Precedes

\* When the kernel loader halts, enumerate_devices has listed every function a
\* scan can find, and each once, on machines of any size; and no record in
\* the list was written over another one, or over anything else.
THEOREM EveryDeviceListed == Spec => []EnumeratesAll
<1> DEFINE Inv == Scan /\ Listed
<1>1. Init => Inv
  BY InitScans, InitLists
<1>2. Inv /\ [Next]_vars => Inv'
  BY NextScans, NextLists
<1>3. Inv => EnumeratesAll
  <2> SUFFICES ASSUME Scan, Listed PROVE EnumeratesAll
    OBVIOUS
  <2>1. RecordsApart
    BY DEF Scan, Records, RecordsStacked, RecordsApart
  <2>2. ASSUME pc = "halted"
        PROVE  /\ {devices[i].dev : i \in DOMAIN devices} = Reachable
               /\ Len(devices) = Cardinality(Reachable)
    <3>1. {f \in Reachable : Precedes(f, at)} = Reachable
      BY <2>2, AllPassed, ListReaches
    <3> QED
      BY <2>2, <3>1, ListReaches
  <2> QED
    BY <2>1, <2>2 DEF EnumeratesAll
<1> QED
  BY <1>1, <1>2, <1>3, PTL DEF Spec

\* malloc goes below the free pages of its region, and add_device behind the
\* last slot of the list, on machines that have more functions to be found
\* than there are pages or slots, and only there.
THEOREM OverrunsOnTooMany == Spec => []OverrunsOnlyIfTooMany
<1> DEFINE Inv == Scan /\ Listed
<1>1. Init => Inv
  BY InitScans, InitLists
<1>2. Inv /\ [Next]_vars => Inv'
  BY NextScans, NextLists
<1>3. Inv => OverrunsOnlyIfTooMany
  <2> SUFFICES ASSUME Scan, Listed PROVE OverrunsOnlyIfTooMany
    OBVIOUS
  <2>1. ram \in Nat /\ MAX_DEV_COUNT \in Nat
    BY MachineAssumption DEF Scan, Records
  <2>2. ASSUME pc = "wild"
        PROVE  \E room \in {ram, MAX_DEV_COUNT} : Cardinality(Reachable) > room
    <3> DEFINE Passed == {f \in Reachable : Precedes(f, at)}
    <3>1. Len(devices) = Cardinality(Passed) /\ IsFiniteSet(Reachable)
          /\ Reachable \subseteq Functions
      BY <2>2, ListReaches
    <3>2. at \in Reachable /\ at \in Functions
      BY <2>2, <3>1 DEF Listed
    <3>3. at \notin Passed
      BY <3>2, Triples DEF Precedes
    <3>4. IsFiniteSet(Passed) /\ Cardinality(Passed \union {at}) = Cardinality(Passed) + 1
      BY <3>1, <3>3, FS_Subset, FS_AddElement
    <3>5. Cardinality(Passed \union {at}) <= Cardinality(Reachable)
      BY <3>1, <3>2, FS_Subset
    <3>6. Cardinality(Passed) \in Nat /\ Cardinality(Reachable) \in Nat
      BY <3>1, <3>4, FS_CardinalityType
    <3>7. Len(devices) \in {ram, MAX_DEV_COUNT}
      BY <2>2 DEF Scan, RecordsPaid
    <3> QED
      BY <2>1, <3>1, <3>4, <3>5, <3>6, <3>7
  <2>3. ASSUME pc = "halted"
        PROVE  ~ \E room \in {ram, MAX_DEV_COUNT} : Cardinality(Reachable) > room
    <3>1. Len(devices) = Cardinality(Reachable)
      BY <2>3, AllPassed, ListReaches, {f \in Reachable : Precedes(f, at)} = Reachable
    <3>2. Len(devices) <= ram /\ Len(devices) <= MAX_DEV_COUNT /\ Len(devices) \in Nat
      BY <2>1, <2>3 DEF Scan, Records, RecordsPaid
    <3> QED
      BY <2>1, <3>1, <3>2
  <2> QED
    BY <2>2, <2>3 DEF OverrunsOnlyIfTooMany
<1> QED
  BY <1>1, <1>2, <1>3, PTL DEF Spec
=============================================================================
