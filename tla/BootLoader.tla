------------------------------ MODULE BootLoader ------------------------------
(***************************************************************************)
(* The first two stages of the boot: the boot sector                       *)
(* (src/boot/bootloader/bootloader.asm) and the early loader               *)
(* (src/boot/earlyloader), up to the jump into protected mode.             *)
(*                                                                         *)
(* The stages are one program counter; what they ask of the BIOS, of the   *)
(* A20 gate and of the keyboard controller may be answered in any way.     *)
(* The scan of the memory map is one step here, it is modelled in          *)
(* MemoryMap.  placed is what the disk reads put into memory.              *)
(***************************************************************************)
EXTENDS Integers

VARIABLES
  pc,     \* the next step, or how the boot stopped
  cx,     \* attempts: of ResetDisk left, of EnableA20 made
  iflag,  \* the processor's interrupt flag
  a20,    \* address line 20 is on
  kbc,    \* the keyboard controller, a record (see Kbc)
  al,     \* what EnableA20 read from the controller
  lba,    \* the next sector to read
  cl,     \* the sectors the loop has read
  placed, \* pairs <<sector, address>>
  header  \* the boot header, a record (see Header)

diskVars == <<lba, cl, placed>>
a20Vars == <<cx, iflag, a20, kbc, al>>
bootVars == <<pc, a20Vars, diskVars, header>>

KbcSteps == {"disable", "readPort", "fetch", "writePort", "data", "enable",
             "settle"}

A20Steps == {"testA20", "biosA20", "kbcA20", "fastA20"} \union KbcSteps

BootStopped == {"bootFailure", "cpuReset"}

BootSteps ==
  {"resetDisk", "checkExtensions", "loadStage2", "stage2", "discoverMemory",
   "discoverPCI", "loadStage3", "prepareGDT", "protect"} \union A20Steps

\* The controller: what was written and not taken yet, the output buffer,
\* an answer it owes, and whether the keyboard may send.
Kbc ==
  [in : {"empty", "0xad", "0xae", "0xd0", "0xd1", "port", "key"},
   out : {"none", "port", "key"}, owes : BOOLEAN, open : BOOLEAN]

\* memory discovered; pci_supported; pci_conf_mech, 0 when not set.
Header == [memory : BOOLEAN, pci : BOOLEAN, mech : 0 .. 2]

BootInit ==
  /\ pc = "resetDisk"
  /\ cx = 3
  /\ iflag = TRUE
  /\ a20 \in BOOLEAN
  /\ kbc = [in |-> "empty", out |-> "none", owes |-> FALSE, open |-> TRUE]
  /\ al = "none"
  /\ lba = 0 /\ cl = 0 /\ placed = {}
  /\ header = [memory |-> FALSE, pci |-> FALSE, mech |-> 0]

\* Types: the loops stay within the bounds of their counters.
BootTypeOK ==
  /\ cx \in 0 .. 3
  /\ iflag \in BOOLEAN /\ a20 \in BOOLEAN
  /\ kbc \in Kbc
  /\ al \in {"none", "port", "key"}
  /\ lba \in 0 .. 67 /\ cl \in 0 .. 63
  /\ header \in Header

-----------------------------------------------------------------------------
(* The disk *)

\* func_ResetDisk: three attempts.
ResetDisk ==
  /\ pc = "resetDisk"
  /\ \/ pc' = "checkExtensions" /\ cx' = cx
     \/ /\ cx' = cx - 1
        /\ pc' = IF cx' = 0 THEN "bootFailure" ELSE "resetDisk"
  /\ UNCHANGED <<iflag, a20, kbc, al, diskVars, header>>

\* Where the next stage is to come from.
StartReading(sector) == lba' = sector /\ cl' = 0 /\ UNCHANGED placed

\* The BIOS must have the calls that read by sector number.
CheckExtensions ==
  /\ pc = "checkExtensions"
  /\ \/ pc' = "loadStage2" /\ StartReading(2)
     \/ pc' = "bootFailure" /\ UNCHANGED diskVars
  /\ UNCHANGED <<a20Vars, header>>

\* One turn of a load loop: func_ReadLBA, then the counters.  The loop goes
\* on while the counter is not above the number of sectors.
ReadSector(step, address, sectors, next) ==
  /\ pc = step
  /\ \/ /\ placed' = placed \union {<<lba, address + 512 * cl>>}
        /\ lba' = lba + 1
        /\ cl' = cl + 1
        /\ pc' = IF cl' <= sectors THEN step ELSE next
     \/ pc' = "bootFailure" /\ UNCHANGED diskVars
  /\ UNCHANGED <<a20Vars, header>>

LoadStage2 == ReadSector("loadStage2", 33792, 2, "stage2") \* to 0x8400

\* The early loader clears the interrupt flag, as EnableA20 does again.
EnterStage2 ==
  /\ pc = "stage2"
  /\ pc' = "testA20"
  /\ iflag' = FALSE
  /\ cx' = 0
  /\ UNCHANGED <<a20, kbc, al, diskVars, header>>

-----------------------------------------------------------------------------
(* func_EnableA20 *)

Method(n) ==
  CASE n = 0 -> "biosA20" [] n = 1 -> "kbcA20" [] n = 2 -> "fastA20"
    [] OTHER -> "bootFailure"

\* EnableA20End: interrupts are on again, and the BIOS reads what is or will
\* be in the keyboard controller's buffer.
EndA20 ==
  /\ pc' = "discoverMemory"
  /\ iflag' = TRUE
  /\ cx' = 0
  /\ kbc' = [kbc EXCEPT !.out = "none", !.owes = FALSE]

TryNext == pc' = Method(cx) /\ UNCHANGED <<iflag, cx, kbc>>

\* func_testA20 compares a byte with the one a megabyte above it.
TestA20 ==
  /\ pc = "testA20"
  /\ (a20 /\ EndA20) \/ (~a20 /\ TryNext)
  /\ UNCHANGED <<a20, al, diskVars, header>>

\* The gate may follow what it is told, or not.
GateMayOpen == a20' \in {a20, TRUE}

\* The BIOS may fail, or report a line that is on, rightly or not.
BiosA20 ==
  /\ pc = "biosA20"
  /\ cx' = cx + 1
  /\ \/ pc' = Method(cx') /\ UNCHANGED a20
     \/ pc' = "testA20" /\ GateMayOpen
  /\ UNCHANGED <<iflag, kbc, al, diskVars, header>>

\* The port may say that the line is on, and nothing is written then.
FastGateEnable ==
  /\ pc = "fastA20"
  /\ cx' = cx + 1
  /\ pc' = "testA20"
  /\ GateMayOpen
  /\ UNCHANGED <<iflag, kbc, al, diskVars, header>>

\* Mutant: the attempt is not counted.
KeyboardControllerEnableUncounted ==
  /\ pc = "kbcA20"
  /\ pc' = "disable"
  /\ UNCHANGED <<a20Vars, diskVars, header>>

KeyboardControllerEnable ==
  /\ pc = "kbcA20"
  /\ cx' = cx + 1
  /\ pc' = "disable"
  /\ UNCHANGED <<iflag, a20, kbc, al, diskVars, header>>

\* func_a20WaitAl2 until the controller has taken what was written, then a
\* byte for it.
WaitAndWrite(step, byte, next) ==
  /\ pc = step
  /\ kbc.in = "empty"
  /\ kbc' = [kbc EXCEPT !.in = byte]
  /\ pc' = next

\* func_a20WaitAl1 until there is a byte, whatever it is, and the read.
FetchPort ==
  /\ pc = "fetch"
  /\ kbc.out # "none"
  /\ al' = kbc.out
  /\ kbc' = [kbc EXCEPT !.out = "none"]
  /\ pc' = "writePort"

\* func_keyboardControllerEnableA20.
KbcEnableA20 ==
  /\ \/ WaitAndWrite("disable", "0xad", "readPort") /\ UNCHANGED al
     \/ WaitAndWrite("readPort", "0xd0", "fetch") /\ UNCHANGED al
     \/ FetchPort
     \/ WaitAndWrite("writePort", "0xd1", "data") /\ UNCHANGED al
     \/ WaitAndWrite("data", al, "enable") /\ UNCHANGED al
     \/ WaitAndWrite("enable", "0xae", "settle") /\ UNCHANGED al
     \/ /\ pc = "settle" /\ kbc.in = "empty"
        /\ pc' = "testA20" /\ al' = "none" /\ UNCHANGED kbc
  /\ UNCHANGED <<cx, iflag, a20, diskVars, header>>

\* The controller takes what was written.  Bit 1 of the output port is the
\* line, which al has set; bit 0, clear in half of the key codes, resets
\* the processor when it is written as 0.
KbcTakes ==
  /\ kbc.in # "empty"
  /\ kbc' = [kbc EXCEPT !.in = "empty",
                        !.owes = @ \/ kbc.in = "0xd0",
                        !.open = (@ /\ kbc.in # "0xad") \/ kbc.in = "0xae"]
  /\ IF kbc.in \in {"port", "key"} THEN GateMayOpen ELSE UNCHANGED a20
  /\ \/ UNCHANGED pc
     \/ kbc.in = "key" /\ pc' = "cpuReset"
  /\ UNCHANGED <<cx, iflag, al, diskVars, header>>

KbcAnswers ==
  /\ kbc.owes
  /\ kbc.out = "none"
  /\ kbc' = [kbc EXCEPT !.out = "port", !.owes = FALSE]
  /\ UNCHANGED <<pc, cx, iflag, a20, al, diskVars, header>>

\* A key: with interrupts on the BIOS reads it at once.
KeyPressed ==
  /\ pc \in A20Steps
  /\ kbc.open /\ kbc.out = "none"
  /\ kbc' = [kbc EXCEPT !.out = "key"]
  /\ UNCHANGED <<pc, cx, iflag, a20, al, diskVars, header>>

-----------------------------------------------------------------------------
(* The rest of the early loader *)

\* func_DiscoverMemory succeeds or fails.
DiscoverMemory ==
  /\ pc = "discoverMemory"
  /\ \/ pc' = "discoverPCI" /\ header' = [header EXCEPT !.memory = TRUE]
     \/ pc' = "bootFailure" /\ UNCHANGED header
  /\ UNCHANGED <<a20Vars, diskVars>>

\* func_DiscoverPCI: the BIOS reports which mechanisms there are.  With
\* neither, the code falls through to the first.
DiscoverPCI ==
  /\ pc = "discoverPCI"
  /\ \/ /\ \E one, two \in BOOLEAN :
             header' = [header EXCEPT !.pci = TRUE,
                                      !.mech = IF ~one /\ two THEN 2 ELSE 1]
        /\ pc' = "loadStage3"
        /\ StartReading(4)
     \/ pc' = "bootFailure" /\ UNCHANGED <<header, diskVars>>
  /\ UNCHANGED a20Vars

LoadStage3 == ReadSector("loadStage3", 34816, 62, "prepareGDT") \* to 0x8800

\* Mutant: the interrupt flag is left as EnableA20 set it.
PrepareGDTInterruptible ==
  /\ pc = "prepareGDT"
  /\ pc' = "protect"
  /\ UNCHANGED <<a20Vars, diskVars, header>>

PrepareGDT ==
  /\ pc = "prepareGDT"
  /\ pc' = "protect"
  /\ iflag' = FALSE
  /\ UNCHANGED <<cx, a20, kbc, al, diskVars, header>>

\* Protection is switched on, and the jump goes to the third stage.
EnterProtected ==
  /\ pc = "protect"
  /\ pc' = "parseBootHdr"
  /\ UNCHANGED <<a20Vars, diskVars, header>>

\* A step of the processor, and one of the hardware beside it.
LoaderStep ==
  \/ ResetDisk \/ CheckExtensions \/ LoadStage2 \/ EnterStage2
  \/ TestA20 \/ BiosA20 \/ KeyboardControllerEnable \/ FastGateEnable
  \/ KbcEnableA20
  \/ DiscoverMemory \/ DiscoverPCI \/ LoadStage3 \/ PrepareGDT
  \/ EnterProtected

KbcStep == KbcTakes \/ KbcAnswers \/ KeyPressed
=============================================================================
