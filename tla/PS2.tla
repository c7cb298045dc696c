---------------------------------- MODULE PS2 ----------------------------------
(***************************************************************************)
(* The keyboard controller's driver, class PS2 of                          *)
(* src/src/arch/x86/x86_32/ps2.cpp, with the controller (8042) and the     *)
(* keyboard it talks to.  Keyboard has the rest of the initialisation.     *)
(*                                                                         *)
(* Every answer goes through the one output buffer in the order sent: out  *)
(* is what is in it or on its way.  A read either gets the next byte or    *)
(* gives up after its 1000 polls; the answer then comes late and is there  *)
(* for the next read.  A byte is a kind, and the bits it would set if it   *)
(* were taken for a configuration byte: 0 keyboard interrupt, 4 and 5 the  *)
(* ports' clocks off, 6 translation.                                       *)
(*                                                                         *)
(* Late answers, requests to resend and keys pressed before the driver is  *)
(* ready are disturbances; faults counts them.                             *)
(***************************************************************************)
EXTENDS Integers, Sequences

CONSTANTS
  BootCfgs,   \* the configurations the firmware may leave
  ScanSets,   \* the scan sets the keyboard may be in
  TwoPorts,   \* the controller has a second port, with a mouse on it
  MaxFaults   \* bound: disturbances during the initialisation

ASSUME PS2Assumption ==
  /\ \A c \in BootCfgs : c \subseteq {0, 1, 4, 5, 6}
  /\ ScanSets \subseteq {1, 2, 3}
  /\ TwoPorts \in BOOLEAN
  /\ MaxFaults \in Nat

VARIABLES
  pc,      \* the step the initialisation is at
  out,     \* bytes on their way to the processor
  cfg,     \* the controller's configuration byte
  testPassed, port1TestPass, port2TestPass, hasTwoPorts, initialized,
  sending, \* what writePort1 sends: cmd, the command, or 0xfe
  kscan,   \* the keyboard's scan set
  kon,     \* it may send keys
  karg,    \* the command whose argument it waits for
  klast,   \* the last byte it sent, RESEND apart
  faults   \* history: the disturbances so far

flags == <<testPassed, port1TestPass, port2TestPass, hasTwoPorts, initialized>>
kbd == <<kscan, kon, karg, klast>>
ps2vars == <<pc, out, cfg, flags, sending, kbd, faults>>

-----------------------------------------------------------------------------
(* Bytes *)

Byte(kind, bits) == [kind |-> kind, bits |-> bits]

ACK == Byte("ACK", {1, 4, 5, 6})
RESEND == Byte("RESEND", {1, 4, 5, 6})
TEST_PASS == Byte("TEST_PASS", {0, 4, 6})
TEST_FAIL == Byte("TEST_FAIL", {4, 5, 6})
PORT_TEST_PASS == Byte("PORT_TEST_PASS", {})
PORT_TEST_BAD == Byte("PORT_TEST_BAD", {0})
ID1 == Byte("ID1", {0, 1, 5})
ID2 == Byte("ID2", {0, 1})
CfgBits == {0, 1, 4, 5, 6}
Cfg(bits) == Byte("CFG", bits)
KeyByte == Byte("KEY", {4})

\* The answer to `which scan set'; translated, it is another byte.
SetNumber(n) ==
  IF 6 \in cfg THEN Byte("ODD", {0, 1, 6})
  ELSE Byte(<<"SET1", "SET2", "SET3">>[n], <<{0}, {1}, {0, 1}>>[n])

Bytes ==
  {ACK, RESEND, TEST_PASS, TEST_FAIL, PORT_TEST_PASS, PORT_TEST_BAD, ID1, ID2,
   KeyByte, Byte("ODD", {0, 1, 6}), Byte("SET1", {0}), Byte("SET2", {1}),
   Byte("SET3", {0, 1})}
  \union {Cfg(bits) : bits \in SUBSET CfgBits}

TIMEOUT == Byte("TIMEOUT", {})

(***************************************************************************)
(* Answers join the queue and readData gets the next byte, or gives up:    *)
(* because none comes, or while one is on its way, which is a disturbance. *)
(* f is the number of disturbances before the read.                        *)
(***************************************************************************)
ReadAfter(f, answers, got) ==
  LET q == out \o answers IN
  /\ \/ /\ q # << >>
        /\ got = Head(q)
        /\ out' = Tail(q)
        /\ faults' = f
     \/ /\ got = TIMEOUT
        /\ out' = q
        /\ faults' = IF q = << >> THEN f ELSE f + 1
  /\ faults' <= MaxFaults

Read(answers, got) == ReadAfter(faults, answers, got)

\* What a read can get: one of the answers, something older, or nothing.
Gets(answers) ==
  {out[n] : n \in DOMAIN out} \union {answers[n] : n \in DOMAIN answers}
    \union {TIMEOUT}

-----------------------------------------------------------------------------
(* PS2::initialize *)

\* disablePorts turns both clocks off; FlushOutput drops a byte, if any.
DisablePorts ==
  /\ pc = "disablePorts"
  /\ cfg' = cfg \union {4, 5}
  /\ out' = IF out = << >> THEN out ELSE Tail(out)
  /\ pc' = "configure"
  /\ UNCHANGED <<flags, sending, kbd, faults>>

\* Mutant: translation is left on.
ConfigureKeepsTranslation ==
  /\ pc = "configure"
  /\ \E got \in Gets(<<Cfg(cfg)>>) :
       /\ Read(<<Cfg(cfg)>>, got)
       /\ cfg' = IF got = TIMEOUT THEN cfg ELSE got.bits \ {0, 4, 5}
  /\ pc' = "selfTest"
  /\ UNCHANGED <<flags, sending, kbd>>

\* configure: the byte read is written back with interrupts and translation
\* off and the clocks on.
Configure ==
  /\ pc = "configure"
  /\ \E got \in Gets(<<Cfg(cfg)>>) :
       /\ Read(<<Cfg(cfg)>>, got)
       /\ cfg' = IF got = TIMEOUT THEN cfg ELSE got.bits \ {0, 4, 5, 6}
  /\ pc' = "selfTest"
  /\ UNCHANGED <<flags, sending, kbd>>

\* selfTest, and the panic of initialize.  Any other byte leaves testPassed.
SelfTest ==
  /\ pc = "selfTest"
  /\ \E ans \in {TEST_PASS, TEST_FAIL} : \E got \in Gets(<<ans>>) :
       /\ Read(<<ans>>, got)
       /\ testPassed' = CASE got = TEST_PASS -> TRUE
                          [] got = TEST_FAIL -> FALSE
                          [] OTHER -> testPassed
       /\ pc' = CASE got = RESEND -> "selfTest"
                  [] got # RESEND /\ testPassed' -> "detectChannel2"
                  [] OTHER -> "panic"
  /\ UNCHANGED <<cfg, port1TestPass, port2TestPass, hasTwoPorts, initialized,
                 sending, kbd>>

\* detectChannel2 looks at bit 4.
DetectChannel2 ==
  /\ pc = "detectChannel2"
  /\ \E got \in Gets(<<Cfg(cfg)>>) :
       /\ Read(<<Cfg(cfg)>>, got)
       /\ hasTwoPorts' = IF got = TIMEOUT THEN hasTwoPorts ELSE 4 \in got.bits
  /\ pc' = "testPort1"
  /\ UNCHANGED <<cfg, testPassed, port1TestPass, port2TestPass, initialized,
                 sending, kbd>>

\* After interfaceTest: port 2 counts only if it passed; enablePorts.
PortsTested ==
  /\ hasTwoPorts' = (hasTwoPorts /\ port2TestPass')
  /\ cfg' = IF hasTwoPorts' THEN cfg \ {4, 5} ELSE cfg \ {4}
  /\ pc' = "disable1"
  /\ sending' = "cmd"

\* interfaceTest, first port.  A timeout skips the second one.
TestPort1 ==
  /\ pc = "testPort1"
  /\ \E ans \in {PORT_TEST_PASS, PORT_TEST_BAD} : \E got \in Gets(<<ans>>) :
       /\ Read(<<ans>>, got)
       /\ port1TestPass' = CASE got \in {TIMEOUT, RESEND} -> port1TestPass
                             [] OTHER -> got = PORT_TEST_PASS
       /\ port2TestPass' = port2TestPass
       /\ CASE got = TIMEOUT -> PortsTested
            [] got = RESEND -> UNCHANGED <<pc, hasTwoPorts, cfg, sending>>
            [] OTHER -> pc' = "testPort2" /\ UNCHANGED <<hasTwoPorts, cfg, sending>>
  /\ UNCHANGED <<testPassed, initialized, kbd>>

\* interfaceTest, second port.
TestPort2 ==
  /\ pc = "testPort2"
  /\ \E ans \in IF TwoPorts THEN {PORT_TEST_PASS, PORT_TEST_BAD} ELSE {PORT_TEST_BAD} :
     \E got \in Gets(<<ans>>) :
       /\ Read(<<ans>>, got)
       /\ port2TestPass' = CASE got \in {TIMEOUT, RESEND} -> port2TestPass
                             [] OTHER -> got = PORT_TEST_PASS
       /\ IF got = RESEND
          THEN UNCHANGED <<pc, hasTwoPorts, cfg, sending>>
          ELSE PortsTested
  /\ UNCHANGED <<testPassed, port1TestPass, initialized, kbd>>

-----------------------------------------------------------------------------
(* writePort2 *)

\* writePort2(DISABLE_DEV), then the step `next'.  After a timeout the
\* switch looks at a byte that was never written.
WritePort2(next) ==
  LET ans == IF TwoPorts /\ 5 \notin cfg THEN <<ACK>> ELSE << >> IN
  /\ \E got \in Gets(ans) :
       /\ Read(ans, got)
       /\ pc' \in CASE got = RESEND -> {pc}
                    [] got = TIMEOUT -> {pc, next}
                    [] OTHER -> {next}
  /\ UNCHANGED <<cfg, flags, sending, kbd>>

-----------------------------------------------------------------------------
(* writePort1, and the keyboard at the other end *)

Heard == 4 \notin cfg

\* The keyboard takes a byte and answers: what it does with it, and ans.
Takes(byte, ans) ==
  CASE byte = "DISABLE" ->
         ans = <<ACK>> /\ kon' = FALSE /\ karg' = "none" /\ kscan' = kscan
    [] byte = "ENABLE" ->
         ans = <<ACK>> /\ kon' = TRUE /\ karg' = "none" /\ kscan' = kscan
    [] byte = "GET_ID" ->
         /\ ans \in {<<ACK>>, <<ACK, ID1, ID2>>}
         /\ karg' = "none" /\ UNCHANGED <<kon, kscan>>
    [] byte \in {"MOD_SCANSET", "SET_LEDS"} ->
         ans = <<ACK>> /\ karg' = byte /\ UNCHANGED <<kon, kscan>>
    [] byte = "0" /\ karg = "MOD_SCANSET" ->
         /\ ans = <<ACK, SetNumber(kscan)>>
         /\ karg' = "none" /\ UNCHANGED <<kon, kscan>>
    [] byte = "2" /\ karg # "none" ->
         /\ ans = <<ACK>>
         /\ kscan' = IF karg = "MOD_SCANSET" THEN 2 ELSE kscan
         /\ karg' = "none" /\ kon' = kon
    [] OTHER ->
         ans = <<RESEND>> /\ UNCHANGED <<kon, karg, kscan>>

\* What it answers, and the disturbances f up to there.  With its clock off
\* it hears nothing; 0xfe makes it repeat its last byte; garbled, a byte
\* makes it ask again.
Answers(byte, ans, f) ==
  \/ /\ ~Heard
     /\ ans = << >> /\ f = faults
     /\ UNCHANGED kbd
  \/ /\ Heard /\ byte = "0xfe"
     /\ ans = <<klast>> /\ f = faults
     /\ UNCHANGED kbd
  \/ /\ Heard /\ byte # "0xfe"
     /\ Takes(byte, ans) /\ f = faults
     /\ klast' = IF ans = <<RESEND>> THEN klast ELSE ans[Len(ans)]
  \/ /\ Heard /\ byte # "0xfe"
     /\ ans = <<RESEND>> /\ f = faults + 1
     /\ UNCHANGED kbd

AnswerSeqs ==
  {<< >>, <<ACK>>, <<RESEND>>, <<klast>>, <<ACK, ID1, ID2>>}
    \union {<<ACK, SetNumber(n)>> : n \in 1 .. 3}

(***************************************************************************)
(* writePort1(cmd), then the step `next'; got is what the answer reads as. *)
(* Asked to resend, it sends 0xfe instead of the command from then on: the *)
(* answer overwrote it.                                                    *)
(***************************************************************************)
WritePort1(cmd, next, got) ==
  LET byte == IF sending = "cmd" THEN cmd ELSE "0xfe" IN
  \E ans \in AnswerSeqs, f \in {faults, faults + 1} :
    /\ Answers(byte, ans, f)
    /\ ReadAfter(f, ans, got)
    /\ IF got = RESEND
       THEN pc' = pc /\ sending' = "0xfe"
       ELSE pc' = next /\ sending' = "cmd"

Command(cmd, next) ==
  /\ \E got \in Bytes \union {TIMEOUT} : WritePort1(cmd, next, got)
  /\ UNCHANGED <<cfg, flags>>

\* disableScanning.
DisableScanning ==
  \/ /\ pc = "disable1"
     /\ Command("DISABLE", IF hasTwoPorts THEN "disable2" ELSE "finish")
  \/ /\ pc = "disable2"
     /\ WritePort2("finish")

\* The end of initialize.
Finish ==
  /\ pc = "finish"
  /\ initialized' = port1TestPass
  /\ pc' = "getID"
  /\ UNCHANGED <<out, cfg, testPassed, port1TestPass, port2TestPass,
                 hasTwoPorts, sending, kbd, faults>>

Initialize ==
  \/ DisablePorts \/ Configure \/ SelfTest \/ DetectChannel2
  \/ TestPort1 \/ TestPort2 \/ DisableScanning \/ Finish

-----------------------------------------------------------------------------
(* EnableInterrupt1 *)

\* Mutant: the byte is written back as it was read.
EnableInterrupt1NoBit(next) ==
  /\ \E got \in Gets(<<Cfg(cfg)>>) :
       /\ Read(<<Cfg(cfg)>>, got)
       /\ cfg' = IF got = TIMEOUT THEN cfg ELSE got.bits
  /\ pc' = next
  /\ UNCHANGED <<flags, sending, kbd>>

\* The configuration byte is read and written back with bit 0 set.
EnableInterrupt1(next) ==
  /\ \E got \in Gets(<<Cfg(cfg)>>) :
       /\ Read(<<Cfg(cfg)>>, got)
       /\ cfg' = IF got = TIMEOUT THEN cfg
                 ELSE got.bits \union {0}
  /\ pc' = next
  /\ UNCHANGED <<flags, sending, kbd>>

\* A key is pressed while the driver is not ready for it.
EarlyKey ==
  /\ pc \notin {"run", "panic"}
  /\ kon /\ Heard
  /\ faults < MaxFaults
  /\ out' = Append(out, KeyByte)
  /\ faults' = faults + 1
  /\ UNCHANGED <<pc, cfg, flags, sending, kbd>>

\* The PS2 object is built on the stack and copied: its flags start as
\* whatever was there.
Init ==
  /\ pc = "disablePorts"
  /\ out \in {<< >>, <<KeyByte>>}
  /\ cfg \in BootCfgs
  /\ testPassed \in BOOLEAN /\ port1TestPass \in BOOLEAN
  /\ port2TestPass \in BOOLEAN /\ hasTwoPorts \in BOOLEAN
  /\ initialized \in BOOLEAN
  /\ sending = "cmd"
  /\ kscan \in ScanSets /\ kon = TRUE /\ karg = "none" /\ klast = ACK
  /\ faults = 0
=============================================================================
