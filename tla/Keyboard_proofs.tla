---------------------------- MODULE Keyboard_proofs ----------------------------
(***************************************************************************)
(* The keyboard's initialisation stays in step with the keyboard and leaves *)
(* it working, and the handler prints presses, for every firmware setting, *)
(* scan set, number of disturbances and set of keys.  The invariant says   *)
(* what is on its way at each step of an undisturbed initialisation, that  *)
(* behind a break code only keys' bytes come, and that from an ordinary    *)
(* release on isBreak says whether the last byte was a break code.         *)
(***************************************************************************)
EXTENDS Keyboard, TLAPS

-----------------------------------------------------------------------------
(* The invariant *)

\* What the controller and the keyboard answer, early keys included.
AnswerKinds ==
  {"ACK", "RESEND", "TEST_PASS", "TEST_FAIL", "PORT_TEST_PASS", "PORT_TEST_BAD",
   "ID1", "ID2", "CFG", "KEY", "ODD", "SET1", "SET2", "SET3"}
AnswerByte == [kind : AnswerKinds, bits : SUBSET CfgBits]

\* The bytes of keys.
KeyBytes == {BreakCode, Prefix} \union {Code(k) : k \in Keys \union Others \union Locks}
AnyByte == AnswerByte \union KeyBytes

Typed ==
  /\ faults \in Nat /\ kscan \in 1 .. 3
  /\ cfg \in SUBSET CfgBits /\ klast \in AnswerByte
  /\ out \in Seq(AnyByte) /\ typed \in Seq(AnyByte) /\ isBreak \in BOOLEAN
  /\ pc # "run" => out \in Seq(AnswerByte) /\ typed = << >> /\ shown = << >>

\* Undisturbed, what is on its way and how the keyboard is at each step.
Undisturbed ==
  /\ sending = "cmd"
  /\ pc \notin {"disablePorts", "configure"} => 4 \notin cfg /\ 6 \notin cfg
  /\ pc \notin {"disablePorts", "id0", "id1", "askRead", "run", "panic"} => out = << >>
  /\ pc = "disablePorts" => out \in {<< >>, <<KeyByte>>}
  /\ pc = "id0" => out \in {<< >>, <<ID1, ID2>>}
  /\ pc = "id1" => out = <<ID2>>
  /\ pc = "askRead" => out = <<SetNumber(kscan)>>
  /\ pc \in {"ask0", "set2"} => karg = "MOD_SCANSET"
  /\ pc = "ledStatus" => karg = "SET_LEDS"
  /\ pc = "skipAck" /\ scanset = SET2 => kscan = 2
  /\ pc \in {"setRead", "leds", "ledStatus", "enable", "interrupt", "run"} => kscan = 2
  /\ pc \in {"interrupt", "run"} => kon = TRUE
  /\ pc = "run" => 0 \in cfg

\* Behind a break code there are only keys: whatever answers were late came
\* before it.
KeysFollow ==
  \A i, j \in DOMAIN (typed \o out) :
    (typed \o out)[i] = BreakCode /\ i < j => (typed \o out)[j] \in KeyBytes

\* From an ordinary release on isBreak says whether the last byte was a break
\* code.
Recovered ==
  \A n \in DOMAIN typed :
    OrdinaryRelease(n) /\ ~ (\E l \in n .. Len(typed) : LockRelease(l)) =>
      (isBreak <=> typed[Len(typed)] = BreakCode)

ShownInPlace ==
  shown \in Seq(Nat \X (Keys \union {"err"})) /\ \A s \in DOMAIN shown : shown[s][1] \in DOMAIN typed

PrintOK == KeysFollow /\ Recovered /\ ShownInPlace /\ PrintsPresses

KInv == Typed /\ (Clean => Undisturbed) /\ PrintOK

-----------------------------------------------------------------------------
(* Bytes *)

\* The answers are bytes, and none of them is a break code.
LEMMA AnswersAreBytes ==
  /\ {ACK, RESEND, TEST_PASS, TEST_FAIL, PORT_TEST_PASS, PORT_TEST_BAD, ID1, ID2, KeyByte} \subseteq AnswerByte
  /\ \A n \in 1 .. 3 : SetNumber(n) \in AnswerByte
  /\ \A c \in SUBSET CfgBits : Cfg(c) \in AnswerByte
  /\ BreakCode \notin AnswerByte
<1>1. {ACK, RESEND, TEST_PASS, TEST_FAIL, PORT_TEST_PASS, PORT_TEST_BAD, ID1, ID2, KeyByte} \subseteq AnswerByte
  BY DEF ACK, RESEND, TEST_PASS, TEST_FAIL, PORT_TEST_PASS, PORT_TEST_BAD, ID1, ID2, KeyByte,
         Byte, AnswerByte, AnswerKinds, CfgBits
<1>2. \A n \in 1 .. 3 : SetNumber(n) \in AnswerByte
  BY DEF SetNumber, Byte, AnswerByte, AnswerKinds, CfgBits
<1>3. \A c \in SUBSET CfgBits : Cfg(c) \in AnswerByte
  BY DEF Cfg, Byte, AnswerByte, AnswerKinds
<1>4. BreakCode \notin AnswerByte
  BY DEF BreakCode, Byte, AnswerByte, AnswerKinds
<1> QED
  BY <1>1, <1>2, <1>3, <1>4

\* The bytes the driver tells apart are different bytes.
LEMMA BytesDiffer ==
  /\ RESEND \notin {ACK, TIMEOUT, ID1, ID2, TEST_PASS, TEST_FAIL, PORT_TEST_PASS, PORT_TEST_BAD}
  /\ ACK # SET2
  /\ \A n \in 1 .. 3 : SetNumber(n) # RESEND /\ SetNumber(n) # TIMEOUT
  /\ \A n \in 1 .. 3 : SetNumber(n) = SET2 => n = 2
  /\ \A c : Cfg(c) # RESEND /\ Cfg(c) # TIMEOUT /\ Cfg(c).bits = c
  /\ TIMEOUT \notin {ACK, ID1, ID2, TEST_PASS, TEST_FAIL, PORT_TEST_PASS, PORT_TEST_BAD}
BY DEF RESEND, ACK, TIMEOUT, ID1, ID2, TEST_PASS, TEST_FAIL, PORT_TEST_PASS, PORT_TEST_BAD, SET2,
       SetNumber, Cfg, Byte

-----------------------------------------------------------------------------
(* Reads *)

\* A read leaves answers behind, and what it gets is one or nothing.
LEMMA ReadTyped ==
  ASSUME Typed, pc # "run", NEW f \in Nat, NEW answers \in Seq(AnswerByte), NEW got,
         ReadAfter(f, answers, got)
  PROVE  out' \in Seq(AnswerByte) /\ faults' \in Nat /\ got \in AnswerByte \union {TIMEOUT}
<1>1. out \o answers \in Seq(AnswerByte)
  BY DEF Typed
<1> DEFINE q == out \o answers
<1>2. \/ q # << >> /\ got = Head(q) /\ out' = Tail(q) /\ faults' = f
      \/ got = TIMEOUT /\ out' = q /\ faults' \in {f, f + 1}
  BY DEF ReadAfter
<1> HIDE DEF q
<1>3. q \in Seq(AnswerByte)
  BY <1>1 DEF q
<1>4. q # << >> => Head(q) \in AnswerByte /\ Tail(q) \in Seq(AnswerByte)
  BY <1>3
<1> QED
  BY <1>2, <1>3, <1>4

\* An undisturbed read gets the next byte if there is one.
LEMMA ReadClean ==
  ASSUME NEW f \in Nat, NEW answers, NEW got, ReadAfter(f, answers, got), faults' = 0
  PROVE  /\ f = 0
         /\ out \o answers = << >> => got = TIMEOUT /\ out' = << >>
         /\ out \o answers # << >> => got = Head(out \o answers) /\ out' = Tail(out \o answers)
BY DEF ReadAfter

\* With nothing on its way before, that is the answer.
LEMMA ReadAnswer ==
  ASSUME Typed, NEW answer, NEW got, Read(<<answer>>, got), faults' = 0, out = << >>
  PROVE  faults = 0 /\ got = answer /\ out' = << >>
<1>1. faults \in Nat /\ ReadAfter(faults, <<answer>>, got)
  BY DEF Read, Typed
<1>2. out \o <<answer>> = <<answer>>
  OBVIOUS
<1>3. got = Head(<<answer>>) /\ out' = Tail(<<answer>>) /\ faults = 0
  BY <1>1, <1>2, ReadClean
<1> QED
  BY <1>3

\* Before the end of the initialisation nothing is typed and nothing shown.
LEMMA NothingTyped ==
  ASSUME KInv, pc # "run", UNCHANGED <<isBreak, typed, shown>>, out' \in Seq(AnswerByte)
  PROVE  PrintOK' /\ (typed \in Seq(AnyByte) /\ isBreak \in BOOLEAN /\ typed = << >> /\ shown = << >>)'
<1>1. typed' = << >> /\ shown' = << >> /\ isBreak' \in BOOLEAN
  BY DEF KInv, Typed
<1>2. KeysFollow'
  <2>1. (typed \o out)' = out'
    BY <1>1
  <2>2. \A i \in DOMAIN out' : out'[i] \in AnswerByte
    OBVIOUS
  <2>3. \A i \in DOMAIN out' : out'[i] # BreakCode
    BY <2>2, AnswersAreBytes
  <2> QED
    BY <2>1, <2>3 DEF KeysFollow
<1>3. Recovered' /\ ShownInPlace' /\ PrintsPresses'
  BY <1>1 DEF Recovered, ShownInPlace, PrintsPresses
<1> QED
  BY <1>1, <1>2, <1>3 DEF PrintOK

\* What a step of the initialisation has to show.
LEMMA Boots ==
  ASSUME KInv, pc # "run", UNCHANGED <<isBreak, typed, shown>>,
         out' \in Seq(AnswerByte), faults' \in Nat, kscan' \in 1 .. 3,
         cfg' \in SUBSET CfgBits, klast' \in AnswerByte, Clean' => Undisturbed'
  PROVE  KInv'
<1>1. out' \in Seq(AnyByte)
  BY DEF AnyByte
<1>2. Typed'
  BY <1>1, NothingTyped DEF Typed
<1> QED
  BY <1>2, NothingTyped DEF KInv

-----------------------------------------------------------------------------
(* PS2::initialize *)

\* disablePorts and the byte FlushOutput drops.
LEMMA DisablePortsInv ==
  ASSUME KInv, DisablePorts, UNCHANGED kbdvars
  PROVE  KInv'
<1>1. /\ pc = "disablePorts" /\ pc' = "configure"
      /\ cfg' = cfg \union {4, 5} /\ out' = IF out = << >> THEN out ELSE Tail(out)
      /\ UNCHANGED <<sending, kscan, klast, faults, isBreak, typed, shown>>
  BY DEF DisablePorts, kbd, kbdvars
<1>2. out \in Seq(AnswerByte)
  BY <1>1 DEF KInv, Typed
<1>3. out' \in Seq(AnswerByte)
  BY <1>1, <1>2
<1>4. cfg' \in SUBSET CfgBits
  BY <1>1 DEF KInv, Typed, CfgBits
<1>5. ASSUME Clean' PROVE Undisturbed'
  <2>1. out \in {<< >>, <<KeyByte>>}
    BY <1>1, <1>5 DEF Clean, KInv, Undisturbed
  <2>2. Tail(<<KeyByte>>) = << >>
    OBVIOUS
  <2>3. out' = << >>
    BY <1>1, <2>1, <2>2
  <2> QED
    BY <1>1, <1>5, <2>3 DEF Clean, KInv, Undisturbed
<1> QED
  BY <1>1, <1>3, <1>4, <1>5, Boots DEF KInv, Typed

\* configure: undisturbed, the configuration read is the one there was.
LEMMA ConfigureInv ==
  ASSUME KInv, Configure, UNCHANGED kbdvars
  PROVE  KInv'
<1>1. PICK got \in Gets(<<Cfg(cfg)>>) :
        Read(<<Cfg(cfg)>>, got) /\ cfg' = IF got = TIMEOUT THEN cfg ELSE got.bits \ {0, 4, 5, 6}
  BY DEF Configure
<1>2. /\ pc = "configure" /\ pc' = "selfTest"
      /\ UNCHANGED <<sending, kscan, klast, isBreak, typed, shown>>
  BY DEF Configure, kbd, kbdvars
<1>3. Typed /\ cfg \in SUBSET CfgBits /\ faults \in Nat
  BY DEF KInv, Typed
<1>4. <<Cfg(cfg)>> \in Seq(AnswerByte)
  BY <1>3, AnswersAreBytes
<1>5. out' \in Seq(AnswerByte) /\ faults' \in Nat /\ got \in AnswerByte \union {TIMEOUT}
  BY <1>1, <1>2, <1>3, <1>4, ReadTyped DEF Read
<1>6. cfg' \in SUBSET CfgBits
  BY <1>1, <1>3, <1>5 DEF AnswerByte
<1>7. ASSUME Clean' PROVE Undisturbed'
  <2>1. faults = 0 /\ out = << >>
    <3>1. faults = 0
      BY <1>1, <1>3, <1>7, ReadClean DEF Read, Clean
    <3> QED
      BY <1>2, <3>1 DEF KInv, Clean, Undisturbed
  <2>2. got = Cfg(cfg) /\ out' = << >>
    BY <1>1, <1>3, <1>7, <2>1, ReadAnswer DEF Clean
  <2>3. 4 \notin cfg' /\ 6 \notin cfg'
    BY <1>1, <2>2, BytesDiffer
  <2> QED
    BY <1>2, <2>1, <2>2, <2>3 DEF Clean, KInv, Undisturbed
<1> QED
  BY <1>2, <1>3, <1>5, <1>6, <1>7, Boots DEF Typed

\* selfTest: undisturbed, it gets its own answer.
LEMMA SelfTestInv ==
  ASSUME KInv, SelfTest, UNCHANGED kbdvars
  PROVE  KInv'
<1>1. PICK ans \in {TEST_PASS, TEST_FAIL} : \E got \in Gets(<<ans>>) :
        /\ Read(<<ans>>, got)
        /\ pc' \in {"detectChannel2", "panic"} \/ (got = RESEND /\ pc' = "selfTest")
  BY DEF SelfTest
<1>2. PICK got \in Gets(<<ans>>) :
        /\ Read(<<ans>>, got)
        /\ pc' \in {"detectChannel2", "panic"} \/ (got = RESEND /\ pc' = "selfTest")
  BY <1>1
<1>3. pc = "selfTest" /\ UNCHANGED <<cfg, sending, kscan, klast, isBreak, typed, shown>>
  BY DEF SelfTest, kbd, kbdvars
<1>4. Typed /\ faults \in Nat
  BY DEF KInv, Typed
<1>5. <<ans>> \in Seq(AnswerByte)
  BY AnswersAreBytes
<1>6. out' \in Seq(AnswerByte) /\ faults' \in Nat
  BY <1>2, <1>3, <1>4, <1>5, ReadTyped DEF Read
<1>7. ASSUME Clean' PROVE Undisturbed'
  <2>1. faults = 0
    BY <1>2, <1>4, <1>7, ReadClean DEF Read, Clean
  <2>2. Undisturbed
    BY <2>1 DEF KInv, Clean
  <2>3. out' = << >>
    BY <1>2, <1>3, <1>4, <1>7, <2>2, ReadAnswer DEF Clean, Undisturbed
  <2> QED
    BY <1>2, <1>3, <2>2, <2>3 DEF Undisturbed
<1> QED
  BY <1>3, <1>4, <1>6, <1>7, Boots DEF Typed

\* detectChannel2: undisturbed, it gets its own answer.
LEMMA DetectChannel2Inv ==
  ASSUME KInv, DetectChannel2, UNCHANGED kbdvars
  PROVE  KInv'
<1>1. PICK got \in Gets(<<Cfg(cfg)>>) : Read(<<Cfg(cfg)>>, got)
  BY DEF DetectChannel2
<1>2. /\ pc = "detectChannel2" /\ pc' = "testPort1"
      /\ UNCHANGED <<cfg, sending, kscan, klast, isBreak, typed, shown>>
  BY DEF DetectChannel2, kbd, kbdvars
<1>3. Typed /\ cfg \in SUBSET CfgBits /\ faults \in Nat
  BY DEF KInv, Typed
<1>4. <<Cfg(cfg)>> \in Seq(AnswerByte)
  BY <1>3, AnswersAreBytes
<1>5. out' \in Seq(AnswerByte) /\ faults' \in Nat
  BY <1>1, <1>2, <1>3, <1>4, ReadTyped DEF Read
<1>6. ASSUME Clean' PROVE Undisturbed'
  <2>1. faults = 0
    BY <1>1, <1>3, <1>6, ReadClean DEF Read, Clean
  <2>2. Undisturbed
    BY <2>1 DEF KInv, Clean
  <2>3. out' = << >>
    BY <1>1, <1>2, <1>3, <1>6, <2>2, ReadAnswer DEF Clean, Undisturbed
  <2> QED
    BY <1>2, <2>2, <2>3 DEF Undisturbed
<1> QED
  BY <1>2, <1>3, <1>5, <1>6, Boots DEF Typed

\* Either port's test: what they have in common.
LEMMA PortTestInv ==
  ASSUME KInv, pc \in {"testPort1", "testPort2"}, pc' \in {"testPort1", "testPort2", "disable1"},
         NEW ans \in {PORT_TEST_PASS, PORT_TEST_BAD}, NEW got, Read(<<ans>>, got),
         cfg' = cfg \/ cfg' = cfg \ {4, 5} \/ cfg' = cfg \ {4},
         sending' = sending \/ sending' = "cmd",
         UNCHANGED <<kscan, klast, isBreak, typed, shown>>
  PROVE  KInv'
<1>1. Typed /\ faults \in Nat
  BY DEF KInv, Typed
<1>2. <<ans>> \in Seq(AnswerByte)
  BY AnswersAreBytes
<1>3. out' \in Seq(AnswerByte) /\ faults' \in Nat
  BY <1>1, <1>2, ReadTyped DEF Read
<1>4. cfg' \in SUBSET CfgBits
  BY <1>1 DEF Typed
<1>5. ASSUME Clean' PROVE Undisturbed'
  <2>1. faults = 0
    BY <1>1, <1>5, ReadClean DEF Read, Clean
  <2>2. Undisturbed
    BY <2>1 DEF KInv, Clean
  <2>3. out' = << >>
    BY <1>1, <1>5, <2>2, ReadAnswer DEF Clean, Undisturbed
  <2> QED
    BY <2>2, <2>3 DEF Undisturbed
<1> QED
  BY <1>1, <1>3, <1>4, <1>5, Boots DEF Typed

\* interfaceTest of the first port.
LEMMA TestPort1Inv ==
  ASSUME KInv, TestPort1, UNCHANGED kbdvars
  PROVE  KInv'
<1>1. PICK ans \in {PORT_TEST_PASS, PORT_TEST_BAD} : \E got \in Gets(<<ans>>) :
        /\ Read(<<ans>>, got)
        /\ PortsTested \/ UNCHANGED <<pc, cfg, sending>> \/ (pc' = "testPort2" /\ UNCHANGED <<cfg, sending>>)
  BY DEF TestPort1
<1>2. pc = "testPort1" /\ UNCHANGED <<kscan, klast, isBreak, typed, shown>>
  BY DEF TestPort1, kbd, kbdvars
<1> QED
  BY <1>1, <1>2, PortTestInv DEF PortsTested

\* interfaceTest of the second port.
LEMMA TestPort2Inv ==
  ASSUME KInv, TestPort2, UNCHANGED kbdvars
  PROVE  KInv'
<1>1. PICK ans \in {PORT_TEST_PASS, PORT_TEST_BAD} : \E got \in Gets(<<ans>>) :
        /\ Read(<<ans>>, got)
        /\ PortsTested \/ UNCHANGED <<pc, cfg, sending>>
  BY DEF TestPort2
<1>2. pc = "testPort2" /\ UNCHANGED <<kscan, klast, isBreak, typed, shown>>
  BY DEF TestPort2, kbd, kbdvars
<1> QED
  BY <1>1, <1>2, PortTestInv DEF PortsTested

-----------------------------------------------------------------------------
(* Commands *)

\* What a command is answered is a sequence of answers.
LEMMA AnswerSeqsTyped ==
  ASSUME klast \in AnswerByte, NEW ans \in AnswerSeqs
  PROVE  ans \in Seq(AnswerByte)
<1>1. ASSUME NEW b \in AnswerByte, ans = <<b>> PROVE ans \in Seq(AnswerByte)
  BY <1>1
<1>2. CASE ans \in {<< >>, <<ACK>>, <<RESEND>>, <<klast>>, <<ACK, ID1, ID2>>}
  <2>1. CASE ans = << >>
    BY <2>1
  <2>2. CASE ans \in {<<ACK>>, <<RESEND>>, <<klast>>}
    BY <1>1, <2>2, AnswersAreBytes
  <2>3. CASE ans = <<ACK, ID1, ID2>>
    <3>1. PICK b \in AnswerByte, c \in AnswerByte, d \in AnswerByte : b = ACK /\ c = ID1 /\ d = ID2
      BY AnswersAreBytes
    <3>2. ans = <<b, c, d>>
      BY <2>3, <3>1
    <3> QED
      BY <3>2
  <2> QED
    BY <1>2, <2>1, <2>2, <2>3
<1>3. CASE \E n \in 1 .. 3 : ans = <<ACK, SetNumber(n)>>
  <2>1. PICK n \in 1 .. 3 : ans = <<ACK, SetNumber(n)>>
    BY <1>3
  <2>2. PICK b \in AnswerByte : b = SetNumber(n)
    BY AnswersAreBytes
  <2>3. ans = <<ACK, b>> /\ ACK \in AnswerByte
    BY <2>1, <2>2, AnswersAreBytes
  <2> QED
    BY <2>3
<1> QED
  BY <1>2, <1>3 DEF AnswerSeqs

\* Disturbed or not, a command leaves answers on their way.
LEMMA CommandTyped ==
  ASSUME Typed, pc # "run", NEW cmd, NEW next, NEW got, WritePort1(cmd, next, got)
  PROVE  /\ out' \in Seq(AnswerByte) /\ faults' \in Nat
         /\ kscan' \in 1 .. 3 /\ klast' \in AnswerByte
<1> DEFINE byte == IF sending = "cmd" THEN cmd ELSE "0xfe"
<1>1. PICK ans \in AnswerSeqs : \E f \in {faults, faults + 1} :
        Answers(byte, ans, f) /\ ReadAfter(f, ans, got)
  BY Zenon DEF WritePort1
<1>2. PICK f \in {faults, faults + 1} : Answers(byte, ans, f) /\ ReadAfter(f, ans, got)
  BY <1>1
<1> HIDE DEF byte
<1>3. ans \in Seq(AnswerByte)
  BY AnswerSeqsTyped DEF Typed
<1>4. f \in Nat /\ kscan \in 1 .. 3 /\ klast \in AnswerByte
  BY DEF Typed
<1>5. out' \in Seq(AnswerByte) /\ faults' \in Nat
  BY <1>2, <1>3, <1>4, ReadTyped
<1>6. ASSUME Takes(byte, ans) PROVE kscan' \in 1 .. 3 /\ ans # << >>
  <2>1. kscan' = kscan \/ kscan' = 2
    BY <1>6 DEF Takes
  <2>2. ans \in {<<ACK>>, <<ACK, ID1, ID2>>, <<ACK, SetNumber(kscan)>>, <<RESEND>>}
    BY <1>6 DEF Takes
  <2>3. ans # << >>
    BY <2>2
  <2> QED
    BY <1>4, <2>1, <2>3
<1>7. kscan' \in 1 .. 3
  BY <1>2, <1>4, <1>6 DEF Answers, kbd
<1>8. klast' \in AnswerByte
  <2>1. ans # << >> => ans[Len(ans)] \in AnswerByte
    BY <1>3
  <2> QED
    BY <1>2, <1>4, <1>6, <2>1 DEF Answers, kbd
<1> QED
  BY <1>5, <1>7, <1>8

\* An undisturbed command that the keyboard knows is taken and acknowledged,
\* and the rest of the answer is on its way.
LEMMA CommandClean ==
  ASSUME Typed, Undisturbed, out = << >>, pc \notin {"disablePorts", "configure"}, Clean',
         NEW cmd, cmd # "0xfe", NEW next, NEW got, WritePort1(cmd, next, got),
         \A ans \in AnswerSeqs : Takes(cmd, ans) => ans # << >> /\ Head(ans) = ACK
  PROVE  /\ pc' = next /\ sending' = "cmd" /\ got = ACK
         /\ \E ans \in AnswerSeqs : Takes(cmd, ans) /\ out' = Tail(ans)
<1>1. sending = "cmd" /\ Heard
  BY DEF Undisturbed, Heard
<1>2. PICK ans \in AnswerSeqs : \E f \in {faults, faults + 1} :
        /\ Answers(cmd, ans, f) /\ ReadAfter(f, ans, got)
        /\ IF got = RESEND THEN pc' = pc /\ sending' = "0xfe" ELSE pc' = next /\ sending' = "cmd"
  BY <1>1, Zenon DEF WritePort1
<1>3. PICK f \in {faults, faults + 1} : Answers(cmd, ans, f) /\ ReadAfter(f, ans, got)
  BY <1>2
<1>4. faults \in Nat /\ f \in Nat
  BY DEF Typed
<1>5. f = 0 /\ f = faults
  BY <1>3, <1>4, ReadClean DEF Clean
<1>6. Takes(cmd, ans)
  BY <1>1, <1>3, <1>4, <1>5 DEF Answers
<1>7. ans # << >> /\ Head(ans) = ACK
  BY <1>6
<1>8. out \o ans = ans
  <2>1. ans \in Seq(AnswerByte)
    BY AnswerSeqsTyped DEF Typed
  <2> QED
    BY <2>1
<1>9. got = ACK /\ out' = Tail(ans)
  BY <1>3, <1>4, <1>7, <1>8, ReadClean DEF Clean
<1> QED
  BY <1>2, <1>6, <1>9, BytesDiffer

\* What the keyboard makes of each command.
LEMMA Commands ==
  ASSUME NEW ans \in AnswerSeqs
  PROVE  /\ Takes("DISABLE", ans) => ans = <<ACK>> /\ kon' = FALSE /\ kscan' = kscan
         /\ Takes("ENABLE", ans) => ans = <<ACK>> /\ kon' = TRUE /\ kscan' = kscan
         /\ Takes("GET_ID", ans) => ans \in {<<ACK>>, <<ACK, ID1, ID2>>} /\ UNCHANGED <<kon, kscan>>
         /\ \A c \in {"MOD_SCANSET", "SET_LEDS"} :
              Takes(c, ans) => ans = <<ACK>> /\ karg' = c /\ UNCHANGED <<kon, kscan>>
         /\ karg = "MOD_SCANSET" /\ Takes("0", ans) =>
              ans = <<ACK, SetNumber(kscan)>> /\ UNCHANGED <<kon, kscan>>
         /\ karg = "MOD_SCANSET" /\ Takes("2", ans) => ans = <<ACK>> /\ kscan' = 2 /\ kon' = kon
         /\ karg = "SET_LEDS" /\ Takes("2", ans) => ans = <<ACK>> /\ UNCHANGED <<kon, kscan>>
BY DEF Takes

\* A step that sends one command and nothing else: undisturbed it is enough
\* to know the step after it.
LEMMA CommandInv ==
  ASSUME KInv, pc \notin {"run", "disablePorts", "configure", "id0", "id1", "askRead", "panic"},
         NEW cmd, cmd # "0xfe", NEW next, NEW got, WritePort1(cmd, next, got),
         UNCHANGED <<cfg, flags, isBreak, typed, shown>>,
         Clean /\ Undisturbed =>
           \A ans \in AnswerSeqs : Takes(cmd, ans) => ans # << >> /\ Head(ans) = ACK,
         Clean /\ Undisturbed /\ pc' = next /\ sending' = "cmd" /\ got = ACK =>
           (\A ans \in AnswerSeqs : Takes(cmd, ans) /\ out' = Tail(ans) => Undisturbed')
  PROVE  KInv'
<1>1. Typed
  BY DEF KInv
<1>2. /\ out' \in Seq(AnswerByte) /\ faults' \in Nat
      /\ kscan' \in 1 .. 3 /\ klast' \in AnswerByte
  BY <1>1, CommandTyped
<1>3. cfg' \in SUBSET CfgBits
  BY <1>1 DEF Typed
<1>4. ASSUME Clean' PROVE Undisturbed'
  <2>1. faults = 0
    <3>1. \E f \in {faults, faults + 1} : \E ans : ReadAfter(f, ans, got)
      BY Zenon DEF WritePort1
    <3>2. PICK f \in {faults, faults + 1} : \E ans : ReadAfter(f, ans, got)
      BY <3>1
    <3>3. f \in Nat /\ faults \in Nat /\ (f = 0 => faults = 0)
      BY <1>1 DEF Typed
    <3>4. f = 0
      BY <1>4, <3>2, <3>3, ReadClean DEF Clean
    <3> QED
      BY <3>3, <3>4
  <2>2. Clean /\ Undisturbed
    BY <2>1 DEF Clean, KInv
  <2>3. out = << >>
    BY <2>2 DEF Undisturbed
  <2>4. /\ pc' = next /\ sending' = "cmd" /\ got = ACK
        /\ \E ans \in AnswerSeqs : Takes(cmd, ans) /\ out' = Tail(ans)
    BY <1>1, <1>4, <2>2, <2>3, CommandClean
  <2> QED
    BY <2>2, <2>4
<1> QED
  BY <1>2, <1>3, <1>4, Boots

\* disableScanning, both ports.
LEMMA DisableScanningInv ==
  ASSUME KInv, DisableScanning, UNCHANGED kbdvars
  PROVE  KInv'
<1> DEFINE next == IF hasTwoPorts THEN "disable2" ELSE "finish"
<1>1. CASE pc = "disable1" /\ Command("DISABLE", next)
  <2>1. PICK got : WritePort1("DISABLE", next, got)
    BY <1>1 DEF Command
  <2>2. UNCHANGED <<cfg, flags, isBreak, typed, shown>>
    BY <1>1 DEF Command, kbdvars
  <2>3. \A ans \in AnswerSeqs : Takes("DISABLE", ans) => ans = <<ACK>>
    BY Commands
  <2>6. <<ACK>> # << >> /\ Head(<<ACK>>) = ACK /\ Tail(<<ACK>>) = << >>
    OBVIOUS
  <2>4. next \in {"disable2", "finish"}
    OBVIOUS
  <2> HIDE DEF next
  <2>5. ASSUME Undisturbed, pc' = next, sending' = "cmd", out' = << >> PROVE Undisturbed'
    BY <1>1, <2>2, <2>4, <2>5 DEF Undisturbed
  <2> QED
    BY <1>1, <2>1, <2>2, <2>3, <2>5, <2>6, CommandInv
<1>2. CASE pc = "disable2" /\ WritePort2("finish")
  <2> DEFINE ans == IF TwoPorts /\ 5 \notin cfg THEN <<ACK>> ELSE << >>
  <2>1. PICK got : Read(ans, got) /\ pc' \in {pc, "finish"}
    BY <1>2 DEF WritePort2
  <2>2. pc = "disable2" /\ UNCHANGED <<cfg, flags, sending, kscan, klast, isBreak, typed, shown>>
    BY <1>2 DEF WritePort2, kbd, kbdvars
  <2>3. ans \in Seq(AnswerByte) /\ ans \in {<< >>, <<ACK>>}
    BY AnswersAreBytes
  <2> HIDE DEF ans
  <2>4. Typed /\ faults \in Nat
    BY DEF KInv, Typed
  <2>5. out' \in Seq(AnswerByte) /\ faults' \in Nat
    BY <2>1, <2>2, <2>3, <2>4, ReadTyped DEF Read
  <2>6. ASSUME Clean' PROVE Undisturbed'
    <3>1. faults = 0
      BY <2>1, <2>4, <2>6, ReadClean DEF Read, Clean
    <3>2. Undisturbed
      BY <3>1 DEF KInv, Clean
    <3>3. out = << >>
      BY <2>2, <3>2 DEF Undisturbed
    <3>4. out \o ans = ans
      BY <2>3, <3>3
    <3>5. out' = << >>
      <4>1. CASE ans = << >>
        BY <2>1, <2>4, <2>6, <3>4, <4>1, ReadClean DEF Read, Clean
      <4>2. CASE ans = <<ACK>>
        <5>1. ans # << >> /\ Tail(ans) = << >>
          BY <4>2
        <5> QED
          BY <2>1, <2>4, <2>6, <3>4, <5>1, ReadClean DEF Read, Clean
      <4> QED
        BY <2>3, <4>1, <4>2
    <3> QED
      BY <2>1, <2>2, <3>2, <3>5 DEF Undisturbed
  <2> QED
    BY <2>2, <2>4, <2>5, <2>6, Boots DEF Typed
<1> QED
  BY <1>1, <1>2 DEF DisableScanning

\* The end of PS2::initialize.
LEMMA FinishInv ==
  ASSUME KInv, Finish, UNCHANGED kbdvars
  PROVE  KInv'
<1>1. /\ pc = "finish" /\ pc' = "getID"
      /\ UNCHANGED <<out, cfg, sending, kscan, klast, faults, isBreak, typed, shown>>
  BY DEF Finish, kbd, kbdvars
<1>2. Typed /\ out \in Seq(AnswerByte)
  BY <1>1 DEF KInv, Typed
<1>3. Clean' => Undisturbed'
  BY <1>1 DEF KInv, Clean, Undisturbed
<1> QED
  BY <1>1, <1>2, <1>3, Boots DEF Typed

-----------------------------------------------------------------------------
(* ATKBD::Initialize *)

\* A step that reads and sends nothing: undisturbed it is enough to know the
\* step for what it gets.
LEMMA DriverReadInv ==
  ASSUME KInv, pc \in MidAnswer, NEW got, DriverRead(got), UNCHANGED <<isBreak, typed, shown>>,
         (/\ Clean /\ Undisturbed
          /\ (out = << >> => got = TIMEOUT /\ out' = << >>)
          /\ (out # << >> => got = Head(out) /\ out' = Tail(out)))
         => Undisturbed'
  PROVE  KInv'
<1>1. /\ ReadAfter(faults, << >>, got)
      /\ UNCHANGED <<cfg, sending, kscan, kon, karg, klast>>
  BY DEF DriverRead, Read, kbd
<1>2. Typed /\ faults \in Nat /\ out \in Seq(AnswerByte) /\ pc # "run"
  BY DEF KInv, Typed, MidAnswer
<1>3. << >> \in Seq(AnswerByte) /\ out \o << >> = out
  BY <1>2
<1>4. out' \in Seq(AnswerByte) /\ faults' \in Nat
  BY <1>1, <1>2, <1>3, ReadTyped
<1>5. ASSUME Clean' PROVE Undisturbed'
  <2>1. /\ faults = 0
        /\ out = << >> => got = TIMEOUT /\ out' = << >>
        /\ out # << >> => got = Head(out) /\ out' = Tail(out)
    BY <1>1, <1>2, <1>3, <1>5, ReadClean DEF Clean
  <2> QED
    BY <2>1 DEF Clean, KInv
<1> QED
  BY <1>1, <1>2, <1>4, <1>5, Boots DEF Typed

\* idkbd: undisturbed, both bytes of the answer are read, or it has none.
LEMMA IdKbdInv ==
  ASSUME KInv, IdKbd, UNCHANGED kbdvars
  PROVE  KInv'
<1>0. UNCHANGED <<isBreak, typed, shown>>
  BY DEF kbdvars
<1>1. CASE pc = "getID" /\ Command("GET_ID", "id0")
  <2>1. PICK got : WritePort1("GET_ID", "id0", got)
    BY <1>1 DEF Command
  <2>2. UNCHANGED <<cfg, flags>>
    BY <1>1 DEF Command
  <2>3. \A ans \in AnswerSeqs : Takes("GET_ID", ans) => ans \in {<<ACK>>, <<ACK, ID1, ID2>>} /\ UNCHANGED <<kon, kscan>>
    BY Commands
  <2>4. /\ <<ACK>> # << >> /\ Head(<<ACK>>) = ACK /\ Tail(<<ACK>>) = << >>
        /\ <<ACK, ID1, ID2>> # << >> /\ Head(<<ACK, ID1, ID2>>) = ACK
        /\ Tail(<<ACK, ID1, ID2>>) = <<ID1, ID2>>
    OBVIOUS
  <2>5. ASSUME Undisturbed, pc' = "id0", sending' = "cmd", out' \in {<< >>, <<ID1, ID2>>}
        PROVE  Undisturbed'
    BY <1>1, <2>2, <2>5 DEF Undisturbed
  <2> QED
    BY <1>0, <1>1, <2>1, <2>2, <2>3, <2>4, <2>5, CommandInv
<1>2. CASE pc = "id0" /\ \E got \in Bytes \union {TIMEOUT} :
                DriverRead(got) /\ pc' = IF got = TIMEOUT THEN "askSet" ELSE "id1"
  <2>1. PICK got : DriverRead(got) /\ pc' = IF got = TIMEOUT THEN "askSet" ELSE "id1"
    BY <1>2
  <2>2. ASSUME Undisturbed, out = << >> => got = TIMEOUT /\ out' = << >>,
               out # << >> => got = Head(out) /\ out' = Tail(out)
        PROVE  Undisturbed'
    <3>1. UNCHANGED <<cfg, sending, kscan, kon, karg, klast>>
      BY <2>1 DEF DriverRead, kbd
    <3>2. out \in {<< >>, <<ID1, ID2>>}
      BY <1>2, <2>2 DEF Undisturbed
    <3>3. <<ID1, ID2>> # << >> /\ Head(<<ID1, ID2>>) = ID1 /\ Tail(<<ID1, ID2>>) = <<ID2>>
      OBVIOUS
    <3>4. (pc' = "askSet" /\ out' = << >>) \/ (pc' = "id1" /\ out' = <<ID2>>)
      BY <2>1, <2>2, <3>2, <3>3, BytesDiffer
    <3> QED
      BY <1>2, <2>2, <3>1, <3>4 DEF Undisturbed
  <2> QED
    BY <1>0, <1>2, <2>1, <2>2, DriverReadInv DEF MidAnswer
<1>3. CASE pc = "id1" /\ \E got \in Bytes \union {TIMEOUT} : DriverRead(got) /\ pc' = "askSet"
  <2>1. PICK got : DriverRead(got) /\ pc' = "askSet"
    BY <1>3
  <2>2. ASSUME Undisturbed, out # << >> => got = Head(out) /\ out' = Tail(out)
        PROVE  Undisturbed'
    <3>1. UNCHANGED <<cfg, sending, kscan, kon, karg, klast>>
      BY <2>1 DEF DriverRead, kbd
    <3>2. out = <<ID2>>
      BY <1>3, <2>2 DEF Undisturbed
    <3>3. out' = << >>
      BY <2>2, <3>2
    <3> QED
      BY <1>3, <2>1, <2>2, <3>1, <3>3 DEF Undisturbed
  <2> QED
    BY <1>0, <1>3, <2>1, <2>2, DriverReadInv DEF MidAnswer
<1> QED
  BY <1>1, <1>2, <1>3 DEF IdKbd

\* setScanSet asks: undisturbed, the number it reads is the keyboard's.
LEMMA AskScanSetInv ==
  ASSUME KInv, AskScanSet, UNCHANGED <<isBreak, down, typed, shown>>
  PROVE  KInv'
<1>1. CASE pc = "askSet" /\ Command("MOD_SCANSET", "ask0") /\ scanset' = scanset
  <2>1. PICK got : WritePort1("MOD_SCANSET", "ask0", got)
    BY <1>1 DEF Command
  <2>2. UNCHANGED <<cfg, flags>>
    BY <1>1 DEF Command
  <2>3. \A ans \in AnswerSeqs : Takes("MOD_SCANSET", ans) =>
          ans = <<ACK>> /\ karg' = "MOD_SCANSET" /\ UNCHANGED <<kon, kscan>>
    BY Commands
  <2>5. <<ACK>> # << >> /\ Head(<<ACK>>) = ACK /\ Tail(<<ACK>>) = << >>
    OBVIOUS
  <2>4. ASSUME Undisturbed, pc' = "ask0", sending' = "cmd", out' = << >>, karg' = "MOD_SCANSET"
        PROVE  Undisturbed'
    BY <1>1, <2>2, <2>4 DEF Undisturbed
  <2> QED
    BY <1>1, <2>1, <2>2, <2>3, <2>4, <2>5, CommandInv
<1>2. CASE pc = "ask0" /\ Command("0", "askRead") /\ scanset' = scanset
  <2>1. PICK got : WritePort1("0", "askRead", got)
    BY <1>2 DEF Command
  <2>2. UNCHANGED <<cfg, flags>>
    BY <1>2 DEF Command
  <2>3. Undisturbed => karg = "MOD_SCANSET"
    BY <1>2 DEF Undisturbed
  <2>4. \A ans \in AnswerSeqs : Undisturbed /\ Takes("0", ans) =>
           ans = <<ACK, SetNumber(kscan)>> /\ UNCHANGED <<kon, kscan>>
    BY <2>3, Commands
  <2>5. /\ <<ACK, SetNumber(kscan)>> # << >> /\ Head(<<ACK, SetNumber(kscan)>>) = ACK
        /\ Tail(<<ACK, SetNumber(kscan)>>) = <<SetNumber(kscan)>>
    OBVIOUS
  <2>6. kscan' = kscan => SetNumber(kscan)' = SetNumber(kscan)
    BY <2>2 DEF SetNumber
  <2>7. ASSUME Undisturbed, pc' = "askRead", sending' = "cmd", kscan' = kscan,
               out' = <<SetNumber(kscan)>>
        PROVE  Undisturbed'
    BY <1>2, <2>2, <2>6, <2>7 DEF Undisturbed
  <2> QED
    BY <1>2, <2>1, <2>2, <2>4, <2>5, <2>7, CommandInv
<1>3. CASE /\ pc = "askRead"
           /\ \E got \in Bytes \union {TIMEOUT} :
                /\ DriverRead(got)
                /\ scanset' \in Into(got, {ACK, SET2, RESEND})
                /\ pc' = "skipAck"
  <2>1. PICK got : DriverRead(got) /\ scanset' \in Into(got, {ACK, SET2, RESEND}) /\ pc' = "skipAck"
    BY <1>3
  <2>2. ASSUME Clean, Undisturbed, out # << >> => got = Head(out) /\ out' = Tail(out)
        PROVE  Undisturbed'
    <3>1. UNCHANGED <<cfg, sending, kscan, kon, karg, klast>>
      BY <2>1 DEF DriverRead, kbd
    <3>2. out = <<SetNumber(kscan)>> /\ kscan \in 1 .. 3
      BY <1>3, <2>2 DEF Undisturbed, KInv, Typed
    <3>3. got = SetNumber(kscan) /\ out' = << >>
      BY <2>2, <3>2
    <3>4. scanset' = SetNumber(kscan)
      BY <2>1, <3>2, <3>3, BytesDiffer DEF Into
    <3>5. scanset' = SET2' => kscan' = 2
      BY <3>1, <3>2, <3>4, BytesDiffer DEF SET2
    <3> QED
      BY <1>3, <2>1, <2>2, <3>1, <3>3, <3>5 DEF Undisturbed
  <2> QED
    BY <1>3, <2>1, <2>2, DriverReadInv DEF MidAnswer
<1> QED
  BY <1>1, <1>2, <1>3 DEF AskScanSet

\* The loops that skip an ACK.
LEMMA SkipAckInv ==
  ASSUME KInv, SkipAck, UNCHANGED <<isBreak, down, typed, shown>>
  PROVE  KInv'
<1>0. pc = "skipAck"
  BY DEF SkipAck
<1>1. CASE scanset = ACK
  <2>1. PICK got : DriverRead(got) /\ scanset' \in Into(got, {ACK}) /\ pc' = pc
    BY <1>1 DEF SkipAck
  <2>2. ASSUME Undisturbed, out = << >> => got = TIMEOUT /\ out' = << >>
        PROVE  Undisturbed'
    <3>1. UNCHANGED <<cfg, sending, kscan, kon, karg, klast>>
      BY <2>1 DEF DriverRead, kbd
    <3>2. out' = << >> /\ scanset' = ACK
      BY <1>0, <2>1, <2>2 DEF Undisturbed, Into
    <3>3. scanset' # SET2'
      BY <3>2, BytesDiffer DEF SET2
    <3> QED
      BY <1>0, <2>1, <2>2, <3>1, <3>2, <3>3 DEF Undisturbed
  <2> QED
    BY <1>0, <2>1, <2>2, DriverReadInv DEF MidAnswer
<1>2. CASE scanset # ACK
  <2>1. /\ pc' = IF scanset = SET2 THEN "leds" ELSE "setSet"
        /\ UNCHANGED <<out, cfg, sending, kscan, kon, karg, klast, faults, scanset>>
    BY <1>2 DEF SkipAck, kbd
  <2>2. Typed /\ out \in Seq(AnswerByte)
    BY <1>0 DEF KInv, Typed
  <2>3. ASSUME Clean' PROVE Undisturbed'
    <3>1. Undisturbed
      BY <2>1, <2>3 DEF Clean, KInv
    <3> QED
      BY <1>0, <2>1, <3>1 DEF Undisturbed
  <2> QED
    BY <1>0, <2>1, <2>2, <2>3, Boots DEF Typed
<1> QED
  BY <1>1, <1>2

\* setScanSet sets: undisturbed, the keyboard is in scan set 2 then.
LEMMA SetScanSetInv ==
  ASSUME KInv, SetScanSet, UNCHANGED <<isBreak, down, typed, shown>>
  PROVE  KInv'
<1>0. /\ <<ACK>> # << >> /\ Head(<<ACK>>) = ACK /\ Tail(<<ACK>>) = << >>
  OBVIOUS
<1>1. CASE pc = "setSet" /\ Command("MOD_SCANSET", "set2") /\ scanset' = scanset
  <2>1. PICK got : WritePort1("MOD_SCANSET", "set2", got)
    BY <1>1 DEF Command
  <2>2. UNCHANGED <<cfg, flags>>
    BY <1>1 DEF Command
  <2>3. \A ans \in AnswerSeqs : Takes("MOD_SCANSET", ans) =>
          ans = <<ACK>> /\ karg' = "MOD_SCANSET" /\ UNCHANGED <<kon, kscan>>
    BY Commands
  <2>4. ASSUME Undisturbed, pc' = "set2", sending' = "cmd", out' = << >>, karg' = "MOD_SCANSET"
        PROVE  Undisturbed'
    BY <1>1, <2>2, <2>4 DEF Undisturbed
  <2> QED
    BY <1>0, <1>1, <2>1, <2>2, <2>3, <2>4, CommandInv
<1>2. CASE /\ pc = "set2"
           /\ \E got \in Bytes \union {TIMEOUT} : WritePort1("2", "setRead", got)
           /\ UNCHANGED <<cfg, flags>>
  <2>1. PICK got : WritePort1("2", "setRead", got)
    BY <1>2
  <2>2. Undisturbed => karg = "MOD_SCANSET"
    BY <1>2 DEF Undisturbed
  <2>3. \A ans \in AnswerSeqs : Undisturbed /\ Takes("2", ans) =>
          ans = <<ACK>> /\ kscan' = 2 /\ kon' = kon
    BY <2>2, Commands
  <2>4. ASSUME Undisturbed, pc' = "setRead", sending' = "cmd", out' = << >>, kscan' = 2
        PROVE  Undisturbed'
    BY <1>2, <2>4 DEF Undisturbed
  <2> QED
    BY <1>0, <1>2, <2>1, <2>3, <2>4, CommandInv
<1>3. CASE /\ pc = "setRead"
           /\ \E got \in Bytes \union {TIMEOUT} : DriverRead(got)
           /\ pc' = "skipAck"
  <2>1. PICK got : DriverRead(got)
    BY <1>3
  <2>2. ASSUME Undisturbed, out = << >> => got = TIMEOUT /\ out' = << >>
        PROVE  Undisturbed'
    <3>1. UNCHANGED <<cfg, sending, kscan, kon, karg, klast>>
      BY <2>1 DEF DriverRead, kbd
    <3>2. out' = << >> /\ kscan = 2
      BY <1>3, <2>2 DEF Undisturbed
    <3> QED
      BY <1>3, <2>2, <3>1, <3>2 DEF Undisturbed
  <2> QED
    BY <1>3, <2>1, <2>2, DriverReadInv DEF MidAnswer
<1> QED
  BY <1>1, <1>2, <1>3 DEF SetScanSet

\* updateLeds, ENABLE and EnableInterrupt1.
LEMMA FinishingInv ==
  ASSUME KInv, Finishing, UNCHANGED kbdvars
  PROVE  KInv'
<1>0. /\ UNCHANGED <<isBreak, typed, shown>>
      /\ <<ACK>> # << >> /\ Head(<<ACK>>) = ACK /\ Tail(<<ACK>>) = << >>
  BY DEF kbdvars
<1>1. CASE pc = "leds" /\ Command("SET_LEDS", "ledStatus")
  <2>1. PICK got : WritePort1("SET_LEDS", "ledStatus", got)
    BY <1>1 DEF Command
  <2>2. UNCHANGED <<cfg, flags>>
    BY <1>1 DEF Command
  <2>3. \A ans \in AnswerSeqs : Takes("SET_LEDS", ans) =>
          ans = <<ACK>> /\ karg' = "SET_LEDS" /\ UNCHANGED <<kon, kscan>>
    BY Commands
  <2>4. ASSUME Undisturbed, pc' = "ledStatus", sending' = "cmd", out' = << >>, karg' = "SET_LEDS",
               kscan' = kscan
        PROVE  Undisturbed'
    BY <1>1, <2>2, <2>4 DEF Undisturbed
  <2> QED
    BY <1>0, <1>1, <2>1, <2>2, <2>3, <2>4, CommandInv
<1>2. CASE pc = "ledStatus" /\ Command("2", "enable")
  <2>1. PICK got : WritePort1("2", "enable", got)
    BY <1>2 DEF Command
  <2>2. UNCHANGED <<cfg, flags>>
    BY <1>2 DEF Command
  <2>3. Undisturbed => karg = "SET_LEDS"
    BY <1>2 DEF Undisturbed
  <2>4. \A ans \in AnswerSeqs : Undisturbed /\ Takes("2", ans) =>
          ans = <<ACK>> /\ UNCHANGED <<kon, kscan>>
    BY <2>3, Commands
  <2>5. ASSUME Undisturbed, pc' = "enable", sending' = "cmd", out' = << >>, kscan' = kscan
        PROVE  Undisturbed'
    BY <1>2, <2>2, <2>5 DEF Undisturbed
  <2> QED
    BY <1>0, <1>2, <2>1, <2>2, <2>4, <2>5, CommandInv
<1>3. CASE pc = "enable" /\ Command("ENABLE", "interrupt")
  <2>1. PICK got : WritePort1("ENABLE", "interrupt", got)
    BY <1>3 DEF Command
  <2>2. UNCHANGED <<cfg, flags>>
    BY <1>3 DEF Command
  <2>3. \A ans \in AnswerSeqs : Takes("ENABLE", ans) => ans = <<ACK>> /\ kon' = TRUE /\ kscan' = kscan
    BY Commands
  <2>4. ASSUME Undisturbed, pc' = "interrupt", sending' = "cmd", out' = << >>, kon' = TRUE, kscan' = kscan
        PROVE  Undisturbed'
    BY <1>3, <2>2, <2>4 DEF Undisturbed
  <2> QED
    BY <1>0, <1>3, <2>1, <2>2, <2>3, <2>4, CommandInv
<1>4. CASE pc = "interrupt" /\ EnableInterrupt1("run")
  <2>1. PICK got \in Gets(<<Cfg(cfg)>>) :
          Read(<<Cfg(cfg)>>, got) /\ cfg' = IF got = TIMEOUT THEN cfg ELSE got.bits \union {0}
    BY <1>4 DEF EnableInterrupt1
  <2>2. pc' = "run" /\ UNCHANGED <<sending, kscan, kon, karg, klast>>
    BY <1>4 DEF EnableInterrupt1, kbd
  <2>3. Typed /\ cfg \in SUBSET CfgBits /\ faults \in Nat
    BY DEF KInv, Typed
  <2>4. <<Cfg(cfg)>> \in Seq(AnswerByte)
    BY <2>3, AnswersAreBytes
  <2>5. out' \in Seq(AnswerByte) /\ faults' \in Nat /\ got \in AnswerByte \union {TIMEOUT}
    BY <1>4, <2>1, <2>3, <2>4, ReadTyped DEF Read
  <2>6. cfg' \in SUBSET CfgBits
    BY <2>1, <2>3, <2>5 DEF AnswerByte, CfgBits
  <2>7. ASSUME Clean' PROVE Undisturbed'
    <3>1. faults = 0
      BY <2>1, <2>3, <2>7, ReadClean DEF Read, Clean
    <3>2. Undisturbed
      BY <3>1 DEF KInv, Clean
    <3>3. got = Cfg(cfg)
      BY <1>4, <2>1, <2>3, <2>7, <3>2, ReadAnswer DEF Clean, Undisturbed
    <3>4. cfg' = cfg \union {0}
      BY <2>1, <3>3, BytesDiffer
    <3> QED
      BY <1>4, <2>2, <3>2, <3>4 DEF Undisturbed
  <2> QED
    BY <1>0, <1>4, <2>2, <2>3, <2>5, <2>6, <2>7, Boots DEF Typed
<1> QED
  BY <1>1, <1>2, <1>3, <1>4 DEF Finishing

\* A key too early is a disturbance.
LEMMA EarlyKeyInv ==
  ASSUME KInv, EarlyKey, UNCHANGED kbdvars
  PROVE  KInv'
<1>1. /\ pc # "run" /\ out' = Append(out, KeyByte) /\ faults' = faults + 1
      /\ UNCHANGED <<cfg, kscan, klast, isBreak, typed, shown>>
  BY DEF EarlyKey, kbd, kbdvars
<1>2. Typed /\ out \in Seq(AnswerByte) /\ faults \in Nat
  BY <1>1 DEF KInv, Typed
<1>3. out' \in Seq(AnswerByte)
  BY <1>1, <1>2, AnswersAreBytes
<1>4. faults' \in Nat /\ ~ Clean'
  BY <1>1, <1>2 DEF Clean
<1> QED
  BY <1>1, <1>2, <1>3, <1>4, Boots DEF Typed

-----------------------------------------------------------------------------
(* Typing *)

\* Keys' bytes differ from each other, from the prefix and the break code.
LEMMA KeysDiffer ==
  /\ Prefix # BreakCode
  /\ \A k : Code(k) # BreakCode /\ Code(k) # Prefix /\ Code(k).kind = k
  /\ \A k, l : Code(k) = Code(l) => k = l
  /\ \A k \in Keys \union Others : ~ isKeyboardCommand(Code(k))
  /\ ~ isKeyboardCommand(BreakCode) /\ ~ isKeyboardCommand(Prefix)
<1>1. /\ \A k : Code(k) # BreakCode /\ Code(k) # Prefix /\ Code(k).kind = k
      /\ Prefix # BreakCode
  BY DEF Code, BreakCode, Prefix, Byte
<1>2. \A k, l : Code(k) = Code(l) => k = l
  BY <1>1
<1>3. \A k \in Keys \union Others : ~ isKeyboardCommand(Code(k))
  BY <1>2, KeysAssumption DEF isKeyboardCommand
<1> QED
  BY <1>1, <1>2, <1>3 DEF isKeyboardCommand

\* The keyboard sends a key's bytes behind what is on its way.
LEMMA KeysSent ==
  ASSUME KInv, pc = "run", NEW s \in Seq(KeyBytes), out' = out \o s,
         UNCHANGED <<pc, cfg, sending, kbd, faults, isBreak, typed, shown>>
  PROVE  KInv'
<1>1. Typed /\ out \in Seq(AnyByte) /\ typed \in Seq(AnyByte)
  BY DEF KInv, Typed
<1>2. s \in Seq(AnyByte)
  BY DEF AnyByte
<1>3. Typed'
  BY <1>1, <1>2 DEF Typed, kbd
<1>4. Clean' => Undisturbed'
  BY DEF KInv, Clean, Undisturbed, kbd
<1>5. KeysFollow'
  <2> DEFINE q == typed \o out
  <2>1. q \in Seq(AnyByte) /\ (typed \o out)' = q \o s
    BY <1>1, <1>2
  <2>2. \A i, j \in DOMAIN q : q[i] = BreakCode /\ i < j => q[j] \in KeyBytes
    BY DEF KInv, PrintOK, KeysFollow
  <2> HIDE DEF q
  <2>3. \A i, j \in DOMAIN (q \o s) :
           (q \o s)[i] = BreakCode /\ i < j => (q \o s)[j] \in KeyBytes
    BY <1>2, <2>1, <2>2
  <2> QED
    BY <2>1, <2>3 DEF KeysFollow
<1>6. (Recovered /\ ShownInPlace /\ PrintsPresses)'
  <2>1. Recovered /\ ShownInPlace /\ PrintsPresses
    BY DEF KInv, PrintOK
  <2>2. Recovered'
    BY <2>1 DEF Recovered, OrdinaryRelease, LockRelease
  <2>3. ShownInPlace'
    BY <2>1 DEF ShownInPlace
  <2>4. PrintsPresses'
    BY <2>1 DEF PrintsPresses, OrdinaryRelease, LockRelease
  <2> QED
    BY <2>2, <2>3, <2>4
<1> QED
  BY <1>3, <1>4, <1>5, <1>6 DEF KInv, PrintOK

\* A press or a release.
LEMMA PressInv ==
  ASSUME KInv, NEW k \in Keys \union Others \union Locks, Press(k) \/ Release(k)
  PROVE  KInv'
<1>1. Code(k) \in KeyBytes /\ Prefix \in KeyBytes /\ BreakCode \in KeyBytes
  BY DEF KeyBytes
<1>2. /\ << >> \in Seq(KeyBytes) /\ <<Prefix>> \in Seq(KeyBytes)
      /\ <<Code(k)>> \in Seq(KeyBytes) /\ <<BreakCode, Code(k)>> \in Seq(KeyBytes)
  <2>1. \A b \in KeyBytes : <<b>> \in Seq(KeyBytes)
    OBVIOUS
  <2>2. PICK b \in KeyBytes, c \in KeyBytes : b = BreakCode /\ c = Code(k)
    BY <1>1
  <2>3. <<b, c>> \in Seq(KeyBytes)
    OBVIOUS
  <2> QED
    BY <1>1, <2>1, <2>2, <2>3
<1>3. Make(k) \in Seq(KeyBytes) /\ Break(k) \in Seq(KeyBytes)
  BY <1>2 DEF Make, Break
<1>4. PICK s \in Seq(KeyBytes) : out' = out \o s
  BY <1>3 DEF Press, Release
<1>5. pc = "run" /\ UNCHANGED <<pc, cfg, sending, kbd, faults, isBreak, typed, shown>>
  BY DEF Press, Release, CanType
<1> QED
  BY <1>4, <1>5, KeysSent

-----------------------------------------------------------------------------
(* The handler: b is the byte it gets, L how many it got before. *)

\* What the handler does to its state.
Moves(b, L) ==
  /\ out \in Seq(AnyByte) /\ out # << >> /\ out' = Tail(out)
  /\ typed \in Seq(AnyByte) /\ typed' = Append(typed, b) /\ L \in Nat
  /\ b \in AnyByte /\ isBreak \in BOOLEAN
  /\ UNCHANGED <<pc, cfg, sending, kscan, kon, karg, klast, faults, scanset>>

Notes(b, L) ==
  \/ b = BreakCode /\ isBreak' = TRUE /\ shown' = shown
  \/ isKeyboardCommand(b) /\ isBreak' = isBreak /\ shown' = shown
  \/ /\ b # BreakCode /\ ~ isKeyboardCommand(b) /\ isBreak' = FALSE
     /\ shown' = IF isBreak THEN shown ELSE Append(shown, <<L + 1, toASCII(b)>>)

\* What the handler does is one of these.
LEMMA Handled ==
  ASSUME KInv, Handler, NEW b, b = Head(out), NEW L, L = Len(typed)
  PROVE  Moves(b, L) /\ Notes(b, L)
<1>1. out \in Seq(AnyByte) /\ typed \in Seq(AnyByte) /\ isBreak \in BOOLEAN
  BY DEF KInv, Typed
<1>2. out # << >> /\ out' = Tail(out) /\ typed' = Append(typed, b) /\ handleData(b)
  BY DEF Handler
<1>3. UNCHANGED <<pc, cfg, sending, kscan, kon, karg, klast, faults, scanset>>
  BY DEF Handler, kbd
<1>4. L \in Nat /\ b \in AnyByte
  BY <1>1, <1>2
<1>5. Notes(b, L)
  BY <1>2 DEF handleData, Shows, Notes
<1> QED
  BY <1>1, <1>2, <1>3, <1>4, <1>5 DEF Moves

\* The releases seen so far stay what they are.
LEMMA ReleasesStay ==
  ASSUME NEW L \in Nat, typed \in Seq(AnyByte), L = Len(typed), NEW b, typed' = Append(typed, b)
  PROVE  /\ \A n \in 1 .. L : typed'[n] = typed[n]
         /\ typed'[L + 1] = b /\ DOMAIN typed' = 1 .. L + 1 /\ Len(typed') = L + 1
         /\ DOMAIN typed = 1 .. L
         /\ \A n \in 1 .. L : OrdinaryRelease(n)' <=> OrdinaryRelease(n)
         /\ \A n \in 1 .. L : LockRelease(n)' <=> LockRelease(n)
<1>1. /\ \A n \in 1 .. L : typed'[n] = typed[n]
      /\ typed'[L + 1] = b /\ DOMAIN typed' = 1 .. L + 1 /\ Len(typed') = L + 1
      /\ DOMAIN typed = 1 .. L
  OBVIOUS
<1>2. ASSUME NEW n \in 1 .. L
      PROVE  (OrdinaryRelease(n)' <=> OrdinaryRelease(n)) /\ (LockRelease(n)' <=> LockRelease(n))
  <2>1. typed'[n] = typed[n] /\ (n > 1 => typed'[n - 1] = typed[n - 1])
    BY <1>1
  <2> QED
    BY <2>1 DEF OrdinaryRelease, LockRelease
<1> QED
  BY <1>1, <1>2

\* isBreak, from an ordinary release on, unless the byte ends it.
LEMMA RecoveredStays ==
  ASSUME KInv, Handler, NEW b, b = Head(out), NEW L, L = Len(typed)
  PROVE  Recovered'
<1>1. /\ typed \in Seq(AnyByte) /\ typed' = Append(typed, b) /\ L \in Nat /\ isBreak \in BOOLEAN
      /\ \/ b = BreakCode /\ isBreak' = TRUE
         \/ isKeyboardCommand(b) /\ isBreak' = isBreak
         \/ b # BreakCode /\ ~ isKeyboardCommand(b) /\ isBreak' = FALSE
  <2>1. Moves(b, L) /\ Notes(b, L)
    BY Handled
  <2>2. typed \in Seq(AnyByte) /\ typed' = Append(typed, b) /\ L \in Nat /\ isBreak \in BOOLEAN
    BY <2>1 DEF Moves
  <2>3. \/ b = BreakCode /\ isBreak' = TRUE
        \/ isKeyboardCommand(b) /\ isBreak' = isBreak
        \/ b # BreakCode /\ ~ isKeyboardCommand(b) /\ isBreak' = FALSE
    BY <2>1 DEF Notes
  <2> QED
    BY <2>2, <2>3
<1>2. L = Len(typed)
  OBVIOUS
<1>3. /\ typed'[L + 1] = b /\ DOMAIN typed' = 1 .. L + 1 /\ Len(typed') = L + 1
      /\ DOMAIN typed = 1 .. L
      /\ \A n \in 1 .. L : typed'[n] = typed[n]
      /\ \A n \in 1 .. L : OrdinaryRelease(n)' <=> OrdinaryRelease(n)
      /\ \A n \in 1 .. L : LockRelease(n)' <=> LockRelease(n)
  BY <1>1, <1>2, ReleasesStay
<1>4. Recovered
  BY DEF KInv, PrintOK
<1>5. ASSUME NEW n \in 1 .. L + 1, OrdinaryRelease(n)', ~ (\E l \in n .. L + 1 : LockRelease(l)')
      PROVE  isBreak' <=> b = BreakCode
  <2>1. CASE n = L + 1
    <3>1. \E k \in Keys \union Others : b = Code(k)
      BY <1>3, <1>5, <2>1 DEF OrdinaryRelease
    <3> QED
      BY <1>1, <3>1, KeysDiffer
  <2>2. CASE n \in 1 .. L
    <3>1. OrdinaryRelease(n) /\ ~ (\E l \in n .. L : LockRelease(l))
      BY <1>1, <1>3, <1>5, <2>2
    <3>2. isBreak <=> typed[L] = BreakCode
      BY <1>2, <1>3, <1>4, <2>2, <3>1 DEF Recovered
    <3>3. CASE isKeyboardCommand(b)
      <4>1. typed[L] # BreakCode
        <5>1. PICK m : m = L + 1
          OBVIOUS
        <5>2. m \in n .. L + 1 /\ L \in 1 .. L /\ m > 1 /\ m - 1 = L
          BY <1>1, <2>2, <5>1
        <5>3. ~ LockRelease(m)'
          BY <1>5, <5>2
        <5>4. typed'[m - 1] = typed[L] /\ typed'[m] = b
          BY <1>3, <5>1, <5>2
        <5> QED
          BY <3>3, <5>2, <5>3, <5>4 DEF LockRelease, isKeyboardCommand
      <4> QED
        BY <1>1, <3>2, <3>3, <4>1, KeysDiffer
    <3> QED
      BY <1>1, <3>3, KeysDiffer
  <2> QED
    BY <1>1, <2>1, <2>2
<1> QED
  BY <1>3, <1>5 DEF Recovered

\* What is shown has the place of a byte.
LEMMA ShownStays ==
  ASSUME KInv, Handler, NEW b, b = Head(out), NEW L, L = Len(typed)
  PROVE  ShownInPlace'
<1>1. /\ typed \in Seq(AnyByte) /\ typed' = Append(typed, b) /\ L \in Nat
      /\ shown' = shown \/ shown' = Append(shown, <<L + 1, toASCII(b)>>)
  BY Handled DEF Moves, Notes
<1>2. toASCII(b) \in Keys \union {"err"}
  BY KeysDiffer DEF toASCII
<1>3. DOMAIN typed = 1 .. L /\ DOMAIN typed' = 1 .. L + 1
  BY <1>1
<1>4. shown \in Seq(Nat \X (Keys \union {"err"})) /\ \A s \in DOMAIN shown : shown[s][1] \in 1 .. L
  BY <1>3 DEF KInv, PrintOK, ShownInPlace
<1>5. PICK e \in Nat \X (Keys \union {"err"}) : e = <<L + 1, toASCII(b)>> /\ e[1] = L + 1
  <2>1. PICK x \in Keys \union {"err"}, m \in Nat : x = toASCII(b) /\ m = L + 1
    BY <1>1, <1>2
  <2>2. <<m, x>> \in Nat \X (Keys \union {"err"}) /\ <<m, x>>[1] = m
    OBVIOUS
  <2> QED
    BY <2>1, <2>2
<1>6. CASE shown' = Append(shown, e)
  <2>1. shown' \in Seq(Nat \X (Keys \union {"err"}))
    BY <1>4, <1>6
  <2>2. /\ DOMAIN shown' = 1 .. Len(shown) + 1 /\ Len(shown) \in Nat
        /\ \A s \in 1 .. Len(shown) : shown'[s] = shown[s]
        /\ shown'[Len(shown) + 1] = e /\ DOMAIN shown = 1 .. Len(shown)
    BY <1>4, <1>6
  <2>3. ASSUME NEW s \in DOMAIN shown' PROVE shown'[s][1] \in 1 .. L + 1
    <3>1. CASE s \in 1 .. Len(shown)
      <4>1. shown'[s][1] = shown[s][1] /\ shown[s][1] \in 1 .. L
        BY <1>4, <2>2, <3>1
      <4> QED
        BY <1>1, <4>1
    <3>2. CASE s = Len(shown) + 1
      BY <1>1, <1>5, <2>2, <3>2
    <3> QED
      BY <2>2, <3>1, <3>2
  <2> QED
    BY <1>3, <2>1, <2>3 DEF ShownInPlace
<1>7. CASE shown' = shown
  BY <1>1, <1>3, <1>4, <1>7 DEF ShownInPlace
<1> QED
  BY <1>1, <1>5, <1>6, <1>7

\* A byte behind an ordinary release, and no lock released since: it is shown
\* if and only if it is a press.
LEMMA PrintsNew ==
  ASSUME KInv, Handler, NEW b, b = Head(out), NEW L, L = Len(typed),
         NEW n \in 1 .. L, OrdinaryRelease(n), ~ (\E l \in n .. L : LockRelease(l)),
         ~ (typed[L] = BreakCode /\ isKeyboardCommand(b))
  PROVE  (\E s \in Range(shown') : s[1] = L + 1) <=>
           /\ typed[L] # BreakCode
           /\ b = Prefix \/ \E k \in Keys \union Others : b = Code(k)
<1>1. Moves(b, L) /\ Notes(b, L)
  BY Handled
<1>2. /\ out \in Seq(AnyByte) /\ out # << >>
      /\ typed \in Seq(AnyByte) /\ L \in Nat /\ DOMAIN typed = 1 .. L
  BY <1>1 DEF Moves
<1>3. isBreak <=> typed[L] = BreakCode
  BY <1>2 DEF KInv, PrintOK, Recovered
<1>4. b \in KeyBytes
  <2>1. (typed \o out)[L + 1] = b /\ DOMAIN (typed \o out) = 1 .. L + Len(out) /\ Len(out) \in Nat \ {0}
    BY <1>2
  <2>2. n - 1 \in 1 .. L /\ typed[n - 1] = BreakCode
    BY <1>2 DEF OrdinaryRelease
  <2>3. (typed \o out)[n - 1] = BreakCode
    BY <1>2, <2>2
  <2>4. PICK i, j : i = n - 1 /\ j = L + 1
    OBVIOUS
  <2>5. i \in DOMAIN (typed \o out) /\ j \in DOMAIN (typed \o out) /\ i < j
    BY <1>2, <2>1, <2>2, <2>4
  <2>6. \A x, y \in DOMAIN (typed \o out) :
          (typed \o out)[x] = BreakCode /\ x < y => (typed \o out)[y] \in KeyBytes
    BY DEF KInv, PrintOK, KeysFollow
  <2> QED
    BY <2>1, <2>3, <2>4, <2>5, <2>6
<1>5. /\ shown \in Seq(Nat \X (Keys \union {"err"}))
      /\ \A s \in DOMAIN shown : shown[s][1] \in 1 .. L
  BY <1>2 DEF KInv, PrintOK, ShownInPlace
<1>6. ~ \E s \in Range(shown) : s[1] = L + 1
  <2>1. \A s \in Range(shown) : s[1] \in 1 .. L
    BY <1>5 DEF Range
  <2> QED
    BY <1>2, <2>1
<1>7. ASSUME NEW x, shown' = Append(shown, <<L + 1, x>>)
      PROVE  \E s \in Range(shown') : s[1] = L + 1
  <2>1. PICK e : e = <<L + 1, x>>
    OBVIOUS
  <2>2. e[1] = L + 1
    BY <2>1
  <2>3. PICK d : d = Len(shown) + 1
    OBVIOUS
  <2>4. d \in DOMAIN shown' /\ shown'[d] = e
    BY <1>5, <1>7, <2>1, <2>3
  <2> QED
    BY <2>2, <2>4 DEF Range
<1>8. b = BreakCode \/ b = Prefix \/ (\E k \in Keys \union Others : b = Code(k)) \/ isKeyboardCommand(b)
  BY <1>4 DEF KeyBytes, isKeyboardCommand
<1>9. CASE typed[L] = BreakCode
  <2>1. shown' = shown
    BY <1>1, <1>3, <1>9 DEF Notes
  <2> QED
    BY <1>6, <1>9, <2>1
<1>10. CASE typed[L] # BreakCode /\ (b = BreakCode \/ isKeyboardCommand(b))
  <2>1. shown' = shown
    BY <1>1, <1>10 DEF Notes
  <2> QED
    BY <1>6, <1>10, <2>1, KeysDiffer
<1>11. CASE typed[L] # BreakCode /\ b # BreakCode /\ ~ isKeyboardCommand(b)
  <2>1. shown' = Append(shown, <<L + 1, toASCII(b)>>)
    BY <1>1, <1>3, <1>11 DEF Notes
  <2> QED
    BY <1>7, <1>8, <1>11, <2>1
<1> QED
  BY <1>9, <1>10, <1>11

\* What was shown of earlier bytes stays.
LEMMA PrintsStay ==
  ASSUME KInv, Handler, NEW b, b = Head(out), NEW L, L = Len(typed), NEW m \in 1 .. L
  PROVE  (\E s \in Range(shown') : s[1] = m) <=> (\E s \in Range(shown) : s[1] = m)
<1>1. L \in Nat /\ (shown' = shown \/ \E x : shown' = Append(shown, <<L + 1, x>>))
  BY Handled DEF Moves, Notes
<1>2. shown \in Seq(Nat \X (Keys \union {"err"}))
  BY DEF KInv, PrintOK, ShownInPlace
<1>3. CASE shown' = shown
  BY <1>3
<1>4. ASSUME NEW x, shown' = Append(shown, <<L + 1, x>>)
      PROVE  (\E s \in Range(shown') : s[1] = m) <=> (\E s \in Range(shown) : s[1] = m)
  <2>1. PICK e : e = <<L + 1, x>>
    OBVIOUS
  <2>2. e[1] # m
    BY <1>1, <2>1
  <2>3. /\ DOMAIN shown' = 1 .. Len(shown) + 1 /\ DOMAIN shown = 1 .. Len(shown) /\ Len(shown) \in Nat
        /\ \A i \in 1 .. Len(shown) : shown'[i] = shown[i]
        /\ shown'[Len(shown) + 1] = e
    BY <1>2, <1>4, <2>1
  <2>4. Range(shown') = Range(shown) \union {e}
    BY <2>3 DEF Range
  <2> QED
    BY <2>2, <2>4
<1> QED
  BY <1>1, <1>3, <1>4

\* The handler keeps PrintsPresses.
LEMMA PrintsPressesStays ==
  ASSUME KInv, Handler
  PROVE  PrintsPresses'
<1>1. PICK b, L : b = Head(out) /\ L = Len(typed)
  OBVIOUS
<1>2. typed \in Seq(AnyByte) /\ typed' = Append(typed, b) /\ L \in Nat
  BY <1>1, Handled DEF Moves
<1>3. /\ typed'[L + 1] = b /\ DOMAIN typed' = 1 .. L + 1
      /\ DOMAIN typed = 1 .. L
      /\ \A n \in 1 .. L : typed'[n] = typed[n]
      /\ \A n \in 1 .. L : OrdinaryRelease(n)' <=> OrdinaryRelease(n)
      /\ \A n \in 1 .. L : LockRelease(n)' <=> LockRelease(n)
  BY <1>1, <1>2, ReleasesStay
<1>4. ASSUME NEW n \in 1 .. L + 1, NEW m \in 1 .. L + 1, OrdinaryRelease(n)', n < m,
             ~ (\E l \in n .. m : LockRelease(l)')
      PROVE  (\E s \in Range(shown') : s[1] = m) <=>
               /\ typed'[m - 1] # BreakCode
               /\ \/ typed'[m] = Prefix
                  \/ \E k \in Keys \union Others : typed'[m] = Code(k)
  <2>1. n \in 1 .. L /\ OrdinaryRelease(n)
    BY <1>2, <1>3, <1>4
  <2>2. n > 1 /\ m - 1 \in 1 .. L /\ typed'[m - 1] = typed[m - 1]
    BY <1>2, <1>3, <1>4, <2>1 DEF OrdinaryRelease
  <2>3. CASE m \in 1 .. L
    <3>1. typed'[m] = typed[m] /\ ~ (\E l \in n .. m : LockRelease(l))
      BY <1>2, <1>3, <1>4, <2>1, <2>3
    <3>2. (\E s \in Range(shown) : s[1] = m) <=>
               /\ typed[m - 1] # BreakCode
               /\ \/ typed[m] = Prefix
                  \/ \E k \in Keys \union Others : typed[m] = Code(k)
      BY <1>3, <1>4, <2>1, <2>3, <3>1 DEF KInv, PrintOK, PrintsPresses
    <3> QED
      BY <1>1, <2>2, <2>3, <3>1, <3>2, PrintsStay
  <2>4. CASE m = L + 1
    <3>1. ~ (\E l \in n .. L : LockRelease(l)) /\ m - 1 = L /\ typed'[m] = b
      BY <1>2, <1>3, <1>4, <2>1, <2>4
    <3>2. ~ (typed[L] = BreakCode /\ isKeyboardCommand(b))
      <4>1. ~ LockRelease(m)' /\ m > 1
        BY <1>2, <1>4, <2>1
      <4> QED
        BY <2>2, <3>1, <4>1 DEF LockRelease, isKeyboardCommand
    <3> QED
      BY <1>1, <2>1, <2>2, <2>4, <3>1, <3>2, PrintsNew
  <2>5. m \in 1 .. L \/ m = L + 1
    BY <1>2
  <2> QED
    BY <2>3, <2>4, <2>5
<1> QED
  BY <1>3, <1>4 DEF PrintsPresses

\* The handler keeps the invariant.
LEMMA HandlerInv ==
  ASSUME KInv, Handler
  PROVE  KInv'
<1>1. PICK b, L : b = Head(out) /\ L = Len(typed)
  OBVIOUS
<1>2. Moves(b, L) /\ Notes(b, L) /\ pc = "run"
  BY <1>1, Handled DEF Handler
<1>3. Typed'
  <2>1. out' \in Seq(AnyByte) /\ typed' \in Seq(AnyByte)
    BY <1>2 DEF Moves
  <2>2. isBreak' \in BOOLEAN
    BY <1>2 DEF Moves, Notes
  <2> QED
    BY <1>2, <2>1, <2>2 DEF KInv, Typed, Moves
<1>4. Clean' => Undisturbed'
  BY <1>2 DEF KInv, Clean, Undisturbed, Moves
<1>5. KeysFollow'
  <2>1. (typed \o out)' = typed \o out
    <3>1. /\ typed \in Seq(AnyByte) /\ out \in Seq(AnyByte) /\ out # << >>
          /\ typed' = Append(typed, Head(out)) /\ out' = Tail(out)
      BY <1>1, <1>2 DEF Moves
    <3>2. \A s, t \in Seq(AnyByte) : t # << >> => Append(s, Head(t)) \o Tail(t) = s \o t
      OBVIOUS
    <3>3. Append(typed, Head(out)) \o Tail(out) = typed \o out
      BY <3>1, <3>2
    <3> QED
      BY <3>1, <3>3
  <2>2. KeysFollow
    BY DEF KInv, PrintOK
  <2> QED
    BY <2>1, <2>2 DEF KeysFollow
<1>6. Recovered' /\ ShownInPlace' /\ PrintsPresses'
  BY <1>1, RecoveredStays, ShownStays, PrintsPressesStays
<1> QED
  BY <1>3, <1>4, <1>5, <1>6 DEF KInv, PrintOK

-----------------------------------------------------------------------------
(* The driver *)

\* The invariant holds before the first step.
LEMMA InitInv == KInit => KInv
<1> SUFFICES ASSUME KInit PROVE KInv
  OBVIOUS
<1>1. /\ pc = "disablePorts" /\ out \in {<< >>, <<KeyByte>>} /\ cfg \in BootCfgs
      /\ sending = "cmd" /\ kscan \in ScanSets /\ klast = ACK /\ faults = 0
      /\ isBreak \in BOOLEAN /\ typed = << >> /\ shown = << >>
  BY DEF KInit, Init
<1>2. out \in Seq(AnswerByte)
  <2>1. PICK b \in AnswerByte : b = KeyByte
    BY AnswersAreBytes
  <2>2. <<b>> \in Seq(AnswerByte) /\ << >> \in Seq(AnswerByte)
    OBVIOUS
  <2> QED
    BY <1>1, <2>1, <2>2
<1>3. Typed
  <2>1. out \in Seq(AnyByte)
    BY <1>2 DEF AnyByte
  <2>2. cfg \in SUBSET CfgBits /\ kscan \in 1 .. 3 /\ klast \in AnswerByte /\ typed \in Seq(AnyByte)
    BY <1>1, PS2Assumption, AnswersAreBytes DEF CfgBits
  <2> QED
    BY <1>1, <1>2, <2>1, <2>2 DEF Typed
<1>4. Undisturbed
  BY <1>1 DEF Undisturbed
<1>5. KeysFollow
  <2>1. typed \o out = out /\ \A i \in DOMAIN out : out[i] \in AnswerByte
    BY <1>1, <1>2
  <2>2. \A i \in DOMAIN out : out[i] # BreakCode
    BY <2>1, AnswersAreBytes
  <2> QED
    BY <2>1, <2>2 DEF KeysFollow
<1>6. Recovered /\ ShownInPlace /\ PrintsPresses
  BY <1>1 DEF Recovered, ShownInPlace, PrintsPresses
<1> QED
  BY <1>3, <1>4, <1>5, <1>6 DEF KInv, PrintOK

\* Every step keeps the invariant.
LEMMA NextInv == KInv /\ [Next]_vars => KInv'
<1> SUFFICES ASSUME KInv, [Next]_vars PROVE KInv'
  OBVIOUS
<1>1. CASE KInitialize
  <2>1. CASE (AskScanSet \/ SkipAck \/ SetScanSet) /\ UNCHANGED <<isBreak, down, typed, shown>>
    BY <2>1, AskScanSetInv, SkipAckInv, SetScanSetInv
  <2>2. CASE Initialize /\ UNCHANGED kbdvars
    BY <2>2, DisablePortsInv, ConfigureInv, SelfTestInv, DetectChannel2Inv, TestPort1Inv,
       TestPort2Inv, DisableScanningInv, FinishInv DEF Initialize
  <2>3. CASE (IdKbd \/ Finishing) /\ UNCHANGED kbdvars
    BY <2>3, IdKbdInv, FinishingInv
  <2> QED
    BY <1>1, <2>1, <2>2, <2>3 DEF KInitialize
<1>2. CASE EarlyKey /\ UNCHANGED kbdvars
  BY <1>2, EarlyKeyInv
<1>3. CASE \E k \in Keys \union Others \union Locks : Press(k) \/ Release(k)
  BY <1>3, PressInv
<1>4. CASE Handler
  BY <1>4, HandlerInv
<1>5. CASE UNCHANGED vars
  <2>1. UNCHANGED <<pc, out, cfg, sending, kscan, kon, karg, klast, faults, scanset, isBreak, typed, shown>>
    BY <1>5 DEF vars, ps2vars, kbdvars, kbd
  <2>2. Typed' /\ (Clean' => Undisturbed')
    <3>1. Typed'
      BY <2>1 DEF KInv, Typed
    <3>2. SetNumber(kscan)' = SetNumber(kscan)
      BY <2>1 DEF SetNumber
    <3>3. Clean' => Undisturbed'
      BY <2>1, <3>2 DEF KInv, Clean, Undisturbed
    <3> QED
      BY <3>1, <3>3
  <2>3. KeysFollow' /\ ShownInPlace'
    BY <2>1 DEF KInv, PrintOK, KeysFollow, ShownInPlace
  <2>4. Recovered'
    BY <2>1 DEF KInv, PrintOK, Recovered, OrdinaryRelease, LockRelease
  <2>5. PrintsPresses'
    BY <2>1 DEF KInv, PrintOK, PrintsPresses, OrdinaryRelease, LockRelease
  <2> QED
    BY <2>2, <2>3, <2>4, <2>5 DEF KInv, PrintOK
<1> QED
  BY <1>1, <1>2, <1>3, <1>4, <1>5 DEF Next

\* The driver keeps the invariant, whatever disturbs it.
THEOREM Invariance == Spec => []KInv
<1>1. KInit => KInv
  BY InitInv
<1>2. KInv /\ [Next]_vars => KInv'
  BY NextInv
<1> QED
  BY <1>1, <1>2, PTL DEF Spec

\* Undisturbed, no command of either initialisation is sent while an answer to
\* an earlier one is unread (PS2::initialize, ATKBD::Initialize).
THEOREM AnswersInStep == Spec => []InStep
<1>1. KInv => InStep
  BY DEF KInv, Undisturbed, InStep, MidAnswer
<1> QED
  BY <1>1, Invariance, PTL

\* Undisturbed, ATKBD::Initialize ends with a keyboard that works: untranslated,
\* in scan set 2, sending and interrupting, whatever the firmware left.
THEOREM ComesUpWorking == Spec => []ComesUp
<1>1. KInv => ComesUp
  BY DEF KInv, Undisturbed, ComesUp
<1> QED
  BY <1>1, Invariance, PTL

\* ATKBD::Handler prints exactly the presses of ordinary keys from an ordinary
\* release on, for every set of keys and however the initialisation went.
THEOREM PressesPrinted == Spec => []PrintsPresses
<1>1. KInv => PrintsPresses
  BY DEF KInv, PrintOK
<1> QED
  BY <1>1, Invariance, PTL

=============================================================================
