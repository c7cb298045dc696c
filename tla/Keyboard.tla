-------------------------------- MODULE Keyboard --------------------------------
(***************************************************************************)
(* The keyboard's driver: class ATKBD of src/src/drivers/atkbd.cpp, over   *)
(* the controller's driver of PS2.  First its Initialize, step by step;    *)
(* then its interrupt handler, decoding what is typed.                     *)
(*                                                                         *)
(* typed and shown are history variables: the bytes the handler got, and   *)
(* the characters it printed, each with the place of its byte in typed.    *)
(***************************************************************************)
EXTENDS PS2, SequencesExt

CONSTANTS
  Keys,      \* keys with a character
  Others,    \* keys without one
  Prefixed,  \* those of them whose bytes follow 0xe0
  Locks,     \* NUMLCK, SCRLLCK and CPSLCK
  MaxTyped   \* bound: bytes the handler gets

ASSUME KeysAssumption ==
  Prefixed \subseteq Others /\ Locks \intersect (Keys \union Others) = {}

VARIABLES
  scanset,   \* the local variable of setScanSet
  isBreak,   \* ATKBD::isBreak
  down,      \* the keys held down
  typed, shown

kbdvars == <<scanset, isBreak, down, typed, shown>>
vars == <<ps2vars, kbdvars>>

BreakCode == Byte("0xf0", {4, 5, 6})
Prefix == Byte("0xe0", {5, 6})
Code(k) == Byte(k, {4})
SET2 == Byte("SET2", {1})

-----------------------------------------------------------------------------
(* ATKBD::Initialize *)

KInit ==
  /\ Init
  /\ scanset = SET2
  /\ isBreak \in BOOLEAN
  /\ down = {} /\ typed = << >> /\ shown = << >>

\* A read of the driver's own (PS2::ReadData).
DriverRead(got) ==
  /\ got \in Gets(<< >>)
  /\ Read(<< >>, got)
  /\ UNCHANGED <<cfg, flags, sending, kbd>>

\* Mutant: the second byte of the answer is left where it is.
IdKbdOneByte ==
  \/ pc = "getID" /\ Command("GET_ID", "id0")
  \/ /\ pc = "id0"
     /\ \E got \in Bytes \union {TIMEOUT} : DriverRead(got) /\ pc' = "askSet"

\* idkbd: the command, the first byte of the answer, and the second if there
\* was a first.
IdKbd ==
  \/ pc = "getID" /\ Command("GET_ID", "id0")
  \/ /\ pc = "id0"
     /\ \E got \in Bytes \union {TIMEOUT} :
          DriverRead(got) /\ pc' = IF got = TIMEOUT THEN "askSet" ELSE "id1"
  \/ /\ pc = "id1"
     /\ \E got \in Bytes \union {TIMEOUT} : DriverRead(got) /\ pc' = "askSet"

\* What the byte read into scanset is after a read: the old one if it timed
\* out, and if there is none yet whatever was on the stack.
Into(got, old) == IF got = TIMEOUT THEN old ELSE {got}

\* setScanSet asks for the set; every ACK in front of the answer is skipped.
AskScanSet ==
  \/ pc = "askSet" /\ Command("MOD_SCANSET", "ask0") /\ scanset' = scanset
  \/ pc = "ask0" /\ Command("0", "askRead") /\ scanset' = scanset
  \/ /\ pc = "askRead"
     /\ \E got \in Bytes \union {TIMEOUT} :
          /\ DriverRead(got)
          /\ scanset' \in Into(got, {ACK, SET2, RESEND})
          /\ pc' = "skipAck"

\* while (scanset == ACK) ReadData(&scanset), in both places it stands.
SkipAck ==
  /\ pc = "skipAck"
  /\ IF scanset = ACK
     THEN \E got \in Bytes \union {TIMEOUT} :
            DriverRead(got) /\ scanset' \in Into(got, {ACK}) /\ pc' = pc
     ELSE /\ pc' = IF scanset = SET2 THEN "leds" ELSE "setSet"
          /\ UNCHANGED <<out, cfg, flags, sending, kbd, faults, scanset>>

\* setScanSet sets the set to 2 and looks for it in what comes next.
\* WriteCommand gives back the answer, or the byte it was to send.
SetScanSet ==
  \/ pc = "setSet" /\ Command("MOD_SCANSET", "set2") /\ scanset' = scanset
  \/ /\ pc = "set2"
     /\ \E got \in Bytes \union {TIMEOUT} :
          /\ WritePort1("2", "setRead", got)
          /\ scanset' \in Into(got, {IF sending = "cmd" THEN SET2 ELSE RESEND})
     /\ UNCHANGED <<cfg, flags>>
  \/ /\ pc = "setRead"
     /\ \E got \in Bytes \union {TIMEOUT} :
          DriverRead(got) /\ scanset' \in Into(got, {scanset})
     /\ pc' = "skipAck"

\* updateLeds (ledStatus is 2), ENABLE, and EnableInterrupt1.
Finishing ==
  \/ pc = "leds" /\ Command("SET_LEDS", "ledStatus")
  \/ pc = "ledStatus" /\ Command("2", "enable")
  \/ pc = "enable" /\ Command("ENABLE", "interrupt")
  \/ pc = "interrupt" /\ EnableInterrupt1("run")

KInitialize ==
  \/ (AskScanSet \/ SkipAck \/ SetScanSet)
     /\ UNCHANGED <<isBreak, down, typed, shown>>
  \/ (Initialize \/ IdKbd \/ Finishing) /\ UNCHANGED kbdvars

-----------------------------------------------------------------------------
(* Typing *)

CanType(n) ==
  /\ pc = "run"
  /\ kon /\ Heard
  /\ Len(typed) + Len(out) + n <= MaxTyped

\* The bytes of a key's press, which repeats while the key is held, and those
\* of its release.
Make(k) == (IF k \in Prefixed THEN <<Prefix>> ELSE << >>) \o <<Code(k)>>

Break(k) == (IF k \in Prefixed THEN <<Prefix>> ELSE << >>) \o <<BreakCode, Code(k)>>

Press(k) ==
  /\ CanType(Len(Make(k)))
  /\ out' = out \o Make(k)
  /\ down' = down \union {k}
  /\ UNCHANGED <<pc, cfg, flags, sending, kbd, faults, scanset, isBreak, typed,
                 shown>>

Release(k) ==
  /\ CanType(Len(Break(k))) /\ k \in down
  /\ out' = out \o Break(k)
  /\ down' = down \ {k}
  /\ UNCHANGED <<pc, cfg, flags, sending, kbd, faults, scanset, isBreak, typed,
                 shown>>

isKeyboardCommand(b) == \E k \in Locks : b = Code(k)

\* The printable ones of the keys; anything else is SC2_ERR.
toASCII(b) == IF \E k \in Keys : b = Code(k) THEN b.kind ELSE "err"

Shows(b) == shown' = Append(shown, <<Len(typed) + 1, toASCII(b)>>)

\* Mutant: isBreak is not cleared after the released key.
handleDataSticky(b) ==
  \/ b = BreakCode /\ isBreak' = TRUE /\ shown' = shown
  \/ isKeyboardCommand(b) /\ UNCHANGED <<isBreak, shown>>
  \/ /\ b # BreakCode /\ ~isKeyboardCommand(b)
     /\ isBreak' = isBreak
     /\ IF isBreak THEN shown' = shown ELSE Shows(b)

\* handleData: after a break code the next byte that is no lock key is
\* dropped; the lock keys are only reported and leave isBreak alone.
handleData(b) ==
  \/ b = BreakCode /\ isBreak' = TRUE /\ shown' = shown
  \/ isKeyboardCommand(b) /\ UNCHANGED <<isBreak, shown>>
  \/ /\ b # BreakCode /\ ~isKeyboardCommand(b)
     /\ isBreak' = FALSE
     /\ IF isBreak THEN shown' = shown ELSE Shows(b)

\* The keyboard's interrupt: Handler reads the byte there is.
Handler ==
  /\ pc = "run"
  /\ out # << >>
  /\ Len(typed) < MaxTyped
  /\ out' = Tail(out)
  /\ handleData(Head(out))
  /\ typed' = Append(typed, Head(out))
  /\ UNCHANGED <<pc, cfg, flags, sending, kbd, faults, scanset, down>>

Next ==
  \/ KInitialize
  \/ EarlyKey /\ UNCHANGED kbdvars
  \/ \E k \in Keys \union Others \union Locks : Press(k) \/ Release(k)
  \/ Handler

\* The processor and the keyboard go on.
Spec == KInit /\ [][Next]_vars /\ WF_vars(KInitialize) /\ WF_vars(Handler)

-----------------------------------------------------------------------------
(***************************************************************************)
(* Properties.                                                             *)
(***************************************************************************)
Clean == faults = 0

\* Steps that read what is left of an answer.
MidAnswer == {"id0", "id1", "askRead", "skipAck", "setRead"}

\* Undisturbed, no command is sent while an answer to an earlier one is
\* unread, on any path through both initialisations: an answer is never taken
\* for that of another command.
InStep ==
  Clean /\ pc \notin MidAnswer \union {"disablePorts", "run", "panic"} => out = << >>

\* Undisturbed, a driver that is done has a keyboard that works: its clock on,
\* untranslated, in scan set 2, sending and interrupting.
ComesUp ==
  Clean /\ pc = "run" => 0 \in cfg /\ cfg \intersect {4, 6} = {} /\ kscan = 2 /\ kon

\* The initialisation ends if the keyboard is in scan set 2 to begin with and
\* nothing disturbs it.
InitEnds ==
  kscan = 2 => <>(pc \in {"run", "panic"} \/ ~Clean)

\* From the release of an ordinary key on, until a lock key is released,
\* exactly the presses of ordinary keys are printed, held keys as often as they
\* repeat and no releases, whatever went on before and whatever isBreak was
\* when the driver was built.  Prefixes, which the driver does not know, are
\* printed as keys without a character and do no other harm.
OrdinaryRelease(n) ==
  /\ n > 1 /\ typed[n - 1] = BreakCode
  /\ \E k \in Keys \union Others : typed[n] = Code(k)

LockRelease(n) ==
  n > 1 /\ typed[n - 1] = BreakCode /\ \E k \in Locks : typed[n] = Code(k)

PrintsPresses ==
  \A n, m \in DOMAIN typed :
    OrdinaryRelease(n) /\ n < m /\ ~(\E l \in n .. m : LockRelease(l)) =>
      ((\E s \in Range(shown) : s[1] = m) <=>
         /\ typed[m - 1] # BreakCode
         /\ \/ typed[m] = Prefix
            \/ \E k \in Keys \union Others : typed[m] = Code(k))

=============================================================================
