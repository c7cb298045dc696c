-------------------------------- MODULE Console --------------------------------
(***************************************************************************)
(* The text console: class Screen of src/src/arch/x86/x86_32/screen.cpp,   *)
(* written by the kernel's main thread and by interrupt handlers, which    *)
(* share it without a lock.                                                *)
(*                                                                         *)
(* Handlers run behind interrupt gates: one runs from start to end between *)
(* two instructions of the main thread.  The main thread goes step by      *)
(* step.  Two writers of currCursorPos without synchronisation are a data  *)
(* race, and the build decides what it means: the kernel is built at -O3   *)
(* (src/src/Makefile), where GCC loads the cursor once at the start of     *)
(* WriteString, keeps it in a register to the end of the string, and       *)
(* stores it to memory after each character.                               *)
(*                                                                         *)
(* The main thread prints messages, whose numbers Formater puts into their *)
(* format first; handlers print plain strings.                             *)
(*                                                                         *)
(* text and damage are history variables: what was asked to be written     *)
(* since the screen was last cleared, and what interrupts may have done to *)
(* it.                                                                     *)
(***************************************************************************)
EXTENDS Terminal, Formater

CONSTANTS
  MainMessages,    \* what the main thread prints: [str, args]
  HandlerStrings,  \* what handlers print
  MaxText,         \* bound: no string is begun that would make text longer
  Characters       \* what strings and formats are made of

ASSUME TextAssumption ==
  /\ MaxText \in Nat /\ \A d \in DOMAIN Digit : Digit[d] \in Characters
  /\ HandlerStrings \subseteq Seq(Characters)
  /\ \A msg \in MainMessages :
       msg \in [str : Seq(Characters), args : Seq(Nat)] /\ WellFormed(msg)

VARIABLES
  mem,     \* VideoMemory, the cells of the screen
  cursor,  \* currCursorPos
  at,      \* where the main thread is
  reg,     \* its copy of the cursor, in a register
  idx,     \* its loop index
  rest,    \* what it still has to print of its string
  text,    \* history: what should be on the screen or scrolled off it
  damage   \* history: none, margin or text

screenVars == <<mem, cursor, at, reg, idx, rest, text, damage>>

Cell == 0 .. (Size - 1)

\* What a message becomes, in the buffer of kprintf; every message of the
\* kernel's is longer than one character.
kprintf(msg) == Format(msg)

\* ScrollUp as a function of the memory and the cursor.
Scrolled(m, cur) ==
  [k \in Cell |->
     IF k + Cols < cur THEN m[k + Cols]
     ELSE IF k < cur THEN Blank ELSE m[k]]

CursorUp(cur) == IF cur > Cols THEN cur - Cols ELSE 0

\* Mutant: a newline at the start of a line does nothing.
NextRowLazy(cur) == ((cur + Cols - 1) \div Cols) * Cols

NextRow(cur) == ((cur \div Cols) + 1) * Cols

\* WriteCharacterToScreen, undisturbed.
PutChar(scr, c) ==
  LET s == IF scr.cursor = Size
           THEN [mem |-> Scrolled(scr.mem, Size), cursor |-> CursorUp(Size)]
           ELSE scr
  IN
  IF c = NL
  THEN [s EXCEPT !.cursor = NextRow(@)]
  ELSE [mem |-> [s.mem EXCEPT ![s.cursor] = c], cursor |-> s.cursor + 1]

\* setupConsole cleared the screen.
ScreenInit ==
  /\ mem = [k \in Cell |-> Blank]
  /\ cursor = 0
  /\ at = "idle"
  /\ reg = 0
  /\ idx = 0
  /\ rest = << >>
  /\ text = << >>
  /\ damage = "none"

-----------------------------------------------------------------------------
(* The main thread *)

BeginMessage(msg) ==
  /\ at = "idle"
  /\ Len(text) + Len(Said(msg)) <= MaxText
  /\ at' = "char"
  /\ rest' = kprintf(msg)
  /\ text' = text \o Said(msg)
  /\ reg' = cursor
  /\ UNCHANGED <<mem, cursor, idx, damage>>

\* The screen is full: ScrollUp begins.
BeginScroll ==
  /\ at = "char"
  /\ reg = Size
  /\ at' = "scroll"
  /\ idx' = 0
  /\ UNCHANGED <<mem, cursor, reg, rest, text, damage>>

\* One turn of the loops of ScrollUp.
ScrollCell ==
  /\ at = "scroll"
  /\ idx < reg
  /\ mem' = [mem EXCEPT ![idx] = IF idx + Cols < reg THEN mem[idx + Cols] ELSE Blank]
  /\ idx' = idx + 1
  /\ UNCHANGED <<cursor, at, reg, rest, text, damage>>

\* The cursor of the scrolled screen stays in the register.
EndScroll ==
  /\ at = "scroll"
  /\ idx = reg
  /\ reg' = CursorUp(reg)
  /\ at' = "scrolled"
  /\ UNCHANGED <<mem, cursor, idx, rest, text, damage>>

\* The character is done with: on to the next, or back to the caller.
Advance ==
  /\ rest' = Tail(rest)
  /\ at' = IF Len(rest) = 1 THEN "idle" ELSE "char"

\* A newline moves the cursor only.
Newline ==
  /\ \/ at = "char" /\ reg # Size
     \/ at = "scrolled"
  /\ Head(rest) = NL
  /\ reg' = NextRow(reg)
  /\ cursor' = NextRow(reg)
  /\ Advance
  /\ UNCHANGED <<mem, idx, text, damage>>

\* Any other character goes to the cell under the cursor ...
StoreChar ==
  /\ \/ at = "char" /\ reg # Size
     \/ at = "scrolled"
  /\ Head(rest) # NL
  /\ mem' = [mem EXCEPT ![reg] = Head(rest)]
  /\ at' = "stored"
  /\ UNCHANGED <<cursor, reg, idx, rest, text, damage>>

\* Mutant: the cursor is read again from memory.
StoreCursorReload ==
  /\ at = "stored"
  /\ reg' = cursor + 1
  /\ cursor' = cursor + 1
  /\ Advance
  /\ UNCHANGED <<mem, idx, text, damage>>

\* ... and then the cursor is stored behind it.
StoreCursor ==
  /\ at = "stored"
  /\ reg' = reg + 1
  /\ cursor' = reg + 1
  /\ Advance
  /\ UNCHANGED <<mem, idx, text, damage>>

BeginClear ==
  /\ at = "idle"
  /\ at' = "clear"
  /\ idx' = 0
  /\ damage' = "none"
  /\ UNCHANGED <<mem, cursor, reg, rest, text>>

ClearCell ==
  /\ at = "clear"
  /\ idx < Size
  /\ mem' = [mem EXCEPT ![idx] = Blank]
  /\ idx' = idx + 1
  /\ UNCHANGED <<cursor, at, reg, rest, text, damage>>

EndClear ==
  /\ at = "clear"
  /\ idx = Size
  /\ cursor' = 0
  /\ at' = "idle"
  /\ text' = << >>
  /\ UNCHANGED <<mem, reg, idx, rest, damage>>

-----------------------------------------------------------------------------
(***************************************************************************)
(* What a handler's output does.  While the main thread is not printing    *)
(* the handler's text is simply appended.  Between two characters of a     *)
(* string, or while the screen is cleared, it is on the screen for a       *)
(* moment and the main thread writes over it: what is left of it lies      *)
(* behind the ends of lines.  If it comes while a character is half        *)
(* written, or scrolls a screen that the main thread is writing to, it     *)
(* damages the text itself.                                                *)
(***************************************************************************)
Printed(s) == FoldLeft(PutChar, [mem |-> mem, cursor |-> cursor], s)

Scrolls(s) ==
  \E n \in 0 .. (Len(s) - 1) : Printed(SubSeq(s, 1, n)).cursor = Size

Hurt(s) ==
  CASE at = "idle" -> damage
    [] at = "clear" -> "margin"
    [] at = "char" /\ ~Scrolls(s) /\ damage # "text" -> "margin"
    [] OTHER -> "text"

\* A handler prints: kprint of the timer's, a character of the keyboard's.
Handler(s) ==
  LET scr == Printed(s) IN
  /\ Len(text) + Len(s) <= MaxText
  /\ mem' = scr.mem
  /\ cursor' = scr.cursor
  /\ text' = IF at = "idle" THEN text \o s ELSE text
  /\ damage' = Hurt(s)
  /\ UNCHANGED <<at, reg, idx, rest>>

ScreenNext ==
  \/ \E msg \in MainMessages : BeginMessage(msg)
  \/ BeginScroll \/ ScrollCell \/ EndScroll
  \/ Newline \/ StoreChar \/ StoreCursor
  \/ BeginClear \/ ClearCell \/ EndClear
  \/ \E s \in HandlerStrings : Handler(s)

ScreenSpec == ScreenInit /\ [][ScreenNext]_screenVars

-----------------------------------------------------------------------------
(***************************************************************************)
(* Properties.                                                             *)
(***************************************************************************)
\* WriteCharacterToScreen compares the cursor with the end for equality
\* only: past it, it would never scroll again and write on through memory.
\* The cursor never gets there, however handlers and the main thread
\* interleave, and no character is stored outside the screen.
CursorOnScreen ==
  /\ cursor \in 0 .. Size
  /\ reg \in 0 .. Size
  /\ at = "stored" => reg < Size

\* When no interrupt disturbed a write, the screen shows the last lines of
\* what was said, the numbers in their bases, wrapped and scrolled as a
\* terminal does it: Format's character by character reading, the deferred
\* scroll of WriteCharacterToScreen and the main thread's copying loops come
\* to the same as Terminal's layout of the whole text.
ShowsText ==
  at = "idle" /\ damage = "none" =>
    /\ mem = View(Layout(text))
    /\ cursor = CursorOf(Layout(text))

\* An interrupt between two characters of a string that does not scroll the
\* screen, or one while it is cleared, costs the handler's text but not the
\* main thread's: every character of it ends up in its place, and so do those
\* written later.
TextInPlace ==
  at = "idle" /\ damage # "text" =>
    LET lay == Layout(text) IN
    /\ cursor = CursorOf(lay)
    /\ \A k \in Inked(lay) : mem[k] = View(lay)[k]
=============================================================================
