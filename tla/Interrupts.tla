------------------------------ MODULE Interrupts ------------------------------
(***************************************************************************)
(* Hardware interrupts from the end of ATKBD::Initialize on: what kmain    *)
(* does to the interrupt controller and the timer (src/src/kernel.cpp),    *)
(* the classes PIC and PIT, the interrupt gates of IDT, and the handlers   *)
(* PITTimerHandler and ATKBD::Handler.                                     *)
(*                                                                         *)
(* Only the lines that are ever unmasked are here, 0 (the timer) and 1     *)
(* (the keyboard).  The controller is edge triggered: irr holds the lines  *)
(* that rose and were neither acknowledged nor dropped.  The timer counts  *)
(* down once per load (mode 0); line 0 is high from the end of the count   *)
(* to the next load.  Line 1 is high while the keyboard controller's       *)
(* output buffer is full.                                                  *)
(***************************************************************************)
EXTENDS Integers

CONSTANT Work  \* steps of kmain after it started the timer

ASSUME WorkAssumption == Work \in Nat

IRQ == {0, 1}

VARIABLES
  pc,    \* the next step of kmain
  todo,  \* steps it has left before it halts
  iflag, \* the processor's interrupt flag
  cpu,   \* main, or the step a handler is at
  irr, isr, imr,  \* request, in-service and mask registers
  pit,   \* the timer: stopped, counting, or high (count over)
  obf,   \* the keyboard controller's output buffer is full
  missed \* history: a byte was there when the controller was initialised

vars == <<pc, todo, iflag, cpu, irr, isr, imr, pit, obf, missed>>

TimerSteps == {"reloadLo", "reloadHi", "timerEOI"}
KbdSteps == {"read", "kbdEOI"}

-----------------------------------------------------------------------------
(* The devices *)

\* The count is over: line 0 rises.
Fire ==
  /\ pit = "counting"
  /\ pit' = "high"
  /\ irr' = irr \union {0}
  /\ UNCHANGED <<pc, todo, iflag, cpu, isr, imr, obf, missed>>

\* The keyboard sends the next byte once the last one was read.
KeyArrives ==
  /\ ~obf
  /\ obf' = TRUE
  /\ irr' = irr \union {1}
  /\ UNCHANGED <<pc, todo, iflag, cpu, isr, imr, pit, missed>>

\* The requests the controller would raise now, by priority.
Pending == {n \in irr \ imr : \A k \in isr : n < k}

\* Mutant: trap gates, which leave the interrupt flag set.
AcceptTrapGate(n) ==
  /\ iflag
  /\ n \in Pending
  /\ \A k \in Pending : n <= k
  /\ irr' = irr \ {n}
  /\ isr' = isr \union {n}
  /\ cpu' = IF n = 0 THEN "reloadLo" ELSE "read"
  /\ UNCHANGED <<pc, todo, iflag, imr, pit, obf, missed>>

\* The processor takes an interrupt through the gate that IDT set up for
\* it, an interrupt gate: the flag is clear until iret.
Accept(n) ==
  /\ iflag
  /\ n \in Pending
  /\ \A k \in Pending : n <= k
  /\ irr' = irr \ {n}
  /\ isr' = isr \union {n}
  /\ iflag' = FALSE
  /\ cpu' = IF n = 0 THEN "reloadLo" ELSE "read"
  /\ UNCHANGED <<pc, todo, imr, pit, obf, missed>>

-----------------------------------------------------------------------------
(* The drivers *)

\* Reload: the first byte stops the count and drops the line ...
ReloadLo ==
  /\ pit' = "stopped"
  /\ irr' = irr \ {0}

\* Mutant: the high byte is forgotten.
ReloadHiForgotten == pit' = pit /\ irr' = irr

\* ... and the second starts it again.
ReloadHi == pit' = "counting" /\ irr' = irr

\* SendEOI of a master line: it ends the service of the highest priority.
SendEOI == isr' = {k \in isr : \E j \in isr : j < k}

\* PITTimerHandler; its print is in Console.  iret sets the flag again.
TimerHandler ==
  \/ /\ cpu = "reloadLo"
     /\ ReloadLo
     /\ cpu' = "reloadHi"
     /\ UNCHANGED <<isr, iflag>>
  \/ /\ cpu = "reloadHi"
     /\ ReloadHi
     /\ cpu' = "timerEOI"
     /\ UNCHANGED <<isr, iflag>>
  \/ /\ cpu = "timerEOI"
     /\ SendEOI
     /\ cpu' = "main"
     /\ iflag' = TRUE
     /\ UNCHANGED <<pit, irr>>

\* Mutant: the byte is left in the controller.
KbdReadNothing ==
  /\ cpu = "read"
  /\ cpu' = "kbdEOI"
  /\ UNCHANGED <<obf, irr, isr, iflag>>

\* ATKBD::Handler reads the byte, or times out when there is none.
KbdRead ==
  /\ cpu = "read"
  /\ obf' = FALSE
  /\ irr' = irr \ {1}
  /\ cpu' = "kbdEOI"
  /\ UNCHANGED <<isr, iflag>>

KbdEnd ==
  /\ cpu = "kbdEOI"
  /\ SendEOI
  /\ cpu' = "main"
  /\ iflag' = TRUE
  /\ UNCHANGED <<obf, irr>>

TimerStep == TimerHandler /\ UNCHANGED <<pc, todo, imr, obf, missed>>

KbdStep == (KbdRead \/ KbdEnd) /\ UNCHANGED <<pc, todo, imr, pit, missed>>

-----------------------------------------------------------------------------
(* kmain *)

\* kmain runs when no handler does and no interrupt is taken first.
MainRuns(step) ==
  /\ cpu = "main"
  /\ pc = step
  /\ iflag => Pending = {}

\* pic.Initialize: ICW1 forgets the requests and clears the mask.  A line
\* that is high already raises no request until it has been low.
InitPIC ==
  /\ MainRuns("init")
  /\ irr' = {} /\ isr' = {} /\ imr' = {}
  /\ missed' = obf
  /\ pc' = "mask"
  /\ UNCHANGED <<todo, iflag, cpu, pit, obf>>

\* PIC::CLI: every line is masked.
MaskAll ==
  /\ MainRuns("mask")
  /\ imr' = IRQ
  /\ pc' = "enable1"
  /\ UNCHANGED <<todo, iflag, cpu, irr, isr, pit, obf, missed>>

\* Mutant: the new mask is the line's bit alone.
EnableInterruptOverwrites(n) == imr' = {n}

\* EnableInterrupt clears the line's bit in the mask.
EnableInterrupt(n) == imr' = imr \ {n}

EnableKbd ==
  /\ MainRuns("enable1")
  /\ EnableInterrupt(1)
  /\ pc' = "enable0"
  /\ UNCHANGED <<todo, iflag, cpu, irr, isr, pit, obf, missed>>

EnableTimer ==
  /\ MainRuns("enable0")
  /\ EnableInterrupt(0)
  /\ pc' = "sti"
  /\ UNCHANGED <<todo, iflag, cpu, irr, isr, pit, obf, missed>>

Sti ==
  /\ MainRuns("sti")
  /\ iflag' = TRUE
  /\ pc' = "lo"
  /\ UNCHANGED <<todo, cpu, irr, isr, imr, pit, obf, missed>>

\* pit.Reload, with interrupts on.
StartTimer ==
  \/ MainRuns("lo") /\ ReloadLo /\ pc' = "hi" /\ todo' = todo
  \/ MainRuns("hi") /\ ReloadHi /\ pc' = "work" /\ todo' = Work

\* The self tests and the last messages, then HLT for ever.
DoWork ==
  /\ MainRuns("work")
  /\ IF todo = 0
     THEN pc' = "halted" /\ todo' = 0
     ELSE pc' = "work" /\ todo' = todo - 1

MainStep ==
  \/ InitPIC \/ MaskAll \/ EnableKbd \/ EnableTimer \/ Sti
  \/ StartTimer /\ UNCHANGED <<iflag, cpu, isr, imr, obf, missed>>
  \/ DoWork /\ UNCHANGED <<iflag, cpu, irr, isr, imr, pit, obf, missed>>

\* ATKBD::Initialize has enabled scanning, unmasked line 1 in the controller
\* the constructor of PIC set up, and turned the keyboard's interrupt on.
Init ==
  /\ pc = "init" /\ todo = 0
  /\ iflag = FALSE /\ cpu = "main"
  /\ obf \in BOOLEAN
  /\ irr = IF obf THEN {1} ELSE {}
  /\ isr = {} /\ imr = {0}
  /\ pit = "stopped"
  /\ missed = FALSE

Next ==
  \/ Fire \/ KeyArrives
  \/ \E n \in IRQ : Accept(n)
  \/ TimerStep \/ KbdStep \/ MainStep

\* The processor keeps running and the timer keeps counting; and the
\* keyboard's interrupt is not passed over for ever if it could be taken time
\* and again.  Interrupts may keep kmain from going on for ever.
Fairness ==
  /\ WF_vars(Fire) /\ WF_vars(TimerStep) /\ WF_vars(KbdStep)
  /\ WF_vars(Accept(0)) /\ SF_vars(Accept(1)) /\ WF_vars(MainStep)

Spec == Init /\ [][Next]_vars /\ Fairness
-----------------------------------------------------------------------------
(***************************************************************************)
(* Properties.                                                             *)
(***************************************************************************)
\* kmain takes the steps it has and no more; the registers hold lines.
TypeOK ==
  /\ pc \in {"init", "mask", "enable1", "enable0", "sti", "lo", "hi",
             "work", "halted"}
  /\ todo \in 0 .. Work
  /\ iflag \in BOOLEAN /\ obf \in BOOLEAN /\ missed \in BOOLEAN
  /\ cpu \in {"main"} \union TimerSteps \union KbdSteps
  /\ irr \subseteq IRQ /\ isr \subseteq IRQ /\ imr \subseteq IRQ
  /\ pit \in {"stopped", "counting", "high"}

Serving == IF cpu \in TimerSteps THEN {0} ELSE IF cpu \in KbdSteps THEN {1} ELSE {}

\* The line in service is that of the handler that runs, so the non-specific
\* EOI of SendEOI always ends the right one, and no handler leaves its line
\* in service behind it.
EOIsMatch == isr = Serving /\ (iflag => Serving = {})

Started == pc \in {"work", "halted"}

\* A timer that is loaded by hand after every count never stops: it is
\* counting, its request waits, or its handler is about to load it.
ClockRuns ==
  Started =>
    \/ pit = "counting"
    \/ pit = "high" /\ 0 \in irr
    \/ cpu \in {"reloadLo", "reloadHi"}

\* No byte is forgotten in the controller: the keyboard sends no more until
\* it is read, so a byte without a request would silence it for good.  The
\* one exception is a byte that was there when pic.Initialize ran.
ByteHasRequest ==
  obf /\ ~missed => 1 \in irr \/ cpu = "read"

\* Every tick is followed by another.
ClockTicks == []<>(Started => cpu \in TimerSteps)

\* As long as the timer's handler now and then returns before the timer has
\* fired again, every byte is read.
ByteRead ==
  []<>(cpu = "main" /\ 0 \notin irr) => ((obf /\ ~missed /\ iflag) ~> ~obf)

\* Every byte is read, also one that came in early.
EarlyByteRead ==
  []<>(cpu = "main" /\ 0 \notin irr) => ((obf /\ iflag) ~> ~obf)
=============================================================================
