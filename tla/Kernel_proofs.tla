---------------------------- MODULE Kernel_proofs ----------------------------
(***************************************************************************)
(* Proofs about the running kernel: its interrupts, for any number of      *)
(* steps that kmain takes, and the console that kmain and the interrupts'  *)
(* handlers print to, for a screen of any size and strings and messages of *)
(* any length.                                                             *)
(***************************************************************************)
EXTENDS Interrupts, Console, FiniteSetTheorems, WellFoundedInduction, TLAPS

-----------------------------------------------------------------------------
(***************************************************************************)
(* Interrupts.  The three safety properties are inductive together with    *)
(* typing: the register in service must match the handler that runs, which *)
(* forces the processor to be in kmain whenever its interrupt flag is set, *)
(* and from that follows that no request is acknowledged while a handler   *)
(* is between two of its steps.                                            *)
(***************************************************************************)
IInv == TypeOK /\ EOIsMatch /\ ClockRuns /\ ByteHasRequest

\* With the flag set no handler runs and nothing is in service.
LEMMA FlagMeansMain ==
  ASSUME TypeOK, EOIsMatch, iflag
  PROVE  cpu = "main" /\ isr = {}
BY DEF TypeOK, EOIsMatch, Serving, TimerSteps, KbdSteps

\* The machine kmain finds satisfies the invariant.
LEMMA InitIInv == Init => IInv
<1> SUFFICES ASSUME Init PROVE IInv
  OBVIOUS
<1>1. irr \subseteq IRQ /\ (obf => 1 \in irr)
  BY DEF Init, IRQ
<1>2. 0 \in 0 .. Work
  BY WorkAssumption
<1>3. TypeOK
  BY <1>1, <1>2 DEF Init, TypeOK, IRQ
<1>4. EOIsMatch
  BY DEF Init, EOIsMatch, Serving, TimerSteps, KbdSteps
<1>5. ClockRuns
  BY DEF Init, ClockRuns, Started
<1>6. ByteHasRequest
  BY <1>1 DEF ByteHasRequest
<1> QED
  BY <1>3, <1>4, <1>5, <1>6 DEF IInv

\* The devices: a count that ends and a byte that arrives raise their lines.
LEMMA DeviceStep == ASSUME IInv, Fire \/ KeyArrives PROVE IInv'
<1>1. CASE Fire
  BY <1>1 DEF Fire, IInv, TypeOK, EOIsMatch, ClockRuns, ByteHasRequest, Started,
       Serving, TimerSteps, KbdSteps, IRQ
<1>2. CASE KeyArrives
  BY <1>2 DEF KeyArrives, IInv, TypeOK, EOIsMatch, ClockRuns, ByteHasRequest,
       Started, Serving, TimerSteps, KbdSteps, IRQ
<1> QED
  BY <1>1, <1>2

\* An interrupt is taken in kmain only, so its line is alone in service.
LEMMA AcceptStep == ASSUME IInv, NEW n \in IRQ, Accept(n) PROVE IInv'
<1>1. /\ cpu = "main" /\ isr = {}
      /\ irr' = irr \ {n} /\ isr' = {n} /\ iflag' = FALSE
      /\ cpu' = IF n = 0 THEN "reloadLo" ELSE "read"
      /\ UNCHANGED <<pc, todo, imr, pit, obf, missed>>
  BY FlagMeansMain DEF IInv, Accept
<1>2. n = 0 \/ n = 1
  BY DEF IRQ
<1>3. TypeOK'
  BY <1>1, <1>2 DEF IInv, TypeOK, TimerSteps, KbdSteps, IRQ
<1>4. EOIsMatch'
  BY <1>1, <1>2 DEF EOIsMatch, Serving, TimerSteps, KbdSteps
<1>5. ClockRuns'
  BY <1>1, <1>2 DEF IInv, ClockRuns, Started
<1>6. ByteHasRequest'
  BY <1>1, <1>2 DEF IInv, ByteHasRequest
<1> QED
  BY <1>3, <1>4, <1>5, <1>6 DEF IInv

\* The end of interrupt of a handler clears its own line.
LEMMA EOIClears ==
  ASSUME NEW n \in IRQ, isr = {n}, SendEOI PROVE isr' = {}
BY DEF SendEOI, IRQ

\* The timer's handler loads the counter again and ends its service.
LEMMA TimerPreserves == ASSUME IInv, TimerStep PROVE IInv'
<1>1. UNCHANGED <<pc, todo, imr, obf, missed>>
  BY DEF TimerStep
<1>2. CASE cpu = "reloadLo" /\ ReloadLo /\ cpu' = "reloadHi" /\ UNCHANGED <<isr, iflag>>
  BY <1>1, <1>2 DEF ReloadLo, IInv, TypeOK, EOIsMatch, ClockRuns, ByteHasRequest,
       Started, Serving, TimerSteps, KbdSteps, IRQ
<1>3. CASE cpu = "reloadHi" /\ ReloadHi /\ cpu' = "timerEOI" /\ UNCHANGED <<isr, iflag>>
  BY <1>1, <1>3 DEF ReloadHi, IInv, TypeOK, EOIsMatch, ClockRuns, ByteHasRequest,
       Started, Serving, TimerSteps, KbdSteps, IRQ
<1>4. CASE /\ cpu = "timerEOI" /\ SendEOI /\ cpu' = "main" /\ iflag' = TRUE
           /\ UNCHANGED <<pit, irr>>
  <2>1. isr' = {}
    BY <1>4, EOIClears DEF IInv, EOIsMatch, Serving, TimerSteps, IRQ
  <2> QED
    BY <1>1, <1>4, <2>1 DEF IInv, TypeOK, EOIsMatch, ClockRuns, ByteHasRequest,
       Started, Serving, TimerSteps, KbdSteps, IRQ
<1> QED
  BY <1>2, <1>3, <1>4 DEF TimerStep, TimerHandler

\* The keyboard's handler reads the byte and ends its service.
LEMMA KbdPreserves == ASSUME IInv, KbdStep PROVE IInv'
<1>1. UNCHANGED <<pc, todo, imr, pit, missed>>
  BY DEF KbdStep
<1>2. CASE KbdRead
  <2>1. TypeOK'
    BY <1>1, <1>2 DEF KbdRead, IInv, TypeOK, TimerSteps, KbdSteps
  <2>2. EOIsMatch'
    BY <1>2 DEF KbdRead, IInv, EOIsMatch, Serving, TimerSteps, KbdSteps
  <2>3. ClockRuns'
    BY <1>1, <1>2 DEF KbdRead, IInv, ClockRuns, Started
  <2>4. ByteHasRequest'
    BY <1>2 DEF KbdRead, ByteHasRequest
  <2> QED
    BY <2>1, <2>2, <2>3, <2>4 DEF IInv
<1>3. CASE KbdEnd
  <2>1. isr' = {}
    BY <1>3, EOIClears DEF KbdEnd, IInv, EOIsMatch, Serving, TimerSteps, KbdSteps, IRQ
  <2> QED
    BY <1>1, <1>3, <2>1 DEF KbdEnd, IInv, TypeOK, EOIsMatch, ClockRuns,
       ByteHasRequest, Started, Serving, TimerSteps, KbdSteps, IRQ
<1> QED
  BY <1>2, <1>3 DEF KbdStep

\* kmain's steps, taken while no handler runs.
LEMMA MainPreserves == ASSUME IInv, MainStep PROVE IInv'
<1>1. cpu = "main" /\ isr = {}
  <2>1. cpu = "main"
    BY DEF MainStep, InitPIC, MaskAll, EnableKbd, EnableTimer, Sti, StartTimer,
           DoWork, MainRuns
  <2> QED
    BY <2>1 DEF IInv, EOIsMatch, Serving, TimerSteps, KbdSteps
<1> USE DEF IInv, MainRuns, TypeOK, EOIsMatch, ClockRuns, ByteHasRequest,
            Started, Serving, TimerSteps, KbdSteps, IRQ
<1>2. CASE InitPIC
  BY <1>1, <1>2 DEF InitPIC
<1>3. CASE MaskAll
  BY <1>1, <1>3 DEF MaskAll
<1>4. CASE EnableKbd
  BY <1>1, <1>4 DEF EnableKbd, EnableInterrupt
<1>5. CASE EnableTimer
  BY <1>1, <1>5 DEF EnableTimer, EnableInterrupt
<1>6. CASE Sti
  BY <1>1, <1>6 DEF Sti
<1>7. CASE StartTimer /\ UNCHANGED <<iflag, cpu, isr, imr, obf, missed>>
  <2>1. CASE pc' = "hi" /\ todo' = todo /\ ReloadLo
    BY <1>1, <1>7, <2>1 DEF ReloadLo
  <2>2. CASE pc' = "work" /\ todo' = Work /\ ReloadHi
    <3>1. todo' \in 0 .. Work
      BY <2>2, WorkAssumption
    <3> QED
      BY <1>1, <1>7, <2>2, <3>1 DEF ReloadHi
  <2> QED
    BY <1>7, <2>1, <2>2 DEF StartTimer
<1>8. CASE DoWork /\ UNCHANGED <<iflag, cpu, irr, isr, imr, pit, obf, missed>>
  BY <1>1, <1>8, WorkAssumption DEF DoWork
<1> QED
  BY <1>2, <1>3, <1>4, <1>5, <1>6, <1>7, <1>8 DEF MainStep

\* Every step keeps the invariant.
LEMMA NextIInv == IInv /\ [Next]_vars => IInv'
<1> SUFFICES ASSUME IInv, [Next]_vars PROVE IInv'
  OBVIOUS
<1>1. CASE Fire \/ KeyArrives
  BY <1>1, DeviceStep
<1>2. CASE \E n \in IRQ : Accept(n)
  BY <1>2, AcceptStep
<1>3. CASE TimerStep
  BY <1>3, TimerPreserves
<1>4. CASE KbdStep
  BY <1>4, KbdPreserves
<1>5. CASE MainStep
  BY <1>5, MainPreserves
<1>6. CASE UNCHANGED vars
  BY <1>6 DEF vars, IInv, TypeOK, EOIsMatch, ClockRuns, ByteHasRequest, Started,
       Serving, TimerSteps, KbdSteps
<1> QED
  BY <1>1, <1>2, <1>3, <1>4, <1>5, <1>6 DEF Next

\* The inductive invariant holds in every reachable state.
THEOREM Invariance == Spec => []IInv
<1> QED
  BY InitIInv, NextIInv, PTL DEF Spec

\* Typing of kmain, the registers and the devices.
THEOREM TypeCorrect == Spec => []TypeOK
<1>1. IInv => TypeOK
  BY DEF IInv
<1> QED
  BY <1>1, Invariance, PTL

\* SendEOI's non-specific end of interrupt always ends the right service.
THEOREM EOICorrect == Spec => []EOIsMatch
<1>1. IInv => EOIsMatch
  BY DEF IInv
<1> QED
  BY <1>1, Invariance, PTL

\* The hand-loaded timer never stops once kmain has started it.
THEOREM ClockNeverStops == Spec => []ClockRuns
<1>1. IInv => ClockRuns
  BY DEF IInv
<1> QED
  BY <1>1, Invariance, PTL

\* No byte that came after pic.Initialize waits without a request.
THEOREM NoByteForgotten == Spec => []ByteHasRequest
<1>1. IInv => ByteHasRequest
  BY DEF IInv
<1> QED
  BY <1>1, Invariance, PTL

-----------------------------------------------------------------------------
(***************************************************************************)
(* The console.  Its strings, texts and formats are folds, recursive       *)
(* functions of the set of positions that are done, and the library's      *)
(* induction cannot be instantiated here.  So a fold is reasoned about     *)
(* through the least number that a claim fails for: first that the         *)
(* recursive function exists, then what one more element adds to it.  All  *)
(* three folds of the model are the turns of one generic loop.             *)
(*                                                                         *)
(* From that come the two facts the invariant needs: a screen that shows a *)
(* layout shows, after a character, the layout with that character put to  *)
(* it (PutCharShows), and Format says what the message says (FormatIs).    *)
(***************************************************************************)

\* Induction: a set of numbers that is not empty has a least one.
LEMMA LeastNat ==
  ASSUME NEW T \in SUBSET Nat, T # {}
  PROVE  \E x \in T : \A y \in T : x <= y
<1>1. \E x \in T : \A y \in T : ~ (<<y, x>> \in OpToRel(<, Nat))
  BY NatLessThanWellFounded, WFMin, Zenon
<1>2. \E x \in T : \A y \in T : ~ (y < x)
  BY <1>1, Zenon DEF OpToRel
<1> QED
  BY <1>2

\* A fold takes the elements one by one from the front.
LEMMA MaxOfInitial ==
  ASSUME NEW n \in Nat, NEW T \in SUBSET (1 .. (n + 1)), n + 1 \in T
  PROVE  Max(T) = n + 1
<1>1. \A x \in T : x \in Int /\ n + 1 >= x
  OBVIOUS
<1>2. \A x \in T : (\A y \in T : x >= y) => x = n + 1
  BY <1>1
<1> QED
  BY <1>1, <1>2 DEF Max

\* The three loops of the model: over the characters of a string to the screen,
\* over those of a text to its layout, and over the positions in a format.
Turn(loop, str, st, x) ==
  IF loop = "screen" THEN PutChar(st, x)
  ELSE IF loop = "layout" THEN Put(st, x)
  ELSE FormatChar(st, str, x)

Loop(loop, str, f, n, st, q) ==
  f = [T \in SUBSET (1 .. n) |->
         IF T = {} THEN st ELSE Turn(loop, str, f[T \ {Max(T)}], q[Max(T)])]

\* Every loop can be run: the recursive function that folds it exists.
LEMMA LoopExists ==
  ASSUME NEW n \in Nat, NEW loop, NEW str, NEW st, NEW q
  PROVE  \E f : Loop(loop, str, f, n, st, q)
<1> DEFINE Bad == {k \in Nat : ~ \E f : Loop(loop, str, f, k, st, q)}
<1> SUFFICES Bad = {}
  OBVIOUS
<1>1. ASSUME Bad # {} PROVE FALSE
  <2>1. PICK k \in Bad : \A y \in Bad : k <= y
    BY <1>1, LeastNat
  <2>2. CASE k = 0
    <3>1. SUBSET (1 .. 0) = {{}}
      OBVIOUS
    <3> DEFINE f == [T \in {{}} |-> st]
    <3>2. Loop(loop, str, f, 0, st, q)
      BY <3>1 DEF Loop
    <3> QED
      BY <2>1, <2>2, <3>2
  <2>3. CASE k # 0
    <3>1. PICK m \in Nat : k = m + 1
      BY <2>1, <2>3
    <3>2. PICK f : Loop(loop, str, f, m, st, q)
      BY <2>1, <3>1
    <3> DEFINE g == [T \in SUBSET (1 .. (m + 1)) |->
                       IF m + 1 \in T THEN Turn(loop, str, f[T \ {m + 1}], q[m + 1]) ELSE f[T]]
    <3>3. ASSUME NEW T \in SUBSET (1 .. m) PROVE T \in SUBSET (1 .. (m + 1)) /\ g[T] = f[T]
      OBVIOUS
    <3>4. ASSUME NEW T \in SUBSET (1 .. (m + 1))
          PROVE  g[T] = IF T = {} THEN st ELSE Turn(loop, str, g[T \ {Max(T)}], q[Max(T)])
      <4>1. CASE m + 1 \in T
        <5>1. Max(T) = m + 1
          BY <3>1, <4>1, MaxOfInitial
        <5>2. T \ {m + 1} \in SUBSET (1 .. m)
          OBVIOUS
        <5> HIDE DEF g
        <5>3. g[T \ {m + 1}] = f[T \ {m + 1}]
          BY <5>2, <3>3
        <5>4. g[T] = Turn(loop, str, f[T \ {m + 1}], q[m + 1])
          BY <4>1 DEF g
        <5> QED
          BY <4>1, <5>1, <5>3, <5>4
      <4>2. CASE m + 1 \notin T
        <5>1. T \in SUBSET (1 .. m)
          BY <4>2
        <5>2. T \ {Max(T)} \in SUBSET (1 .. m)
          BY <5>1
        <5>3. f[T] = IF T = {} THEN st ELSE Turn(loop, str, f[T \ {Max(T)}], q[Max(T)])
          BY <3>2, <5>1 DEF Loop
        <5> QED
          BY <5>1, <5>2, <5>3, <3>3
      <4> QED
        BY <4>1, <4>2
    <3>5. DOMAIN g = SUBSET (1 .. (m + 1)) /\ g = [T \in DOMAIN g |-> g[T]]
      OBVIOUS
    <3> HIDE DEF g
    <3>6. Loop(loop, str, g, m + 1, st, q)
      BY <3>4, <3>5, Zenon DEF Loop
    <3> QED
      BY <2>1, <3>1, <3>6
  <2> QED
    BY <2>2, <2>3
<1> QED
  BY <1>1

\* What a loop's function is at its first turns: the state, and one turn more.
LEMMA LoopTurn ==
  ASSUME NEW n \in Nat, NEW loop, NEW str, NEW st, NEW q, NEW f, Loop(loop, str, f, n, st, q)
  PROVE  /\ f[1 .. 0] = st
         /\ \A k \in 0 .. (n - 1) : f[1 .. (k + 1)] = Turn(loop, str, f[1 .. k], q[k + 1])
<1>1. f[1 .. 0] = st
  <2>1. 1 .. 0 = {} /\ {} \in SUBSET (1 .. n)
    OBVIOUS
  <2> QED
    BY <2>1, Zenon DEF Loop
<1>2. ASSUME NEW k \in 0 .. (n - 1)
      PROVE  f[1 .. (k + 1)] = Turn(loop, str, f[1 .. k], q[k + 1])
  <2>1. /\ 1 .. (k + 1) \in SUBSET (1 .. n) /\ 1 .. (k + 1) # {}
        /\ k + 1 \in 1 .. (k + 1) /\ (1 .. (k + 1)) \ {k + 1} = 1 .. k
    OBVIOUS
  <2>2. Max(1 .. (k + 1)) = k + 1
    BY <2>1, MaxOfInitial
  <2>3. f[1 .. (k + 1)] = Turn(loop, str, f[(1 .. (k + 1)) \ {Max(1 .. (k + 1))}], q[Max(1 .. (k + 1))])
    BY <2>1, Zenon DEF Loop
  <2> QED
    BY <2>1, <2>2, <2>3
<1> QED
  BY <1>1, <1>2

\* Two folds agree as far as their sequences do.
LEMMA LoopsAgree ==
  ASSUME NEW n \in Nat, NEW m \in Nat, NEW loop, NEW str, NEW st, NEW q, NEW r,
         NEW f, Loop(loop, str, f, n, st, q), NEW g, Loop(loop, str, g, m, st, r),
         NEW k \in Nat, k <= n, k <= m, \A j \in 1 .. k : q[j] = r[j]
  PROVE  f[1 .. k] = g[1 .. k]
<1> DEFINE Bad == {j \in 0 .. k : f[1 .. j] # g[1 .. j]}
<1> SUFFICES ASSUME Bad # {} PROVE FALSE
  OBVIOUS
<1>1. PICK j \in Bad : \A y \in Bad : j <= y
  <2>1. Bad \in SUBSET Nat
    OBVIOUS
  <2> QED
    BY <2>1, LeastNat
<1>2. /\ f[1 .. 0] = st
      /\ \A l \in 0 .. (n - 1) : f[1 .. (l + 1)] = Turn(loop, str, f[1 .. l], q[l + 1])
  BY LoopTurn
<1>3. /\ g[1 .. 0] = st
      /\ \A l \in 0 .. (m - 1) : g[1 .. (l + 1)] = Turn(loop, str, g[1 .. l], r[l + 1])
  BY LoopTurn
<1>4. PICK l \in Nat : j = l + 1
  <2>1. j # 0
    BY <1>2, <1>3
  <2> QED
    BY <2>1
<1>5. l \in 0 .. (n - 1) /\ l \in 0 .. (m - 1) /\ f[1 .. l] = g[1 .. l] /\ q[l + 1] = r[l + 1]
  <2>1. l \in 0 .. k /\ l \notin Bad /\ l + 1 \in 1 .. k
    BY <1>1, <1>4
  <2> QED
    BY <2>1
<1>6. f[1 .. (l + 1)] = g[1 .. (l + 1)]
  BY <1>2, <1>3, <1>5
<1> QED
  BY <1>1, <1>4, <1>6

\* What is left of the state when a loop has run over s.
Fold(loop, str, st, s) ==
  (CHOOSE f : Loop(loop, str, f, Len(s), st, s))[1 .. Len(s)]

\* A fold of a longer sequence is one more turn of the shorter's.
LEMMA FoldStep ==
  ASSUME NEW S, NEW s \in Seq(S), NEW x \in S, NEW loop, NEW str, NEW st
  PROVE  /\ Fold(loop, str, st, << >>) = st
         /\ Fold(loop, str, st, Append(s, x)) = Turn(loop, str, Fold(loop, str, st, s), x)
<1> DEFINE f0 == CHOOSE h : Loop(loop, str, h, Len(<< >>), st, << >>)
           f == CHOOSE h : Loop(loop, str, h, Len(s), st, s)
           g == CHOOSE h : Loop(loop, str, h, Len(Append(s, x)), st, Append(s, x))
<1>1. /\ Len(<< >>) = 0 /\ Len(s) \in Nat /\ Len(Append(s, x)) = Len(s) + 1
      /\ Append(s, x)[Len(s) + 1] = x
      /\ \A j \in 1 .. Len(s) : s[j] = Append(s, x)[j]
  OBVIOUS
<1>2. Loop(loop, str, f0, 0, st, << >>)
  BY <1>1, LoopExists
<1>3. Loop(loop, str, f, Len(s), st, s)
  BY <1>1, LoopExists
<1>4. Loop(loop, str, g, Len(s) + 1, st, Append(s, x))
  BY <1>1, LoopExists
<1>5. /\ Fold(loop, str, st, << >>) = f0[1 .. 0] /\ Fold(loop, str, st, s) = f[1 .. Len(s)]
      /\ Fold(loop, str, st, Append(s, x)) = g[1 .. (Len(s) + 1)]
  BY <1>1 DEF Fold
<1> HIDE DEF f0, f, g
<1>6. f0[1 .. 0] = st
  BY <1>2, LoopTurn
<1>7. f[1 .. Len(s)] = g[1 .. Len(s)]
  <2>1. PICK n \in Nat : n = Len(s)
    BY <1>1
  <2>2. PICK r : n = Len(s) /\ r = Append(s, x)
    BY <2>1
  <2>3. /\ Loop(loop, str, f, n, st, s) /\ Loop(loop, str, g, n + 1, st, r)
        /\ n + 1 \in Nat /\ n <= n /\ n <= n + 1
        /\ \A j \in 1 .. n : s[j] = r[j]
    BY <1>1, <1>3, <1>4, <2>2
  <2>4. f[1 .. n] = g[1 .. n]
    BY <2>3, LoopsAgree
  <2> QED
    BY <2>2, <2>4
<1>8. g[1 .. (Len(s) + 1)] = Turn(loop, str, g[1 .. Len(s)], x)
  <2>1. PICK n \in Nat : n = Len(s)
    BY <1>1
  <2>2. PICK r : n = Len(s) /\ r = Append(s, x)
    BY <2>1
  <2>3. Loop(loop, str, g, n + 1, st, r) /\ n + 1 \in Nat /\ n \in 0 .. ((n + 1) - 1)
    BY <1>4, <2>2
  <2>4. g[1 .. (n + 1)] = Turn(loop, str, g[1 .. n], r[n + 1])
    BY <2>3, LoopTurn
  <2> QED
    BY <1>1, <2>2, <2>4
<1> QED
  BY <1>5, <1>6, <1>7, <1>8

\* The screen scr after WriteString of s.
Written(scr, s) == FoldLeft(PutChar, scr, s)

\* WriteString, undisturbed, writes a string character by character.
LEMMA WrittenAppend ==
  ASSUME NEW S, NEW s \in Seq(S), NEW c \in S, NEW scr
  PROVE  /\ Written(scr, << >>) = scr
         /\ Written(scr, Append(s, c)) = PutChar(Written(scr, s), c)
<1>1. ASSUME NEW r \in Seq(S) PROVE Written(scr, r) = Fold("screen", 0, scr, r)
  <2>1. DOMAIN r = 1 .. Len(r)
    OBVIOUS
  <2> QED
    BY <2>1 DEF Written, FoldLeft, MapThenFoldSet, Fold, Loop, Turn
<1>2. << >> \in Seq(S) /\ Append(s, c) \in Seq(S)
  OBVIOUS
<1>3. /\ Fold("screen", 0, scr, << >>) = scr
      /\ Fold("screen", 0, scr, Append(s, c)) = Turn("screen", 0, Fold("screen", 0, scr, s), c)
  BY FoldStep
<1>4. Turn("screen", 0, Written(scr, s), c) = PutChar(Written(scr, s), c)
  BY DEF Turn
<1> QED
  BY <1>1, <1>2, <1>3, <1>4

\* Layout of Terminal: a text's layout grows character by character.
LEMMA LayoutAppend ==
  ASSUME NEW S, NEW s \in Seq(S), NEW c \in S
  PROVE  /\ Layout(<< >>) = Empty
         /\ Layout(Append(s, c)) = Put(Layout(s), c)
<1>1. ASSUME NEW r \in Seq(S) PROVE Layout(r) = Fold("layout", 0, Empty, r)
  <2>1. DOMAIN r = 1 .. Len(r)
    OBVIOUS
  <2> QED
    BY <2>1 DEF Layout, FoldLeft, MapThenFoldSet, Fold, Loop, Turn
<1>2. << >> \in Seq(S) /\ Append(s, c) \in Seq(S)
  OBVIOUS
<1>3. /\ Fold("layout", 0, Empty, << >>) = Empty
      /\ Fold("layout", 0, Empty, Append(s, c)) = Turn("layout", 0, Fold("layout", 0, Empty, s), c)
  BY FoldStep
<1>4. Turn("layout", 0, Layout(s), c) = Put(Layout(s), c)
  BY DEF Turn
<1> QED
  BY <1>1, <1>2, <1>3, <1>4

-----------------------------------------------------------------------------
(* Cells by row and column *)

\* Division, as the provers need it.
LEMMA Divided ==
  ASSUME NEW a \in Nat, NEW d \in Nat \ {0}
  PROVE  /\ a \div d \in Nat /\ a % d \in 0 .. (d - 1)
         /\ a = (a \div d) * d + (a % d)
BY Z3

\* A product grows with its factor.
LEMMA ProductGrows ==
  ASSUME NEW a \in Nat, NEW c \in Nat, NEW d \in Nat
  PROVE  /\ a * d \in Nat
         /\ a < c => a * d + d <= c * d
         /\ a <= c => a * d <= c * d
<1>1. a * d \in Nat /\ c * d \in Nat
  OBVIOUS
<1>2. ASSUME NEW x \in Nat, NEW y \in Nat, x < y
      PROVE  x * d + d <= y * d
  <2>1. PICK k \in Nat : y = x + 1 + k
    <3>1. y - x - 1 \in Nat /\ y = x + 1 + (y - x - 1)
      BY <1>2
    <3> QED
      BY <3>1
  <2>2. y * d = x * d + d + k * d
    BY <2>1
  <2>3. k * d \in Nat /\ x * d \in Nat
    OBVIOUS
  <2> QED
    BY <2>2, <2>3
<1>3. a < c => a * d + d <= c * d
  BY <1>2
<1>4. a <= c => a * d <= c * d
  <2>1. a = c \/ a < c \/ c < a
    OBVIOUS
  <2> QED
    BY <2>1, <1>1, <1>3
<1> QED
  BY <1>1, <1>3, <1>4

\* Quotient and rest determine a number, and it them.
LEMMA QuotientIs ==
  ASSUME NEW q \in Nat, NEW d \in Nat \ {0}, NEW x \in 0 .. (d - 1)
  PROVE  (q * d + x) \div d = q /\ (q * d + x) % d = x
<1> DEFINE a == q * d + x
<1>1. a \in Nat /\ q * d \in Nat
  OBVIOUS
<1>2. a \div d \in Nat /\ a % d \in 0 .. (d - 1) /\ a = (a \div d) * d + (a % d)
  BY <1>1, Divided
<1>3. PICK p \in Nat, y \in 0 .. (d - 1) : p = a \div d /\ y = a % d /\ q * d + x = p * d + y
  BY <1>2
<1>4. p * d \in Nat
  OBVIOUS
<1>5. ~ (p < q)
  <2> SUFFICES ASSUME p < q PROVE FALSE
    OBVIOUS
  <2>1. p * d + d <= q * d
    BY ProductGrows
  <2> QED
    BY <1>1, <1>3, <1>4, <2>1
<1>6. ~ (q < p)
  <2> SUFFICES ASSUME q < p PROVE FALSE
    OBVIOUS
  <2>1. q * d + d <= p * d
    BY ProductGrows
  <2> QED
    BY <1>1, <1>3, <1>4, <2>1
<1>7. p = q
  BY <1>5, <1>6
<1>8. y = x
  BY <1>1, <1>3, <1>7
<1> QED
  BY <1>3, <1>7, <1>8

\* The screen's size, and its last row.
LEMMA Screen ==
  /\ Rows \in Nat \ {0} /\ Cols \in Nat \ {0} /\ Size \in Nat \ {0}
  /\ Size = (Rows - 1) * Cols + Cols /\ Cell = 0 .. (Size - 1)
<1>1. Rows \in Nat \ {0} /\ Cols \in Nat \ {0}
  BY ScreenAssumption
<1>2. Size = (Rows - 1) * Cols + Cols
  BY <1>1 DEF Size
<1>3. (Rows - 1) * Cols \in Nat
  BY <1>1
<1> QED
  BY <1>1, <1>2, <1>3 DEF Cell

Row == 0 .. (Rows - 1)
Col == 0 .. (Cols - 1)
Place(r, x) == r * Cols + x

\* A place in a row and a column is a cell, with the one below Cols further.
LEMMA PlaceIs ==
  ASSUME NEW r \in Row, NEW x \in Col
  PROVE  /\ Place(r, x) \in Cell /\ Place(r, x) \div Cols = r /\ Place(r, x) % Cols = x
         /\ Place(r, x) + Cols < Size <=> r + 1 \in Row
         /\ Place(r, x) + Cols = Place(r + 1, x)
<1>1. r \in Nat /\ Rows \in Nat \ {0} /\ Cols \in Nat \ {0} /\ x \in Nat /\ x < Cols /\ r < Rows
  BY Screen DEF Row, Col
<1>2. Place(r, x) \div Cols = r /\ Place(r, x) % Cols = x
  BY <1>1, QuotientIs DEF Place
<1>3. PICK a, b, s : a = r * Cols /\ b = (r + 1) * Cols /\ s = Size
  OBVIOUS
<1>4. a \in Nat /\ b \in Nat /\ b = a + Cols /\ s \in Nat
  BY <1>1, <1>3, Screen
<1>5. a + Cols <= s
  BY <1>1, <1>3, ProductGrows DEF Size
<1>6. r + 1 < Rows => b + Cols <= s
  BY <1>1, <1>3, ProductGrows DEF Size
<1>7. r + 1 = Rows => b = s
  BY <1>1, <1>3 DEF Size
<1>8. Place(r, x) = a + x /\ Place(r + 1, x) = b + x
  BY <1>3 DEF Place
<1>9. Place(r, x) \in Cell
  BY <1>1, <1>3, <1>4, <1>5, <1>8 DEF Cell
<1>10. Place(r, x) + Cols < Size <=> r + 1 \in Row
  <2>1. CASE r + 1 < Rows
    BY <2>1, <1>1, <1>3, <1>4, <1>6, <1>8 DEF Row
  <2>2. CASE r + 1 = Rows
    BY <2>2, <1>1, <1>3, <1>4, <1>7, <1>8 DEF Row
  <2> QED
    BY <1>1, <2>1, <2>2
<1> QED
  BY <1>1, <1>2, <1>4, <1>8, <1>9, <1>10

\* Every cell is at a place.
LEMMA CellIs ==
  ASSUME NEW k \in Cell
  PROVE  /\ k \div Cols \in Row /\ k % Cols \in Col
         /\ k = Place(k \div Cols, k % Cols)
<1>1. /\ k \in Nat /\ Cols \in Nat \ {0} /\ Rows \in Nat \ {0} /\ k < Size
  BY Screen
<1>2. PICK q \in Nat, x \in Nat : q = k \div Cols /\ x = k % Cols /\ x \in Col
                                  /\ k = q * Cols + x
  <2>1. /\ k \div Cols \in Nat /\ k % Cols \in 0 .. (Cols - 1)
        /\ k = (k \div Cols) * Cols + (k % Cols)
    BY <1>1, Divided
  <2> QED
    BY <1>1, <2>1 DEF Col
<1>3. q < Rows
  <2>1. PICK p : p = q * Cols
    OBVIOUS
  <2>2. p \in Nat /\ k = p + x
    BY <1>1, <1>2, <2>1
  <2>3. Rows <= q => Size <= p
    BY <1>1, <2>1, ProductGrows DEF Size
  <2> QED
    BY <1>1, <2>2, <2>3, Screen
<1> QED
  BY <1>1, <1>2, <1>3 DEF Row, Place

\* Columns of two rows are different cells.
LEMMA PlacesDiffer ==
  ASSUME NEW r \in Row, NEW x \in Col, NEW q \in Row, NEW y \in Col, Place(r, x) = Place(q, y)
  PROVE  r = q /\ x = y
<1>1. Place(r, x) \div Cols = r /\ Place(r, x) % Cols = x
  BY PlaceIs
<1>2. Place(q, y) \div Cols = q /\ Place(q, y) % Cols = y
  BY PlaceIs
<1> QED
  BY <1>1, <1>2

-----------------------------------------------------------------------------
(* Layouts *)

\* No line is longer than a row, and the one being written has room.
LayoutOK(lay) ==
  /\ lay \in [lines : Seq(Seq(Characters)), open : BOOLEAN]
  /\ \A n \in 1 .. Len(lay.lines) : Len(lay.lines[n]) <= Cols
  /\ lay.open => Len(lay.lines) > 0 /\ Len(lay.lines[Len(lay.lines)]) < Cols

\* The layout with the line that the next character goes to.
Opened(lay) ==
  IF lay.open THEN lay ELSE [lines |-> Append(lay.lines, << >>), open |-> TRUE]

\* Put begins a line where there is none, and only then looks at the character.
LEMMA OpenedIs ==
  ASSUME NEW lay, LayoutOK(lay)
  PROVE  /\ LayoutOK(Opened(lay)) /\ Opened(lay).open
         /\ \A c : Put(lay, c) = Put(Opened(lay), c)
<1>1. CASE lay.open
  BY <1>1 DEF Opened
<1>2. CASE ~lay.open
  <2> DEFINE l == Append(lay.lines, << >>)
  <2>1. lay.lines \in Seq(Seq(Characters)) /\ << >> \in Seq(Characters) /\ Cols \in Nat \ {0}
    BY Screen DEF LayoutOK
  <2>2. /\ l \in Seq(Seq(Characters)) /\ Len(l) = Len(lay.lines) + 1 /\ l[Len(l)] = << >>
        /\ Len(lay.lines) \in Nat
        /\ \A n \in 1 .. Len(lay.lines) : l[n] = lay.lines[n]
    BY <2>1
  <2>3. Opened(lay) = [lines |-> l, open |-> TRUE]
    BY <1>2 DEF Opened
  <2> HIDE DEF l
  <2>4. Len(<< >>) = 0 /\ \A n \in 1 .. Len(l) : n \in 1 .. Len(lay.lines) \/ n = Len(l)
    BY <2>2
  <2>5. LayoutOK(Opened(lay))
    <3>1. PICK o : o = Opened(lay)
      OBVIOUS
    <3>2. o = [lines |-> l, open |-> TRUE] /\ o.lines = l /\ o.open
      BY <2>3, <3>1
    <3>3. o \in [lines : Seq(Seq(Characters)), open : BOOLEAN]
      BY <2>2, <3>2
    <3>4. \A n \in 1 .. Len(l) : Len(l[n]) <= Cols
      <4>1. \A n \in 1 .. Len(lay.lines) : Len(lay.lines[n]) <= Cols
        BY DEF LayoutOK
      <4>2. Len(l[Len(l)]) <= Cols
        BY <2>1, <2>2, <2>4
      <4> QED
        BY <2>2, <2>4, <4>1, <4>2
    <3>5. Len(l) > 0 /\ Len(l[Len(l)]) < Cols
      BY <2>1, <2>2, <2>4
    <3>6. LayoutOK(o)
      BY <3>2, <3>3, <3>4, <3>5 DEF LayoutOK
    <3> QED
      BY <3>1, <3>6
  <2>6. ASSUME NEW c PROVE Put(lay, c) = Put(Opened(lay), c)
    BY <1>2, <2>3 DEF Put, l
  <2>7. Opened(lay).open
    BY <2>3
  <2> QED
    BY <2>5, <2>6, <2>7
<1>3. lay.open \in BOOLEAN
  BY DEF LayoutOK
<1> QED
  BY <1>1, <1>2, <1>3

\* How many lines are on the screen.
Shown(lay) == Len(lay.lines) - Above(lay)

\* The lines shown are at most Rows, and all Rows once some scrolled away.
LEMMA ShownIs ==
  ASSUME NEW lay, LayoutOK(lay)
  PROVE  /\ Len(lay.lines) \in Nat /\ Above(lay) \in Nat /\ Shown(lay) \in 0 .. Rows
         /\ Len(lay.lines) = Above(lay) + Shown(lay)
         /\ Above(lay) > 0 => Shown(lay) = Rows
         /\ lay.open => Shown(lay) > 0
<1>1. Len(lay.lines) \in Nat /\ Rows \in Nat \ {0} /\ (lay.open => Len(lay.lines) > 0)
  BY Screen DEF LayoutOK
<1>2. PICK n \in Nat : n = Len(lay.lines)
  BY <1>1
<1>3. PICK a : n = Len(lay.lines) /\ a = Above(lay)
  BY <1>2
<1>4. a = (IF n > Rows THEN n - Rows ELSE 0) /\ Shown(lay) = n - a
  BY <1>3 DEF Above, Shown
<1>5. /\ a \in Nat /\ n - a \in 0 .. Rows /\ n = a + (n - a)
      /\ (a > 0 => n - a = Rows) /\ (n > 0 => n - a > 0)
  <2>1. CASE n > Rows
    BY <1>1, <1>4, <2>1
  <2>2. CASE ~ (n > Rows)
    BY <1>1, <1>4, <2>2
  <2> QED
    BY <2>1, <2>2
<1> QED
  BY <1>1, <1>3, <1>4, <1>5

\* The line of a row of the screen: empty behind the last one.
LEMMA LineIs ==
  ASSUME NEW lay, LayoutOK(lay), NEW r \in Row
  PROVE  /\ LineAt(lay, r) \in Seq(Characters) /\ Len(LineAt(lay, r)) <= Cols
         /\ r < Shown(lay) => LineAt(lay, r) = lay.lines[Above(lay) + r + 1]
         /\ r >= Shown(lay) => LineAt(lay, r) = << >>
<1>1. Len(lay.lines) = Above(lay) + Shown(lay) /\ Above(lay) \in Nat /\ Shown(lay) \in Nat
      /\ r \in Nat
  BY ShownIs, Screen DEF Row
<1>2. /\ lay.lines \in Seq(Seq(Characters)) /\ Cols \in Nat /\ << >> \in Seq(Characters)
      /\ Len(<< >>) = 0
      /\ \A n \in 1 .. Len(lay.lines) : Len(lay.lines[n]) <= Cols
  BY Screen DEF LayoutOK
<1>3. CASE r < Shown(lay)
  <2>1. Above(lay) + r + 1 \in 1 .. Len(lay.lines)
    BY <1>1, <1>3
  <2>2. LineAt(lay, r) = lay.lines[Above(lay) + r + 1]
    BY <2>1 DEF LineAt
  <2> QED
    BY <1>1, <1>2, <1>3, <2>1, <2>2
<1>4. CASE r >= Shown(lay)
  <2>1. ~ (Above(lay) + r + 1 <= Len(lay.lines))
    BY <1>1, <1>4
  <2>2. LineAt(lay, r) = << >>
    BY <2>1 DEF LineAt
  <2> QED
    BY <1>1, <1>2, <1>4, <2>2
<1> QED
  BY <1>1, <1>3, <1>4

\* Where the cursor is: at the end of the last line, or before the next one.
LEMMA CursorIs ==
  ASSUME NEW lay, LayoutOK(lay)
  PROVE  /\ CursorOf(lay) \in 0 .. Size
         /\ lay.open => /\ Shown(lay) - 1 \in Row /\ Len(LineAt(lay, Shown(lay) - 1)) \in Col
                        /\ LineAt(lay, Shown(lay) - 1) = lay.lines[Len(lay.lines)]
                        /\ CursorOf(lay) = Place(Shown(lay) - 1, Len(LineAt(lay, Shown(lay) - 1)))
                        /\ CursorOf(lay) \in Cell
         /\ ~lay.open => CursorOf(lay) = Shown(lay) * Cols
         /\ ~lay.open => (CursorOf(lay) = Size <=> Shown(lay) = Rows)
<1>1. /\ Len(lay.lines) = Above(lay) + Shown(lay) /\ Above(lay) \in Nat
      /\ Shown(lay) \in 0 .. Rows
      /\ Rows \in Nat \ {0} /\ Cols \in Nat \ {0}
  BY ShownIs, Screen
<1>2. ASSUME lay.open
      PROVE  /\ Shown(lay) - 1 \in Row /\ Len(LineAt(lay, Shown(lay) - 1)) \in Col
             /\ LineAt(lay, Shown(lay) - 1) = lay.lines[Len(lay.lines)]
             /\ CursorOf(lay) = Place(Shown(lay) - 1, Len(LineAt(lay, Shown(lay) - 1)))
             /\ CursorOf(lay) \in Cell
  <2>1. Shown(lay) > 0 /\ Shown(lay) - 1 \in Row
        /\ Above(lay) + (Shown(lay) - 1) + 1 = Len(lay.lines)
    BY <1>1, <1>2, ShownIs DEF Row
  <2>2. LineAt(lay, Shown(lay) - 1) = lay.lines[Len(lay.lines)]
    BY <1>1, <2>1, LineIs
  <2>3. LineAt(lay, Shown(lay) - 1) \in Seq(Characters)
    BY <2>1, LineIs
  <2>4. Len(LineAt(lay, Shown(lay) - 1)) \in Col
    BY <1>1, <1>2, <2>2, <2>3 DEF LayoutOK, Col
  <2>5. CursorOf(lay) = Place(Shown(lay) - 1, Len(LineAt(lay, Shown(lay) - 1)))
    BY <1>2, <2>2 DEF CursorOf, Place, Shown
  <2> QED
    BY <2>1, <2>2, <2>4, <2>5, PlaceIs
<1>3. ASSUME ~lay.open
      PROVE  /\ CursorOf(lay) = Shown(lay) * Cols /\ CursorOf(lay) \in 0 .. Size
             /\ CursorOf(lay) = Size <=> Shown(lay) = Rows
  <2>1. PICK n \in Nat : n = Shown(lay) /\ n <= Rows
    BY <1>1
  <2>2. n * Cols \in Nat /\ n * Cols <= Rows * Cols
        /\ (n < Rows => n * Cols + Cols <= Rows * Cols)
    BY <1>1, <2>1, ProductGrows
  <2>3. CursorOf(lay) = n * Cols
    BY <1>3, <2>1 DEF CursorOf, Shown
  <2>4. PICK a \in Nat, s \in Nat : a = n * Cols /\ s = Rows * Cols /\ s = Size
    BY <2>2, Screen DEF Size
  <2>5. n = Rows => a = s
    BY <2>4
  <2>6. a <= s /\ (n < Rows => a + Cols <= s)
    BY <2>2, <2>4
  <2> QED
    BY <1>1, <2>1, <2>3, <2>4, <2>5, <2>6
<1>4. Cell \subseteq 0 .. Size
  BY Screen
<1> QED
  BY <1>2, <1>3, <1>4

-----------------------------------------------------------------------------
(* What a screen shows *)

Glyph(line, x) == IF x < Len(line) THEN line[x + 1] ELSE Blank

\* The memory m shows a layout: every cell of it if exact, or those only that
\* a character is in.
Shows(m, lay, exact) ==
  /\ m = [k \in Cell |-> m[k]]
  /\ \A r \in Row, x \in Col :
       exact \/ x < Len(LineAt(lay, r)) => m[Place(r, x)] = Glyph(LineAt(lay, r), x)

\* A memory that shows a layout exactly is its view; any agrees where ink is.
LEMMA ShowsView ==
  ASSUME NEW m, NEW lay, LayoutOK(lay)
  PROVE  /\ Shows(m, lay, TRUE) => m = View(lay)
         /\ \A e \in BOOLEAN : Shows(m, lay, e) => \A k \in Inked(lay) : m[k] = View(lay)[k]
<1>1. View(lay) = [k \in Cell |-> Glyph(LineAt(lay, k \div Cols), k % Cols)]
  BY DEF View, Glyph, Cell
<1>2. ASSUME Shows(m, lay, TRUE), NEW k \in Cell PROVE m[k] = View(lay)[k]
  BY <1>1, <1>2, CellIs DEF Shows
<1>3. ASSUME Shows(m, lay, TRUE) PROVE m = View(lay)
  <2>1. m = [k \in Cell |-> m[k]] /\ \A k \in Cell : m[k] = View(lay)[k]
    BY <1>2, <1>3 DEF Shows
  <2> QED
    BY <1>1, <2>1
<1>4. ASSUME NEW e \in BOOLEAN, Shows(m, lay, e), NEW k \in Inked(lay) PROVE m[k] = View(lay)[k]
  <2>1. k \in Cell /\ k % Cols < Len(LineAt(lay, k \div Cols))
    BY DEF Inked, Cell
  <2> QED
    BY <1>1, <1>4, <2>1, CellIs DEF Shows
<1> QED
  BY <1>3, <1>4

\* A line is begun on a screen that is not full.
LEMMA OpeningShows ==
  ASSUME NEW lay, LayoutOK(lay), CursorOf(lay) # Size, NEW e \in BOOLEAN, NEW m, Shows(m, lay, e)
  PROVE  Shows(m, Opened(lay), e) /\ CursorOf(Opened(lay)) = CursorOf(lay)
<1>1. CASE lay.open
  BY <1>1 DEF Opened
<1>2. CASE ~lay.open
  <2>1. PICK o : o = Opened(lay) /\ LayoutOK(o) /\ o.open
    BY OpenedIs
  <2>2. PICK n \in Nat : n = Shown(lay) /\ n < Rows
    <3>1. Shown(lay) \in 0 .. Rows /\ Rows \in Nat
      BY ShownIs, Screen
    <3>2. Shown(lay) # Rows
      BY <1>2, CursorIs
    <3> QED
      BY <3>1, <3>2
  <2>3. /\ Len(lay.lines) = n /\ Above(lay) = 0
        /\ Rows \in Nat \ {0} /\ Cols \in Nat \ {0}
    BY <2>2, ShownIs, Screen
  <2>4. o.lines = Append(lay.lines, << >>)
    BY <1>2, <2>1 DEF Opened
  <2>5. /\ Len(o.lines) = n + 1 /\ o.lines[n + 1] = << >>
        /\ \A j \in 1 .. n : o.lines[j] = lay.lines[j]
    <3>1. lay.lines \in Seq(Seq(Characters)) /\ << >> \in Seq(Characters)
      BY DEF LayoutOK
    <3> QED
      BY <2>3, <2>4, <3>1
  <2>6. Above(o) = 0 /\ Shown(o) = n + 1
    <3>1. PICK l : l = Len(o.lines)
      OBVIOUS
    <3>2. l = n + 1 /\ ~ (l > Rows)
      BY <2>2, <2>3, <2>5, <3>1
    <3>3. Above(o) = 0
      BY <3>1, <3>2 DEF Above
    <3> QED
      BY <2>5, <3>3 DEF Shown
  <2>7. ASSUME NEW r \in Row PROVE LineAt(o, r) = LineAt(lay, r)
    <3>1. r \in Nat
      BY <2>3 DEF Row
    <3>2. CASE r < n
      <4>1. LineAt(o, r) = o.lines[r + 1]
        BY <2>1, <2>2, <2>6, <3>1, <3>2, LineIs
      <4>2. LineAt(lay, r) = lay.lines[r + 1]
        BY <2>2, <2>3, <3>1, <3>2, LineIs
      <4> QED
        BY <2>5, <3>1, <3>2, <4>1, <4>2
    <3>3. CASE r = n
      <4>1. LineAt(o, r) = o.lines[n + 1]
        BY <2>1, <2>2, <2>6, <3>1, <3>3, LineIs
      <4>2. LineAt(lay, r) = << >>
        BY <2>2, <3>1, <3>3, LineIs
      <4> QED
        BY <2>5, <4>1, <4>2
    <3>4. CASE r > n
      <4>1. LineAt(o, r) = << >>
        BY <2>1, <2>2, <2>6, <3>1, <3>4, LineIs
      <4>2. LineAt(lay, r) = << >>
        BY <2>2, <3>1, <3>4, LineIs
      <4> QED
        BY <4>1, <4>2
    <3> QED
      BY <2>2, <3>1, <3>2, <3>3, <3>4
  <2>8. Shows(m, o, e)
    BY <2>7 DEF Shows
  <2>9. CursorOf(o) = CursorOf(lay)
    <3>1. o.lines[Len(o.lines)] = << >> /\ Len(<< >>) = 0
      BY <2>5
    <3>2. CursorOf(o) = ((n + 1) - 1) * Cols + 0
      BY <2>1, <2>6, <3>1 DEF CursorOf, Shown
    <3>3. CursorOf(lay) = n * Cols
      BY <1>2, <2>2, CursorIs
    <3>4. (n + 1) - 1 = n /\ n * Cols \in Nat
      BY <2>2, <2>3
    <3> QED
      BY <3>2, <3>3, <3>4
  <2> QED
    BY <2>1, <2>8, <2>9
<1>3. lay.open \in BOOLEAN
  BY DEF LayoutOK
<1> QED
  BY <1>1, <1>2, <1>3

\* ScrollUp begins a line at the bottom of a screen that is full.
LEMMA FullIs ==
  ASSUME NEW lay, LayoutOK(lay), CursorOf(lay) = Size
  PROVE  /\ ~lay.open /\ Shown(lay) = Rows /\ Shown(Opened(lay)) = Rows
         /\ CursorOf(Opened(lay)) = Size - Cols /\ CursorUp(Size) = Size - Cols
         /\ \A r \in Row : LineAt(Opened(lay), r) =
                             IF r + 1 \in Row THEN LineAt(lay, r + 1) ELSE << >>
<1>1. /\ Rows \in Nat \ {0} /\ Cols \in Nat \ {0} /\ Size \in Nat
      /\ Size = (Rows - 1) * Cols + Cols
      /\ Cell = 0 .. (Size - 1) /\ lay.open \in BOOLEAN
  BY Screen DEF LayoutOK
<1>2. ~lay.open /\ Shown(lay) = Rows
  <2>1. ~lay.open
    BY <1>1, CursorIs
  <2> QED
    BY <2>1, CursorIs
<1>3. PICK a \in Nat : a = Above(lay) /\ Len(lay.lines) = a + Rows
  BY <1>2, ShownIs
<1>4. PICK o : o = Opened(lay) /\ LayoutOK(o) /\ o.open /\ o.lines = Append(lay.lines, << >>)
  <2>1. Opened(lay) = [lines |-> Append(lay.lines, << >>), open |-> TRUE]
    BY <1>2 DEF Opened
  <2>2. Opened(lay).lines = Append(lay.lines, << >>)
    BY <2>1
  <2> QED
    BY <2>2, OpenedIs
<1>5. /\ Len(o.lines) = a + Rows + 1 /\ o.lines[a + Rows + 1] = << >>
      /\ \A j \in 1 .. (a + Rows) : o.lines[j] = lay.lines[j]
  <2>1. lay.lines \in Seq(Seq(Characters)) /\ << >> \in Seq(Characters)
    BY DEF LayoutOK
  <2> QED
    BY <1>3, <1>4, <2>1
<1>6. Above(o) = a + 1 /\ Shown(o) = Rows
  <2>1. PICK n \in Nat : n = Len(o.lines) /\ n = a + Rows + 1
    BY <1>1, <1>3, <1>5
  <2>2. n > Rows /\ n - Rows = a + 1 /\ n - (a + 1) = Rows
    BY <1>1, <1>3, <2>1
  <2>3. Above(o) = n - Rows
    BY <2>1, <2>2 DEF Above
  <2> QED
    BY <2>1, <2>2, <2>3 DEF Shown
<1>7. ASSUME NEW r \in Row
      PROVE  LineAt(o, r) = IF r + 1 \in Row THEN LineAt(lay, r + 1) ELSE << >>
  <2>1. r \in Nat /\ r < Rows
    BY <1>1 DEF Row
  <2>2. LineAt(o, r) = o.lines[(a + 1) + r + 1]
    BY <1>4, <1>6, <2>1, LineIs
  <2>3. CASE r + 1 \in Row
    <3>1. r + 1 < Rows
      BY <1>1, <2>1, <2>3 DEF Row
    <3>2. LineAt(lay, r + 1) = lay.lines[a + (r + 1) + 1]
      BY <1>2, <1>3, <2>3, <3>1, LineIs
    <3>3. (a + 1) + r + 1 = a + (r + 1) + 1 /\ a + (r + 1) + 1 \in 1 .. (a + Rows)
      BY <1>1, <1>3, <2>1, <3>1
    <3> QED
      BY <1>5, <2>2, <2>3, <3>2, <3>3
  <2>4. CASE r + 1 \notin Row
    <3>1. (a + 1) + r + 1 = a + Rows + 1
      BY <1>1, <1>3, <2>1, <2>4 DEF Row
    <3> QED
      BY <1>5, <2>2, <2>4, <3>1
  <2> QED
    BY <2>3, <2>4
<1>8. CursorOf(o) = Size - Cols
  <2>1. o.lines[Len(o.lines)] = << >> /\ Len(<< >>) = 0
    BY <1>5
  <2>2. CursorOf(o) = (Rows - 1) * Cols + 0
    BY <1>4, <1>6, <2>1 DEF CursorOf, Shown
  <2>3. (Rows - 1) * Cols \in Nat
    BY <1>1
  <2> QED
    BY <1>1, <2>2, <2>3
<1>9. CursorUp(Size) = Size - Cols
  <2>1. (Rows - 1) * Cols \in Nat
    BY <1>1
  <2>2. Size >= Cols
    BY <1>1, <2>1
  <2>3. Size = Cols => Size - Cols = 0
    BY <1>1
  <2> QED
    BY <1>1, <2>2, <2>3 DEF CursorUp
<1> QED
  BY <1>2, <1>4, <1>6, <1>7, <1>8, <1>9

\* ScrollUp of a full screen shows the lines one row higher and an empty one.
LEMMA ScrollShows ==
  ASSUME NEW lay, LayoutOK(lay), CursorOf(lay) = Size, NEW e \in BOOLEAN, NEW m, Shows(m, lay, e)
  PROVE  Shows(Scrolled(m, Size), Opened(lay), e)
<1>1. /\ Rows \in Nat \ {0} /\ Cols \in Nat \ {0} /\ Size \in Nat /\ Cell = 0 .. (Size - 1)
  BY Screen
<1> DEFINE w == Scrolled(m, Size)
<1>2. w = [k \in Cell |-> IF k + Cols < Size THEN m[k + Cols] ELSE Blank]
  BY <1>1 DEF Scrolled
<1>3. w = [k \in Cell |-> w[k]]
  BY <1>2
<1>4. ASSUME NEW r \in Row, NEW x \in Col, e \/ x < Len(LineAt(Opened(lay), r))
      PROVE  w[Place(r, x)] = Glyph(LineAt(Opened(lay), r), x)
  <2>1. /\ Place(r, x) \in Cell /\ (Place(r, x) + Cols < Size <=> r + 1 \in Row)
        /\ Place(r, x) + Cols = Place(r + 1, x)
    BY PlaceIs
  <2>2. w[Place(r, x)] = IF r + 1 \in Row THEN m[Place(r + 1, x)] ELSE Blank
    BY <1>2, <2>1
  <2>3. CASE r + 1 \in Row
    <3>1. LineAt(Opened(lay), r) = LineAt(lay, r + 1)
      BY <2>3, FullIs
    <3>2. m[Place(r + 1, x)] = Glyph(LineAt(lay, r + 1), x)
      BY <1>4, <2>3, <3>1 DEF Shows
    <3> QED
      BY <2>2, <2>3, <3>1, <3>2
  <2>4. CASE r + 1 \notin Row
    <3>1. LineAt(Opened(lay), r) = << >> /\ ~ (x < Len(<< >>))
      BY <1>1, <2>4, FullIs DEF Col
    <3> QED
      BY <2>2, <2>4, <3>1 DEF Glyph
  <2> QED
    BY <2>3, <2>4
<1> QED
  BY <1>3, <1>4 DEF Shows

\* A newline ends the line.
LEMMA NewlineShows ==
  ASSUME NEW o, LayoutOK(o), o.open, NEW e \in BOOLEAN, NEW m, Shows(m, o, e)
  PROVE  /\ LayoutOK(Put(o, NL)) /\ Shows(m, Put(o, NL), e)
         /\ CursorOf(Put(o, NL)) = NextRow(CursorOf(o))
<1>1. PICK p : p = Put(o, NL) /\ p = [lines |-> o.lines, open |-> FALSE]
  BY DEF Put
<1>2. p.lines = o.lines /\ ~p.open
  BY <1>1
<1>3. LayoutOK(p)
  <2>1. p \in [lines : Seq(Seq(Characters)), open : BOOLEAN]
    BY <1>1 DEF LayoutOK
  <2> QED
    BY <1>2, <2>1 DEF LayoutOK
<1>4. Above(p) = Above(o) /\ Shown(p) = Shown(o) /\ \A r : LineAt(p, r) = LineAt(o, r)
  BY <1>2 DEF Above, Shown, LineAt
<1>5. Shows(m, p, e)
  BY <1>4 DEF Shows
<1>6. CursorOf(p) = NextRow(CursorOf(o))
  <2>1. PICK s \in Nat, x \in Col : /\ s = Shown(o) /\ s - 1 \in Row
                                    /\ CursorOf(o) = Place(s - 1, x)
    BY CursorIs, ShownIs DEF Row
  <2>2. CursorOf(o) \div Cols = s - 1
    BY <2>1, PlaceIs
  <2>3. NextRow(CursorOf(o)) = s * Cols
    BY <2>1, <2>2 DEF NextRow
  <2> QED
    BY <1>2, <1>3, <1>4, <2>1, <2>3, CursorIs
<1> QED
  BY <1>1, <1>3, <1>5, <1>6

\* Any other character is added to the line.
LEMMA CharShows ==
  ASSUME NEW o, LayoutOK(o), o.open, NEW e \in BOOLEAN, NEW m, Shows(m, o, e),
         NEW c \in Characters, c # NL
  PROVE  /\ LayoutOK(Put(o, c)) /\ Shows([m EXCEPT ![CursorOf(o)] = c], Put(o, c), e)
         /\ CursorOf(Put(o, c)) = CursorOf(o) + 1
<1>1. /\ o.lines \in Seq(Seq(Characters)) /\ Rows \in Nat \ {0} /\ Cols \in Nat \ {0}
      /\ \A n \in 1 .. Len(o.lines) : Len(o.lines[n]) <= Cols
  BY Screen DEF LayoutOK
<1>2. PICK n \in Nat : n = Len(o.lines) /\ n > 0
  BY DEF LayoutOK
<1>3. PICK last \in Seq(Characters) : last = o.lines[n]
  BY <1>1, <1>2
<1>4. PICK x \in Nat : x = Len(last) /\ x < Cols
  BY <1>2, <1>3 DEF LayoutOK
<1>5. PICK s \in Nat : s = Shown(o) /\ s - 1 \in Row /\ s > 0
  BY CursorIs, ShownIs
<1>6. LineAt(o, s - 1) = last /\ CursorOf(o) = Place(s - 1, x) /\ x \in Col
  BY <1>2, <1>3, <1>4, <1>5, CursorIs
<1>7. PICK line \in Seq(Characters) : line = Append(last, c)
  <2>1. Append(last, c) \in Seq(Characters)
    OBVIOUS
  <2> QED
    BY <2>1
<1>8. Len(line) = x + 1 /\ line[x + 1] = c /\ \A j \in 1 .. x : line[j] = last[j]
  BY <1>3, <1>4, <1>7
<1>9. PICK ls : ls = Append(SubSeq(o.lines, 1, n - 1), line)
  OBVIOUS
<1>10. /\ ls \in Seq(Seq(Characters)) /\ Len(ls) = n /\ ls[n] = line
       /\ \A j \in 1 .. (n - 1) : ls[j] = o.lines[j]
  <2>1. PICK l \in Seq(Seq(Characters)) : l = o.lines
    BY <1>1
  <2>2. PICK fr : fr = SubSeq(l, 1, n - 1)
    OBVIOUS
  <2>3. /\ fr \in Seq(Seq(Characters)) /\ Len(fr) = n - 1
        /\ \A j \in 1 .. (n - 1) : fr[j] = l[j]
    BY <1>2, <2>1, <2>2
  <2>4. /\ Append(fr, line) \in Seq(Seq(Characters)) /\ Len(Append(fr, line)) = n
        /\ Append(fr, line)[n] = line
        /\ \A j \in 1 .. (n - 1) : Append(fr, line)[j] = fr[j]
    BY <1>2, <2>3
  <2> QED
    BY <1>9, <2>1, <2>2, <2>3, <2>4
<1>11. PICK p : p = Put(o, c) /\ p = [lines |-> ls, open |-> x + 1 < Cols]
  BY <1>2, <1>3, <1>4, <1>7, <1>9 DEF Put
<1>12. p.lines = ls /\ p.open = (x + 1 < Cols)
  BY <1>11
<1>13. LayoutOK(p)
  <2>1. p \in [lines : Seq(Seq(Characters)), open : BOOLEAN]
    BY <1>11, <1>10
  <2>2. \A j \in 1 .. n : Len(ls[j]) <= Cols
    <3>1. Len(line) <= Cols
      BY <1>1, <1>4, <1>8
    <3>2. \A j \in 1 .. n : j = n \/ j \in 1 .. (n - 1)
      BY <1>2
    <3> QED
      BY <1>1, <1>2, <1>10, <3>1, <3>2
  <2>3. p.open => Len(ls) > 0 /\ Len(ls[Len(ls)]) < Cols
    BY <1>2, <1>8, <1>10, <1>12
  <2> QED
    BY <1>10, <1>12, <2>1, <2>2, <2>3 DEF LayoutOK
<1>14. Above(p) = Above(o) /\ Shown(p) = s
  <2>1. Len(p.lines) = Len(o.lines)
    BY <1>2, <1>10, <1>12
  <2> QED
    BY <1>5, <2>1 DEF Above, Shown
<1>15. LineAt(p, s - 1) = line
  <2>1. n = Above(o) + s /\ Above(o) \in Nat
    BY <1>2, <1>5, ShownIs
  <2>2. LineAt(p, s - 1) = ls[Above(o) + (s - 1) + 1]
    <3>1. s - 1 < s /\ p.lines[Above(p) + (s - 1) + 1] = ls[Above(o) + (s - 1) + 1]
      BY <1>5, <1>12, <1>14
    <3> QED
      BY <1>5, <1>13, <1>14, <3>1, LineIs
  <2>3. Above(o) + (s - 1) + 1 = n
    BY <2>1
  <2> QED
    BY <1>10, <2>2, <2>3
<1>16. ASSUME NEW r \in Row, r # s - 1 PROVE LineAt(p, r) = LineAt(o, r)
  <2>1. r \in Nat /\ n = Above(o) + s /\ Above(o) \in Nat
    BY <1>1, <1>2, <1>5, ShownIs DEF Row
  <2>2. CASE r < s
    <3>1. Above(o) + r + 1 \in 1 .. (n - 1)
      BY <1>5, <1>16, <2>1, <2>2
    <3>2. LineAt(p, r) = ls[Above(o) + r + 1]
      BY <1>12, <1>13, <1>14, <2>2, LineIs
    <3>3. LineAt(o, r) = o.lines[Above(o) + r + 1]
      BY <1>5, <2>2, LineIs
    <3> QED
      BY <1>10, <3>1, <3>2, <3>3
  <2>3. CASE r >= s
    <3>1. LineAt(p, r) = << >>
      BY <1>13, <1>14, <2>3, LineIs
    <3>2. LineAt(o, r) = << >>
      BY <1>5, <2>3, LineIs
    <3> QED
      BY <3>1, <3>2
  <2> QED
    BY <1>5, <2>1, <2>2, <2>3
<1>17. PICK w : w = [m EXCEPT ![CursorOf(o)] = c]
  OBVIOUS
<1>18. /\ w = [k \in Cell |-> w[k]] /\ w[CursorOf(o)] = c
       /\ \A k \in Cell : k # CursorOf(o) => w[k] = m[k]
  <2>1. m = [k \in Cell |-> m[k]] /\ CursorOf(o) \in Cell
    BY CursorIs DEF Shows
  <2>2. DOMAIN w = Cell /\ w = [k \in DOMAIN w |-> w[k]]
    BY <1>17, <2>1
  <2> QED
    BY <1>17, <2>1, <2>2
<1>19. ASSUME NEW r \in Row, NEW y \in Col, e \/ y < Len(LineAt(p, r))
       PROVE  w[Place(r, y)] = Glyph(LineAt(p, r), y)
  <2>1. y \in Nat
    BY <1>1 DEF Col
  <2>2. Place(r, y) \in Cell /\ y \in Nat
    BY <2>1, PlaceIs
  <2>3. CASE r = s - 1 /\ y = x
    <3>1. w[Place(r, y)] = c
      BY <1>6, <1>18, <2>3
    <3>2. Glyph(line, x) = line[x + 1]
      BY <1>8 DEF Glyph
    <3> QED
      BY <1>8, <1>15, <2>3, <3>1, <3>2
  <2>4. CASE ~ (r = s - 1 /\ y = x)
    <3>1. Place(r, y) # CursorOf(o)
      BY <1>5, <1>6, <2>4, PlacesDiffer
    <3>2. w[Place(r, y)] = m[Place(r, y)]
      BY <1>18, <2>2, <3>1
    <3>3. CASE r = s - 1
      <4>1. y < Len(line) <=> y < x
        BY <1>4, <1>8, <2>2, <2>4, <3>3
      <4>2. y < x => y + 1 \in 1 .. x
        BY <1>4, <2>2
      <4>3. Glyph(line, y) = Glyph(last, y)
        BY <1>4, <1>8, <4>1, <4>2 DEF Glyph
      <4>4. m[Place(r, y)] = Glyph(last, y)
        BY <1>4, <1>6, <1>15, <1>19, <3>3, <4>1 DEF Shows
      <4> QED
        BY <1>15, <3>2, <3>3, <4>3, <4>4
    <3>4. CASE r # s - 1
      BY <1>16, <1>19, <3>2, <3>4 DEF Shows
    <3> QED
      BY <3>3, <3>4
  <2> QED
    BY <2>3, <2>4
<1>20. Shows(w, p, e)
  BY <1>18, <1>19 DEF Shows
<1>21. CursorOf(p) = CursorOf(o) + 1
  <2>1. CASE x + 1 < Cols
    <3>1. CursorOf(p) = Place(s - 1, x + 1)
      BY <1>8, <1>12, <1>13, <1>14, <1>15, <2>1, CursorIs
    <3>2. PICK a \in Nat : a = (s - 1) * Cols
      BY <1>1, <1>5
    <3>3. CursorOf(p) = a + (x + 1) /\ CursorOf(o) = a + x
      BY <1>6, <3>1, <3>2 DEF Place
    <3> QED
      BY <3>3
  <2>2. CASE ~ (x + 1 < Cols)
    <3>1. x + 1 = Cols /\ ~p.open
      <4>1. x + 1 = Cols
        BY <1>1, <1>4, <2>2
      <4>2. ~p.open
        BY <1>12, <2>2, Zenon
      <4> QED
        BY <4>1, <4>2
    <3>2. CursorOf(p) = s * Cols /\ x + 1 = Cols
      BY <1>13, <1>14, <3>1, CursorIs
    <3>3. (s - 1) * Cols \in Nat /\ s * Cols = (s - 1) * Cols + Cols
      BY <1>1, <1>5
    <3>4. PICK a \in Nat : a = (s - 1) * Cols
      BY <3>3
    <3>5. CursorOf(p) = a + Cols /\ CursorOf(o) = a + x
      BY <1>6, <3>2, <3>3, <3>4 DEF Place
    <3> QED
      BY <1>1, <3>2, <3>5
  <2> QED
    BY <2>1, <2>2
<1> QED
  BY <1>11, <1>13, <1>17, <1>20, <1>21

\* One character, undisturbed: to the screen as to the layout.
LEMMA PutCharShows ==
  ASSUME NEW lay, LayoutOK(lay), NEW e \in BOOLEAN, NEW c \in Characters,
         NEW m, Shows(m, lay, e),
         NEW scr, scr = [mem |-> m, cursor |-> CursorOf(lay)]
  PROVE  /\ LayoutOK(Put(lay, c)) /\ Shows(PutChar(scr, c).mem, Put(lay, c), e)
         /\ PutChar(scr, c).cursor = CursorOf(Put(lay, c))
         /\ PutChar(scr, c) = [mem |-> PutChar(scr, c).mem, cursor |-> PutChar(scr, c).cursor]
<1>1. PICK o : o = Opened(lay) /\ LayoutOK(o) /\ o.open /\ Put(lay, c) = Put(o, c)
  BY OpenedIs
<1>2. PICK w : w = IF CursorOf(lay) = Size THEN Scrolled(m, Size) ELSE m
  OBVIOUS
<1>3. PICK s : s = [mem |-> w, cursor |-> CursorOf(o)]
  OBVIOUS
<1>4. s = IF scr.cursor = Size
          THEN [mem |-> Scrolled(scr.mem, Size), cursor |-> CursorUp(Size)] ELSE scr
  <2>1. scr.cursor = CursorOf(lay) /\ scr.mem = m
    OBVIOUS
  <2>2. CASE CursorOf(lay) = Size
    BY <1>1, <1>2, <1>3, <2>1, <2>2, FullIs
  <2>3. CASE CursorOf(lay) # Size
    BY <1>1, <1>2, <1>3, <2>1, <2>3, OpeningShows
  <2> QED
    BY <2>2, <2>3
<1>5. Shows(w, o, e)
  <2>1. CASE CursorOf(lay) = Size
    BY <1>1, <1>2, <2>1, ScrollShows
  <2>2. CASE CursorOf(lay) # Size
    BY <1>1, <1>2, <2>2, OpeningShows
  <2> QED
    BY <2>1, <2>2
<1>6. PutChar(scr, c) =
        IF c = NL THEN [s EXCEPT !.cursor = NextRow(@)]
        ELSE [mem |-> [s.mem EXCEPT ![s.cursor] = c], cursor |-> s.cursor + 1]
  BY <1>4, Zenon DEF PutChar
<1>7. CASE c = NL
  <2>1. PutChar(scr, c) = [mem |-> w, cursor |-> NextRow(CursorOf(o))]
    BY <1>3, <1>6, <1>7
  <2> QED
    BY <1>1, <1>5, <1>7, <2>1, NewlineShows
<1>8. CASE c # NL
  <2>1. PutChar(scr, c) = [mem |-> [w EXCEPT ![CursorOf(o)] = c], cursor |-> CursorOf(o) + 1]
    BY <1>3, <1>6, <1>8
  <2> QED
    BY <1>1, <1>5, <1>8, <2>1, CharShows
<1> QED
  BY <1>7, <1>8

-----------------------------------------------------------------------------
(* Strings *)

\* Induction up to a number, over the set of those that are good.
LEMMA UpTo ==
  ASSUME NEW n \in Nat, NEW G, 0 \in G, \A k \in 0 .. (n - 1) : k \in G => k + 1 \in G
  PROVE  \A k \in 0 .. n : k \in G
<1> DEFINE Bad == (0 .. n) \ G
<1> SUFFICES ASSUME Bad # {} PROVE FALSE
  OBVIOUS
<1>1. Bad \in SUBSET Nat
  OBVIOUS
<1>2. PICK k \in Bad : \A y \in Bad : k <= y
  BY <1>1, LeastNat
<1>3. k # 0 /\ k \in 0 .. n
  BY <1>2
<1>4. k - 1 \in 0 .. (n - 1) /\ k - 1 \notin Bad /\ (k - 1) + 1 = k
  BY <1>2, <1>3
<1>5. k - 1 \in G
  BY <1>4
<1>6. (k - 1) + 1 \in G
  BY <1>4, <1>5
<1> QED
  BY <1>2, <1>4, <1>6

\* A string, character by character.
LEMMA PrefixIs ==
  ASSUME NEW S, NEW s \in Seq(S)
  PROVE  /\ SubSeq(s, 1, 0) = << >> /\ SubSeq(s, 1, Len(s)) = s
         /\ \A n \in 0 .. Len(s) : SubSeq(s, 1, n) \in Seq(S) /\ Len(SubSeq(s, 1, n)) = n
         /\ \A n \in 0 .. (Len(s) - 1) :
              s[n + 1] \in S /\ SubSeq(s, 1, n + 1) = Append(SubSeq(s, 1, n), s[n + 1])
<1>1. Len(s) \in Nat
  OBVIOUS
<1>2. ASSUME NEW n \in 0 .. Len(s)
      PROVE  /\ SubSeq(s, 1, n) \in Seq(S) /\ Len(SubSeq(s, 1, n)) = n
             /\ \A j \in 1 .. n : SubSeq(s, 1, n)[j] = s[j]
  OBVIOUS
<1>3. SubSeq(s, 1, 0) = << >> /\ SubSeq(s, 1, Len(s)) = s
  OBVIOUS
<1>4. ASSUME NEW n \in 0 .. (Len(s) - 1)
      PROVE  s[n + 1] \in S /\ SubSeq(s, 1, n + 1) = Append(SubSeq(s, 1, n), s[n + 1])
  <2>1. n \in 0 .. Len(s) /\ n + 1 \in 0 .. Len(s) /\ n \in Nat /\ n + 1 \in 1 .. Len(s)
    BY <1>1
  <2>2. PICK a \in Seq(S), b \in Seq(S) : a = SubSeq(s, 1, n) /\ b = SubSeq(s, 1, n + 1)
    BY <1>2, <2>1
  <2>3. /\ Len(a) = n /\ Len(b) = n + 1 /\ s[n + 1] \in S
        /\ \A j \in 1 .. n : a[j] = s[j]
        /\ \A j \in 1 .. (n + 1) : b[j] = s[j]
    BY <1>2, <2>1, <2>2
  <2>4. b = Append(a, s[n + 1])
    BY <2>1, <2>3
  <2> QED
    BY <2>2, <2>3, <2>4
<1> QED
  BY <1>2, <1>3, <1>4

\* A view shows its layout.
LEMMA ViewShows ==
  ASSUME NEW lay, LayoutOK(lay)
  PROVE  Shows(View(lay), lay, TRUE)
<1>1. View(lay) = [k \in Cell |-> Glyph(LineAt(lay, k \div Cols), k % Cols)]
  BY DEF View, Glyph, Cell
<1>2. View(lay) = [k \in Cell |-> View(lay)[k]]
  BY <1>1
<1>3. ASSUME NEW r \in Row, NEW x \in Col
      PROVE  View(lay)[Place(r, x)] = Glyph(LineAt(lay, r), x)
  <2>1. Place(r, x) \in Cell /\ Place(r, x) \div Cols = r /\ Place(r, x) % Cols = x
    BY PlaceIs
  <2> QED
    BY <1>1, <2>1
<1> QED
  BY <1>2, <1>3 DEF Shows

\* Nothing is shown of the empty text.
LEMMA EmptyIs ==
  /\ LayoutOK(Empty) /\ CursorOf(Empty) = 0 /\ Inked(Empty) = {}
  /\ View(Empty) = [k \in Cell |-> Blank]
  /\ \A m : m = [k \in Cell |-> m[k]] => Shows(m, Empty, FALSE)
<1>1. /\ Empty.lines = << >> /\ ~Empty.open
      /\ Empty \in [lines : Seq(Seq(Characters)), open : BOOLEAN]
      /\ Len(<< >>) = 0
  BY DEF Empty
<1>2. LayoutOK(Empty)
  BY <1>1 DEF LayoutOK
<1>3. Shown(Empty) = 0
  <2>1. PICK n : n = Len(Empty.lines)
    OBVIOUS
  <2>2. n = 0 /\ ~ (n > Rows) /\ Above(Empty) = IF n > Rows THEN n - Rows ELSE 0
    BY <1>1, <2>1, Screen DEF Above
  <2> QED
    BY <2>1, <2>2 DEF Shown
<1>4. CursorOf(Empty) = 0
  BY <1>1, <1>2, <1>3, CursorIs, Screen
<1>5. ASSUME NEW r \in Row PROVE LineAt(Empty, r) = << >>
  <2>1. r >= Shown(Empty)
    BY <1>3, Screen DEF Row
  <2> QED
    BY <1>2, <2>1, LineIs
<1>6. \A x \in Col : ~ (x < Len(<< >>))
  BY <1>1, Screen DEF Col
<1>7. Inked(Empty) = {}
  BY <1>5, <1>6, CellIs DEF Inked, Cell
<1>8. View(Empty) = [k \in Cell |-> Blank]
  <2>1. View(Empty) = [k \in Cell |-> Glyph(LineAt(Empty, k \div Cols), k % Cols)]
    BY DEF View, Glyph, Cell
  <2>2. \A k \in Cell : Glyph(LineAt(Empty, k \div Cols), k % Cols) = Blank
    BY <1>5, <1>6, CellIs DEF Glyph
  <2> QED
    BY <2>1, <2>2
<1>9. ASSUME NEW m, m = [k \in Cell |-> m[k]] PROVE Shows(m, Empty, FALSE)
  BY <1>5, <1>6, <1>9 DEF Shows
<1> QED
  BY <1>2, <1>4, <1>7, <1>8, <1>9

\* Put keeps layouts well formed.
LEMMA PutOK ==
  ASSUME NEW lay, LayoutOK(lay), NEW c \in Characters
  PROVE  LayoutOK(Put(lay, c))
<1>1. Shows(View(lay), lay, TRUE)
  BY ViewShows
<1> QED
  BY <1>1, PutCharShows

\* The layout of every text is well formed.
LEMMA LayoutIs ==
  ASSUME NEW t \in Seq(Characters)
  PROVE  LayoutOK(Layout(t))
<1> DEFINE Good(n) == LayoutOK(Layout(SubSeq(t, 1, n)))
<1>1. Len(t) \in Nat
  OBVIOUS
<1>2. Good(0)
  <2>1. SubSeq(t, 1, 0) = << >>
    BY PrefixIs
  <2>2. Layout(<< >>) = Empty
    <3>1. << >> \in Seq({0}) /\ 0 \in {0}
      OBVIOUS
    <3> QED
      BY <3>1, LayoutAppend
  <2> QED
    BY <2>1, <2>2, EmptyIs
<1>3. ASSUME NEW n \in 0 .. (Len(t) - 1), Good(n) PROVE Good(n + 1)
  <2>1. PICK p \in Seq(Characters), c \in Characters :
          p = SubSeq(t, 1, n) /\ SubSeq(t, 1, n + 1) = Append(p, c)
    <3>1. n \in 0 .. Len(t)
      BY <1>1
    <3>2. SubSeq(t, 1, n) \in Seq(Characters)
      BY <3>1, PrefixIs
    <3>3. t[n + 1] \in Characters /\ SubSeq(t, 1, n + 1) = Append(SubSeq(t, 1, n), t[n + 1])
      BY PrefixIs
    <3> QED
      BY <3>2, <3>3
  <2>2. Layout(Append(p, c)) = Put(Layout(p), c)
    BY LayoutAppend
  <2> QED
    BY <1>3, <2>1, <2>2, PutOK
<1>4. ASSUME NEW n \in 0 .. Len(t) PROVE Good(n)
  <2> DEFINE G == {k \in 0 .. Len(t) : Good(k)}
  <2> HIDE DEF Good
  <2>1. 0 \in G
    BY <1>1, <1>2
  <2>2. \A k \in 0 .. (Len(t) - 1) : k \in G => k + 1 \in G
    BY <1>1, <1>3
  <2> HIDE DEF G
  <2>3. n \in G
    BY <1>1, <2>1, <2>2, UpTo
  <2> QED
    BY <2>3 DEF G
<1>5. Good(Len(t))
  <2> HIDE DEF Good
  <2> QED
    BY <1>1, <1>4
<1> QED
  BY <1>5, PrefixIs

\* Longer texts.
LEMMA Appended ==
  ASSUME NEW t \in Seq(Characters), NEW p \in Seq(Characters), NEW c \in Characters
  PROVE  /\ t \o p \in Seq(Characters) /\ t \o Append(p, c) = Append(t \o p, c)
         /\ Layout(t \o Append(p, c)) = Put(Layout(t \o p), c)
<1>1. t \o p \in Seq(Characters)
  OBVIOUS
<1>2. t \o Append(p, c) = Append(t \o p, c)
  OBVIOUS
<1>3. Layout(Append(t \o p, c)) = Put(Layout(t \o p), c)
  BY <1>1, LayoutAppend
<1> QED
  BY <1>1, <1>2, <1>3

Record(scr) == scr = [mem |-> scr.mem, cursor |-> scr.cursor]

\* A string, undisturbed: to the screen as to the layout.
LEMMA WrittenShows ==
  ASSUME NEW t \in Seq(Characters), NEW s \in Seq(Characters), NEW e \in BOOLEAN,
         NEW m, Shows(m, Layout(t), e)
  PROVE  LET w == Written([mem |-> m, cursor |-> CursorOf(Layout(t))], s) IN
         Shows(w.mem, Layout(t \o s), e) /\ w.cursor = CursorOf(Layout(t \o s))
<1> DEFINE scr == [mem |-> m, cursor |-> CursorOf(Layout(t))]
           pre(n) == SubSeq(s, 1, n)
           w(n) == Written(scr, pre(n))
           Good(n) == /\ Record(w(n)) /\ Shows(w(n).mem, Layout(t \o pre(n)), e)
                      /\ w(n).cursor = CursorOf(Layout(t \o pre(n)))
<1>1. Len(s) \in Nat
  OBVIOUS
<1>2. Good(0)
  <2>1. pre(0) = << >>
    BY PrefixIs
  <2>2. Written(scr, << >>) = scr
    <3>1. << >> \in Seq({0}) /\ 0 \in {0}
      OBVIOUS
    <3> QED
      BY <3>1, WrittenAppend
  <2>3. t \o << >> = t
    OBVIOUS
  <2>4. w(0) = scr /\ t \o pre(0) = t
    BY <2>1, <2>2, <2>3
  <2>5. scr.mem = m /\ scr.cursor = CursorOf(Layout(t))
    OBVIOUS
  <2> QED
    BY <2>4, <2>5 DEF Record
<1>3. ASSUME NEW n \in 0 .. (Len(s) - 1), Good(n) PROVE Good(n + 1)
  <2>1. n \in 0 .. Len(s)
    BY <1>1
  <2>2. PICK p \in Seq(Characters) : p = pre(n)
    BY <2>1, PrefixIs
  <2>3. PICK c \in Characters : pre(n + 1) = Append(p, c)
    BY <2>2, PrefixIs
  <2>4. PICK v : v = Written(scr, p)
    OBVIOUS
  <2>5. Written(scr, Append(p, c)) = PutChar(v, c)
    BY <2>4, WrittenAppend
  <2>6. t \o p \in Seq(Characters) /\ Layout(t \o Append(p, c)) = Put(Layout(t \o p), c)
    BY Appended
  <2>7. LayoutOK(Layout(t \o p))
    BY <2>6, LayoutIs
  <2>8. v = [mem |-> v.mem, cursor |-> v.cursor] /\ Shows(v.mem, Layout(t \o p), e)
        /\ v.cursor = CursorOf(Layout(t \o p))
    BY <1>3, <2>2, <2>4 DEF Record
  <2>9. /\ Shows(PutChar(v, c).mem, Put(Layout(t \o p), c), e)
        /\ PutChar(v, c).cursor = CursorOf(Put(Layout(t \o p), c)) /\ Record(PutChar(v, c))
    BY <2>7, <2>8, PutCharShows DEF Record
  <2> QED
    BY <2>3, <2>5, <2>6, <2>9
<1> DEFINE G == {k \in 0 .. Len(s) : Good(k)}
<1>4. Good(Len(s))
  <2> HIDE DEF Good
  <2>1. 0 \in G
    BY <1>1, <1>2
  <2>2. \A k \in 0 .. (Len(s) - 1) : k \in G => k + 1 \in G
    BY <1>1, <1>3
  <2> HIDE DEF G
  <2>3. \A k \in 0 .. Len(s) : k \in G
    BY <1>1, <2>1, <2>2, UpTo
  <2> QED
    BY <1>1, <2>3 DEF G
<1>5. pre(Len(s)) = s
  BY PrefixIs
<1> QED
  BY <1>4, <1>5

-----------------------------------------------------------------------------
(* The cursor *)

\* The video memory has the cells of the screen and no others.
Memory(m) == m = [k \in Cell |-> m[k]]

\* The next row begins behind the cursor and not behind the end.
LEMMA NextRowIs ==
  ASSUME NEW u \in Cell
  PROVE  NextRow(u) \in 0 .. Size /\ u < NextRow(u)
<1>1. /\ Rows \in Nat \ {0} /\ Cols \in Nat \ {0} /\ Size \in Nat
  BY Screen
<1>2. PICK q \in Row, x \in Col : u = Place(q, x) /\ NextRow(u) = (q + 1) * Cols
  BY CellIs DEF NextRow
<1>3. q \in Nat /\ q < Rows /\ x \in Nat /\ x < Cols
  BY <1>1 DEF Row, Col
<1>4. PICK a \in Nat, b \in Nat : a = q * Cols /\ b = (q + 1) * Cols /\ b = a + Cols
  BY <1>1, <1>3
<1>5. b <= Size
  BY <1>1, <1>3, <1>4, ProductGrows DEF Size
<1>6. u = a + x /\ NextRow(u) = b
  BY <1>2, <1>4 DEF Place
<1> QED
  BY <1>1, <1>3, <1>4, <1>5, <1>6

\* A character moves the cursor on, on the screen; what was before it stays,
\* unless the screen scrolls.
LEMMA PutCharOnScreen ==
  ASSUME NEW scr, Record(scr), Memory(scr.mem), scr.cursor \in 0 .. Size, NEW c
  PROVE  /\ Record(PutChar(scr, c)) /\ Memory(PutChar(scr, c).mem)
         /\ PutChar(scr, c).cursor \in 0 .. Size
         /\ scr.cursor # Size =>
              /\ scr.cursor <= PutChar(scr, c).cursor
              /\ \A k \in Cell : k < scr.cursor => PutChar(scr, c).mem[k] = scr.mem[k]
<1>1. /\ Rows \in Nat \ {0} /\ Cols \in Nat \ {0} /\ Size \in Nat
      /\ Size = (Rows - 1) * Cols + Cols /\ Cell = 0 .. (Size - 1)
  BY Screen
<1>2. PICK m : m = IF scr.cursor = Size THEN Scrolled(scr.mem, Size) ELSE scr.mem
  OBVIOUS
<1>3. PICK u : u = IF scr.cursor = Size THEN CursorUp(Size) ELSE scr.cursor
  OBVIOUS
<1>4. PICK s : s = [mem |-> m, cursor |-> u]
  OBVIOUS
<1>5. s = IF scr.cursor = Size
          THEN [mem |-> Scrolled(scr.mem, Size), cursor |-> CursorUp(Size)] ELSE scr
  BY <1>2, <1>3, <1>4 DEF Record
<1>6. Memory(m)
  BY <1>2 DEF Scrolled, Memory
<1>7. u \in Cell
  <2>1. CASE scr.cursor = Size
    <3>1. (Rows - 1) * Cols \in Nat
      BY <1>1
    <3>2. Size >= Cols
      BY <1>1, <3>1
    <3> QED
      BY <1>1, <1>3, <2>1, <3>2 DEF CursorUp
  <2>2. CASE scr.cursor # Size
    BY <1>1, <1>3, <2>2
  <2> QED
    BY <2>1, <2>2
<1>8. PutChar(scr, c) =
        IF c = NL THEN [s EXCEPT !.cursor = NextRow(@)]
        ELSE [mem |-> [s.mem EXCEPT ![s.cursor] = c], cursor |-> s.cursor + 1]
  BY <1>5, Zenon DEF PutChar
<1>9. CASE c = NL
  <2>1. PutChar(scr, c) = [mem |-> m, cursor |-> NextRow(u)]
    BY <1>4, <1>8, <1>9
  <2>2. NextRow(u) \in 0 .. Size /\ u < NextRow(u) /\ u \in Int /\ NextRow(u) \in Int
    BY <1>1, <1>7, NextRowIs
  <2> QED
    BY <1>2, <1>3, <1>6, <2>1, <2>2 DEF Record
<1>10. CASE c # NL
  <2>1. PICK w : w = [m EXCEPT ![u] = c]
    OBVIOUS
  <2>2. PutChar(scr, c) = [mem |-> w, cursor |-> u + 1]
    BY <1>4, <1>8, <1>10, <2>1
  <2>3. DOMAIN m = Cell /\ DOMAIN w = Cell /\ w = [k \in DOMAIN w |-> w[k]]
    BY <1>6, <2>1 DEF Memory
  <2>4. Memory(w) /\ \A k \in Cell : k # u => w[k] = m[k]
    BY <2>1, <2>3 DEF Memory
  <2>5. u + 1 \in 0 .. Size /\ u <= u + 1 /\ \A k \in Cell : k < u => k # u
    BY <1>1, <1>7
  <2> QED
    BY <1>2, <1>3, <2>2, <2>4, <2>5 DEF Record
<1> QED
  BY <1>9, <1>10

\* A string keeps the cursor on the screen; and, unless it scrolls it, what was
\* before the cursor.
LEMMA WrittenOnScreen ==
  ASSUME NEW scr, Record(scr), Memory(scr.mem), scr.cursor \in 0 .. Size, NEW S, NEW s \in Seq(S)
  PROVE  /\ Record(Written(scr, s)) /\ Memory(Written(scr, s).mem)
         /\ Written(scr, s).cursor \in 0 .. Size
         /\ (\A n \in 0 .. (Len(s) - 1) : Written(scr, SubSeq(s, 1, n)).cursor # Size) =>
              /\ scr.cursor <= Written(scr, s).cursor
              /\ \A k \in Cell : k < scr.cursor => Written(scr, s).mem[k] = scr.mem[k]
<1> DEFINE w(n) == Written(scr, SubSeq(s, 1, n))
           Calm(n) == \A k \in 0 .. (n - 1) : w(k).cursor # Size
           Good(n) == /\ Record(w(n)) /\ Memory(w(n).mem) /\ w(n).cursor \in 0 .. Size
                      /\ Calm(n) => /\ scr.cursor <= w(n).cursor
                                    /\ \A k \in Cell : k < scr.cursor => w(n).mem[k] = scr.mem[k]
           G == {k \in 0 .. Len(s) : Good(k)}
<1>1. Len(s) \in Nat /\ Size \in Nat /\ Cell \in SUBSET Nat
  BY Screen
<1>2. Good(0)
  <2>1. SubSeq(s, 1, 0) = << >>
    BY PrefixIs
  <2>2. Written(scr, << >>) = scr
    <3>1. << >> \in Seq({0}) /\ 0 \in {0}
      OBVIOUS
    <3> QED
      BY <3>1, WrittenAppend
  <2>3. w(0) = scr
    BY <2>1, <2>2
  <2> QED
    BY <1>1, <2>3
<1>3. ASSUME NEW n \in 0 .. (Len(s) - 1), Good(n) PROVE Good(n + 1)
  <2>1. n \in 0 .. Len(s) /\ n \in Nat
    BY <1>1
  <2>2. PICK p \in Seq(S) : p = SubSeq(s, 1, n)
    BY <2>1, PrefixIs
  <2>3. PICK c \in S : SubSeq(s, 1, n + 1) = Append(p, c)
    BY <2>2, PrefixIs
  <2>4. PICK v : v = w(n)
    OBVIOUS
  <2>5. PICK y : y = PutChar(v, c)
    OBVIOUS
  <2>6. w(n + 1) = y
    <3>1. Written(scr, Append(p, c)) = PutChar(Written(scr, p), c)
      BY WrittenAppend
    <3> QED
      BY <2>2, <2>3, <2>4, <2>5, <3>1
  <2>7. Record(v) /\ Memory(v.mem) /\ v.cursor \in 0 .. Size
    BY <1>3, <2>4
  <2>8. /\ Record(y) /\ Memory(y.mem) /\ y.cursor \in 0 .. Size
        /\ v.cursor # Size => /\ v.cursor <= y.cursor
                              /\ \A k \in Cell : k < v.cursor => y.mem[k] = v.mem[k]
    BY <2>5, <2>7, PutCharOnScreen
  <2>9. ASSUME Calm(n + 1)
        PROVE  /\ scr.cursor <= y.cursor
               /\ \A k \in Cell : k < scr.cursor => y.mem[k] = scr.mem[k]
    <3>1. Calm(n) /\ v.cursor # Size
      <4>1. n \in 0 .. ((n + 1) - 1) /\ \A k \in 0 .. (n - 1) : k \in 0 .. ((n + 1) - 1)
        BY <2>1
      <4> QED
        BY <2>4, <2>9, <4>1
    <3>2. scr.cursor <= v.cursor /\ \A k \in Cell : k < scr.cursor => v.mem[k] = scr.mem[k]
      BY <1>3, <2>4, <3>1
    <3>3. scr.cursor \in Nat /\ v.cursor \in Nat /\ y.cursor \in Nat
      BY <1>1, <2>7, <2>8
    <3> HIDE DEF Calm, w
    <3> QED
      BY <1>1, <2>8, <3>1, <3>2, <3>3
  <2> QED
    BY <2>6, <2>8, <2>9
<1>4. Good(Len(s))
  <2> HIDE DEF Good
  <2>1. 0 \in G
    BY <1>1, <1>2
  <2>2. \A k \in 0 .. (Len(s) - 1) : k \in G => k + 1 \in G
    BY <1>1, <1>3
  <2> HIDE DEF G
  <2>3. \A k \in 0 .. Len(s) : k \in G
    BY <1>1, <2>1, <2>2, UpTo
  <2> QED
    BY <1>1, <2>3 DEF G
<1>5. SubSeq(s, 1, Len(s)) = s
  BY PrefixIs
<1> QED
  BY <1>4, <1>5

-----------------------------------------------------------------------------
(* Numerals *)

\* The powers of a base, as the recursive function has them.
PowersTo(f, n, b) == f = [k \in 0 .. n |-> IF k = 0 THEN 1 ELSE b * f[k - 1]]

\* The recursive function of the powers exists up to any number.
LEMMA PowersExist ==
  ASSUME NEW b \in Nat, NEW n \in Nat
  PROVE  \E f : PowersTo(f, n, b)
<1> DEFINE G == {k \in 0 .. n : \E f : PowersTo(f, k, b)}
<1>1. 0 \in G
  <2> DEFINE f == [k \in 0 .. 0 |-> 1]
  <2>1. PowersTo(f, 0, b)
    BY DEF PowersTo
  <2> QED
    BY <2>1
<1>2. ASSUME NEW k \in 0 .. (n - 1), k \in G PROVE k + 1 \in G
  <2>1. PICK f : PowersTo(f, k, b)
    BY <1>2
  <2> DEFINE g == [j \in 0 .. (k + 1) |-> IF j = k + 1 THEN b * f[k] ELSE f[j]]
  <2>2. ASSUME NEW j \in 0 .. (k + 1) PROVE g[j] = IF j = 0 THEN 1 ELSE b * g[j - 1]
    <3>1. CASE j = k + 1
      <4>1. k \in 0 .. (k + 1) /\ k # k + 1 /\ k + 1 # 0 /\ (k + 1) - 1 = k
        BY <1>2
      <4> QED
        BY <3>1, <4>1
    <3>2. CASE j # k + 1
      <4>1. j \in 0 .. k /\ (j # 0 => j - 1 \in 0 .. (k + 1) /\ j - 1 # k + 1)
        BY <1>2, <3>2
      <4>2. f[j] = IF j = 0 THEN 1 ELSE b * f[j - 1]
        BY <2>1, <4>1 DEF PowersTo
      <4> QED
        BY <3>2, <4>1, <4>2
    <3> QED
      BY <3>1, <3>2
  <2>3. g = [j \in 0 .. (k + 1) |-> g[j]]
    OBVIOUS
  <2> HIDE DEF g
  <2>4. PowersTo(g, k + 1, b)
    BY <2>2, <2>3 DEF PowersTo
  <2>5. k + 1 \in 0 .. n
    BY <1>2
  <2> QED
    BY <2>4, <2>5
<1> HIDE DEF G
<1>3. \A k \in 0 .. n : k \in G
  BY <1>1, <1>2, UpTo
<1> QED
  BY <1>3 DEF G

\* A power does not depend on how far the function goes.
LEMMA PowersAgree ==
  ASSUME NEW b \in Nat, NEW n \in Nat, NEW m \in Nat, n <= m,
         NEW f, PowersTo(f, n, b), NEW g, PowersTo(g, m, b)
  PROVE  f[n] = g[n]
<1> DEFINE G == {k \in 0 .. n : f[k] = g[k]}
<1>1. 0 \in G
  BY DEF PowersTo
<1>2. ASSUME NEW k \in 0 .. (n - 1), k \in G PROVE k + 1 \in G
  <2>1. k + 1 \in 0 .. n /\ k + 1 \in 0 .. m /\ k + 1 # 0 /\ (k + 1) - 1 = k
    BY <1>2
  <2>2. f[k + 1] = b * f[k] /\ g[k + 1] = b * g[k]
    BY <2>1 DEF PowersTo
  <2> QED
    BY <1>2, <2>1, <2>2
<1> HIDE DEF G
<1>3. \A k \in 0 .. n : k \in G
  BY <1>1, <1>2, UpTo
<1> QED
  BY <1>3 DEF G

\* What Weight's recursive function is: powers, growing without bound.
LEMMA WeightIs ==
  ASSUME NEW b \in Nat, 2 <= b
  PROVE  LET w == Weight(b) IN
         /\ w[0] = 1
         /\ \A k \in Nat : w[k + 1] = b * w[k]
         /\ \A k \in Nat : w[k] \in Nat /\ w[k] > k
<1> DEFINE Eq(w) == w = [k \in Nat |-> IF k = 0 THEN 1 ELSE b * w[k - 1]]
           sol(n) == CHOOSE f : PowersTo(f, n, b)
           W == [k \in Nat |-> sol(k)[k]]
<1>1. ASSUME NEW n \in Nat PROVE PowersTo(sol(n), n, b)
  BY PowersExist
<1>2. ASSUME NEW k \in Nat PROVE W[k] = IF k = 0 THEN 1 ELSE b * W[k - 1]
  <2>1. sol(k)[k] = IF k = 0 THEN 1 ELSE b * sol(k)[k - 1]
    <3> HIDE DEF sol
    <3> QED
      BY <1>1 DEF PowersTo
  <2>2. ASSUME k # 0 PROVE sol(k - 1)[k - 1] = sol(k)[k - 1]
    <3> HIDE DEF sol
    <3>1. k - 1 \in Nat /\ k - 1 <= k
      BY <2>2
    <3>2. PowersTo(sol(k - 1), k - 1, b) /\ PowersTo(sol(k), k, b)
      BY <1>1, <3>1
    <3> QED
      BY <3>1, <3>2, PowersAgree
  <2>3. k # 0 => k - 1 \in Nat
    OBVIOUS
  <2> HIDE DEF sol
  <2> QED
    BY <2>1, <2>2, <2>3
<1>3. Eq(W)
  <2>1. W = [k \in Nat |-> W[k]]
    OBVIOUS
  <2> HIDE DEF W
  <2> QED
    BY <1>2, <2>1
<1> HIDE DEF W
<1>4. Eq(Weight(b))
  BY <1>3 DEF Weight
<1>5. PICK w : w = Weight(b)
  OBVIOUS
<1>6. w[0] = 1
  BY <1>4, <1>5
<1>7. ASSUME NEW k \in Nat PROVE w[k + 1] = b * w[k]
  <2>1. k + 1 \in Nat /\ k + 1 # 0 /\ (k + 1) - 1 = k
    OBVIOUS
  <2> QED
    BY <1>4, <1>5, <2>1
<1>8. ASSUME NEW n \in Nat PROVE w[n] \in Nat /\ w[n] > n
  <2> DEFINE G == {k \in 0 .. n : w[k] \in Nat /\ w[k] > k}
  <2>1. 0 \in G
    BY <1>6
  <2>2. ASSUME NEW k \in 0 .. (n - 1), k \in G PROVE k + 1 \in G
    <3>1. PICK x \in Nat : x = w[k] /\ x > k
      BY <2>2
    <3>2. PICK y \in Nat : y = b * x /\ 2 * x <= y
      <4>1. b * x \in Nat /\ 2 * x <= b * x
        BY ProductGrows
      <4> QED
        BY <4>1
    <3>3. w[k + 1] = y
      BY <1>7, <3>1, <3>2
    <3>4. y > k + 1 /\ k + 1 \in 0 .. n
      BY <3>1, <3>2
    <3> QED
      BY <3>3, <3>4
  <2> HIDE DEF G
  <2>3. \A k \in 0 .. n : k \in G
    BY <2>1, <2>2, UpTo
  <2> QED
    BY <2>3 DEF G
<1> QED
  BY <1>5, <1>6, <1>7, <1>8

\* How many digits a number has.
IsLength(k, num, b) ==
  LET w == Weight(b) IN w[k] > num /\ (k = 1 \/ w[k - 1] <= num)

LengthOf(num, b) == CHOOSE k \in 1 .. num + 1 : IsLength(k, num, b)

\* A higher digit weighs no less.
LEMMA WeightsGrow ==
  ASSUME NEW b \in Nat, 2 <= b, NEW j \in Nat, NEW k \in Nat, j <= k
  PROVE  Weight(b)[j] <= Weight(b)[k]
<1> DEFINE w == Weight(b)
           G == {i \in 0 .. (k - j) : w[j] <= w[j + i]}
<1>1. /\ \A n \in Nat : w[n + 1] = b * w[n]
      /\ \A n \in Nat : w[n] \in Nat
  BY WeightIs
<1> HIDE DEF w
<1>2. 0 \in G
  BY <1>1
<1>3. ASSUME NEW i \in 0 .. ((k - j) - 1), i \in G PROVE i + 1 \in G
  <2>1. PICK x \in Nat : x = w[j + i] /\ w[j] <= x /\ w[j] \in Nat
    BY <1>1, <1>3
  <2>2. w[(j + i) + 1] = b * x
    BY <1>1, <2>1
  <2>3. b * x \in Nat /\ 1 * x <= b * x
    BY ProductGrows
  <2>4. (j + i) + 1 = j + (i + 1) /\ i + 1 \in 0 .. (k - j)
    BY <1>3
  <2> QED
    BY <2>1, <2>2, <2>3, <2>4
<1> HIDE DEF G
<1>4. \A i \in 0 .. (k - j) : i \in G
  BY <1>2, <1>3, UpTo
<1>5. k - j \in 0 .. (k - j) /\ j + (k - j) = k
  OBVIOUS
<1> QED
  BY <1>4, <1>5 DEF G, w

\* There is one length, and it is the one CHOOSE finds.
LEMMA LengthIs ==
  ASSUME NEW b \in Nat, 2 <= b, NEW num \in Nat
  PROVE  /\ LengthOf(num, b) \in Nat \ {0} /\ IsLength(LengthOf(num, b), num, b)
         /\ \A k \in Nat \ {0} : IsLength(k, num, b) => k = LengthOf(num, b)
<1> DEFINE w == Weight(b)
           T == {k \in Nat \ {0} : w[k] > num}
<1>1. \A k \in Nat : w[k] \in Nat /\ w[k] > k
  BY WeightIs
<1>2. \A j, k \in Nat : j <= k => w[j] <= w[k]
  BY WeightsGrow
<1> HIDE DEF w
<1>3. T \in SUBSET Nat /\ num + 1 \in T
  BY <1>1
<1>4. PICK l \in T : \A y \in T : l <= y
  BY <1>3, LeastNat
<1>5. l \in 1 .. num + 1 /\ l \in Nat \ {0} /\ w[l] > num
  BY <1>3, <1>4
<1>6. l = 1 \/ w[l - 1] <= num
  <2> SUFFICES ASSUME l # 1 PROVE w[l - 1] <= num
    OBVIOUS
  <2>1. l - 1 \in Nat \ {0} /\ l - 1 \notin T
    BY <1>4, <1>5
  <2> QED
    BY <1>1, <2>1
<1>7. IsLength(l, num, b)
  BY <1>5, <1>6 DEF IsLength, w
<1>8. ASSUME NEW j \in Nat \ {0}, NEW k \in Nat \ {0}, IsLength(j, num, b), IsLength(k, num, b)
      PROVE  ~ (j < k)
  <2>1. w[j] > num /\ (k = 1 \/ w[k - 1] <= num)
    BY <1>8 DEF IsLength, w
  <2> SUFFICES ASSUME j < k PROVE FALSE
    OBVIOUS
  <2>2. k # 1 /\ k - 1 \in Nat /\ j <= k - 1
    OBVIOUS
  <2> QED
    BY <1>1, <1>2, <2>1, <2>2
<1>9. LengthOf(num, b) \in 1 .. num + 1 /\ IsLength(LengthOf(num, b), num, b)
  BY <1>5, <1>7 DEF LengthOf
<1>10. LengthOf(num, b) \in Nat \ {0}
  BY <1>9
<1>11. ASSUME NEW k \in Nat \ {0}, IsLength(k, num, b) PROVE k = LengthOf(num, b)
  <2>1. ~ (k < LengthOf(num, b)) /\ ~ (LengthOf(num, b) < k)
    BY <1>8, <1>9, <1>10, <1>11
  <2> QED
    BY <1>10, <2>1
<1> QED
  BY <1>9, <1>10, <1>11

\* Dividing twice.
LEMMA DivideTwice ==
  ASSUME NEW n \in Nat, NEW b \in Nat \ {0}, NEW x \in Nat \ {0}
  PROVE  b * x \in Nat \ {0} /\ n \div (b * x) = (n \div b) \div x
<1>1. PICK q \in Nat, d \in 0 .. (b - 1) : q = n \div b /\ n = q * b + d
  BY Divided
<1>2. PICK p \in Nat, r \in 0 .. (x - 1) : p = q \div x /\ q = p * x + r
  BY Divided
<1>3. PICK bx \in Nat : bx = b * x /\ bx # 0
  <2>1. 1 * x <= b * x /\ b * x \in Nat
    BY ProductGrows
  <2> QED
    BY <2>1
<1>4. PICK y \in Nat : y = r * b + d
  OBVIOUS
<1>5. y < bx
  <2>1. r * b + b <= x * b /\ r * b \in Nat /\ x * b = b * x
    BY ProductGrows
  <2>2. PICK rb \in Nat : rb = r * b
    BY <2>1
  <2>3. rb + b <= bx /\ y = rb + d
    BY <1>3, <1>4, <2>1, <2>2
  <2> QED
    BY <1>3, <2>3
<1>6. n = p * bx + y
  <2>1. q * b = (p * x + r) * b
    BY <1>2
  <2>2. (p * x + r) * b = p * (b * x) + r * b
    OBVIOUS
  <2>3. PICK u \in Nat, v \in Nat : u = p * (b * x) /\ v = r * b
    BY <1>3
  <2>4. n = (u + v) + d
    BY <1>1, <2>1, <2>2, <2>3
  <2>5. u = p * bx /\ y = v + d
    BY <1>3, <1>4, <2>3
  <2> QED
    BY <2>4, <2>5
<1>7. n \div bx = p
  BY <1>3, <1>5, <1>6, QuotientIs
<1> QED
  BY <1>1, <1>2, <1>3, <1>7

\* The digits of a number are those of its quotient and one more.
LEMMA NumeralIs ==
  ASSUME NEW num \in Nat, NEW b \in Nat, 2 <= b
  PROVE  Numeral(num, b) =
           [k \in 1 .. LengthOf(num, b) |->
              Digit[((num \div Weight(b)[LengthOf(num, b) - k]) % b) + 1]]
BY DEF Numeral, LengthOf, IsLength

\* A number below the base has a single digit.
LEMMA ShortNumeral ==
  ASSUME NEW num \in Nat, NEW b \in Nat, 2 <= b, num < b
  PROVE  Numeral(num, b) = << Digit[num + 1] >>
<1>1. Weight(b)[0] = 1 /\ Weight(b)[1] = b
  <2>1. Weight(b)[0] = 1 /\ Weight(b)[0 + 1] = b * Weight(b)[0]
    BY WeightIs
  <2> QED
    BY <2>1
<1>2. IsLength(1, num, b)
  BY <1>1 DEF IsLength
<1>3. LengthOf(num, b) = 1
  BY <1>2, LengthIs
<1>4. num \div 1 = num /\ num % b = num
  <2>1. num = num * 1 + 0 /\ num = 0 * b + num
    OBVIOUS
  <2>2. (num * 1 + 0) \div 1 = num
    BY QuotientIs
  <2>3. (0 * b + num) % b = num
    BY QuotientIs
  <2> QED
    BY <2>1, <2>2, <2>3
<1>5. \A k \in 1 .. 1 : 1 - k = 0
  OBVIOUS
<1>6. Numeral(num, b) = [k \in 1 .. 1 |-> Digit[num + 1]]
  <2>1. PICK l : l = LengthOf(num, b) /\ l = 1
    BY <1>3
  <2>2. Numeral(num, b) = [k \in 1 .. l |-> Digit[((num \div Weight(b)[l - k]) % b) + 1]]
    <3>1. Numeral(num, b) =
            [k \in 1 .. LengthOf(num, b) |->
               Digit[((num \div Weight(b)[LengthOf(num, b) - k]) % b) + 1]]
      BY NumeralIs
    <3> QED
      BY <2>1, <3>1, Zenon
  <2>3. ASSUME NEW k \in 1 .. 1 PROVE (num \div Weight(b)[1 - k]) % b = num
    BY <1>1, <1>4, <1>5
  <2> QED
    BY <2>1, <2>2, <2>3
<1> QED
  BY <1>6

\* Any other has those of its quotient and one more: a turn of putNumber's loop.
LEMMA LongNumeral ==
  ASSUME NEW num \in Nat, NEW b \in Nat, 2 <= b, b <= num
  PROVE  /\ num \div b \in Nat \ {0} /\ num \div b < num
         /\ Numeral(num, b) = Append(Numeral(num \div b, b), Digit[(num % b) + 1])
<1> DEFINE w == Weight(b)
<1>1. /\ w[0] = 1
      /\ \A n \in Nat : w[n + 1] = b * w[n]
      /\ \A n \in Nat : w[n] \in Nat /\ w[n] > n
  BY WeightIs
<1>2. PICK q \in Nat, d \in 0 .. (b - 1) : q = num \div b /\ d = num % b /\ num = q * b + d
  BY Divided
<1>3. PICK z \in Nat : z = q * b /\ num = z + d
  <2>1. q * b \in Nat
    OBVIOUS
  <2> QED
    BY <1>2, <2>1
<1>4. q # 0 /\ q < num
  <2>1. q # 0
    BY <1>3
  <2>2. q * 2 <= q * b /\ q * b = b * q /\ q * 2 = 2 * q
    <3>1. 2 * q <= b * q
      BY ProductGrows
    <3> QED
      BY <3>1
  <2> QED
    BY <1>3, <2>1, <2>2
<1>5. PICK l \in Nat \ {0} : l = LengthOf(q, b) /\ IsLength(l, q, b)
  BY LengthIs
<1>6. w[l] > q /\ (l = 1 \/ w[l - 1] <= q)
  BY <1>5 DEF IsLength
<1> HIDE DEF w
<1>7. w[l + 1] > num
  <2>1. PICK x \in Nat : x = w[l] /\ q < x
    BY <1>1, <1>6
  <2>2. q * b + b <= x * b /\ x * b = b * x
    BY <2>1, ProductGrows
  <2>3. PICK y \in Nat : y = x * b /\ w[l + 1] = y
    BY <1>1, <2>1, <2>2
  <2> QED
    BY <1>3, <2>2, <2>3
<1>8. w[l] <= num
  <2>1. CASE l = 1
    <3>1. w[0 + 1] = b * w[0]
      BY <1>1
    <3> QED
      BY <1>1, <2>1, <3>1
  <2>2. CASE l # 1
    <3>1. PICK x \in Nat : x = w[l - 1] /\ x <= q
      BY <1>1, <1>6, <2>2
    <3>2. w[(l - 1) + 1] = b * x
      BY <1>1, <2>2, <3>1
    <3>3. x * b <= q * b /\ x * b = b * x
      BY <3>1, ProductGrows
    <3> QED
      BY <1>3, <3>2, <3>3
  <2> QED
    BY <2>1, <2>2
<1>9. LengthOf(num, b) = l + 1
  <2>1. IsLength(l + 1, num, b)
    BY <1>7, <1>8 DEF IsLength, w
  <2> QED
    BY <2>1, LengthIs
<1> DEFINE A == Numeral(num, b)
           B == Numeral(q, b)
<1>10. /\ A = [k \in 1 .. (l + 1) |-> Digit[((num \div w[(l + 1) - k]) % b) + 1]]
       /\ B = [k \in 1 .. l |-> Digit[((q \div w[l - k]) % b) + 1]]
  BY <1>5, <1>9, NumeralIs DEF w
<1>11. ASSUME NEW k \in 1 .. l PROVE A[k] = B[k]
  <2>1. PICK x \in Nat \ {0} : x = w[l - k]
    BY <1>1
  <2>2. (l + 1) - k = (l - k) + 1 /\ w[(l - k) + 1] = b * x
    BY <1>1, <2>1
  <2>3. num \div (b * x) = q \div x
    BY <1>2, DivideTwice
  <2>4. k \in 1 .. (l + 1)
    OBVIOUS
  <2> HIDE DEF A, B
  <2> QED
    BY <1>10, <2>1, <2>2, <2>3, <2>4
<1>12. A[l + 1] = Digit[d + 1]
  <2>1. (l + 1) - (l + 1) = 0 /\ l + 1 \in 1 .. (l + 1)
    OBVIOUS
  <2>2. num \div 1 = num
    <3>1. (num * 1 + 0) \div 1 = num /\ num * 1 + 0 = num
      BY QuotientIs
    <3> QED
      BY <3>1
  <2> HIDE DEF A, B
  <2> QED
    BY <1>1, <1>2, <1>10, <2>1, <2>2
<1> HIDE DEF A, B
<1>13. A = Append(B, Digit[d + 1])
  <2> DEFINE D == {B[k] : k \in 1 .. l} \union {Digit[d + 1]}
  <2>1. B \in Seq(D) /\ Len(B) = l
    <3>1. B \in [1 .. l -> D]
      BY <1>10
    <3> QED
      BY <3>1
  <2>2. A = [k \in 1 .. (l + 1) |-> A[k]]
    BY <1>10
  <2> HIDE DEF D
  <2>3. /\ Append(B, Digit[d + 1]) = [k \in 1 .. (l + 1) |-> IF k <= l THEN B[k] ELSE Digit[d + 1]]
    BY <2>1
  <2>4. \A k \in 1 .. (l + 1) : A[k] = IF k <= l THEN B[k] ELSE Digit[d + 1]
    BY <1>11, <1>12
  <2> QED
    BY <2>2, <2>3, <2>4
<1> QED
  BY <1>2, <1>4, <1>13 DEF A, B

\* A numeral has digits, at least one, and they may be printed.
LEMMA NumeralOK ==
  ASSUME NEW num \in Nat, NEW b \in 2 .. 16
  PROVE  Numeral(num, b) \in Seq(Characters) /\ Numeral(num, b) # << >>
<1>1. PICK l \in Nat \ {0} : l = LengthOf(num, b)
  BY LengthIs
<1>2. Numeral(num, b) = [k \in 1 .. l |-> Digit[((num \div Weight(b)[l - k]) % b) + 1]]
  <2>1. Numeral(num, b) =
          [k \in 1 .. LengthOf(num, b) |->
             Digit[((num \div Weight(b)[LengthOf(num, b) - k]) % b) + 1]]
    BY NumeralIs
  <2> QED
    BY <1>1, <2>1, Zenon
<1>3. ASSUME NEW k \in 1 .. l
      PROVE  Digit[((num \div Weight(b)[l - k]) % b) + 1] \in Characters
  <2>1. l - k \in Nat /\ b \in Nat /\ 2 <= b
    OBVIOUS
  <2>2. PICK x \in Nat \ {0} : x = Weight(b)[l - k]
    <3>1. Weight(b)[l - k] \in Nat /\ Weight(b)[l - k] > l - k
      BY <2>1, WeightIs
    <3> QED
      BY <2>1, <3>1
  <2>3. PICK y \in Nat : y = num \div x
    BY Divided
  <2>4. y % b \in 0 .. (b - 1)
    BY <2>1, Divided
  <2>5. (y % b) + 1 \in 1 .. 16
    BY <2>4
  <2>6. DOMAIN Digit = 1 .. 16
    BY DEF Digit
  <2>7. Digit[(y % b) + 1] \in Characters
    BY <2>5, <2>6, TextAssumption
  <2> QED
    BY <2>2, <2>3, <2>7
<1>4. Numeral(num, b) \in [1 .. l -> Characters]
  BY <1>2, <1>3
<1>5. Numeral(num, b) \in Seq(Characters) /\ Len(Numeral(num, b)) = l
  BY <1>4
<1> QED
  BY <1>5

\* The loop of putNumber comes to the numeral.
LEMMA DigitsIs ==
  ASSUME NEW num \in Nat \ {0}, NEW b \in Nat, 2 <= b
  PROVE  Digits(num, b) = Numeral(num, b)
<1> DEFINE Eq(f) == f = [n \in Nat |-> IF n = 0 THEN << >>
                                       ELSE Append(f[n \div b], Digit[(n % b) + 1])]
           F == [n \in Nat |-> IF n = 0 THEN << >> ELSE Numeral(n, b)]
<1>1. ASSUME NEW n \in Nat, n # 0 PROVE n \div b \in Nat /\ n \div b < n
  <2>1. CASE b <= n
    BY <2>1, LongNumeral
  <2>2. CASE n < b
    <3>1. n = 0 * b + n /\ n \in 0 .. (b - 1)
      BY <2>2
    <3>2. (0 * b + n) \div b = 0
      BY <3>1, QuotientIs
    <3> QED
      BY <1>1, <3>1, <3>2
  <2> QED
    BY <2>1, <2>2
<1>2. ASSUME NEW n \in Nat, n # 0
      PROVE  F[n] = Append(F[n \div b], Digit[(n % b) + 1])
  <2>1. CASE b <= n
    <3>1. /\ n \div b \in Nat \ {0}
          /\ Numeral(n, b) = Append(Numeral(n \div b, b), Digit[(n % b) + 1])
      BY <2>1, LongNumeral
    <3> QED
      BY <1>2, <3>1
  <2>2. CASE n < b
    <3>1. n = 0 * b + n /\ n \in 0 .. (b - 1)
      BY <2>2
    <3>2. (0 * b + n) \div b = 0 /\ (0 * b + n) % b = n
      BY <3>1, QuotientIs
    <3>3. Numeral(n, b) = << Digit[n + 1] >>
      BY <2>2, ShortNumeral
    <3>4. F[0] = << >> /\ F[n] = << Digit[n + 1] >> /\ n \div b = 0 /\ n % b = n
      BY <1>2, <3>1, <3>2, <3>3
    <3> HIDE DEF F
    <3>5. Append(<< >>, Digit[n + 1]) = << Digit[n + 1] >>
      OBVIOUS
    <3> QED
      BY <3>4, <3>5
  <2>3. b <= n \/ n < b
    OBVIOUS
  <2> HIDE DEF F
  <2> QED
    BY <2>1, <2>2, <2>3
<1>3. Eq(F)
  <2>1. F = [n \in Nat |-> F[n]] /\ F[0] = << >>
    OBVIOUS
  <2> HIDE DEF F
  <2> QED
    BY <1>2, <2>1
<1>4. F[num] = Numeral(num, b)
  OBVIOUS
<1> HIDE DEF F
<1>5. PICK f : f = CHOOSE g : Eq(g)
  OBVIOUS
<1>6. Eq(f)
  BY <1>3, <1>5
<1>7. \A n \in Nat : f[n] = F[n]
  <2> DEFINE Bad == {n \in Nat : f[n] # F[n]}
  <2> SUFFICES ASSUME Bad # {} PROVE FALSE
    OBVIOUS
  <2>1. PICK n \in Bad : \A y \in Bad : n <= y
    <3>1. Bad \in SUBSET Nat
      OBVIOUS
    <3> QED
      BY <3>1, LeastNat
  <2>2. n \in Nat /\ n # 0
    BY <1>3, <1>6
  <2>3. n \div b \in Nat /\ n \div b \notin Bad
    BY <1>1, <2>1, <2>2
  <2>4. f[n \div b] = F[n \div b]
    BY <2>3
  <2> QED
    BY <1>3, <1>6, <2>1, <2>2, <2>4
<1>8. Digits(num, b) = f[num]
  BY <1>5 DEF Digits
<1> QED
  BY <1>4, <1>7, <1>8

\* putNumber, with its special case for 0, writes the numeral.
LEMMA NumberIs ==
  ASSUME NEW num \in Nat, NEW b \in Nat, 2 <= b
  PROVE  putNumber(num, b) = Numeral(num, b)
<1>1. CASE num = 0
  <2>1. Numeral(0, b) = << Digit[0 + 1] >>
    BY ShortNumeral
  <2>2. Digit[0 + 1] = "0"
    BY DEF Digit
  <2> QED
    BY <1>1, <2>1, <2>2 DEF putNumber
<1>2. CASE num # 0
  BY <1>2, DigitsIs DEF putNumber
<1> QED
  BY <1>1, <1>2

\* The signs of Formater: none is a "%", and all bases have their digits.
LEMMA BaseIs ==
  /\ "%" \notin Signs
  /\ \A c \in Signs : Base[c] \in 2 .. 16
BY DEF Signs, Base

-----------------------------------------------------------------------------
(* Messages *)

\* Taking what is left of a sequence one by one.
LEMMA RestIs ==
  ASSUME NEW S, NEW s \in Seq(S)
  PROVE  /\ SubSeq(s, 1, Len(s)) = s
         /\ \A a \in 0 .. (Len(s) - 1) :
              /\ Head(SubSeq(s, a + 1, Len(s))) = s[a + 1] /\ s[a + 1] \in S
              /\ Tail(SubSeq(s, a + 1, Len(s))) = SubSeq(s, (a + 1) + 1, Len(s))
<1>1. PICK l \in Nat : l = Len(s)
  OBVIOUS
<1>2. ASSUME NEW a \in 0 .. (l - 1)
      PROVE  /\ Head(SubSeq(s, a + 1, l)) = s[a + 1] /\ s[a + 1] \in S
             /\ Tail(SubSeq(s, a + 1, l)) = SubSeq(s, (a + 1) + 1, l)
  <2>1. s[a + 1] \in S
    BY <1>1
  <2>2. PICK u : u = SubSeq(s, a + 1, l)
    OBVIOUS
  <2>3. u \in Seq(S) /\ Len(u) = l - a /\ \A j \in 1 .. (l - a) : u[j] = s[a + j]
    BY <1>1, <2>2
  <2>4. Head(u) = s[a + 1]
    BY <1>1, <2>3
  <2>5. Tail(u) = SubSeq(s, (a + 1) + 1, l)
    <3>1. PICK v : v = SubSeq(s, (a + 1) + 1, l)
      OBVIOUS
    <3>2. v \in Seq(S) /\ Len(v) = (l - a) - 1
          /\ \A j \in 1 .. ((l - a) - 1) : v[j] = s[(a + 1) + j]
      BY <1>1, <3>1
    <3>3. PICK t : t = Tail(u)
      OBVIOUS
    <3>4. t \in Seq(S) /\ Len(t) = (l - a) - 1 /\ \A j \in 1 .. ((l - a) - 1) : t[j] = u[j + 1]
      BY <2>3, <3>3
    <3>5. ASSUME NEW j \in 1 .. ((l - a) - 1) PROVE t[j] = v[j]
      <4>1. j + 1 \in 1 .. (l - a) /\ a + (j + 1) = (a + 1) + j
        OBVIOUS
      <4>2. t[j] = u[j + 1] /\ u[j + 1] = s[a + (j + 1)] /\ v[j] = s[(a + 1) + j]
        BY <2>3, <3>2, <3>4, <4>1
      <4> QED
        BY <4>1, <4>2
    <3>6. PICK h \in Nat : h = (l - a) - 1
      OBVIOUS
    <3>7. t = [j \in 1 .. h |-> t[j]] /\ v = [j \in 1 .. h |-> v[j]]
      BY <3>2, <3>4, <3>6
    <3>8. t = v
      BY <3>5, <3>6, <3>7
    <3> QED
      BY <3>1, <3>3, <3>8
  <2> QED
    BY <2>1, <2>2, <2>4, <2>5
<1> QED
  BY <1>1, <1>2

\* Counting the numbers a format names, character by character.
LEMMA NamedIs ==
  ASSUME NEW str
  PROVE  /\ Named(str, 1) = 0
         /\ \A n \in Nat \ {0} :
              /\ Named(str, n) \in Nat
              /\ Named(str, n + 1) = Named(str, n) + (IF IsSign(str, n + 1) THEN 1 ELSE 0)
         /\ \A n, m \in Nat \ {0} : n <= m => Named(str, n) <= Named(str, m)
<1> DEFINE N(n) == {k \in 2 .. n : IsSign(str, k)}
<1>1. ASSUME NEW n \in Nat
      PROVE  IsFiniteSet(N(n)) /\ Cardinality(N(n)) \in Nat /\ Named(str, n) = Cardinality(N(n))
  <2>1. IsFiniteSet(2 .. n)
    BY FS_Interval
  <2>2. IsFiniteSet(N(n))
    BY <2>1, FS_Subset
  <2> QED
    BY <2>2, FS_CardinalityType DEF Named
<1>2. Named(str, 1) = 0
  <2>1. N(1) = {}
    OBVIOUS
  <2>2. Named(str, 1) = Cardinality(N(1))
    BY <1>1
  <2> QED
    BY <2>1, <2>2, FS_EmptySet
<1>3. ASSUME NEW n \in Nat \ {0}
      PROVE  Named(str, n + 1) = Named(str, n) + (IF IsSign(str, n + 1) THEN 1 ELSE 0)
  <2>1. n + 1 \in Nat /\ n + 1 \notin N(n)
    OBVIOUS
  <2>2. CASE IsSign(str, n + 1)
    <3>1. N(n + 1) = N(n) \union {n + 1}
      BY <2>2
    <3> HIDE DEF N
    <3>2. Cardinality(N(n) \union {n + 1}) = Cardinality(N(n)) + 1
      BY <1>1, <2>1, FS_AddElement
    <3> QED
      BY <1>1, <2>1, <2>2, <3>1, <3>2
  <2>3. CASE ~IsSign(str, n + 1)
    <3>1. N(n + 1) = N(n)
      BY <2>3
    <3> HIDE DEF N
    <3> QED
      BY <1>1, <2>1, <2>3, <3>1
  <2> QED
    BY <2>2, <2>3
<1>4. ASSUME NEW n \in Nat \ {0}, NEW k \in Nat \ {0}, n <= k
      PROVE  Named(str, n) <= Named(str, k)
  <2>1. N(n) \subseteq N(k)
    BY <1>4
  <2> HIDE DEF N
  <2>2. IsFiniteSet(N(k))
    BY <1>1
  <2>3. Cardinality(N(n)) <= Cardinality(N(k))
    BY <2>1, <2>2, FS_Subset
  <2> QED
    BY <1>1, <2>3
<1> QED
  BY <1>1, <1>2, <1>3, <1>4

\* A message as the kernel has it.
Message(msg) ==
  msg \in [str : Seq(Characters), args : Seq(Nat)] /\ WellFormed(msg)

\* What the n-th character of a format adds to the message: the summands of Said.
Piece(msg, n) ==
  CASE IsSign(msg.str, n) -> Numeral(Argument(msg, n), Base[msg.str[n]])
    [] msg.str[n] = "%" -> << >>
    [] OTHER -> << msg.str[n] >>

\* Each character of a format gives its piece of the message.
LEMMA PieceIs ==
  ASSUME NEW msg, Message(msg), NEW n \in 1 .. Len(msg.str)
  PROVE  /\ Piece(msg, n) \in Seq(Characters)
         /\ IsSign(msg.str, n) => /\ msg.str[n] \in Signs /\ msg.str[n] # "%"
                                  /\ Named(msg.str, n) \in 1 .. Len(msg.args)
                                  /\ Argument(msg, n) \in Nat /\ Base[msg.str[n]] \in 2 .. 16
                                  /\ Piece(msg, n) = Numeral(Argument(msg, n), Base[msg.str[n]])
         /\ ~IsSign(msg.str, n) => Piece(msg, n) = IF msg.str[n] = "%" THEN << >> ELSE << msg.str[n] >>
<1>1. PICK s \in Seq(Characters), a \in Seq(Nat) : s = msg.str /\ a = msg.args
  BY DEF Message
<1>2. /\ Len(s) \in Nat /\ Len(s) > 1 /\ Named(s, Len(s)) <= Len(a)
      /\ IsSign(s, n) => s[n] \in Signs
  BY <1>1 DEF Message, WellFormed
<1>3. n \in 1 .. Len(s) /\ s[n] \in Characters
  BY <1>1
<1>4. CASE IsSign(s, n)
  <2>1. s[n] \in Signs /\ s[n] # "%" /\ Base[s[n]] \in 2 .. 16
    BY <1>2, <1>4, BaseIs
  <2>2. PICK m \in Nat \ {0} : n = m + 1
    <3>1. n > 1
      BY <1>4 DEF IsSign
    <3> QED
      BY <1>3, <3>1
  <2>3. Named(s, n) = Named(s, m) + 1 /\ Named(s, m) \in Nat
    BY <1>4, <2>2, NamedIs
  <2>4. PICK l \in Nat \ {0}, b \in Nat : l = Len(s) /\ b = Len(a) /\ n \in Nat \ {0} /\ n <= l
    BY <1>1, <1>2, <1>3
  <2>5. Named(s, n) <= Named(s, l) /\ Named(s, l) \in Nat
    <3>1. \A i, j \in Nat \ {0} : i <= j => Named(s, i) <= Named(s, j)
      BY NamedIs
    <3>2. \A i \in Nat \ {0} : Named(s, i) \in Nat
      BY NamedIs
    <3> QED
      BY <2>4, <3>1, <3>2
  <2>6. Named(s, n) \in 1 .. Len(a)
    <3>1. Named(s, l) <= b
      BY <1>2, <2>4
    <3>2. PICK x \in Nat, y \in Nat, z \in Nat : x = Named(s, n) /\ y = Named(s, m)
                                                 /\ z = Named(s, l)
      BY <2>3, <2>5
    <3> QED
      BY <2>3, <2>4, <2>5, <3>1, <3>2
  <2>7. Argument(msg, n) \in Nat
    BY <1>1, <2>6 DEF Argument
  <2>8. Piece(msg, n) = Numeral(Argument(msg, n), Base[s[n]])
    <3>1. msg.str[n] # "%" /\ IsSign(msg.str, n)
      BY <1>1, <1>4, <2>1
    <3> QED
      BY <1>1, <3>1 DEF Piece
  <2>9. Numeral(Argument(msg, n), Base[s[n]]) \in Seq(Characters)
    BY <2>1, <2>7, NumeralOK
  <2> QED
    BY <1>1, <1>4, <2>1, <2>6, <2>7, <2>8, <2>9
<1>5. CASE ~IsSign(s, n)
  <2>1. Piece(msg, n) = IF s[n] = "%" THEN << >> ELSE << s[n] >>
    BY <1>1, <1>5 DEF Piece
  <2>2. << >> \in Seq(Characters) /\ << s[n] >> \in Seq(Characters)
    BY <1>3
  <2> QED
    BY <1>1, <1>5, <2>1, <2>2
<1> QED
  BY <1>4, <1>5

\* The state of Format's loop before the character at n + 2.
Begun(msg, st, n) ==
  /\ st = [res |-> st.res, args |-> st.args]
  /\ st.res \in Seq(Characters)
  /\ st.args = SubSeq(msg.args, Named(msg.str, n + 1) + 1, Len(msg.args))

\* One turn adds the piece of its character; the first adds that of the first.
LEMMA FormatTurn ==
  ASSUME NEW msg, Message(msg), NEW n \in 0 .. (Len(msg.str) - 2), NEW st, Begun(msg, st, n),
         n = 0 => st.res = << >>
  PROVE  LET next == FormatChar(st, msg.str, n + 2) IN
         /\ Begun(msg, next, n + 1)
         /\ next.res = (IF n = 0 THEN Piece(msg, 1) ELSE st.res) \o Piece(msg, n + 2)
<1>1. PICK s \in Seq(Characters), a \in Seq(Nat), l \in Nat :
        s = msg.str /\ a = msg.args /\ l = Len(s) /\ l > 1
  BY DEF Message, WellFormed
<1> DEFINE k == n + 2
           x == FormatChar(st, msg.str, k)
<1>2. n \in Nat /\ k \in 1 .. Len(msg.str) /\ k \in Nat /\ 1 \in 1 .. Len(msg.str)
      /\ k - 1 = n + 1
      /\ n + 1 \in Nat \ {0} /\ (n + 1) + 1 = k /\ (k = 2 <=> n = 0) /\ k > 1
  BY <1>1
<1>3. /\ Named(s, n + 1) \in Nat
      /\ Named(s, k) = Named(s, n + 1) + (IF IsSign(s, k) THEN 1 ELSE 0)
  BY <1>2, NamedIs
<1>4. IsSign(s, k) <=> s[k - 1] = "%"
  BY <1>2 DEF IsSign
<1>5. Piece(msg, k) \in Seq(Characters) /\ Piece(msg, 1) \in Seq(Characters)
  BY <1>2, PieceIs
<1>6. Piece(msg, 1) = IF s[1] = "%" THEN << >> ELSE << s[1] >>
  <2>1. ~IsSign(msg.str, 1)
    BY DEF IsSign
  <2> QED
    BY <1>1, <1>2, <2>1, PieceIs
<1>7. \A u \in Seq(Characters) : u \o << >> = u /\ << >> \o u = u
  OBVIOUS
<1>8. st.res \in Seq(Characters) /\ st.args = SubSeq(a, Named(s, n + 1) + 1, Len(a))
  BY <1>1 DEF Begun
<1>9. CASE IsSign(s, k)
  <2>1. /\ s[k] \in Signs /\ s[k] # "%" /\ Named(s, k) \in 1 .. Len(a)
        /\ Argument(msg, k) \in Nat /\ Base[s[k]] \in 2 .. 16
        /\ Piece(msg, k) = Numeral(Argument(msg, k), Base[s[k]])
    BY <1>1, <1>2, <1>9, PieceIs
  <2>2. PICK i \in Nat, z \in Nat : i = Named(s, n + 1) /\ z = Len(a) /\ Named(s, k) = i + 1
                                    /\ i \in 0 .. (z - 1)
    BY <1>1, <1>3, <1>9, <2>1
  <2>3. /\ Head(st.args) = a[i + 1]
        /\ Tail(st.args) = SubSeq(a, (i + 1) + 1, Len(a))
    BY <1>8, <2>2, RestIs
  <2>4. Argument(msg, k) = a[i + 1]
    BY <1>1, <2>2 DEF Argument
  <2>5. putNumber(Head(st.args), Base[s[k]]) = Piece(msg, k)
    <3>1. PICK u \in Nat, b \in Nat : u = Argument(msg, k) /\ b = Base[s[k]] /\ 2 <= b
      <4>1. \A j \in 2 .. 16 : j \in Nat /\ 2 <= j
        OBVIOUS
      <4> HIDE DEF k
      <4> QED
        BY <2>1, <4>1, Zenon
    <3>2. putNumber(u, b) = Numeral(u, b)
      BY <3>1, NumberIs
    <3> QED
      BY <2>1, <2>3, <2>4, <3>1, <3>2
  <2>6. x = [res |-> st.res \o Piece(msg, k), args |-> Tail(st.args)]
    BY <1>1, <1>4, <1>9, <2>1, <2>5 DEF FormatChar
  <2>7. n = 0 => st.res = Piece(msg, 1)
    <3> SUFFICES ASSUME n = 0 PROVE st.res = Piece(msg, 1)
      OBVIOUS
    <3>1. s[1] = "%" /\ st.res = << >>
      BY <1>2, <1>4, <1>9
    <3> QED
      BY <1>6, <3>1
  <2>8. PICK p, q : p = st.res \o Piece(msg, k) /\ q = Tail(st.args)
    OBVIOUS
  <2>9. x.res = p /\ x.args = q /\ x = [res |-> x.res, args |-> x.args]
    <3> HIDE DEF x, k
    <3>1. x = [res |-> p, args |-> q]
      BY <2>6, <2>8
    <3> QED
      BY <3>1
  <2> HIDE DEF x
  <2>10. x.res = (IF n = 0 THEN Piece(msg, 1) ELSE st.res) \o Piece(msg, k)
    BY <2>7, <2>8, <2>9
  <2>11. Begun(msg, x, n + 1)
    <3>1. x.res \in Seq(Characters)
      BY <1>5, <1>8, <2>8, <2>9
    <3>2. x.args = SubSeq(a, Named(s, k) + 1, Len(a))
      BY <2>2, <2>3, <2>8, <2>9
    <3> QED
      BY <1>1, <1>2, <2>9, <3>1, <3>2 DEF Begun
  <2> HIDE DEF x, k
  <2> QED
    BY <2>10, <2>11 DEF x, k
<1>10. CASE ~IsSign(s, k)
  <2>1. s[k - 1] # "%"
    BY <1>4, <1>10
  <2>2. Piece(msg, k) = IF s[k] = "%" THEN << >> ELSE << s[k] >>
    BY <1>1, <1>2, <1>10, PieceIs
  <2>3. x = [st EXCEPT !.res = @ \o (IF k = 2 THEN << s[1] >> ELSE << >>)
                                 \o (IF s[k] # "%" THEN << s[k] >> ELSE << >>)]
    BY <1>1, <2>1 DEF FormatChar
  <2>4. (IF s[k] # "%" THEN << s[k] >> ELSE << >>) = Piece(msg, k)
    BY <2>2
  <2>5. st.res \o (IF k = 2 THEN << s[1] >> ELSE << >>) = IF n = 0 THEN Piece(msg, 1) ELSE st.res
    <3>1. CASE n = 0
      <4>1. s[1] # "%" /\ k = 2 /\ st.res = << >>
        BY <1>2, <2>1, <3>1
      <4>2. Piece(msg, 1) = << s[1] >>
        BY <1>6, <4>1
      <4> QED
        BY <1>5, <1>7, <3>1, <4>1, <4>2
    <3>2. CASE n # 0
      <4>1. k # 2
        BY <1>2, <3>2
      <4> QED
        BY <1>7, <1>8, <3>2, <4>1
    <3> QED
      BY <3>1, <3>2
  <2>6. st = [res |-> st.res, args |-> st.args]
    BY DEF Begun
  <2>7. PICK p, q : /\ p = st.res \o (IF k = 2 THEN << s[1] >> ELSE << >>)
                    /\ q = (IF s[k] # "%" THEN << s[k] >> ELSE << >>)
    OBVIOUS
  <2>8. x = [st EXCEPT !.res = p \o q]
    BY <2>3, <2>7
  <2>9. x.res = p \o q /\ x.args = st.args /\ x = [res |-> x.res, args |-> x.args]
    <3> HIDE DEF x, k
    <3>1. x = [res |-> p \o q, args |-> st.args]
      BY <2>6, <2>8
    <3> QED
      BY <3>1
  <2> HIDE DEF x
  <2>10. x.res = (IF n = 0 THEN Piece(msg, 1) ELSE st.res) \o Piece(msg, k)
    BY <2>4, <2>5, <2>7, <2>9
  <2>11. x.res \in Seq(Characters)
    <3>1. PICK u \in Seq(Characters) : u = IF n = 0 THEN Piece(msg, 1) ELSE st.res
      BY <1>5, <1>8
    <3> QED
      BY <1>5, <2>10, <3>1
  <2>12. Begun(msg, x, n + 1)
    <3>1. Named(s, k) = Named(s, n + 1)
      BY <1>3, <1>10
    <3>2. x.args = SubSeq(a, Named(s, k) + 1, Len(a))
      BY <1>8, <2>9, <3>1
    <3> QED
      BY <1>1, <1>2, <2>9, <2>11, <3>2 DEF Begun
  <2> HIDE DEF k
  <2> QED
    BY <2>10, <2>12 DEF x, k
<1> QED
  BY <1>9, <1>10

\* Formater::Format says what the message says, to the last character of it.
THEOREM FormatIs ==
  ASSUME NEW msg, Message(msg)
  PROVE  /\ kprintf(msg) = Said(msg)
         /\ Said(msg) \in Seq(Characters) /\ Said(msg) # << >>
<1>1. PICK s \in Seq(Characters), a \in Seq(Nat), l \in Nat :
        s = msg.str /\ a = msg.args /\ l = Len(s) /\ l > 1
  BY DEF Message, WellFormed
<1> DEFINE q == [k \in 1 .. l - 1 |-> k + 1]
           st0 == [res |-> << >>, args |-> a]
           run == CHOOSE f : Loop("format", s, f, l - 1, st0, q)
           st(k) == run[1 .. k]
<1>2. Len(q) = l - 1 /\ DOMAIN q = 1 .. (l - 1) /\ l - 1 \in Nat
  BY <1>1
<1>3. kprintf(msg) = st(l - 1).res
  <2>1. Format(msg) = FoldLeft(LAMBDA x, n : FormatChar(x, s, n), st0, q).res
    BY <1>1 DEF Format
  <2>2. FoldLeft(LAMBDA x, n : FormatChar(x, s, n), st0, q) = run[1 .. l - 1]
    BY <1>2 DEF FoldLeft, MapThenFoldSet, Loop, Turn
  <2> QED
    BY <2>1, <2>2 DEF kprintf
<1>4. Loop("format", s, run, l - 1, st0, q)
  BY <1>2, LoopExists
<1>5. /\ st(0) = st0
      /\ \A k \in 0 .. (l - 2) : st(k + 1) = FormatChar(st(k), s, k + 2)
  <2> HIDE DEF run, st0
  <2>1. /\ run[1 .. 0] = st0
        /\ \A k \in 0 .. ((l - 1) - 1) : run[1 .. (k + 1)] = Turn("format", s, run[1 .. k], q[k + 1])
    <3>1. PICK h, r : h \in Nat /\ h = l - 1 /\ r = q
      BY <1>2
    <3> HIDE DEF q
    <3>2. Loop("format", s, run, h, st0, r)
      BY <1>4, <3>1
    <3>3. /\ run[1 .. 0] = st0
          /\ \A k \in 0 .. (h - 1) : run[1 .. (k + 1)] = Turn("format", s, run[1 .. k], r[k + 1])
      BY <3>1, <3>2, LoopTurn
    <3> QED
      BY <3>1, <3>3
  <2>2. \A k \in 0 .. (l - 2) : k \in 0 .. ((l - 1) - 1) /\ q[k + 1] = k + 2
    BY <1>1
  <2>3. \A x : \A k : Turn("format", s, x, k) = FormatChar(x, s, k)
    BY DEF Turn
  <2> HIDE DEF q
  <2> QED
    BY <2>1, <2>2, <2>3
<1> HIDE DEF st, q
<1>6. ASSUME NEW k \in 0 .. (l - 2), Begun(msg, st(k), k)
      PROVE  /\ Begun(msg, st(k + 1), k + 1)
             /\ st(k + 1).res = (IF k = 0 THEN Piece(msg, 1) ELSE st(k).res) \o Piece(msg, k + 2)
  <2>1. k = 0 => st(k).res = << >>
    BY <1>5
  <2>2. k \in 0 .. (Len(msg.str) - 2)
    BY <1>1
  <2> QED
    BY <1>1, <1>5, <1>6, <2>1, <2>2, FormatTurn
<1>7. \A k \in 0 .. (l - 1) : Begun(msg, st(k), k)
  <2> DEFINE G == {k \in 0 .. (l - 1) : Begun(msg, st(k), k)}
  <2>1. 0 \in G
    <3>1. Named(s, 0 + 1) = 0 /\ SubSeq(a, 0 + 1, Len(a)) = a
      BY NamedIs, RestIs
    <3>2. st(0).args = a /\ st(0).res = << >> /\ << >> \in Seq(Characters)
      BY <1>5
    <3>3. st(0) = [res |-> st(0).res, args |-> st(0).args]
      BY <1>5
    <3>4. Begun(msg, st(0), 0)
      BY <1>1, <3>1, <3>2, <3>3 DEF Begun
    <3> QED
      BY <1>1, <3>4
  <2>2. ASSUME NEW k \in 0 .. ((l - 1) - 1), k \in G PROVE k + 1 \in G
    <3>1. k \in 0 .. (l - 2) /\ k + 1 \in 0 .. (l - 1)
      BY <1>1, <2>2
    <3> QED
      BY <1>6, <2>2, <3>1
  <2> HIDE DEF G
  <2>3. \A k \in 0 .. (l - 1) : k \in G
    BY <1>2, <2>1, <2>2, UpTo
  <2> QED
    BY <2>3 DEF G
<1>8. ASSUME NEW k \in 0 .. (l - 2)
      PROVE  st(k + 1).res = (IF k = 0 THEN Piece(msg, 1) ELSE st(k).res) \o Piece(msg, k + 2)
  <2>1. k \in 0 .. (l - 1)
    OBVIOUS
  <2> QED
    BY <1>6, <1>7, <2>1
<1> DEFINE p == [n \in 1 .. l |-> Piece(msg, n)]
           Eq(f) == f = [i \in 1 .. Len(p) |-> IF i = 1 THEN p[i] ELSE f[i - 1] \o p[i]]
           F == [n \in 1 .. l |-> IF n = 1 THEN Piece(msg, 1) ELSE st(n - 1).res]
<1>9. Len(p) = l
  OBVIOUS
<1>10. Eq(F)
  <2>1. ASSUME NEW n \in 1 .. l PROVE F[n] = IF n = 1 THEN p[n] ELSE F[n - 1] \o p[n]
    <3>1. CASE n = 1
      BY <3>1
    <3>2. CASE n # 1
      <4>1. PICK k \in 0 .. (l - 2) : n = k + 2
        <5>1. n - 2 \in 0 .. (l - 2) /\ n = (n - 2) + 2
          BY <3>2
        <5> QED
          BY <5>1
      <4>2. F[n] = st(k + 1).res /\ p[n] = Piece(msg, k + 2)
        BY <3>2, <4>1
      <4>3. F[n - 1] = IF k = 0 THEN Piece(msg, 1) ELSE st(k).res
        BY <4>1
      <4> HIDE DEF F, p
      <4> QED
        BY <1>8, <3>2, <4>2, <4>3
    <3> QED
      BY <3>1, <3>2
  <2>2. F = [n \in 1 .. l |-> F[n]]
    OBVIOUS
  <2> HIDE DEF F, p
  <2> QED
    BY <1>9, <2>1, <2>2
<1>11. F[l] = st(l - 1).res
  <2>1. l > 1
    BY <1>1, Zenon
  <2>2. l \in 1 .. l /\ l # 1
    BY <2>1
  <2> QED
    BY <2>2
<1> HIDE DEF F
<1>12. PICK f : f = CHOOSE g : Eq(g)
  OBVIOUS
<1>13. Eq(f)
  BY <1>10, <1>12
<1>14. Said(msg) = f[l]
  <2>1. DOMAIN s = 1 .. l
    BY <1>1
  <2>2. Said(msg) = FlattenSeq(p)
    BY <1>1, <2>1 DEF Said, Piece
  <2> HIDE DEF p
  <2>3. Len(p) # 0
    BY <1>1, <1>9
  <2>4. FlattenSeq(p) = f[l]
    BY <1>9, <1>12, <2>3 DEF FlattenSeq
  <2> QED
    BY <2>2, <2>4
<1> HIDE DEF p
<1>15. f[l] = F[l]
  <2> DEFINE G == {k \in 0 .. (l - 1) : f[k + 1] = F[k + 1]}
  <2>1. 0 \in G
    <3>1. 1 \in 1 .. Len(p) /\ 0 + 1 = 1 /\ 0 \in 0 .. (l - 1)
      BY <1>1, <1>9
    <3> QED
      BY <1>10, <1>13, <3>1
  <2>2. ASSUME NEW k \in 0 .. ((l - 1) - 1), k \in G PROVE k + 1 \in G
    <3>1. (k + 1) + 1 \in 1 .. Len(p) /\ (k + 1) + 1 # 1 /\ ((k + 1) + 1) - 1 = k + 1
          /\ k + 1 \in 0 .. (l - 1)
      BY <1>9
    <3>2. f[k + 1] = F[k + 1]
      BY <2>2
    <3>3. /\ f[(k + 1) + 1] = f[k + 1] \o p[(k + 1) + 1]
          /\ F[(k + 1) + 1] = F[k + 1] \o p[(k + 1) + 1]
      BY <1>10, <1>13, <3>1
    <3> QED
      BY <3>1, <3>2, <3>3
  <2> HIDE DEF G
  <2>3. \A k \in 0 .. (l - 1) : k \in G
    BY <1>2, <2>1, <2>2, UpTo
  <2>4. l - 1 \in 0 .. (l - 1) /\ (l - 1) + 1 = l
    BY <1>1
  <2>5. f[(l - 1) + 1] = F[(l - 1) + 1]
    BY <2>3, <2>4 DEF G
  <2> QED
    BY <2>4, <2>5
<1>16. Said(msg) = st(l - 1).res
  BY <1>11, <1>14, <1>15
<1>17. st(l - 1).res \in Seq(Characters) /\ st(l - 1).res # << >>
  <2>1. PICK k \in 0 .. (l - 2) : l - 1 = k + 1 /\ k + 2 = l /\ k \in 0 .. (l - 1)
                                  /\ k + 1 \in 0 .. (l - 1)
    <3>1. l - 2 \in 0 .. (l - 2) /\ l - 1 = (l - 2) + 1 /\ (l - 2) + 2 = l
          /\ l - 2 \in 0 .. (l - 1) /\ (l - 2) + 1 \in 0 .. (l - 1)
      BY <1>1
    <3> QED
      BY <3>1
  <2>2. Piece(msg, l) \in Seq(Characters) /\ Piece(msg, l) # << >>
    <3>1. l \in 1 .. Len(msg.str) /\ msg.str[l] # "%"
      BY <1>1 DEF Message, WellFormed
    <3>2. CASE IsSign(msg.str, l)
      <4>1. PICK u \in Nat, b \in 2 .. 16 : Piece(msg, l) = Numeral(u, b)
        BY <3>1, <3>2, PieceIs
      <4> QED
        BY <4>1, NumeralOK
    <3>3. CASE ~IsSign(msg.str, l)
      <4>1. Piece(msg, l) = << msg.str[l] >> /\ Piece(msg, l) \in Seq(Characters)
        BY <3>1, <3>3, PieceIs
      <4> QED
        BY <4>1
    <3> QED
      BY <3>2, <3>3
  <2>3. PICK x \in Seq(Characters), y \in Seq(Characters) :
          /\ x = IF k = 0 THEN Piece(msg, 1) ELSE st(k).res
          /\ y = Piece(msg, l)
    <3>1. Piece(msg, 1) \in Seq(Characters)
      <4>1. 1 \in 1 .. Len(msg.str)
        BY <1>1
      <4> QED
        BY <4>1, PieceIs
    <3>2. st(k).res \in Seq(Characters)
      BY <1>7, <2>1 DEF Begun
    <3> QED
      BY <2>2, <3>1, <3>2
  <2>4. st(l - 1).res = x \o y
    BY <1>8, <2>1, <2>3
  <2>5. y # << >>
    BY <2>2, <2>3
  <2>6. x \o y \in Seq(Characters) /\ x \o y # << >>
    BY <2>5
  <2> QED
    BY <2>4, <2>6
<1> QED
  BY <1>3, <1>16, <1>17

-----------------------------------------------------------------------------
(* The invariant *)

Places == {"idle", "char", "scroll", "scrolled", "stored", "clear"}
Printing == {"char", "scroll", "scrolled", "stored"}

\* Types, and in which of its steps the main thread can meet the end of the screen.
ScreenTypeOK ==
  /\ Memory(mem) /\ cursor \in 0 .. Size /\ reg \in 0 .. Size /\ idx \in 0 .. Size
  /\ at \in Places /\ damage \in {"none", "margin", "text"}
  /\ text \in Seq(Characters)
  /\ at \in Printing => rest \in Seq(Characters) /\ rest # << >>
  /\ at = "scroll" => reg = Size
  /\ at \in {"scrolled", "stored"} => reg < Size

\* Cells behind the ends of lines are blank too.
Exact == damage = "none"

\* The memory is m, and its cells below the index are scrolled already.
HalfScrolled(m) ==
  \A k \in Cell : mem[k] = IF k < idx THEN Scrolled(m, Size)[k] ELSE m[k]

\* The main thread printed done, and rest is still to be printed.
Progress(done) ==
  LET lay == Layout(done) IN
  /\ text = done \o rest
  /\ damage # "text" =>
       /\ at = "char" => Shows(mem, lay, Exact) /\ reg = CursorOf(lay) /\ reg <= cursor
       /\ at = "scroll" => /\ CursorOf(lay) = Size
                           /\ \E m : Shows(m, lay, Exact) /\ HalfScrolled(m)
       /\ at = "scrolled" => Shows(mem, Opened(lay), Exact) /\ reg = CursorOf(Opened(lay))
       /\ at = "stored" => LET next == Layout(Append(done, Head(rest))) IN
                           Shows(mem, next, Exact) /\ reg + 1 = CursorOf(next)

\* Between two calls the screen shows what was said.
Settled ==
  damage # "text" => Shows(mem, Layout(text), Exact) /\ cursor = CursorOf(Layout(text))

\* The cells that ClearScreen passed are blank.
Cleared == damage = "none" => \A k \in Cell : k < idx => mem[k] = Blank

\* The inductive invariant: one part for each kind of step the main thread is at.
ScreenInv ==
  /\ ScreenTypeOK
  /\ at = "idle" => Settled
  /\ at = "clear" => Cleared
  /\ at \in Printing => \E done \in Seq(Characters) : Progress(done)

\* The characters of a text lie before the cursor.
LEMMA InkBelow ==
  ASSUME NEW lay, LayoutOK(lay), NEW r \in Row, NEW x \in Col, x < Len(LineAt(lay, r))
  PROVE  Place(r, x) < CursorOf(lay)
<1>1. /\ Shown(lay) \in 0 .. Rows /\ Rows \in Nat \ {0} /\ Cols \in Nat \ {0}
      /\ r \in Nat /\ x \in Nat /\ x < Cols
  BY ShownIs, Screen DEF Row, Col
<1>2. r < Shown(lay)
  <2> SUFFICES ASSUME ~ (r < Shown(lay)) PROVE FALSE
    OBVIOUS
  <2>1. LineAt(lay, r) = << >> /\ Len(<< >>) = 0
    BY <1>1, LineIs
  <2> QED
    BY <1>1, <2>1
<1>3. PICK n \in Nat : n = Shown(lay)
  BY <1>1
<1>4. PICK a \in Nat : a = r * Cols
  BY <1>1
<1>5. Place(r, x) = a + x
  BY <1>4 DEF Place
<1>6. CASE lay.open
  <2>1. PICK y \in Col : y = Len(LineAt(lay, n - 1)) /\ CursorOf(lay) = Place(n - 1, y)
                         /\ n - 1 \in Nat
    <3>1. /\ Shown(lay) - 1 \in Row /\ Len(LineAt(lay, Shown(lay) - 1)) \in Col
          /\ CursorOf(lay) = Place(Shown(lay) - 1, Len(LineAt(lay, Shown(lay) - 1)))
      BY <1>6, CursorIs
    <3> QED
      BY <1>1, <1>2, <1>3, <3>1
  <2>2. CASE r = n - 1
    BY <1>1, <1>4, <1>5, <2>1, <2>2 DEF Place, Col
  <2>3. CASE r # n - 1
    <3>1. r < n - 1
      BY <1>1, <1>2, <1>3, <2>3
    <3>2. r * Cols + Cols <= (n - 1) * Cols /\ (n - 1) * Cols \in Nat
      BY <1>1, <2>1, <3>1, ProductGrows
    <3>3. PICK b \in Nat : b = (n - 1) * Cols /\ a + Cols <= b /\ CursorOf(lay) = b + y
      BY <1>4, <2>1, <3>2 DEF Place
    <3> QED
      BY <1>1, <1>5, <3>3 DEF Col
  <2> QED
    BY <2>2, <2>3
<1>7. CASE ~lay.open
  <2>1. CursorOf(lay) = n * Cols
    BY <1>3, <1>7, CursorIs
  <2>2. r * Cols + Cols <= n * Cols /\ n * Cols \in Nat
    BY <1>1, <1>2, <1>3, ProductGrows
  <2>3. PICK b \in Nat : b = n * Cols /\ a + Cols <= b
    BY <1>4, <2>2
  <2> QED
    BY <1>1, <1>5, <2>1, <2>3
<1>8. lay.open \in BOOLEAN
  BY DEF LayoutOK
<1> QED
  BY <1>6, <1>7, <1>8

\* A memory that differs behind the cursor only.
LEMMA StillShows ==
  ASSUME NEW lay, LayoutOK(lay), NEW e \in BOOLEAN, NEW m, Shows(m, lay, e),
         NEW w, Memory(w), \A k \in Cell : k < CursorOf(lay) => w[k] = m[k]
  PROVE  Shows(w, lay, FALSE)
<1>1. w = [k \in Cell |-> w[k]]
  BY DEF Memory
<1>2. ASSUME NEW r \in Row, NEW x \in Col, x < Len(LineAt(lay, r))
      PROVE  w[Place(r, x)] = Glyph(LineAt(lay, r), x)
  <2>1. m[Place(r, x)] = Glyph(LineAt(lay, r), x)
    BY <1>2 DEF Shows
  <2>2. Place(r, x) \in Cell /\ Place(r, x) < CursorOf(lay)
    BY <1>2, PlaceIs, InkBelow
  <2> QED
    BY <2>1, <2>2
<1> QED
  BY <1>1, <1>2 DEF Shows

-----------------------------------------------------------------------------
(* Its steps *)

\* The cleared screen satisfies the invariant.
LEMMA InitScreen ==
  ScreenInit => ScreenInv
<1> SUFFICES ASSUME ScreenInit PROVE ScreenInv
  OBVIOUS
<1>1. 0 \in 0 .. Size /\ Memory(mem)
  BY Screen DEF ScreenInit, Memory
<1>2. ScreenTypeOK
  BY <1>1 DEF ScreenTypeOK, ScreenInit, Places, Printing
<1>3. /\ text = << >> /\ Layout(text) = Empty
  <2>1. Layout(<< >>) = Empty
    <3>1. << >> \in Seq({0}) /\ 0 \in {0}
      OBVIOUS
    <3> QED
      BY <3>1, LayoutAppend
  <2> QED
    BY <2>1 DEF ScreenInit
<1>4. Shows(mem, Layout(text), TRUE) /\ cursor = CursorOf(Layout(text))
  <2>1. mem = View(Empty) /\ LayoutOK(Empty) /\ CursorOf(Empty) = 0 /\ cursor = 0
    BY EmptyIs DEF ScreenInit
  <2> QED
    BY <1>3, <2>1, ViewShows
<1>5. Settled
  BY <1>4 DEF Settled, Exact, ScreenInit
<1> QED
  BY <1>2, <1>5 DEF ScreenInv, ScreenInit, Printing

\* kprintf formats the message and WriteString begins.
LEMMA MessageStep ==
  ASSUME ScreenInv, NEW msg \in MainMessages, BeginMessage(msg)
  PROVE  ScreenInv'
<1>1. ScreenTypeOK /\ Settled /\ at = "idle"
  BY DEF ScreenInv, BeginMessage
<1>2. kprintf(msg) = Said(msg) /\ Said(msg) \in Seq(Characters) /\ Said(msg) # << >>
  <2>1. Message(msg)
    BY TextAssumption DEF Message
  <2> QED
    BY <2>1, FormatIs
<1>3. /\ at' = "char" /\ rest' = Said(msg) /\ text' = text \o Said(msg) /\ reg' = cursor
      /\ UNCHANGED <<mem, cursor, idx, damage>>
  BY <1>2 DEF BeginMessage
<1>4. text \in Seq(Characters) /\ text' \in Seq(Characters)
  BY <1>1, <1>2, <1>3 DEF ScreenTypeOK
<1>5. ScreenTypeOK'
  BY <1>1, <1>2, <1>3, <1>4 DEF ScreenTypeOK, Places, Printing
<1>6. PICK done \in Seq(Characters) : done = text
  BY <1>4
<1>7. Progress(done)'
  <2>1. text' = done \o rest'
    BY <1>3, <1>6
  <2>2. damage # "text" => Shows(mem, Layout(done), Exact) /\ cursor = CursorOf(Layout(done))
    BY <1>1, <1>6 DEF Settled
  <2>3. cursor <= cursor
    BY <1>1 DEF ScreenTypeOK
  <2> QED
    BY <1>3, <2>1, <2>2, <2>3 DEF Progress, Exact
<1> QED
  BY <1>3, <1>5, <1>7 DEF ScreenInv

\* The cursor of a scrolled screen.
LEMMA CursorUpIs ==
  CursorUp(Size) \in 0 .. Size /\ CursorUp(Size) < Size
BY Screen DEF CursorUp

\* ScrollUp begins: nothing is scrolled yet.
LEMMA BeginScrollStep ==
  ASSUME ScreenInv, BeginScroll
  PROVE  ScreenInv'
<1>1. ScreenTypeOK /\ at = "char" /\ reg = Size /\ 0 \in 0 .. Size
  BY Screen DEF ScreenInv, BeginScroll
<1>2. at' = "scroll" /\ idx' = 0 /\ UNCHANGED <<mem, cursor, reg, rest, text, damage>>
  BY DEF BeginScroll
<1>3. PICK done \in Seq(Characters) : Progress(done)
  BY <1>1 DEF ScreenInv, Printing
<1>4. ScreenTypeOK'
  BY <1>1, <1>2 DEF ScreenTypeOK, Places, Printing
<1>5. Progress(done)'
  <2>1. text' = done \o rest'
    BY <1>2, <1>3 DEF Progress
  <2>2. damage # "text" => Shows(mem, Layout(done), Exact) /\ CursorOf(Layout(done)) = Size
    BY <1>1, <1>3 DEF Progress
  <2>3. HalfScrolled(mem)'
    <3>1. \A k \in Cell : ~ (k < 0)
      BY Screen
    <3> QED
      BY <1>2, <3>1 DEF HalfScrolled
  <2>4. PICK m : m = mem
    OBVIOUS
  <2>5. HalfScrolled(m)'
    BY <1>2, <2>3, <2>4 DEF HalfScrolled
  <2> QED
    BY <1>2, <2>1, <2>2, <2>4, <2>5 DEF Progress, Exact
<1> QED
  BY <1>2, <1>4, <1>5 DEF ScreenInv

\* A turn of ScrollUp's loops reads a cell that no turn wrote yet.
LEMMA ScrollCellStep ==
  ASSUME ScreenInv, ScrollCell
  PROVE  ScreenInv'
<1>1. ScreenTypeOK /\ at = "scroll" /\ reg = Size /\ idx < Size /\ idx \in Cell
      /\ idx + 1 \in 0 .. Size
  BY Screen DEF ScreenInv, ScreenTypeOK, ScrollCell
<1>2. /\ mem' = [mem EXCEPT ![idx] = IF idx + Cols < Size THEN mem[idx + Cols] ELSE Blank]
      /\ idx' = idx + 1 /\ UNCHANGED <<cursor, at, reg, rest, text, damage>>
  BY <1>1 DEF ScrollCell
<1>3. PICK done \in Seq(Characters) : Progress(done)
  BY <1>1 DEF ScreenInv, Printing
<1>4. Memory(mem') /\ \A k \in Cell : mem'[k] = IF k = idx THEN (IF idx + Cols < Size THEN mem[idx + Cols] ELSE Blank)
                                                ELSE mem[k]
  BY <1>1, <1>2 DEF ScreenTypeOK, Memory
<1>5. ScreenTypeOK'
  BY <1>1, <1>2, <1>4 DEF ScreenTypeOK, Places, Printing
<1>6. Progress(done)'
  <2>1. text' = done \o rest'
    BY <1>2, <1>3 DEF Progress
  <2>2. ASSUME damage # "text"
        PROVE  /\ CursorOf(Layout(done)) = Size
               /\ \E m : Shows(m, Layout(done), Exact) /\ HalfScrolled(m)'
    <3>1. PICK m : Shows(m, Layout(done), Exact) /\ HalfScrolled(m)
      BY <1>1, <1>3, <2>2 DEF Progress
    <3>2. ASSUME NEW k \in Cell
          PROVE  mem'[k] = IF k < idx + 1 THEN Scrolled(m, Size)[k] ELSE m[k]
      <4>1. CASE k = idx
        <5>1. k \in Int /\ k < Size /\ Cols \in Nat \ {0} /\ Size \in Nat
          BY <1>1, Screen
        <5>2. Scrolled(m, Size)[k] = IF k + Cols < Size THEN m[k + Cols] ELSE Blank
          BY <5>1 DEF Scrolled
        <5>3. k + Cols < Size => mem[k + Cols] = m[k + Cols]
          <6>1. k + Cols < Size => k + Cols \in Cell /\ ~ (k + Cols < idx)
            BY <4>1, <5>1, Screen
          <6> QED
            BY <3>1, <6>1 DEF HalfScrolled
        <5>4. k < idx + 1
          BY <4>1, <5>1
        <5> QED
          BY <1>4, <4>1, <5>2, <5>3, <5>4
      <4>2. CASE k # idx
        <5>1. k < idx + 1 <=> k < idx
          BY <1>1, <4>2, Screen
        <5> QED
          BY <1>4, <3>1, <4>2, <5>1 DEF HalfScrolled
      <4> QED
        BY <4>1, <4>2
    <3>3. HalfScrolled(m)'
      BY <1>2, <3>2 DEF HalfScrolled
    <3>4. CursorOf(Layout(done)) = Size
      BY <1>1, <1>3, <2>2 DEF Progress
    <3> QED
      BY <3>1, <3>3, <3>4
  <2> QED
    BY <1>1, <1>2, <2>1, <2>2 DEF Progress, Exact
<1> QED
  BY <1>1, <1>2, <1>5, <1>6 DEF ScreenInv

\* ScrollUp ends: the screen shows the text with an empty last line.
LEMMA EndScrollStep ==
  ASSUME ScreenInv, EndScroll
  PROVE  ScreenInv'
<1>1. ScreenTypeOK /\ at = "scroll" /\ reg = Size /\ idx = Size
  BY DEF ScreenInv, ScreenTypeOK, EndScroll
<1>2. at' = "scrolled" /\ reg' = CursorUp(Size)
      /\ UNCHANGED <<mem, cursor, idx, rest, text, damage>>
  BY <1>1 DEF EndScroll
<1>3. PICK done \in Seq(Characters) : Progress(done)
  BY <1>1 DEF ScreenInv, Printing
<1>4. ScreenTypeOK'
  BY <1>1, <1>2, CursorUpIs DEF ScreenTypeOK, Places, Printing
<1>5. Progress(done)'
  <2>1. text' = done \o rest'
    BY <1>2, <1>3 DEF Progress
  <2>2. ASSUME damage # "text"
        PROVE  Shows(mem, Opened(Layout(done)), Exact)
               /\ CursorUp(Size) = CursorOf(Opened(Layout(done)))
    <3>1. PICK m : Shows(m, Layout(done), Exact) /\ HalfScrolled(m)
      BY <1>1, <1>3, <2>2 DEF Progress
    <3>2. CursorOf(Layout(done)) = Size /\ LayoutOK(Layout(done)) /\ Exact \in BOOLEAN
      BY <1>1, <1>3, <2>2, LayoutIs DEF Progress, Exact
    <3>3. mem = Scrolled(m, Size)
      <4>1. \A k \in Cell : k < idx
        BY <1>1, Screen
      <4>2. \A k \in Cell : mem[k] = Scrolled(m, Size)[k]
        BY <3>1, <4>1 DEF HalfScrolled
      <4>3. Scrolled(m, Size) = [k \in Cell |-> Scrolled(m, Size)[k]]
        BY DEF Scrolled
      <4>4. mem = [k \in Cell |-> mem[k]]
        BY <1>1 DEF ScreenTypeOK, Memory
      <4> QED
        BY <4>2, <4>3, <4>4
    <3>4. Shows(Scrolled(m, Size), Opened(Layout(done)), Exact)
      BY <3>1, <3>2, ScrollShows
    <3>5. CursorUp(Size) = CursorOf(Opened(Layout(done)))
      BY <3>2, FullIs
    <3> QED
      BY <3>3, <3>4, <3>5
  <2> QED
    BY <1>2, <2>1, <2>2 DEF Progress, Exact
<1> QED
  BY <1>2, <1>4, <1>5 DEF ScreenInv

\* A character taken from what is left of a string.
LEMMA Taken ==
  ASSUME NEW r \in Seq(Characters), r # << >>, NEW done \in Seq(Characters)
  PROVE  /\ Head(r) \in Characters /\ Tail(r) \in Seq(Characters)
         /\ Append(done, Head(r)) \in Seq(Characters)
         /\ done \o r = Append(done, Head(r)) \o Tail(r)
         /\ Len(r) = 1 <=> Tail(r) = << >>
<1>1. /\ Head(r) \in Characters /\ Tail(r) \in Seq(Characters)
      /\ Append(done, Head(r)) \in Seq(Characters)
  OBVIOUS
<1>2. PICK h \in Characters, t \in Seq(Characters) : h = Head(r) /\ t = Tail(r)
  BY <1>1
<1>3. r = << h >> \o t
  BY <1>2
<1>4. Len(r) = 1 <=> t = << >>
  BY <1>3
<1>5. done \o (<< h >> \o t) = (done \o << h >>) \o t
  OBVIOUS
<1>6. done \o << h >> = Append(done, h)
  OBVIOUS
<1> QED
  BY <1>1, <1>2, <1>3, <1>4, <1>5, <1>6

\* After the last step of a character.
LEMMA CharacterDone ==
  ASSUME ScreenTypeOK', NEW done \in Seq(Characters), text' = done \o rest',
         at' \in {"idle", "char"}, at' = "idle" => rest' = << >>, cursor' = reg',
         damage' # "text" => /\ Shows(mem', Layout(done), damage' = "none")
                             /\ reg' = CursorOf(Layout(done))
  PROVE  ScreenInv'
<1>1. CASE at' = "idle"
  <2>1. text' = done
    <3>1. done \o << >> = done
      OBVIOUS
    <3> QED
      BY <1>1, <3>1
  <2>2. Settled'
    BY <2>1 DEF Settled, Exact
  <2> QED
    BY <1>1, <2>2 DEF ScreenInv, Printing
<1>2. CASE at' = "char"
  <2>1. reg' <= cursor'
    BY DEF ScreenTypeOK
  <2>2. Progress(done)'
    BY <1>2, <2>1 DEF Progress, Exact
  <2> QED
    BY <1>2, <2>2 DEF ScreenInv, Printing
<1> QED
  BY <1>1, <1>2

\* Before a character is written there is a line for it.
LEMMA ReadyIs ==
  ASSUME ScreenTypeOK, NEW done \in Seq(Characters), Progress(done), damage # "text",
         (at = "char" /\ reg # Size) \/ at = "scrolled"
  PROVE  /\ LayoutOK(Opened(Layout(done))) /\ Opened(Layout(done)).open
         /\ Shows(mem, Opened(Layout(done)), Exact) /\ reg = CursorOf(Opened(Layout(done)))
         /\ \A c \in Characters : Layout(Append(done, c)) = Put(Opened(Layout(done)), c)
<1>1. LayoutOK(Layout(done)) /\ Exact \in BOOLEAN
  BY LayoutIs DEF Exact
<1>2. /\ LayoutOK(Opened(Layout(done))) /\ Opened(Layout(done)).open
      /\ \A c : Put(Layout(done), c) = Put(Opened(Layout(done)), c)
  BY <1>1, OpenedIs
<1>3. \A c \in Characters : Layout(Append(done, c)) = Put(Layout(done), c)
  BY LayoutAppend
<1>4. CASE at = "char" /\ reg # Size
  <2>1. Shows(mem, Layout(done), Exact) /\ reg = CursorOf(Layout(done))
    BY <1>4 DEF Progress
  <2> QED
    BY <1>1, <1>2, <1>3, <1>4, <2>1, OpeningShows
<1>5. CASE at = "scrolled"
  BY <1>2, <1>3, <1>5 DEF Progress
<1> QED
  BY <1>4, <1>5

\* A newline moves the cursor to where the layout has it.
LEMMA NewlineStep ==
  ASSUME ScreenInv, Newline
  PROVE  ScreenInv'
<1>1. /\ ScreenTypeOK /\ at \in {"char", "scrolled"}
      /\ ((at = "char" /\ reg # Size) \/ at = "scrolled")
      /\ Head(rest) = NL
  BY DEF ScreenInv, Newline
<1>2. /\ reg' = NextRow(reg) /\ cursor' = NextRow(reg) /\ rest' = Tail(rest)
      /\ at' = (IF Len(rest) = 1 THEN "idle" ELSE "char")
         /\ UNCHANGED <<mem, idx, text, damage>>
  BY DEF Newline, Advance
<1>3. PICK done \in Seq(Characters) : Progress(done)
  BY <1>1 DEF ScreenInv, Printing
<1>4. /\ Head(rest) \in Characters /\ Tail(rest) \in Seq(Characters)
      /\ Append(done, Head(rest)) \in Seq(Characters)
      /\ done \o rest = Append(done, Head(rest)) \o Tail(rest)
      /\ Len(rest) = 1 <=> Tail(rest) = << >>
  <2>1. rest \in Seq(Characters) /\ rest # << >>
    BY <1>1 DEF ScreenTypeOK, Printing
  <2> QED
    BY <2>1, Taken
<1>5. NextRow(reg) \in 0 .. Size
  <2>1. reg \in Cell
    BY <1>1, Screen DEF ScreenTypeOK
  <2> QED
    BY <2>1, NextRowIs
<1>6. ScreenTypeOK'
  BY <1>1, <1>2, <1>4, <1>5 DEF ScreenTypeOK, Places, Printing
<1>7. PICK next : next = Append(done, NL)
  OBVIOUS
<1>8. next \in Seq(Characters) /\ text' = next \o rest' /\ at' \in {"idle", "char"}
      /\ (at' = "idle" => rest' = << >>)
  BY <1>1, <1>2, <1>3, <1>4, <1>7 DEF Progress
<1>9. ASSUME damage # "text"
      PROVE  Shows(mem, Layout(next), Exact) /\ NextRow(reg) = CursorOf(Layout(next))
  <2>1. PICK o : o = Opened(Layout(done))
    OBVIOUS
  <2>2. LayoutOK(o) /\ o.open /\ Shows(mem, o, Exact) /\ reg = CursorOf(o)
        /\ Layout(next) = Put(o, NL)
    BY <1>1, <1>3, <1>4, <1>7, <1>9, <2>1, ReadyIs
  <2>3. Exact \in BOOLEAN
    BY DEF Exact
  <2> QED
    BY <2>2, <2>3, NewlineShows
<1> QED
  BY <1>2, <1>6, <1>8, <1>9, CharacterDone DEF Exact

\* A character is stored where the layout has it, before the cursor moves.
LEMMA StoreCharStep ==
  ASSUME ScreenInv, StoreChar
  PROVE  ScreenInv'
<1>1. /\ ScreenTypeOK /\ at \in {"char", "scrolled"}
      /\ ((at = "char" /\ reg # Size) \/ at = "scrolled")
      /\ Head(rest) # NL
  BY DEF ScreenInv, StoreChar
<1>2. /\ mem' = [mem EXCEPT ![reg] = Head(rest)] /\ at' = "stored"
      /\ UNCHANGED <<cursor, reg, idx, rest, text, damage>>
  BY DEF StoreChar
<1>3. PICK done \in Seq(Characters) : Progress(done)
  BY <1>1 DEF ScreenInv, Printing
<1>4. rest \in Seq(Characters) /\ rest # << >> /\ Head(rest) \in Characters
  <2>1. rest \in Seq(Characters) /\ rest # << >>
    BY <1>1 DEF ScreenTypeOK, Printing
  <2> QED
    BY <2>1
<1>5. reg \in 0 .. Size /\ reg < Size /\ Memory(mem')
  <2>1. reg \in 0 .. Size /\ reg < Size
    BY <1>1, Screen DEF ScreenTypeOK
  <2>2. Memory(mem')
    BY <1>1, <1>2 DEF ScreenTypeOK, Memory
  <2> QED
    BY <2>1, <2>2
<1>6. ScreenTypeOK'
  BY <1>1, <1>2, <1>4, <1>5 DEF ScreenTypeOK, Places, Printing
<1>7. Progress(done)'
  <2>1. text' = done \o rest'
    BY <1>2, <1>3 DEF Progress
  <2>2. ASSUME damage # "text"
        PROVE  LET next == Layout(Append(done, Head(rest))) IN
               Shows(mem', next, Exact) /\ reg + 1 = CursorOf(next)
    <3>1. PICK o : o = Opened(Layout(done))
      OBVIOUS
    <3>2. PICK c \in Characters : c = Head(rest) /\ c # NL
      BY <1>1, <1>4
    <3>3. LayoutOK(o) /\ o.open /\ Shows(mem, o, Exact) /\ reg = CursorOf(o)
          /\ Layout(Append(done, c)) = Put(o, c)
      BY <1>1, <1>3, <2>2, <3>1, ReadyIs
    <3>4. Exact \in BOOLEAN
      BY DEF Exact
    <3>5. /\ Shows([mem EXCEPT ![CursorOf(o)] = c], Put(o, c), Exact)
          /\ CursorOf(Put(o, c)) = CursorOf(o) + 1
      BY <3>2, <3>3, <3>4, CharShows
    <3> QED
      BY <1>2, <3>2, <3>3, <3>5
  <2> QED
    BY <1>2, <2>1, <2>2 DEF Progress, Exact
<1> QED
  BY <1>2, <1>6, <1>7 DEF ScreenInv

\* The cursor follows the character.
LEMMA StoreCursorStep ==
  ASSUME ScreenInv, StoreCursor
  PROVE  ScreenInv'
<1>1. ScreenTypeOK /\ at = "stored" /\ reg \in 0 .. Size /\ reg < Size
  BY DEF ScreenInv, ScreenTypeOK, StoreCursor
<1>2. /\ reg' = reg + 1 /\ cursor' = reg + 1 /\ rest' = Tail(rest)
      /\ at' = (IF Len(rest) = 1 THEN "idle" ELSE "char")
         /\ UNCHANGED <<mem, idx, text, damage>>
  BY DEF StoreCursor, Advance
<1>3. PICK done \in Seq(Characters) : Progress(done)
  BY <1>1 DEF ScreenInv, Printing
<1>4. /\ Head(rest) \in Characters /\ Tail(rest) \in Seq(Characters)
      /\ Append(done, Head(rest)) \in Seq(Characters)
      /\ done \o rest = Append(done, Head(rest)) \o Tail(rest)
      /\ Len(rest) = 1 <=> Tail(rest) = << >>
  <2>1. rest \in Seq(Characters) /\ rest # << >>
    BY <1>1 DEF ScreenTypeOK, Printing
  <2> QED
    BY <2>1, Taken
<1>5. reg + 1 \in 0 .. Size
  BY <1>1, Screen
<1>6. ScreenTypeOK'
  BY <1>1, <1>2, <1>4, <1>5 DEF ScreenTypeOK, Places, Printing
<1>7. PICK next : next = Append(done, Head(rest))
  OBVIOUS
<1>8. next \in Seq(Characters) /\ text' = next \o rest' /\ at' \in {"idle", "char"}
      /\ (at' = "idle" => rest' = << >>)
  BY <1>2, <1>3, <1>4, <1>7 DEF Progress
<1>9. damage # "text" => Shows(mem, Layout(next), Exact) /\ reg + 1 = CursorOf(Layout(next))
  BY <1>1, <1>3, <1>7 DEF Progress
<1> QED
  BY <1>2, <1>6, <1>8, <1>9, CharacterDone DEF Exact

\* Clearing begins; what was damaged no longer counts.
LEMMA BeginClearStep ==
  ASSUME ScreenInv, BeginClear
  PROVE  ScreenInv'
<1>1. ScreenTypeOK /\ 0 \in 0 .. Size
  BY Screen DEF ScreenInv
<1>2. at' = "clear" /\ idx' = 0 /\ damage' = "none"
      /\ UNCHANGED <<mem, cursor, reg, rest, text>>
  BY DEF BeginClear
<1>3. ScreenTypeOK'
  BY <1>1, <1>2 DEF ScreenTypeOK, Places, Printing
<1>4. Cleared'
  <2>1. \A k \in Cell : ~ (k < 0)
    BY Screen
  <2> QED
    BY <1>2, <2>1 DEF Cleared
<1> QED
  BY <1>2, <1>3, <1>4 DEF ScreenInv, Printing

\* A turn of the clearing loop.
LEMMA ClearCellStep ==
  ASSUME ScreenInv, ClearCell
  PROVE  ScreenInv'
<1>1. ScreenTypeOK /\ Cleared /\ at = "clear" /\ idx < Size /\ idx \in Cell
      /\ idx + 1 \in 0 .. Size
  BY Screen DEF ScreenInv, ScreenTypeOK, ClearCell
<1>2. /\ mem' = [mem EXCEPT ![idx] = Blank] /\ idx' = idx + 1
      /\ UNCHANGED <<cursor, at, reg, rest, text, damage>>
  BY DEF ClearCell
<1>3. Memory(mem') /\ \A k \in Cell : mem'[k] = IF k = idx THEN Blank ELSE mem[k]
  BY <1>1, <1>2 DEF ScreenTypeOK, Memory
<1>4. ScreenTypeOK'
  BY <1>1, <1>2, <1>3 DEF ScreenTypeOK, Places, Printing
<1>5. Cleared'
  <2>1. \A k \in Cell : k < idx + 1 <=> k < idx \/ k = idx
    BY <1>1, Screen
  <2> QED
    BY <1>1, <1>2, <1>3, <2>1 DEF Cleared
<1> QED
  BY <1>1, <1>2, <1>4, <1>5 DEF ScreenInv, Printing

\* The cleared screen shows the empty text.
LEMMA EndClearStep ==
  ASSUME ScreenInv, EndClear
  PROVE  ScreenInv'
<1>1. ScreenTypeOK /\ Cleared /\ idx = Size /\ 0 \in 0 .. Size
  BY Screen DEF ScreenInv, EndClear
<1>2. cursor' = 0 /\ at' = "idle" /\ text' = << >> /\ UNCHANGED <<mem, reg, idx, rest, damage>>
  BY DEF EndClear
<1>3. ScreenTypeOK'
  BY <1>1, <1>2 DEF ScreenTypeOK, Places, Printing
<1>4. Layout(<< >>) = Empty
  <2>1. << >> \in Seq({0}) /\ 0 \in {0}
    OBVIOUS
  <2> QED
    BY <2>1, LayoutAppend
<1>5. Shows(mem, Empty, Exact)
  <2>1. mem = [k \in Cell |-> mem[k]]
    BY <1>1 DEF ScreenTypeOK, Memory
  <2>2. CASE damage = "none"
    <3>1. \A k \in Cell : mem[k] = Blank
      BY <1>1, <2>2, Screen DEF Cleared
    <3>2. mem = View(Empty) /\ LayoutOK(Empty)
      BY <2>1, <3>1, EmptyIs
    <3>3. Exact = TRUE
      BY <2>2 DEF Exact
    <3> QED
      BY <3>2, <3>3, ViewShows
  <2>3. CASE damage # "none"
    <3>1. Exact = FALSE
      BY <2>3 DEF Exact
    <3> QED
      BY <2>1, <3>1, EmptyIs
  <2> QED
    BY <2>2, <2>3
<1>6. Settled'
  BY <1>2, <1>4, <1>5, EmptyIs DEF Settled, Exact
<1> QED
  BY <1>2, <1>3, <1>6 DEF ScreenInv, Printing

\* A handler's string: appended to what is shown, or kept behind the cursor.
LEMMA HandlerStep ==
  ASSUME ScreenInv, NEW s \in HandlerStrings, Handler(s)
  PROVE  ScreenInv'
<1>1. ScreenTypeOK /\ s \in Seq(Characters)
  BY TextAssumption DEF ScreenInv
<1> DEFINE scr == [mem |-> mem, cursor |-> cursor]
<1>2. /\ mem' = Written(scr, s).mem /\ cursor' = Written(scr, s).cursor
      /\ text' = (IF at = "idle" THEN text \o s ELSE text)
      /\ damage' = Hurt(s) /\ UNCHANGED <<at, reg, idx, rest>>
  BY DEF Handler, Printed, Written
<1>3. Record(scr) /\ scr.mem = mem /\ scr.cursor = cursor
  BY DEF Record
<1>4. Memory(mem) /\ cursor \in 0 .. Size
  BY <1>1 DEF ScreenTypeOK
<1> HIDE DEF scr
<1>5. /\ Memory(mem') /\ cursor' \in 0 .. Size
      /\ (\A n \in 0 .. (Len(s) - 1) : Written(scr, SubSeq(s, 1, n)).cursor # Size) =>
           cursor <= cursor' /\ \A k \in Cell : k < cursor => mem'[k] = mem[k]
  <2>1. /\ Memory(Written(scr, s).mem) /\ Written(scr, s).cursor \in 0 .. Size
        /\ (\A n \in 0 .. (Len(s) - 1) : Written(scr, SubSeq(s, 1, n)).cursor # Size) =>
             /\ scr.cursor <= Written(scr, s).cursor
             /\ \A k \in Cell : k < scr.cursor => Written(scr, s).mem[k] = scr.mem[k]
    BY <1>1, <1>3, <1>4, WrittenOnScreen
  <2> QED
    BY <1>2, <1>3, <2>1
<1>6. text' \in Seq(Characters)
  BY <1>1, <1>2 DEF ScreenTypeOK
<1>7. damage' \in {"none", "margin", "text"}
  BY <1>1, <1>2 DEF Hurt, ScreenTypeOK, Places
<1>8. ScreenTypeOK'
  BY <1>1, <1>2, <1>5, <1>6, <1>7 DEF ScreenTypeOK
<1>9. CASE at = "idle"
  <2>1. damage' = damage /\ text' = text \o s
    BY <1>2, <1>9 DEF Hurt
  <2>2. ASSUME damage # "text"
        PROVE  Shows(mem', Layout(text \o s), Exact) /\ cursor' = CursorOf(Layout(text \o s))
    <3>1. Shows(mem, Layout(text), Exact) /\ cursor = CursorOf(Layout(text))
      BY <1>9, <2>2 DEF ScreenInv, Settled
    <3>2. text \in Seq(Characters) /\ Exact \in BOOLEAN
      BY <1>1 DEF ScreenTypeOK, Exact
    <3>3. scr = [mem |-> mem, cursor |-> CursorOf(Layout(text))]
      BY <3>1 DEF scr
    <3> QED
      BY <1>1, <1>2, <3>1, <3>2, <3>3, WrittenShows
  <2>3. Settled'
    BY <2>1, <2>2 DEF Settled, Exact
  <2> QED
    BY <1>2, <1>8, <1>9, <2>3 DEF ScreenInv, Printing
<1>10. CASE at = "clear"
  <2>1. damage' = "margin"
    BY <1>2, <1>10 DEF Hurt
  <2>2. Cleared'
    BY <2>1 DEF Cleared
  <2> QED
    BY <1>2, <1>8, <1>10, <2>2 DEF ScreenInv, Printing
<1>11. CASE at \in Printing
  <2>1. PICK done \in Seq(Characters) : Progress(done)
    BY <1>11 DEF ScreenInv
  <2>2. text' = done \o rest'
    BY <1>2, <1>11, <2>1 DEF Progress, Printing
  <2>3. ASSUME damage' = "text" PROVE Progress(done)'
    BY <2>2, <2>3 DEF Progress
  <2>4. ASSUME damage' # "text" PROVE Progress(done)'
    <3>1. at = "char" /\ ~Scrolls(s) /\ damage # "text" /\ damage' = "margin"
      BY <1>2, <1>11, <2>4 DEF Hurt, Printing
    <3>2. cursor <= cursor' /\ \A k \in Cell : k < cursor => mem'[k] = mem[k]
      <4>1. \A n \in 0 .. (Len(s) - 1) : Written(scr, SubSeq(s, 1, n)).cursor # Size
        BY <3>1 DEF Scrolls, Printed, Written, scr
      <4> QED
        BY <1>5, <4>1
    <3>3. Shows(mem, Layout(done), Exact) /\ reg = CursorOf(Layout(done)) /\ reg <= cursor
      BY <2>1, <3>1 DEF Progress
    <3>4. \A k \in Cell : k < CursorOf(Layout(done)) => mem'[k] = mem[k]
      <4>1. \A k \in Cell : k < reg => k < cursor
        BY <1>1, <3>3, Screen DEF ScreenTypeOK
      <4> QED
        BY <3>2, <3>3, <4>1
    <3>5. LayoutOK(Layout(done)) /\ Exact \in BOOLEAN
      BY LayoutIs DEF Exact
    <3>6. Shows(mem', Layout(done), FALSE)
      BY <1>5, <3>3, <3>4, <3>5, StillShows
    <3>7. reg <= cursor'
      BY <1>1, <1>5, <3>2, <3>3 DEF ScreenTypeOK
    <3> QED
      BY <1>2, <2>2, <3>1, <3>3, <3>6, <3>7 DEF Progress, Exact
  <2>5. Progress(done)'
    BY <2>3, <2>4
  <2> QED
    BY <1>2, <1>8, <1>11, <2>5 DEF ScreenInv, Printing
<1> QED
  BY <1>1, <1>9, <1>10, <1>11 DEF ScreenTypeOK, Places, Printing

\* The inductive invariant of the console holds in every reachable state.
THEOREM ScreenInvariance ==
  ScreenSpec => []ScreenInv
<1>1. ScreenInit => ScreenInv
  BY InitScreen
<1>2. ScreenInv /\ [ScreenNext]_screenVars => ScreenInv'
  <2> SUFFICES ASSUME ScreenInv, [ScreenNext]_screenVars PROVE ScreenInv'
    OBVIOUS
  <2>1. CASE \E msg \in MainMessages : BeginMessage(msg)
    BY <2>1, MessageStep
  <2>2. CASE BeginScroll
    BY <2>2, BeginScrollStep
  <2>3. CASE ScrollCell
    BY <2>3, ScrollCellStep
  <2>4. CASE EndScroll
    BY <2>4, EndScrollStep
  <2>5. CASE Newline
    BY <2>5, NewlineStep
  <2>6. CASE StoreChar
    BY <2>6, StoreCharStep
  <2>7. CASE StoreCursor
    BY <2>7, StoreCursorStep
  <2>8. CASE BeginClear
    BY <2>8, BeginClearStep
  <2>9. CASE ClearCell
    BY <2>9, ClearCellStep
  <2>10. CASE EndClear
    BY <2>10, EndClearStep
  <2>11. CASE \E s \in HandlerStrings : Handler(s)
    BY <2>11, HandlerStep
  <2>12. CASE UNCHANGED screenVars
    BY <2>12 DEF screenVars, ScreenInv, ScreenTypeOK, Settled, Cleared, Progress, Exact,
       HalfScrolled, Printing
  <2> QED
    BY <2>1, <2>2, <2>3, <2>4, <2>5, <2>6, <2>7, <2>8, <2>9, <2>10, <2>11, <2>12 DEF ScreenNext
<1> QED
  BY <1>1, <1>2, PTL DEF ScreenSpec

\* The cursor never passes the end of the screen, however handlers and the main
\* thread interleave, so that the scroll's test for equality is enough.
THEOREM CursorStaysOnScreen ==
  ScreenSpec => []CursorOnScreen
<1>1. ScreenInv => CursorOnScreen
  BY DEF ScreenInv, ScreenTypeOK, CursorOnScreen
<1> QED
  BY <1>1, ScreenInvariance, PTL

\* An undisturbed screen shows the last lines of all that was said, the numbers
\* in their bases.
THEOREM TextShown ==
  ScreenSpec => []ShowsText
<1>1. ScreenInv => ShowsText
  <2> SUFFICES ASSUME ScreenInv, at = "idle", damage = "none"
               PROVE  mem = View(Layout(text)) /\ cursor = CursorOf(Layout(text))
    BY DEF ShowsText
  <2>1. Shows(mem, Layout(text), Exact) /\ cursor = CursorOf(Layout(text))
    BY DEF ScreenInv, Settled
  <2>2. LayoutOK(Layout(text)) /\ Exact = TRUE
    BY LayoutIs DEF ScreenInv, ScreenTypeOK, Exact
  <2> QED
    BY <2>1, <2>2, ShowsView
<1> QED
  BY <1>1, ScreenInvariance, PTL

\* Interrupts between two characters cost none of the main thread's: each is in
\* its place, and so are those written later.
THEOREM TextStaysInPlace ==
  ScreenSpec => []TextInPlace
<1>1. ScreenInv => TextInPlace
  <2> SUFFICES ASSUME ScreenInv, at = "idle", damage # "text"
               PROVE  /\ cursor = CursorOf(Layout(text))
                      /\ \A k \in Inked(Layout(text)) : mem[k] = View(Layout(text))[k]
    BY DEF TextInPlace
  <2>1. Shows(mem, Layout(text), Exact) /\ cursor = CursorOf(Layout(text))
    BY DEF ScreenInv, Settled
  <2>2. LayoutOK(Layout(text)) /\ Exact \in BOOLEAN
    BY LayoutIs DEF ScreenInv, ScreenTypeOK, Exact
  <2> QED
    BY <2>1, <2>2, ShowsView
<1> QED
  BY <1>1, ScreenInvariance, PTL
=============================================================================
