------------------------------- MODULE Formater -------------------------------
(***************************************************************************)
(* Format strings: Formater::Format of src/src/formater.cpp, which kprintf *)
(* runs before it writes to the screen.  A message is a record of a format *)
(* and the numbers it names; the signs and the digits are strings of one   *)
(* character, so is "%", and everything else may be any value.             *)
(***************************************************************************)
EXTENDS Integers, Sequences, SequencesExt

Digit == <<"0", "1", "2", "3", "4", "5", "6", "7",
           "8", "9", "A", "B", "C", "D", "E", "F">>

Base == [d |-> 10, l |-> 10, x |-> 16, X |-> 16, p |-> 16, b |-> 2]

Signs == DOMAIN Base

\* The loops of putNumber and its two sisters: the digits of a number that is
\* not 0, the last one first, each put in front of those before.
Digits(num, base) ==
  LET f[n \in Nat] ==
        IF n = 0 THEN << >> ELSE Append(f[n \div base], Digit[(n % base) + 1])
  IN f[num]

putNumber(num, base) == IF num = 0 THEN <<"0">> ELSE Digits(num, base)

\* Mutant: the first character is left to the first turn of the loop.
FormatCharNoFirst(st, str, n) ==
  IF str[n - 1] = "%" /\ str[n] # "%"
  THEN IF str[n] \in Signs
       THEN [res |-> st.res \o putNumber(Head(st.args), Base[str[n]]),
             args |-> Tail(st.args)]
       ELSE st
  ELSE [st EXCEPT !.res = @ \o IF str[n] # "%" THEN <<str[n]>> ELSE << >>]

\* One turn of the loop, at a character and the one before it.  The first
\* character is looked at in the first turn; an unknown sign gives nothing.
FormatChar(st, str, n) ==
  IF str[n - 1] = "%" /\ str[n] # "%"
  THEN IF str[n] \in Signs
       THEN [res |-> st.res \o putNumber(Head(st.args), Base[str[n]]),
             args |-> Tail(st.args)]
       ELSE st
  ELSE [st EXCEPT !.res = @ \o (IF n = 2 THEN <<str[1]>> ELSE << >>)
                            \o (IF str[n] # "%" THEN <<str[n]>> ELSE << >>)]

\* A format of a single character is lost: the loop begins at the second.
Format(msg) ==
  FoldLeft(LAMBDA st, n : FormatChar(st, msg.str, n),
           [res |-> << >>, args |-> msg.args],
           [k \in 1 .. Len(msg.str) - 1 |-> k + 1]).res

-----------------------------------------------------------------------------
(***************************************************************************)
(* What a message says, stated without the loops: each character of the    *)
(* format gives its piece, and the digits of a number are found from the   *)
(* highest one down.                                                       *)
(***************************************************************************)
\* The weight of a digit: the powers of the base.
Weight(base) ==
  LET w[k \in Nat] == IF k = 0 THEN 1 ELSE base * w[k - 1] IN w

\* A number is as long as its highest digit that is not 0, but 1 at least.
Numeral(num, base) ==
  LET w == Weight(base)
      len == CHOOSE k \in 1 .. num + 1 : w[k] > num /\ (k = 1 \/ w[k - 1] <= num)
  IN [k \in 1 .. len |-> Digit[((num \div w[len - k]) % base) + 1]]

IsSign(str, n) == n > 1 /\ str[n - 1] = "%"

\* How many numbers the first n characters name; the n-th names the last one.
Named(str, n) == Cardinality({k \in 2 .. n : IsSign(str, k)})

Argument(msg, n) == msg.args[Named(msg.str, n)]

\* The formats of the kernel: two characters or more, a known sign after each
\* "%", and a number for each sign.  One is not of this kind: the failing self
\* test of the hasher (kernel.cpp:402) prints its numbers with the sign D.
WellFormed(msg) ==
  /\ Len(msg.str) > 1 /\ msg.str[Len(msg.str)] # "%"
  /\ \A n \in DOMAIN msg.str : IsSign(msg.str, n) => msg.str[n] \in Signs
  /\ Named(msg.str, Len(msg.str)) <= Len(msg.args)

Said(msg) ==
  FlattenSeq([n \in DOMAIN msg.str |->
    CASE IsSign(msg.str, n) -> Numeral(Argument(msg, n), Base[msg.str[n]])
      [] msg.str[n] = "%" -> << >>
      [] OTHER -> <<msg.str[n]>>])
=============================================================================
