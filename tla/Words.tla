-------------------------------- MODULE Words --------------------------------
(***************************************************************************)
(* Machine words, bytes and addresses as the sets of their bits: | joins   *)
(* two words, a mask or the width of a type keeps some of the bits, and a  *)
(* shift moves them.                                                       *)
(***************************************************************************)
EXTENDS Integers, FiniteSetsExt

BitsOf(n) == {b \in 0 .. 30 : (n \div 2^b) % 2 = 1}

\* The bits first .. last of a word, in their places; and a shift.
Field(w, first, last) == w \intersect (first .. last)
Shift(w, k) == {b + k : b \in w}

\* GET_BYTE of include/common.h.
Byte(w, n) == Shift(Field(w, 8 * n, 8 * n + 7), -8 * n)

\* A number from its hexadecimal digits.
Hex(digits) ==
  LET n == DOMAIN digits IN
  UNION {Shift(BitsOf(digits[i]), 4 * (Cardinality(n) - i)) : i \in n}
=============================================================================
