------------------------------- MODULE MCConsole -------------------------------
(***************************************************************************)
(* A small screen for Console.                                             *)
(***************************************************************************)
EXTENDS Console

CONSTANTS m, h  \* a character of the main thread's and one of a handler's

Plain(s) == [str |-> s, args |-> << >>]

MCMainMessages ==
  {Plain(<<m, NL>>), Plain(<<m, m, NL, m>>),
   [str |-> <<"%", "d", NL>>, args |-> <<10>>],
   [str |-> <<m, "%", "x", "%", "b">>, args |-> <<26, 0>>]}
MCCharacters == {m, h, NL, "%"} \union Signs \union {Digit[d] : d \in DOMAIN Digit}

MCHandlerStrings == {<<h>>, <<h, NL>>, <<NL>>}
=============================================================================
