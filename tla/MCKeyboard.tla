------------------------------ MODULE MCKeyboard ------------------------------
(***************************************************************************)
(* Firmware settings, keyboards and keys for Keyboard.                     *)
(***************************************************************************)
EXTENDS Keyboard

\* Keyboard interrupt and translation on, as a BIOS leaves them, or all off.
MCBootCfgs == {{0, 6}, {}}
MCSet2 == {2}
MCAnySet == {1, 2}
MCKeys == {"a"}
MCOthers == {"up"}
MCLocks == {"CPSLCK"}
=============================================================================
