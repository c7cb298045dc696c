------------------------------- MODULE MCLoader -------------------------------
(***************************************************************************)
(* Small machines for Loader: two buses of two slots, with up to eight     *)
(* functions in all, one of which may be of an unknown kind.               *)
(***************************************************************************)
EXTENDS Loader

MCFunctions ==
  {<<0, 0, 0>>, <<0, 0, 1>>, <<0, 0, 2>>, <<0, 1, 0>>, <<0, 1, 2>>,
   <<1, 0, 0>>, <<1, 1, 0>>, <<1, 1, 1>>}
MCStrange == {<<0, 1, 2>>}
=============================================================================
