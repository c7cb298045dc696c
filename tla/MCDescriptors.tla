---------------------------- MODULE MCDescriptors ----------------------------
(***************************************************************************)
(* Addresses for Descriptors, on both sides of a 64 KB boundary, and lines *)
(* of both chips.                                                          *)
(***************************************************************************)
EXTENDS Descriptors

Number(h) ==
  CASE h = "BadInterrupt" -> 50
    [] h = "BadHRDWRInterrupt" -> 51
    [] h = "SpuriousHandler" -> 52
    [] OTHER -> Named[h]

\* From 0x0010fe00 on, 16 bytes each.
MCAddress == [h \in Handlers |-> BitsOf(1113600 + 16 * Number(h))]
MCTSSAddress == BitsOf(3141572)
MCTSSLimit == BitsOf(116)
MCDevices == {0, 1, 7, 12}
=============================================================================
