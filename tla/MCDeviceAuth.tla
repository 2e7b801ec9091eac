---------------------------- MODULE MCDeviceAuth ----------------------------
(***************************************************************************)
(* An instance of DeviceAuth for TLC: a machine that calls itself by two   *)
(* device types, and another machine.                                      *)
(***************************************************************************)
EXTENDS DeviceAuth, TLC

CONSTANTS deck, deckEmulator, mister, deckPrint, misterPrint

MCIdentities == {deck, deckEmulator, mister}
DeckTypes == Permutations({deck, deckEmulator})
MCMachine == (deck :> deckPrint) @@ (deckEmulator :> deckPrint) @@ (mister :> misterPrint)
=============================================================================
