---------------------------- MODULE MCSaveStore ----------------------------
(***************************************************************************)
(* Instances of SaveStore for TLC: two handlers, and two slots of one game *)
(* that share a track. Once two requests were served at once a behaviour   *)
(* has a save less.                                                        *)
(***************************************************************************)
EXTENDS SaveStoreInTurn, TLC

CONSTANTS h1, h2, slotA, slotB, zelda, p1, p2,
          MaxTogether      (* Bounds the saves of two handlers.             *)

MCKeys == {slotA, slotB}
OneKey == {slotA}
MCTracks == {zelda}
MCTrackOf == [k \in Keys |-> zelda]
MCPayloads == {p1, p2}
TwoHandlers == {h1, h2}

MCNext == InTurnNext /\ (overlapped' => clock' <= MaxTogether)

MCSpec == InTurnInit /\ [][MCNext]_inTurnVars

Symmetry == Permutations(Handlers) \cup Permutations(Keys) \cup Permutations(MCPayloads)
=============================================================================
