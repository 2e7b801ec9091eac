------------------------- MODULE MCPlayStationSync -------------------------
(***************************************************************************)
(* Instances of PlayStationSync for TLC: the PlayStation with two profiles *)
(* and a device on each, and the PlayStation 2 with one profile that two   *)
(* devices have in common.                                                 *)
(***************************************************************************)
EXTENDS PlayStationSync, TLC

CONSTANTS mister, retroarch, pcsx2, d1, d2, ff7, mgs, c1, c2

PS1Profiles == {mister, retroarch}
PS2Profiles == {pcsx2}
MCPosition == (mister :> 1) @@ (retroarch :> 2) @@ (pcsx2 :> 1)
TwoSaves == {ff7, mgs}
OneSave == {ff7}
MCRank == (ff7 :> 1) @@ (mgs :> 2)
AllShared == [l \in Logicals |-> Shared]
OneOfMister == (ff7 :> Shared) @@ (mgs :> mister)
MCContents == {c1, c2}
MCDevices == {d1, d2}
PS1ProfileOf == (d1 :> mister) @@ (d2 :> retroarch)
PS2ProfileOf == [d \in Devices |-> pcsx2]

PS1Symmetry == Permutations(Contents)
PS2Symmetry == Permutations(Contents) \cup Permutations(Devices)
=============================================================================
