----------------------------- MODULE SaveLedger -----------------------------
(***************************************************************************)
(* What the save store promises, without files, records or handlers: a     *)
(* save becomes stored once and for good, a success response only names    *)
(* saves that were stored, and only a save that somebody asked to delete   *)
(* is ever lost.                                                           *)
(***************************************************************************)
CONSTANT Saves

VARIABLES
  stored,   (* Saves whose payload and metadata are both on disk.          *)
  promised, (* Saves a success response has named.                         *)
  retired   (* Saves whose deletion has begun.                             *)

vars == <<stored, promised, retired>>

Init == stored = {} /\ promised = {} /\ retired = {}

(* A deleted save never comes back. *)
Store(i) ==
  /\ i \notin stored \cup promised \cup retired
  /\ stored' = stored \cup {i}
  /\ UNCHANGED <<promised, retired>>

Promise(i) ==
  /\ i \in stored \cup retired
  /\ promised' = promised \cup {i}
  /\ UNCHANGED <<stored, retired>>

Retire(S) ==
  /\ S \subseteq stored \cup retired
  /\ retired' = retired \cup S
  /\ UNCHANGED <<stored, promised>>

Erase(i) ==
  /\ i \in stored \cap retired
  /\ stored' = stored \ {i}
  /\ UNCHANGED <<promised, retired>>

Next ==
  \/ \E i \in Saves : Store(i) \/ Promise(i) \/ Erase(i)
  \/ \E S \in SUBSET Saves : Retire(S)

Spec == Init /\ [][Next]_vars
=============================================================================
