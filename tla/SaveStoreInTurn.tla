--------------------------- MODULE SaveStoreInTurn ---------------------------
(***************************************************************************)
(* The save store as long as it serves one request at a time: what upload,  *)
(* delete, rollback and reload promise each other although none of them     *)
(* holds a lock for as long as it runs. Failed writes and restarts between  *)
(* any two steps are still there. Two requests at once may break each of    *)
(* these promises, so they are made of behaviours without any so far.       *)
(***************************************************************************)
EXTENDS SaveStore

VARIABLE overlapped (* History: whether two requests were served at once.   *)

inTurnVars == <<vars, overlapped>>

OneAtATime == \A g, h \in Handlers : g # h => pc[g] = "idle" \/ pc[h] = "idle"

InTurnInit == Init /\ overlapped = FALSE

InTurnNext == Next /\ overlapped' = (overlapped \/ ~OneAtATime')

InTurnSpec == InTurnInit /\ [][InTurnNext]_inTurnVars
-----------------------------------------------------------------------------
(* Two stored revisions of a key never share a version number, although a   *)
(* version is picked from a scan of the disk several steps before           *)
(* metadata.json is there to be scanned (saveStore.create).                 *)
VersionsAreUniqueInTurn == ~overlapped => VersionsAreUnique

(* No content is listed twice on a track, but for copies that a rollback    *)
(* made: what the duplicate check compared a content with, in a copy of the *)
(* list, is all there is when the save is listed (checkUploadDuplicate).    *)
ContentsAreUniqueInTurn == ~overlapped => ContentsAreUnique

(* Between requests the list shows what is on disk, once, whichever of them *)
(* failed on the way (createSave prepends, the others reload).              *)
ListMatchesDiskInTurn == ~overlapped => ListMatchesDisk

(* A conditional upload is acknowledged only while no revision newer than   *)
(* its base is visible (enforceSaveWritePrecondition looks before the       *)
(* duplicate check and the writes, and never again).                        *)
WritesReplaceTheirBaseInTurn ==
  [][~overlapped => \A h \in Handlers : ReplacesItsBase(h)]_inTurnVars
=============================================================================
