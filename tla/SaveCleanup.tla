---- MODULE SaveCleanup ----
(***************************************************************************)
(* The maintenance of stored saves.  A rescan reads every save again with  *)
(* the validators of this release: saves now rejected are removed, saves   *)
(* now recognised as another game or system are filed anew.  It ends with  *)
(* a cleanup: of revisions with one content in one track one is kept, and  *)
(* the revisions of a version key are numbered from 1 by creation time.    *)
(*                                                                         *)
(* Nothing locks the store meanwhile: uploads, rollbacks and deletions go  *)
(* on between the steps, which work on copies of the list in memory.       *)
(***************************************************************************)
EXTENDS Naturals, FiniteSets, FiniteSetsExt

CONSTANTS Keys,        \* version keys: a game as one ROM, in one slot
          TrackOf,     \* the track a key is of: the game, whatever the ROM
          Detected,    \* the key this release files a save of a key under
          CardKeys,    \* keys of what was built from a memory card's saves
          Hashes,
          Rejected,    \* contents this release rejects
          NoSave,
          MaxLegacy,   \* saves stored by an earlier release
          MaxSaves, MaxCleanupFaults

VARIABLES save,        \* what metadata.json of a save says
          tree,        \* saves with their directory complete
          torn,        \* saves with metadata.json and no payload
          list,        \* the list in memory: its copies of the metadata
          step,        \* of the rescan
          work,        \* saves that this step has still to go through
          writes,      \* metadata still to be written: new number by save
          refiled,     \* history: a save was given another key
          owed,        \* history: contents nobody asked to be removed
          cleanupFaults

cleanupVars == <<save, tree, torn, list, step, work, writes, refiled, owed,
          cleanupFaults>>

Ids == 1..MaxSaves
\* A save of a card names its profile, card slot and projection.
Save == [key : Keys, sha : Hashes, ver : Ids, rollback : BOOLEAN,
         at : 0..MaxSaves, projection : BOOLEAN]

ASSUME CleanupAssumption ==
    /\ MaxSaves \in Nat /\ MaxLegacy \in 0..MaxSaves
    /\ MaxCleanupFaults \in Nat
    /\ Detected \in [Keys -> Keys]
    /\ NoSave \notin Save

CleanupTypeOK ==
    /\ save \in [Ids -> Save \cup {NoSave}]
    /\ tree \subseteq {i \in Ids : save[i] # NoSave}
    /\ torn \subseteq {i \in Ids : save[i] # NoSave} \ tree
    /\ DOMAIN list \subseteq Ids
    /\ \A i \in DOMAIN list : list[i] \in Save
    /\ step \in {"idle", "scan", "plan", "remove", "reindex", "write"}
    /\ work \subseteq Ids
    /\ DOMAIN writes \subseteq Ids
    /\ refiled \in BOOLEAN
    /\ owed \subseteq Hashes
    /\ cleanupFaults \in 0..MaxCleanupFaults

Loaded == [i \in tree \cup torn |-> save[i]]

\* Saves are numbered in the order they were created in; a client may have
\* given an older creation time.
Times(i) == {0, i}

\* An earlier release kept what was uploaded twice.
CleanupInit ==
    /\ \E keys \in [1..MaxLegacy -> Keys], shas \in [1..MaxLegacy -> Hashes],
          ats \in [1..MaxLegacy -> {TRUE, FALSE}] :
         save = [i \in Ids |->
           IF i > MaxLegacy THEN NoSave
           ELSE [key |-> keys[i], sha |-> shas[i], rollback |-> FALSE,
                 projection |-> keys[i] \in CardKeys,
                 ver |-> Cardinality({j \in 1..i : keys[j] = keys[i]}),
                 at |-> IF ats[i] THEN i ELSE 0]]
    /\ tree = 1..MaxLegacy
    /\ torn = {}
    /\ list = Loaded
    /\ step = "idle"
    /\ work = {}
    /\ writes = [i \in {} |-> 0]
    /\ refiled = FALSE
    /\ owed = {save[i].sha : i \in tree} \ Rejected
    /\ cleanupFaults = 0

CleanupFault == /\ cleanupFaults < MaxCleanupFaults
                /\ cleanupFaults' = cleanupFaults + 1

----------------------------------------------------------------------------
(* What others do meanwhile, a step each: see SaveStore for theirs. *)

SortsAfter(i, j) ==
    \/ list[i].ver > list[j].ver
    \/ list[i].ver = list[j].ver /\ list[i].at > list[j].at
    \/ list[i].ver = list[j].ver /\ list[i].at = list[j].at /\ i > j

LatestOf(S) == CHOOSE i \in S : \A j \in S \ {i} : SortsAfter(i, j)

CreateSave(k, c, rollback) ==
    \E i \in Ids, t \in 0..MaxSaves :
      /\ save[i] = NoSave /\ \A j \in 1..i-1 : save[j] # NoSave
      /\ t \in (IF rollback THEN {i} ELSE Times(i))
      /\ LET numbers == {save[j].ver : j \in {n \in tree \cup torn : save[n].key = k}}
             new == [key |-> k, sha |-> c, rollback |-> rollback, at |-> t,
                     projection |-> FALSE,
                     ver |-> 1 + Max(numbers \cup {0})]
         IN  /\ new.ver \in Ids
             /\ save' = [save EXCEPT ![i] = new]
             /\ list' = [j \in DOMAIN list \cup {i} |->
                           IF j = i THEN new ELSE list[j]]
      /\ tree' = tree \cup {i}
      /\ owed' = owed \cup {c}
      /\ UNCHANGED <<torn, step, work, writes, refiled, cleanupFaults>>

UploadSave(k, c) ==
    /\ k = Detected[k] /\ k \notin CardKeys /\ c \notin Rejected
    /\ ~\E i \in DOMAIN list \cap tree :
          TrackOf[list[i].key] = TrackOf[k] /\ list[i].sha = c
    /\ CreateSave(k, c, FALSE)

Rollback(i) ==
    /\ i \in DOMAIN list \cap tree
    /\ list[i].sha \notin Rejected /\ list[i].key \notin CardKeys
    /\ CreateSave(Detected[list[i].key], list[i].sha, TRUE)

Planned == IF step = "remove" THEN work ELSE {}

\* Who deletes the copy that the cleanup means to keep deletes them all.
Delete(i) ==
    /\ i \in DOMAIN list
    /\ \/ /\ tree' = tree \ {i} /\ torn' = torn \ {i}
          /\ UNCHANGED cleanupFaults
       \/ /\ i \in tree /\ CleanupFault
          /\ tree' = tree \ {i} /\ torn' = torn \cup {i}
    /\ list' = [j \in tree' \cup torn' |-> save[j]]
    /\ owed' = {c \in owed : c # list[i].sha
                             \/ \E j \in tree' \ Planned : save[j].sha = c}
    /\ UNCHANGED <<save, step, work, writes, refiled>>

----------------------------------------------------------------------------
(* The rescan. *)

Go(s, w) == step' = s /\ work' = w

Abort == /\ Go("idle", {})
         /\ writes' = [i \in {} |-> 0]

StartRescan ==
    /\ step = "idle"
    /\ Go("scan", tree \cup torn)
    /\ UNCHANGED <<save, tree, torn, list, writes, refiled, owed, cleanupFaults>>

\* A payload that is not there ends the rescan, before it reloads.
ScanFails(i) ==
    /\ step = "scan" /\ i \in work
    /\ i \notin tree
    /\ Abort
    /\ UNCHANGED <<save, tree, torn, list, refiled, owed, cleanupFaults>>

RemoveDirectory(i) ==
    \/ /\ tree' = tree \ {i} /\ torn' = torn \ {i}
       /\ work' = work \ {i}
       /\ UNCHANGED <<step, writes, cleanupFaults>>
    \/ /\ i \in tree /\ CleanupFault
       /\ tree' = tree \ {i} /\ torn' = torn \cup {i}
       /\ Abort

ScanPrunes(i) ==
    /\ step = "scan" /\ i \in work \cap tree
    /\ save[i].sha \in Rejected
    /\ RemoveDirectory(i)
    /\ UNCHANGED <<save, list, refiled, owed>>

\* applyNormalizedSaveToRecord takes every field from the normalised input,
\* and the rescan's input leaves out those that name a projection.
Normalized(i) == [save[i] EXCEPT !.key = Detected[@], !.projection = FALSE]

\* Moved to the directory of its key, and its metadata written.
ScanRewrites(i) ==
    /\ step = "scan" /\ i \in work \cap tree
    /\ save[i].sha \notin Rejected
    /\ Normalized(i) # save[i]
    /\ \/ /\ save' = [save EXCEPT ![i] = Normalized(i)]
          /\ refiled' = (refiled \/ Detected[save[i].key] # save[i].key)
          /\ Go("scan", work \ {i})
          /\ UNCHANGED <<writes, cleanupFaults>>
       \/ CleanupFault /\ Abort /\ UNCHANGED <<save, refiled>>
    /\ UNCHANGED <<tree, torn, list, owed>>

ScanLeaves(i) ==
    /\ step = "scan" /\ i \in work \cap tree
    /\ save[i].sha \notin Rejected
    /\ Normalized(i) = save[i]
    /\ Go("scan", work \ {i})
    /\ UNCHANGED <<save, tree, torn, list, writes, refiled, owed, cleanupFaults>>

ScanEnds ==
    /\ step = "scan" /\ work = {}
    /\ list' = Loaded
    /\ Go("plan", {})
    /\ UNCHANGED <<save, tree, torn, writes, refiled, owed, cleanupFaults>>

Candidates == {i \in DOMAIN list \cap tree : /\ ~list[i].rollback
                                             /\ ~list[i].projection}
InTrack(i) == {j \in Candidates : TrackOf[list[j].key] = TrackOf[list[i].key]}
Alike(i) == {j \in InTrack(i) : list[j].sha = list[i].sha}
Older(i, j) == list[i].at < list[j].at \/ (list[i].at = list[j].at /\ i < j)

\* Mutant: the latest of the track survives, whatever its content.
SurvivorIsLatest(i) == LatestOf(InTrack(i))

\* selectSaveRecordDuplicateSurvivor: the latest of the track if it has this
\* content, else the oldest that has.
Survivor(i) ==
    IF LatestOf(InTrack(i)) \in Alike(i) THEN LatestOf(InTrack(i))
    ELSE CHOOSE j \in Alike(i) : \A n \in Alike(i) \ {j} : Older(j, n)

Plan ==
    /\ step = "plan"
    /\ Go("remove", {i \in Candidates : Cardinality(Alike(i)) > 1 /\ i # Survivor(i)})
    /\ UNCHANGED <<save, tree, torn, list, writes, refiled, owed, cleanupFaults>>

RemoveDuplicate(i) ==
    /\ step = "remove" /\ i \in work
    /\ RemoveDirectory(i)
    /\ UNCHANGED <<save, list, refiled, owed>>

RemovalEnds ==
    /\ step = "remove" /\ work = {}
    /\ Go("reindex", {})
    /\ UNCHANGED <<save, tree, torn, list, writes, refiled, owed, cleanupFaults>>

\* Mutant: numbers start at 0.
NumberFromZero(i, kept) ==
    Cardinality({j \in kept : list[j].key = list[i].key /\ Older(j, i)})

Number(i, kept) ==
    Cardinality({j \in kept : list[j].key = list[i].key /\ Older(j, i)}) + 1

\* The list still has what was removed; those the plan had are left out, and
\* what others removed meanwhile is gone from it as well.
Reindex ==
    LET kept == DOMAIN list \cap (tree \cup torn)
    IN  /\ step = "reindex"
        /\ writes' = [i \in {j \in kept : list[j].ver # Number(j, kept)} |->
                        Number(i, kept)]
        /\ Go("write", {})
        /\ UNCHANGED <<save, tree, torn, list, refiled, owed, cleanupFaults>>

\* Key by key, in the order of the numbers.
WriteMetadata(i) ==
    LET rest == [j \in DOMAIN writes \ {i} |-> writes[j]]
    IN  /\ step = "write" /\ i \in DOMAIN writes
        /\ \A j \in DOMAIN rest : save[j].key = save[i].key => writes[j] > writes[i]
        /\ \/ /\ i \in tree \cup torn
              /\ save' = [save EXCEPT ![i].ver = writes[i]]
              /\ writes' = rest
              /\ UNCHANGED <<step, work, cleanupFaults>>
           \/ /\ i \notin tree \cup torn
              /\ Abort /\ UNCHANGED <<save, cleanupFaults>>
           \/ CleanupFault /\ Abort /\ UNCHANGED save
        /\ UNCHANGED <<tree, torn, list, refiled, owed>>

RescanEnds ==
    /\ step = "write" /\ DOMAIN writes = {}
    /\ list' = Loaded
    /\ Go("idle", {})
    /\ UNCHANGED <<save, tree, torn, writes, refiled, owed, cleanupFaults>>

RestartCleanup ==
    /\ step # "idle"
    /\ Abort
    /\ list' = Loaded
    /\ UNCHANGED <<save, tree, torn, refiled, owed, cleanupFaults>>

CleanupNext ==
    \/ \E k \in Keys, c \in Hashes : UploadSave(k, c)
    \/ \E i \in Ids : \/ Rollback(i) \/ Delete(i)
                      \/ ScanFails(i) \/ ScanPrunes(i) \/ ScanRewrites(i) \/ ScanLeaves(i)
                      \/ RemoveDuplicate(i) \/ WriteMetadata(i)
    \/ StartRescan \/ ScanEnds \/ Plan \/ RemovalEnds \/ Reindex \/ RescanEnds
    \/ RestartCleanup

CleanupSpec == CleanupInit /\ [][CleanupNext]_cleanupVars

----------------------------------------------------------------------------
\* Whatever happens during a rescan and wherever it stops, a content that
\* nobody deleted and this release accepts still has a revision; and the
\* revisions of a key keep distinct numbers in the order they were created,
\* unless a client gave a creation time of its own or a save changed its key
\* (rescanSaves, cleanupDuplicateSaveHistory, reindexSaveVersionsAfterCleanup).
CleanupKeepsHistory ==
    /\ owed \subseteq {save[i].sha : i \in tree}
    /\ (~refiled /\ \A i \in Ids : save[i] # NoSave => save[i].at = i) =>
         \A i, j \in tree : (i < j /\ save[i].key = save[j].key)
                              => save[i].ver < save[j].ver
====
