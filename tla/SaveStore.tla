------------------------------ MODULE SaveStore ------------------------------
(***************************************************************************)
(* The versioned save store of backend/cmd/server: save directories on     *)
(* disk (payload.* and metadata.json), the read model kept in memory       *)
(* (app.saveRecords and app.saveIndex) and the request handlers that       *)
(* upload, roll back, delete and reload saves concurrently.                *)
(*                                                                         *)
(* app.mu protects the read model only. No lock spans a request: a handler *)
(* looks at memory, at the disk and at memory again, so each action below  *)
(* is one critical section or one file-system operation, and the program   *)
(* counter pc[h] says which one handler h executes next.                   *)
(*                                                                         *)
(* A save id is save-<CreatedAt in nanoseconds>-<sha>. Two reads of the     *)
(* clock are taken to differ, so a save is identified by the number of the *)
(* clock read that named it, and these numbers order CreatedAt. An upload  *)
(* reads the clock after the scan of the directory, a rollback before it.  *)
(***************************************************************************)
EXTENDS Naturals, FiniteSets

CONSTANTS
  Handlers,  (* Goroutines serving requests; one request each at a time.    *)
  Keys,      (* Version keys: one per (rom_sha1, slotName).                 *)
  Tracks,    (* Canonical tracks: one per system, title and region.        *)
  TrackOf,   (* The track a version key belongs to.                        *)
  Payloads,  (* Payload contents, standing for their SHA-256.              *)
  MaxSaves,  (* How many saves are ever named. Bounds the model.           *)
  MaxRemoved (* How many of them anybody deletes. Bounds the model.        *)

ASSUME TracksAssumption == TrackOf \in [Keys -> Tracks]
ASSUME BoundsAssumption == MaxSaves \in Nat /\ MaxRemoved \in Nat

SaveIds == 1 .. MaxSaves
NoSave == 0

VARIABLES
  clock,        (* How often the clock was read to name a save.            *)
  rec,          (* Contents of the save with id i once it is written.      *)
  payload,      (* Ids whose payload file exists on disk.                   *)
  metadata,     (* Ids whose metadata.json exists on disk.                  *)
  saveRecords,  (* How often save i occurs in app.saveRecords.              *)
  saveIndex,    (* app.saveIndex.latestReadableByKey.                       *)
  pc,           (* What each handler does next.                             *)
  job,          (* The save a handler is about to create.                   *)
  held,         (* Ids a handler holds from an earlier look: the snapshot   *)
                (* for the duplicate check, the directories still to remove *)
                (* or the records loaded from disk.                         *)
  acked,        (* History: ids a success response has named.               *)
  removed       (* History: ids whose directory somebody began to remove.   *)

disk == <<payload, metadata>>
memory == <<saveRecords, saveIndex>>
history == <<acked, removed>>
vars == <<clock, rec, disk, memory, pc, job, held, history>>

Nothing == [key |-> NoSave]

Versions == 0 .. MaxSaves + 1
Save == [key : Keys, sha : Payloads, ver : Versions, rollback : BOOLEAN]

(* conditional: the client named the revision (base) it wants to replace,   *)
(* or asked to create the line (base = NoSave).                             *)
Job == [key : Keys, sha : Payloads, rollback : BOOLEAN, conditional : BOOLEAN,
        base : 0 .. MaxSaves, ver : Versions, id : 0 .. MaxSaves]

UploadSteps == {"snapshot", "dedupe", "load", "writePayload", "writeMetadata", "prepend"}
ReloadSteps == {"remove", "reload", "assign"}
Steps == {"idle"} \cup UploadSteps \cup ReloadSteps

TypeOK ==
  /\ clock \in 0 .. MaxSaves
  /\ rec \in [SaveIds -> Save \cup {Nothing}]
  /\ payload \subseteq SaveIds /\ metadata \subseteq SaveIds
  /\ saveRecords \in [SaveIds -> Nat]
  /\ saveIndex \in [Keys -> 0 .. MaxSaves]
  /\ pc \in [Handlers -> Steps]
  /\ job \in [Handlers -> Job \cup {Nothing}]
  /\ held \in [Handlers -> SUBSET SaveIds]
  /\ acked \subseteq SaveIds /\ removed \subseteq SaveIds
-----------------------------------------------------------------------------
(***************************************************************************)
(* The order of revisions and the lookups that rest on it.                 *)
(***************************************************************************)
SaveRecordSortsAfter(r, i, j) ==
  \/ r[i].ver > r[j].ver
  \/ r[i].ver = r[j].ver /\ i > j

NewestOf(r, S) ==
  IF S = {} THEN NoSave
  ELSE CHOOSE i \in S : \A j \in S \ {i} : SaveRecordSortsAfter(r, i, j)

Newest(S) == NewestOf(rec, S)

Listed == {i \in SaveIds : saveRecords[i] > 0}

(* What the linear scan over app.saveRecords considers for key k. *)
Readable(k) == {i \in Listed \cap payload : rec[i].key = k}

(* buildSaveRecordIndex over a list of records, which stats each payload.  *)
BuildIndex(listed) ==
  [k \in Keys |-> Newest({i \in listed \cap payload : rec[i].key = k})]

(* The cached record while its payload is still there, else the scan.      *)
LatestReadable(k) ==
  IF saveIndex[k] \in payload THEN saveIndex[k] ELSE Newest(Readable(k))

(* Mutant: If-None-Match is not looked at.                                 *)
PreconditionIgnoringCreateOnly(latest, base, createOnly, strict) ==
  \/ latest = NoSave /\ base = NoSave
  \/ latest # NoSave /\ (base = latest \/ (base = NoSave /\ ~strict))

PreconditionAllows(latest, base, createOnly, strict) ==
  \/ latest = NoSave /\ base = NoSave
  \/ /\ latest # NoSave /\ ~createOnly
     /\ base = latest \/ (base = NoSave /\ ~strict)

(* The records of the duplicate check's two scopes, among those given.     *)
VersionScope(S, k) == {i \in S : rec[i].key = k}
TrackScope(S, k) == {i \in S : TrackOf[rec[i].key] = TrackOf[k]}
HasContent(S, p) == \E i \in S : rec[i].sha = p

(* Mutant: only the slot is looked at.                                     *)
DuplicateInSlot(S, k, p) ==
  IF HasContent(VersionScope(S, k), p) THEN VersionScope(S, k) ELSE {}

(* The scope whose duplicate answers the upload, or {} when there is none. *)
DuplicateScope(S, k, p) ==
  IF HasContent(VersionScope(S, k), p) THEN VersionScope(S, k)
  ELSE IF HasContent(TrackScope(S, k), p) THEN TrackScope(S, k)
  ELSE {}

(* Mutant: reuses the newest version number.                               *)
SameSaveVersion(existing, k, v) ==
  /\ \A i \in existing : rec[i].key = k => v >= rec[i].ver
  /\ v = 1 \/ \E i \in existing : rec[i].key = k /\ v = rec[i].ver

NextSaveVersion(existing, k, v) ==
  /\ \A i \in existing : rec[i].key = k => v > rec[i].ver
  /\ v = 1 \/ \E i \in existing : rec[i].key = k /\ v = rec[i].ver + 1

Goto(h, step) == pc' = [pc EXCEPT ![h] = step]

(* The response is sent; nothing of the request is kept. *)
Reply(h) ==
  /\ Goto(h, "idle")
  /\ job' = [job EXCEPT ![h] = Nothing]
  /\ held' = [held EXCEPT ![h] = {}]
-----------------------------------------------------------------------------
(***************************************************************************)
(* Uploads: precondition, duplicate check, creation.                       *)
(***************************************************************************)

(* handleSaves up to enforceSaveWritePrecondition. A refused upload changes *)
(* nothing. The JSON batch has no precondition: it is the upload without a *)
(* base by a client that is not strict.                                    *)
Upload(h, k, p, base, createOnly, strict) ==
  /\ pc[h] = "idle"
  /\ PreconditionAllows(LatestReadable(k), base, createOnly, strict)
  /\ job' = [job EXCEPT ![h] =
       [key |-> k, sha |-> p, rollback |-> FALSE, base |-> base,
        conditional |-> createOnly \/ base # NoSave, ver |-> 0, id |-> NoSave]]
  /\ Goto(h, "snapshot")
  /\ UNCHANGED <<clock, rec, disk, memory, held, history>>

(* snapshotSaveRecords copies the list under app.mu. *)
Snapshot(h) ==
  /\ pc[h] = "snapshot"
  /\ held' = [held EXCEPT ![h] = Listed]
  /\ Goto(h, "dedupe")
  /\ UNCHANGED <<clock, rec, disk, memory, job, history>>

(* checkUploadDuplicate on that copy; payload files are looked up now.     *)
NoDuplicate(h) ==
  /\ pc[h] = "dedupe"
  /\ DuplicateScope(held[h] \cap payload, job[h].key, job[h].sha) = {}
  /\ held' = [held EXCEPT ![h] = {}]
  /\ Goto(h, "load")
  /\ UNCHANGED <<clock, rec, disk, memory, job, history>>

(* The newest revision has this content: success, naming that revision.    *)
IgnoreDuplicate(h) ==
  LET scope == DuplicateScope(held[h] \cap payload, job[h].key, job[h].sha)
  IN  /\ pc[h] = "dedupe"
      /\ scope # {}
      /\ rec[Newest(scope)].sha = job[h].sha
      /\ acked' = acked \cup {Newest(scope)}
      /\ Reply(h)
      /\ UNCHANGED <<clock, rec, disk, memory, removed>>

(* An older revision has this content: 409 stale_historical_duplicate.     *)
RejectStale(h) ==
  LET scope == DuplicateScope(held[h] \cap payload, job[h].key, job[h].sha)
  IN  /\ pc[h] = "dedupe"
      /\ scope # {}
      /\ rec[Newest(scope)].sha # job[h].sha
      /\ Reply(h)
      /\ UNCHANGED <<clock, rec, disk, memory, history>>

(* handleSaveRollback: read the payload of a listed save and create a copy *)
(* of it, past the precondition and the duplicate check.                   *)
Rollback(h, i) ==
  /\ pc[h] = "idle"
  /\ i \in Listed \cap payload
  /\ job' = [job EXCEPT ![h] =
       [key |-> rec[i].key, sha |-> rec[i].sha, rollback |-> TRUE, base |-> NoSave,
        conditional |-> FALSE, ver |-> 0, id |-> clock + 1]]
  /\ clock < MaxSaves
  /\ clock' = clock + 1
  /\ Goto(h, "load")
  /\ UNCHANGED <<rec, disk, memory, held, history>>

(* saveStore.create, step by step. The version is one more than the newest *)
(* metadata.json of the key that the scan of the root finds. The clock is   *)
(* read next unless the request brought the time with it.                  *)
LoadForCreate(h) ==
  LET i == IF job[h].id = NoSave THEN clock + 1 ELSE job[h].id
  IN  /\ pc[h] = "load"
      /\ i \in SaveIds
      /\ \E v \in Versions :
           /\ NextSaveVersion(metadata, job[h].key, v)
           /\ job' = [job EXCEPT ![h] = [@ EXCEPT !.ver = v, !.id = i]]
      /\ clock' = IF job[h].id = NoSave THEN i ELSE clock
      /\ Goto(h, "writePayload")
      /\ UNCHANGED <<rec, disk, memory, held, history>>

(* What metadata.json will say. *)
NewRecord(j) == [key |-> j.key, sha |-> j.sha, ver |-> j.ver, rollback |-> j.rollback]

(* Mutant: the record loses its id.                                        *)
WritePayloadWithoutId(h) ==
  /\ pc[h] = "writePayload"
  /\ rec' = [rec EXCEPT ![job[h].id] = NewRecord(job[h])]
  /\ payload' = payload \cup {job[h].id}
  /\ job' = [job EXCEPT ![h].id = NoSave]
  /\ Goto(h, "writeMetadata")
  /\ UNCHANGED <<clock, metadata, memory, held, history>>

(* Mutant: a failed payload write is ignored.                              *)
WriteNoPayload(h) ==
  /\ pc[h] = "writePayload"
  /\ rec' = [rec EXCEPT ![job[h].id] = NewRecord(job[h])]
  /\ Goto(h, "writeMetadata")
  /\ UNCHANGED <<clock, disk, memory, job, held, history>>

(* Make the directory and write payload.* atomically.                      *)
WritePayload(h) ==
  /\ pc[h] = "writePayload"
  /\ rec' = [rec EXCEPT ![job[h].id] = NewRecord(job[h])]
  /\ payload' = payload \cup {job[h].id}
  /\ Goto(h, "writeMetadata")
  /\ UNCHANGED <<clock, metadata, memory, job, held, history>>

(* Mutant: a failed metadata write is ignored.                             *)
WriteNoMetadata(h) ==
  /\ pc[h] = "writeMetadata"
  /\ Goto(h, "prepend")
  /\ UNCHANGED <<clock, rec, disk, memory, job, held, history>>

(* metadata.json appears by rename: from here on load() finds the save.    *)
WriteMetadata(h) ==
  /\ pc[h] = "writeMetadata"
  /\ metadata' = metadata \cup {job[h].id}
  /\ Goto(h, "prepend")
  /\ UNCHANGED <<clock, rec, payload, memory, job, held, history>>

(* Mutant: the index is not rebuilt.                                       *)
PrependOnly(h) ==
  /\ pc[h] = "prepend"
  /\ saveRecords' = [saveRecords EXCEPT ![job[h].id] = @ + 1]
  /\ acked' = acked \cup {job[h].id}
  /\ Reply(h)
  /\ UNCHANGED <<clock, rec, disk, saveIndex, removed>>

(* createSave under app.mu: prepend, rebuild the index, then answer 200.   *)
Prepend(h) ==
  LET i == job[h].id
  IN  /\ pc[h] = "prepend"
      /\ saveRecords' = [saveRecords EXCEPT ![i] = @ + 1]
      /\ saveIndex' = BuildIndex(Listed \cup {i})
      /\ acked' = acked \cup {i}
      /\ Reply(h)
      /\ UNCHANGED <<clock, rec, disk, removed>>

(* Mutant: a failed metadata write is answered with success.               *)
CreateFailsQuietly(h) ==
  /\ pc[h] \in {"writePayload", "writeMetadata"}
  /\ Reply(h)
  /\ acked' = acked \cup ({job[h].id} \ {NoSave})
  /\ UNCHANGED <<clock, rec, disk, memory, removed>>

(* mkdir or a write fails: 500, and what is on disk stays there.           *)
CreateFails(h) ==
  /\ pc[h] \in {"writePayload", "writeMetadata"}
  /\ Reply(h)
  /\ UNCHANGED <<clock, rec, disk, memory, history>>
-----------------------------------------------------------------------------
(***************************************************************************)
(* Deletions and reloads.                                                  *)
(***************************************************************************)

(* The delete handlers pick their targets from a snapshot of the list: one *)
(* id, several ids or all saves of a game.                                 *)
Delete(h, targets) ==
  /\ pc[h] = "idle"
  /\ targets # {} /\ targets \subseteq Listed
  /\ Cardinality(removed \cup targets) <= MaxRemoved
  /\ held' = [held EXCEPT ![h] = targets]
  /\ removed' = removed \cup targets
  /\ Goto(h, "remove")
  /\ UNCHANGED <<clock, rec, disk, memory, job, acked>>

(* os.RemoveAll unlinks the files of one directory in any order. The list  *)
(* is walked newest first.                                                 *)
Current(h) == CHOOSE i \in held[h] : \A j \in held[h] : j <= i

(* Mutant: removes the parent, the directory of the whole game.            *)
UnlinkGame(h) ==
  /\ pc[h] = "remove" /\ held[h] # {}
  /\ LET game == {i \in payload \cup metadata : rec[i].key = rec[Current(h)].key}
     IN  payload' = payload \ game /\ metadata' = metadata \ game
  /\ UNCHANGED <<clock, rec, memory, pc, job, held, history>>

UnlinkFile(h) ==
  /\ pc[h] = "remove" /\ held[h] # {}
  /\ \/ /\ Current(h) \in payload
        /\ payload' = payload \ {Current(h)}
        /\ UNCHANGED metadata
     \/ /\ Current(h) \in metadata
        /\ metadata' = metadata \ {Current(h)}
        /\ UNCHANGED payload
  /\ UNCHANGED <<clock, rec, memory, pc, job, held, history>>

DirectoryGone(h) ==
  /\ pc[h] = "remove" /\ held[h] # {}
  /\ Current(h) \notin payload \cup metadata
  /\ held' = [held EXCEPT ![h] = @ \ {Current(h)}]
  /\ IF held'[h] = {} THEN Goto(h, "reload") ELSE UNCHANGED pc
  /\ UNCHANGED <<clock, rec, disk, memory, job, history>>

(* RemoveAll fails: 500 without a reload, the directory stays half removed.*)
RemoveFails(h) ==
  /\ pc[h] = "remove"
  /\ Reply(h)
  /\ UNCHANGED <<clock, rec, disk, memory, history>>

(* A maintenance request that only reloads.                                *)
Reload(h) ==
  /\ pc[h] = "idle"
  /\ Goto(h, "reload")
  /\ UNCHANGED <<clock, rec, disk, memory, job, held, history>>

(* reloadSavesFromDisk reads the disk without a lock ...                   *)
LoadForReload(h) ==
  /\ pc[h] = "reload"
  /\ held' = [held EXCEPT ![h] = metadata]
  /\ Goto(h, "assign")
  /\ UNCHANGED <<clock, rec, disk, memory, job, history>>

(* Mutant: adds the loaded records to the list.                            *)
AppendLoaded(h) ==
  /\ pc[h] = "assign"
  /\ saveRecords' = [i \in SaveIds |-> saveRecords[i] + IF i \in held[h] THEN 1 ELSE 0]
  /\ saveIndex' = BuildIndex(held[h])
  /\ Reply(h)
  /\ UNCHANGED <<clock, rec, disk, history>>

(* ... and later replaces the list and the index under app.mu.             *)
AssignLoaded(h) ==
  /\ pc[h] = "assign"
  /\ saveRecords' = [i \in SaveIds |-> IF i \in held[h] THEN 1 ELSE 0]
  /\ saveIndex' = BuildIndex(held[h])
  /\ Reply(h)
  /\ UNCHANGED <<clock, rec, disk, history>>

(* load() gives up when a file it is about to read disappears: a directory *)
(* that another handler is removing fails the whole scan.                  *)
LoadFails(h) ==
  /\ pc[h] \in {"load", "reload"}
  /\ \E g \in Handlers \ {h} : pc[g] = "remove"
  /\ Reply(h)
  /\ UNCHANGED <<clock, rec, disk, memory, history>>

(* The process dies and starts again: handlers and memory are lost, the    *)
(* list is loaded from disk.                                               *)
Restart ==
  /\ pc' = [h \in Handlers |-> "idle"]
  /\ job' = [h \in Handlers |-> Nothing]
  /\ held' = [h \in Handlers |-> {}]
  /\ saveRecords' = [i \in SaveIds |-> IF i \in metadata THEN 1 ELSE 0]
  /\ saveIndex' = BuildIndex(metadata)
  /\ UNCHANGED <<clock, rec, disk, history>>
-----------------------------------------------------------------------------
Init ==
  /\ clock = 0 /\ rec = [i \in SaveIds |-> Nothing]
  /\ payload = {} /\ metadata = {}
  /\ saveRecords = [i \in SaveIds |-> 0]
  /\ saveIndex = [k \in Keys |-> NoSave]
  /\ pc = [h \in Handlers |-> "idle"]
  /\ job = [h \in Handlers |-> Nothing]
  /\ held = [h \in Handlers |-> {}]
  /\ acked = {} /\ removed = {}

Create(h) ==
  \/ LoadForCreate(h) \/ WritePayload(h) \/ WriteMetadata(h)
  \/ Prepend(h) \/ CreateFails(h)

Deduplicate(h) ==
  \/ Snapshot(h) \/ NoDuplicate(h) \/ IgnoreDuplicate(h) \/ RejectStale(h)

Remove(h) == UnlinkFile(h) \/ DirectoryGone(h) \/ RemoveFails(h)

Refresh(h) == LoadForReload(h) \/ AssignLoaded(h) \/ LoadFails(h)

Request(h) ==
  \/ \E k \in Keys, p \in Payloads, createOnly, strict \in BOOLEAN :
       \E base \in 0 .. clock : Upload(h, k, p, base, createOnly, strict)
  \/ \E i \in SaveIds : Rollback(h, i)
  \/ \E targets \in SUBSET SaveIds : Delete(h, targets)
  \/ Reload(h)

Next ==
  \/ \E h \in Handlers :
       Request(h) \/ Deduplicate(h) \/ Create(h) \/ Remove(h) \/ Refresh(h)
  \/ Restart

Spec == Init /\ [][Next]_vars
-----------------------------------------------------------------------------
(***************************************************************************)
(* Properties that hold whatever the handlers do.                          *)
(***************************************************************************)

(* A record that a scan of the disk finds has its payload, unless somebody *)
(* began to remove the directory: create writes metadata.json last.        *)
MetadataHasPayload == metadata \ removed \subseteq payload

(* What a success response named survives every interleaving, failed write *)
(* and restart until somebody deletes it.                                  *)
AcknowledgedSavesAreStored == acked \ removed \subseteq metadata \cap payload

(* The read model lists no save that is not on disk, but for those being   *)
(* removed: a reload may be late, never ahead.                             *)
ListedSavesAreStored == Listed \ removed \subseteq metadata \cap payload

(* The index is only a shortcut: whatever was deleted since it was built,  *)
(* the latest lookup answers what a scan of the list and disk would.       *)
LatestIsNewest == \A k \in Keys : LatestReadable(k) = Newest(Readable(k))

(***************************************************************************)
(* Properties that hold when requests do not overlap. Two handlers break   *)
(* each of them.                                                           *)
(***************************************************************************)

(* Two stored revisions of a key never share a version number.             *)
VersionsAreUnique ==
  \A i, j \in metadata :
    i # j /\ rec[i].key = rec[j].key => rec[i].ver # rec[j].ver

(* Uploading a content twice does not add a revision: readable revisions   *)
(* of one track differ, except where a rollback copied one.                *)
ContentsAreUnique ==
  \A i, j \in Listed \cap payload :
    /\ i # j
    /\ TrackOf[rec[i].key] = TrackOf[rec[j].key]
    /\ ~rec[i].rollback /\ ~rec[j].rollback
    => rec[i].sha # rec[j].sha

(* Between requests the list shows every save on disk, once.               *)
ListMatchesDisk ==
  (\A h \in Handlers : pc[h] = "idle") =>
    \A i \in SaveIds \ removed : saveRecords[i] = (IF i \in metadata THEN 1 ELSE 0)

(* A conditional upload is acknowledged only while no other revision newer  *)
(* than the one the client named is visible: no update is lost.            *)
ReplacesItsBase(h) ==
  LET base == job[h].base
      others == Readable(job[h].key) \ {base, job[h].id}
  IN  pc[h] = "prepend" /\ pc'[h] = "idle" /\ job[h].id \in acked' /\ job[h].conditional
        => \A i \in others :
             base # NoSave /\ rec[base] # Nothing /\ SaveRecordSortsAfter(rec, base, i)

ConditionalWritesReplaceTheirBase == [][\A h \in Handlers : ReplacesItsBase(h)]_vars

(* The store implements the ledger: files appear and vanish one at a time, *)
(* lists are late and handlers die, yet a save is stored once and for good.*)
Ledger == INSTANCE SaveLedger WITH
  Saves <- SaveIds, stored <- metadata \cap payload, promised <- acked, retired <- removed

ImplementsLedger == Ledger!Spec
=============================================================================
