----------------------- MODULE SaveStoreInTurnProofs -----------------------
(***************************************************************************)
(* What the save store keeps while it serves one request at a time, for    *)
(* any number of handlers, keys, tracks, payloads and saves, and wherever  *)
(* a request fails or the process stops.                                   *)
(*                                                                         *)
(* A request looks, goes on, and writes long after it looked. The          *)
(* invariant says of each step of a request what of its look is still      *)
(* true: the copy of the list is the list, the version is above those on   *)
(* disk, the content is on no listed save of the track, the base is the    *)
(* newest readable revision of its key. With it the state can be read off  *)
(* between any two steps; it needs the invariant of SaveStoreProofs, that  *)
(* the save being made is known to nobody yet.                             *)
(***************************************************************************)
EXTENDS SaveStoreInTurn, SaveStoreProofs

CreateSteps == {"load", "writePayload", "writeMetadata", "prepend"}

VersionIsNew(h) ==
  \A i \in metadata : rec[i].key = job[h].key => rec[i].ver < job[h].ver

ContentIsNew(h) ==
  \A i \in Listed \cap payload :
    TrackOf[rec[i].key] = TrackOf[job[h].key] => rec[i].sha # job[h].sha

BaseIsNewest(h) ==
  \A i \in Readable(job[h].key) \ {job[h].base} :
    /\ job[h].base # NoSave /\ rec[job[h].base] \in Save
    /\ SaveRecordSortsAfter(rec, job[h].base, i)

(* What a request that is at a step of its own may rely on.                *)
LooksHold(h) ==
  /\ pc[h] = "dedupe" => held[h] = Listed
  /\ pc[h] = "assign" => held[h] = metadata
  /\ pc[h] \in {"writePayload", "writeMetadata"} => VersionIsNew(h)
  /\ pc[h] \in CreateSteps => job[h].rollback \/ ContentIsNew(h)
  /\ pc[h] \in {"writeMetadata", "prepend"} => rec[job[h].id] = NewRecord(job[h])
  /\ pc[h] = "prepend" => job[h].id \notin Listed
  /\ pc[h] \in UploadSteps /\ job[h].conditional => BaseIsNewest(h)

(* The save that is on disk and not listed yet.                            *)
ToList == {job[h].id : h \in {g \in Handlers : pc[g] = "prepend"}}

StoreInTurn ==
  /\ \A i \in SaveIds : saveRecords[i] <= 1
  /\ VersionsAreUnique
  /\ ContentsAreUnique

InTurn ==
  /\ OneAtATime
  /\ StoreInTurn
  /\ metadata \subseteq Listed \cup ToList
  /\ \A h \in Handlers : LooksHold(h)
-----------------------------------------------------------------------------
(***************************************************************************)
(* A step is of the one request that is served.                            *)
(***************************************************************************)
LEMMA OthersAreIdle ==
  ASSUME IInv, OneAtATime, OneAtATime', NEW h \in Handlers, NEW step,
         pc' = [pc EXCEPT ![h] = step], pc[h] # "idle" \/ step # "idle"
  PROVE  \A g \in Handlers \ {h} : pc[g] = "idle" /\ pc'[g] = "idle"
BY DEF OneAtATime, IInv, TypeOK

LEMMA IdleLooksHold ==
  ASSUME NEW h \in Handlers, pc[h] = "idle"
  PROVE  LooksHold(h)
BY DEF LooksHold, CreateSteps, UploadSteps

(* What has to be shown of the state that h leaves behind.                 *)
LEMMA StepInTurn ==
  ASSUME IInv, InTurn, OneAtATime', NEW h \in Handlers, NEW step,
         pc' = [pc EXCEPT ![h] = step], pc[h] # "idle" \/ step # "idle",
         StoreInTurn', LooksHold(h)',
         metadata' \subseteq Listed' \cup (IF step = "prepend" THEN {job'[h].id} ELSE {})
  PROVE  InTurn'
<1>1. \A g \in Handlers \ {h} : pc'[g] = "idle"
  BY OthersAreIdle DEF InTurn
<1>2. \A g \in Handlers \ {h} : LooksHold(g)'
  BY <1>1 DEF LooksHold, CreateSteps, UploadSteps
<1>3. pc'[h] = step
  BY DEF IInv, TypeOK
<1>4. step = "prepend" => job'[h].id \in ToList'
  BY <1>3 DEF ToList
<1> QED BY <1>2, <1>4 DEF InTurn

(* What the state before says of the step that h is at.                    *)
LEMMA AtMostOneToList ==
  ASSUME IInv, InTurn, NEW h \in Handlers, pc[h] # "idle"
  PROVE  metadata \subseteq Listed \cup (IF pc[h] = "prepend" THEN {job[h].id} ELSE {})
<1>1. ToList \subseteq IF pc[h] = "prepend" THEN {job[h].id} ELSE {}
  BY DEF InTurn, OneAtATime, ToList
<1> QED BY <1>1 DEF InTurn

(* Steps that leave the disk and the list alone.                           *)
LEMMA QuietStep ==
  ASSUME IInv, InTurn, OneAtATime', NEW h \in Handlers, NEW step,
         pc' = [pc EXCEPT ![h] = step], pc[h] # "idle" \/ step # "idle",
         pc[h] # "prepend", step # "prepend",
         UNCHANGED <<rec, disk, saveRecords>>, LooksHold(h)'
  PROVE  InTurn'
<1>1. UNCHANGED <<rec, payload, metadata, saveRecords>> /\ Listed' = Listed
  BY DEF disk, Listed
<1>2. StoreInTurn'
  BY <1>1 DEF InTurn, StoreInTurn, VersionsAreUnique, ContentsAreUnique
<1>3. metadata \subseteq Listed
  <2>1. \A g \in Handlers \ {h} : pc[g] = "idle"
    BY OthersAreIdle DEF InTurn
  <2>2. ToList = {}
    BY <2>1 DEF ToList
  <2> QED BY <2>2 DEF InTurn
<1> QED BY <1>1, <1>2, <1>3, StepInTurn

LEMMA ReplyInTurn ==
  ASSUME IInv, InTurn, OneAtATime', NEW h \in Handlers, Reply(h),
         pc[h] \notin {"idle", "prepend"}, UNCHANGED <<rec, disk, saveRecords>>
  PROVE  InTurn'
<1>1. pc' = [pc EXCEPT ![h] = "idle"] /\ pc'[h] = "idle"
  BY DEF Reply, Goto, IInv, TypeOK
<1>2. LooksHold(h)'
  BY <1>1 DEF LooksHold, CreateSteps, UploadSteps
<1> QED BY <1>1, <1>2, QuietStep
-----------------------------------------------------------------------------
(***************************************************************************)
(* Uploads up to the creation of the save, and rollbacks.                  *)
(***************************************************************************)
(* The precondition lets a client name the newest readable revision, or    *)
(* none if there is none.                                                  *)
LEMMA AllowedBaseIsNewest ==
  ASSUME IInv, LatestIsNewest, NEW k \in Keys, NEW base, NEW createOnly \in BOOLEAN,
         NEW strict \in BOOLEAN, createOnly \/ base # NoSave,
         PreconditionAllows(LatestReadable(k), base, createOnly, strict),
         NEW i \in Readable(k) \ {base}
  PROVE  base # NoSave /\ rec[base] \in Save /\ SaveRecordSortsAfter(rec, base, i)
<1> DEFINE n == NewestOf(rec, Readable(k))
<1>1. LatestReadable(k) = n
  BY DEF LatestIsNewest, Newest
<1>2. Written(rec, Readable(k)) /\ Readable(k) # {}
  BY ReadableAreWritten
<1>3. n \in Readable(k) /\ \A j \in Readable(k) \ {n} : SaveRecordSortsAfter(rec, n, j)
  BY <1>2, NewestInSet
<1>4. n \in SaveIds /\ rec[n] \in Save
  BY <1>2, <1>3 DEF Written
<1> HIDE DEF n
<1>5. n # NoSave
  BY <1>4 DEF SaveIds, NoSave
<1>6. base = n
  BY <1>1, <1>5 DEF PreconditionAllows
<1> QED BY <1>3, <1>4, <1>5, <1>6

LEMMA UploadInTurn ==
  ASSUME IInv, LatestIsNewest, InTurn, OneAtATime', NEW h \in Handlers, NEW k \in Keys,
         NEW p \in Payloads, NEW base \in 0 .. clock, NEW createOnly \in BOOLEAN,
         NEW strict \in BOOLEAN, Upload(h, k, p, base, createOnly, strict)
  PROVE  InTurn'
<1>1. pc' = [pc EXCEPT ![h] = "snapshot"] /\ pc'[h] = "snapshot" /\ pc[h] = "idle"
  BY DEF Upload, Goto, IInv, TypeOK
<1>2. /\ job'[h].key = k /\ job'[h].base = base
      /\ job'[h].conditional = (createOnly \/ base # NoSave)
  BY DEF Upload, IInv, TypeOK
<1>3. UNCHANGED <<rec, disk, saveRecords>> /\ UNCHANGED <<rec, payload, saveRecords>>
  BY DEF Upload, memory, disk
<1>4. PreconditionAllows(LatestReadable(k), base, createOnly, strict)
  BY DEF Upload
<1>5. ASSUME job'[h].conditional PROVE BaseIsNewest(h)'
  <2>1. Readable(k)' = Readable(k)
    BY <1>3 DEF Readable, Listed
  <2>2. \A i \in Readable(k) \ {base} :
          base # NoSave /\ rec[base] \in Save /\ SaveRecordSortsAfter(rec, base, i)
    <3>1. createOnly \/ base # NoSave
      BY <1>2, <1>5
    <3> QED BY <1>4, <3>1, AllowedBaseIsNewest
  <2> QED BY <1>2, <1>3, <2>1, <2>2 DEF BaseIsNewest
<1>6. LooksHold(h)'
  BY <1>1, <1>5 DEF LooksHold, CreateSteps
<1> QED BY <1>1, <1>3, <1>6, QuietStep

(* What the next steps of the request rely on, of those before it.         *)
LEMMA BaseStaysNewest ==
  ASSUME IInv, InTurn, NEW h \in Handlers, pc[h] \in UploadSteps,
         job'[h].key = job[h].key, job'[h].base = job[h].base,
         job'[h].conditional = job[h].conditional,
         UNCHANGED <<rec, payload, saveRecords>>, job'[h].conditional
  PROVE  BaseIsNewest(h)'
<1>1. BaseIsNewest(h)
  BY DEF InTurn, LooksHold
<1>2. Readable(job[h].key)' = Readable(job[h].key)
  BY DEF Readable, Listed
<1> QED BY <1>1, <1>2 DEF BaseIsNewest, Readable

LEMMA SnapshotInTurn ==
  ASSUME IInv, InTurn, OneAtATime', NEW h \in Handlers, Snapshot(h)
  PROVE  InTurn'
<1>1. pc' = [pc EXCEPT ![h] = "dedupe"] /\ pc'[h] = "dedupe" /\ pc[h] = "snapshot"
  BY DEF Snapshot, Goto, IInv, TypeOK
<1>2. /\ UNCHANGED <<rec, disk, saveRecords>> /\ UNCHANGED <<rec, payload, saveRecords>>
      /\ UNCHANGED job
  BY DEF Snapshot, memory, disk
<1>3. held'[h] = Listed /\ Listed' = Listed
  BY <1>2 DEF Snapshot, IInv, TypeOK, Listed
<1>4. job'[h].conditional => BaseIsNewest(h)'
  BY <1>1, <1>2, BaseStaysNewest DEF UploadSteps
<1>5. LooksHold(h)'
  BY <1>1, <1>3, <1>4 DEF LooksHold, CreateSteps
<1> QED BY <1>1, <1>2, <1>5, QuietStep

LEMMA NoDuplicateInTurn ==
  ASSUME IInv, InTurn, OneAtATime', NEW h \in Handlers, NoDuplicate(h)
  PROVE  InTurn'
<1>1. pc' = [pc EXCEPT ![h] = "load"] /\ pc'[h] = "load" /\ pc[h] = "dedupe"
  BY DEF NoDuplicate, Goto, IInv, TypeOK
<1>2. /\ UNCHANGED <<rec, disk, saveRecords>> /\ UNCHANGED <<rec, payload, saveRecords>>
      /\ UNCHANGED job
  BY DEF NoDuplicate, memory, disk
<1>3. held[h] = Listed /\ Listed' = Listed
  BY <1>1, <1>2 DEF InTurn, LooksHold, Listed
<1>4. ContentIsNew(h)
  BY <1>3 DEF NoDuplicate, DuplicateScope, HasContent, TrackScope, VersionScope, ContentIsNew
<1>5. ContentIsNew(h)'
  BY <1>2, <1>3, <1>4 DEF ContentIsNew
<1>6. job'[h].conditional => BaseIsNewest(h)'
  BY <1>1, <1>2, BaseStaysNewest DEF UploadSteps
<1>7. LooksHold(h)'
  BY <1>1, <1>5, <1>6 DEF LooksHold
<1> QED BY <1>1, <1>2, <1>7, QuietStep

LEMMA RollbackInTurn ==
  ASSUME IInv, InTurn, OneAtATime', NEW h \in Handlers, NEW i \in SaveIds, Rollback(h, i)
  PROVE  InTurn'
<1>1. pc' = [pc EXCEPT ![h] = "load"] /\ pc'[h] = "load" /\ pc[h] = "idle"
  BY DEF Rollback, Goto, IInv, TypeOK
<1>2. UNCHANGED <<rec, disk, saveRecords>>
  BY DEF Rollback, memory
<1>3. job'[h].rollback /\ ~job'[h].conditional
  BY DEF Rollback, IInv, TypeOK
<1>4. LooksHold(h)'
  BY <1>1, <1>3 DEF LooksHold
<1> QED BY <1>1, <1>2, <1>4, QuietStep

LEMMA LoadForCreateInTurn ==
  ASSUME IInv, InTurn, OneAtATime', NEW h \in Handlers, LoadForCreate(h)
  PROVE  InTurn'
<1>1. pc' = [pc EXCEPT ![h] = "writePayload"] /\ pc'[h] = "writePayload" /\ pc[h] = "load"
  BY DEF LoadForCreate, Goto, IInv, TypeOK
<1>2. /\ UNCHANGED <<rec, disk, saveRecords>>
      /\ UNCHANGED <<rec, payload, metadata, saveRecords>> /\ UNCHANGED <<rec, payload, saveRecords>>
  BY DEF LoadForCreate, memory, disk
<1>3. job[h] \in Job
  BY <1>1 DEF IInv, JobsAreSet, UploadSteps
<1>4. PICK v \in Versions, i \in SaveIds :
        /\ NextSaveVersion(metadata, job[h].key, v)
        /\ job' = [job EXCEPT ![h] = [@ EXCEPT !.ver = v, !.id = i]]
  BY DEF LoadForCreate
<1>5. job'[h] = [job[h] EXCEPT !.ver = v, !.id = i]
  BY <1>4 DEF IInv, TypeOK
<1>6. /\ job'[h].key = job[h].key /\ job'[h].base = job[h].base /\ job'[h].sha = job[h].sha
      /\ job'[h].conditional = job[h].conditional /\ job'[h].rollback = job[h].rollback
      /\ job'[h].ver = v
  BY <1>3, <1>5 DEF Job
<1>7. VersionIsNew(h)'
  <2>1. \A j \in metadata : rec[j].key = job[h].key => v > rec[j].ver
    BY <1>4 DEF NextSaveVersion
  <2>2. \A j \in metadata : rec[j].ver \in Nat /\ v \in Nat
    <3>1. Written(rec, metadata)
      BY DEF IInv, ReferencesAreKnown, Known, Created, Written
    <3> QED BY <3>1, WrittenVersions, BoundsAssumption DEF Versions
  <2> QED BY <1>2, <1>6, <2>1, <2>2 DEF VersionIsNew
<1>8. job'[h].rollback \/ ContentIsNew(h)'
  <2>1. job[h].rollback \/ ContentIsNew(h)
    BY <1>1 DEF InTurn, LooksHold, CreateSteps
  <2>2. Listed' = Listed
    BY <1>2 DEF Listed
  <2> QED BY <1>2, <1>6, <2>1, <2>2 DEF ContentIsNew
<1>9. job'[h].conditional => BaseIsNewest(h)'
  BY <1>1, <1>2, <1>6, BaseStaysNewest DEF UploadSteps
<1>10. LooksHold(h)'
  BY <1>1, <1>7, <1>8, <1>9 DEF LooksHold
<1> QED BY <1>1, <1>2, <1>10, QuietStep
-----------------------------------------------------------------------------
(***************************************************************************)
(* The creation of a save.                                                 *)
(***************************************************************************)
(* The save being made is listed nowhere, on no disk, and nobody's base.   *)
LEMMA NewSaveIsUnknown ==
  ASSUME IInv, NEW h \in Handlers, pc[h] \in {"writePayload", "writeMetadata"}
  PROVE  /\ job[h].id \in SaveIds /\ job[h].id \notin Listed /\ job[h].id \notin metadata
         /\ pc[h] = "writePayload" => job[h].id \notin Created
<1>1. Owns(h)
  BY DEF Owns, IInv, NamesAreFresh
<1>2. job[h].id \in (1 .. clock) \ Known
  BY <1>1 DEF IInv, NamesAreFresh
<1> QED
  BY <1>1, <1>2, BoundsAssumption
     DEF IInv, WritesAreOrdered, ReferencesAreKnown, Known, TypeOK, SaveIds

LEMMA WritePayloadInTurn ==
  ASSUME IInv, InTurn, OneAtATime', NEW h \in Handlers, WritePayload(h)
  PROVE  InTurn'
<1> DEFINE i == job[h].id
<1>1. /\ pc' = [pc EXCEPT ![h] = "writeMetadata"] /\ pc'[h] = "writeMetadata"
      /\ pc[h] = "writePayload"
  BY DEF WritePayload, Goto, IInv, TypeOK
<1>2. /\ UNCHANGED <<metadata, saveRecords, job>> /\ Listed' = Listed
      /\ payload' = payload \cup {i}
  BY DEF WritePayload, memory, Listed
<1>3. i \in SaveIds /\ i \notin Listed /\ i \notin metadata /\ i \notin Created
  BY <1>1, NewSaveIsUnknown
<1>4. rec'[i] = NewRecord(job[h]) /\ \A j \in SaveIds \ {i} : rec'[j] = rec[j]
  BY <1>3 DEF WritePayload, IInv, TypeOK
<1> HIDE DEF i
<1>5. /\ metadata \subseteq SaveIds \ {i} /\ Listed \subseteq SaveIds \ {i}
      /\ Listed \cap payload' = Listed \cap payload
  BY <1>2, <1>3 DEF IInv, TypeOK, Listed
<1>6. LooksHold(h)
  BY DEF InTurn
<1>7. VersionIsNew(h)'
  BY <1>1, <1>2, <1>4, <1>5, <1>6 DEF LooksHold, VersionIsNew
<1>8. job'[h].rollback \/ ContentIsNew(h)'
  BY <1>1, <1>2, <1>4, <1>5, <1>6 DEF LooksHold, CreateSteps, ContentIsNew
<1>9. ASSUME job'[h].conditional PROVE BaseIsNewest(h)'
  <2>1. BaseIsNewest(h)
    BY <1>1, <1>2, <1>6, <1>9 DEF LooksHold, UploadSteps
  <2>2. Readable(job[h].key)' = Readable(job[h].key)
    BY <1>2, <1>4, <1>5 DEF Readable
  <2>3. Readable(job[h].key) \subseteq SaveIds \ {i}
    BY <1>5 DEF Readable
  <2> SUFFICES ASSUME NEW j \in Readable(job[h].key) \ {job[h].base}
               PROVE  /\ job[h].base # NoSave /\ rec'[job[h].base] \in Save
                      /\ SaveRecordSortsAfter(rec', job[h].base, j)
    BY <1>2, <2>2 DEF BaseIsNewest, Readable
  <2>4. /\ job[h].base # NoSave /\ rec[job[h].base] \in Save
        /\ SaveRecordSortsAfter(rec, job[h].base, j)
    BY <2>1 DEF BaseIsNewest
  <2>5. job[h].base \in SaveIds \ {i}
    <3>1. job[h].base \in 0 .. MaxSaves
      BY <1>1 DEF IInv, JobsAreSet, UploadSteps, Job
    <3>2. job[h].base \in SaveIds
      BY <2>4, <3>1, BoundsAssumption DEF SaveIds, NoSave
    <3> QED BY <1>3, <2>4, <3>2 DEF Created
  <2> QED BY <1>4, <2>3, <2>4, <2>5 DEF SaveRecordSortsAfter
<1>10. LooksHold(h)'
  BY <1>1, <1>2, <1>4, <1>7, <1>8, <1>9 DEF LooksHold, i
<1>11. StoreInTurn'
  <2>1. VersionsAreUnique'
    BY <1>2, <1>4, <1>5 DEF InTurn, StoreInTurn, VersionsAreUnique
  <2>2. ContentsAreUnique'
    BY <1>2, <1>4, <1>5 DEF InTurn, StoreInTurn, ContentsAreUnique
  <2> QED BY <1>2, <2>1, <2>2 DEF InTurn, StoreInTurn
<1>12. metadata' \subseteq Listed'
  BY <1>1, <1>2, AtMostOneToList
<1> QED BY <1>1, <1>10, <1>11, <1>12, StepInTurn

LEMMA WriteMetadataInTurn ==
  ASSUME IInv, InTurn, OneAtATime', NEW h \in Handlers, WriteMetadata(h)
  PROVE  InTurn'
<1> DEFINE i == job[h].id
<1>1. /\ pc' = [pc EXCEPT ![h] = "prepend"] /\ pc'[h] = "prepend"
      /\ pc[h] = "writeMetadata"
  BY DEF WriteMetadata, Goto, IInv, TypeOK
<1>2. /\ UNCHANGED <<rec, payload, saveRecords, job>> /\ Listed' = Listed
      /\ UNCHANGED <<rec, payload, saveRecords>> /\ metadata' = metadata \cup {i}
  BY DEF WriteMetadata, memory, Listed
<1>3. i \in SaveIds /\ i \notin Listed /\ i \notin metadata
  BY <1>1, NewSaveIsUnknown
<1>4. LooksHold(h)
  BY DEF InTurn
<1>5. /\ rec[i].key = job[h].key /\ rec[i].ver = job[h].ver
      /\ rec[i] = NewRecord(job[h])
  BY <1>1, <1>4 DEF LooksHold, NewRecord
<1>6. VersionIsNew(h)
  BY <1>1, <1>4 DEF LooksHold
<1> HIDE DEF i
<1>7. VersionsAreUnique'
  <2> SUFFICES ASSUME NEW j \in metadata', NEW k \in metadata', j # k, rec[j].key = rec[k].key
               PROVE  rec[j].ver # rec[k].ver
    BY <1>2 DEF VersionsAreUnique
  <2>1. CASE j # i /\ k # i
    BY <1>2, <2>1 DEF InTurn, StoreInTurn, VersionsAreUnique
  <2>2. \A l \in metadata : rec[l].key = rec[i].key => rec[l].ver # rec[i].ver
    <3> SUFFICES ASSUME NEW l \in metadata, rec[l].key = rec[i].key
                 PROVE  rec[l].ver # rec[i].ver
      OBVIOUS
    <3>1. rec[l].ver < rec[i].ver
      BY <1>5, <1>6 DEF VersionIsNew
    <3>2. rec[l].ver \in Nat
      <4>1. Written(rec, metadata)
        BY DEF IInv, ReferencesAreKnown, Known, Created, Written
      <4> QED BY <4>1, WrittenVersions
    <3> QED BY <3>1, <3>2
  <2> QED BY <1>2, <2>1, <2>2
<1>8. ContentsAreUnique'
  BY <1>2 DEF InTurn, StoreInTurn, ContentsAreUnique
<1>9. job'[h].rollback \/ ContentIsNew(h)'
  BY <1>1, <1>2, <1>4 DEF LooksHold, CreateSteps, ContentIsNew
<1>10. job'[h].conditional => BaseIsNewest(h)'
  BY <1>1, <1>2, BaseStaysNewest DEF UploadSteps
<1>11. LooksHold(h)'
  BY <1>1, <1>2, <1>3, <1>5, <1>9, <1>10 DEF LooksHold, i
<1>12. StoreInTurn'
  BY <1>2, <1>7, <1>8 DEF InTurn, StoreInTurn
<1>13. metadata' \subseteq Listed' \cup {job'[h].id}
  <2>1. metadata \subseteq Listed
    BY <1>1, AtMostOneToList
  <2> QED BY <1>2, <2>1 DEF i
<1> QED BY <1>1, <1>11, <1>12, <1>13, StepInTurn

(* The list may gain the save that is on its way there, and no other.      *)
LEMMA ContentsOfStored ==
  ASSUME IInv, InTurn, UNCHANGED <<rec, payload>>, Listed' \subseteq Listed \cup ToList
  PROVE  ContentsAreUnique'
<1> SUFFICES ASSUME NEW i \in Listed' \cap payload, NEW j \in Listed' \cap payload, i # j,
                    TrackOf[rec[i].key] = TrackOf[rec[j].key],
                    ~rec[i].rollback, ~rec[j].rollback
             PROVE  rec[i].sha # rec[j].sha
  BY DEF ContentsAreUnique
<1>1. CASE i \in Listed /\ j \in Listed
  BY <1>1 DEF InTurn, StoreInTurn, ContentsAreUnique
<1>2. ASSUME NEW m \in ToList, NEW n \in Listed \cap payload,
             TrackOf[rec[m].key] = TrackOf[rec[n].key], ~rec[m].rollback
      PROVE  rec[m].sha # rec[n].sha
  <2>1. PICK h \in Handlers : pc[h] = "prepend" /\ m = job[h].id
    BY <1>2 DEF ToList
  <2>2. LooksHold(h)
    BY DEF InTurn
  <2>3. /\ rec[m].key = job[h].key /\ rec[m].sha = job[h].sha
        /\ rec[m].rollback = job[h].rollback
    BY <2>1, <2>2 DEF LooksHold, NewRecord
  <2>4. job[h].rollback \/ ContentIsNew(h)
    BY <2>1, <2>2 DEF LooksHold, CreateSteps
  <2> QED BY <1>2, <2>3, <2>4 DEF ContentIsNew
<1>3. \A m, n \in ToList : m = n
  BY DEF InTurn, OneAtATime, ToList
<1>4. CASE i \in ToList /\ j \in Listed
  BY <1>2, <1>4
<1>5. CASE i \in Listed /\ j \in ToList
  BY <1>2, <1>5
<1>6. CASE i \in ToList /\ j \in ToList
  BY <1>3, <1>6
<1> QED BY <1>1, <1>4, <1>5, <1>6

LEMMA PrependInTurn ==
  ASSUME IInv, InTurn, OneAtATime', NEW h \in Handlers, Prepend(h)
  PROVE  InTurn'
<1> DEFINE i == job[h].id
<1>1. pc' = [pc EXCEPT ![h] = "idle"] /\ pc'[h] = "idle" /\ pc[h] = "prepend"
  BY DEF Prepend, Reply, Goto, IInv, TypeOK
<1>2. i \in SaveIds /\ i \notin Listed /\ i \in ToList
  BY <1>1 DEF InTurn, LooksHold, IInv, WritesAreOrdered, Known, TypeOK, ToList
<1>3. /\ UNCHANGED <<rec, payload, metadata>>
      /\ saveRecords' = [saveRecords EXCEPT ![i] = @ + 1] /\ saveRecords \in [SaveIds -> Nat]
  BY DEF Prepend, disk, IInv, TypeOK
<1> HIDE DEF i
<1>4. Listed' = Listed \cup {i} /\ saveRecords[i] = 0
  BY <1>2, <1>3 DEF Listed
<1>5. \A j \in SaveIds : saveRecords'[j] <= 1
  BY <1>2, <1>3, <1>4 DEF InTurn, StoreInTurn
<1>6. ContentsAreUnique'
  BY <1>2, <1>3, <1>4, ContentsOfStored
<1>7. StoreInTurn'
  BY <1>3, <1>5, <1>6 DEF InTurn, StoreInTurn, VersionsAreUnique
<1>8. metadata' \subseteq Listed'
  BY <1>1, <1>3, <1>4, AtMostOneToList DEF i
<1>9. LooksHold(h)'
  BY <1>1 DEF LooksHold, CreateSteps, UploadSteps
<1> QED BY <1>1, <1>7, <1>8, <1>9, StepInTurn

LEMMA CreateFailsInTurn ==
  ASSUME IInv, InTurn, OneAtATime', NEW h \in Handlers, CreateFails(h)
  PROVE  InTurn'
BY ReplyInTurn DEF CreateFails, memory

LEMMA DuplicateInTurn ==
  ASSUME IInv, InTurn, OneAtATime', NEW h \in Handlers, IgnoreDuplicate(h) \/ RejectStale(h)
  PROVE  InTurn'
BY ReplyInTurn DEF IgnoreDuplicate, RejectStale, memory
-----------------------------------------------------------------------------
(***************************************************************************)
(* Deletions, reloads and restarts.                                        *)
(***************************************************************************)
(* Steps that a request takes with nothing in mind that could grow old.    *)
LEMMA RemoveStepInTurn ==
  ASSUME IInv, InTurn, OneAtATime', NEW h \in Handlers, NEW step \in {"remove", "reload"},
         pc' = [pc EXCEPT ![h] = step], pc[h] # "prepend",
         UNCHANGED <<rec, disk, saveRecords>>
  PROVE  InTurn'
<1>1. pc'[h] = step
  BY DEF IInv, TypeOK
<1>2. LooksHold(h)'
  BY <1>1 DEF LooksHold, CreateSteps, UploadSteps
<1> QED BY <1>2, QuietStep

LEMMA DeleteInTurn ==
  ASSUME IInv, InTurn, OneAtATime', NEW h \in Handlers, NEW targets, Delete(h, targets)
  PROVE  InTurn'
BY RemoveStepInTurn DEF Delete, Goto, memory

LEMMA ReloadInTurn ==
  ASSUME IInv, InTurn, OneAtATime', NEW h \in Handlers, Reload(h)
  PROVE  InTurn'
BY RemoveStepInTurn DEF Reload, Goto, memory

LEMMA DirectoryGoneInTurn ==
  ASSUME IInv, InTurn, OneAtATime', NEW h \in Handlers, DirectoryGone(h)
  PROVE  InTurn'
<1>1. \/ pc' = [pc EXCEPT ![h] = "reload"]
      \/ pc' = [pc EXCEPT ![h] = "remove"]
  BY DEF DirectoryGone, Goto, IInv, TypeOK
<1>2. pc[h] = "remove" /\ UNCHANGED <<rec, disk, saveRecords>>
  BY DEF DirectoryGone, memory
<1> QED BY <1>1, <1>2, RemoveStepInTurn

LEMMA RemoveFailsInTurn ==
  ASSUME IInv, InTurn, OneAtATime', NEW h \in Handlers, RemoveFails(h)
  PROVE  InTurn'
BY ReplyInTurn DEF RemoveFails, memory

LEMMA LoadFailsInTurn ==
  ASSUME IInv, InTurn, OneAtATime', NEW h \in Handlers, LoadFails(h)
  PROVE  InTurn'
BY ReplyInTurn DEF LoadFails, memory

LEMMA UnlinkFileInTurn ==
  ASSUME IInv, InTurn, OneAtATime', NEW h \in Handlers, UnlinkFile(h)
  PROVE  InTurn'
<1>1. pc' = [pc EXCEPT ![h] = "remove"] /\ pc'[h] = "remove" /\ pc[h] = "remove"
  BY DEF UnlinkFile, IInv, TypeOK
<1>2. /\ payload' \subseteq payload /\ metadata' \subseteq metadata
      /\ UNCHANGED <<rec, saveRecords>> /\ Listed' = Listed
  BY DEF UnlinkFile, memory, Listed
<1>3. StoreInTurn'
  BY <1>2 DEF InTurn, StoreInTurn, VersionsAreUnique, ContentsAreUnique
<1>4. metadata' \subseteq Listed'
  BY <1>1, <1>2, AtMostOneToList
<1>5. LooksHold(h)'
  BY <1>1 DEF LooksHold, CreateSteps, UploadSteps
<1> QED BY <1>1, <1>3, <1>4, <1>5, StepInTurn

LEMMA LoadForReloadInTurn ==
  ASSUME IInv, InTurn, OneAtATime', NEW h \in Handlers, LoadForReload(h)
  PROVE  InTurn'
<1>1. pc' = [pc EXCEPT ![h] = "assign"] /\ pc'[h] = "assign" /\ pc[h] = "reload"
  BY DEF LoadForReload, Goto, IInv, TypeOK
<1>2. UNCHANGED <<rec, disk, saveRecords>> /\ metadata' = metadata
  BY DEF LoadForReload, memory, disk
<1>3. held'[h] = metadata
  BY DEF LoadForReload, IInv, TypeOK
<1>4. LooksHold(h)'
  BY <1>1, <1>2, <1>3 DEF LooksHold, CreateSteps, UploadSteps
<1> QED BY <1>1, <1>2, <1>4, QuietStep

(* The list is replaced by what is on disk.                                *)
LEMMA ListFromDisk ==
  ASSUME IInv, InTurn, UNCHANGED <<rec, disk>>,
         saveRecords' = [i \in SaveIds |-> IF i \in metadata THEN 1 ELSE 0]
  PROVE  StoreInTurn' /\ Listed' = metadata
<1>1. UNCHANGED <<payload, metadata>> /\ metadata \subseteq SaveIds
  BY DEF disk, IInv, TypeOK
<1>2. Listed' = metadata /\ \A i \in SaveIds : saveRecords'[i] <= 1
  BY <1>1 DEF Listed
<1>3. ContentsAreUnique'
  BY <1>1, <1>2, ContentsOfStored DEF InTurn
<1> QED BY <1>1, <1>2, <1>3 DEF InTurn, StoreInTurn, VersionsAreUnique

LEMMA AssignLoadedInTurn ==
  ASSUME IInv, InTurn, OneAtATime', NEW h \in Handlers, AssignLoaded(h)
  PROVE  InTurn'
<1>1. pc' = [pc EXCEPT ![h] = "idle"] /\ pc'[h] = "idle" /\ pc[h] = "assign"
  BY DEF AssignLoaded, Reply, Goto, IInv, TypeOK
<1>2. held[h] = metadata
  BY <1>1 DEF InTurn, LooksHold
<1>3. UNCHANGED <<rec, disk>> /\ metadata' = metadata
      /\ saveRecords' = [i \in SaveIds |-> IF i \in metadata THEN 1 ELSE 0]
  BY <1>2 DEF AssignLoaded, disk
<1>4. StoreInTurn' /\ metadata' \subseteq Listed'
  BY <1>3, ListFromDisk
<1>5. LooksHold(h)'
  BY <1>1 DEF LooksHold, CreateSteps, UploadSteps
<1> QED BY <1>1, <1>4, <1>5, StepInTurn

LEMMA RestartInTurn ==
  ASSUME IInv, InTurn, Restart
  PROVE  InTurn'
<1>1. \A h \in Handlers : pc'[h] = "idle"
  BY DEF Restart
<1>2. UNCHANGED <<rec, disk>> /\ metadata' = metadata
      /\ saveRecords' = [i \in SaveIds |-> IF i \in metadata THEN 1 ELSE 0]
  BY DEF Restart, disk
<1>3. StoreInTurn' /\ metadata' \subseteq Listed'
  BY <1>2, ListFromDisk
<1>4. \A h \in Handlers : LooksHold(h)'
  BY <1>1 DEF LooksHold, CreateSteps, UploadSteps
<1> QED BY <1>1, <1>3, <1>4 DEF InTurn, OneAtATime
-----------------------------------------------------------------------------
(***************************************************************************)
(* The theorems.                                                           *)
(***************************************************************************)
LEMMA NextInTurn ==
  ASSUME IInv, LatestIsNewest, InTurn, OneAtATime', [Next]_vars
  PROVE  InTurn'
<1>1. ASSUME NEW h \in Handlers, Request(h) PROVE InTurn'
  BY <1>1, UploadInTurn, RollbackInTurn, DeleteInTurn, ReloadInTurn DEF Request
<1>2. ASSUME NEW h \in Handlers, Deduplicate(h) PROVE InTurn'
  BY <1>2, SnapshotInTurn, NoDuplicateInTurn, DuplicateInTurn DEF Deduplicate
<1>3. ASSUME NEW h \in Handlers, Create(h) PROVE InTurn'
  BY <1>3, LoadForCreateInTurn, WritePayloadInTurn, WriteMetadataInTurn, PrependInTurn,
     CreateFailsInTurn DEF Create
<1>4. ASSUME NEW h \in Handlers, Remove(h) PROVE InTurn'
  BY <1>4, UnlinkFileInTurn, DirectoryGoneInTurn, RemoveFailsInTurn DEF Remove
<1>5. ASSUME NEW h \in Handlers, Refresh(h) PROVE InTurn'
  BY <1>5, LoadForReloadInTurn, AssignLoadedInTurn, LoadFailsInTurn DEF Refresh
<1>6. CASE Restart
  BY <1>6, RestartInTurn
<1>7. CASE UNCHANGED vars
  <2>1. UNCHANGED <<rec, payload, metadata, saveRecords, pc, job, held>>
    BY <1>7 DEF vars, disk, memory
  <2>2. Listed' = Listed /\ ToList' = ToList
    BY <2>1 DEF Listed, ToList
  <2>3. StoreInTurn'
    BY <2>1, <2>2 DEF InTurn, StoreInTurn, VersionsAreUnique, ContentsAreUnique
  <2>4. ASSUME NEW h \in Handlers PROVE LooksHold(h)'
    <3>1. LooksHold(h)
      BY DEF InTurn
    <3> QED BY <2>1, <2>2, <3>1
            DEF LooksHold, VersionIsNew, ContentIsNew, BaseIsNewest, Readable,
                SaveRecordSortsAfter, NewRecord
  <2> QED BY <2>1, <2>2, <2>3, <2>4 DEF InTurn
<1> QED BY <1>1, <1>2, <1>3, <1>4, <1>5, <1>6, <1>7 DEF Next

InTurnSoFar == ~overlapped => InTurn

LEMMA InTurnInitially == InTurnInit => InTurnSoFar
<1> SUFFICES ASSUME InTurnInit PROVE InTurn
  BY DEF InTurnSoFar
<1>1. /\ \A h \in Handlers : pc[h] = "idle"
      /\ \A i \in SaveIds : saveRecords[i] = 0
      /\ metadata = {} /\ payload = {}
  BY DEF InTurnInit, Init
<1> QED BY <1>1, IdleLooksHold
        DEF InTurn, OneAtATime, StoreInTurn, VersionsAreUnique, ContentsAreUnique

LEMMA InTurnStep ==
  IInv /\ LatestIsNewest /\ InTurnSoFar /\ [InTurnNext]_inTurnVars => InTurnSoFar'
<1> SUFFICES ASSUME IInv, LatestIsNewest, InTurnSoFar, [InTurnNext]_inTurnVars, ~overlapped'
             PROVE  InTurn'
  BY DEF InTurnSoFar
<1>1. [Next]_vars
  BY DEF InTurnNext, inTurnVars
<1>2. CASE InTurnNext
  BY <1>1, <1>2, NextInTurn DEF InTurnNext, InTurnSoFar
<1>3. CASE UNCHANGED inTurnVars
  <2>1. InTurn /\ UNCHANGED pc
    BY <1>3 DEF InTurnSoFar, inTurnVars, vars
  <2>2. OneAtATime'
    BY <2>1 DEF InTurn, OneAtATime
  <2> QED BY <1>1, <2>1, <2>2, NextInTurn
<1> QED BY <1>2, <1>3

LEMMA InTurnIsOfTheStore == InTurnSpec => Spec
<1>1. InTurnInit => Init
  BY DEF InTurnInit
<1>2. [InTurnNext]_inTurnVars => [Next]_vars
  BY DEF InTurnNext, inTurnVars
<1> QED BY <1>1, <1>2, PTL DEF InTurnSpec, Spec

LEMMA AlwaysInTurn == InTurnSpec => [](IInv /\ InTurnSoFar)
BY InTurnIsOfTheStore, Invariant, IndexAnswersTheNewest, InTurnInitially, InTurnStep, PTL
   DEF InTurnSpec

(* Versions of a key stay distinct: nothing is written to the disk between *)
(* the scan that a version is picked from and the metadata.json with it.   *)
THEOREM VersionsStayUnique == InTurnSpec => []VersionsAreUniqueInTurn
<1>1. InTurnSoFar => VersionsAreUniqueInTurn
  BY DEF InTurnSoFar, InTurn, StoreInTurn, VersionsAreUniqueInTurn
<1> QED BY <1>1, AlwaysInTurn, PTL

(* Contents on a track stay distinct, but for copies made by a rollback,   *)
(* and a save that was written when the process stopped, before it was     *)
(* listed, is no exception.                                                *)
THEOREM ContentsStayUnique == InTurnSpec => []ContentsAreUniqueInTurn
<1>1. InTurnSoFar => ContentsAreUniqueInTurn
  BY DEF InTurnSoFar, InTurn, StoreInTurn, ContentsAreUniqueInTurn
<1> QED BY <1>1, AlwaysInTurn, PTL

(* Between requests the list is the disk, for all saves nobody has begun   *)
(* to remove, after requests that failed half way as well.                 *)
THEOREM ListIsTheDisk == InTurnSpec => []ListMatchesDiskInTurn
<1>1. IInv /\ InTurnSoFar => ListMatchesDiskInTurn
  <2> SUFFICES ASSUME IInv, InTurn, \A h \in Handlers : pc[h] = "idle",
                      NEW i \in SaveIds \ removed
               PROVE  saveRecords[i] = IF i \in metadata THEN 1 ELSE 0
    BY DEF InTurnSoFar, ListMatchesDiskInTurn, ListMatchesDisk
  <2>1. ToList = {}
    BY DEF ToList
  <2>2. i \in metadata => i \in Listed
    BY <2>1 DEF InTurn
  <2>3. i \in Listed => i \in metadata
    BY DEF IInv, ReferencesAreKnown, Known
  <2>4. saveRecords[i] \in Nat /\ saveRecords[i] <= 1
    BY DEF IInv, TypeOK, InTurn, StoreInTurn
  <2> QED BY <2>2, <2>3, <2>4 DEF Listed
<1> QED BY <1>1, AlwaysInTurn, PTL

(* No update is lost: when a conditional upload is acknowledged, the       *)
(* revision that its client named, several steps ago, is still newer than  *)
(* every other readable one of the key.                                    *)
THEOREM NoUpdateIsLost == InTurnSpec => WritesReplaceTheirBaseInTurn
<1>1. IInv /\ InTurnSoFar /\ [InTurnNext]_inTurnVars
        => [~overlapped => \A h \in Handlers : ReplacesItsBase(h)]_inTurnVars
  <2> SUFFICES ASSUME InTurn, NEW h \in Handlers, pc[h] = "prepend", job[h].conditional,
                      NEW i \in Readable(job[h].key) \ {job[h].base, job[h].id}
               PROVE  /\ job[h].base # NoSave /\ rec[job[h].base] # Nothing
                      /\ SaveRecordSortsAfter(rec, job[h].base, i)
    BY DEF InTurnSoFar, ReplacesItsBase
  <2>1. BaseIsNewest(h)
    BY DEF InTurn, LooksHold, UploadSteps
  <2>2. Nothing \notin Save
    BY DEF Nothing, Save
  <2> QED BY <2>1, <2>2 DEF BaseIsNewest
<1> QED BY <1>1, AlwaysInTurn, PTL DEF InTurnSpec, WritesReplaceTheirBaseInTurn
=============================================================================
