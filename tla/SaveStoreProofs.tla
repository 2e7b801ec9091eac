-------------------------- MODULE SaveStoreProofs --------------------------
(***************************************************************************)
(* Proofs about SaveStore for any number of handlers, keys, tracks,        *)
(* payloads and saves.                                                     *)
(***************************************************************************)
EXTENDS SaveStore, WellFoundedInduction, TLAPS

(***************************************************************************)
(* The order of revisions: a non-empty set of saves has one newest member. *)
(***************************************************************************)

(* A non-empty set of numbers up to M has a greatest member. *)
LEMMA GreatestExists ==
  ASSUME NEW M \in Nat, NEW S, S \subseteq 0 .. M, S # {}
  PROVE  \E m \in S : \A n \in S : n <= m
<1> DEFINE T == {t \in Nat : M - t \in S}
<1>1. T \subseteq Nat /\ T # {}
  <2>1. PICK n \in S : TRUE
    OBVIOUS
  <2>2. M - n \in Nat /\ M - (M - n) = n
    BY <2>1
  <2> QED  BY <2>1, <2>2
<1>2. PICK t \in T : \A u \in T : <<u, t>> \notin OpToRel(<, Nat)
  <2> HIDE DEF T
  <2> QED  BY <1>1, NatLessThanWellFounded, WFMin
<1>3. \A u \in T : ~(u < t)
  BY <1>1, <1>2 DEF OpToRel
<1>4. \A n \in S : n <= M - t
  <2> SUFFICES ASSUME NEW n \in S PROVE n <= M - t
    OBVIOUS
  <2>1. M - n \in T
    OBVIOUS
  <2>2. n \in 0 .. M /\ t \in Nat
    BY <1>2
  <2> HIDE DEF T
  <2>3. ~(M - n < t)
    BY <1>3, <2>1
  <2> QED  BY <2>2, <2>3
<1> QED  BY <1>2, <1>4

(* Records that were written: what the order of revisions is about. *)
Written(r, S) == S \subseteq SaveIds /\ \A i \in S : r[i] \in Save

LEMMA WrittenVersions ==
  ASSUME NEW r, NEW S, Written(r, S), NEW i \in S
  PROVE  /\ i \in 0 .. MaxSaves /\ i \in Nat
         /\ r[i].ver \in 0 .. MaxSaves + 1 /\ r[i].ver \in Nat
BY BoundsAssumption DEF Written, Save, Versions, SaveIds

LEMMA NewestExists ==
  ASSUME NEW r, NEW S, Written(r, S), S # {}
  PROVE  \E i \in S : \A j \in S \ {i} : SaveRecordSortsAfter(r, i, j)
<1> DEFINE V == {v \in 0 .. MaxSaves + 1 : \E i \in S : r[i].ver = v}
<1>1. \A i \in S : r[i].ver \in 0 .. MaxSaves + 1 /\ r[i].ver \in Nat
  BY WrittenVersions
<1>2. V # {} /\ V \subseteq 0 .. MaxSaves + 1 /\ MaxSaves + 1 \in Nat
  <2>1. PICK i \in S : TRUE
    OBVIOUS
  <2>2. r[i].ver \in V
    BY <1>1, <2>1
  <2> QED  BY <2>2, BoundsAssumption
<1>3. PICK v \in V : \A w \in V : w <= v
  <2> HIDE DEF V
  <2> QED  BY <1>2, GreatestExists
<1> DEFINE top == {i \in S : r[i].ver = v}
<1>4. top # {} /\ top \subseteq 0 .. MaxSaves /\ MaxSaves \in Nat
  <2>1. PICK i \in S : r[i].ver = v
    BY <1>3
  <2>2. i \in top
    BY <2>1
  <2>3. S \subseteq 0 .. MaxSaves /\ MaxSaves \in Nat
    BY WrittenVersions, BoundsAssumption
  <2> QED  BY <2>2, <2>3
<1>5. PICK i \in top : \A j \in top : j <= i
  <2> HIDE DEF top
  <2> QED  BY <1>4, GreatestExists
<1>6. ASSUME NEW j \in S \ {i} PROVE SaveRecordSortsAfter(r, i, j)
  <2>1. r[j].ver \in V /\ r[j].ver <= v /\ r[i].ver = v /\ r[j].ver \in Nat /\ v \in Nat
    BY <1>1, <1>3, <1>5
  <2>2. r[j].ver = v => j <= i
    BY <1>5
  <2>3. i \in Nat /\ j \in Nat /\ i # j
    BY <1>5, WrittenVersions
  <2> HIDE DEF V, top
  <2> QED  BY <2>1, <2>2, <2>3 DEF SaveRecordSortsAfter
<1> QED  BY <1>5, <1>6

(* Newest finds the newest member of a set of saves ...                    *)
LEMMA NewestInSet ==
  ASSUME NEW r, NEW S, Written(r, S), S # {}
  PROVE  /\ NewestOf(r, S) \in S
         /\ \A j \in S \ {NewestOf(r, S)} : SaveRecordSortsAfter(r, NewestOf(r, S), j)
<1> DEFINE P(i) == \A j \in S \ {i} : SaveRecordSortsAfter(r, i, j)
<1>1. \E i \in S : P(i)
  BY NewestExists
<1>2. NewestOf(r, S) = CHOOSE i \in S : P(i)
  BY DEF NewestOf
<1> HIDE DEF P
<1>3. NewestOf(r, S) \in S /\ P(NewestOf(r, S))
  BY <1>1, <1>2
<1> QED  BY <1>3 DEF P

(* ... and there is only one. *)
LEMMA NewestUnique ==
  ASSUME NEW r, NEW S, Written(r, S),
         NEW i \in S, \A j \in S \ {i} : SaveRecordSortsAfter(r, i, j)
  PROVE  NewestOf(r, S) = i
<1> DEFINE n == NewestOf(r, S)
<1>1. n \in S /\ \A j \in S \ {n} : SaveRecordSortsAfter(r, n, j)
  BY NewestInSet
<1>2. r[i].ver \in Nat /\ r[n].ver \in Nat /\ i \in Nat /\ n \in Nat
  BY <1>1, WrittenVersions
<1>3. CASE n # i
  <2>1. SaveRecordSortsAfter(r, n, i) /\ SaveRecordSortsAfter(r, i, n)
    BY <1>1, <1>3
  <2> HIDE DEF n
  <2> QED  BY <1>2, <1>3, <2>1 DEF SaveRecordSortsAfter
<1> QED  BY <1>3
-----------------------------------------------------------------------------
(***************************************************************************)
(* The inductive invariant.                                                *)
(***************************************************************************)

(* Saves whose payload was written at some time. *)
Created == {i \in SaveIds : rec[i] \in Save}

(* Saves whose metadata.json was written at some time. *)
Known == metadata \cup removed

JobsAreSet == \A h \in Handlers : pc[h] \in UploadSteps => job[h] \in Job

ReferencesAreKnown ==
  /\ payload \subseteq Created /\ Known \subseteq Created
  /\ Listed \subseteq Known /\ acked \subseteq Known
  /\ \A h \in Handlers : held[h] \subseteq Known

(* Only what is marked as removed is unlinked. *)
RemovalsAreMarked == \A h \in Handlers : pc[h] = "remove" => held[h] \subseteq removed

(* From the clock read to the write of metadata.json a save belongs to the  *)
(* handler that creates it.                                                *)
Owns(h) == pc[h] \in {"load", "writePayload", "writeMetadata"} /\ job[h].id # NoSave

NamesAreFresh ==
  /\ Created \subseteq 1 .. clock
  /\ \A h \in Handlers : pc[h] \in {"snapshot", "dedupe"} => job[h].id = NoSave
  /\ \A h \in Handlers : pc[h] \in {"writePayload", "writeMetadata"} => job[h].id # NoSave
  /\ \A h \in Handlers : Owns(h) => job[h].id \in (1 .. clock) \ Known
  /\ \A g, h \in Handlers : Owns(g) /\ Owns(h) /\ job[g].id = job[h].id => g = h

(* Each write finds what the write before it left. *)
WritesAreOrdered ==
  /\ \A h \in Handlers : Owns(h) /\ pc[h] # "writeMetadata" => job[h].id \notin Created
  /\ \A h \in Handlers : pc[h] = "writeMetadata" => job[h].id \in payload
  /\ \A h \in Handlers : pc[h] = "prepend" => job[h].id \in Known

IInv ==
  /\ TypeOK
  /\ JobsAreSet
  /\ ReferencesAreKnown
  /\ RemovalsAreMarked
  /\ NamesAreFresh
  /\ WritesAreOrdered
  /\ MetadataHasPayload
-----------------------------------------------------------------------------
(***************************************************************************)
(* Steps. Most of them leave the disk alone: they change what one handler  *)
(* remembers and perhaps the read model or what was acknowledged.          *)
(***************************************************************************)
BeforeCreate == {"snapshot", "dedupe", "load"}

LEMMA StepOffDisk ==
  ASSUME IInv, NEW h \in Handlers,
         NEW step \in {"idle", "remove", "reload", "assign"} \cup BeforeCreate,
         NEW j \in Job \cup {Nothing}, step \in BeforeCreate => j \in Job /\ j.id = NoSave,
         NEW H \in SUBSET Known, step = "remove" => H \subseteq removed,
         pc' = [pc EXCEPT ![h] = step],
         job' = [job EXCEPT ![h] = j],
         held' = [held EXCEPT ![h] = H],
         saveRecords' \in [SaveIds -> Nat], Listed' \subseteq Known,
         saveIndex' \in [Keys -> 0 .. MaxSaves],
         acked' \subseteq Known,
         UNCHANGED <<clock, rec, disk, removed>>
  PROVE  IInv'
<1> USE DEF IInv
<1>1. Known' = Known /\ Created' = Created /\ Known \subseteq SaveIds
  BY DEF Known, Created, disk, TypeOK
<1>2. TypeOK'
  BY <1>1 DEF TypeOK, disk, Steps, BeforeCreate, UploadSteps, ReloadSteps
<1>3. JobsAreSet'
  BY DEF JobsAreSet, TypeOK, UploadSteps, BeforeCreate
<1>4. ReferencesAreKnown'
  BY <1>1 DEF ReferencesAreKnown, TypeOK, disk
<1>5. RemovalsAreMarked'
  BY DEF RemovalsAreMarked, TypeOK
<1>6. NamesAreFresh'
  <2>1. \A g \in Handlers : Owns(g)' => g # h /\ Owns(g)
    BY DEF Owns, TypeOK, BeforeCreate
  <2> QED  BY <1>1, <2>1 DEF NamesAreFresh, TypeOK, BeforeCreate
<1>7. WritesAreOrdered'
  BY <1>1 DEF WritesAreOrdered, Owns, TypeOK, disk, BeforeCreate
<1>8. MetadataHasPayload'
  BY DEF MetadataHasPayload, disk
<1> QED  BY <1>2, <1>3, <1>4, <1>5, <1>6, <1>7, <1>8

LEMMA MemoryUnchanged ==
  ASSUME IInv, UNCHANGED <<memory, acked>>
  PROVE  /\ saveRecords' \in [SaveIds -> Nat] /\ Listed' \subseteq Known
         /\ saveIndex' \in [Keys -> 0 .. MaxSaves] /\ acked' \subseteq Known
BY DEF IInv, TypeOK, ReferencesAreKnown, Listed, memory

(* Reply ends the request of a handler. *)
LEMMA ReplyPreserves ==
  ASSUME IInv, NEW h \in Handlers, Reply(h),
         saveRecords' \in [SaveIds -> Nat], Listed' \subseteq Known,
         saveIndex' \in [Keys -> 0 .. MaxSaves], acked' \subseteq Known,
         UNCHANGED <<clock, rec, disk, removed>>
  PROVE  IInv'
<1>1. "idle" \notin BeforeCreate
  BY DEF BeforeCreate
<1>2. {} \in SUBSET Known
  OBVIOUS
<1> QED  BY <1>1, <1>2, StepOffDisk DEF Reply, Goto

LEMMA UploadPreserves ==
  ASSUME IInv, NEW h \in Handlers, NEW k \in Keys, NEW p \in Payloads,
         NEW base \in 0 .. clock, NEW createOnly \in BOOLEAN, NEW strict \in BOOLEAN,
         Upload(h, k, p, base, createOnly, strict)
  PROVE  IInv'
<1> DEFINE j == [key |-> k, sha |-> p, rollback |-> FALSE, base |-> base,
                 conditional |-> createOnly \/ base # NoSave, ver |-> 0, id |-> NoSave]
<1>1. clock \in 0 .. MaxSaves /\ MaxSaves \in Nat
  BY BoundsAssumption DEF IInv, TypeOK
<1>2. j \in Job /\ j.id = NoSave
  BY <1>1 DEF Job, Versions, NoSave
<1>3. job' = [job EXCEPT ![h] = j] /\ pc' = [pc EXCEPT ![h] = "snapshot"]
  BY DEF Upload, Goto
<1>4. held' = [held EXCEPT ![h] = held[h]] /\ held[h] \in SUBSET Known
  BY DEF Upload, IInv, TypeOK, ReferencesAreKnown
<1>5. UNCHANGED <<clock, rec, disk, removed>> /\ UNCHANGED <<memory, acked>>
  BY DEF Upload, history
<1>6. "snapshot" \in BeforeCreate
  BY DEF BeforeCreate
<1> HIDE DEF j
<1> QED  BY <1>2, <1>3, <1>4, <1>5, <1>6, StepOffDisk, MemoryUnchanged

LEMMA SnapshotPreserves ==
  ASSUME IInv, NEW h \in Handlers, Snapshot(h)
  PROVE  IInv'
<1>1. job[h] \in Job /\ job[h].id = NoSave /\ job' = [job EXCEPT ![h] = job[h]]
  BY DEF Snapshot, IInv, JobsAreSet, NamesAreFresh, TypeOK, UploadSteps
<1>2. Listed \in SUBSET Known
  BY DEF IInv, ReferencesAreKnown
<1>3. UNCHANGED <<clock, rec, disk, removed>> /\ UNCHANGED <<memory, acked>>
  BY DEF Snapshot, history
<1>4. pc' = [pc EXCEPT ![h] = "dedupe"] /\ held' = [held EXCEPT ![h] = Listed]
  BY DEF Snapshot, Goto
<1>5. "dedupe" \in BeforeCreate
  BY DEF BeforeCreate
<1> QED  BY <1>1, <1>2, <1>3, <1>4, <1>5, StepOffDisk, MemoryUnchanged

LEMMA NoDuplicatePreserves ==
  ASSUME IInv, NEW h \in Handlers, NoDuplicate(h)
  PROVE  IInv'
<1>1. job[h] \in Job /\ job[h].id = NoSave /\ job' = [job EXCEPT ![h] = job[h]]
  BY DEF NoDuplicate, IInv, JobsAreSet, NamesAreFresh, TypeOK, UploadSteps
<1>2. {} \in SUBSET Known
  OBVIOUS
<1>3. UNCHANGED <<clock, rec, disk, removed>> /\ UNCHANGED <<memory, acked>>
  BY DEF NoDuplicate, history
<1>4. pc' = [pc EXCEPT ![h] = "load"] /\ held' = [held EXCEPT ![h] = {}]
  BY DEF NoDuplicate, Goto
<1>5. "load" \in BeforeCreate
  BY DEF BeforeCreate
<1> QED  BY <1>1, <1>2, <1>3, <1>4, <1>5, StepOffDisk, MemoryUnchanged

(* The revision that answers a duplicate is one of the scope. *)
LEMMA ScopeIsHeld ==
  ASSUME IInv, NEW h \in Handlers, NEW k, NEW p,
         NEW scope, scope = DuplicateScope(held[h] \cap payload, k, p), scope # {}
  PROVE  scope \subseteq held[h] \cap payload /\ Newest(scope) \in scope
<1>1. scope \subseteq held[h] \cap payload
  BY DEF DuplicateScope, VersionScope, TrackScope
<1>2. Written(rec, scope)
  BY <1>1 DEF IInv, ReferencesAreKnown, Created, Written
<1> QED  BY <1>1, <1>2, NewestInSet DEF Newest

LEMMA IgnoreDuplicatePreserves ==
  ASSUME IInv, NEW h \in Handlers, IgnoreDuplicate(h)
  PROVE  IInv'
<1> DEFINE scope == DuplicateScope(held[h] \cap payload, job[h].key, job[h].sha)
<1>1. Newest(scope) \in held[h]
  BY ScopeIsHeld DEF IgnoreDuplicate
<1>2. acked' = acked \cup {Newest(scope)} /\ Reply(h) /\ UNCHANGED <<clock, rec, disk, memory, removed>>
  BY DEF IgnoreDuplicate
<1> HIDE DEF scope
<1>3. acked' \subseteq Known
  BY <1>1, <1>2 DEF IInv, ReferencesAreKnown
<1>4. /\ saveRecords' \in [SaveIds -> Nat] /\ Listed' \subseteq Known
      /\ saveIndex' \in [Keys -> 0 .. MaxSaves]
  BY <1>2 DEF IInv, TypeOK, ReferencesAreKnown, Listed, memory
<1> QED  BY <1>2, <1>3, <1>4, ReplyPreserves

LEMMA RejectStalePreserves ==
  ASSUME IInv, NEW h \in Handlers, RejectStale(h)
  PROVE  IInv'
<1>1. Reply(h) /\ UNCHANGED <<clock, rec, disk, removed>> /\ UNCHANGED <<memory, acked>>
  BY DEF RejectStale, history
<1> QED  BY <1>1, ReplyPreserves, MemoryUnchanged

(* A step that gives the name of a save to come to its creator.            *)
LEMMA Naming ==
  ASSUME IInv, NEW h \in Handlers, NEW step \in {"load", "writePayload"},
         NEW j \in Job, j.id # NoSave,
         \/ j.id = clock + 1 /\ clock' = j.id
         \/ j.id = job[h].id /\ Owns(h) /\ pc[h] = "load" /\ clock' = clock,
         pc' = [pc EXCEPT ![h] = step],
         job' = [job EXCEPT ![h] = j],
         UNCHANGED <<rec, disk, memory, held, history>>
  PROVE  IInv'
<1> USE DEF IInv
<1>1. /\ UNCHANGED <<rec, payload, metadata, saveRecords, saveIndex, held, acked, removed>>
      /\ Known' = Known /\ Created' = Created
  BY DEF disk, memory, history, Known, Created
<1>2. /\ j.id \in SaveIds /\ clock \in Nat /\ clock' \in 0 .. MaxSaves /\ clock <= clock'
      /\ Created \subseteq 1 .. clock /\ Known \subseteq 1 .. clock
  BY BoundsAssumption DEF TypeOK, Job, SaveIds, NoSave, NamesAreFresh, ReferencesAreKnown
<1>3. j.id \in (1 .. clock') \ Known /\ j.id \notin Created
  BY <1>2 DEF NamesAreFresh, WritesAreOrdered, Owns, NoSave
<1>4. TypeOK'
  BY <1>1, <1>2 DEF TypeOK, Steps, UploadSteps
<1>5. JobsAreSet'
  BY DEF JobsAreSet, TypeOK
<1>6. ReferencesAreKnown' /\ RemovalsAreMarked'
  BY <1>1 DEF ReferencesAreKnown, RemovalsAreMarked, Listed, TypeOK
<1>7. NamesAreFresh'
  <2>1. \A g \in Handlers \ {h} : Owns(g)' => Owns(g) /\ job'[g].id = job[g].id /\ job[g].id # j.id
    BY <1>2 DEF NamesAreFresh, Owns, TypeOK
  <2>2. Created' \subseteq 1 .. clock'
    BY <1>1, <1>2
  <2>3. \A g \in Handlers : Owns(g)' => job'[g].id \in (1 .. clock') \ Known'
    BY <1>1, <1>2, <1>3, <2>1 DEF NamesAreFresh, TypeOK
  <2>4. \A g, k \in Handlers : Owns(g)' /\ Owns(k)' /\ job'[g].id = job'[k].id => g = k
    BY <2>1 DEF NamesAreFresh, TypeOK
  <2> QED  BY <2>2, <2>3, <2>4 DEF NamesAreFresh, TypeOK
<1>8. WritesAreOrdered'
  BY <1>1, <1>3 DEF WritesAreOrdered, Owns, TypeOK
<1>9. MetadataHasPayload'
  BY <1>1 DEF MetadataHasPayload
<1> QED  BY <1>4, <1>5, <1>6, <1>7, <1>8, <1>9

LEMMA RollbackPreserves ==
  ASSUME IInv, NEW h \in Handlers, NEW i \in SaveIds, Rollback(h, i)
  PROVE  IInv'
<1> DEFINE j == [key |-> rec[i].key, sha |-> rec[i].sha, rollback |-> TRUE, base |-> NoSave,
                 conditional |-> FALSE, ver |-> 0, id |-> clock + 1]
<1>1. rec[i] \in Save
  BY DEF Rollback, IInv, ReferencesAreKnown, Created
<1>2. clock \in Nat /\ clock + 1 \in 0 .. MaxSaves /\ clock + 1 # NoSave /\ 0 \in Versions
  BY BoundsAssumption DEF Rollback, IInv, TypeOK, NoSave, Versions
<1>3. j \in Job /\ j.id = clock + 1
  BY <1>1, <1>2, BoundsAssumption DEF Job, Save, NoSave
<1>4. job' = [job EXCEPT ![h] = j] /\ pc' = [pc EXCEPT ![h] = "load"] /\ clock' = clock + 1
  BY DEF Rollback, Goto
<1>5. UNCHANGED <<rec, disk, memory, held, history>>
  BY DEF Rollback
<1> HIDE DEF j
<1> QED  BY <1>2, <1>3, <1>4, <1>5, Naming

LEMMA LoadForCreatePreserves ==
  ASSUME IInv, NEW h \in Handlers, LoadForCreate(h)
  PROVE  IInv'
<1> DEFINE i == IF job[h].id = NoSave THEN clock + 1 ELSE job[h].id
<1>1. PICK v \in Versions : job' = [job EXCEPT ![h] = [@ EXCEPT !.ver = v, !.id = i]]
  BY DEF LoadForCreate
<1>2. job[h] \in Job /\ pc[h] = "load"
  BY DEF LoadForCreate, IInv, JobsAreSet, UploadSteps
<1> DEFINE j == [job[h] EXCEPT !.ver = v, !.id = i]
<1>3. i \in SaveIds /\ i \in 0 .. MaxSaves /\ i # NoSave
  BY BoundsAssumption DEF LoadForCreate, SaveIds, NoSave
<1>4. j \in Job /\ j.id = i
  BY <1>2, <1>3 DEF Job
<1>5. job' = [job EXCEPT ![h] = j] /\ pc' = [pc EXCEPT ![h] = "writePayload"]
  BY <1>1 DEF LoadForCreate, Goto, IInv, TypeOK
<1>6. \/ i = clock + 1 /\ clock' = i
      \/ i = job[h].id /\ Owns(h) /\ clock' = clock
  BY <1>2, <1>3 DEF LoadForCreate, Owns
<1>7. UNCHANGED <<rec, disk, memory, held, history>>
  BY DEF LoadForCreate
<1> HIDE DEF j, i
<1> QED  BY <1>2, <1>3, <1>4, <1>5, <1>6, <1>7, Naming

(* The new save is known to nobody else. *)
LEMMA WritePayloadPreserves ==
  ASSUME IInv, NEW h \in Handlers, WritePayload(h)
  PROVE  IInv'
<1> DEFINE i == job[h].id
<1> USE DEF IInv
<1>1. job[h] \in Job /\ NewRecord(job[h]) \in Save
  BY DEF WritePayload, JobsAreSet, UploadSteps, Job, Save, NewRecord
<1>2. i \in (1 .. clock) \ Known /\ i \notin Created /\ i \in SaveIds /\ pc[h] = "writePayload"
  BY BoundsAssumption DEF WritePayload, NamesAreFresh, WritesAreOrdered, Owns, TypeOK, SaveIds
<1>3. rec' = [rec EXCEPT ![i] = NewRecord(job[h])] /\ rec \in [SaveIds -> Save \cup {Nothing}]
  BY DEF WritePayload, TypeOK
<1>4. payload' = payload \cup {i} /\ pc' = [pc EXCEPT ![h] = "writeMetadata"]
  BY DEF WritePayload, Goto
<1>5. UNCHANGED <<clock, metadata, saveRecords, saveIndex, job, held, acked, removed>>
  BY DEF WritePayload, memory, history
<1>6. Created' = Created \cup {i} /\ Known' = Known
  BY <1>1, <1>2, <1>3, <1>5 DEF Created, Known
<1>7. TypeOK'
  BY <1>1, <1>2, <1>3, <1>4, <1>5 DEF TypeOK, Steps, UploadSteps
<1> HIDE DEF i
<1>8. JobsAreSet'
  BY <1>1, <1>4, <1>5 DEF JobsAreSet, TypeOK
<1>9. ReferencesAreKnown'
  BY <1>4, <1>5, <1>6 DEF ReferencesAreKnown, Listed
<1>10. RemovalsAreMarked'
  BY <1>4, <1>5 DEF RemovalsAreMarked, TypeOK
<1>11. \A g \in Handlers : Owns(g)' <=> Owns(g)
  BY <1>2, <1>4, <1>5 DEF Owns, TypeOK
<1>12. NamesAreFresh'
  BY <1>2, <1>4, <1>5, <1>6, <1>11 DEF NamesAreFresh, TypeOK
<1>13. WritesAreOrdered'
  <2>1. \A g \in Handlers \ {h} : Owns(g) => job[g].id # i
    BY <1>2 DEF NamesAreFresh, Owns, i
  <2>2. \A g \in Handlers : Owns(g)' /\ pc'[g] # "writeMetadata" => job'[g].id \notin Created'
    BY <1>4, <1>5, <1>6, <1>11, <2>1 DEF WritesAreOrdered, TypeOK
  <2>3. \A g \in Handlers : pc'[g] = "writeMetadata" => job'[g].id \in payload'
    BY <1>4, <1>5 DEF WritesAreOrdered, TypeOK, i
  <2>4. \A g \in Handlers : pc'[g] = "prepend" => job'[g].id \in Known'
    BY <1>4, <1>5, <1>6 DEF WritesAreOrdered, TypeOK
  <2> QED  BY <2>2, <2>3, <2>4 DEF WritesAreOrdered
<1>14. MetadataHasPayload'
  BY <1>4, <1>5 DEF MetadataHasPayload
<1> QED  BY <1>7, <1>8, <1>9, <1>10, <1>12, <1>13, <1>14

LEMMA WriteMetadataPreserves ==
  ASSUME IInv, NEW h \in Handlers, WriteMetadata(h)
  PROVE  IInv'
<1> DEFINE i == job[h].id
<1> USE DEF IInv
<1>1. /\ i \in payload \ Known /\ i \in Created /\ i \in SaveIds
      /\ pc[h] = "writeMetadata" /\ Owns(h)
  BY DEF WriteMetadata, NamesAreFresh, WritesAreOrdered, Owns, ReferencesAreKnown, TypeOK
<1>2. metadata' = metadata \cup {i} /\ pc' = [pc EXCEPT ![h] = "prepend"]
  BY DEF WriteMetadata, Goto
<1>3. UNCHANGED <<clock, rec, payload, saveRecords, saveIndex, job, held, acked, removed>>
  BY DEF WriteMetadata, memory, history
<1>4. Known' = Known \cup {i} /\ Created' = Created
  BY <1>2, <1>3 DEF Known, Created
<1>5. TypeOK'
  BY <1>1, <1>2, <1>3 DEF TypeOK, Steps, UploadSteps
<1>6. JobsAreSet'
  BY <1>1, <1>2, <1>3 DEF JobsAreSet, TypeOK, UploadSteps
<1>7. ReferencesAreKnown'
  BY <1>1, <1>3, <1>4 DEF ReferencesAreKnown, Listed
<1>8. RemovalsAreMarked'
  BY <1>2, <1>3 DEF RemovalsAreMarked, TypeOK
<1>9. \A g \in Handlers : Owns(g)' => Owns(g) /\ job[g].id # i
  BY <1>1, <1>2, <1>3 DEF Owns, NamesAreFresh, TypeOK
<1> HIDE DEF i
<1>10. NamesAreFresh'
  BY <1>2, <1>3, <1>4, <1>9 DEF NamesAreFresh, TypeOK
<1>11. WritesAreOrdered'
  BY <1>2, <1>3, <1>4, <1>9 DEF WritesAreOrdered, TypeOK, i
<1>12. MetadataHasPayload'
  BY <1>1, <1>2, <1>3 DEF MetadataHasPayload
<1> QED  BY <1>5, <1>6, <1>7, <1>8, <1>10, <1>11, <1>12

(* An index built from any list points at created saves. *)
LEMMA BuildIndexPointsAtCreated ==
  ASSUME IInv, NEW S
  PROVE  BuildIndex(S) \in [Keys -> Created \cup {NoSave}]
<1> SUFFICES ASSUME NEW k \in Keys
             PROVE  Newest({i \in S \cap payload : rec[i].key = k}) \in Created \cup {NoSave}
  BY DEF BuildIndex
<1> DEFINE T == {i \in S \cap payload : rec[i].key = k}
<1>1. T \subseteq Created /\ Written(rec, T)
  BY DEF IInv, ReferencesAreKnown, Created, Written
<1> HIDE DEF T
<1>2. Newest(T) \in Created \cup {NoSave}
  BY <1>1, NewestInSet DEF Newest, NewestOf
<1> QED  BY <1>2 DEF T

LEMMA BuildIndexPointsAtSaves ==
  ASSUME IInv, NEW S
  PROVE  BuildIndex(S) \in [Keys -> 0 .. MaxSaves]
<1>1. Created \cup {NoSave} \subseteq 0 .. MaxSaves
  BY BoundsAssumption DEF Created, SaveIds, NoSave
<1> QED  BY <1>1, BuildIndexPointsAtCreated

LEMMA PrependPreserves ==
  ASSUME IInv, NEW h \in Handlers, Prepend(h)
  PROVE  IInv'
<1> DEFINE i == job[h].id
<1>1. i \in Known /\ i \in SaveIds
  BY DEF Prepend, IInv, WritesAreOrdered, Known, TypeOK
<1>2. saveRecords' = [saveRecords EXCEPT ![i] = @ + 1] /\ saveRecords \in [SaveIds -> Nat]
  BY DEF Prepend, IInv, TypeOK
<1> HIDE DEF i
<1>3. saveRecords' \in [SaveIds -> Nat] /\ Listed' \subseteq Listed \cup {i}
  BY <1>1, <1>2 DEF Listed
<1>4. Listed' \subseteq Known
  BY <1>1, <1>3 DEF IInv, ReferencesAreKnown
<1>5. saveIndex' \in [Keys -> 0 .. MaxSaves]
  BY BuildIndexPointsAtSaves DEF Prepend
<1>6. acked' \subseteq Known /\ Reply(h) /\ UNCHANGED <<clock, rec, disk, removed>>
  BY <1>1 DEF Prepend, IInv, ReferencesAreKnown, i
<1> QED  BY <1>3, <1>4, <1>5, <1>6, ReplyPreserves

LEMMA CreateFailsPreserves ==
  ASSUME IInv, NEW h \in Handlers, CreateFails(h)
  PROVE  IInv'
<1>1. Reply(h) /\ UNCHANGED <<clock, rec, disk, removed>> /\ UNCHANGED <<memory, acked>>
  BY DEF CreateFails, history
<1> QED  BY <1>1, ReplyPreserves, MemoryUnchanged

LEMMA DeletePreserves ==
  ASSUME IInv, NEW h \in Handlers, NEW targets \in SUBSET SaveIds, Delete(h, targets)
  PROVE  IInv'
<1> USE DEF IInv
<1>1. targets \subseteq Known
  BY DEF Delete, ReferencesAreKnown
<1>2. removed' = removed \cup targets /\ pc' = [pc EXCEPT ![h] = "remove"]
      /\ held' = [held EXCEPT ![h] = targets]
  BY DEF Delete, Goto
<1>3. UNCHANGED <<clock, rec, payload, metadata, saveRecords, saveIndex, job, acked>>
  BY DEF Delete, disk, memory
<1>4. Known' = Known /\ Created' = Created
  BY <1>1, <1>2, <1>3 DEF Known, Created
<1>5. TypeOK'
  BY <1>2, <1>3 DEF TypeOK, Steps, ReloadSteps
<1>6. JobsAreSet'
  BY <1>2, <1>3 DEF JobsAreSet, TypeOK, UploadSteps
<1>7. ReferencesAreKnown'
  BY <1>1, <1>2, <1>3, <1>4 DEF ReferencesAreKnown, Listed, TypeOK
<1>8. RemovalsAreMarked'
  BY <1>2, <1>3 DEF RemovalsAreMarked, TypeOK
<1>9. NamesAreFresh' /\ WritesAreOrdered'
  BY <1>2, <1>3, <1>4 DEF NamesAreFresh, WritesAreOrdered, Owns, TypeOK
<1>10. MetadataHasPayload'
  BY <1>2, <1>3 DEF MetadataHasPayload
<1> QED  BY <1>5, <1>6, <1>7, <1>8, <1>9, <1>10

(* The directory being unlinked is one of those to remove. *)
LEMMA CurrentIsHeld ==
  ASSUME IInv, NEW h \in Handlers, held[h] # {}
  PROVE  Current(h) \in held[h]
<1>1. held[h] \subseteq 0 .. MaxSaves /\ MaxSaves \in Nat
  BY BoundsAssumption DEF IInv, TypeOK, SaveIds
<1>2. \E i \in held[h] : \A j \in held[h] : j <= i
  BY <1>1, GreatestExists
<1> QED  BY <1>2 DEF Current

LEMMA UnlinkFilePreserves ==
  ASSUME IInv, NEW h \in Handlers, UnlinkFile(h)
  PROVE  IInv'
<1> DEFINE i == Current(h)
<1> USE DEF IInv
<1>1. i \in removed
  BY CurrentIsHeld DEF UnlinkFile, RemovalsAreMarked
<1>2. /\ payload' \in SUBSET payload /\ metadata' \in SUBSET metadata
      /\ payload \ payload' \subseteq {i} /\ metadata \ metadata' \subseteq {i}
  BY DEF UnlinkFile
<1>3. UNCHANGED <<clock, rec, saveRecords, saveIndex, pc, job, held, acked, removed>>
  BY DEF UnlinkFile, memory, history
<1> HIDE DEF i
<1>4. Known' = Known /\ Created' = Created
  BY <1>1, <1>2, <1>3 DEF Known, Created
<1>5. TypeOK'
  BY <1>2, <1>3 DEF TypeOK
<1>6. JobsAreSet'
  BY <1>3 DEF JobsAreSet
<1>7. ReferencesAreKnown'
  BY <1>2, <1>3, <1>4 DEF ReferencesAreKnown, Listed
<1>8. RemovalsAreMarked'
  BY <1>3 DEF RemovalsAreMarked
<1>9. NamesAreFresh' /\ WritesAreOrdered'
  BY <1>1, <1>2, <1>3, <1>4 DEF NamesAreFresh, WritesAreOrdered, Owns, Known
<1>10. MetadataHasPayload'
  BY <1>1, <1>2, <1>3 DEF MetadataHasPayload
<1> QED  BY <1>5, <1>6, <1>7, <1>8, <1>9, <1>10

(* The steps that only move one handler on from its current request. *)
LEMMA MoveOn ==
  ASSUME IInv, NEW h \in Handlers, NEW step \in {"remove", "reload", "assign"},
         NEW H \in SUBSET Known, step = "remove" => H \subseteq removed,
         pc' = [pc EXCEPT ![h] = step], held' = [held EXCEPT ![h] = H],
         UNCHANGED <<clock, rec, disk, memory, job, history>>
  PROVE  IInv'
<1>1. job[h] \in Job \cup {Nothing} /\ job' = [job EXCEPT ![h] = job[h]]
  BY DEF IInv, TypeOK
<1>2. step \notin BeforeCreate
  BY DEF BeforeCreate
<1>3. UNCHANGED <<clock, rec, disk, removed>> /\ UNCHANGED <<memory, acked>>
  BY DEF history
<1> QED  BY <1>1, <1>2, <1>3, StepOffDisk, MemoryUnchanged

LEMMA DirectoryGonePreserves ==
  ASSUME IInv, NEW h \in Handlers, DirectoryGone(h)
  PROVE  IInv'
<1> DEFINE H == held[h] \ {Current(h)}
<1>1. held' = [held EXCEPT ![h] = H] /\ H \in SUBSET Known /\ H \subseteq removed
  BY DEF DirectoryGone, IInv, TypeOK, ReferencesAreKnown, RemovalsAreMarked
<1>2. PICK step \in {"remove", "reload"} : pc' = [pc EXCEPT ![h] = step]
  <2>1. pc' = [pc EXCEPT ![h] = "reload"] \/ pc' = [pc EXCEPT ![h] = "remove"]
    BY DEF DirectoryGone, Goto, IInv, TypeOK
  <2> QED  BY <2>1
<1>3. UNCHANGED <<clock, rec, disk, memory, job, history>>
  BY DEF DirectoryGone
<1> HIDE DEF H
<1> QED  BY <1>1, <1>2, <1>3, MoveOn

LEMMA RemoveFailsPreserves ==
  ASSUME IInv, NEW h \in Handlers, RemoveFails(h)
  PROVE  IInv'
<1>1. Reply(h) /\ UNCHANGED <<clock, rec, disk, removed>> /\ UNCHANGED <<memory, acked>>
  BY DEF RemoveFails, history
<1> QED  BY <1>1, ReplyPreserves, MemoryUnchanged

LEMMA ReloadPreserves ==
  ASSUME IInv, NEW h \in Handlers, Reload(h)
  PROVE  IInv'
<1>1. held' = [held EXCEPT ![h] = held[h]] /\ held[h] \in SUBSET Known
  BY DEF Reload, IInv, TypeOK, ReferencesAreKnown
<1>2. pc' = [pc EXCEPT ![h] = "reload"] /\ UNCHANGED <<clock, rec, disk, memory, job, history>>
  BY DEF Reload, Goto
<1> QED  BY <1>1, <1>2, MoveOn

LEMMA LoadForReloadPreserves ==
  ASSUME IInv, NEW h \in Handlers, LoadForReload(h)
  PROVE  IInv'
<1>1. held' = [held EXCEPT ![h] = metadata] /\ metadata \in SUBSET Known
  BY DEF LoadForReload, Known
<1>2. pc' = [pc EXCEPT ![h] = "assign"] /\ UNCHANGED <<clock, rec, disk, memory, job, history>>
  BY DEF LoadForReload, Goto
<1> QED  BY <1>1, <1>2, MoveOn

LEMMA AssignLoadedPreserves ==
  ASSUME IInv, NEW h \in Handlers, AssignLoaded(h)
  PROVE  IInv'
<1>1. saveRecords' \in [SaveIds -> Nat] /\ Listed' \subseteq Known
  BY DEF AssignLoaded, Listed, IInv, ReferencesAreKnown
<1>2. saveIndex' \in [Keys -> 0 .. MaxSaves]
  BY BuildIndexPointsAtSaves DEF AssignLoaded
<1>3. acked' \subseteq Known /\ Reply(h) /\ UNCHANGED <<clock, rec, disk, removed>>
  BY DEF AssignLoaded, IInv, ReferencesAreKnown, history
<1> QED  BY <1>1, <1>2, <1>3, ReplyPreserves

LEMMA LoadFailsPreserves ==
  ASSUME IInv, NEW h \in Handlers, LoadFails(h)
  PROVE  IInv'
<1>1. Reply(h) /\ UNCHANGED <<clock, rec, disk, removed>> /\ UNCHANGED <<memory, acked>>
  BY DEF LoadFails, history
<1> QED  BY <1>1, ReplyPreserves, MemoryUnchanged

LEMMA RestartPreserves ==
  ASSUME IInv, Restart
  PROVE  IInv'
<1> USE DEF IInv
<1>1. UNCHANGED <<clock, rec, payload, metadata, acked, removed>>
  BY DEF Restart, disk, history
<1>2. Known' = Known /\ Created' = Created
  BY <1>1 DEF Known, Created
<1>3. /\ pc' = [h \in Handlers |-> "idle"] /\ job' = [h \in Handlers |-> Nothing]
      /\ held' = [h \in Handlers |-> {}]
      /\ saveRecords' = [i \in SaveIds |-> IF i \in metadata THEN 1 ELSE 0]
      /\ saveIndex' \in [Keys -> 0 .. MaxSaves]
  BY BuildIndexPointsAtSaves DEF Restart
<1>4. TypeOK'
  BY <1>1, <1>3 DEF TypeOK, Steps
<1>5. JobsAreSet'
  BY <1>3 DEF JobsAreSet, UploadSteps
<1>6. ReferencesAreKnown'
  BY <1>1, <1>2, <1>3 DEF ReferencesAreKnown, Listed, Known
<1>7. RemovalsAreMarked' /\ NamesAreFresh' /\ WritesAreOrdered'
  BY <1>1, <1>2, <1>3 DEF RemovalsAreMarked, NamesAreFresh, WritesAreOrdered, Owns
<1>8. MetadataHasPayload'
  BY <1>1 DEF MetadataHasPayload
<1> QED  BY <1>4, <1>5, <1>6, <1>7, <1>8

-----------------------------------------------------------------------------
(***************************************************************************)
(* Theorems.                                                               *)
(***************************************************************************)
LEMMA InitInvariant == Init => IInv
<1> SUFFICES ASSUME Init PROVE IInv
  OBVIOUS
<1>1. Listed = {} /\ Known = {} /\ Created = {}
  BY DEF Init, Listed, Known, Created, Nothing, Save
<1>2. TypeOK
  BY <1>1, BoundsAssumption DEF Init, TypeOK, Steps, NoSave
<1> QED  BY <1>1, <1>2 DEF Init, IInv, JobsAreSet, UploadSteps, ReferencesAreKnown,
           RemovalsAreMarked, NamesAreFresh, WritesAreOrdered, Owns, MetadataHasPayload

LEMMA StutterInvariant == IInv /\ UNCHANGED vars => IInv'
BY DEF vars, disk, memory, history, IInv, TypeOK, JobsAreSet, ReferencesAreKnown, Created,
       Known, Listed, RemovalsAreMarked, NamesAreFresh, WritesAreOrdered, Owns, MetadataHasPayload

LEMMA NextInvariant == IInv /\ [Next]_vars => IInv'
<1> SUFFICES ASSUME IInv, [Next]_vars PROVE IInv'
  OBVIOUS
<1>1. ASSUME NEW h \in Handlers, Request(h) PROVE IInv'
  BY <1>1, UploadPreserves, RollbackPreserves, DeletePreserves, ReloadPreserves DEF Request
<1>2. ASSUME NEW h \in Handlers, Deduplicate(h) PROVE IInv'
  BY <1>2, SnapshotPreserves, NoDuplicatePreserves, IgnoreDuplicatePreserves,
     RejectStalePreserves DEF Deduplicate
<1>3. ASSUME NEW h \in Handlers, Create(h) PROVE IInv'
  BY <1>3, LoadForCreatePreserves, WritePayloadPreserves, WriteMetadataPreserves,
     PrependPreserves, CreateFailsPreserves DEF Create
<1>4. ASSUME NEW h \in Handlers, Remove(h) PROVE IInv'
  BY <1>4, UnlinkFilePreserves, DirectoryGonePreserves, RemoveFailsPreserves DEF Remove
<1>5. ASSUME NEW h \in Handlers, Refresh(h) PROVE IInv'
  BY <1>5, LoadForReloadPreserves, AssignLoadedPreserves, LoadFailsPreserves DEF Refresh
<1>6. CASE Restart
  BY <1>6, RestartPreserves
<1>7. CASE UNCHANGED vars
  BY <1>7, StutterInvariant
<1> QED  BY <1>1, <1>2, <1>3, <1>4, <1>5, <1>6, <1>7 DEF Next

THEOREM Invariant == Spec => []IInv
BY InitInvariant, NextInvariant, PTL DEF Spec

(* All variables keep their types: ids name saves that may exist, and the  *)
(* newest revision that an upload is answered with is one of them.         *)
THEOREM TypeCorrect == Spec => []TypeOK
BY Invariant, PTL DEF IInv

(* create writes metadata.json after the payload, and removal is the only  *)
(* way either goes: a scan of the disk never finds a record without its    *)
(* payload unless the record is being removed.                             *)
THEOREM PayloadWrittenFirst == Spec => []MetadataHasPayload
BY Invariant, PTL DEF IInv

(* However many uploads, reloads, failures and restarts run at once, what  *)
(* a success response named stays on disk until it is deleted.             *)
THEOREM NothingAcknowledgedIsLost == Spec => []AcknowledgedSavesAreStored
<1>1. IInv => AcknowledgedSavesAreStored
  BY DEF IInv, ReferencesAreKnown, Known, MetadataHasPayload, AcknowledgedSavesAreStored
<1> QED  BY <1>1, Invariant, PTL

(* Whatever the list shows is on disk, unless it is being removed: a late  *)
(* reload cannot list what was never written.                              *)
THEOREM NothingListedIsMissing == Spec => []ListedSavesAreStored
<1>1. IInv => ListedSavesAreStored
  BY DEF IInv, ReferencesAreKnown, Known, MetadataHasPayload, ListedSavesAreStored
<1> QED  BY <1>1, Invariant, PTL

-----------------------------------------------------------------------------
(***************************************************************************)
(* The store implements the ledger.                                        *)
(***************************************************************************)
LEMMA LedgerStep == IInv /\ IInv' /\ [Next]_vars => [Ledger!Next]_Ledger!vars
<1> SUFFICES ASSUME IInv, IInv', [Next]_vars PROVE [Ledger!Next]_Ledger!vars
  OBVIOUS
<1> USE DEF Ledger!Next, Ledger!vars
<1>1. ASSUME UNCHANGED <<payload, metadata, acked, removed>> PROVE [Ledger!Next]_Ledger!vars
  BY <1>1
<1>2. ASSUME NEW h \in Handlers, Request(h) PROVE [Ledger!Next]_Ledger!vars
  <2>1. CASE \E targets \in SUBSET SaveIds : Delete(h, targets)
    <3>1. PICK targets \in SUBSET SaveIds : Delete(h, targets)
      BY <2>1
    <3>2. targets \subseteq (metadata \cap payload) \cup removed
      BY <3>1 DEF Delete, IInv, ReferencesAreKnown, Known, MetadataHasPayload
    <3>3. Ledger!Retire(targets)
      BY <3>1, <3>2 DEF Ledger!Retire, Delete, disk
    <3> QED  BY <3>3
  <2>2. CASE ~\E targets \in SUBSET SaveIds : Delete(h, targets)
    <3>1. UNCHANGED <<disk, history>>
      BY <1>2, <2>2 DEF Request, Upload, Rollback, Reload
    <3> QED  BY <1>1, <3>1 DEF disk, history
  <2> QED  BY <2>1, <2>2
<1>3. ASSUME NEW h \in Handlers, Deduplicate(h) PROVE [Ledger!Next]_Ledger!vars
  <2>1. CASE IgnoreDuplicate(h)
    <3> DEFINE scope == DuplicateScope(held[h] \cap payload, job[h].key, job[h].sha)
    <3>1. Newest(scope) \in held[h]
      BY <2>1, ScopeIsHeld DEF IgnoreDuplicate
    <3>2. acked' = acked \cup {Newest(scope)} /\ UNCHANGED <<payload, metadata, removed>>
      BY <2>1 DEF IgnoreDuplicate, disk
    <3> HIDE DEF scope
    <3>3. Newest(scope) \in SaveIds /\ Newest(scope) \in (metadata \cap payload) \cup removed
      BY <3>1 DEF IInv, TypeOK, ReferencesAreKnown, Known, MetadataHasPayload
    <3>4. Ledger!Promise(Newest(scope))
      BY <3>2, <3>3 DEF Ledger!Promise
    <3> QED  BY <3>3, <3>4
  <2>2. CASE Snapshot(h) \/ NoDuplicate(h) \/ RejectStale(h)
    <3>1. UNCHANGED <<disk, history>>
      BY <2>2 DEF Snapshot, NoDuplicate, RejectStale
    <3> QED  BY <1>1, <3>1 DEF disk, history
  <2> QED  BY <1>3, <2>1, <2>2 DEF Deduplicate
<1>4. ASSUME NEW h \in Handlers, Create(h) PROVE [Ledger!Next]_Ledger!vars
  <2>1. CASE LoadForCreate(h) \/ CreateFails(h)
    <3>1. UNCHANGED <<disk, history>>
      BY <2>1 DEF LoadForCreate, CreateFails
    <3> QED  BY <1>1, <3>1 DEF disk, history
  <2>2. CASE WritePayload(h)
    <3>1. payload' = payload \cup {job[h].id} /\ UNCHANGED <<metadata, acked, removed>>
      BY <2>2 DEF WritePayload, history
    <3>2. job[h].id \notin metadata
      BY <2>2 DEF WritePayload, IInv, NamesAreFresh, Owns, Known
    <3>3. (metadata \cap payload)' = metadata \cap payload
      BY <3>1, <3>2
    <3> QED  BY <3>1, <3>3
  <2>3. CASE WriteMetadata(h)
    <3> DEFINE i == job[h].id
    <3>1. i \in payload \ Known /\ i \in SaveIds
      BY <2>3 DEF WriteMetadata, IInv, NamesAreFresh, WritesAreOrdered, Owns, TypeOK
    <3>2. metadata' = metadata \cup {i} /\ UNCHANGED <<payload, acked, removed>>
      BY <2>3 DEF WriteMetadata, history
    <3>3. i \notin (metadata \cap payload) \cup acked \cup removed
      BY <3>1 DEF IInv, ReferencesAreKnown, Known
    <3> HIDE DEF i
    <3>4. Ledger!Store(i)
      BY <3>1, <3>2, <3>3 DEF Ledger!Store
    <3> QED  BY <3>1, <3>4
  <2>4. CASE Prepend(h)
    <3> DEFINE i == job[h].id
    <3>1. i \in Known
      BY <2>4 DEF Prepend, IInv, WritesAreOrdered
    <3>2. i \in SaveIds /\ i \in (metadata \cap payload) \cup removed
      BY <3>1 DEF Known, IInv, TypeOK, MetadataHasPayload
    <3>3. acked' = acked \cup {i} /\ UNCHANGED <<payload, metadata, removed>>
      BY <2>4 DEF Prepend, disk
    <3> HIDE DEF i
    <3>4. Ledger!Promise(i)
      BY <3>2, <3>3 DEF Ledger!Promise
    <3> QED  BY <3>2, <3>4
  <2> QED  BY <1>4, <2>1, <2>2, <2>3, <2>4 DEF Create
<1>5. ASSUME NEW h \in Handlers, Remove(h) PROVE [Ledger!Next]_Ledger!vars
  <2>1. CASE UnlinkFile(h)
    <3> DEFINE i == Current(h)
    <3>1. i \in removed /\ i \in SaveIds
      BY <2>1, CurrentIsHeld DEF UnlinkFile, IInv, RemovalsAreMarked, TypeOK
    <3>2. UNCHANGED <<acked, removed>>
      BY <2>1 DEF UnlinkFile, history
    <3>3. (metadata \cap payload)' = (metadata \cap payload) \ {i}
      BY <2>1 DEF UnlinkFile
    <3> HIDE DEF i
    <3>4. CASE i \in metadata \cap payload
      <4>1. Ledger!Erase(i)
        BY <3>1, <3>2, <3>3, <3>4 DEF Ledger!Erase
      <4> QED  BY <3>1, <4>1
    <3>5. CASE i \notin metadata \cap payload
      BY <3>2, <3>3, <3>5
    <3> QED  BY <3>4, <3>5
  <2>2. CASE DirectoryGone(h) \/ RemoveFails(h)
    <3>1. UNCHANGED <<disk, history>>
      BY <2>2 DEF DirectoryGone, RemoveFails
    <3> QED  BY <1>1, <3>1 DEF disk, history
  <2> QED  BY <1>5, <2>1, <2>2 DEF Remove
<1>6. ASSUME NEW h \in Handlers, Refresh(h) PROVE [Ledger!Next]_Ledger!vars
  <2>1. UNCHANGED <<disk, history>>
    BY <1>6 DEF Refresh, LoadForReload, AssignLoaded, LoadFails
  <2> QED  BY <1>1, <2>1 DEF disk, history
<1>7. CASE Restart
  BY <1>1, <1>7 DEF Restart, disk, history
<1>8. CASE UNCHANGED vars
  BY <1>1, <1>8 DEF vars, disk, history
<1> QED  BY <1>2, <1>3, <1>4, <1>5, <1>6, <1>7, <1>8 DEF Next

(* Seen from outside, every step of the handlers is a step of the ledger   *)
(* or none: a save is stored once, never comes back once deleted, and is   *)
(* promised only after it was stored.                                      *)
THEOREM Refinement == Spec => ImplementsLedger
<1>1. Init => Ledger!Init
  BY DEF Init, Ledger!Init
<1> QED  BY <1>1, Invariant, LedgerStep, PTL DEF Spec, ImplementsLedger, Ledger!Spec

-----------------------------------------------------------------------------
(***************************************************************************)
(* The index answers what a scan would.                                    *)
(***************************************************************************)
LEMMA ReadableAreWritten ==
  ASSUME IInv, NEW k
  PROVE  Readable(k) \subseteq Created /\ Written(rec, Readable(k))
BY DEF IInv, ReferencesAreKnown, Created, Readable, Written

(* A lookup right after the index is rebuilt. *)
LEMMA FreshIndex ==
  ASSUME IInv, NEW S, saveIndex' = BuildIndex(S), Listed' = S,
         UNCHANGED <<rec, payload>>
  PROVE  LatestIsNewest'
<1> SUFFICES ASSUME NEW k \in Keys
             PROVE  LatestReadable(k)' = Newest(Readable(k))'
  BY DEF LatestIsNewest
<1>1. saveIndex'[k] = Newest({i \in S \cap payload : rec[i].key = k})
  BY DEF BuildIndex
<1>2. Readable(k)' = {i \in S \cap payload : rec[i].key = k}
  BY DEF Readable
<1>3. Newest(Readable(k))' = saveIndex'[k]
  BY <1>1, <1>2 DEF Newest
<1> QED  BY <1>3 DEF LatestReadable

(* A lookup after payloads were unlinked. *)
LEMMA IndexAfterUnlink ==
  ASSUME IInv, LatestIsNewest, payload' \subseteq payload,
         UNCHANGED <<rec, memory>>
  PROVE  LatestIsNewest'
<1> SUFFICES ASSUME NEW k \in Keys, saveIndex[k] \in payload'
             PROVE  saveIndex[k] = NewestOf(rec, Readable(k)')
  BY DEF LatestIsNewest, LatestReadable, Newest, memory
<1> DEFINE n == saveIndex[k]
<1>1. n = NewestOf(rec, Readable(k))
  BY DEF LatestIsNewest, LatestReadable, Newest
<1>2. Readable(k)' \subseteq Readable(k)
  BY DEF Readable, Listed, memory
<1>3. Readable(k) # {}
  BY <1>1 DEF NewestOf, NoSave, IInv, ReferencesAreKnown, Created, SaveIds
<1>4. n \in Readable(k) /\ \A j \in Readable(k) \ {n} : SaveRecordSortsAfter(rec, n, j)
  BY <1>1, <1>3, ReadableAreWritten, NewestInSet
<1>5. n \in Readable(k)'
  BY <1>4 DEF Readable, Listed, memory
<1> HIDE DEF n
<1>6. n = NewestOf(rec, Readable(k)')
  <2>1. Written(rec, Readable(k)')
    BY <1>2, ReadableAreWritten DEF Written
  <2> QED  BY <1>2, <1>4, <1>5, <2>1, NewestUnique
<1> QED  BY <1>6 DEF n

(* A lookup after the payload of a save that nobody lists was written. *)
LEMMA IndexAfterWrite ==
  ASSUME IInv, LatestIsNewest, NEW i \in SaveIds \ (Created \cup Known), NEW r,
         rec' = [rec EXCEPT ![i] = r], payload' = payload \cup {i},
         \A k \in Keys : saveIndex[k] \in Created \cup {NoSave},
         UNCHANGED memory
  PROVE  LatestIsNewest'
<1> SUFFICES ASSUME NEW k \in Keys
             PROVE  LatestReadable(k)' = Newest(Readable(k))'
  BY DEF LatestIsNewest
<1>1. Listed' = Listed /\ Listed \cap payload' = Listed \cap payload
  BY DEF IInv, ReferencesAreKnown, Listed, memory
<1>2. \A j \in Created : rec'[j] = rec[j]
  BY DEF Created, IInv, TypeOK
<1>3. Readable(k)' = Readable(k)
  <2>1. \A j \in Listed \cap payload : rec'[j].key = rec[j].key
    BY <1>2 DEF IInv, ReferencesAreKnown
  <2> QED  BY <1>1, <2>1 DEF Readable
<1>4. NewestOf(rec', Readable(k)) = NewestOf(rec, Readable(k))
  <2> SUFFICES ASSUME NEW R, R = Readable(k)
               PROVE  NewestOf(rec', R) = NewestOf(rec, R)
    OBVIOUS
  <2>1. R \subseteq Created /\ Written(rec, R) /\ Written(rec', R)
    BY <1>2, ReadableAreWritten DEF Written
  <2>2. CASE R = {}
    BY <2>2 DEF NewestOf
  <2>3. CASE R # {}
    <3> DEFINE n == NewestOf(rec, R)
    <3>1. n \in R /\ \A j \in R \ {n} : SaveRecordSortsAfter(rec, n, j)
      BY <2>1, <2>3, NewestInSet
    <3> HIDE DEF n
    <3>2. \A j \in R \ {n} : SaveRecordSortsAfter(rec', n, j)
      BY <1>2, <2>1, <3>1 DEF SaveRecordSortsAfter
    <3>3. NewestOf(rec', R) = n
      BY <2>1, <3>1, <3>2, NewestUnique
    <3> QED  BY <3>3 DEF n
  <2> QED  BY <2>2, <2>3
<1>5. saveIndex'[k] = saveIndex[k] /\ saveIndex[k] # i
  BY DEF memory, NoSave, SaveIds
<1>6. saveIndex[k] \in payload => saveIndex[k] = NewestOf(rec, Readable(k))
  BY DEF LatestIsNewest, LatestReadable, Newest
<1>7. LatestReadable(k)' = IF saveIndex[k] \in payload THEN saveIndex[k]
                          ELSE NewestOf(rec', Readable(k)')
  BY <1>5 DEF LatestReadable, Newest
<1> QED  BY <1>3, <1>4, <1>6, <1>7 DEF Newest

IndexInv == LatestIsNewest /\ \A k \in Keys : saveIndex[k] \in Created \cup {NoSave}

LEMMA IndexStep == IInv /\ IInv' /\ IndexInv /\ [Next]_vars => IndexInv'
<1> SUFFICES ASSUME IInv, IInv', IndexInv, [Next]_vars PROVE IndexInv'
  OBVIOUS
<1>1. ASSUME UNCHANGED <<rec, payload, memory>> PROVE IndexInv'
  BY <1>1 DEF IndexInv, LatestIsNewest, LatestReadable, Readable, Newest, Listed, memory, Created
<1>2. ASSUME NEW S, saveIndex' = BuildIndex(S), Listed' = S, UNCHANGED <<rec, payload>>
      PROVE  IndexInv'
  BY <1>2, FreshIndex, BuildIndexPointsAtCreated DEF IndexInv, Created
<1>3. ASSUME NEW h \in Handlers, Prepend(h) PROVE IndexInv'
  <2> DEFINE i == job[h].id
  <2>1. i \in SaveIds
    BY <1>3 DEF Prepend, IInv, WritesAreOrdered, Known, TypeOK
  <2>2. saveRecords' = [saveRecords EXCEPT ![i] = @ + 1] /\ saveRecords \in [SaveIds -> Nat]
    BY <1>3 DEF Prepend, IInv, TypeOK
  <2>3. saveIndex' = BuildIndex(Listed \cup {i}) /\ UNCHANGED <<rec, payload>>
    BY <1>3 DEF Prepend, disk
  <2> HIDE DEF i
  <2>4. Listed' = Listed \cup {i}
    BY <2>1, <2>2 DEF Listed
  <2> QED  BY <1>2, <2>3, <2>4
<1>4. ASSUME NEW h \in Handlers, AssignLoaded(h) PROVE IndexInv'
  <2>1. Listed' = held[h] /\ saveIndex' = BuildIndex(held[h]) /\ UNCHANGED <<rec, payload>>
    BY <1>4 DEF AssignLoaded, Listed, disk, IInv, TypeOK
  <2> QED  BY <1>2, <2>1
<1>5. CASE Restart
  <2>1. Listed' = metadata /\ saveIndex' = BuildIndex(metadata) /\ UNCHANGED <<rec, payload>>
    BY <1>5 DEF Restart, Listed, disk, IInv, TypeOK
  <2> QED  BY <1>2, <2>1
<1>6. ASSUME NEW h \in Handlers, UnlinkFile(h) PROVE IndexInv'
  <2>1. payload' \subseteq payload /\ UNCHANGED <<rec, memory>>
    BY <1>6 DEF UnlinkFile
  <2> QED  BY <2>1, IndexAfterUnlink DEF IndexInv, memory, Created
<1>7. ASSUME NEW h \in Handlers, WritePayload(h) PROVE IndexInv'
  <2> DEFINE i == job[h].id
             r == NewRecord(job[h])
  <2>1. rec' = [rec EXCEPT ![i] = r] /\ payload' = payload \cup {i} /\ UNCHANGED memory
    BY <1>7 DEF WritePayload
  <2>2. i \in SaveIds \ (Created \cup Known) /\ r \in Save
    BY <1>7, BoundsAssumption DEF WritePayload, IInv, JobsAreSet, UploadSteps, NamesAreFresh,
       WritesAreOrdered, Owns, TypeOK, SaveIds, Job, Save, NewRecord
  <2> HIDE DEF r, i
  <2>3. LatestIsNewest'
    BY <2>1, <2>2, IndexAfterWrite DEF IndexInv
  <2>4. Created \subseteq Created'
    BY <2>1, <2>2 DEF Created, IInv, TypeOK
  <2> QED  BY <2>1, <2>3, <2>4 DEF IndexInv, memory
<1>8. ASSUME NEW h \in Handlers,
             \/ Request(h) \/ Deduplicate(h) \/ LoadForCreate(h) \/ WriteMetadata(h)
             \/ CreateFails(h) \/ DirectoryGone(h) \/ RemoveFails(h)
             \/ LoadForReload(h) \/ LoadFails(h)
      PROVE  IndexInv'
  <2>1. UNCHANGED <<rec, payload, memory>>
    BY <1>8 DEF Request, Upload, Rollback, Delete, Reload, Deduplicate, Snapshot,
       NoDuplicate, IgnoreDuplicate, RejectStale, LoadForCreate, WriteMetadata, CreateFails,
       DirectoryGone, RemoveFails, LoadForReload, LoadFails, disk
  <2> QED  BY <1>1, <2>1
<1>9. CASE UNCHANGED vars
  BY <1>1, <1>9 DEF vars, disk
<1> QED  BY <1>3, <1>4, <1>5, <1>6, <1>7, <1>8, <1>9 DEF Next, Create, Remove, Refresh

(* The index is rebuilt with the list and checked against the disk on      *)
(* every lookup; deletions and half-written saves in between never make it *)
(* answer with anything but the newest readable revision.                  *)
THEOREM IndexAnswersTheNewest == Spec => []LatestIsNewest
<1>1. Init => IndexInv
  <2> SUFFICES ASSUME Init PROVE IndexInv
    OBVIOUS
  <2>1. \A k \in Keys : saveIndex[k] = NoSave /\ Readable(k) = {}
    BY DEF Init, Readable
  <2>2. \A k \in Keys : LatestReadable(k) = NoSave /\ Newest(Readable(k)) = NoSave
    BY <2>1 DEF LatestReadable, Newest, NewestOf
  <2> QED  BY <2>1, <2>2 DEF IndexInv, LatestIsNewest, NoSave
<1>2. IndexInv => LatestIsNewest
  BY DEF IndexInv
<1> QED  BY <1>1, <1>2, Invariant, IndexStep, PTL DEF Spec
=============================================================================
