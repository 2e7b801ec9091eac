-------------------------- MODULE N64ControllerPak --------------------------
(***************************************************************************)
(* The controller paks of the Nintendo 64. A sync line is a ROM and a slot *)
(* on it. The server takes a pak uploaded for a line apart into logical    *)
(* saves, keeps their revisions, and builds a pak of the line's active     *)
(* saves for every runtime profile. A save that an upload leaves out gets  *)
(* a tombstone, whoever uploads and whatever that device knew of it. A     *)
(* logical save is filed by its game and note alone: the line that it is   *)
(* of is the one that last uploaded it.                                    *)
(*                                                                         *)
(* n64ControllerPakStore.mu makes an operation on the state one step; a    *)
(* request then turns the paks that were built into saves of the save      *)
(* store, one by one, and answers. The state changes in memory first, and  *)
(* a failure before it is written to its file leaves the change there.     *)
(***************************************************************************)
EXTENDS Naturals, Sequences, FiniteSets, Functions

CONSTANTS
  Lines,      (* Sync lines.                                               *)
  Profiles,   (* 1 .. number of runtime profiles, in the order of a rebuild *)
  Logicals,   (* Logical saves.                                            *)
  Contents,   (* Contents of one, standing for their SHA-256.              *)
  Capacity,   (* Logical saves that fit on a pak.                          *)
  NoLine,
  MaxPaks, MaxRevisions, MaxUploads, MaxPakFaults   (* Bound the model.    *)

VARIABLES
  pak,          (* n64ControllerPakStore.state, in memory.                 *)
  pakFile,      (* The same in its file.                                   *)
  payloads,     (* Files of revisions, by save and content.                *)
  copies,       (* Paks that the save store has a save of.                 *)
  uploads,      (* What requests in flight still have to do.               *)
  uploaded,     (* History: who uploaded what.                             *)
  acknowledged, (* History: contents in an upload answered as stored.      *)
  pakFaults     (* How many writes failed.                                 *)

pakVars == <<pak, pakFile, payloads, copies, uploads, uploaded, acknowledged, pakFaults>>

Rebuilds == 1 .. MaxPaks
None == 0
Cards == UNION {[S -> Contents] : S \in SUBSET Logicals}

Revision == [content : Contents, rollback : BOOLEAN]

(* Rebuild n made a pak for some profiles: those of n in projections.      *)
Pak == [
  line        : [Logicals -> Lines \cup {NoLine}],
  revisions   : [Logicals -> Seq(Revision)],              (* last is latest *)
  tombstones  : SUBSET (Lines \X Logicals),
  built       : Seq([line : Lines, card : Cards, rollback : BOOLEAN]),
  projections : SUBSET (Profiles \X Rebuilds),
  latest      : [Lines \X Profiles -> {None} \cup Rebuilds],
  attached    : SUBSET (Profiles \X Rebuilds)]   (* those with a SaveRecordID *)

Request == [step : {"materialize", "attach", "lookup", "remove"},
            line : Lines \cup {NoLine}, profile : Profiles,
            todo : SUBSET Profiles, at : {None} \cup Rebuilds, own : BOOLEAN,
            gone : SUBSET (Profiles \X Rebuilds), promise : SUBSET (Logicals \X Contents)]

PaksTypeOK ==
  /\ pak \in Pak /\ pakFile \in Pak
  /\ pak.attached \subseteq pak.projections
  /\ payloads \subseteq Logicals \X Contents
  /\ copies \subseteq Profiles \X Rebuilds
  /\ uploads \subseteq Request
  /\ uploaded \subseteq Lines \X Logicals
  /\ acknowledged \subseteq Logicals \X Contents
  /\ pakFaults \in 0 .. MaxPakFaults

EmptyPak == [
  line        |-> [l \in Logicals |-> NoLine],
  revisions   |-> [l \in Logicals |-> << >>],
  tombstones  |-> {},
  built       |-> << >>,
  projections |-> {},
  latest      |-> [k \in Lines \X Profiles |-> None],
  attached    |-> {}]

PaksInit ==
  /\ pak = EmptyPak /\ pakFile = EmptyPak
  /\ payloads = {} /\ copies = {} /\ uploads = {}
  /\ uploaded = {} /\ acknowledged = {}
  /\ pakFaults = 0
-----------------------------------------------------------------------------
(***************************************************************************)
(* Building the paks of a line.                                            *)
(***************************************************************************)
Revised(s, l) == {s.revisions[l][i].content : i \in DOMAIN s.revisions[l]}
LatestRevision(s, l) == s.revisions[l][Len(s.revisions[l])].content

Active(s, k) ==
  {l \in Logicals : /\ s.line[l] = k /\ s.revisions[l] # << >>
                    /\ <<k, l>> \notin s.tombstones}

CanonicalPak(s, k) == [l \in Active(s, k) |-> LatestRevision(s, l)]

(* Mutant: a profile that has a pak keeps it as long as it has the saves.  *)
DueByName(s, k, rollback) ==
  {p \in Profiles : rollback \/ s.latest[<<k, p>>] = None
     \/ DOMAIN s.built[s.latest[<<k, p>>]].card # Active(s, k)}

(* The profiles whose pak changes; all of them after a rollback.           *)
Due(s, k, rollback) ==
  {p \in Profiles :
     rollback \/ <<p, s.latest[<<k, p>>]>> \notin s.projections
              \/ s.built[s.latest[<<k, p>>]].card # CanonicalPak(s, k)}

(* rebuildProjectionLinesLocked, as far as the profiles in done.           *)
Rebuilt(s, k, due, done, rollback) ==
  LET n == Len(s.built) + 1
      new == due \cap done
  IN  IF new = {} THEN s
      ELSE [s EXCEPT
        !.built = Append(@, [line |-> k, card |-> CanonicalPak(s, k), rollback |-> rollback]),
        !.projections = @ \cup (new \X {n}),
        !.latest = [j \in Lines \X Profiles |-> IF j[1] = k /\ j[2] \in new THEN n ELSE @[j]]]

(* The pak is full, or a payload is not there to read.                     *)
CannotBuild(s, k, files) ==
  \/ Cardinality(Active(s, k)) > Capacity
  \/ \E l \in Active(s, k) : <<l, LatestRevision(s, l)>> \notin files

PakFault == pakFaults < MaxPakFaults /\ pakFaults' = pakFaults + 1

Drop(others) == uploads' = others /\ UNCHANGED <<pakFile, acknowledged>>

(* What is left of r: paks to materialise, a record to look up, or nothing: *)
(* then it is answered.                                                    *)
Proceed(others, r) ==
  \/ /\ r.todo # {}
     /\ uploads' = others \cup {[r EXCEPT !.step = "materialize"]}
     /\ UNCHANGED acknowledged
  \/ /\ r.todo = {} /\ ~r.own
     /\ uploads' = others \cup {[r EXCEPT !.step = "lookup"]}
     /\ UNCHANGED acknowledged
  \/ /\ r.todo = {} /\ r.own
     /\ uploads' = others
     /\ acknowledged' = acknowledged \cup r.promise

(* Mutant: the request goes on although the file was not written.          *)
PersistIgnoringErrors(s, others, r) ==
  /\ pak' = s
  /\ \/ pakFile' = s /\ UNCHANGED pakFaults
     \/ PakFault /\ UNCHANGED pakFile
  /\ Proceed(others, r)

Persist(s, others, r) ==
  /\ pak' = s
  /\ \/ pakFile' = s /\ Proceed(others, r) /\ UNCHANGED pakFaults
     \/ PakFault /\ Drop(others)

RebuildAndPersist(s, k, files, rollback, others, r) ==
  LET due == Due(s, k, rollback) IN
  \/ /\ CannotBuild(s, k, files)
     /\ pak' = s
     /\ Drop(others) /\ UNCHANGED pakFaults
  \/ /\ ~CannotBuild(s, k, files)
     /\ due # {} => Len(s.built) < MaxPaks
     /\ \/ Persist(Rebuilt(s, k, due, Profiles, rollback), others,
                   [r EXCEPT !.todo = due,
                             !.at = IF due = {} THEN None ELSE Len(s.built) + 1])
        \/ \E p \in due :
             /\ pak' = Rebuilt(s, k, due, 1 .. p - 1, rollback)
             /\ PakFault /\ Drop(others)
-----------------------------------------------------------------------------
(***************************************************************************)
(* Importing a pak, for the profile of the device that uploads it.         *)
(***************************************************************************)
(* Mutant: contents are compared with the latest revision only.            *)
FreshAgainstLatest(card) ==
  {l \in DOMAIN card : pak.revisions[l] = << >> \/ card[l] # LatestRevision(pak, l)}

Fresh(card) == {l \in DOMAIN card : card[l] \notin Revised(pak, l)}

Historical(k, card) ==
  {l \in DOMAIN card \ Fresh(card) :
     card[l] # LatestRevision(pak, l) \/ <<k, l>> \in pak.tombstones}

(* The notes of card are entered: those not new move to the line, too.     *)
Entered(k, card) ==
  [pak EXCEPT
    !.line = [l \in Logicals |-> IF l \in DOMAIN card THEN k ELSE @[l]],
    !.tombstones = @ \ ({k} \X Fresh(card)),
    !.revisions = [l \in Logicals |->
       IF l \in Fresh(card) THEN Append(@[l], [content |-> card[l], rollback |-> FALSE])
       ELSE @[l]]]

Missing(s, k, card) == {l \in Logicals : s.line[l] = k /\ l \notin DOMAIN card}

NewFiles(card) == {<<l, card[l]>> : l \in Fresh(card)}

HasRevisions(n) ==
  n + Cardinality(UNION {{l} \X DOMAIN pak.revisions[l] : l \in Logicals}) <= MaxRevisions

HasRoom == Cardinality(uploads) < MaxUploads

(* A tombstone is dated: one that is there already is a change as well.    *)
Upload(k, p, card) ==
  LET entered == Entered(k, card)
      missing == Missing(entered, k, card)
      s == [entered EXCEPT !.tombstones = @ \cup ({k} \X missing)]
      changed == Fresh(card) \cup missing # {}
      r == [step |-> "lookup", line |-> k, profile |-> p, todo |-> {}, at |-> None,
            own |-> FALSE, gone |-> {},
            promise |-> IF ~changed /\ Historical(k, card) # {} THEN {}
                        ELSE {<<l, card[l]>> : l \in DOMAIN card}]
  IN /\ HasRoom
     /\ DOMAIN card # {} /\ Cardinality(DOMAIN card) <= Capacity
     /\ HasRevisions(Cardinality(Fresh(card)))
     /\ payloads' = payloads \cup NewFiles(card)
     /\ uploaded' = uploaded \cup ({k} \X DOMAIN card)
     /\ \/ ~changed /\ Persist(s, uploads, r)
        \/ changed /\ RebuildAndPersist(s, k, payloads', FALSE, uploads, r)
     /\ UNCHANGED copies

(* The payload of one note cannot be written: those before it are entered. *)
UploadPartly(k, card, S) ==
  LET part == Restrict(card, S) IN
  /\ HasRoom
  /\ S \subseteq DOMAIN card /\ Fresh(card) \ S # {}
  /\ HasRevisions(Cardinality(Fresh(part)))
  /\ pak' = Entered(k, part)
  /\ payloads' = payloads \cup NewFiles(part)
  /\ uploaded' = uploaded \cup ({k} \X S)
  /\ PakFault
  /\ UNCHANGED <<pakFile, copies, uploads, acknowledged>>
-----------------------------------------------------------------------------
(***************************************************************************)
(* Requests from the web page, on a save of a pak <<p, n>> of the line.    *)
(***************************************************************************)
WebRequest(k, p) ==
  [step |-> "materialize", line |-> k, profile |-> p, todo |-> {}, at |-> None,
   own |-> TRUE, gone |-> {}, promise |-> {}]

DeleteLogicalSave(k, p, l) ==
  /\ HasRoom
  /\ \E c \in copies : c[1] = p /\ pak.built[c[2]].line = k
  /\ pak.line[l] = k
  /\ RebuildAndPersist([pak EXCEPT !.tombstones = @ \cup {<<k, l>>}], k, payloads,
                       FALSE, uploads, WebRequest(k, p))
  /\ UNCHANGED <<payloads, copies, uploaded>>

(* The copied revision shares the file of the one it is a copy of.         *)
RollbackLogicalSave(k, p, l, i) ==
  LET content == pak.revisions[l][i].content IN
  /\ HasRoom
  /\ \E c \in copies : c[1] = p /\ pak.built[c[2]].line = k
  /\ pak.line[l] = k
  /\ HasRevisions(1)
  /\ RebuildAndPersist(
       [pak EXCEPT !.revisions[l] = Append(@, [content |-> content, rollback |-> TRUE]),
                   !.tombstones = @ \ {<<k, l>>}],
       k, payloads, TRUE, uploads,
       [WebRequest(k, p) EXCEPT !.promise = {<<l, content>>}])
  /\ UNCHANGED <<payloads, copies, uploaded>>

NextDue(r) == {p \in r.todo : \A q \in r.todo : p <= q}

(* createSave for the next pak.                                            *)
Materialize(r) ==
  /\ r.step = "materialize"
  /\ \/ PakFault /\ Drop(uploads \ {r}) /\ UNCHANGED copies
     \/ /\ \E p \in NextDue(r) : copies' = copies \cup {<<p, r.at>>}
        /\ uploads' = (uploads \ {r}) \cup {[r EXCEPT !.step = "attach"]}
        /\ UNCHANGED <<pakFile, acknowledged, pakFaults>>
  /\ UNCHANGED <<pak, payloads, uploaded>>

(* attachProjectionSaveRecord for the save that was created, unless        *)
(* cleanup has dropped its pak since.                                      *)
Attach(r) ==
  /\ r.step = "attach"
  /\ \E p \in NextDue(r) :
       LET copy == <<p, r.at>> IN
       \/ /\ copy \in pak.projections
          /\ Persist([pak EXCEPT !.attached = @ \cup {copy}], uploads \ {r},
                     [r EXCEPT !.todo = @ \ {p}, !.own = @ \/ p = r.profile])
       \/ /\ copy \notin pak.projections
          /\ Drop(uploads \ {r}) /\ UNCHANGED <<pak, pakFaults>>
  /\ UNCHANGED <<payloads, copies, uploaded>>

(* latestProjectionSaveRecord, when no pak was built for its own profile.  *)
Servable(k, p) ==
  LET latest == <<p, pak.latest[<<k, p>>]>>
  IN latest \in pak.attached /\ latest \in copies

Lookup(r) ==
  /\ r.step = "lookup"
  /\ uploads' = uploads \ {r}
  /\ acknowledged' = IF Servable(r.line, r.profile) THEN acknowledged \cup r.promise
                     ELSE acknowledged
  /\ UNCHANGED <<pak, pakFile, payloads, copies, uploaded, pakFaults>>
-----------------------------------------------------------------------------
(***************************************************************************)
(* Cleanup of duplicates, at the end of a rescan.                          *)
(***************************************************************************)
(* Of revisions with one content the latest stays, or else the oldest.     *)
SurplusRevisions(revs) ==
  LET alike(i) == {j \in DOMAIN revs : ~revs[j].rollback /\ revs[j].content = revs[i].content}
  IN {i \in DOMAIN revs : /\ ~revs[i].rollback /\ i # Len(revs)
                          /\ \E j \in alike(i) : j < i \/ j = Len(revs)}

SurplusPaks(s) ==
  LET pakOf(c) == s.built[c[2]]
      alike(c) == {d \in s.projections : /\ d[1] = c[1] /\ ~pakOf(d).rollback
                                         /\ pakOf(d).line = pakOf(c).line
                                         /\ pakOf(d).card = pakOf(c).card}
      latest(c) == s.latest[<<pakOf(c).line, c[1]>>]
  IN {c \in s.projections : /\ ~pakOf(c).rollback /\ c[2] # latest(c)
                            /\ \E d \in alike(c) : d[2] < c[2] \/ d[2] = latest(c)}

Cleaned(s) ==
  [s EXCEPT
    !.revisions = [l \in Logicals |->
       LET kept == {i \in DOMAIN @[l] : i \notin SurplusRevisions(@[l])}
           nth(n) == CHOOSE i \in kept : Cardinality({j \in kept : j < i}) = n - 1
       IN [n \in 1 .. Cardinality(kept) |-> @[l][nth(n)]]],
    !.projections = @ \ SurplusPaks(s),
    !.attached = @ \ SurplusPaks(s)]

(* A dry run changes the state in memory as well, and returns.             *)
CleanupDryRun ==
  /\ pak' = Cleaned(pak) /\ pak' # pak
  /\ UNCHANGED <<pakFile, payloads, copies, uploads, uploaded, acknowledged, pakFaults>>

(* All revisions have their files in one directory, which is what is       *)
(* removed for one of them that is surplus. The saves of surplus paks are  *)
(* removed after the store's lock is given up.                             *)
Cleanup ==
  LET s == Cleaned(pak)
      r == [step |-> "remove", line |-> NoLine, profile |-> 1,
            todo |-> {}, at |-> None, own |-> TRUE, promise |-> {},
            gone |-> SurplusPaks(pak) \cap pak.attached]
  IN /\ HasRoom /\ s # pak
     /\ pak' = s
     /\ payloads' = IF s.revisions # pak.revisions THEN {} ELSE payloads
     /\ \/ pakFile' = s /\ uploads' = uploads \cup {r} /\ UNCHANGED pakFaults
        \/ PakFault /\ UNCHANGED <<pakFile, uploads>>
     /\ UNCHANGED <<copies, uploaded, acknowledged>>

RemoveCopies(r) ==
  /\ r.step = "remove"
  /\ \/ copies' = copies \ r.gone /\ UNCHANGED pakFaults
     \/ PakFault /\ \E S \in SUBSET r.gone : S # r.gone /\ copies' = copies \ S
  /\ uploads' = uploads \ {r}
  /\ UNCHANGED <<pak, pakFile, payloads, uploaded, acknowledged>>

(* The process stops and starts again: load() reads the file.              *)
RestartPaks ==
  /\ pak # pakFile \/ uploads # {}
  /\ pak' = pakFile /\ uploads' = {}
  /\ UNCHANGED <<pakFile, payloads, copies, uploaded, acknowledged, pakFaults>>

PaksNext ==
  \/ \E k \in Lines, card \in Cards :
       \/ \E p \in Profiles : Upload(k, p, card)
       \/ \E S \in SUBSET Logicals : UploadPartly(k, card, S)
  \/ \E k \in Lines, p \in Profiles, l \in Logicals :
       \/ DeleteLogicalSave(k, p, l)
       \/ \E i \in DOMAIN pak.revisions[l] : RollbackLogicalSave(k, p, l, i)
  \/ \E r \in uploads : Materialize(r) \/ Attach(r) \/ Lookup(r) \/ RemoveCopies(r)
  \/ CleanupDryRun
  \/ Cleanup
  \/ RestartPaks

PaksSpec == PaksInit /\ [][PaksNext]_pakVars
-----------------------------------------------------------------------------
(***************************************************************************)
(* Properties.                                                             *)
(***************************************************************************)
(* Contents answered as stored, or about to be, are revisions in the file, *)
(* and stay so: across failed writes, restarts, deletions, cleanups and    *)
(* uploads of the save for another line.                                   *)
PakSavesAreKept ==
  \A m \in acknowledged \cup UNION {r.promise : r \in uploads} :
    m[2] \in Revised(pakFile, m[1])

(* The file of a revision is there for the next pak that needs it          *)
(* (buildCanonicalN64ControllerPak reads it). Cleanup would remove the     *)
(* files of all revisions if it found two of one content.                  *)
RevisionFilesRemain ==
  \A s \in {pak, pakFile} : \A l \in Logicals : \A c \in Revised(s, l) : <<l, c>> \in payloads

(* While no write has failed, a line whose saves were uploaded for it only *)
(* has them on the latest pak of every profile: none that was deleted or   *)
(* left out, and none in an older state, whatever was deleted, rolled back *)
(* or cleaned up in between. A rollback may bring back more saves than a   *)
(* pak holds, which ends in an error until one is deleted.                 *)
OwnSaves(k) == \A u, v \in uploaded : u[1] = k /\ v[2] = u[2] => v[1] = k

PaksShowActiveSaves ==
  pakFaults = 0 => \A k \in {u[1] : u \in uploaded} :
    (/\ OwnSaves(k)
     /\ Cardinality(Active(pak, k)) <= Capacity
     /\ \E p \in Profiles : pak.latest[<<k, p>>] # None)
    => \A p \in Profiles :
         /\ <<p, pak.latest[<<k, p>>]>> \in pak.projections
         /\ pak.built[pak.latest[<<k, p>>]].card = CanonicalPak(pak, k)
=============================================================================
