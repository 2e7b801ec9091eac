--------------------------- MODULE PlayStationSync ---------------------------
(***************************************************************************)
(* One memory card slot of one PlayStation system. The server takes the    *)
(* cards that devices upload apart into logical saves (one per game),      *)
(* keeps every revision of them, and builds for each runtime profile a     *)
(* projection: a card with the latest revision of every active save. A     *)
(* save that a device's upload no longer contains is taken to have been    *)
(* deleted there, if the device had downloaded the latest projection.      *)
(*                                                                         *)
(* playStationStore.mu makes each operation on playStationState one step.  *)
(* A request goes on after it: it materialises the projections it built as *)
(* saves of the save store, one by one, and answers. What a request still  *)
(* has to do is a record in requests. playStationState changes in memory   *)
(* first; it is written to its file at the end of an operation, and a      *)
(* failure on the way there leaves the change in memory.                   *)
(***************************************************************************)
EXTENDS Naturals, Sequences, FiniteSets

CONSTANTS
  Profiles,    (* supportedProjectionProfiles of the system.               *)
  Position,    (* Their order.                                             *)
  Logicals,    (* Logical saves.                                           *)
  Rank,        (* Their order on a card: product code, then title.         *)
  Home,        (* The profile a save belongs to, or Shared: every profile. *)
  Shared,
  Contents,    (* Contents of a logical save, standing for their SHA-256.  *)
  Devices,
  ProfileOf,   (* The profile a device uploads to and downloads from.      *)
  Operator,    (* Whoever uses the web page.                               *)
  Nobody,
  Capacity,    (* How many saves fit on a card.                            *)
  MaxRebuilds, MaxRevisions, MaxRequests, MaxFaults  (* Bound the model.   *)

ASSUME ProfilesAssumption ==
  /\ Shared \notin Profiles
  /\ Home \in [Logicals -> Profiles \cup {Shared}]
  /\ ProfileOf \in [Devices -> Profiles]
ASSUME ActorsAssumption == Operator \notin Devices /\ Nobody \notin Devices \cup {Operator}
ASSUME BoundsAssumption ==
  /\ Capacity \in Nat /\ MaxRebuilds \in Nat /\ MaxRevisions \in Nat
  /\ MaxRequests \in Nat /\ MaxFaults \in Nat

VARIABLES
  state,     (* playStationStore.state, in memory.                         *)
  stored,    (* The same in its file.                                      *)
  records,   (* Projections whose save exists in the save store.           *)
  requests,  (* What requests in flight still have to do.                  *)
  held,      (* The card each device last received.                        *)
  faults     (* How many writes failed or saves vanished.                  *)

vars == <<state, stored, records, requests, held, faults>>

Scopes == Profiles \cup {Shared}
Rebuilds == 1 .. MaxRebuilds
None == 0

(* A card: the contents of the saves on it.                                *)
Cards == UNION {[S -> Contents] : S \in SUBSET Logicals}
EmptyCard == [l \in {} |-> l]

(* A projection is named by its profile and the rebuild that made it. Its   *)
(* manifest lists the active saves, whether or not they fit on the card;   *)
(* saved: it names a save record.                                          *)
Projection == [manifest : SUBSET Logicals, card : Cards, saved : BOOLEAN]
Absent == [saved |-> FALSE]

State == [
  revisions   : [Logicals -> Seq(Contents)],                (* last is latest *)
  tombstone   : [Scopes \X Logicals -> Devices \cup {Operator, Nobody}],
  lines       : SUBSET Profiles,
  rebuilds    : 0 .. MaxRebuilds,
  projections : [Profiles -> [Rebuilds -> Projection \cup {Absent}]],
  latest      : [Profiles -> 0 .. MaxRebuilds],
  baseline    : [Devices -> 0 .. MaxRebuilds]]

EmptyState == [
  revisions   |-> [l \in Logicals |-> << >>],
  tombstone   |-> [k \in Scopes \X Logicals |-> Nobody],
  lines       |-> {},
  rebuilds    |-> 0,
  projections |-> [p \in Profiles |-> [n \in Rebuilds |-> Absent]],
  latest      |-> [p \in Profiles |-> None],
  baseline    |-> [d \in Devices |-> None]]

Promise ==
       [what : {"stored", "promoted"}, logical : Logicals, content : Contents]
  \cup [what : {"deleted"}, logical : Logicals, after : 0 .. MaxRevisions]

(* todo: profiles whose projection of rebuild at is still to materialise;  *)
(* own: the record to answer with, that of line, is known.                 *)
Request == [step : {"import", "materialize", "lookup", "repair", "answer"}, line : Profiles,
            todo : SUBSET Profiles, at : 0 .. MaxRebuilds, base : 0 .. MaxRebuilds,
            own : BOOLEAN, promise : SUBSET Promise]

TypeOK ==
  /\ state \in State /\ stored \in State
  /\ records \subseteq Profiles \X Rebuilds
  /\ requests \subseteq Request
  /\ held \in [Devices -> Cards]
  /\ faults \in 0 .. MaxFaults

Init ==
  /\ state = EmptyState /\ stored = EmptyState
  /\ records = {} /\ requests = {}
  /\ held = [d \in Devices |-> EmptyCard]
  /\ faults = 0
-----------------------------------------------------------------------------
(***************************************************************************)
(* Projections.                                                            *)
(***************************************************************************)
Revised(s, l) == {s.revisions[l][i] : i \in DOMAIN s.revisions[l]}
LatestRevision(s, l) == s.revisions[l][Len(s.revisions[l])]
Tombstoned(s, l) == s.tombstone[<<Home[l], l>>] # Nobody

ActiveLogicalSaves(s, p) ==
  {l \in Logicals : /\ s.revisions[l] # << >>
                    /\ Home[l] \in {Shared, p}
                    /\ ~Tombstoned(s, l)}

(* The card builder stops at the first save that does not fit.             *)
Fitting(S) == {l \in S : Cardinality({k \in S : Rank[k] < Rank[l]}) < Capacity}

ProjectionCard(s, p) ==
  [l \in Fitting(ActiveLogicalSaves(s, p)) |-> LatestRevision(s, l)]

UpToDate(s, p) ==
  /\ s.latest[p] # None
  /\ s.projections[p][s.latest[p]].card = ProjectionCard(s, p)

(* Mutant: a card is compared by the saves listed on it.                   *)
DueByManifest(s, always) ==
  {p \in Profiles : always \/ s.latest[p] = None
     \/ s.projections[p][s.latest[p]].manifest # ActiveLogicalSaves(s, p)}

(* The profiles that get a new projection: all of them after a rollback or *)
(* for a repair, else those whose card changes.                            *)
Due(s, always) == {p \in Profiles : always \/ ~UpToDate(s, p)}

(* rebuildProjectionLines, as far as the profiles in done.                 *)
Rebuilt(s, due, done) ==
  LET n == s.rebuilds + 1
      new == due \cap done
      built(p) == [manifest |-> ActiveLogicalSaves(s, p),
                   card |-> ProjectionCard(s, p), saved |-> FALSE]
  IN [s EXCEPT
       !.lines = @ \cup done,
       !.rebuilds = IF new = {} THEN @ ELSE n,
       !.projections = [p \in Profiles |->
          IF p \in new THEN [@[p] EXCEPT ![n] = built(p)] ELSE @[p]],
       !.latest = [p \in Profiles |-> IF p \in new THEN n ELSE @[p]]]

Before(p) == {q \in Profiles : Position[q] < Position[p]}

Fault == faults < MaxFaults /\ faults' = faults + 1

(* What is left to do for request r: materialise its projections, look up   *)
(* the record to answer with, answer.                                      *)
Proceed(others, r) ==
  \/ r.todo # {} /\ requests' = others \cup {[r EXCEPT !.step = "materialize"]}
  \/ r.todo = {} /\ ~r.own /\ requests' = others \cup {[r EXCEPT !.step = "lookup"]}
  \/ r.todo = {} /\ r.own /\ requests' = others \cup {[r EXCEPT !.step = "answer"]}

Fail(others) == requests' = others /\ UNCHANGED stored

(* Mutant: the request goes on although the file was not written.          *)
PersistIgnoringErrors(s, others, r) ==
  /\ state' = s
  /\ \/ stored' = s /\ UNCHANGED faults
     \/ Fault /\ UNCHANGED stored
  /\ Proceed(others, r)

(* persistLocked, at the end of an operation that leads to state s.        *)
Persist(s, others, r) ==
  /\ state' = s
  /\ \/ stored' = s /\ Proceed(others, r) /\ UNCHANGED faults
     \/ Fault /\ Fail(others)

(* Mutant: the file is left to the materialisation to write.               *)
RebuildWithoutPersist(s, always, needed, others, r) ==
  LET due == Due(s, always) IN
  /\ due # {} => s.rebuilds < MaxRebuilds
  /\ due # {} \/ ~needed
  /\ state' = Rebuilt(s, due, Profiles)
  /\ Proceed(others, [r EXCEPT !.todo = due, !.at = IF due = {} THEN None ELSE s.rebuilds + 1])
  /\ UNCHANGED <<stored, faults>>

(* needed: it is an error that every projection is up to date.             *)
RebuildAndPersist(s, always, needed, others, r) ==
  LET due == Due(s, always) IN
  /\ due # {} => s.rebuilds < MaxRebuilds
  /\ \/ /\ due # {} \/ ~needed
        /\ Persist(Rebuilt(s, due, Profiles), others,
                   [r EXCEPT !.todo = due, !.at = IF due = {} THEN None ELSE s.rebuilds + 1])
     \/ /\ due = {} /\ needed
        /\ state' = Rebuilt(s, due, Profiles)
        /\ Fail(others) /\ UNCHANGED faults
     \/ \E p \in due :
          /\ state' = [Rebuilt(s, due, Before(p)) EXCEPT !.lines = @ \cup {p}]
          /\ Fault /\ Fail(others)
-----------------------------------------------------------------------------
(***************************************************************************)
(* Importing a card, for line p, from a device whose baseline is base.     *)
(***************************************************************************)
MissingManifestKeys(cloud, here) == cloud \ here

(* Mutant: any baseline counts, the latest or not.                         *)
RemovedSinceAnyBaseline(p, base, card) ==
  IF base # None THEN state.projections[p][base].manifest \ DOMAIN card ELSE {}

Removed(p, base, card) ==
  IF base # None /\ base = state.latest[p]
  THEN MissingManifestKeys(state.projections[p][base].manifest, DOMAIN card)
  ELSE {}

(* Mutant: contents are compared with the latest revision only.            *)
FreshAgainstLatest(card) ==
  {l \in DOMAIN card : \/ state.revisions[l] = << >>
                       \/ Tombstoned(state, l)
                       \/ card[l] # LatestRevision(state, l)}

Fresh(card) == {l \in DOMAIN card : card[l] \notin Revised(state, l)}

Historical(card) ==
  {l \in DOMAIN card \ Fresh(card) :
     card[l] # LatestRevision(state, l) \/ Tombstoned(state, l)}

(* Mutant: a new revision replaces the history.                            *)
ImportedOverwriting(p, base, by, card) ==
  [state EXCEPT
    !.lines = @ \cup {p},
    !.tombstone = [k \in Scopes \X Logicals |->
       IF k[1] = Shared /\ k[2] \in Removed(p, base, card) THEN by
       ELSE IF k[1] = Home[k[2]] /\ k[2] \in Fresh(card) THEN Nobody
       ELSE @[k]],
    !.revisions = [l \in Logicals |->
       IF l \in Fresh(card) THEN <<card[l]>> ELSE @[l]]]

(* The tombstone of a removed save is filed under Shared whatever its home, *)
(* that of a save that comes back is looked for at its home.               *)
Imported(p, base, by, card) ==
  [state EXCEPT
    !.lines = @ \cup {p},
    !.tombstone = [k \in Scopes \X Logicals |->
       IF k[1] = Shared /\ k[2] \in Removed(p, base, card) THEN by
       ELSE IF k[1] = Home[k[2]] /\ k[2] \in Fresh(card) THEN Nobody
       ELSE @[k]],
    !.revisions = [l \in Logicals |->
       IF l \in Fresh(card) THEN Append(@[l], card[l]) ELSE @[l]]]

ImportMemoryCard(p, base, by, card, promise, others) ==
  LET r == [step |-> "lookup", line |-> p, todo |-> {}, at |-> None, base |-> None,
            own |-> FALSE, promise |-> promise]
      s == Imported(p, base, by, card)
  IN /\ \A l \in Fresh(card) : Len(state.revisions[l]) < MaxRevisions
     /\ \/ /\ Fresh(card) \cup Removed(p, base, card) = {}
           /\ Persist(s, others, r)
        \/ /\ Fresh(card) \cup Removed(p, base, card) # {}
           /\ RebuildAndPersist(s, FALSE, TRUE, others, r)
-----------------------------------------------------------------------------
(***************************************************************************)
(* Requests. A device sends whatever it likes as its card.                 *)
(***************************************************************************)
HasRoom == Cardinality(requests) < MaxRequests

Stored(card) ==
  {[what |-> "stored", logical |-> l, content |-> card[l]] : l \in DOMAIN card}
Promoted(card) ==
  {[what |-> "promoted", logical |-> l, content |-> card[l]] : l \in DOMAIN card}

(* A card that adds nothing and holds older revisions is answered 409.     *)
Upload(d, card) ==
  LET p == ProfileOf[d]
      stale == /\ Fresh(card) \cup Removed(p, state.baseline[d], card) = {}
               /\ Historical(card) # {}
  IN /\ HasRoom
     /\ DOMAIN card \subseteq {l \in Logicals : Home[l] \in {Shared, p}}
     /\ Cardinality(DOMAIN card) <= Capacity
     /\ ImportMemoryCard(p, state.baseline[d], d, card,
                         IF stale THEN {} ELSE Stored(card), requests)
     /\ UNCHANGED <<records, held>>

(* Whatever projection is served, the latest one counts as downloaded.     *)
MarkProjectionDownloaded(s, d) == [s EXCEPT !.baseline[d] = s.latest[ProfileOf[d]]]

(* GET /saves/download by id: whatever projection the record is of, the    *)
(* latest one of its line becomes the baseline. The state may not get      *)
(* written, or the answer may not get through.                             *)
Download(d, n) ==
  LET p == ProfileOf[d]
      received == [held EXCEPT ![d] = state.projections[p][n].card]
  IN /\ <<p, n>> \in records
     /\ state' = MarkProjectionDownloaded(state, d)
     /\ \/ stored' = state' /\ held' = received /\ UNCHANGED faults
        \/ Fault /\ \/ stored' = state' /\ UNCHANGED held
                    \/ UNCHANGED stored /\ held' = received
     /\ UNCHANGED <<records, requests>>

(* GET /save/latest when the latest projection has no record to answer.    *)
Servable(p) ==
  /\ state.latest[p] # None
  /\ state.projections[p][state.latest[p]].saved
  /\ <<p, state.latest[p]>> \in records

RequestLatest(p) ==
  /\ HasRoom /\ p \in state.lines /\ ~Servable(p)
  /\ requests' = requests \cup
       {[step |-> "repair", line |-> p, todo |-> {}, at |-> None, base |-> None,
         own |-> FALSE, promise |-> {}]}
  /\ UNCHANGED <<state, stored, records, held, faults>>

(* Web requests name a record <<p, n>> of a projection, and a save on it.  *)
HasLogicalSave(p, n, l) ==
  <<p, n>> \in records /\ l \in state.projections[p][n].manifest

WebRequest(p, own, promise) ==
  [step |-> "materialize", line |-> p, todo |-> {}, at |-> None, base |-> None,
   own |-> own, promise |-> promise]

Tombstone(s, S) ==
  [s EXCEPT !.tombstone = [k \in Scopes \X Logicals |->
     IF k[2] \in S /\ k[1] = Home[k[2]] THEN Operator ELSE @[k]]]

Deleted(S) ==
  {[what |-> "deleted", logical |-> l, after |-> Len(state.revisions[l])] : l \in S}

DeleteLogicalSave(p, n, l) ==
  /\ HasRoom /\ HasLogicalSave(p, n, l)
  /\ RebuildAndPersist(Tombstone(state, {l}), FALSE, FALSE, requests,
                       WebRequest(p, TRUE, Deleted({l})))
  /\ UNCHANGED <<records, held>>

DeleteProjection(p) ==
  LET active == ActiveLogicalSaves(state, p) IN
  /\ HasRoom /\ \E n \in Rebuilds : <<p, n>> \in records
  /\ RebuildAndPersist(Tombstone(state, active), FALSE, FALSE, requests,
                       WebRequest(p, TRUE, Deleted(active)))
  /\ UNCHANGED <<records, held>>

RollbackLogicalSave(p, n, l, i) ==
  LET content == state.revisions[l][i] IN
  /\ HasRoom /\ HasLogicalSave(p, n, l)
  /\ Len(state.revisions[l]) < MaxRevisions
  /\ RebuildAndPersist([state EXCEPT !.revisions[l] = Append(@, content)],
                       TRUE, FALSE, requests,
                       WebRequest(p, FALSE, Promoted([k \in {l} |-> content])))
  /\ UNCHANGED <<records, held>>

(* Rolling a whole card back marks the latest projection as downloaded by  *)
(* a device invented for it, and imports the old card on its behalf.       *)
RollbackProjection(p, n) ==
  /\ HasRoom /\ <<p, n>> \in records
  /\ \/ stored' = state /\ UNCHANGED faults
     \/ Fault /\ UNCHANGED stored
  /\ requests' = requests \cup
       {[step |-> "import", line |-> p, todo |-> {}, at |-> n, base |-> state.latest[p],
         own |-> FALSE, promise |-> {}]}
  /\ UNCHANGED <<state, records, held>>

ImportForRollback(r) ==
  LET card == state.projections[r.line][r.at].card IN
  /\ r.step = "import"
  /\ ImportMemoryCard(r.line, r.base, Operator, card, Promoted(card), requests \ {r})
  /\ UNCHANGED <<records, held>>

(* createSave and attachProjectionSaveRecord for the next projection.      *)
Materialize(r) ==
  \E p \in r.todo :
    /\ r.step = "materialize"
    /\ r.todo \cap Before(p) = {}
    /\ \/ /\ records' = records \cup {<<p, r.at>>}
          /\ Persist([state EXCEPT !.projections[p][r.at].saved = TRUE], requests \ {r},
                     [r EXCEPT !.todo = @ \ {p}, !.own = @ \/ p = r.line])
       \/ Fault /\ Fail(requests \ {r}) /\ UNCHANGED <<state, records>>
    /\ UNCHANGED held

(* latestPlayStationProjectionRecord, for a request that built nothing new *)
(* for its own line.                                                       *)
Lookup(r) ==
  /\ r.step = "lookup"
  /\ \/ /\ Servable(r.line)
        /\ Proceed(requests \ {r}, [r EXCEPT !.own = TRUE])
     \/ /\ ~Servable(r.line)
        /\ requests' = (requests \ {r}) \cup {[r EXCEPT !.step = "repair"]}
  /\ UNCHANGED <<state, stored, records, held, faults>>

ForceRebuildProjectionLine(r) == RebuildAndPersist(state, TRUE, TRUE, requests \ {r}, r)

Repair(r) ==
  /\ r.step = "repair"
  /\ ForceRebuildProjectionLine(r)
  /\ UNCHANGED <<records, held>>

(* The client learns that its request was done.                            *)
Answer(r) ==
  /\ r.step = "answer"
  /\ requests' = requests \ {r}
  /\ UNCHANGED <<state, stored, records, held, faults>>

(* Cleanup, a rescan or a deletion of files takes a record away.           *)
LoseRecord(p, n) ==
  /\ <<p, n>> \in records
  /\ records' = records \ {<<p, n>>}
  /\ Fault
  /\ UNCHANGED <<state, stored, requests, held>>

(* The process stops and starts again: load() reads the file.              *)
Restart ==
  /\ state # stored \/ requests # {}
  /\ state' = stored /\ requests' = {}
  /\ UNCHANGED <<stored, records, held, faults>>

Next ==
  \/ \E d \in Devices :
       \/ \E card \in Cards : Upload(d, card)
       \/ \E n \in Rebuilds : Download(d, n)
  \/ \E p \in Profiles :
       \/ RequestLatest(p)
       \/ DeleteProjection(p)
       \/ \E n \in Rebuilds :
            \/ RollbackProjection(p, n)
            \/ LoseRecord(p, n)
            \/ \E l \in Logicals : DeleteLogicalSave(p, n, l)
            \/ \E l \in Logicals : \E i \in DOMAIN state.revisions[l] : RollbackLogicalSave(p, n, l, i)
  \/ \E r \in requests :
       \/ ImportForRollback(r)
       \/ Materialize(r)
       \/ Lookup(r)
       \/ Repair(r)
       \/ Answer(r)
  \/ Restart

Spec == Init /\ [][Next]_vars
-----------------------------------------------------------------------------
(***************************************************************************)
(* Properties.                                                             *)
(***************************************************************************)
Kept(s, m) ==
  \/ m.what \in {"stored", "promoted"} /\ m.content \in Revised(s, m.logical)
  \/ m.what = "deleted" /\ (Tombstoned(s, m.logical) \/ Len(s.revisions[m.logical]) > m.after)

(* Whatever fails, a request that may still be answered has its contents   *)
(* among the revisions in the file, and the saves it deletes tombstoned    *)
(* there, unless a later revision brought them back (importMemoryCard).    *)
PromisesAreKept == \A r \in requests : \A m \in r.promise : Kept(stored, m)

(* What the file has kept it keeps: writes of it never lose a revision, or *)
(* bring a deleted save back without contents it never had (persistLocked, *)
(* load).                                                                  *)
StoredForGood ==
  [][\A l \in Logicals :
       /\ Revised(stored, l) \subseteq Revised(stored', l)
       /\ Tombstoned(stored, l) /\ ~Tombstoned(stored', l)
            => /\ Len(stored'.revisions[l]) > Len(stored.revisions[l])
               /\ Revised(stored', l) # Revised(stored, l)]_vars

(* While no write has failed, the latest projection of a line is the card  *)
(* of its active saves, in all profiles alike, whoever changed them.       *)
LatestShowsActiveSaves ==
  faults = 0 => \A p \in Profiles : state.latest[p] # None => UpToDate(state, p)

(* A record that can be downloaded belongs to a projection that a restart  *)
(* would still know (persistLocked before materializePlayStationProjections). *)
RecordsAreOfStoredProjections ==
  \A r \in records : stored.projections[r[1]][r[2]] # Absent

(* A save that was deleted comes back with contents the server has never   *)
(* seen only: neither a stale card nor a rollback revives it. A restart    *)
(* undoes what was not written: a deletion that failed, or one that leaves *)
(* every card as it was, of a save that did not fit.                       *)
DeletedSavesStayDeleted ==
  [][\A l \in Logicals :
       Tombstoned(state, l) /\ ~Tombstoned(state', l)
         => state' = stored \/ LatestRevision(state', l) \notin Revised(state, l)]_vars

(* A device that did receive the projection marked as its download deletes *)
(* no save but those it received, and no revision but the one it received; *)
(* a restart may bring a deletion of before back.                          *)
RemovesOnly(d, card) ==
  \A k \in Scopes \X Logicals :
    (state'.tombstone[k] = d /\ state.tombstone[k] # d)
      => k[2] \in DOMAIN card /\ card[k[2]] = LatestRevision(state, k[2])

WasServedItsBaseline(d) ==
  /\ state.baseline[d] # None
  /\ LET shown == state.projections[ProfileOf[d]][state.baseline[d]]
     IN shown.card = held[d] /\ shown.manifest = DOMAIN shown.card

RemovalsMatchDownloads ==
  [][\A d \in Devices : (faults = 0 /\ WasServedItsBaseline(d))
       => state' = stored \/ RemovesOnly(d, held[d])]_vars

(* Any device deletes only saves it has received: "device upload removed   *)
(* logical save" (playstation_sync.go:534).                                *)
RemovalsWereSeen ==
  [][\A d \in Devices : RemovesOnly(d, held[d])]_vars

(* The same of a device whose baseline is the card it holds, whatever the  *)
(* manifest of that projection lists besides: what is removed was on the   *)
(* card. A restart may bring a deletion of before back.                    *)
HoldsItsBaseline(d) ==
  /\ state.baseline[d] # None
  /\ state.projections[ProfileOf[d]][state.baseline[d]].card = held[d]

RemovalsWereOnTheCard ==
  [][\A d \in Devices : HoldsItsBaseline(d) => state' = stored \/ RemovesOnly(d, held[d])]_vars

(* A rollback makes the revision it names the current one:                 *)
(* "will be promoted by creating a new latest sync copy"                   *)
(* (SaveDetailPage.tsx:210).                                               *)
Accepted(m) == \E r \in requests' : m \in r.promise
RollbacksPromote ==
  [][\A m \in Promise :
       (m.what = "promoted" /\ Accepted(m) /\ ~\E r \in requests : m \in r.promise)
         => /\ LatestRevision(state', m.logical) = m.content
            /\ ~Tombstoned(state', m.logical)]_vars
=============================================================================
