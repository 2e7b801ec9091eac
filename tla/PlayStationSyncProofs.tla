------------------------ MODULE PlayStationSyncProofs ------------------------
(***************************************************************************)
(* What a request was promised of a memory card stays in the file of the   *)
(* state, its records are of projections that the file has, and, while no  *)
(* write has failed, the latest projections show the active saves: for any *)
(* profiles, saves, devices and bounds.                                    *)
(*                                                                         *)
(* The promises are about the file, and a step changes memory first. So    *)
(* the invariant says that memory is ahead of the file (Ahead): it has     *)
(* every revision and projection of it, and a save that the file has as    *)
(* deleted is active again only with contents that the file has not. Ahead *)
(* is transitive, and an operation leads to a state ahead of the one it    *)
(* began with, whether or not it gets as far as writing it.                *)
(***************************************************************************)
EXTENDS PlayStationSync, SequenceTheorems, TLAPS

Sound(s) == s \in State /\ \A l \in Logicals : Len(s.revisions[l]) <= MaxRevisions

AheadOf(s, t, l) ==
  /\ Len(t.revisions[l]) <= Len(s.revisions[l])
  /\ Revised(t, l) \subseteq Revised(s, l)
  /\ Tombstoned(t, l) /\ ~Tombstoned(s, l) =>
       /\ Len(t.revisions[l]) < Len(s.revisions[l])
       /\ Revised(t, l) # Revised(s, l)

Has(s, p, n) == s.projections[p][n] # Absent

Ahead(s, t) ==
  /\ \A l \in Logicals : AheadOf(s, t, l)
  /\ \A p \in Profiles, n \in Rebuilds : Has(t, p, n) => Has(s, p, n)

Shown(s) == \A p \in Profiles : s.latest[p] # None => UpToDate(s, p)

\* A promise that stays kept: a save that comes back has one revision more.
KeptFirmly(s, m) ==
  Kept(s, m) /\ (m.what = "deleted" => m.after <= Len(s.revisions[m.logical]))

\* The projections that a request is going to take from the state.
Needed(r) == r.todo \cup (IF r.step = "import" THEN {r.line} ELSE {})

RequestOK(s, r) ==
  /\ r \in Request
  /\ \A m \in r.promise : KeptFirmly(s, m)
  /\ \A p \in Needed(r) : r.at \in Rebuilds /\ Has(s, p, r.at)

RecordsOK(s, recs) ==
  recs \subseteq Profiles \X Rebuilds /\ \A r \in recs : Has(s, r[1], r[2])

\* How a step changes tombstones, unless it takes memory back to the file.
NewlyActive(l) == Tombstoned(state, l) /\ ~Tombstoned(state', l)

ListedForRemoval(d, l) ==
  /\ state.baseline[d] # None /\ state.baseline[d] = state.latest[ProfileOf[d]]
  /\ l \in state.projections[ProfileOf[d]][state.baseline[d]].manifest

ChangesTombstones ==
  /\ \A l \in Logicals : ~NewlyActive(l) \/ LatestRevision(state', l) \notin Revised(state, l)
  /\ \A d \in Devices, k \in Scopes \X Logicals :
       (state'.tombstone[k] = d /\ state.tombstone[k] # d) => ListedForRemoval(d, k[2])

IInv ==
  /\ Sound(state) /\ Sound(stored) /\ Ahead(state, stored)
  /\ \A r \in requests : RequestOK(stored, r)
  /\ RecordsOK(stored, records)
  /\ held \in [Devices -> Cards] /\ faults \in 0 .. MaxFaults
  /\ faults = 0 => Shown(state) /\ Shown(stored)
-----------------------------------------------------------------------------
(***************************************************************************)
(* One state ahead of another.                                             *)
(***************************************************************************)
LEMMA RevisionsOf ==
  ASSUME NEW s \in State, NEW l \in Logicals
  PROVE  /\ s.revisions[l] \in Seq(Contents) /\ Len(s.revisions[l]) \in Nat
         /\ DOMAIN s.revisions[l] = 1 .. Len(s.revisions[l])
         /\ Revised(s, l) \subseteq Contents
<1>1. s.revisions[l] \in Seq(Contents)
  BY DEF State
<1> QED BY <1>1 DEF Revised

LEMMA AheadOfItself ==
  ASSUME NEW s \in State
  PROVE  Ahead(s, s)
BY RevisionsOf DEF Ahead, AheadOf

LEMMA AheadIsTransitive ==
  ASSUME NEW s \in State, NEW t \in State, NEW u \in State, Ahead(s, t), Ahead(t, u)
  PROVE  Ahead(s, u)
<1>1. ASSUME NEW l \in Logicals
      PROVE  AheadOf(s, u, l)
  <2>1. AheadOf(s, t, l) /\ AheadOf(t, u, l)
    BY DEF Ahead
  <2>2. Len(s.revisions[l]) \in Nat /\ Len(t.revisions[l]) \in Nat /\ Len(u.revisions[l]) \in Nat
    BY RevisionsOf
  <2>3. Revised(u, l) \subseteq Revised(t, l) /\ Revised(t, l) \subseteq Revised(s, l)
        /\ Len(u.revisions[l]) <= Len(s.revisions[l])
    BY <2>1, <2>2, SMTT(30) DEF AheadOf
  <2>4. ASSUME Tombstoned(u, l), ~Tombstoned(s, l)
        PROVE  Len(u.revisions[l]) < Len(s.revisions[l]) /\ Revised(u, l) # Revised(s, l)
    <3>1. CASE Tombstoned(t, l)
      <4>1. Len(t.revisions[l]) < Len(s.revisions[l]) /\ Revised(t, l) # Revised(s, l)
        BY <2>1, <2>4, <3>1 DEF AheadOf
      <4>2. Len(u.revisions[l]) <= Len(t.revisions[l])
        BY <2>1 DEF AheadOf
      <4>3. Revised(u, l) # Revised(s, l)
        BY <2>3, <4>1
      <4> QED BY <2>2, <4>1, <4>2, <4>3
    <3>2. CASE ~Tombstoned(t, l)
      <4>1. Len(u.revisions[l]) < Len(t.revisions[l]) /\ Revised(u, l) # Revised(t, l)
        BY <2>1, <2>4, <3>2 DEF AheadOf
      <4>2. Len(t.revisions[l]) <= Len(s.revisions[l])
        BY <2>1 DEF AheadOf
      <4>3. Revised(u, l) # Revised(s, l)
        BY <2>3, <4>1
      <4> QED BY <2>2, <4>1, <4>2, <4>3
    <3> QED BY <3>1, <3>2
  <2> QED BY <2>3, <2>4 DEF AheadOf
<1>2. \A p \in Profiles, n \in Rebuilds : Has(u, p, n) => Has(s, p, n)
  BY DEF Ahead
<1> QED BY <1>1, <1>2 DEF Ahead

LEMMA StaysKept ==
  ASSUME NEW s \in State, NEW t \in State, Ahead(s, t), NEW m \in Promise, KeptFirmly(t, m)
  PROVE  KeptFirmly(s, m)
<1>1. m.logical \in Logicals /\ (m.what = "deleted" => m.after \in Nat)
      /\ m.what \in {"stored", "promoted", "deleted"}
  BY BoundsAssumption DEF Promise
<1>2. AheadOf(s, t, m.logical)
  BY <1>1 DEF Ahead
<1>3. Len(s.revisions[m.logical]) \in Nat /\ Len(t.revisions[m.logical]) \in Nat
  BY <1>1, RevisionsOf
<1> QED BY <1>1, <1>2, <1>3 DEF KeptFirmly, Kept, AheadOf

LEMMA RequestStaysOK ==
  ASSUME NEW s \in State, NEW t \in State, Ahead(s, t), NEW r, RequestOK(t, r)
  PROVE  RequestOK(s, r)
<1>1. r \in Request /\ r.promise \subseteq Promise /\ Needed(r) \subseteq Profiles
  BY DEF RequestOK, Request, Needed
<1>2. \A m \in r.promise : KeptFirmly(s, m)
  BY <1>1, StaysKept DEF RequestOK
<1>3. \A p \in Needed(r) : r.at \in Rebuilds /\ Has(s, p, r.at)
  BY <1>1 DEF RequestOK, Ahead
<1> QED BY <1>1, <1>2, <1>3 DEF RequestOK

LEMMA RecordsStayOK ==
  ASSUME NEW s \in State, NEW t \in State, Ahead(s, t), NEW recs, RecordsOK(t, recs)
  PROVE  RecordsOK(s, recs)
BY DEF RecordsOK, Ahead

\* A state with other tombstones, lines, projections or baselines only.
LEMMA SameRevisions ==
  ASSUME NEW s \in State, NEW t \in State, t.revisions = s.revisions
  PROVE  \A l \in Logicals : Revised(t, l) = Revised(s, l)
BY DEF Revised
-----------------------------------------------------------------------------
(***************************************************************************)
(* Rebuilding.                                                             *)
(***************************************************************************)
LEMMA AbsentIsNoProjection == \A x \in Projection : x # Absent
<1> SUFFICES ASSUME NEW x \in Projection, x = Absent PROVE FALSE
  OBVIOUS
<1>1. DOMAIN x = {"manifest", "card", "saved"}
  BY DEF Projection
<1>2. DOMAIN x = {"saved"}
  BY DEF Absent
<1> QED BY <1>1, <1>2

LEMMA ProjectionCardIsCard ==
  ASSUME NEW s \in State, NEW p \in Profiles
  PROVE  /\ ProjectionCard(s, p) \in Cards
         /\ ActiveLogicalSaves(s, p) \in SUBSET Logicals
<1>1. Fitting(ActiveLogicalSaves(s, p)) \subseteq ActiveLogicalSaves(s, p)
  BY DEF Fitting
<1>2. ActiveLogicalSaves(s, p) \subseteq Logicals
  BY DEF ActiveLogicalSaves
<1>3. ASSUME NEW l \in ActiveLogicalSaves(s, p)
      PROVE  LatestRevision(s, l) \in Contents
  <2>1. s.revisions[l] \in Seq(Contents) /\ s.revisions[l] # << >>
    BY <1>2, RevisionsOf DEF ActiveLogicalSaves
  <2> QED BY <2>1 DEF LatestRevision
<1>4. ProjectionCard(s, p) \in [Fitting(ActiveLogicalSaves(s, p)) -> Contents]
  BY <1>1, <1>3 DEF ProjectionCard
<1> QED BY <1>1, <1>2, <1>4 DEF Cards

\* Cards show revisions, tombstones and nothing else.
LEMMA SameCards ==
  ASSUME NEW s \in State, NEW t \in State,
         t.revisions = s.revisions,
         \A l \in Logicals : Tombstoned(t, l) <=> Tombstoned(s, l),
         NEW p \in Profiles
  PROVE  /\ ActiveLogicalSaves(t, p) = ActiveLogicalSaves(s, p)
         /\ ProjectionCard(t, p) = ProjectionCard(s, p)
<1>1. ActiveLogicalSaves(t, p) = ActiveLogicalSaves(s, p)
  BY DEF ActiveLogicalSaves
<1>2. \A l : LatestRevision(t, l) = LatestRevision(s, l)
  BY DEF LatestRevision
<1> QED BY <1>1, <1>2 DEF ProjectionCard

LEMMA RebuiltIsSound ==
  ASSUME NEW s, Sound(s), NEW due \in SUBSET Profiles, NEW done \in SUBSET Profiles,
         due # {} => s.rebuilds < MaxRebuilds
  PROVE  LET t == Rebuilt(s, due, done)
             n == s.rebuilds + 1
         IN /\ Sound(t) /\ t.revisions = s.revisions /\ t.tombstone = s.tombstone
            /\ Ahead(t, s)
            /\ due # {} => n \in Rebuilds
            /\ \A p \in due \cap done :
                 Has(t, p, n) /\ t.latest[p] = n /\ t.projections[p][n].card = ProjectionCard(s, p)
            /\ \A p \in Profiles \ (due \cap done) :
                 t.latest[p] = s.latest[p] /\ t.projections[p] = s.projections[p]
<1> DEFINE n == s.rebuilds + 1
           new == due \cap done
           built(p) == [manifest |-> ActiveLogicalSaves(s, p),
                        card |-> ProjectionCard(s, p), saved |-> FALSE]
           projections == [p \in Profiles |->
             IF p \in new THEN [s.projections[p] EXCEPT ![n] = built(p)] ELSE s.projections[p]]
           latest == [p \in Profiles |-> IF p \in new THEN n ELSE s.latest[p]]
           t == Rebuilt(s, due, done)
<1>1. t = [s EXCEPT !.lines = @ \cup done, !.rebuilds = IF new = {} THEN @ ELSE n,
                    !.projections = projections, !.latest = latest]
  BY DEF Rebuilt
<1>2. s \in State /\ s.rebuilds \in 0 .. MaxRebuilds
      /\ s.projections \in [Profiles -> [Rebuilds -> Projection \cup {Absent}]]
      /\ s.latest \in [Profiles -> 0 .. MaxRebuilds] /\ s.lines \in SUBSET Profiles
  BY DEF Sound, State
<1>3. due # {} => n \in Rebuilds /\ n \in 0 .. MaxRebuilds
  BY <1>2, BoundsAssumption DEF Rebuilds
<1>4. \A p \in Profiles : built(p) \in Projection /\ built(p) # Absent
  BY <1>2, ProjectionCardIsCard, AbsentIsNoProjection DEF Projection
<1>5. /\ projections \in [Profiles -> [Rebuilds -> Projection \cup {Absent}]]
      /\ \A p \in new : projections[p][n] = built(p)
      /\ \A p \in Profiles, m \in Rebuilds : m # n \/ p \notin new
           => projections[p][m] = s.projections[p][m]
      /\ \A p \in Profiles \ new : projections[p] = s.projections[p]
  <2> HIDE DEF built
  <2> QED BY <1>2, <1>3, <1>4
<1>6. /\ latest \in [Profiles -> 0 .. MaxRebuilds]
      /\ \A p \in new : latest[p] = n
      /\ \A p \in Profiles \ new : latest[p] = s.latest[p]
  <2>1. \A p \in new : latest[p] = n
    OBVIOUS
  <2>2. \A p \in Profiles \ new : latest[p] = s.latest[p]
    OBVIOUS
  <2> QED BY <1>2, <1>3, <2>1, <2>2
<1>7. \A p \in new : built(p).card = ProjectionCard(s, p)
  OBVIOUS
<1> HIDE DEF built, projections, latest, t
<1>8. /\ t \in State /\ t.revisions = s.revisions /\ t.tombstone = s.tombstone
      /\ t.projections = projections /\ t.latest = latest
  <2>1. s.lines \cup done \in SUBSET Profiles
        /\ (IF new = {} THEN s.rebuilds ELSE n) \in 0 .. MaxRebuilds
    BY <1>2, <1>3
  <2> HIDE DEF n, new
  <2> QED BY <1>1, <1>2, <1>5, <1>6, <2>1 DEF State
<1>9. Ahead(t, s)
  <2>1. \A l \in Logicals : AheadOf(t, s, l)
    <3>1. \A l \in Logicals : Revised(t, l) = Revised(s, l) /\ Len(t.revisions[l]) \in Nat
      BY <1>2, <1>8, SameRevisions, RevisionsOf
    <3> QED BY <1>8, <3>1 DEF AheadOf, Tombstoned
  <2>2. \A p \in Profiles, m \in Rebuilds : Has(s, p, m) => Has(t, p, m)
    BY <1>4, <1>5, <1>8 DEF Has
  <2> QED BY <2>1, <2>2 DEF Ahead
<1>10. Sound(t)
  BY <1>8 DEF Sound
<1>11. due # {} => n \in Rebuilds
  BY <1>3
<1> HIDE DEF n, new
<1>12. /\ \A p \in new :
            Has(t, p, n) /\ t.latest[p] = n /\ t.projections[p][n].card = ProjectionCard(s, p)
       /\ \A p \in Profiles \ new :
            t.latest[p] = s.latest[p] /\ t.projections[p] = s.projections[p]
  <2>1. new \subseteq Profiles
    BY DEF new
  <2> QED BY <1>4, <1>5, <1>6, <1>7, <1>8, <2>1 DEF Has
<1> QED BY <1>8, <1>9, <1>10, <1>11, <1>12 DEF t, n, new

\* When every profile that was due has its projection, all show the saves.
LEMMA RebuiltIsShown ==
  ASSUME NEW s, Sound(s), NEW always,
         Due(s, always) # {} => s.rebuilds < MaxRebuilds
  PROVE  Shown(Rebuilt(s, Due(s, always), Profiles))
<1> DEFINE due == Due(s, always)
           t == Rebuilt(s, due, Profiles)
           n == s.rebuilds + 1
<1>1. /\ due \in SUBSET Profiles /\ due \cap Profiles = due /\ Profiles \in SUBSET Profiles
      /\ due # {} => s.rebuilds < MaxRebuilds
  BY DEF Due
<1>2. \A p \in Profiles \ due : UpToDate(s, p)
  BY DEF Due
<1>3. /\ Sound(t) /\ t.revisions = s.revisions /\ t.tombstone = s.tombstone
      /\ \A p \in due : t.latest[p] = n /\ t.projections[p][n].card = ProjectionCard(s, p)
      /\ \A p \in Profiles \ due :
           t.latest[p] = s.latest[p] /\ t.projections[p] = s.projections[p]
  <2> HIDE DEF due
  <2> QED BY <1>1, RebuiltIsSound, SMTT(30)
<1>4. \A p \in Profiles : ProjectionCard(t, p) = ProjectionCard(s, p)
  <2> HIDE DEF t
  <2> QED BY <1>3, SameCards DEF Sound, Tombstoned
<1> HIDE DEF t, due
<1>5. ASSUME NEW p \in Profiles, t.latest[p] # None
      PROVE  UpToDate(t, p)
  <2>1. CASE p \in due
    BY <1>3, <1>4, <1>5, <2>1 DEF UpToDate
  <2>2. CASE p \notin due
    BY <1>2, <1>3, <1>4, <1>5, <2>2 DEF UpToDate
  <2> QED BY <2>1, <2>2
<1> QED BY <1>5 DEF Shown, t, due
-----------------------------------------------------------------------------
(***************************************************************************)
(* Writing the state.                                                      *)
(***************************************************************************)
\* Memory moves ahead, and the file stays or is written.
LEMMA MovingAhead ==
  ASSUME IInv, NEW s, Sound(s), Ahead(s, state), state' = s,
         stored' = s \/ stored' = stored,
         \A r \in requests' : RequestOK(stored', r),
         RecordsOK(stored', records'), held' \in [Devices -> Cards],
         faults' \in 0 .. MaxFaults, faults' = 0 => faults = 0 /\ Shown(s)
  PROVE  IInv' /\ Ahead(stored', stored)
<1>1. s \in State /\ state \in State /\ stored \in State
  BY DEF IInv, Sound
<1>2. Ahead(s, stored)
  BY <1>1, AheadIsTransitive DEF IInv
<1>3. Sound(stored') /\ Ahead(s, stored') /\ Ahead(stored', stored)
  BY <1>1, <1>2, AheadOfItself DEF IInv
<1>4. faults' = 0 => Shown(s) /\ Shown(stored')
  BY DEF IInv
<1>5. Sound(state)' /\ Sound(stored)'
  BY <1>3 DEF Sound
<1>6. Ahead(state, stored)'
  <2>1. Ahead(state', stored')
    BY <1>3
  <2> QED BY <2>1 DEF Ahead, AheadOf, Has, Revised, Tombstoned
<1>8. RecordsOK(stored, records)'
  BY DEF RecordsOK, Has
<1>9. \A r \in requests' : RequestOK(stored, r)'
  <2> SUFFICES ASSUME NEW r \in requests' PROVE RequestOK(stored, r)'
    OBVIOUS
  <2>1. RequestOK(stored', r)
    OBVIOUS
  <2> QED BY <2>1 DEF RequestOK, KeptFirmly, Kept, Has, Needed, Revised, Tombstoned
<1>7. (faults = 0 => Shown(state) /\ Shown(stored))'
  <2>1. Shown(state') => Shown(state)'
    BY DEF Shown, UpToDate, ProjectionCard, Fitting, ActiveLogicalSaves, Tombstoned,
           LatestRevision
  <2>2. Shown(stored') => Shown(stored)'
    BY DEF Shown, UpToDate, ProjectionCard, Fitting, ActiveLogicalSaves, Tombstoned,
           LatestRevision
  <2> QED BY <1>4, <2>1, <2>2
<1> QED BY <1>3, <1>5, <1>6, <1>7, <1>8, <1>9 DEF IInv

\* What a step adds to requests and records, the file accounts for already.
LEMMA MovingOn ==
  ASSUME IInv, NEW s, Sound(s), Ahead(s, state), state' = s,
         stored' = s \/ stored' = stored,
         \A r \in requests' : r \in requests \/ RequestOK(stored, r),
         RecordsOK(stored, records'), held' \in [Devices -> Cards],
         faults' \in 0 .. MaxFaults, faults' = 0 => faults = 0 /\ Shown(s)
  PROVE  IInv' /\ Ahead(stored', stored)
<1>1. s \in State /\ stored \in State /\ Ahead(s, stored)
  BY AheadIsTransitive DEF IInv, Sound
<1>2. stored' \in State /\ Ahead(stored', stored)
  BY <1>1, AheadOfItself
<1>3. \A r \in requests' : RequestOK(stored', r)
  BY <1>1, <1>2, RequestStaysOK DEF IInv
<1>4. RecordsOK(stored', records')
  BY <1>1, <1>2, RecordsStayOK
<1> QED BY <1>3, <1>4, MovingAhead

LEMMA FailKeeps ==
  ASSUME IInv, NEW s, Sound(s), Ahead(s, state), state' = s,
         NEW others \in SUBSET requests, Fail(others),
         RecordsOK(stored, records'), held' \in [Devices -> Cards],
         Fault \/ (UNCHANGED faults /\ (faults = 0 => Shown(s)))
  PROVE  IInv' /\ Ahead(stored', stored)
<1>1. faults' \in 0 .. MaxFaults /\ (faults' = 0 => faults = 0 /\ Shown(s))
  BY BoundsAssumption DEF IInv, Fault
<1>2. stored' = stored /\ \A r \in requests' : RequestOK(stored', r)
  BY DEF IInv, Fail
<1> QED BY <1>1, <1>2, MovingAhead

LEMMA ProceedKeeps ==
  ASSUME IInv, NEW s \in State, Ahead(s, stored),
         NEW others \in SUBSET requests, NEW r, RequestOK(s, r), Proceed(others, r)
  PROVE  \A q \in requests' : RequestOK(s, q)
<1>2. \A q \in others : RequestOK(s, q)
  BY RequestStaysOK DEF IInv, Sound
<1>3. ASSUME NEW step \in {"materialize", "lookup", "answer"}
      PROVE  RequestOK(s, [r EXCEPT !.step = step])
  BY DEF RequestOK, Request, Needed
<1> QED BY <1>2, <1>3 DEF Proceed

LEMMA PersistKeeps ==
  ASSUME IInv, NEW s, Sound(s), Ahead(s, state),
         NEW others \in SUBSET requests, NEW r, RequestOK(s, r), Persist(s, others, r),
         RecordsOK(stored, records'), held' \in [Devices -> Cards],
         faults = 0 => Shown(s)
  PROVE  IInv' /\ Ahead(stored', stored)
<1>1. CASE stored' = s /\ Proceed(others, r) /\ UNCHANGED faults
  <2>2. Ahead(s, stored) /\ s \in State /\ stored \in State
    BY AheadIsTransitive DEF IInv, Sound
  <2>1. \A q \in requests' : RequestOK(s, q)
    BY <1>1, <2>2, ProceedKeeps
  <2>3. RecordsOK(s, records')
    BY <2>2, RecordsStayOK
  <2> QED BY <1>1, <2>1, <2>3, MovingAhead DEF Persist, IInv
<1>2. CASE Fault /\ Fail(others)
  BY <1>2, FailKeeps DEF Persist
<1> QED BY <1>1, <1>2 DEF Persist

LEMMA RebuildKeeps ==
  ASSUME IInv, NEW s, Sound(s), Ahead(s, state),
         NEW others \in SUBSET requests, NEW r, RequestOK(s, r), r.step # "import",
         NEW always, NEW needed, RebuildAndPersist(s, always, needed, others, r),
         RecordsOK(stored, records'), held' \in [Devices -> Cards]
  PROVE  /\ IInv' /\ Ahead(stored', stored)
         /\ state'.revisions = s.revisions /\ state'.tombstone = s.tombstone
<1> DEFINE due == Due(s, always)
           n == s.rebuilds + 1
           t == Rebuilt(s, due, Profiles)
           next == [r EXCEPT !.todo = due, !.at = IF due = {} THEN None ELSE n]
<1>1. due \in SUBSET Profiles /\ due \cap Profiles = due /\ Profiles \in SUBSET Profiles
      /\ (due # {} => s.rebuilds < MaxRebuilds)
  BY DEF Due, RebuildAndPersist
<1>2. s \in State /\ state \in State
  BY DEF IInv, Sound
<1>3. /\ Sound(t) /\ t.revisions = s.revisions /\ t.tombstone = s.tombstone /\ Ahead(t, s)
      /\ due # {} => n \in Rebuilds
      /\ \A p \in due : Has(t, p, n)
  <2> HIDE DEF due
  <2> QED BY <1>1, RebuiltIsSound
<1>4. Shown(t)
  BY <1>1, RebuiltIsShown
<1>5. t \in State /\ Ahead(t, state)
  BY <1>2, <1>3, AheadIsTransitive DEF Sound
<1>6. RequestOK(t, next)
  <2>1. RequestOK(t, r)
    BY <1>2, <1>3, <1>5, RequestStaysOK
  <2>2. /\ next \in Request /\ next.todo = due /\ next.promise = r.promise /\ next.step = r.step
        /\ (due # {} => next.at = n)
    <3>1. (IF due = {} THEN None ELSE n) \in 0 .. MaxRebuilds
      BY <1>3, BoundsAssumption DEF Rebuilds, None
    <3>2. r \in Request
      BY DEF RequestOK
    <3> HIDE DEF due, n
    <3> QED BY <1>1, <3>1, <3>2 DEF Request
  <2> HIDE DEF next, t, n, due
  <2> QED BY <1>3, <2>1, <2>2 DEF RequestOK, Needed
<1>7. \/ Persist(t, others, next)
      \/ state' = t /\ Fail(others) /\ UNCHANGED faults
      \/ \E p \in due :
           /\ state' = [Rebuilt(s, due, Before(p)) EXCEPT !.lines = @ \cup {p}]
           /\ Fault /\ Fail(others)
  BY DEF RebuildAndPersist
<1>8. CASE Persist(t, others, next)
  <2> HIDE DEF t, next
  <2>1. state' = t
    BY <1>8 DEF Persist
  <2> QED BY <1>3, <1>4, <1>5, <1>6, <1>8, <2>1, PersistKeeps
<1>9. CASE state' = t /\ Fail(others) /\ UNCHANGED faults
  <2> HIDE DEF t
  <2> QED BY <1>3, <1>4, <1>5, <1>9, FailKeeps
<1>10. ASSUME NEW p \in due, Fault, Fail(others),
              state' = [Rebuilt(s, due, Before(p)) EXCEPT !.lines = @ \cup {p}]
       PROVE  /\ IInv' /\ Ahead(stored', stored)
              /\ state'.revisions = s.revisions /\ state'.tombstone = s.tombstone
  <2> DEFINE u == Rebuilt(s, due, Before(p))
             v == [u EXCEPT !.lines = @ \cup {p}]
  <2>1. Before(p) \in SUBSET Profiles /\ p \in Profiles
    BY <1>1 DEF Before
  <2>2. Sound(u) /\ u.revisions = s.revisions /\ u.tombstone = s.tombstone /\ Ahead(u, s)
    <3> HIDE DEF due
    <3> QED BY <1>1, <2>1, RebuiltIsSound
  <2> HIDE DEF u, due
  <2>3. /\ v \in State /\ v.revisions = u.revisions /\ v.tombstone = u.tombstone
        /\ v.projections = u.projections
    <3>1. u.lines \cup {p} \in SUBSET Profiles
      BY <2>1, <2>2 DEF Sound, State
    <3> QED BY <2>2, <3>1 DEF Sound, State
  <2> HIDE DEF v
  <2>4. Sound(v) /\ Ahead(v, s)
    BY <2>2, <2>3, SameRevisions DEF Sound, Ahead, AheadOf, Has, Tombstoned
  <2>5. Ahead(v, state)
    BY <1>2, <2>3, <2>4, AheadIsTransitive
  <2>6. state' = v /\ Fault /\ Fail(others)
    BY <1>10 DEF u, v
  <2>7. IInv' /\ Ahead(stored', stored)
    BY <2>4, <2>5, <2>6, FailKeeps
  <2> QED BY <2>2, <2>3, <2>6, <2>7
<1> QED BY <1>7, <1>8, <1>9, <1>10
-----------------------------------------------------------------------------
(***************************************************************************)
(* Importing.                                                              *)
(***************************************************************************)
LEMMA AppendedRevision ==
  ASSUME NEW revs \in Seq(Contents), NEW c \in Contents
  PROVE  /\ Append(revs, c) \in Seq(Contents) /\ Len(Append(revs, c)) = Len(revs) + 1
         /\ {Append(revs, c)[i] : i \in DOMAIN Append(revs, c)}
              = {revs[i] : i \in DOMAIN revs} \cup {c}
         /\ Append(revs, c)[Len(Append(revs, c))] = c
<1>1. Len(revs) \in Nat /\ DOMAIN revs = 1 .. Len(revs)
  OBVIOUS
<1>2. /\ Append(revs, c) \in Seq(Contents) /\ Len(Append(revs, c)) = Len(revs) + 1
      /\ \A i \in 1 .. Len(revs) : Append(revs, c)[i] = revs[i]
      /\ Append(revs, c)[Len(revs) + 1] = c
  OBVIOUS
<1>3. DOMAIN Append(revs, c) = 1 .. Len(revs) \cup {Len(revs) + 1}
  BY <1>1, <1>2
<1> QED BY <1>1, <1>2, <1>3

LEMMA ImportedIsSound ==
  ASSUME Sound(state), NEW p \in Profiles, NEW base, NEW by \in Devices \cup {Operator},
         NEW card \in Cards, \A l \in Fresh(card) : Len(state.revisions[l]) < MaxRevisions
  PROVE  LET s == Imported(p, base, by, card)
         IN /\ Sound(s) /\ Ahead(s, state)
            /\ \A l \in DOMAIN card : l \in Logicals /\ card[l] \in Contents
                                      /\ card[l] \in Revised(s, l)
            /\ \A l \in Logicals : Tombstoned(state, l) /\ ~Tombstoned(s, l)
                 => LatestRevision(s, l) \notin Revised(state, l)
            /\ Fresh(card) \cup Removed(p, base, card) = {} /\ Shown(state) => Shown(s)
<1> DEFINE s == Imported(p, base, by, card)
           tombstone == [k \in Scopes \X Logicals |->
              IF k[1] = Shared /\ k[2] \in Removed(p, base, card) THEN by
              ELSE IF k[1] = Home[k[2]] /\ k[2] \in Fresh(card) THEN Nobody
              ELSE state.tombstone[k]]
           revisions == [l \in Logicals |->
              IF l \in Fresh(card) THEN Append(state.revisions[l], card[l])
              ELSE state.revisions[l]]
<1>1. DOMAIN card \subseteq Logicals /\ \A l \in DOMAIN card : card[l] \in Contents
  BY DEF Cards
<1>2. /\ Fresh(card) \subseteq DOMAIN card
      /\ \A l \in Fresh(card) : card[l] \notin Revised(state, l)
      /\ \A l \in DOMAIN card \ Fresh(card) : card[l] \in Revised(state, l)
  BY DEF Fresh
<1>3. s = [state EXCEPT !.lines = @ \cup {p}, !.tombstone = tombstone, !.revisions = revisions]
  BY DEF Imported
<1>4. state \in State /\ \A l \in Logicals : <<Home[l], l>> \in Scopes \X Logicals
  BY ProfilesAssumption DEF Sound, Scopes
<1>5. /\ revisions \in [Logicals -> Seq(Contents)]
      /\ \A l \in Fresh(card) : revisions[l] = Append(state.revisions[l], card[l])
      /\ \A l \in Logicals \ Fresh(card) : revisions[l] = state.revisions[l]
  <2>1. \A l \in Fresh(card) : Append(state.revisions[l], card[l]) \in Seq(Contents)
    BY <1>1, <1>2, <1>4, RevisionsOf, AppendedRevision
  <2>2. \A l \in Logicals : state.revisions[l] \in Seq(Contents)
    BY <1>4, RevisionsOf
  <2> QED BY <1>1, <1>2, <2>1, <2>2
<1>6. tombstone \in [Scopes \X Logicals -> Devices \cup {Operator, Nobody}]
  <2>1. state.tombstone \in [Scopes \X Logicals -> Devices \cup {Operator, Nobody}]
    BY <1>4 DEF State
  <2> QED BY <2>1
<1>7. \A l \in Logicals \ Fresh(card) :
        tombstone[<<Home[l], l>>] # Nobody \/ state.tombstone[<<Home[l], l>>] = Nobody
  BY <1>4, ActorsAssumption
<1>8. Fresh(card) \cup Removed(p, base, card) = {} =>
        \A l \in Logicals : tombstone[<<Home[l], l>>] = state.tombstone[<<Home[l], l>>]
  BY <1>4
<1> HIDE DEF tombstone, revisions, s
<1>9. /\ s \in State /\ s.revisions = revisions /\ s.tombstone = tombstone
      /\ s.projections = state.projections /\ s.latest = state.latest
  <2>1. state.lines \cup {p} \in SUBSET Profiles
    BY <1>4 DEF State
  <2> QED BY <1>3, <1>4, <1>5, <1>6, <2>1 DEF State
<1>10. ASSUME NEW l \in Fresh(card)
       PROVE  /\ Revised(s, l) = Revised(state, l) \cup {card[l]}
              /\ Len(s.revisions[l]) = Len(state.revisions[l]) + 1
              /\ LatestRevision(s, l) = card[l]
              /\ l \in Logicals /\ card[l] \notin Revised(state, l)
  <2>1. state.revisions[l] \in Seq(Contents) /\ card[l] \in Contents /\ l \in Logicals
    BY <1>1, <1>2, <1>4, RevisionsOf
  <2> DEFINE revs == Append(state.revisions[l], card[l])
  <2>2. s.revisions[l] = revs /\ card[l] \notin Revised(state, l)
    BY <1>2, <1>5, <1>9
  <2>3. /\ Len(revs) = Len(state.revisions[l]) + 1 /\ revs[Len(revs)] = card[l]
        /\ {revs[i] : i \in DOMAIN revs}
             = {state.revisions[l][i] : i \in DOMAIN state.revisions[l]} \cup {card[l]}
    BY <2>1, AppendedRevision
  <2> HIDE DEF revs
  <2>4. Revised(s, l) = Revised(state, l) \cup {card[l]}
    <3>1. Revised(s, l) = {revs[i] : i \in DOMAIN revs}
      BY <2>2 DEF Revised
    <3> QED BY <2>3, <3>1 DEF Revised
  <2>5. Len(s.revisions[l]) = Len(state.revisions[l]) + 1 /\ LatestRevision(s, l) = card[l]
    BY <2>2, <2>3 DEF LatestRevision
  <2> QED BY <2>1, <2>2, <2>4, <2>5
<1>11. ASSUME NEW l \in Logicals \ Fresh(card)
       PROVE  /\ Revised(s, l) = Revised(state, l)
              /\ s.revisions[l] = state.revisions[l]
              /\ Tombstoned(state, l) => Tombstoned(s, l)
  BY <1>5, <1>7, <1>9 DEF Revised, Tombstoned
<1>12. \A l \in Logicals : Len(state.revisions[l]) \in Nat
  BY <1>4, RevisionsOf
<1>13. Sound(s)
  <2>1. \A l \in Logicals : Len(s.revisions[l]) <= MaxRevisions
    BY <1>10, <1>11, <1>12, BoundsAssumption DEF Sound
  <2> QED BY <1>9, <2>1 DEF Sound
<1>14. Ahead(s, state)
  <2>1. \A l \in Fresh(card) : AheadOf(s, state, l)
    BY <1>10, <1>12 DEF AheadOf
  <2>2. \A l \in Logicals \ Fresh(card) : AheadOf(s, state, l)
    BY <1>11, <1>12 DEF AheadOf
  <2> QED BY <1>9, <2>1, <2>2 DEF Ahead, Has
<1>15. \A l \in DOMAIN card : l \in Logicals /\ card[l] \in Contents /\ card[l] \in Revised(s, l)
  BY <1>1, <1>2, <1>10, <1>11
<1>16. \A l \in Logicals : Tombstoned(state, l) /\ ~Tombstoned(s, l)
         => LatestRevision(s, l) \notin Revised(state, l)
  BY <1>10, <1>11
<1>17. ASSUME Fresh(card) \cup Removed(p, base, card) = {}, Shown(state) PROVE Shown(s)
  <2>1. s.revisions = state.revisions
    <3>1. \A l \in Logicals : revisions[l] = state.revisions[l]
      BY <1>5, <1>17
    <3>2. state.revisions \in [Logicals -> Seq(Contents)]
      BY <1>4 DEF State
    <3> QED BY <1>5, <1>9, <3>1, <3>2
  <2>2. \A l \in Logicals : Tombstoned(s, l) <=> Tombstoned(state, l)
    BY <1>8, <1>9, <1>17 DEF Tombstoned
  <2>3. \A q \in Profiles : ProjectionCard(s, q) = ProjectionCard(state, q)
    BY <1>4, <1>9, <2>1, <2>2, SameCards
  <2> QED BY <1>9, <1>17, <2>3 DEF Shown, UpToDate
<1> QED BY <1>13, <1>14, <1>15, <1>16, <1>17 DEF s

LEMMA ImportKeeps ==
  ASSUME IInv, NEW p \in Profiles, NEW base, NEW by \in Devices \cup {Operator},
         by \in Devices => p = ProfileOf[by] /\ base = state.baseline[by], NEW card \in Cards, NEW promise \in SUBSET Promise,
         \A m \in promise : /\ m.what \in {"stored", "promoted"}
                            /\ m.logical \in DOMAIN card /\ m.content = card[m.logical],
         NEW others \in SUBSET requests,
         ImportMemoryCard(p, base, by, card, promise, others), UNCHANGED <<records, held>>
  PROVE  IInv' /\ Ahead(stored', stored) /\ ChangesTombstones
<1> DEFINE s == Imported(p, base, by, card)
           r == [step |-> "lookup", line |-> p, todo |-> {}, at |-> None, base |-> None,
                 own |-> FALSE, promise |-> promise]
<1>1. /\ Sound(s) /\ Ahead(s, state)
      /\ \A l \in DOMAIN card : card[l] \in Revised(s, l)
      /\ \A l \in Logicals : Tombstoned(state, l) /\ ~Tombstoned(s, l)
           => LatestRevision(s, l) \notin Revised(state, l)
      /\ Fresh(card) \cup Removed(p, base, card) = {} /\ Shown(state) => Shown(s)
  BY ImportedIsSound DEF IInv, ImportMemoryCard
<1>2. RequestOK(s, r)
  <2>1. r \in Request /\ Needed(r) = {} /\ r.promise = promise
    BY BoundsAssumption DEF Request, None, Needed
  <2>2. \A m \in promise : KeptFirmly(s, m)
    <3> HIDE DEF s
    <3> QED BY <1>1 DEF KeptFirmly, Kept
  <2> HIDE DEF r, s
  <2> QED BY <2>1, <2>2 DEF RequestOK
<1>3. RecordsOK(stored, records') /\ held' \in [Devices -> Cards]
  BY DEF IInv
<1>4. \/ Fresh(card) \cup Removed(p, base, card) = {} /\ Persist(s, others, r)
      \/ RebuildAndPersist(s, FALSE, TRUE, others, r)
  BY DEF ImportMemoryCard
<1>5. r.step # "import"
  OBVIOUS
<1> HIDE DEF s, r
<1>6. /\ IInv' /\ Ahead(stored', stored)
      /\ state'.revisions = s.revisions /\ state'.tombstone = s.tombstone
  <2>1. CASE Fresh(card) \cup Removed(p, base, card) = {} /\ Persist(s, others, r)
    <3>1. faults = 0 => Shown(s)
      BY <1>1, <2>1 DEF IInv
    <3>2. state' = s
      BY <2>1 DEF Persist
    <3> QED BY <1>1, <1>2, <1>3, <2>1, <3>1, <3>2, PersistKeeps
  <2>2. CASE RebuildAndPersist(s, FALSE, TRUE, others, r)
    BY <1>1, <1>2, <1>3, <1>5, <2>2, RebuildKeeps
  <2> QED BY <1>4, <2>1, <2>2
<1>7. \A l \in Logicals : ~NewlyActive(l) \/ LatestRevision(state', l) \notin Revised(state, l)
  BY <1>1, <1>6 DEF NewlyActive, Tombstoned, LatestRevision
<1>8. ASSUME NEW d \in Devices, NEW k \in Scopes \X Logicals,
             state'.tombstone[k] = d, state.tombstone[k] # d
      PROVE  ListedForRemoval(d, k[2])
  <2>1. s.tombstone = [j \in Scopes \X Logicals |->
           IF j[1] = Shared /\ j[2] \in Removed(p, base, card) THEN by
           ELSE IF j[1] = Home[j[2]] /\ j[2] \in Fresh(card) THEN Nobody
           ELSE state.tombstone[j]]
    <3>1. state \in State
      BY DEF IInv, Sound
    <3> QED BY <3>1 DEF s, Imported, State
  <2>2. k[2] \in Removed(p, base, card) /\ by = d
    BY <1>6, <1>8, <2>1, ActorsAssumption
  <2>3. p = ProfileOf[d] /\ base = state.baseline[d]
    BY <2>2
  <2> QED BY <2>2, <2>3 DEF Removed, MissingManifestKeys, ListedForRemoval
<1> QED BY <1>6, <1>7, <1>8 DEF ChangesTombstones
-----------------------------------------------------------------------------
(***************************************************************************)
(* The steps.                                                              *)
(***************************************************************************)
LEMMA PromisesOfCards ==
  ASSUME NEW card \in Cards
  PROVE  /\ Stored(card) \in SUBSET Promise /\ Promoted(card) \in SUBSET Promise
         /\ \A m \in Stored(card) \cup Promoted(card) :
              /\ m.what \in {"stored", "promoted"}
              /\ m.logical \in DOMAIN card /\ m.content = card[m.logical]
<1>1. DOMAIN card \subseteq Logicals /\ \A l \in DOMAIN card : card[l] \in Contents
  BY DEF Cards
<1> QED BY <1>1 DEF Stored, Promoted, Promise

LEMMA UploadKeeps ==
  ASSUME IInv, NEW d \in Devices, NEW card \in Cards, Upload(d, card)
  PROVE  IInv' /\ Ahead(stored', stored) /\ ChangesTombstones
<1>1. PICK promise \in {{}, Stored(card)} :
        ImportMemoryCard(ProfileOf[d], state.baseline[d], d, card, promise, requests)
  BY DEF Upload
<1>2. ProfileOf[d] \in Profiles /\ UNCHANGED <<records, held>>
  BY ProfilesAssumption DEF Upload
<1>3. /\ promise \in SUBSET Promise
      /\ \A m \in promise : /\ m.what \in {"stored", "promoted"}
                            /\ m.logical \in DOMAIN card /\ m.content = card[m.logical]
  BY PromisesOfCards
<1> QED BY <1>1, <1>2, <1>3, ImportKeeps

LEMMA ImportForRollbackKeeps ==
  ASSUME IInv, NEW r \in requests, ImportForRollback(r)
  PROVE  IInv' /\ Ahead(stored', stored) /\ ChangesTombstones
<1> DEFINE card == state.projections[r.line][r.at].card
<1>1. /\ r.line \in Profiles /\ r.at \in Rebuilds /\ Has(stored, r.line, r.at)
  BY DEF IInv, RequestOK, Request, Needed, ImportForRollback
<1>2. card \in Cards
  <2>1. Has(state, r.line, r.at) /\ state \in State
    BY <1>1 DEF IInv, Ahead, Sound
  <2>2. state.projections[r.line][r.at] \in Projection
    BY <1>1, <2>1 DEF Has, State
  <2> QED BY <2>2 DEF Projection
<1>3. /\ ImportMemoryCard(r.line, r.base, Operator, card, Promoted(card), requests \ {r})
      /\ UNCHANGED <<records, held>>
  BY DEF ImportForRollback
<1> HIDE DEF card
<1>4. /\ Promoted(card) \in SUBSET Promise
      /\ \A m \in Promoted(card) : /\ m.what \in {"stored", "promoted"}
                                   /\ m.logical \in DOMAIN card /\ m.content = card[m.logical]
  BY <1>2, PromisesOfCards
<1>5. requests \ {r} \in SUBSET requests /\ Operator \notin Devices
  BY ActorsAssumption
<1> QED BY <1>1, <1>2, <1>3, <1>4, <1>5, ImportKeeps

LEMMA TombstoneIsSound ==
  ASSUME Sound(state), NEW S \in SUBSET Logicals
  PROVE  LET s == Tombstone(state, S)
         IN /\ Sound(s) /\ Ahead(s, state) /\ s.revisions = state.revisions
            /\ \A l \in S : Tombstoned(s, l)
            /\ \A l \in Logicals : Tombstoned(state, l) => Tombstoned(s, l)
<1> DEFINE s == Tombstone(state, S)
           tombstone == [k \in Scopes \X Logicals |->
             IF k[2] \in S /\ k[1] = Home[k[2]] THEN Operator ELSE state.tombstone[k]]
<1>1. state \in State /\ \A l \in Logicals : <<Home[l], l>> \in Scopes \X Logicals
  BY ProfilesAssumption DEF Sound, Scopes
<1>2. tombstone \in [Scopes \X Logicals -> Devices \cup {Operator, Nobody}]
  BY <1>1 DEF State
<1>3. /\ \A l \in S : tombstone[<<Home[l], l>>] # Nobody
      /\ \A l \in Logicals :
           state.tombstone[<<Home[l], l>>] # Nobody => tombstone[<<Home[l], l>>] # Nobody
  BY <1>1, ActorsAssumption
<1>4. s = [state EXCEPT !.tombstone = tombstone]
  BY DEF Tombstone
<1> HIDE DEF s, tombstone
<1>5. /\ s \in State /\ s.revisions = state.revisions /\ s.tombstone = tombstone
      /\ s.projections = state.projections
  BY <1>1, <1>2, <1>4 DEF State
<1>6. /\ \A l \in S : Tombstoned(s, l)
      /\ \A l \in Logicals : Tombstoned(state, l) => Tombstoned(s, l)
  BY <1>3, <1>5 DEF Tombstoned
<1>7. Ahead(s, state)
  BY <1>1, <1>5, <1>6, SameRevisions, RevisionsOf DEF Ahead, AheadOf, Has
<1>8. Sound(s)
  BY <1>5 DEF Sound
<1> QED BY <1>5, <1>6, <1>7, <1>8 DEF s

LEMMA DeleteKeeps ==
  ASSUME IInv, NEW p \in Profiles, NEW S \in SUBSET Logicals,
         RebuildAndPersist(Tombstone(state, S), FALSE, FALSE, requests,
                           WebRequest(p, TRUE, Deleted(S))),
         UNCHANGED <<records, held>>
  PROVE  IInv' /\ Ahead(stored', stored) /\ ChangesTombstones
<1> DEFINE s == Tombstone(state, S)
           r == WebRequest(p, TRUE, Deleted(S))
<1>1. /\ Sound(state) /\ Sound(s) /\ Ahead(s, state) /\ s.revisions = state.revisions
      /\ \A l \in S : Tombstoned(s, l)
      /\ \A l \in Logicals : Tombstoned(state, l) => Tombstoned(s, l)
  BY TombstoneIsSound DEF IInv
<1>2. RequestOK(s, r)
  <2>1. \A l \in S : Len(state.revisions[l]) \in 0 .. MaxRevisions
    BY <1>1, RevisionsOf, BoundsAssumption DEF Sound
  <2>2. /\ Deleted(S) \in SUBSET Promise
        /\ \A m \in Deleted(S) : /\ m.what = "deleted" /\ m.logical \in S
                                 /\ m.after = Len(state.revisions[m.logical])
    BY <2>1 DEF Deleted, Promise
  <2>3. /\ r \in Request /\ Needed(r) = {} /\ r.promise = Deleted(S)
    BY <2>2, BoundsAssumption DEF Request, None, Needed, WebRequest
  <2> HIDE DEF s, r
  <2>4. \A m \in r.promise : KeptFirmly(s, m)
    BY <1>1, <2>1, <2>2, <2>3 DEF KeptFirmly, Kept
  <2> QED BY <2>3, <2>4 DEF RequestOK
<1>3. RecordsOK(stored, records') /\ held' \in [Devices -> Cards]
  BY DEF IInv
<1>4. r.step # "import"
  BY DEF WebRequest
<1>5. RebuildAndPersist(s, FALSE, FALSE, requests, r)
  OBVIOUS
<1> HIDE DEF r, s
<1>6. IInv' /\ Ahead(stored', stored) /\ state'.tombstone = s.tombstone
  BY <1>1, <1>2, <1>3, <1>4, <1>5, RebuildKeeps
<1>7. \A l \in Logicals : ~NewlyActive(l)
  BY <1>1, <1>6 DEF NewlyActive, Tombstoned
<1>8. \A d \in Devices, k \in Scopes \X Logicals :
        ~(state'.tombstone[k] = d /\ state.tombstone[k] # d)
  <2>1. s.tombstone = [k \in Scopes \X Logicals |->
           IF k[2] \in S /\ k[1] = Home[k[2]] THEN Operator ELSE state.tombstone[k]]
    BY <1>1 DEF s, Tombstone, Sound, State
  <2> QED BY <1>6, <2>1, ActorsAssumption
<1> QED BY <1>6, <1>7, <1>8 DEF ChangesTombstones

LEMMA SameTombstones ==
  ASSUME state'.tombstone = state.tombstone
  PROVE  ChangesTombstones
BY DEF ChangesTombstones, NewlyActive, Tombstoned

LEMMA RollbackLogicalSaveKeeps ==
  ASSUME IInv, NEW p \in Profiles, NEW n \in Rebuilds, NEW l \in Logicals,
         NEW i \in DOMAIN state.revisions[l], RollbackLogicalSave(p, n, l, i)
  PROVE  IInv' /\ Ahead(stored', stored) /\ ChangesTombstones
<1> DEFINE content == state.revisions[l][i]
           revs == Append(state.revisions[l], content)
           s == [state EXCEPT !.revisions[l] = Append(@, content)]
           promise == Promoted([k \in {l} |-> content])
           r == WebRequest(p, FALSE, promise)
<1>1. state \in State /\ Sound(state)
  BY DEF IInv, Sound
<1>2. state.revisions[l] \in Seq(Contents) /\ content \in Contents
  BY <1>1, RevisionsOf DEF Revised
<1>3. /\ revs \in Seq(Contents) /\ Len(revs) = Len(state.revisions[l]) + 1
      /\ {revs[j] : j \in DOMAIN revs} = Revised(state, l) \cup {content}
  <2> HIDE DEF content
  <2> QED BY <1>2, AppendedRevision DEF Revised
<1>4. s = [state EXCEPT !.revisions = [@ EXCEPT ![l] = revs]]
  OBVIOUS
<1>5. /\ HasRoom /\ Len(state.revisions[l]) < MaxRevisions
      /\ RebuildAndPersist(s, TRUE, FALSE, requests, r)
      /\ UNCHANGED <<records, held>>
  BY DEF RollbackLogicalSave
<1>6. promise \in SUBSET Promise
      /\ \A m \in promise : m.what = "promoted" /\ m.logical = l /\ m.content = content
  <2> HIDE DEF content
  <2> QED BY <1>2 DEF Promoted, Promise
<1>7. /\ r \in Request /\ Needed(r) = {} /\ r.promise = promise /\ r.step # "import"
  <2> HIDE DEF promise
  <2> QED BY <1>6, BoundsAssumption DEF Request, None, Needed, WebRequest
<1> HIDE DEF revs, s, promise, r, content
<1>8. /\ s \in State /\ s.tombstone = state.tombstone /\ s.projections = state.projections
      /\ s.revisions[l] = revs
      /\ \A k \in Logicals \ {l} : s.revisions[k] = state.revisions[k]
  <2>1. state.revisions \in [Logicals -> Seq(Contents)]
    BY <1>1 DEF State
  <2>2. [state.revisions EXCEPT ![l] = revs] \in [Logicals -> Seq(Contents)]
    BY <1>3, <2>1
  <2>3. /\ s \in State /\ s.tombstone = state.tombstone /\ s.projections = state.projections
        /\ s.revisions = [state.revisions EXCEPT ![l] = revs]
    BY <1>1, <1>4, <2>2 DEF State
  <2> QED BY <2>1, <2>3
<1>9. \A k \in Logicals : Len(state.revisions[k]) \in Nat
  BY <1>1, RevisionsOf
<1>10. Sound(s)
  <2>1. Len(s.revisions[l]) <= MaxRevisions
    BY <1>3, <1>5, <1>8, <1>9, BoundsAssumption
  <2> QED BY <1>1, <1>8, <2>1 DEF Sound
<1>11. Revised(s, l) = Revised(state, l) \cup {content}
  BY <1>3, <1>8 DEF Revised
<1>12. Ahead(s, state)
  <2>1. AheadOf(s, state, l)
    BY <1>3, <1>8, <1>9, <1>11 DEF AheadOf, Tombstoned
  <2>2. \A k \in Logicals \ {l} : AheadOf(s, state, k)
    BY <1>8, <1>9 DEF AheadOf, Tombstoned, Revised
  <2> QED BY <1>8, <2>1, <2>2 DEF Ahead, Has
<1>13. RequestOK(s, r)
  <2>1. \A m \in r.promise : KeptFirmly(s, m)
    BY <1>6, <1>7, <1>11 DEF KeptFirmly, Kept
  <2> QED BY <1>7, <2>1 DEF RequestOK
<1>14. RecordsOK(stored, records') /\ held' \in [Devices -> Cards]
  BY <1>5 DEF IInv
<1>15. IInv' /\ Ahead(stored', stored) /\ state'.tombstone = s.tombstone
  BY <1>5, <1>7, <1>10, <1>12, <1>13, <1>14, RebuildKeeps
<1> QED BY <1>8, <1>15, SameTombstones

LEMMA RepairKeeps ==
  ASSUME IInv, NEW r \in requests, Repair(r)
  PROVE  IInv' /\ Ahead(stored', stored) /\ ChangesTombstones
<1>1. /\ Sound(state) /\ state \in State /\ stored \in State
      /\ Ahead(state, stored) /\ Ahead(state, state)
  BY AheadOfItself DEF IInv, Sound
<1>2. RequestOK(state, r)
  BY <1>1, RequestStaysOK DEF IInv
<1>3. r.step # "import" /\ RebuildAndPersist(state, TRUE, TRUE, requests \ {r}, r)
  BY DEF Repair, ForceRebuildProjectionLine
<1>4. RecordsOK(stored, records') /\ held' \in [Devices -> Cards]
  BY DEF IInv, Repair
<1>5. requests \ {r} \in SUBSET requests
  OBVIOUS
<1>6. IInv' /\ Ahead(stored', stored) /\ state'.tombstone = state.tombstone
  BY <1>1, <1>2, <1>3, <1>4, <1>5, RebuildKeeps
<1> QED BY <1>6, SameTombstones

\* Steps that leave memory as it is.
LEMMA UnchangedStateKeeps ==
  ASSUME IInv, state' = state, stored' = state \/ stored' = stored,
         \A r \in requests' : r \in requests \/ RequestOK(stored, r),
         RecordsOK(stored, records'), UNCHANGED held, UNCHANGED faults \/ Fault
  PROVE  IInv' /\ Ahead(stored', stored) /\ ChangesTombstones
<1>1. Sound(state) /\ Ahead(state, state)
  BY AheadOfItself DEF IInv, Sound
<1>2. faults' \in 0 .. MaxFaults /\ (faults' = 0 => faults = 0 /\ Shown(state))
  BY BoundsAssumption DEF IInv, Fault
<1>3. held' \in [Devices -> Cards]
  BY DEF IInv
<1>4. IInv' /\ Ahead(stored', stored)
  BY <1>1, <1>2, <1>3, MovingOn
<1> QED BY <1>4, SameTombstones

LEMMA RequestLatestKeeps ==
  ASSUME IInv, NEW p \in Profiles, RequestLatest(p)
  PROVE  IInv' /\ Ahead(stored', stored) /\ ChangesTombstones
<1> DEFINE r == [step |-> "repair", line |-> p, todo |-> {}, at |-> None, base |-> None,
                 own |-> FALSE, promise |-> {}]
<1>1. RequestOK(stored, r)
  BY BoundsAssumption DEF RequestOK, Request, Needed, None
<1>2. requests' = requests \cup {r} /\ UNCHANGED <<state, stored, records, held, faults>>
  BY DEF RequestLatest
<1> HIDE DEF r
<1> QED BY <1>1, <1>2, UnchangedStateKeeps DEF IInv

LEMMA RollbackProjectionKeeps ==
  ASSUME IInv, NEW p \in Profiles, NEW n \in Rebuilds, RollbackProjection(p, n)
  PROVE  IInv' /\ Ahead(stored', stored) /\ ChangesTombstones
<1> DEFINE r == [step |-> "import", line |-> p, todo |-> {}, at |-> n, base |-> state.latest[p],
                 own |-> FALSE, promise |-> {}]
<1>1. Has(stored, p, n)
  BY DEF IInv, RecordsOK, RollbackProjection
<1>2. RequestOK(stored, r)
  <2>1. n \in 0 .. MaxRebuilds /\ state.latest[p] \in 0 .. MaxRebuilds
    BY BoundsAssumption DEF IInv, Sound, State, Rebuilds
  <2>2. r \in Request /\ Needed(r) = {p} /\ r.at = n /\ r.promise = {}
    BY <2>1 DEF Request, Needed
  <2> HIDE DEF r
  <2> QED BY <1>1, <2>2 DEF RequestOK
<1>3. /\ requests' = requests \cup {r} /\ UNCHANGED <<state, records, held>>
      /\ (stored' = state \/ UNCHANGED stored) /\ (UNCHANGED faults \/ Fault)
  BY DEF RollbackProjection
<1> HIDE DEF r
<1> QED BY <1>2, <1>3, UnchangedStateKeeps DEF IInv

LEMMA LookupKeeps ==
  ASSUME IInv, NEW r \in requests, Lookup(r)
  PROVE  IInv' /\ Ahead(stored', stored) /\ ChangesTombstones
<1>1. UNCHANGED <<state, stored, records, held, faults>>
  BY DEF Lookup
<1>2. RequestOK(stored, r) /\ requests \ {r} \in SUBSET requests /\ r.step = "lookup"
  BY DEF IInv, Lookup
<1>3. CASE Proceed(requests \ {r}, [r EXCEPT !.own = TRUE])
  <2> DEFINE q == [r EXCEPT !.own = TRUE]
  <2>1. RequestOK(stored, q)
    BY <1>2 DEF RequestOK, Request, Needed
  <2>2. stored \in State /\ Ahead(stored, stored)
    BY AheadOfItself DEF IInv, Sound
  <2> HIDE DEF q
  <2>3. \A m \in requests' : RequestOK(stored, m)
    BY <1>2, <1>3, <2>1, <2>2, ProceedKeeps DEF q
  <2> QED BY <1>1, <2>3, UnchangedStateKeeps DEF IInv
<1>4. CASE requests' = (requests \ {r}) \cup {[r EXCEPT !.step = "repair"]}
  <2> DEFINE q == [r EXCEPT !.step = "repair"]
  <2>1. RequestOK(stored, q)
    BY <1>2 DEF RequestOK, Request, Needed
  <2> HIDE DEF q
  <2> QED BY <1>1, <1>4, <2>1, UnchangedStateKeeps DEF IInv, q
<1> QED BY <1>3, <1>4 DEF Lookup

LEMMA AnswerKeeps ==
  ASSUME IInv, NEW r \in requests, Answer(r)
  PROVE  IInv' /\ Ahead(stored', stored) /\ ChangesTombstones
BY UnchangedStateKeeps DEF IInv, Answer

LEMMA LoseRecordKeeps ==
  ASSUME IInv, NEW p \in Profiles, NEW n \in Rebuilds, LoseRecord(p, n)
  PROVE  IInv' /\ Ahead(stored', stored) /\ ChangesTombstones
<1>1. RecordsOK(stored, records')
  BY DEF IInv, RecordsOK, LoseRecord
<1> QED BY <1>1, UnchangedStateKeeps DEF LoseRecord

LEMMA DownloadKeeps ==
  ASSUME IInv, NEW d \in Devices, NEW n \in Rebuilds, Download(d, n)
  PROVE  IInv' /\ Ahead(stored', stored) /\ ChangesTombstones
<1> DEFINE p == ProfileOf[d]
           s == MarkProjectionDownloaded(state, d)
           received == [held EXCEPT ![d] = state.projections[p][n].card]
<1>1. p \in Profiles /\ state \in State /\ Sound(state) /\ Has(state, p, n)
  BY ProfilesAssumption DEF IInv, Sound, Ahead, RecordsOK, Download
<1>2. received \in [Devices -> Cards]
  <2>1. state.projections[p][n] \in Projection
    BY <1>1 DEF Has, State
  <2>2. state.projections[p][n].card \in Cards
    BY <2>1 DEF Projection
  <2> QED BY <2>2 DEF IInv
<1>3. /\ state' = s /\ (stored' = s \/ stored' = stored) /\ (held' = received \/ held' = held)
      /\ UNCHANGED faults \/ Fault
      /\ UNCHANGED <<records, requests>>
  BY DEF Download
<1>4. /\ s \in State /\ s.revisions = state.revisions /\ s.tombstone = state.tombstone
      /\ s.projections = state.projections /\ s.latest = state.latest
  <2>1. [state.baseline EXCEPT ![d] = state.latest[p]] \in [Devices -> 0 .. MaxRebuilds]
    BY <1>1 DEF State
  <2> QED BY <1>1, <2>1 DEF State, MarkProjectionDownloaded
<1> HIDE DEF s, received, p
<1>5. Sound(s) /\ Ahead(s, state)
  BY <1>1, <1>4, SameRevisions, RevisionsOf DEF Sound, Ahead, AheadOf, Has, Tombstoned
<1>6. Shown(state) => Shown(s)
  BY <1>1, <1>4, SameCards DEF Shown, UpToDate, Tombstoned
<1>7. faults' \in 0 .. MaxFaults /\ (faults' = 0 => faults = 0 /\ Shown(s))
  BY <1>3, <1>6, BoundsAssumption DEF IInv, Fault
<1>8. RecordsOK(stored, records') /\ held' \in [Devices -> Cards]
  BY <1>2, <1>3 DEF IInv
<1>9. IInv' /\ Ahead(stored', stored)
  BY <1>3, <1>5, <1>7, <1>8, MovingOn
<1> QED BY <1>3, <1>4, <1>9, SameTombstones

LEMMA MaterializeKeeps ==
  ASSUME IInv, NEW r \in requests, Materialize(r)
  PROVE  IInv' /\ Ahead(stored', stored) /\ ChangesTombstones
<1>1. PICK p \in r.todo :
        /\ r.step = "materialize"
        /\ \/ /\ records' = records \cup {<<p, r.at>>}
              /\ Persist([state EXCEPT !.projections[p][r.at].saved = TRUE], requests \ {r},
                         [r EXCEPT !.todo = @ \ {p}, !.own = @ \/ p = r.line])
           \/ Fault /\ Fail(requests \ {r}) /\ UNCHANGED <<state, records>>
        /\ UNCHANGED held
  BY DEF Materialize
<1>2. /\ RequestOK(stored, r) /\ state \in State /\ stored \in State /\ Sound(state)
      /\ Ahead(state, stored)
  BY DEF IInv, Sound
<1>3. p \in Profiles /\ r.at \in Rebuilds /\ Has(stored, p, r.at) /\ Has(state, p, r.at)
  BY <1>2 DEF RequestOK, Request, Needed, Ahead
<1>4. CASE Fault /\ Fail(requests \ {r}) /\ UNCHANGED <<state, records>>
  BY <1>1, <1>4, UnchangedStateKeeps DEF IInv, Fail
<1>5. ASSUME records' = records \cup {<<p, r.at>>},
             Persist([state EXCEPT !.projections[p][r.at].saved = TRUE], requests \ {r},
                     [r EXCEPT !.todo = @ \ {p}, !.own = @ \/ p = r.line])
      PROVE  IInv' /\ Ahead(stored', stored) /\ ChangesTombstones
  <2> DEFINE n == r.at
             named == [state.projections[p][n] EXCEPT !.saved = TRUE]
             projections == [state.projections EXCEPT ![p] = [@ EXCEPT ![n] = named]]
             s == [state EXCEPT !.projections = projections]
             q == [r EXCEPT !.todo = @ \ {p}, !.own = @ \/ p = r.line]
  <2>1. [state EXCEPT !.projections[p][r.at].saved = TRUE] = s
    OBVIOUS
  <2>2. named \in Projection /\ named.card = state.projections[p][n].card
    <3>1. state.projections[p][n] \in Projection
      BY <1>2, <1>3 DEF Has, State
    <3> QED BY <3>1 DEF Projection
  <2> HIDE DEF named
  <2>3. /\ projections \in [Profiles -> [Rebuilds -> Projection \cup {Absent}]]
        /\ projections[p][n] = named
        /\ \A u \in Profiles, m \in Rebuilds : u # p \/ m # n
             => projections[u][m] = state.projections[u][m]
    <3>1. state.projections \in [Profiles -> [Rebuilds -> Projection \cup {Absent}]]
      BY <1>2 DEF State
    <3> QED BY <1>3, <2>2, <3>1
  <2>4. \A u \in Profiles, m \in Rebuilds : projections[u][m].card = state.projections[u][m].card
    BY <2>2, <2>3
  <2>5. \A u \in Profiles, m \in Rebuilds :
          state.projections[u][m] # Absent => projections[u][m] # Absent
    BY <2>2, <2>3, AbsentIsNoProjection
  <2> HIDE DEF projections
  <2>6. /\ s \in State /\ s.revisions = state.revisions /\ s.tombstone = state.tombstone
        /\ s.projections = projections /\ s.latest = state.latest
    BY <1>2, <2>3 DEF State
  <2> HIDE DEF s, n
  <2>7. Sound(s) /\ Ahead(s, state)
    BY <1>2, <2>5, <2>6, SameRevisions, RevisionsOf
       DEF Sound, Ahead, AheadOf, Has, Tombstoned
  <2>8. Shown(state) => Shown(s)
    <3>1. \A u \in Profiles : ProjectionCard(s, u) = ProjectionCard(state, u)
      BY <1>2, <2>6, SameCards DEF Tombstoned
    <3>2. \A u \in Profiles : state.latest[u] # None => state.latest[u] \in Rebuilds
      BY <1>2, BoundsAssumption DEF State, Rebuilds, None
    <3> QED BY <2>4, <2>6, <3>1, <3>2 DEF Shown, UpToDate
  <2>9. RequestOK(s, q)
    <3>1. Ahead(s, stored)
      BY <1>2, <2>6, <2>7, AheadIsTransitive
    <3>2. RequestOK(s, r)
      BY <1>2, <2>6, <3>1, RequestStaysOK
    <3>3. /\ q \in Request /\ q.todo = r.todo \ {p} /\ q.promise = r.promise
          /\ q.step = r.step /\ q.at = r.at
      <4>1. r \in Request /\ (r.own \/ p = r.line) \in BOOLEAN
        BY <1>2 DEF RequestOK
      <4> QED BY <4>1 DEF Request
    <3> HIDE DEF q
    <3> QED BY <1>1, <3>2, <3>3 DEF RequestOK, Needed
  <2>10. RecordsOK(stored, records') /\ held' \in [Devices -> Cards]
    BY <1>1, <1>3, <1>5 DEF IInv, RecordsOK
  <2>11. Persist(s, requests \ {r}, q) /\ requests \ {r} \in SUBSET requests
    BY <1>5, <2>1 DEF s
  <2> HIDE DEF q
  <2>12. faults = 0 => Shown(s)
    BY <2>8 DEF IInv
  <2>13. IInv' /\ Ahead(stored', stored)
    BY <2>7, <2>9, <2>10, <2>11, <2>12, PersistKeeps
  <2>14. state' = s
    BY <2>11 DEF Persist
  <2> QED BY <2>6, <2>13, <2>14, SameTombstones
<1> QED BY <1>1, <1>4, <1>5

\* Memory goes back to the file, and no request is left to be answered.
LEMMA RestartKeeps ==
  ASSUME IInv, Restart
  PROVE  IInv' /\ Ahead(stored', stored)
<1>1. /\ state' = stored /\ stored' = stored /\ requests' = {}
      /\ UNCHANGED <<records, held, faults>>
  BY DEF Restart
<1>2. Sound(stored) /\ Ahead(stored, stored)
  BY AheadOfItself DEF IInv, Sound
<1>3. Sound(state)' /\ Sound(stored)'
  BY <1>1, <1>2 DEF Sound
<1>4. Ahead(stored', stored) /\ Ahead(state', stored')
  BY <1>1, <1>2
<1>5. Ahead(state, stored)'
  BY <1>4 DEF Ahead, AheadOf, Has, Revised, Tombstoned
<1>6. RecordsOK(stored, records)'
  BY <1>1 DEF IInv, RecordsOK, Has
<1>7. (faults = 0 => Shown(state) /\ Shown(stored))'
  <2>1. faults' = 0 => Shown(stored') /\ Shown(state')
    BY <1>1 DEF IInv
  <2>2. Shown(state') => Shown(state)'
    BY DEF Shown, UpToDate, ProjectionCard, Fitting, ActiveLogicalSaves, Tombstoned,
           LatestRevision
  <2>3. Shown(stored') => Shown(stored)'
    BY DEF Shown, UpToDate, ProjectionCard, Fitting, ActiveLogicalSaves, Tombstoned,
           LatestRevision
  <2> QED BY <2>1, <2>2, <2>3
<1> QED BY <1>1, <1>3, <1>4, <1>5, <1>6, <1>7 DEF IInv

LEMMA DeletionsKeep ==
  ASSUME IInv, NEW p \in Profiles,
         \/ DeleteProjection(p)
         \/ \E n \in Rebuilds, l \in Logicals : DeleteLogicalSave(p, n, l)
  PROVE  IInv' /\ Ahead(stored', stored) /\ ChangesTombstones
<1>1. CASE DeleteProjection(p)
  <2>1. ActiveLogicalSaves(state, p) \in SUBSET Logicals
    BY DEF ActiveLogicalSaves
  <2> QED BY <1>1, <2>1, DeleteKeeps DEF DeleteProjection
<1>2. ASSUME NEW n \in Rebuilds, NEW l \in Logicals, DeleteLogicalSave(p, n, l)
      PROVE  IInv' /\ Ahead(stored', stored) /\ ChangesTombstones
  <2>1. {l} \in SUBSET Logicals
    OBVIOUS
  <2> QED BY <1>2, <2>1, DeleteKeeps DEF DeleteLogicalSave
<1> QED BY <1>1, <1>2

LEMMA InitIsOK == Init => IInv
<1> SUFFICES ASSUME Init PROVE IInv
  OBVIOUS
<1>1. EmptyState \in State
  BY BoundsAssumption DEF EmptyState, State, None, Rebuilds
<1>2. \A l \in Logicals : EmptyState.revisions[l] = << >>
  BY DEF EmptyState
<1>3. Sound(EmptyState) /\ Ahead(EmptyState, EmptyState)
  BY <1>1, <1>2, AheadOfItself, BoundsAssumption DEF Sound
<1>4. Shown(EmptyState)
  BY DEF Shown, EmptyState
<1>5. RecordsOK(EmptyState, {})
  BY DEF RecordsOK
<1>6. held \in [Devices -> Cards]
  <2>1. EmptyCard \in [{} -> Contents] /\ {} \in SUBSET Logicals
    BY DEF EmptyCard
  <2>2. EmptyCard \in Cards
    BY <2>1 DEF Cards
  <2> QED BY <2>2 DEF Init
<1> HIDE DEF EmptyState
<1> QED BY <1>3, <1>4, <1>5, <1>6, BoundsAssumption DEF Init, IInv

LEMMA StepKeeps ==
  ASSUME IInv, [Next]_vars
  PROVE  /\ IInv' /\ Ahead(stored', stored)
         /\ state' = stored \/ ChangesTombstones
<1>1. CASE \E d \in Devices, card \in Cards : Upload(d, card)
  BY <1>1, UploadKeeps
<1>2. CASE \E d \in Devices, n \in Rebuilds : Download(d, n)
  BY <1>2, DownloadKeeps
<1>3. CASE \E p \in Profiles :
             \/ RequestLatest(p)
             \/ \E n \in Rebuilds : RollbackProjection(p, n) \/ LoseRecord(p, n)
  BY <1>3, RequestLatestKeeps, RollbackProjectionKeeps, LoseRecordKeeps
<1>4. CASE \E p \in Profiles :
             \/ DeleteProjection(p)
             \/ \E n \in Rebuilds, l \in Logicals : DeleteLogicalSave(p, n, l)
  BY <1>4, DeletionsKeep
<1>5. CASE \E p \in Profiles, n \in Rebuilds, l \in Logicals :
             \E i \in DOMAIN state.revisions[l] : RollbackLogicalSave(p, n, l, i)
  BY <1>5, RollbackLogicalSaveKeeps
<1>6. CASE \E r \in requests : ImportForRollback(r)
  BY <1>6, ImportForRollbackKeeps
<1>7. CASE \E r \in requests : Materialize(r)
  BY <1>7, MaterializeKeeps
<1>8. CASE \E r \in requests : Lookup(r)
  BY <1>8, LookupKeeps
<1>9. CASE \E r \in requests : Repair(r)
  BY <1>9, RepairKeeps
<1>10. CASE \E r \in requests : Answer(r)
  BY <1>10, AnswerKeeps
<1>11. CASE Restart
  <2>1. state' = stored
    BY <1>11 DEF Restart
  <2> QED BY <1>11, <2>1, RestartKeeps
<1>12. CASE UNCHANGED vars
  <2>1. UNCHANGED <<state, stored, records, requests, held, faults>>
    BY <1>12 DEF vars
  <2> QED BY <2>1, UnchangedStateKeeps DEF IInv
<1> QED BY <1>1, <1>2, <1>3, <1>4, <1>5, <1>6, <1>7, <1>8, <1>9, <1>10, <1>11, <1>12 DEF Next
-----------------------------------------------------------------------------
(***************************************************************************)
(* Theorems.                                                               *)
(***************************************************************************)
\* Memory is ahead of the file, and the file has whatever requests and
\* records depend on (playStationStore, persistLocked).
THEOREM MemoryIsAheadOfTheFile == Spec => []IInv
<1>1. IInv /\ [Next]_vars => IInv'
  BY StepKeeps
<1> QED BY <1>1, InitIsOK, PTL DEF Spec

LEMMA IInvImpliesTypeOK == IInv => TypeOK
BY DEF IInv, TypeOK, Sound, RecordsOK, RequestOK

LEMMA IInvImpliesPromisesAreKept == IInv => PromisesAreKept
BY DEF IInv, PromisesAreKept, RequestOK, KeptFirmly

LEMMA IInvImpliesRecords == IInv => RecordsAreOfStoredProjections
BY DEF IInv, RecordsAreOfStoredProjections, RecordsOK, Has

LEMMA IInvImpliesLatestShowsActiveSaves == IInv => LatestShowsActiveSaves
BY DEF IInv, LatestShowsActiveSaves, Shown

\* Every revision list, tombstone, projection, record and request of a slot
\* keeps its type (playStationState).
THEOREM TypeIsKept == Spec => []TypeOK
BY MemoryIsAheadOfTheFile, IInvImpliesTypeOK, PTL

\* What a request may still be answered for is in the file: uploaded and
\* promoted contents among the revisions, deleted saves tombstoned, unless a
\* later revision brought them back (importMemoryCard, persistLocked).
THEOREM RequestsKeepTheirPromises == Spec => []PromisesAreKept
BY MemoryIsAheadOfTheFile, IInvImpliesPromisesAreKept, PTL

\* Every record that can be downloaded is of a projection in the file, so a
\* restart still knows it (materializePlayStationProjections).
THEOREM RecordsSurviveARestart == Spec => []RecordsAreOfStoredProjections
BY MemoryIsAheadOfTheFile, IInvImpliesRecords, PTL

\* While nothing has failed, each line's latest projection is the card of its
\* active saves (rebuildProjectionLines).
THEOREM LatestProjectionsAreUpToDate == Spec => []LatestShowsActiveSaves
BY MemoryIsAheadOfTheFile, IInvImpliesLatestShowsActiveSaves, PTL

\* A write of the file never loses a revision, nor brings a deleted save back
\* without contents it never had, whatever failed before (persistLocked).
THEOREM TheFileLosesNothing == Spec => StoredForGood
<1>1. ASSUME IInv, [Next]_vars, NEW l \in Logicals
      PROVE  /\ Revised(stored, l) \subseteq Revised(stored', l)
             /\ Tombstoned(stored, l) /\ ~Tombstoned(stored', l)
                  => /\ Len(stored'.revisions[l]) > Len(stored.revisions[l])
                     /\ Revised(stored', l) # Revised(stored, l)
  <2>1. AheadOf(stored', stored, l) /\ stored \in State /\ IInv'
    BY <1>1, StepKeeps DEF Ahead, IInv, Sound
  <2>2. stored' \in State
    BY <2>1 DEF IInv, Sound
  <2>3. Len(stored.revisions[l]) \in Nat /\ Len(stored'.revisions[l]) \in Nat
    BY <2>1, <2>2, RevisionsOf
  <2> QED BY <2>1, <2>3 DEF AheadOf
<1>2. IInv /\ [Next]_vars =>
        [\A l \in Logicals :
           /\ Revised(stored, l) \subseteq Revised(stored', l)
           /\ Tombstoned(stored, l) /\ ~Tombstoned(stored', l)
                => /\ Len(stored'.revisions[l]) > Len(stored.revisions[l])
                   /\ Revised(stored', l) # Revised(stored, l)]_vars
  BY <1>1
<1> QED BY <1>2, MemoryIsAheadOfTheFile, PTL DEF Spec, StoredForGood

\* A deleted save is active again only with contents the server never had, or
\* because a restart undid what was not written (importMemoryCard, load).
THEOREM OnlyNewContentsRevive == Spec => DeletedSavesStayDeleted
<1>1. IInv /\ [Next]_vars =>
        [\A l \in Logicals :
           Tombstoned(state, l) /\ ~Tombstoned(state', l)
             => state' = stored \/ LatestRevision(state', l) \notin Revised(state, l)]_vars
  BY StepKeeps DEF ChangesTombstones, NewlyActive
<1> QED BY <1>1, MemoryIsAheadOfTheFile, PTL DEF Spec, DeletedSavesStayDeleted

\* While nothing has failed, a device that received its baseline removes saves
\* it received only, at the revision it received (importMemoryCard).
THEOREM RemovalsAreOfWhatWasReceived == Spec => RemovalsMatchDownloads
<1>1. ASSUME IInv, [Next]_vars, NEW d \in Devices, faults = 0, WasServedItsBaseline(d),
             state' # stored
      PROVE  RemovesOnly(d, held[d])
  <2> DEFINE p == ProfileOf[d]
             shown == state.projections[p][state.baseline[d]]
  <2> SUFFICES ASSUME NEW k \in Scopes \X Logicals,
                      state'.tombstone[k] = d, state.tombstone[k] # d
               PROVE  k[2] \in DOMAIN held[d] /\ held[d][k[2]] = LatestRevision(state, k[2])
    BY DEF RemovesOnly
  <2>1. ListedForRemoval(d, k[2])
    BY <1>1, StepKeeps DEF ChangesTombstones
  <2>2. p \in Profiles /\ Shown(state)
    BY <1>1, ProfilesAssumption DEF IInv
  <2>3. shown.card = ProjectionCard(state, p)
    BY <2>1, <2>2 DEF Shown, UpToDate, ListedForRemoval
  <2>4. held[d] = ProjectionCard(state, p) /\ k[2] \in DOMAIN held[d]
    BY <1>1, <2>1, <2>3 DEF WasServedItsBaseline, ListedForRemoval
  <2> QED BY <2>4 DEF ProjectionCard
<1>2. IInv /\ [Next]_vars =>
        [\A d \in Devices : (faults = 0 /\ WasServedItsBaseline(d))
           => state' = stored \/ RemovesOnly(d, held[d])]_vars
  BY <1>1
<1> QED BY <1>2, MemoryIsAheadOfTheFile, PTL DEF Spec, RemovalsMatchDownloads
=============================================================================
