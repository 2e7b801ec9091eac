---- MODULE MaintenanceProofs ----
(***************************************************************************)
(* The work on the saves besides the upload of one, for any number of      *)
(* saves, contents, items and entries: the layout commands, the            *)
(* quarantine, lists of uploads and the rescan.                            *)
(*                                                                         *)
(* Layout: a rollback has taken back the moves at the end of the manifest, *)
(* in order, and has those at the beginning to do (RollbackOK).            *)
(*                                                                         *)
(* Quarantine: what was rejected is filed, stored, or in the hands of a    *)
(* handler whose next steps will file it (Secure).                         *)
(*                                                                         *)
(* Lists of uploads: entries are looked at one after the other, each       *)
(* against what its predecessors left, so what is about to be created is   *)
(* not stored yet (CreatesAnew), and what the results say stays true       *)
(* (ResultIsTrue).                                                         *)
(*                                                                         *)
(* Rescan: the plan is made of a list that agrees with the files, and      *)
(* leaves a copy of every content that is owed (OwedIsKept); the numbers   *)
(* it writes are lower than those before them but keep their order, so     *)
(* that the order is there after every single write (Lowering).            *)
(***************************************************************************)
EXTENDS LayoutMigration, Quarantine, BulkUpload, SaveCleanup,
        FiniteSetTheorems, SequenceTheorems, WellFoundedInduction, TLAPS

\* The save of move i is where it was, unless a server filed it elsewhere.
TakenBack(i) ==
    LET s == manifest[i].save IN home[s] = before[s] \/ Retitled(s)

ManifestOK ==
    /\ \A i, j \in 1..Len(manifest) : manifest[i].save = manifest[j].save => i = j
    /\ \A i \in 1..Len(manifest) :
          /\ manifest[i].from = before[manifest[i].save]
          /\ manifest[i].from # manifest[i].to

\* What is left to move is in the manifest.
MigrationOK ==
    command = "migrate" =>
        /\ ~restored
        /\ \A j \in 1..Len(movesLeft) : \E i \in 1..Len(manifest) : movesLeft[j] = manifest[i]

\* What is left to take back is the beginning of the manifest, last move first.
RollbackOK ==
    command = "rollback" =>
        /\ Len(movesLeft) <= Len(manifest)
        /\ \A j \in 1..Len(movesLeft) :
             LET m == manifest[Len(movesLeft) + 1 - j]
             IN  movesLeft[j] = [save |-> m.save, from |-> m.to, to |-> m.from]
        /\ \A i \in 1..Len(manifest) : i > Len(movesLeft) => TakenBack(i)

LayoutInv ==
    /\ LayoutTypeOK
    /\ ManifestOK
    /\ command = "none" => movesLeft = <<>>
    /\ MigrationOK
    /\ RollbackOK
    /\ restored => \A i \in 1..Len(manifest) : TakenBack(i)
    /\ \A s \in Saves : Retitled(s) => home[s] = title[s]

----------------------------------------------------------------------------
\* A plan names each save once, and no move of it goes nowhere.
LEMMA PlansAreManifests ==
    ASSUME LayoutTypeOK, NEW plan \in Plans
    PROVE  /\ plan \in Seq(Move)
           /\ DOMAIN plan = 1..Len(plan)
           /\ \A i \in 1..Len(plan) : /\ plan[i].save \in Saves
                                      /\ plan[i].from = home[plan[i].save]
                                      /\ plan[i].from # plan[i].to
           /\ \A i, j \in 1..Len(plan) : plan[i].save = plan[j].save => i = j
<1> DEFINE moves == {[save |-> s, from |-> home[s], to |-> title[s]] : s \in Misfiled}
<1>1. Cardinality(Misfiled) \in Nat
  BY LayoutAssumption, FS_Subset, FS_CardinalityType DEF Misfiled
<1>2. plan \in [1..Cardinality(Misfiled) -> moves]
  BY DEF Plans
<1>3. \A m \in moves : /\ m \in Move /\ m.save \in Saves
                       /\ m.from = home[m.save] /\ m.from # m.to
  BY DEF Misfiled, Move, Places, LayoutTypeOK
<1>4. plan \in Seq(Move) /\ Len(plan) = Cardinality(Misfiled)
  BY <1>1, <1>2, <1>3
<1> QED
  BY <1>2, <1>3, <1>4 DEF Plans

\* A move of a save leaves the others of the manifest where they are, and the
\* save at a place the manifest names for it.
LEMMA MovesStayInTheManifest ==
    ASSUME LayoutInv, NEW k \in 1..Len(manifest), NEW m \in Move,
           m.save = manifest[k].save,
           {m.from, m.to} = {manifest[k].from, manifest[k].to},
           home' = IF home[m.save] = m.from
                   THEN [home EXCEPT ![m.save] = m.to] ELSE home,
           UNCHANGED <<title, manifest, before>>
    PROVE  /\ home' \in [Saves -> Places]
           /\ \A s \in Saves : Retitled(s)' <=> Retitled(s)
           /\ \A i \in 1..Len(manifest) : i # k => (TakenBack(i)' <=> TakenBack(i))
           /\ \A s \in Saves : Retitled(s)' => home'[s] = title'[s]
<1>1. m.save \in Saves /\ m.to \in Places /\ home \in [Saves -> Places]
  BY DEF LayoutInv, LayoutTypeOK, Move
<1>2. home' \in [Saves -> Places] /\ \A s \in Saves \ {m.save} : home'[s] = home[s]
  BY <1>1
<1>3. \A i \in 1..Len(manifest) : manifest[i].save \in Saves
  <2>1. \A i \in 1..Len(manifest) : manifest[i] \in Move
    BY DEF LayoutInv, LayoutTypeOK
  <2> QED BY <2>1 DEF Move
<1>4. \A i \in 1..Len(manifest) : i # k => manifest[i].save # m.save
  BY DEF LayoutInv, ManifestOK
<1>5. home[m.save] # home'[m.save] =>
        /\ home[m.save] \in {manifest[k].from, manifest[k].to}
        /\ home'[m.save] \in {manifest[k].from, manifest[k].to}
  BY <1>1
<1>6. \A s \in Saves : Retitled(s)' <=> Retitled(s)
  <2> SUFFICES ASSUME NEW s \in Saves PROVE Retitled(s)' <=> Retitled(s)
    OBVIOUS
  <2>1. CASE s # m.save
    BY <2>1, <1>2 DEF Retitled
  <2>2. CASE s = m.save
    BY <2>2, <1>4, <1>5 DEF Retitled
  <2> QED BY <2>1, <2>2
<1>7. \A i \in 1..Len(manifest) : i # k => (TakenBack(i)' <=> TakenBack(i))
  BY <1>2, <1>3, <1>4, <1>6 DEF TakenBack
<1>8. \A s \in Saves : Retitled(s)' => home'[s] = title'[s]
  <2> SUFFICES ASSUME NEW s \in Saves, Retitled(s)' PROVE home'[s] = title[s]
    OBVIOUS
  <2>1. Retitled(s) /\ home[s] = title[s]
    BY <1>6 DEF LayoutInv
  <2>2. CASE s # m.save
    BY <2>1, <2>2, <1>2
  <2>3. CASE s = m.save
    BY <2>1, <2>3, <1>4, <1>5 DEF Retitled
  <2> QED BY <2>2, <2>3
<1> QED BY <1>2, <1>6, <1>7, <1>8

----------------------------------------------------------------------------
LEMMA LayoutInitIsSound == ASSUME LayoutInit PROVE LayoutInv
<1>1. manifest \in Seq(Move) /\ movesLeft \in Seq(Move) /\ Len(manifest) = 0
  BY DEF LayoutInit
<1>2. LayoutTypeOK
  <2>1. restored \in BOOLEAN
    BY Zenon DEF LayoutInit
  <2> QED BY <1>1, <2>1, LayoutAssumption DEF LayoutInit, LayoutTypeOK
<1> QED
  BY <1>1, <1>2 DEF LayoutInit, LayoutInv, ManifestOK, MigrationOK, RollbackOK, Retitled

LEMMA MigrateKeeps ==
    ASSUME LayoutInv, NEW dry \in BOOLEAN, Migrate(dry)
    PROVE  LayoutInv'
<1>1. PICK plan \in Plans : manifest' = plan
  BY DEF Migrate
<1>2. /\ plan \in Seq(Move)
      /\ \A i \in 1..Len(plan) : /\ plan[i].save \in Saves
                                 /\ plan[i].from = home[plan[i].save]
                                 /\ plan[i].from # plan[i].to
      /\ \A i, j \in 1..Len(plan) : plan[i].save = plan[j].save => i = j
  BY PlansAreManifests DEF LayoutInv
<1>3. LayoutTypeOK' /\ ManifestOK'
  BY <1>1, <1>2 DEF LayoutInv, LayoutTypeOK, ManifestOK, Migrate
<1>4. \A s \in Saves : ~Retitled(s)'
  BY <1>1, <1>2 DEF Retitled, Migrate
<1> QED
  BY <1>1, <1>2, <1>3, <1>4 DEF LayoutInv, MigrationOK, RollbackOK, Migrate

LEMMA RollbackLayoutKeeps == ASSUME LayoutInv, RollbackLayout PROVE LayoutInv'
<1>1. manifest \in Seq(Move) /\ Len(manifest) \in Nat
  BY DEF LayoutInv, LayoutTypeOK
<1>2. /\ movesLeft' = Reversed(manifest) /\ movesLeft' \in Seq(Move)
      /\ Len(movesLeft') = Len(manifest)
  <2>1. \A i \in 1..Len(manifest) : LET m == manifest[Len(manifest) + 1 - i]
          IN  [save |-> m.save, from |-> m.to, to |-> m.from] \in Move
    <3>1. \A i \in 1..Len(manifest) : manifest[Len(manifest) + 1 - i] \in Move
      BY <1>1
    <3> QED BY <3>1 DEF Move
  <2> QED BY <1>1, <2>1 DEF RollbackLayout, Reversed
<1>3. RollbackOK'
  BY <1>1, <1>2 DEF RollbackOK, Reversed, RollbackLayout
<1> QED
  BY <1>2, <1>3 DEF LayoutInv, LayoutTypeOK, ManifestOK, MigrationOK, TakenBack, Retitled, RollbackLayout

LEMMA ApplyMoveKeeps == ASSUME LayoutInv, ApplyMove PROVE LayoutInv'
<1> DEFINE m == Head(movesLeft)
<1>1. /\ movesLeft \in Seq(Move) /\ movesLeft # <<>> /\ m = movesLeft[1] /\ m \in Move
      /\ movesLeft' = Tail(movesLeft) /\ movesLeft' \in Seq(Move) /\ Len(movesLeft) \in Nat \ {0}
      /\ Len(movesLeft') = Len(movesLeft) - 1
      /\ \A j \in 1..Len(movesLeft') : j + 1 \in 1..Len(movesLeft) /\ movesLeft'[j] = movesLeft[j + 1]
  BY DEF LayoutInv, LayoutTypeOK, ApplyMove
<1>2. home' = IF home[m.save] = m.from THEN [home EXCEPT ![m.save] = m.to] ELSE home
  BY DEF ApplyMove
<1>3. UNCHANGED <<title, manifest, before, command, restored, retitled>>
  BY DEF ApplyMove
<1>4. manifest \in Seq(Move) /\ Len(manifest) \in Nat
  BY DEF LayoutInv, LayoutTypeOK
<1>5. CASE command = "migrate"
  <2>1. PICK k \in 1..Len(manifest) : m = manifest[k]
    BY <1>1, <1>5 DEF LayoutInv, MigrationOK
  <2>2. /\ home' \in [Saves -> Places]
        /\ \A s \in Saves : Retitled(s)' => home'[s] = title'[s]
    BY <1>1, <1>2, <1>3, <2>1, MovesStayInTheManifest
  <2>3. MigrationOK' /\ RollbackOK'
    BY <1>1, <1>3, <1>5 DEF LayoutInv, MigrationOK, RollbackOK
  <2> QED
    BY <1>1, <1>3, <1>5, <2>2, <2>3 DEF LayoutInv, LayoutTypeOK, ManifestOK, MigrationOK
<1>6. CASE command = "rollback"
  <2>0. PICK k \in Nat : k = Len(movesLeft)
    BY <1>1
  <2>1. /\ k \in 1..Len(manifest)
        /\ m = [save |-> manifest[k].save, from |-> manifest[k].to, to |-> manifest[k].from]
    <3>1. k \in 1..Len(manifest)
      BY <2>0, <1>1, <1>4, <1>6 DEF LayoutInv, RollbackOK
    <3>2. 1 \in 1..Len(movesLeft) /\ Len(movesLeft) + 1 - 1 = k
      BY <2>0, <1>1
    <3> HIDE DEF m
    <3>3. m = movesLeft[1]
      BY <1>1
    <3> QED BY <3>1, <3>2, <3>3, <1>6 DEF LayoutInv, RollbackOK
  <2>2. /\ m.save = manifest[k].save
        /\ m.from = manifest[k].to /\ m.to = manifest[k].from
    BY <2>1
  <2>3. /\ home' \in [Saves -> Places]
        /\ \A s \in Saves : Retitled(s)' <=> Retitled(s)
        /\ \A i \in 1..Len(manifest) : i # k => (TakenBack(i)' <=> TakenBack(i))
        /\ \A s \in Saves : Retitled(s)' => home'[s] = title'[s]
    <3> HIDE DEF m
    <3>1. {m.from, m.to} = {manifest[k].from, manifest[k].to}
      BY <2>2
    <3>2. m \in Move /\ k \in 1..Len(manifest) /\ m.save = manifest[k].save
      BY <1>1, <2>1, <2>2
    <3> QED BY <1>1, <1>2, <1>3, <3>1, <3>2, MovesStayInTheManifest
  <2>4. TakenBack(k)'
    <3>1. m.save \in Saves /\ home \in [Saves -> Places]
      BY <1>1 DEF Move, LayoutInv, LayoutTypeOK
    <3>2. before[m.save] = m.to
      BY <2>1, <2>2 DEF LayoutInv, ManifestOK
    <3> HIDE DEF m
    <3>3. CASE home[m.save] = m.from
      BY <3>1, <3>2, <3>3, <1>2, <1>3, <2>2 DEF TakenBack
    <3>4. CASE home[m.save] = m.to
      BY <3>1, <3>2, <3>4, <1>2, <1>3, <2>2 DEF TakenBack
    <3>5. CASE home[m.save] \notin {m.from, m.to}
      <4>1. Retitled(m.save)
        BY <3>5, <2>1, <2>2 DEF Retitled
      <4> QED BY <4>1, <3>1, <2>2, <2>3, <1>3 DEF TakenBack
    <3> QED BY <3>3, <3>4, <3>5
  <2>5. RollbackOK'
    <3>1. \A i \in 1..Len(manifest) : i > k - 1 => TakenBack(i)'
      <4> SUFFICES ASSUME NEW i \in 1..Len(manifest), i > k - 1 PROVE TakenBack(i)'
        OBVIOUS
      <4>1. CASE i = k
        BY <4>1, <2>4
      <4>2. CASE i # k
        BY <4>2, <2>0, <1>1, <1>6, <2>3 DEF LayoutInv, RollbackOK
      <4> QED BY <4>1, <4>2
    <3>2. \A j \in 1..Len(movesLeft') :
            LET n == manifest[Len(movesLeft') + 1 - j]
            IN  movesLeft'[j] = [save |-> n.save, from |-> n.to, to |-> n.from]
      <4> SUFFICES ASSUME NEW j \in 1..Len(movesLeft')
                   PROVE  LET n == manifest[Len(movesLeft') + 1 - j]
                          IN  movesLeft'[j] = [save |-> n.save, from |-> n.to, to |-> n.from]
        OBVIOUS
      <4>1. j + 1 \in 1..Len(movesLeft) /\ movesLeft'[j] = movesLeft[j + 1]
        BY <1>1
      <4>2. Len(movesLeft) + 1 - (j + 1) = Len(movesLeft') + 1 - j
        <5>1. j \in Nat /\ Len(movesLeft) \in Nat /\ Len(movesLeft') = Len(movesLeft) - 1
          BY <1>1
        <5> HIDE DEF m
        <5> QED BY <5>1
      <4> QED BY <4>1, <4>2, <1>6 DEF LayoutInv, RollbackOK
    <3> QED
      <4>1. Len(movesLeft') = k - 1 /\ Len(movesLeft') <= Len(manifest')
        BY <2>0, <1>1, <1>3, <1>4, <2>1
      <4> QED BY <4>1, <1>3, <3>1, <3>2 DEF RollbackOK
  <2>6. restored' => \A i \in 1..Len(manifest') : TakenBack(i)'
    <3> SUFFICES ASSUME restored, NEW i \in 1..Len(manifest) PROVE TakenBack(i)'
      BY <1>3
    <3>1. CASE i = k
      BY <3>1, <2>4
    <3>2. CASE i # k
      BY <3>2, <2>3 DEF LayoutInv
    <3> QED BY <3>1, <3>2
  <2> QED
    BY <1>1, <1>3, <1>6, <2>3, <2>5, <2>6 DEF LayoutInv, LayoutTypeOK, ManifestOK, MigrationOK
<1> QED BY <1>1, <1>5, <1>6 DEF LayoutInv, LayoutTypeOK

LEMMA CommandEndsKeeps == ASSUME LayoutInv, CommandEnds PROVE LayoutInv'
<1>1. restored' => \A i \in 1..Len(manifest) : TakenBack(i)
  BY DEF LayoutInv, RollbackOK, CommandEnds, LayoutTypeOK
<1> QED
  BY <1>1 DEF LayoutInv, LayoutTypeOK, ManifestOK, MigrationOK, RollbackOK, TakenBack, Retitled,
              CommandEnds

LEMMA CutShortKeeps == ASSUME LayoutInv, CutShort PROVE LayoutInv'
  BY DEF LayoutInv, LayoutTypeOK, ManifestOK, MigrationOK, RollbackOK, TakenBack, Retitled, CutShort

LEMMA RetitleKeeps ==
    ASSUME LayoutInv,
           NEW s \in Saves, NEW t \in Titles, Retitle(s, t)
    PROVE  LayoutInv'
<1>1. /\ home' = [home EXCEPT ![s] = t] /\ title' = [title EXCEPT ![s] = t]
      /\ home \in [Saves -> Places] /\ title \in [Saves -> Titles]
  BY DEF Retitle, LayoutInv, LayoutTypeOK
<1>2. \A r \in Saves : Retitled(r)' => home'[r] = title'[r]
  BY <1>1 DEF LayoutInv, Retitled, Retitle
<1>3. LayoutTypeOK'
  <2>1. restored' \in BOOLEAN
    BY Zenon DEF Retitle
  <2>2. t \in Places /\ home' \in [Saves -> Places] /\ title' \in [Saves -> Titles]
    BY <1>1 DEF Places
  <2> QED BY <2>1, <2>2, LayoutAssumption DEF LayoutInv, LayoutTypeOK, Retitle
<1> QED
  BY <1>2, <1>3 DEF LayoutInv, ManifestOK, MigrationOK, RollbackOK, Retitle

LEMMA LayoutStepKeeps ==
    ASSUME LayoutInv, [LayoutNext]_layoutVars
    PROVE  LayoutInv'
<1>1. CASE UNCHANGED layoutVars
  BY <1>1 DEF LayoutInv, LayoutTypeOK, ManifestOK, MigrationOK, RollbackOK, TakenBack, Retitled, layoutVars
<1> QED
  BY <1>1, MigrateKeeps, RollbackLayoutKeeps, ApplyMoveKeeps, CommandEndsKeeps, CutShortKeeps,
     RetitleKeeps DEF LayoutNext

\* The variables of the layout commands keep their types, for any finite set
\* of saves (save_layout_migration.go).
THEOREM LayoutIsTyped ==
    LayoutSpec => []LayoutTypeOK
<1>1. LayoutInv => LayoutTypeOK
  BY DEF LayoutInv
<1> QED BY <1>1, LayoutInitIsSound, LayoutStepKeeps, PTL DEF LayoutSpec

\* However often a migration and its rollbacks are cut short and tried again,
\* a rollback that goes through leaves every save of the manifest where it was
\* when the manifest was written, unless a server filed it elsewhere since; and
\* a save that is neither where it was nor where it was to go is where a server
\* put it (rollbackSaveLayout, applySaveLayoutMove).
THEOREM RollbackRestores ==
    LayoutSpec => []RollbackRestoresLayout
<1>1. LayoutInv => RollbackRestoresLayout
  BY DEF LayoutInv, RollbackRestoresLayout, TakenBack
<1> QED BY <1>1, LayoutInitIsSound, LayoutStepKeeps, PTL DEF LayoutSpec

----------------------------------------------------------------------------
\* The quarantine lists c.
Filed(c) == \E d \in Items : Listed(d) /\ item[d].sha = c

\* c is kept, or a handler is about to see to it.
Secure(c) ==
    \/ Filed(c) \/ c \in ToSet(stored)
    \/ \E h \in Handlers : Busy(h, {"make", "metadata"}) /\ job[h].sha = c
    \/ \E h \in Handlers : /\ Busy(h, {"update"}) /\ job[h].sha = c
                           /\ Exists(job[h].item)

\* The item a handler works on has its content, and is not made by two.
JobOK(h) ==
    LET d == job[h].item
    IN  /\ job[h] # IdleJob /\ Exists(d) => item[d].sha = job[h].sha
        /\ Busy(h, {"make"}) => ~Exists(d)
        /\ Busy(h, {"metadata"}) => Exists(d) /\ ~item[d].metadata
        /\ Busy(h, {"make", "metadata"}) =>
             \A n \in Handlers \ {h} : job[n] # IdleJob => job[n].item # d
        /\ Busy(h, {"remove"}) /\ job[h].sha \in toKeep => job[h].sha \in ToSet(stored)

QuarantineInv ==
    /\ QuarantineTypeOK
    /\ \A h \in Handlers : JobOK(h)
    /\ \A c \in toKeep \ rescanned : Secure(c)

----------------------------------------------------------------------------
LEMMA StoredGrows ==
    ASSUME NEW S, NEW s \in Seq(S), NEW c \in S
    PROVE  Append(s, c) \in Seq(S) /\ ToSet(Append(s, c)) = ToSet(s) \cup {c}
<1>1. /\ Append(s, c) \in Seq(S) /\ Len(Append(s, c)) = Len(s) + 1 /\ Len(s) \in Nat
      /\ \A i \in 1..Len(s) : Append(s, c)[i] = s[i]
      /\ Append(s, c)[Len(s) + 1] = c
  OBVIOUS
<1>2. DOMAIN s = 1..Len(s) /\ DOMAIN Append(s, c) = 1..(Len(s) + 1)
  BY <1>1
<1>3. \A i \in 1..(Len(s) + 1) : i \in 1..Len(s) \/ i = Len(s) + 1
  BY <1>1
<1>4. 1..Len(s) \subseteq 1..(Len(s) + 1) /\ Len(s) + 1 \in 1..(Len(s) + 1)
  BY <1>1
<1> QED BY <1>1, <1>2, <1>3, <1>4, Zenon DEF ToSet

LEMMA StoredShrinks ==
    ASSUME NEW S, NEW s \in Seq(S), NEW i \in 1..Len(s)
    PROVE  /\ RemoveAt(s, i) \in Seq(S) /\ Len(RemoveAt(s, i)) = Len(s) - 1
           /\ ToSet(s) \ {s[i]} \subseteq ToSet(RemoveAt(s, i))
<1> DEFINE r == RemoveAt(s, i)
<1>0. i \in Nat /\ Len(s) \in Nat /\ 1 <= i /\ i <= Len(s)
  OBVIOUS
<1>1. Len(s) \in Nat /\ DOMAIN s = 1..Len(s)
  OBVIOUS
<1>2. r = SubSeq(s, 1, i - 1) \o SubSeq(s, i + 1, Len(s))
  BY DEF RemoveAt
<1>3. /\ r \in Seq(S) /\ Len(r) = Len(s) - 1
      /\ \A j \in 1..(i - 1) : r[j] = s[j]
      /\ \A j \in i..(Len(s) - 1) : r[j] = s[j + 1]
  <2> DEFINE a == SubSeq(s, 1, i - 1)
             b == SubSeq(s, i + 1, Len(s))
  <2>1. /\ a \in Seq(S) /\ Len(a) = i - 1
        /\ \A j \in 1..(i - 1) : a[j] = s[j]
    BY <1>1
  <2>2. /\ b \in Seq(S) /\ Len(b) = Len(s) - i
        /\ \A j \in 1..(Len(s) - i) : b[j] = s[i + j]
    <3>1. i + 1 \in Int /\ Len(s) \in Int /\ \A j \in i + 1..Len(s) : s[j] \in S
      BY <1>1
    <3>2. /\ b \in Seq(S)
          /\ Len(b) = IF i + 1 <= Len(s) THEN Len(s) - (i + 1) + 1 ELSE 0
          /\ \A j \in 1..Len(s) - (i + 1) + 1 : b[j] = s[i + 1 + j - 1]
      BY <3>1, SubSeqProperties
    <3> HIDE DEF b
    <3>3. Len(b) = Len(s) - i /\ Len(s) - (i + 1) + 1 = Len(s) - i
      BY <1>0, <3>2
    <3>4. \A j \in 1..(Len(s) - i) : i + 1 + j - 1 = i + j
      BY <1>1
    <3> QED BY <3>2, <3>3, <3>4
  <2>3. r = a \o b
    BY <1>2
  <2> HIDE DEF a, b, r
  <2>4. /\ r \in Seq(S) /\ Len(r) = Len(a) + Len(b)
        /\ \A j \in 1..Len(a) + Len(b) : r[j] = IF j <= Len(a) THEN a[j] ELSE b[j - Len(a)]
    BY <2>1, <2>2, <2>3, ConcatProperties
  <2>5. Len(a) + Len(b) = Len(s) - 1
    BY <1>0, <2>1, <2>2
  <2>6. \A j \in 1..(Len(s) - 1) : r[j] = IF j <= i - 1 THEN a[j] ELSE b[j - (i - 1)]
    BY <2>1, <2>4, <2>5
  <2>7. \A j \in 1..(i - 1) : r[j] = s[j]
    <3> SUFFICES ASSUME NEW j \in 1..(i - 1) PROVE r[j] = s[j]
      OBVIOUS
    <3>1. j \in 1..(Len(s) - 1) /\ j <= i - 1
      BY <1>0
    <3> QED BY <2>1, <2>6, <3>1
  <2>8. \A j \in i..(Len(s) - 1) : r[j] = s[j + 1]
    <3> SUFFICES ASSUME NEW j \in i..(Len(s) - 1) PROVE r[j] = s[j + 1]
      OBVIOUS
    <3>1. r[j] = b[j - (i - 1)]
      <4>1. j \in 1..(Len(s) - 1) /\ ~(j <= i - 1)
        BY <1>0
      <4> QED BY <2>6, <4>1
    <3>2. j - (i - 1) \in 1..(Len(s) - i) /\ i + (j - (i - 1)) = j + 1
      BY <1>1
    <3> QED BY <2>2, <3>1, <3>2
  <2> QED BY <2>4, <2>5, <2>7, <2>8
<1>4. \A j \in 1..Len(s) : j # i => \E k \in 1..(Len(s) - 1) : r[k] = s[j]
  <2> SUFFICES ASSUME NEW j \in 1..Len(s), j # i
               PROVE  \E k \in 1..(Len(s) - 1) : r[k] = s[j]
    OBVIOUS
  <2>1. CASE j < i
    <3>1. j \in 1..(i - 1) /\ j \in 1..(Len(s) - 1)
      BY <1>1, <2>1
    <3> QED BY <1>3, <3>1
  <2>2. CASE j > i
    <3>1. j - 1 \in i..(Len(s) - 1) /\ j - 1 \in 1..(Len(s) - 1) /\ (j - 1) + 1 = j
      BY <1>1, <2>2
    <3>2. r[j - 1] = s[j]
      BY <1>3, <3>1
    <3> QED BY <3>1, <3>2
  <2> QED BY <1>1, <2>1, <2>2
<1>5. DOMAIN r = 1..(Len(s) - 1)
  BY <1>3
<1>6. ToSet(s) \ {s[i]} \subseteq ToSet(r)
  <2> HIDE DEF r
  <2> QED BY <1>1, <1>4, <1>5, Zenon DEF ToSet
<1> QED BY <1>3, <1>6

----------------------------------------------------------------------------
LEMMA QuarantineInitIsSound == ASSUME QuarantineInit PROVE QuarantineInv
<1>1. stored \in Seq(Payloads \cup {Another}) /\ Len(stored) = 0
  BY DEF QuarantineInit
<1>2. QuarantineTypeOK
  BY <1>1, QuarantineAssumption DEF QuarantineInit, QuarantineTypeOK
<1> QED BY <1>2 DEF QuarantineInit, QuarantineInv, JobOK, Busy, IdleJob, Exists

LEMMA RejectKeeps ==
    ASSUME QuarantineInv, NEW h \in Handlers, NEW c \in Payloads, RejectUpload(h, c),
           UNCHANGED rescanned
    PROVE  QuarantineInv'
<1>1. PICK d \in Items, next \in {"make", "update"} :
        /\ job[h] = IdleJob /\ job' = [job EXCEPT ![h] = [sha |-> c, item |-> d, step |-> next]]
        /\ next = "make" => /\ ~Exists(d)
                            /\ \A n \in Handlers : job[n] # IdleJob => job[n].item # d
        /\ next = "update" => Listed(d) /\ item[d].sha = c
  <2>1. CASE {d \in Items : Listed(d) /\ item[d].sha = c} # {}
    BY <2>1 DEF RejectUpload, Take
  <2>2. CASE {d \in Items : Listed(d) /\ item[d].sha = c} = {}
    BY <2>2 DEF RejectUpload, Take
  <2> QED BY <2>1, <2>2
<1>2. UNCHANGED <<item, stored, quarantineFaults>> /\ toKeep' \subseteq toKeep \cup {c}
  BY DEF RejectUpload
<1>3. job[h] = IdleJob /\ job'[h] = [sha |-> c, item |-> d, step |-> next]
  BY <1>1 DEF QuarantineInv, QuarantineTypeOK
<1>4. \A n \in Handlers \ {h} : job'[n] = job[n]
  BY <1>1 DEF QuarantineInv, QuarantineTypeOK
<1>5. QuarantineTypeOK'
  <2>1. [sha |-> c, item |-> d, step |-> next] \in Job
    BY DEF Job, Rejecting
  <2> QED BY <1>1, <1>2, <2>1 DEF QuarantineInv, QuarantineTypeOK
<1>6. \A n \in Handlers : JobOK(n)'
  <2>1. JobOK(h)'
    BY <1>1, <1>2, <1>3, <1>4 DEF JobOK, Busy, Exists, Listed
  <2>2. ASSUME NEW n \in Handlers \ {h} PROVE JobOK(n)'
    <3>1. JobOK(n) /\ job'[n] = job[n]
      BY <1>4 DEF QuarantineInv
    <3>2. Busy(n, {"make", "metadata"}) => job'[h].item # job[n].item
      BY <3>1, <1>1, <1>3 DEF JobOK, Busy, Listed, IdleJob
    <3>3. Busy(n, {"remove"}) /\ job[n].sha \in toKeep' => job[n].sha \in toKeep
      BY <1>2, <3>1 DEF RejectUpload, Busy, Retrying
    <3> QED BY <1>2, <1>4, <3>1, <3>2, <3>3 DEF JobOK, Busy, Exists
  <2> QED BY <2>1, <2>2
<1>7. \A k \in toKeep' \ rescanned' : Secure(k)'
  <2>1. Secure(c)'
    BY <1>1, <1>2, <1>3 DEF Secure, Busy, Exists, Listed
  <2>2. ASSUME NEW k \in toKeep \ rescanned PROVE Secure(k)'
    <3>1. Secure(k)
      BY DEF QuarantineInv
    <3> QED BY <1>2, <1>3, <1>4, <3>1 DEF Secure, Busy, Exists, Filed, Listed, IdleJob
  <2> QED BY <1>2, <2>1, <2>2
<1> QED BY <1>5, <1>6, <1>7 DEF QuarantineInv

\* The operations from here on give a handler no new directory.
LEMMA MakeKeeps ==
    ASSUME QuarantineInv, NEW h \in Handlers, MakeDirectory(h), UNCHANGED rescanned
    PROVE  QuarantineInv'
<1> DEFINE d == job[h].item
           c == job[h].sha
<1>1. /\ job[h] \in Job /\ job[h] # IdleJob /\ d \in Items /\ c \in Payloads /\ ~Exists(d)
      /\ job[h].step = "make"
      /\ \A n \in Handlers \ {h} : job[n] # IdleJob => job[n].item # d
  <2>1. Busy(h, {"make"}) /\ JobOK(h)
    BY DEF MakeDirectory, QuarantineInv
  <2>2. job[h] \in Job /\ job[h] # IdleJob
    BY <2>1 DEF QuarantineInv, QuarantineTypeOK, Busy, IdleJob
  <2> QED BY <2>1, <2>2 DEF Job, JobOK, Busy
<1>2. PICK new \in Item : item' = [item EXCEPT ![d] = new] /\ new.sha = c /\ ~new.metadata
  <2> DEFINE new == [sha |-> c, payload |-> TRUE, metadata |-> FALSE]
             half == [new EXCEPT !.payload = FALSE]
  <2>1. new \in Item /\ new.sha = c /\ ~new.metadata
    BY <1>1 DEF Item
  <2>2. half \in Item /\ half.sha = c /\ ~half.metadata
    BY <1>1 DEF Item
  <2>3. item' = [item EXCEPT ![d] = new] \/ item' = [item EXCEPT ![d] = half]
    BY DEF MakeDirectory, Write
  <2> QED BY <2>1, <2>2, <2>3
<1>3. \A e \in Items \ {d} : item'[e] = item[e]
  BY <1>2 DEF QuarantineInv, QuarantineTypeOK
<1>4. item'[d] = new /\ new # NoItem
  BY <1>1, <1>2, QuarantineAssumption DEF QuarantineInv, QuarantineTypeOK
<1>5. /\ UNCHANGED stored
      /\ \/ /\ job' = [job EXCEPT ![h].step = "metadata"]
            /\ UNCHANGED <<toKeep, quarantineFaults>>
         \/ /\ job' = [job EXCEPT ![h] = IdleJob] /\ toKeep' = toKeep \ {c}
            /\ QuarantineFault
  BY DEF MakeDirectory, Become, FailedWrite, Finish
<1>6. \A n \in Handlers \ {h} : job'[n] = job[n]
  BY <1>5 DEF QuarantineInv, QuarantineTypeOK
<1>7. \/ job'[h] = [job[h] EXCEPT !.step = "metadata"]
      \/ job'[h] = IdleJob /\ toKeep' = toKeep \ {c}
  BY <1>5 DEF QuarantineInv, QuarantineTypeOK
<1>8. QuarantineTypeOK'
  <2>1. item' \in [Items -> Item \cup {NoItem}]
    BY <1>2 DEF QuarantineInv, QuarantineTypeOK
  <2>2. [job[h] EXCEPT !.step = "metadata"] \in Job
    BY <1>1 DEF Job, Rejecting
  <2>3. job' \in [Handlers -> Job \cup {IdleJob}]
    BY <1>5, <2>2 DEF QuarantineInv, QuarantineTypeOK
  <2>4. quarantineFaults' \in 0..MaxQuarantineFaults /\ toKeep' \subseteq Payloads
    BY <1>5, QuarantineAssumption DEF QuarantineInv, QuarantineTypeOK, QuarantineFault
  <2> QED BY <1>5, <2>1, <2>3, <2>4 DEF QuarantineInv, QuarantineTypeOK
<1>9. \A n \in Handlers : JobOK(n)'
  <2>1. JobOK(h)'
    <3>1. CASE job'[h] = IdleJob
      BY <3>1 DEF JobOK, Busy, IdleJob
    <3>2. CASE job'[h] = [job[h] EXCEPT !.step = "metadata"]
      <4>1. /\ job'[h].item = d /\ job'[h].sha = c /\ job'[h].step = "metadata"
        BY <1>1, <3>2 DEF Job
      <4> QED BY <4>1, <1>1, <1>2, <1>4, <1>6 DEF JobOK, Busy, Exists
    <3> QED BY <1>7, <3>1, <3>2
  <2>2. ASSUME NEW n \in Handlers \ {h} PROVE JobOK(n)'
    <3>1. JobOK(n) /\ job'[n] = job[n] /\ (job[n] # IdleJob => job[n].item # d)
      BY <1>1, <1>6 DEF QuarantineInv
    <3>2. job[n] # IdleJob => item'[job[n].item] = item[job[n].item]
      BY <1>3, <3>1 DEF QuarantineInv, QuarantineTypeOK, Job
    <3>3. \A m \in Handlers : job'[m] # IdleJob => job[m] # IdleJob /\ job'[m].item = job[m].item
      BY <1>1, <1>6, <1>7 DEF Job
    <3>4. toKeep' \subseteq toKeep
      BY <1>5
    <3> QED BY <1>5, <3>1, <3>2, <3>3, <3>4 DEF JobOK, Busy, Exists, IdleJob
  <2> QED BY <2>1, <2>2
<1>10. \A k \in toKeep' \ rescanned' : Secure(k)'
  <2> SUFFICES ASSUME NEW k \in toKeep' \ rescanned' PROVE Secure(k)'
    OBVIOUS
  <2>1. Secure(k) /\ k \in toKeep
    BY <1>5 DEF QuarantineInv
  <2>2. CASE \E n \in Handlers \ {h} : \/ Busy(n, {"make", "metadata"}) /\ job[n].sha = k
                                      \/ /\ Busy(n, {"update"}) /\ job[n].sha = k
                                         /\ Exists(job[n].item)
    <3>1. PICK n \in Handlers \ {h} : \/ Busy(n, {"make", "metadata"}) /\ job[n].sha = k
                                      \/ /\ Busy(n, {"update"}) /\ job[n].sha = k
                                         /\ Exists(job[n].item)
      BY <2>2
    <3>2. job[n] # IdleJob /\ job'[n] = job[n]
      BY <3>1, <1>6 DEF Busy, IdleJob
    <3>3. item'[job[n].item] = item[job[n].item]
      BY <1>1, <1>3, <3>2 DEF QuarantineInv, QuarantineTypeOK, Job
    <3> QED BY <3>1, <3>2, <3>3 DEF Secure, Busy, Exists
  <2>3. CASE k = c
    <3>1. job'[h] = [job[h] EXCEPT !.step = "metadata"]
      BY <1>7, <2>3
    <3> QED BY <3>1, <1>1, <2>3 DEF Secure, Busy, Job
  <2>4. CASE Filed(k)
    BY <2>4, <1>1, <1>3 DEF Secure, Filed, Listed, Exists
  <2>5. CASE k \in ToSet(stored)
    BY <2>5, <1>5 DEF Secure
  <2> QED BY <2>1, <2>2, <2>3, <2>4, <2>5, <1>1 DEF Secure, Busy
<1> QED BY <1>8, <1>9, <1>10 DEF QuarantineInv

\* No other operation makes a directory, nor gives one to another content; and
\* what a handler makes the others leave alone.
ItemsStay ==
    \A d \in Items : item'[d] # item[d] =>
        /\ Exists(d)
        /\ item'[d] = NoItem \/ item'[d].sha = item[d].sha
        /\ \A n \in Handlers : Busy(n, {"make", "metadata"}) /\ job'[n] = job[n] =>
             job[n].item # d

\* Handlers go on as they were, or are done.
LEMMA JobsStay ==
    ASSUME QuarantineInv, ItemsStay, NEW n \in Handlers, toKeep' \subseteq toKeep,
           \A m \in Handlers : job'[m] = job[m] \/ job'[m] = IdleJob,
           \A c \in toKeep' : c \in ToSet(stored) => c \in ToSet(stored')
    PROVE  JobOK(n)'
<1>1. CASE job'[n] = IdleJob
  BY <1>1 DEF JobOK, Busy, IdleJob
<1>2. CASE job'[n] = job[n] /\ job[n] # IdleJob
  <2> DEFINE d == job[n].item
  <2>1. JobOK(n) /\ d \in Items
    BY <1>2 DEF QuarantineInv, QuarantineTypeOK, Job
  <2>2. \A m \in Handlers : job'[m] # IdleJob => job'[m] = job[m]
    OBVIOUS
  <2>3. CASE item'[d] = item[d]
    BY <1>2, <2>1, <2>2, <2>3 DEF JobOK, Busy, Exists
  <2>4. CASE item'[d] # item[d]
    <3>1. /\ Exists(d) /\ (item'[d] = NoItem \/ item'[d].sha = item[d].sha)
          /\ ~Busy(n, {"make", "metadata"})
      BY <1>2, <2>1, <2>4 DEF ItemsStay
    <3> QED BY <1>2, <2>1, <3>1 DEF JobOK, Busy, Exists
  <2> QED BY <2>3, <2>4
<1> QED BY <1>1, <1>2

\* A content stays secure if its items stay listed, it stays stored, and its
\* handlers go on.
LEMMA SecureStays ==
    ASSUME NEW c, Secure(c),
           \A d \in Items : Listed(d) /\ item[d].sha = c => Listed(d)' /\ item'[d].sha = c,
           c \in ToSet(stored) => c \in ToSet(stored'),
           \A n \in Handlers : Busy(n, Rejecting) /\ job[n].sha = c =>
             job'[n] = job[n] /\ (Exists(job[n].item) => Exists(job[n].item)')
    PROVE  Secure(c)'
<1>1. CASE Filed(c)
  BY <1>1 DEF Filed, Secure
<1>2. CASE c \in ToSet(stored)
  BY <1>2 DEF Secure
<1>3. ASSUME NEW n \in Handlers, Busy(n, {"make", "metadata"}), job[n].sha = c
      PROVE  Secure(c)'
  <2>1. job'[n] = job[n]
    BY <1>3 DEF Busy, Rejecting
  <2> QED BY <1>3, <2>1 DEF Secure, Busy
<1>4. ASSUME NEW n \in Handlers, Busy(n, {"update"}), job[n].sha = c, Exists(job[n].item)
      PROVE  Secure(c)'
  <2>1. job'[n] = job[n] /\ Exists(job[n].item)'
    BY <1>4 DEF Busy, Rejecting
  <2> QED BY <1>4, <2>1 DEF Secure, Busy, Exists
<1> QED BY <1>1, <1>2, <1>3, <1>4 DEF Secure

\* The job of a busy handler.
LEMMA BusyJob ==
    ASSUME QuarantineInv, NEW h \in Handlers, NEW steps, Busy(h, steps), "idle" \notin steps
    PROVE  job[h] \in Job /\ job[h] # IdleJob /\ job[h].item \in Items /\ job[h].sha \in Payloads
<1>1. job[h] # IdleJob
  BY DEF Busy, IdleJob
<1>2. job[h] \in Job
  BY <1>1 DEF QuarantineInv, QuarantineTypeOK
<1> QED BY <1>1, <1>2 DEF Job

\* Listing an item and being done secures its content.
LEMMA ListingKeeps ==
    ASSUME QuarantineInv, NEW h \in Handlers, Busy(h, Rejecting \cup {"check"}), Finish(h),
           ~Busy(h, {"make"}), Exists(job[h].item),
           Write(job[h].item, [item[job[h].item] EXCEPT !.metadata = TRUE]),
           UNCHANGED <<stored, toKeep, rescanned, quarantineFaults>>
    PROVE  QuarantineInv'
<1> DEFINE d == job[h].item
           new == [item[d] EXCEPT !.metadata = TRUE]
<1>1. job[h] \in Job /\ job[h] # IdleJob /\ d \in Items /\ JobOK(h) /\ item[d] \in Item
  <2>1. job[h] \in Job /\ job[h] # IdleJob /\ d \in Items
    BY BusyJob DEF Rejecting
  <2> QED BY <2>1 DEF QuarantineInv, QuarantineTypeOK, Exists
<1>2. /\ new \in Item /\ new.sha = item[d].sha /\ new.metadata /\ new # NoItem
      /\ item[d].sha = job[h].sha
  BY <1>1, QuarantineAssumption DEF Item, JobOK
<1>3. item' = [item EXCEPT ![d] = new]
  BY DEF Write
<1>4. item'[d] = new /\ \A e \in Items \ {d} : item'[e] = item[e]
  BY <1>1, <1>3 DEF QuarantineInv, QuarantineTypeOK
<1> HIDE DEF new
<1>5. job'[h] = IdleJob /\ \A n \in Handlers \ {h} : job'[n] = job[n]
  BY DEF Finish, QuarantineInv, QuarantineTypeOK
<1>6. QuarantineTypeOK'
  BY <1>1, <1>2, <1>3 DEF QuarantineInv, QuarantineTypeOK, Finish
<1>7. ItemsStay
  <2> SUFFICES ASSUME NEW n \in Handlers, Busy(n, {"make", "metadata"}), job'[n] = job[n]
               PROVE  job[n].item # d
    BY <1>1, <1>2, <1>4 DEF ItemsStay
  <2>1. JobOK(n) /\ (n = h => job[h] = IdleJob)
    BY <1>5 DEF QuarantineInv
  <2> QED BY <1>1, <2>1 DEF JobOK
<1>8. \A n \in Handlers : JobOK(n)'
  BY <1>5, <1>7, JobsStay
<1>9. \A c \in toKeep' \ rescanned' : Secure(c)'
  <2> SUFFICES ASSUME NEW c \in toKeep \ rescanned PROVE Secure(c)'
    OBVIOUS
  <2>1. CASE c = job[h].sha
    BY <1>1, <1>2, <1>4, <2>1 DEF Secure, Filed, Listed, Exists
  <2>2. CASE c # job[h].sha
    <3>1. \A e \in Items : Listed(e) => Listed(e)' /\ item'[e].sha = item[e].sha
      BY <1>2, <1>4 DEF Listed, Exists
    <3>2. \A n \in Handlers : Busy(n, Rejecting) /\ job[n].sha = c =>
            job'[n] = job[n] /\ (Exists(job[n].item) => Exists(job[n].item)')
      <4> SUFFICES ASSUME NEW n \in Handlers, Busy(n, Rejecting), job[n].sha = c
                   PROVE  job'[n] = job[n] /\ (Exists(job[n].item) => Exists(job[n].item)')
        OBVIOUS
      <4>1. n # h /\ job[n].item \in Items
        BY <2>2, BusyJob DEF Rejecting
      <4> QED BY <1>2, <1>4, <1>5, <4>1 DEF Exists
    <3>3. Secure(c)
      BY DEF QuarantineInv
    <3> QED BY <3>1, <3>2, <3>3, SecureStays
  <2> QED BY <2>1, <2>2
<1> QED BY <1>6, <1>8, <1>9 DEF QuarantineInv

\* Being done leaves the contents secure that the handler does not answer for.
LEMMA FinishKeeps ==
    ASSUME QuarantineInv, NEW h \in Handlers, job[h] # IdleJob, Finish(h),
           toKeep' \subseteq toKeep, quarantineFaults' \in 0..MaxQuarantineFaults,
           \/ job[h].sha \notin toKeep' \/ Busy(h, Retrying)
           \/ Busy(h, {"update"}) /\ ~Exists(job[h].item),
           UNCHANGED <<item, stored, rescanned>>
    PROVE  QuarantineInv'
<1>1. job'[h] = IdleJob /\ \A n \in Handlers \ {h} : job'[n] = job[n]
  BY DEF Finish, QuarantineInv, QuarantineTypeOK
<1>2. QuarantineTypeOK'
  BY DEF QuarantineInv, QuarantineTypeOK, Finish
<1>3. \A n \in Handlers : JobOK(n)'
  BY <1>1, JobsStay DEF ItemsStay
<1>4. \A c \in toKeep' \ rescanned' : Secure(c)'
  <2> SUFFICES ASSUME NEW c \in toKeep' \ rescanned PROVE Secure(c)'
    OBVIOUS
  <2>1. Secure(c)
    BY DEF QuarantineInv
  <2>2. CASE Busy(h, {"update"}) /\ ~Exists(job[h].item)
    BY <1>1, <2>1, <2>2 DEF Secure, Filed, Listed, Exists, Busy
  <2>3. CASE Busy(h, Retrying) \/ job[h].sha \notin toKeep'
    BY <1>1, <2>1, <2>3 DEF Secure, Filed, Listed, Exists, Busy, Retrying
  <2> QED BY <2>2, <2>3
<1> QED BY <1>2, <1>3, <1>4 DEF QuarantineInv

LEMMA WriteMetadataKeeps ==
    ASSUME QuarantineInv, NEW h \in Handlers, WriteItemMetadata(h), UNCHANGED rescanned
    PROVE  QuarantineInv'
<1>1. Busy(h, {"metadata"}) /\ JobOK(h) /\ job[h] # IdleJob /\ Exists(job[h].item)
  BY DEF WriteItemMetadata, QuarantineInv, JobOK, Busy, IdleJob
<1>2. CASE /\ Write(job[h].item, [item[job[h].item] EXCEPT !.metadata = TRUE])
           /\ Finish(h) /\ UNCHANGED <<toKeep, quarantineFaults>>
  <2>1. Busy(h, Rejecting \cup {"check"}) /\ ~Busy(h, {"make"})
    BY <1>1 DEF Busy, Rejecting
  <2> QED BY <1>1, <1>2, <2>1, ListingKeeps DEF WriteItemMetadata
<1>3. CASE FailedWrite(h) /\ UNCHANGED item
  <2>1. /\ Finish(h) /\ toKeep' = toKeep \ {job[h].sha}
        /\ quarantineFaults' \in 0..MaxQuarantineFaults
    BY <1>3, QuarantineAssumption DEF FailedWrite, QuarantineFault, QuarantineInv, QuarantineTypeOK
  <2> QED BY <1>1, <1>3, <2>1, FinishKeeps DEF WriteItemMetadata
<1> QED BY <1>2, <1>3 DEF WriteItemMetadata

LEMMA UpdateKeeps ==
    ASSUME QuarantineInv, NEW h \in Handlers, Update(h) \/ StillRejected(h),
           UNCHANGED rescanned
    PROVE  QuarantineInv'
<1>1. /\ Busy(h, {"update"}) \/ Busy(h, {"check"})
      /\ Finish(h) /\ job[h] # IdleJob
      /\ UNCHANGED <<stored, toKeep, rescanned, quarantineFaults>>
      /\ IF Exists(job[h].item)
         THEN Write(job[h].item, [item[job[h].item] EXCEPT !.metadata = TRUE])
         ELSE UNCHANGED item
  BY DEF Update, StillRejected, Busy, IdleJob
<1>2. CASE Exists(job[h].item)
  <2>1. Busy(h, Rejecting \cup {"check"}) /\ ~Busy(h, {"make"})
    BY <1>1 DEF Busy, Rejecting
  <2> QED BY <1>1, <1>2, <2>1, ListingKeeps
<1>3. CASE ~Exists(job[h].item)
  <2>1. quarantineFaults' \in 0..MaxQuarantineFaults /\ toKeep' \subseteq toKeep
    BY <1>1 DEF QuarantineInv, QuarantineTypeOK
  <2>2. Busy(h, {"update"}) \/ Busy(h, Retrying)
    BY <1>1 DEF Busy, Retrying
  <2> QED BY <1>1, <1>3, <2>1, <2>2, FinishKeeps
<1> QED BY <1>2, <1>3

\* The handlers of a retry, which secure nothing themselves.
LEMMA RetryStepKeeps ==
    ASSUME QuarantineInv, NEW h \in Handlers, NEW r \in Job,
           job' = [job EXCEPT ![h] = r], r.step \in Retrying,
           ~Busy(h, Rejecting),
           Exists(r.item) => item[r.item].sha = r.sha,
           \A n \in Handlers \ {h} : Busy(n, {"make", "metadata"}) => job[n].item # r.item,
           r.step = "remove" => r.sha \in ToSet(stored'),
           stored' \in Seq(Payloads \cup {Another}), Len(stored') <= MaxStored,
           ToSet(stored) \subseteq ToSet(stored'),
           UNCHANGED <<item, toKeep, rescanned, quarantineFaults>>
    PROVE  QuarantineInv'
<1>1. job'[h] = r /\ \A n \in Handlers \ {h} : job'[n] = job[n]
  BY DEF QuarantineInv, QuarantineTypeOK
<1>2. QuarantineTypeOK'
  BY DEF QuarantineInv, QuarantineTypeOK
<1>3. \A n \in Handlers : JobOK(n)'
  <2>1. JobOK(h)'
    BY <1>1 DEF JobOK, Busy, Exists, Retrying
  <2>2. ASSUME NEW n \in Handlers \ {h} PROVE JobOK(n)'
    <3>1. JobOK(n) /\ job'[n] = job[n]
      BY <1>1 DEF QuarantineInv
    <3>2. Busy(n, {"make", "metadata"}) => job'[h].item # job[n].item
      BY <1>1
    <3> QED BY <1>1, <3>1, <3>2 DEF JobOK, Busy, Exists
  <2> QED BY <2>1, <2>2
<1>4. \A c \in toKeep' \ rescanned' : Secure(c)'
  <2> SUFFICES ASSUME NEW c \in toKeep \ rescanned PROVE Secure(c)'
    OBVIOUS
  <2>1. Secure(c)
    BY DEF QuarantineInv
  <2>2. \A n \in Handlers : Busy(n, Rejecting) => job'[n] = job[n]
    BY <1>1
  <2> QED BY <2>1, <2>2, SecureStays DEF Listed, Exists
<1> QED BY <1>2, <1>3, <1>4 DEF QuarantineInv

LEMMA RetryKeeps ==
    ASSUME QuarantineInv, NEW h \in Handlers, NEW d \in Items, Retry(h, d),
           UNCHANGED rescanned
    PROVE  QuarantineInv'
<1>1. PICK r \in Job : /\ r = [sha |-> item[d].sha, item |-> d, step |-> "check"]
                       /\ job' = [job EXCEPT ![h] = r] /\ job[h] = IdleJob
  <2>1. item[d] \in Item
    BY DEF Retry, Listed, Exists, QuarantineInv, QuarantineTypeOK
  <2>2. [sha |-> item[d].sha, item |-> d, step |-> "check"] \in Job
    BY <2>1 DEF Item, Job, Retrying
  <2> QED BY <2>2 DEF Retry, Take
<1>2. r.sha = item[d].sha /\ r.item = d /\ r.step = "check"
  BY <1>1
<1>3. \A n \in Handlers \ {h} : Busy(n, {"make", "metadata"}) => job[n].item # d
  <2> SUFFICES ASSUME NEW n \in Handlers, Busy(n, {"make", "metadata"}) PROVE job[n].item # d
    OBVIOUS
  <2>1. JobOK(n)
    BY DEF QuarantineInv
  <2> QED BY <2>1 DEF JobOK, Busy, Retry, Listed
<1>4. ~Busy(h, Rejecting) /\ r.step \in Retrying
  BY <1>1, <1>2 DEF Busy, Rejecting, Retrying, IdleJob
<1>5. UNCHANGED <<item, stored, toKeep, rescanned, quarantineFaults>>
  BY DEF Retry
<1>6. stored' \in Seq(Payloads \cup {Another}) /\ Len(stored') <= MaxStored
  BY <1>5 DEF QuarantineInv, QuarantineTypeOK
<1> QED BY <1>1, <1>2, <1>3, <1>4, <1>5, <1>6, RetryStepKeeps

\* A retry goes on to its next step.
LEMMA RetryGoesOn ==
    ASSUME QuarantineInv, NEW h \in Handlers, NEW next \in Retrying, Busy(h, Retrying),
           Become(h, next),
           next = "remove" => job[h].sha \in ToSet(stored'),
           stored' \in Seq(Payloads \cup {Another}), Len(stored') <= MaxStored,
           ToSet(stored) \subseteq ToSet(stored'),
           UNCHANGED <<item, toKeep, rescanned, quarantineFaults>>
    PROVE  QuarantineInv'
<1> DEFINE r == [job[h] EXCEPT !.step = next]
<1>1. job[h] \in Job /\ job[h] # IdleJob /\ JobOK(h)
  BY BusyJob DEF Retrying, QuarantineInv
<1>2. r \in Job /\ r.sha = job[h].sha /\ r.item = job[h].item /\ r.step = next
  BY <1>1 DEF Job
<1>3. job' = [job EXCEPT ![h] = r] /\ ~Busy(h, Rejecting)
  BY DEF Become, Busy, Retrying, Rejecting
<1> HIDE DEF r
<1>4. \A n \in Handlers \ {h} : Busy(n, {"make", "metadata"}) => job[n].item # job[h].item
  <2> SUFFICES ASSUME NEW n \in Handlers \ {h}, Busy(n, {"make", "metadata"})
               PROVE  job[n].item # job[h].item
    OBVIOUS
  <2>1. JobOK(n)
    BY DEF QuarantineInv
  <2> QED BY <2>1, <1>1 DEF JobOK
<1> QED BY <1>1, <1>2, <1>3, <1>4, RetryStepKeeps DEF JobOK

LEMMA CheckKeeps ==
    ASSUME QuarantineInv, NEW h \in Handlers, CheckStored(h), UNCHANGED rescanned
    PROVE  QuarantineInv'
<1> DEFINE c == job[h].sha
<1>1. /\ Busy(h, {"check"}) /\ Busy(h, Retrying) /\ job[h] # IdleJob
      /\ UNCHANGED <<item, stored, toKeep, rescanned, quarantineFaults>>
  BY DEF CheckStored, Busy, Retrying, IdleJob
<1>2. /\ stored \in Seq(Payloads \cup {Another}) /\ Len(stored) <= MaxStored
      /\ quarantineFaults \in 0..MaxQuarantineFaults
  BY DEF QuarantineInv, QuarantineTypeOK
<1>3. CASE c \notin ToSet(stored)
  <2>1. Become(h, "create")
    BY <1>3 DEF CheckStored
  <2> QED BY <1>1, <1>2, <2>1, RetryGoesOn DEF Retrying
<1>4. CASE c \in ToSet(stored) /\ Last(stored) = c
  <2>1. Become(h, "remove")
    BY <1>4 DEF CheckStored
  <2> QED BY <1>1, <1>2, <1>4, <2>1, RetryGoesOn DEF Retrying
<1>5. CASE c \in ToSet(stored) /\ Last(stored) # c
  <2>1. Finish(h)
    BY <1>5 DEF CheckStored
  <2> QED BY <1>1, <1>2, <2>1, FinishKeeps
<1> QED BY <1>3, <1>4, <1>5

LEMMA CreateImportedKeeps ==
    ASSUME QuarantineInv, NEW h \in Handlers, CreateImported(h), UNCHANGED rescanned
    PROVE  QuarantineInv'
<1> DEFINE c == job[h].sha
<1>1. /\ Busy(h, {"create"}) /\ Busy(h, Retrying) /\ job[h] # IdleJob
      /\ UNCHANGED <<item, toKeep, rescanned>>
  BY DEF CreateImported, Busy, Retrying, IdleJob
<1>2. c \in Payloads
  BY <1>1, BusyJob
<1>3. CASE /\ Len(stored) < MaxStored /\ stored' = Append(stored, c)
           /\ Become(h, "remove") /\ UNCHANGED quarantineFaults
  <2>1. /\ stored' \in Seq(Payloads \cup {Another}) /\ ToSet(stored') = ToSet(stored) \cup {c}
    BY <1>2, <1>3, StoredGrows DEF QuarantineInv, QuarantineTypeOK
  <2>2. Len(stored') <= MaxStored
    BY <1>3, QuarantineAssumption DEF QuarantineInv, QuarantineTypeOK
  <2> QED BY <1>1, <1>3, <2>1, <2>2, RetryGoesOn DEF Retrying
<1>4. CASE QuarantineFault /\ Finish(h) /\ UNCHANGED stored
  <2>1. quarantineFaults' \in 0..MaxQuarantineFaults
    BY <1>4, QuarantineAssumption DEF QuarantineFault, QuarantineInv, QuarantineTypeOK
  <2> QED BY <1>1, <1>4, <2>1, FinishKeeps
<1> QED BY <1>3, <1>4 DEF CreateImported

----------------------------------------------------------------------------
\* Removing a listed item, or one that a retry is done with, is up to those
\* who answer for its content.
LEMMA RemovalKeeps ==
    ASSUME QuarantineInv, NEW d \in Items, RemoveAll(d), UNCHANGED stored,
           \A n \in Handlers : job'[n] = job[n] \/ (job'[n] = IdleJob /\ Busy(n, Retrying)),
           job' \in [Handlers -> Job \cup {IdleJob}],
           \A n \in Handlers : Busy(n, {"make", "metadata"}) => job[n].item # d,
           toKeep' \subseteq toKeep, rescanned \subseteq rescanned',
           rescanned' \subseteq Payloads,
           Exists(d) /\ item[d].sha \in toKeep' \ rescanned' => item[d].sha \in ToSet(stored)
    PROVE  QuarantineInv'
<1>1. /\ \A e \in Items \ {d} : item'[e] = item[e]
      /\ item' \in [Items -> Item \cup {NoItem}]
      /\ ~Exists(d) => item'[d] = item[d]
      /\ Exists(d) => item'[d] = NoItem \/ item'[d].sha = item[d].sha
      /\ quarantineFaults' \in 0..MaxQuarantineFaults
  <2>1. item \in [Items -> Item \cup {NoItem}] /\ (Exists(d) => item[d] \in Item)
    BY DEF QuarantineInv, QuarantineTypeOK, Exists
  <2>2. CASE item' = [item EXCEPT ![d] = NoItem] /\ UNCHANGED quarantineFaults
    BY <2>1, <2>2 DEF QuarantineInv, QuarantineTypeOK, Exists
  <2>3. CASE /\ Exists(d) /\ QuarantineFault
             /\ \/ item' = [item EXCEPT ![d] = [item[d] EXCEPT !.payload = FALSE]]
                \/ item' = [item EXCEPT ![d] = [item[d] EXCEPT !.metadata = FALSE]]
    <3>1. /\ [item[d] EXCEPT !.payload = FALSE] \in Item
          /\ [item[d] EXCEPT !.metadata = FALSE] \in Item
          /\ [item[d] EXCEPT !.payload = FALSE].sha = item[d].sha
          /\ [item[d] EXCEPT !.metadata = FALSE].sha = item[d].sha
      BY <2>1, <2>3 DEF Item
    <3>2. quarantineFaults' \in 0..MaxQuarantineFaults
      BY <2>3, QuarantineAssumption DEF QuarantineFault, QuarantineInv, QuarantineTypeOK
    <3> QED BY <2>1, <2>3, <3>1, <3>2
  <2> QED BY <2>2, <2>3 DEF RemoveAll, Write
<1>2. QuarantineTypeOK'
  BY <1>1 DEF QuarantineInv, QuarantineTypeOK
<1>3. \A n \in Handlers : JobOK(n)'
  <2>1. ItemsStay
    BY <1>1 DEF ItemsStay
  <2> QED BY <2>1, JobsStay
<1>4. \A c \in toKeep' \ rescanned' : Secure(c)'
  <2> SUFFICES ASSUME NEW c \in toKeep' \ rescanned' PROVE Secure(c)'
    OBVIOUS
  <2>1. Secure(c)
    BY DEF QuarantineInv
  <2>2. CASE c \in ToSet(stored)
    BY <2>2 DEF Secure
  <2>3. CASE c \notin ToSet(stored)
    <3>1. Exists(d) => item[d].sha # c
      BY <2>3
    <3>2. \A e \in Items : Listed(e) /\ item[e].sha = c => Listed(e)' /\ item'[e].sha = c
      BY <1>1, <3>1 DEF Listed, Exists
    <3>3. \A n \in Handlers : Busy(n, Rejecting) /\ job[n].sha = c =>
            job'[n] = job[n] /\ (Exists(job[n].item) => Exists(job[n].item)')
      <4> SUFFICES ASSUME NEW n \in Handlers, Busy(n, Rejecting), job[n].sha = c
                   PROVE  job'[n] = job[n] /\ (Exists(job[n].item) => Exists(job[n].item)')
        OBVIOUS
      <4>1. job'[n] = job[n]
        BY DEF Busy, Rejecting, Retrying
      <4>2. JobOK(n) /\ job[n] # IdleJob /\ job[n].item \in Items
        BY BusyJob DEF Rejecting, QuarantineInv
      <4>3. Exists(job[n].item) => job[n].item # d
        BY <4>2, <3>1 DEF JobOK
      <4> QED BY <4>1, <4>2, <4>3, <1>1 DEF Exists
    <3> QED BY <2>1, <3>2, <3>3, SecureStays
  <2> QED BY <2>2, <2>3
<1> QED BY <1>2, <1>3, <1>4 DEF QuarantineInv

\* What is listed no handler is making.
LEMMA ListedIsMade ==
    ASSUME QuarantineInv, NEW d \in Items, Listed(d)
    PROVE  \A n \in Handlers : Busy(n, {"make", "metadata"}) => job[n].item # d
<1> SUFFICES ASSUME NEW n \in Handlers, Busy(n, {"make", "metadata"}) PROVE job[n].item # d
  OBVIOUS
<1>1. JobOK(n)
  BY DEF QuarantineInv
<1> QED BY <1>1 DEF JobOK, Busy, Listed

LEMMA RemoveItemKeeps ==
    ASSUME QuarantineInv, NEW h \in Handlers, RemoveItem(h), UNCHANGED rescanned
    PROVE  QuarantineInv'
<1> DEFINE d == job[h].item
<1>1. /\ Busy(h, {"remove"}) /\ Busy(h, Retrying) /\ RemoveAll(d) /\ Finish(h)
      /\ UNCHANGED <<stored, toKeep, rescanned>>
  BY DEF RemoveItem, Busy, Retrying
<1>2. job[h] # IdleJob /\ d \in Items /\ JobOK(h)
  BY <1>1, BusyJob DEF QuarantineInv
<1>3. /\ \A n \in Handlers : job'[n] = job[n] \/ (job'[n] = IdleJob /\ Busy(n, Retrying))
      /\ job' \in [Handlers -> Job \cup {IdleJob}]
  BY <1>1 DEF Finish, QuarantineInv, QuarantineTypeOK
<1>4. \A n \in Handlers : Busy(n, {"make", "metadata"}) => job[n].item # d
  <2> SUFFICES ASSUME NEW n \in Handlers, Busy(n, {"make", "metadata"}) PROVE job[n].item # d
    OBVIOUS
  <2>1. JobOK(n) /\ n # h
    BY <1>1 DEF QuarantineInv, Busy
  <2> QED BY <1>2, <2>1 DEF JobOK
<1>5. Exists(d) /\ item[d].sha \in toKeep => item[d].sha \in ToSet(stored)
  BY <1>1, <1>2 DEF JobOK
<1>6. rescanned' \subseteq Payloads
  BY <1>1 DEF QuarantineInv, QuarantineTypeOK
<1> QED BY <1>1, <1>2, <1>3, <1>4, <1>5, <1>6, RemovalKeeps

LEMMA DeleteItemKeeps ==
    ASSUME QuarantineInv, NEW d \in Items, DeleteItem(d), UNCHANGED rescanned
    PROVE  QuarantineInv'
<1>1. /\ RemoveAll(d) /\ toKeep' = toKeep \ {item[d].sha} /\ UNCHANGED <<stored, job, rescanned>>
  BY DEF DeleteItem
<1>2. \A n \in Handlers : Busy(n, {"make", "metadata"}) => job[n].item # d
  BY ListedIsMade DEF DeleteItem
<1>3. job' \in [Handlers -> Job \cup {IdleJob}] /\ rescanned' \subseteq Payloads
  BY <1>1 DEF QuarantineInv, QuarantineTypeOK
<1> QED BY <1>1, <1>2, <1>3, RemovalKeeps

LEMMA RescanKeeps ==
    ASSUME QuarantineInv, NEW d \in Items, RescanTakes(d)
    PROVE  QuarantineInv'
<1>1. /\ RemoveAll(d) /\ rescanned' = rescanned \cup {item[d].sha}
      /\ UNCHANGED <<stored, job, toKeep>>
  BY DEF RescanTakes
<1>2. \A n \in Handlers : Busy(n, {"make", "metadata"}) => job[n].item # d
  BY ListedIsMade DEF RescanTakes
<1>3. item[d].sha \in Payloads
  BY DEF RescanTakes, Listed, Exists, QuarantineInv, QuarantineTypeOK, Item
<1>4. job' \in [Handlers -> Job \cup {IdleJob}] /\ rescanned' \subseteq Payloads
  BY <1>1, <1>3 DEF QuarantineInv, QuarantineTypeOK
<1> QED BY <1>1, <1>2, <1>4, RemovalKeeps

\* Nothing changes but what is stored and owed.
LEMMA StoredKeeps ==
    ASSUME QuarantineInv, UNCHANGED <<item, job, rescanned, quarantineFaults>>,
           toKeep' \subseteq toKeep,
           stored' \in Seq(Payloads \cup {Another}), Len(stored') <= MaxStored,
           \A c \in toKeep' : c \in ToSet(stored) => c \in ToSet(stored')
    PROVE  QuarantineInv'
<1>1. QuarantineTypeOK'
  BY DEF QuarantineInv, QuarantineTypeOK
<1>2. \A n \in Handlers : JobOK(n)'
  BY JobsStay DEF ItemsStay
<1>3. \A c \in toKeep' \ rescanned' : Secure(c)'
  <2> SUFFICES ASSUME NEW c \in toKeep' \ rescanned PROVE Secure(c)'
    OBVIOUS
  <2>1. Secure(c)
    BY DEF QuarantineInv
  <2> QED BY <2>1, SecureStays DEF Listed, Exists
<1> QED BY <1>1, <1>2, <1>3 DEF QuarantineInv

LEMMA UploadMeanwhileKeeps ==
    ASSUME QuarantineInv, NEW c \in Importable \cup {Another}, UploadMeanwhile(c), UNCHANGED rescanned
    PROVE  QuarantineInv'
<1>1. c \in Payloads \cup {Another} /\ stored \in Seq(Payloads \cup {Another})
  BY QuarantineAssumption DEF QuarantineInv, QuarantineTypeOK
<1>2. stored' \in Seq(Payloads \cup {Another}) /\ ToSet(stored') = ToSet(stored) \cup {c}
  BY <1>1, StoredGrows DEF UploadMeanwhile
<1>3. Len(stored') <= MaxStored
  BY <1>1, QuarantineAssumption DEF UploadMeanwhile
<1> QED BY <1>2, <1>3, StoredKeeps DEF UploadMeanwhile

LEMMA DeleteSaveKeeps ==
    ASSUME QuarantineInv, NEW i \in 1..MaxStored, DeleteSave(i), UNCHANGED rescanned
    PROVE  QuarantineInv'
<1>1. /\ i \in 1..Len(stored) /\ stored' = RemoveAt(stored, i)
      /\ toKeep' = toKeep \ {stored[i]} /\ UNCHANGED <<item, job, quarantineFaults>>
  BY DEF DeleteSave
<1>2. stored \in Seq(Payloads \cup {Another}) /\ Len(stored) <= MaxStored
  BY DEF QuarantineInv, QuarantineTypeOK
<1>3. /\ stored' \in Seq(Payloads \cup {Another}) /\ Len(stored') = Len(stored) - 1
      /\ ToSet(stored) \ {stored[i]} \subseteq ToSet(stored')
  BY <1>1, <1>2, StoredShrinks
<1>4. Len(stored') <= MaxStored
  BY <1>2, <1>3, QuarantineAssumption
<1> QED BY <1>1, <1>3, <1>4, StoredKeeps

LEMMA RestartQuarantineKeeps ==
    ASSUME QuarantineInv, RestartQuarantine, UNCHANGED rescanned
    PROVE  QuarantineInv'
<1>1. /\ job' = [h \in Handlers |-> IdleJob]
      /\ \A n \in Handlers : Busy(n, Rejecting) => job[n].sha \notin toKeep'
      /\ toKeep' \subseteq toKeep /\ UNCHANGED <<item, stored, quarantineFaults>>
  BY DEF RestartQuarantine
<1>2. QuarantineTypeOK'
  BY <1>1 DEF QuarantineInv, QuarantineTypeOK
<1>3. \A n \in Handlers : JobOK(n)'
  BY <1>1, JobsStay DEF ItemsStay
<1>4. \A c \in toKeep' \ rescanned' : Secure(c)'
  <2> SUFFICES ASSUME NEW c \in toKeep' \ rescanned PROVE Secure(c)'
    OBVIOUS
  <2>1. Secure(c)
    BY <1>1 DEF QuarantineInv
  <2> QED BY <1>1, <2>1, SecureStays DEF Listed, Exists
<1> QED BY <1>2, <1>3, <1>4 DEF QuarantineInv

LEMMA QuarantineStepKeeps == ASSUME QuarantineInv, [QuarantineNext]_quarantineVars PROVE QuarantineInv'
<1>1. CASE UNCHANGED quarantineVars
  BY <1>1 DEF QuarantineInv, QuarantineTypeOK, JobOK, Secure, Filed, Busy, Listed, Exists, quarantineVars
<1>2. CASE \E d \in Items : RescanTakes(d)
  BY <1>2, RescanKeeps
<1>3. CASE UNCHANGED rescanned /\ \E h \in Handlers :
             \/ \E c \in Payloads : RejectUpload(h, c)
             \/ MakeDirectory(h) \/ WriteItemMetadata(h) \/ Update(h)
             \/ \E d \in Items : Retry(h, d)
             \/ StillRejected(h) \/ CheckStored(h) \/ CreateImported(h) \/ RemoveItem(h)
  BY <1>3, RejectKeeps, MakeKeeps, WriteMetadataKeeps, UpdateKeeps, RetryKeeps, CheckKeeps,
     CreateImportedKeeps, RemoveItemKeeps
<1>4. CASE UNCHANGED rescanned /\
             \/ \E d \in Items : DeleteItem(d)
             \/ \E c \in Importable \cup {Another} : UploadMeanwhile(c)
             \/ \E i \in 1..MaxStored : DeleteSave(i)
             \/ RestartQuarantine
  BY <1>4, DeleteItemKeeps, UploadMeanwhileKeeps, DeleteSaveKeeps, RestartQuarantineKeeps
<1> QED BY <1>1, <1>2, <1>3, <1>4 DEF QuarantineNext

\* The directories, the saves and the handlers keep their types
\* (save_validation_quarantine.go).
THEOREM QuarantineIsTyped == QuarantineSpec => []QuarantineTypeOK
<1>1. QuarantineInv => QuarantineTypeOK
  BY DEF QuarantineInv
<1> QED BY <1>1, QuarantineInitIsSound, QuarantineStepKeeps, PTL DEF QuarantineSpec

\* Whoever works on the quarantine at the same time, a content whose upload
\* was rejected stays in it, or is a save by then, until an operator deletes
\* one or the other; unless a write failed, the content was being tried again
\* as it was rejected, a removal cut short left its metadata alone, or a
\* rescan took it (quarantineRejectedUpload, handleValidationQuarantineRetry).
THEOREM RejectedUploadsStay == QuarantineSpec => []RejectedUploadsAreKept
<1>1. QuarantineInv => RejectedUploadsAreKept
  <2> SUFFICES ASSUME QuarantineInv, NEW c \in toKeep \ rescanned PROVE Held(c)
    BY DEF RejectedUploadsAreKept
  <2>1. Secure(c)
    BY DEF QuarantineInv
  <2>2. Filed(c) => Kept(c) \/ Torn(c)
    BY DEF Filed, Kept, Torn
  <2> QED BY <2>1, <2>2 DEF Secure, Held, Busy, Rejecting
<1> QED BY <1>1, QuarantineInitIsSound, QuarantineStepKeeps, PTL DEF QuarantineSpec

----------------------------------------------------------------------------
\* A set of numbers has a least member.
LEMMA LeastExists ==
  ASSUME NEW T, T \subseteq Nat, T # {}
  PROVE  \E t \in T : \A u \in T : t <= u
<1>1. PICK t \in T : \A u \in T : <<u, t>> \notin OpToRel(<, Nat)
  BY NatLessThanWellFounded, WFMin
<1>2. \A u \in T : ~(u < t)
  BY <1>1 DEF OpToRel
<1> QED BY <1>2

\* A set of numbers up to M has a greatest member.
LEMMA GreatestExists ==
  ASSUME NEW M \in Nat, NEW S, S \subseteq 0..M, S # {}
  PROVE  \E m \in S : \A n \in S : n <= m
<1> DEFINE T == {t \in Nat : M - t \in S}
<1>1. T \subseteq Nat /\ T # {}
  <2>1. PICK n \in S : TRUE
    OBVIOUS
  <2>2. M - n \in Nat /\ M - (M - n) = n
    BY <2>1
  <2> QED BY <2>1, <2>2
<1>2. PICK t \in T : \A u \in T : t <= u
  <2> HIDE DEF T
  <2> QED BY <1>1, LeastExists
<1>3. \A n \in S : n <= M - t
  <2> TAKE n \in S
  <2>1. M - n \in T /\ n \in 0..M /\ t \in Nat
    OBVIOUS
  <2> HIDE DEF T
  <2> QED BY <1>2, <2>1
<1> QED BY <1>2, <1>3

----------------------------------------------------------------------------
Revision == [slot : Slots \cup {NoSlot}, sha : Shas, version : Nat \ {0}]
Request == [kind : {"none", "page", "helper", "list"}, sent : Seq(Entry),
            entries : Seq(Entry), results : Seq(Outcome),
            step : {"check", "create", "answer", "done", "refused"}]

\* No content is stored twice.
NoTwins ==
    \A i, j \in DOMAIN revisions : revisions[i].sha = revisions[j].sha => i = j

\* Entries are answered in order.
Answers ==
    /\ request.step \in {"check", "create"} =>
         Len(request.results) < Len(request.entries)
    /\ request.step \in {"answer", "done"} =>
         Len(request.results) = Len(request.entries)
    /\ request.step = "refused" => request.results = <<>>

\* What is about to be created is not stored yet, or refused.
CreatesAnew ==
    request.step = "create" =>
        IF Current.sha = Unsupported THEN request.kind = "list"
        ELSE \A i \in DOMAIN revisions : revisions[i].sha # Current.sha

\* What became of entry k is what its result says.
ResultIsTrue(k) ==
    /\ request.results[k] \in {"stored", "ignored", "stale"} =>
         \E i \in DOMAIN revisions : revisions[i].sha = request.entries[k].sha
    /\ request.results[k] = "unsupported" /\ request.kind # "list" =>
         request.entries[k].sha \in rejected
    /\ request.results[k] = "stored" /\ k = Len(request.results) =>
         revisions[NewestOf(InSlot(request.entries[k].slot))].sha = request.entries[k].sha

BulkInv ==
    /\ revisions \in Seq(Revision)
    /\ \A i \in DOMAIN revisions : revisions[i].version <= i
    /\ NoTwins
    /\ rejected \subseteq {Unsupported}
    /\ request \in Request
    /\ Answers
    /\ CreatesAnew
    /\ request.step \in {"check", "create", "answer"} =>
         request.kind # "none" /\ request.sent # <<>>
    /\ \A k \in DOMAIN request.results : ResultIsTrue(k)

----------------------------------------------------------------------------
LEMMA UploadsAreEntries ==
  ASSUME NEW entries \in Seq(Entry)
  PROVE  Uploads(entries) \in Seq(Entry)
<1> DEFINE N == Len(entries)
           Step(f, n) == IF n = 0 THEN <<>>
                         ELSE IF IsIgnored(entries[n]) THEN f[n - 1]
                         ELSE Append(f[n - 1], entries[n])
           Done(k, f) == f = [n \in 0..k |-> Step(f, n)]
           Bad == {k \in 0..N : ~ \E f : Done(k, f)}
<1>1. N \in Nat
  OBVIOUS
<1>2. Bad = {}
  <2> SUFFICES ASSUME Bad # {} PROVE FALSE
    OBVIOUS
  <2>1. PICK k \in Bad : \A l \in Bad : k <= l
    <3>1. Bad \subseteq Nat
      BY <1>1
    <3> HIDE DEF Bad
    <3> QED BY <3>1, LeastExists
  <2>2. k \in 0..N /\ ~ \E f : Done(k, f)
    BY <2>1
  <2>3. CASE k = 0
    <3> DEFINE f == [n \in 0..0 |-> <<>>]
    <3>1. f = [n \in 0..0 |-> Step(f, n)]
      <4>1. \A n \in 0..0 : n = 0
        OBVIOUS
      <4> QED BY <4>1
    <3> HIDE DEF f, Step
    <3> QED BY <2>2, <2>3, <3>1
  <2>4. CASE k # 0
    <3>1. k - 1 \in 0..N /\ k - 1 < k
      BY <1>1, <2>2, <2>4
    <3>2. PICK f : Done(k - 1, f)
      <4>1. k - 1 \notin Bad
        <5> HIDE DEF Bad
        <5>1. k - 1 \in Int /\ k \in Int /\ k - 1 < k
          BY <1>1, <2>2, <3>1
        <5> QED BY <2>1, <5>1
      <4> HIDE DEF Done
      <4> QED BY <3>1, <4>1
    <3> DEFINE g == [n \in 0..k |-> IF n = k THEN Step(f, k) ELSE f[n]]
    <3>3. \A n \in 0..k : g[n] = Step(g, n)
      <4> SUFFICES ASSUME NEW n \in 0..k PROVE g[n] = Step(g, n)
        OBVIOUS
      <4>1. n = 0 \/ (n - 1 \in 0..k /\ n - 1 # k)
        BY <2>2
      <4>2. n # 0 => g[n - 1] = f[n - 1]
        BY <4>1
      <4>3. Step(g, n) = Step(f, n)
        <5> HIDE DEF g
        <5> QED BY <4>2
      <4>4. n # k => f[n] = Step(f, n)
        <5>1. n # k => n \in 0..(k - 1)
          BY <2>2
        <5> HIDE DEF Step
        <5> QED BY <3>2, <5>1
      <4>5. g[n] = IF n = k THEN Step(f, k) ELSE f[n]
        OBVIOUS
      <4> HIDE DEF g, Step
      <4> QED BY <4>3, <4>4, <4>5
    <3>4. Done(k, g)
      <4> HIDE DEF Step
      <4>1. g = [n \in 0..k |-> g[n]]
        OBVIOUS
      <4> HIDE DEF g
      <4> QED BY <3>3, <4>1
    <3> HIDE DEF g, Done
    <3> QED BY <2>2, <3>4
  <2> QED BY <2>3, <2>4
<1> DEFINE kept == CHOOSE f : Done(N, f)
<1>3. Done(N, kept)
  <2>1. N \in 0..N
    BY <1>1
  <2> HIDE DEF Done, N
  <2> QED BY <1>2, <2>1
<1>4. Uploads(entries) = kept[N]
  BY DEF Uploads
<1>5. \A n \in 0..N : kept[n] = Step(kept, n)
  <2> HIDE DEF Step, kept, N
  <2> QED BY <1>3
<1> DEFINE Wrong == {n \in 0..N : kept[n] \notin Seq(Entry)}
<1> HIDE DEF kept
<1>6. Wrong = {}
  <2> SUFFICES ASSUME Wrong # {} PROVE FALSE
    OBVIOUS
  <2>1. PICK k \in Wrong : \A l \in Wrong : k <= l
    <3>1. Wrong \subseteq Nat
      BY <1>1
    <3> HIDE DEF Wrong
    <3> QED BY <3>1, LeastExists
  <2>2. k \in 0..N /\ kept[k] \notin Seq(Entry)
    BY <2>1
  <2> HIDE DEF Bad, Wrong
  <2>7. kept[k] = IF k = 0 THEN <<>>
                  ELSE IF IsIgnored(entries[k]) THEN kept[k - 1]
                  ELSE Append(kept[k - 1], entries[k])
    BY <1>5, <2>2
  <2> HIDE DEF N, Step
  <2>3. k # 0
    <3>1. <<>> \in Seq(Entry)
      OBVIOUS
    <3> QED BY <2>7, <2>2, <3>1
  <2>4. k - 1 \in 0..N /\ k - 1 < k /\ k \in 1..N
    BY <1>1, <2>2, <2>3
  <2>5. kept[k - 1] \in Seq(Entry)
    <3>1. k - 1 \in Int /\ k \in Int
      BY <2>2
    <3>2. k - 1 \notin Wrong
      BY <2>1, <2>4, <3>1
    <3> QED BY <2>4, <3>2 DEF Wrong
  <2>6. entries[k] \in Entry
    BY <2>4 DEF N
  <2>8. Append(kept[k - 1], entries[k]) \in Seq(Entry)
    BY <2>5, <2>6
  <2> QED BY <2>7, <2>2, <2>3, <2>5, <2>8
<1>7. N \in 0..N
  BY <1>1
<1> HIDE DEF N
<1> QED BY <1>4, <1>6, <1>7

\* The next version of a slot is larger than those it has.
LEMMA NextVersion ==
  ASSUME BulkInv, NEW slot
  PROVE  /\ NextSaveVersion(slot) \in Nat \ {0}
         /\ NextSaveVersion(slot) <= Len(revisions) + 1
         /\ \A i \in InSlot(slot) : revisions[i].version < NextSaveVersion(slot)
<1> DEFINE V == {0} \cup {revisions[i].version : i \in InSlot(slot)}
<1>1. Len(revisions) \in Nat /\ DOMAIN revisions = 1..Len(revisions)
  <2>1. revisions \in Seq(Revision)
    BY DEF BulkInv
  <2> QED BY <2>1
<1>2. \A i \in InSlot(slot) : /\ i \in 1..Len(revisions)
                              /\ revisions[i].version \in Nat
                              /\ revisions[i].version <= i
  <2>1. revisions \in Seq(Revision) /\ \A i \in DOMAIN revisions : revisions[i].version <= i
    BY DEF BulkInv
  <2>2. \A i \in 1..Len(revisions) : revisions[i] \in Revision
    BY <2>1
  <2> QED BY <1>1, <2>1, <2>2 DEF InSlot, Revision
<1>3. V \subseteq 0..Len(revisions) /\ V # {}
  BY <1>1, <1>2
<1>4. PICK m \in V : \A n \in V : n <= m
  <2> HIDE DEF V
  <2> QED BY <1>1, <1>3, GreatestExists
<1>5. NextSaveVersion(slot) = 1 + Max(V)
  BY DEF NextSaveVersion
<1> DEFINE top == Max(V)
<1>6. top \in V /\ \A n \in V : n <= top
  <2> HIDE DEF V
  <2>1. V \subseteq Int
    BY <1>3
  <2>2. m \in V /\ \A n \in V : m >= n
    BY <1>4, <2>1
  <2>3. top \in V /\ \A n \in V : top >= n
    BY <2>2 DEF Max
  <2> QED BY <2>1, <2>3
<1>7. \A i \in InSlot(slot) : revisions[i].version \in V
  OBVIOUS
<1> HIDE DEF V, top
<1>8. top \in 0..Len(revisions)
  BY <1>3, <1>6
<1>9. NextSaveVersion(slot) = 1 + top
  BY <1>5 DEF top
<1>10. \A i \in InSlot(slot) : revisions[i].version <= top
  BY <1>6, <1>7
<1> QED BY <1>1, <1>2, <1>8, <1>9, <1>10

LEMMA OpenedIsSound ==
  ASSUME NEW kind \in {"page", "helper", "list"}, NEW sent \in Seq(Entry), sent # <<>>
  PROVE  /\ Opened(kind, sent) \in Request
         /\ Opened(kind, sent).kind = kind /\ Opened(kind, sent).sent = sent
         /\ Opened(kind, sent).results = <<>>
         /\ \/ Opened(kind, sent).step = "check" /\ Opened(kind, sent).entries # <<>>
            \/ Opened(kind, sent).step = "refused"
<1>1. Uploads(sent) \in Seq(Entry)
  BY UploadsAreEntries
<1>2. sent # <<>> /\ <<>> \in Seq(Outcome) /\ <<>> \in Seq(Entry)
  OBVIOUS
<1>3. CASE kind = "list"
  BY <1>2, <1>3 DEF Opened, NoRequest, Request
<1>4. CASE kind # "list" /\ Expands(sent)
  <2>1. Uploads(sent) # <<>>
    BY <1>4 DEF Expands
  <2> QED BY <1>1, <1>2, <1>4, <2>1 DEF Opened, NoRequest, Request
<1>5. CASE kind # "list" /\ ~Expands(sent)
  BY <1>1, <1>2, <1>5 DEF Opened, NoRequest, Request
<1> QED BY <1>3, <1>4, <1>5


\* The state and the answer after the result of the current entry.
LEMMA NextResult ==
  ASSUME BulkInv, request.step \in {"check", "create"}, NEW o \in Outcome,
         request' = WithResult(o), NEW c, c = Current,
         rejected \subseteq rejected',
         \A i \in DOMAIN revisions : i \in DOMAIN revisions' /\ revisions'[i] = revisions[i],
         o \in {"stored", "ignored", "stale"} =>
            \E i \in DOMAIN revisions' : revisions'[i].sha = c.sha,
         o = "unsupported" /\ request.kind # "list" => c.sha \in rejected',
         o = "stored" => revisions'[NewestOf(InSlot(c.slot))'].sha = c.sha
  PROVE  /\ request' \in Request /\ Answers' /\ CreatesAnew'
         /\ request'.kind = request.kind /\ request'.sent = request.sent
         /\ \A k \in DOMAIN request'.results : ResultIsTrue(k)'
<1> DEFINE rs == request.results
           es == request.entries
           n == Len(rs) + 1
<1>1. /\ request \in Request /\ rs \in Seq(Outcome) /\ es \in Seq(Entry)
      /\ Len(rs) < Len(es)
  <2>1. request \in Request /\ Answers
    BY DEF BulkInv
  <2> QED BY <2>1 DEF Answers, Request
<1>2. /\ request'.kind = request.kind /\ request'.sent = request.sent
      /\ request'.entries = es /\ request'.results = Append(rs, o)
      /\ request'.step = (IF Len(Append(rs, o)) = Len(es) THEN "answer" ELSE "check")
  BY <1>1 DEF WithResult, Request
<1>3. request' \in Request
  <2>1. Append(rs, o) \in Seq(Outcome)
    BY <1>1
  <2> HIDE DEF rs, es
  <2>2. request' = [request EXCEPT !.results = Append(rs, o),
                      !.step = IF Len(Append(rs, o)) = Len(es) THEN "answer" ELSE "check"]
    BY DEF WithResult, rs, es
  <2> QED BY <1>1, <2>1, <2>2 DEF Request
<1> HIDE DEF rs, es
<1>4. Len(Append(rs, o)) = n /\ DOMAIN Append(rs, o) = 1..n /\ n \in Nat /\ n <= Len(es)
      /\ DOMAIN rs = 1..Len(rs)
  BY <1>1
<1>5. Answers'
  <2>1. Len(request'.results) = n /\ Len(request'.entries) = Len(es)
    BY <1>2, <1>4
  <2>2. request'.step = (IF n = Len(es) THEN "answer" ELSE "check")
    BY <1>2, <1>4
  <2>3. n < Len(es) \/ n = Len(es)
    BY <1>1, <1>4
  <2> QED BY <2>1, <2>2, <2>3 DEF Answers
<1>6. CreatesAnew'
  <2>1. request'.step # "create"
    BY <1>2
  <2> QED BY <2>1 DEF CreatesAnew
<1>7. ASSUME NEW k \in 1..n PROVE ResultIsTrue(k)'
  <2>1. CASE k = n
    <3>1. Append(rs, o)[k] = o /\ es[k] = c
      BY <1>1, <2>1 DEF rs, es, Current
    <3> QED BY <1>2, <3>1 DEF ResultIsTrue
  <2>2. CASE k # n
    <3>1. k \in DOMAIN rs /\ Append(rs, o)[k] = rs[k] /\ k # n
      BY <1>1, <1>4, <2>2
    <3>2. ResultIsTrue(k)
      BY <3>1 DEF BulkInv, rs
    <3> QED BY <1>2, <1>4, <3>1, <3>2 DEF ResultIsTrue, rs, es
  <2> QED BY <2>1, <2>2
<1> QED BY <1>2, <1>3, <1>4, <1>5, <1>6, <1>7

LEMMA BulkInitInv == BulkInit => BulkInv
<1> SUFFICES ASSUME BulkInit PROVE BulkInv
  OBVIOUS
<1>1. /\ revisions = <<>> /\ rejected = {} /\ request = NoRequest
  BY DEF BulkInit
<1>2. revisions \in Seq(Revision) /\ DOMAIN revisions = {}
  BY <1>1
<1>3. request \in Request /\ request.results = <<>> /\ request.entries = <<>>
      /\ request.step = "done"
  BY <1>1 DEF NoRequest, Request
<1>4. DOMAIN request.results = {}
  BY <1>3
<1> QED BY <1>1, <1>2, <1>3, <1>4 DEF BulkInv, NoTwins, Answers, CreatesAnew

\* What the client sends, for the first time or again.
LEMMA OpeningInv ==
  ASSUME BulkInv, NEW kind \in {"page", "helper", "list"}, NEW sent \in Seq(Entry),
         sent # <<>>, request' = Opened(kind, sent), UNCHANGED <<revisions, rejected>>
  PROVE  BulkInv'
<1>1. request' \in Request /\ Answers' /\ CreatesAnew' /\ DOMAIN request'.results = {}
  <2>1. /\ request' \in Request /\ request'.results = <<>>
        /\ \/ request'.step = "check" /\ request'.entries # <<>>
           \/ request'.step = "refused"
    <3>1. /\ Opened(kind, sent) \in Request /\ Opened(kind, sent).results = <<>>
          /\ \/ Opened(kind, sent).step = "check" /\ Opened(kind, sent).entries # <<>>
             \/ Opened(kind, sent).step = "refused"
      BY OpenedIsSound
    <3> QED BY <3>1
  <2>2. request'.entries \in Seq(Entry)
    BY <2>1 DEF Request
  <2>3. request'.entries # <<>> => Len(request'.entries) > 0
    BY <2>2
  <2>4. Len(request'.results) = 0
    BY <2>1
  <2>5. request'.step \notin {"answer", "done", "create"}
    BY <2>1
  <2>6. Answers' /\ CreatesAnew'
    BY <2>1, <2>3, <2>4, <2>5 DEF Answers, CreatesAnew
  <2> QED BY <2>1, <2>6
<1>2. request'.kind # "none" /\ request'.sent # <<>>
  BY OpenedIsSound
<1> QED BY <1>1, <1>2 DEF BulkInv, NoTwins

LEMMA SendInv ==
  ASSUME BulkInv, NEW kind \in {"page", "helper", "list"}, NEW n \in 1..MaxEntries,
         NEW entries \in [1..n -> Entry], Send(kind, entries)
  PROVE  BulkInv'
<1>1. n \in Nat /\ n > 0
  BY BulkAssumption
<1>2. entries \in Seq(Entry) /\ Len(entries) = n
  BY <1>1
<1>3. entries # <<>>
  BY <1>1, <1>2
<1> QED BY <1>2, <1>3, OpeningInv DEF Send

LEMMA BulkRestartInv == ASSUME BulkInv, Restart PROVE BulkInv'
<1>1. /\ request \in Request /\ request.kind # "none" /\ request.sent # <<>>
      /\ request' = Opened(request.kind, request.sent)
  BY DEF BulkInv, Restart
<1>2. request.kind \in {"page", "helper", "list"} /\ request.sent \in Seq(Entry)
  BY <1>1 DEF Request
<1> QED BY <1>1, <1>2, OpeningInv DEF Restart

LEMMA CurrentIsAnEntry ==
  ASSUME BulkInv, request.step \in {"check", "create"}
  PROVE  Current \in Entry /\ request.kind # "none" /\ request.sent # <<>>
<1>1. request.entries \in Seq(Entry) /\ request.results \in Seq(Outcome)
  BY DEF BulkInv, Request
<1>2. Len(request.results) < Len(request.entries)
  BY DEF BulkInv, Answers
<1>3. Len(request.results) + 1 \in 1..Len(request.entries)
  BY <1>1, <1>2
<1>4. Current \in Entry
  BY <1>1, <1>3 DEF Current
<1> QED BY <1>4 DEF BulkInv

LEMMA RejectEntryInv == ASSUME BulkInv, RejectEntry PROVE BulkInv'
<1>1. request.step = "check" /\ Current.sha = Unsupported /\ UNCHANGED revisions
  BY DEF RejectEntry
<1>2. CASE request.kind = "list"
  <2>1. request' = [request EXCEPT !.step = "create"] /\ UNCHANGED rejected
    BY <1>2 DEF RejectEntry
  <2>2. request \in Request /\ Len(request.results) < Len(request.entries)
    BY <1>1 DEF BulkInv, Answers
  <2>3. /\ request' \in Request /\ request'.results = request.results
        /\ request'.entries = request.entries /\ request'.kind = request.kind
        /\ request'.sent = request.sent /\ request'.step = "create"
    BY <2>1, <2>2 DEF Request
  <2>4. Answers'
    BY <2>2, <2>3 DEF Answers
  <2>5. Current' = Current
    BY <2>3 DEF Current
  <2>6. CreatesAnew'
    BY <1>1, <1>2, <2>3, <2>5 DEF CreatesAnew
  <2>7. \A k \in DOMAIN request'.results : ResultIsTrue(k)'
    <3> SUFFICES ASSUME NEW k \in DOMAIN request.results PROVE ResultIsTrue(k)'
      BY <2>3
    <3>1. ResultIsTrue(k)
      BY DEF BulkInv
    <3> QED BY <1>1, <2>1, <2>3, <3>1 DEF ResultIsTrue, InSlot, NewestOf
  <2>8. request'.kind # "none" /\ request'.sent # <<>>
    BY <1>1, <2>3 DEF BulkInv
  <2> QED BY <1>1, <2>1, <2>3, <2>4, <2>6, <2>7, <2>8 DEF BulkInv, NoTwins
<1>3. CASE request.kind # "list"
  <2>1. /\ request' = WithResult("unsupported")
        /\ rejected' = rejected \cup {Current.sha}
    BY <1>3 DEF RejectEntry
  <2> DEFINE c == Current
  <2>2. c.sha \in rejected' /\ rejected \subseteq rejected' /\ rejected' \subseteq {Unsupported}
    BY <1>1, <2>1 DEF BulkInv
  <2>3. "unsupported" \in Outcome
    BY DEF Outcome
  <2>4. /\ request' \in Request /\ Answers' /\ CreatesAnew'
        /\ request'.kind = request.kind /\ request'.sent = request.sent
        /\ \A k \in DOMAIN request'.results : ResultIsTrue(k)'
    <3>1. c = Current
      OBVIOUS
    <3> HIDE DEF c
    <3> QED BY <1>1, <2>1, <2>2, <2>3, <3>1, NextResult
  <2> QED BY <1>1, <2>2, <2>4, CurrentIsAnEntry DEF BulkInv, NoTwins
<1> QED BY <1>2, <1>3


LEMMA RefuseInv == ASSUME BulkInv, Refuse PROVE BulkInv'
<1> DEFINE c == Current
<1>1. /\ request.step = "check" /\ request' = WithResult("not allowed")
      /\ UNCHANGED <<revisions, rejected>>
  BY DEF Refuse
<1>2. "not allowed" \in Outcome
  BY DEF Outcome
<1>3. /\ request' \in Request /\ Answers' /\ CreatesAnew'
      /\ request'.kind = request.kind /\ request'.sent = request.sent
      /\ \A k \in DOMAIN request'.results : ResultIsTrue(k)'
  <2>1. c = Current
    OBVIOUS
  <2> HIDE DEF c
  <2> QED BY <1>1, <1>2, <2>1, NextResult
<1> QED BY <1>1, <1>3, CurrentIsAnEntry DEF BulkInv, NoTwins

\* No revision has the content of what is no duplicate.
LEMMA DuplicateIsStored ==
  ASSUME NEW e
  PROVE  /\ Duplicate(e) \in {"none", "ignored", "stale"}
         /\ Duplicate(e) = "none" <=> \A i \in DOMAIN revisions : revisions[i].sha # e.sha
BY DEF Duplicate, InSlot

LEMMA CheckDuplicateInv == ASSUME BulkInv, CheckDuplicate PROVE BulkInv'
<1> DEFINE c == Current
           found == Duplicate(c)
<1>1. /\ request.step = "check" /\ c.sha # Unsupported
      /\ request' = IF found = "none" THEN [request EXCEPT !.step = "create"]
                    ELSE WithResult(found)
      /\ UNCHANGED <<revisions, rejected>>
  BY DEF CheckDuplicate
<1>2. found \in {"none", "ignored", "stale"}
      /\ (found = "none" <=> \A i \in DOMAIN revisions : revisions[i].sha # c.sha)
  BY DuplicateIsStored
<1>3. c = Current
  OBVIOUS
<1> HIDE DEF c, found
<1>4. CASE found = "none"
  <2>1. request \in Request /\ Len(request.results) < Len(request.entries)
    BY <1>1 DEF BulkInv, Answers
  <2>2. /\ request' \in Request /\ request'.results = request.results
        /\ request'.entries = request.entries /\ request'.kind = request.kind
        /\ request'.sent = request.sent /\ request'.step = "create"
    BY <1>1, <1>4, <2>1 DEF Request
  <2>3. Answers'
    BY <2>1, <2>2 DEF Answers
  <2>4. Current' = c
    BY <1>3, <2>2 DEF Current
  <2>5. CreatesAnew'
    BY <1>1, <1>2, <1>4, <2>4 DEF CreatesAnew
  <2>6. \A k \in DOMAIN request'.results : ResultIsTrue(k)'
    <3> SUFFICES ASSUME NEW k \in DOMAIN request.results PROVE ResultIsTrue(k)'
      BY <2>2
    <3>1. ResultIsTrue(k)
      BY DEF BulkInv
    <3>2. UNCHANGED <<revisions, rejected>>
      BY <1>1
    <3> QED BY <2>2, <3>1, <3>2 DEF ResultIsTrue, InSlot, NewestOf
  <2>7. request'.kind # "none" /\ request'.sent # <<>>
    BY <1>1, <2>2 DEF BulkInv
  <2> QED BY <1>1, <2>2, <2>3, <2>5, <2>6, <2>7 DEF BulkInv, NoTwins
<1>5. CASE found # "none"
  <2>1. request' = WithResult(found) /\ found \in Outcome
        /\ found \notin {"unsupported", "stored"}
    BY <1>1, <1>2, <1>5 DEF Outcome
  <2>2. \E i \in DOMAIN revisions' : revisions'[i].sha = c.sha
    BY <1>1, <1>2, <1>5
  <2>3. /\ request' \in Request /\ Answers' /\ CreatesAnew'
        /\ request'.kind = request.kind /\ request'.sent = request.sent
        /\ \A k \in DOMAIN request'.results : ResultIsTrue(k)'
    BY <1>1, <1>3, <2>1, <2>2, NextResult
  <2> QED BY <1>1, <2>3, CurrentIsAnEntry DEF BulkInv, NoTwins
<1> QED BY <1>4, <1>5

LEMMA CreateEntryInv == ASSUME BulkInv, CreateEntry PROVE BulkInv'
<1>6. PICK c : c = Current
  OBVIOUS
<1> DEFINE v == NextSaveVersion(c.slot)
           new == [slot |-> c.slot, sha |-> c.sha, version |-> v]
           N == Len(revisions)
<1>1. /\ request.step = "create" /\ c.sha # Unsupported
      /\ revisions' = Append(revisions, new)
      /\ request' = WithResult("stored") /\ UNCHANGED rejected
  BY <1>6 DEF CreateEntry
<1>2. c \in Entry
  BY <1>1, <1>6, CurrentIsAnEntry
<1>3. \A i \in DOMAIN revisions : revisions[i].sha # c.sha
  BY <1>1, <1>6 DEF BulkInv, CreatesAnew
<1>4. v \in Nat \ {0} /\ v <= N + 1 /\ \A i \in InSlot(c.slot) : revisions[i].version < v
  BY NextVersion
<1>5. revisions \in Seq(Revision) /\ \A i \in DOMAIN revisions : revisions[i].version <= i
  BY DEF BulkInv
<1> HIDE DEF v
<1>7. new \in Revision /\ new.slot = c.slot /\ new.sha = c.sha /\ new.version = v
  BY <1>2, <1>4 DEF Entry, Revision
<1> HIDE DEF new
<1>8. /\ revisions' \in Seq(Revision) /\ N \in Nat
      /\ DOMAIN revisions = 1..N /\ DOMAIN revisions' = 1..(N + 1)
      /\ revisions'[N + 1] = new
      /\ \A i \in 1..N : revisions'[i] = revisions[i]
  BY <1>1, <1>5, <1>7
<1> HIDE DEF N
<1>9. NoTwins'
  BY <1>3, <1>7, <1>8 DEF BulkInv, NoTwins
<1>10. \A i \in DOMAIN revisions' : revisions'[i].version <= i
  BY <1>4, <1>5, <1>7, <1>8
<1>11. InSlot(c.slot)' = InSlot(c.slot) \cup {N + 1}
  <2>1. \A i \in 1..(N + 1) : i \in 1..N \/ i = N + 1
    BY <1>8
  <2> QED BY <1>7, <1>8, <2>1 DEF InSlot
<1>12. NewestOf(InSlot(c.slot))' = N + 1
  <2> DEFINE is == InSlot(c.slot)'
  <2>1. NewestOf(InSlot(c.slot))' =
          CHOOSE i \in is : \A j \in is \ {i} :
            \/ revisions'[i].version > revisions'[j].version
            \/ revisions'[i].version = revisions'[j].version /\ i > j
    BY DEF NewestOf
  <2>2. \A j \in is \ {N + 1} : j \in InSlot(c.slot) /\ j \in 1..N
    BY <1>8, <1>11 DEF InSlot
  <2>3. N + 1 \in is /\ revisions'[N + 1].version = v
    BY <1>7, <1>8, <1>11
  <2>4. \A j \in is \ {N + 1} : revisions'[j].version \in Nat /\ revisions'[j].version < v
    <3> SUFFICES ASSUME NEW j \in is \ {N + 1}
                 PROVE  revisions'[j].version \in Nat /\ revisions'[j].version < v
      OBVIOUS
    <3>1. j \in 1..N /\ j \in InSlot(c.slot)
      BY <2>2
    <3>2. revisions[j] \in Revision
      BY <1>5, <1>8, <3>1
    <3> QED BY <1>4, <1>8, <3>1, <3>2 DEF Revision
  <2> HIDE DEF is
  <2>5. \A i \in is :
          (\A j \in is \ {i} : \/ revisions'[i].version > revisions'[j].version
                               \/ revisions'[i].version = revisions'[j].version /\ i > j)
          => i = N + 1
    <3> SUFFICES ASSUME NEW i \in is, i # N + 1,
                        \/ revisions'[i].version > revisions'[N + 1].version
                        \/ revisions'[i].version = revisions'[N + 1].version /\ i > N + 1
                 PROVE  FALSE
      BY <2>3
    <3>1. revisions'[i].version \in Nat /\ revisions'[i].version < v
      BY <2>4
    <3> QED BY <1>4, <2>3, <3>1
  <2>6. \A j \in is \ {N + 1} : revisions'[N + 1].version > revisions'[j].version
    BY <1>4, <2>3, <2>4
  <2> QED BY <2>1, <2>3, <2>5, <2>6
<1>13. /\ request' \in Request /\ Answers' /\ CreatesAnew'
       /\ request'.kind = request.kind /\ request'.sent = request.sent
       /\ \A k \in DOMAIN request'.results : ResultIsTrue(k)'
  <2>1. "stored" \in Outcome
    BY DEF Outcome
  <2>2. \A i \in DOMAIN revisions : i \in DOMAIN revisions' /\ revisions'[i] = revisions[i]
    BY <1>8
  <2>3. \E i \in DOMAIN revisions' : revisions'[i].sha = c.sha
    BY <1>7, <1>8
  <2>4. revisions'[NewestOf(InSlot(c.slot))'].sha = c.sha
    BY <1>7, <1>8, <1>12
  <2> QED BY <1>1, <1>6, <2>1, <2>2, <2>3, <2>4, NextResult
<1> QED BY <1>1, <1>8, <1>9, <1>10, <1>13, CurrentIsAnEntry DEF BulkInv

LEMMA CreateEntryFailsInv == ASSUME BulkInv, CreateEntryFails PROVE BulkInv'
<1>1. PICK c : c = Current
  OBVIOUS
<1>2. PICK o \in {"unsupported", "failed"} :
        /\ request.step = "create" /\ UNCHANGED <<revisions, rejected>>
        /\ request' = WithResult(o)
        /\ o = "unsupported" => c.sha = Unsupported
  BY <1>1 DEF CreateEntryFails
<1>3. o \in Outcome /\ o \notin {"stored", "ignored", "stale"}
  BY DEF Outcome
<1>4. o = "unsupported" => request.kind = "list"
  BY <1>1, <1>2 DEF BulkInv, CreatesAnew
<1>5. /\ request' \in Request /\ Answers' /\ CreatesAnew'
      /\ request'.kind = request.kind /\ request'.sent = request.sent
      /\ \A k \in DOMAIN request'.results : ResultIsTrue(k)'
  BY <1>1, <1>2, <1>3, <1>4, NextResult
<1> QED BY <1>2, <1>5, CurrentIsAnEntry DEF BulkInv, NoTwins

LEMMA AnswerInv == ASSUME BulkInv, Answer PROVE BulkInv'
<1>1. /\ request.step = "answer" /\ request' = [request EXCEPT !.step = "done"]
      /\ UNCHANGED <<revisions, rejected>>
  BY DEF Answer
<1>2. request \in Request /\ Len(request.results) = Len(request.entries)
  BY <1>1 DEF BulkInv, Answers
<1>3. /\ request' \in Request /\ request'.results = request.results
      /\ request'.entries = request.entries /\ request'.kind = request.kind
      /\ request'.sent = request.sent /\ request'.step = "done"
  BY <1>1, <1>2 DEF Request
<1>4. Answers' /\ CreatesAnew'
  BY <1>2, <1>3 DEF Answers, CreatesAnew
<1>5. \A k \in DOMAIN request'.results : ResultIsTrue(k)'
  <2> SUFFICES ASSUME NEW k \in DOMAIN request.results PROVE ResultIsTrue(k)'
    BY <1>3
  <2>1. ResultIsTrue(k)
    BY DEF BulkInv
  <2> QED BY <1>1, <1>3, <2>1 DEF ResultIsTrue, InSlot, NewestOf
<1> QED BY <1>1, <1>3, <1>4, <1>5 DEF BulkInv, NoTwins

LEMMA BulkNextInv == ASSUME BulkInv, [BulkNext]_bulkVars PROVE BulkInv'
<1>1. CASE UNCHANGED bulkVars
  <2>1. UNCHANGED <<revisions, rejected, request>>
    BY <1>1 DEF bulkVars
  <2>2. NoTwins' /\ Answers' /\ CreatesAnew'
    BY <2>1 DEF BulkInv, NoTwins, Answers, CreatesAnew, Current
  <2>3. \A k \in DOMAIN request'.results : ResultIsTrue(k)'
    <3> SUFFICES ASSUME NEW k \in DOMAIN request.results PROVE ResultIsTrue(k)'
      BY <2>1
    <3>1. ResultIsTrue(k)
      BY DEF BulkInv
    <3> QED BY <2>1, <3>1 DEF ResultIsTrue, InSlot, NewestOf
  <2> QED BY <2>1, <2>2, <2>3 DEF BulkInv
<1> QED
  BY <1>1, SendInv, BulkRestartInv, RejectEntryInv, RefuseInv, CheckDuplicateInv,
     CreateEntryInv, CreateEntryFailsInv, AnswerInv DEF BulkNext

LEMMA BulkInvIsTyped == BulkInv => BulkTypeOK
<1> SUFFICES ASSUME BulkInv PROVE BulkTypeOK
  OBVIOUS
<1>1. revisions \in Seq(Revision) /\ request \in Request /\ rejected \subseteq {Unsupported}
  BY DEF BulkInv
<1>2. \A i \in DOMAIN revisions : revisions[i] \in Revision
  BY <1>1
<1>3. request.results \in Seq(Outcome) /\ request.entries \in Seq(Entry)
  BY <1>1 DEF Request
<1>4. Range(request.results) \subseteq Outcome
  <2>1. \A k \in DOMAIN request.results : request.results[k] \in Outcome
    BY <1>3
  <2> QED BY <2>1 DEF Range
<1>5. Len(request.results) <= Len(request.entries)
  <2>1. CASE request.step = "refused"
    <3>1. request.results = <<>>
      BY <2>1 DEF BulkInv, Answers
    <3> QED BY <1>3, <3>1
  <2>2. CASE request.step # "refused"
    <3>1. Len(request.results) \in Nat /\ Len(request.entries) \in Nat
      BY <1>3
    <3>2. request.step \in {"check", "create", "answer", "done"}
      BY <1>1, <2>2 DEF Request
    <3>3. Answers
      BY DEF BulkInv
    <3> QED BY <3>1, <3>2, <3>3 DEF Answers
  <2> QED BY <2>1, <2>2
<1> QED BY <1>1, <1>2, <1>4, <1>5 DEF BulkTypeOK, Revision

LEMMA BulkInvAnswers == BulkInv => RepeatedUploadsAddNothing
<1> SUFFICES ASSUME BulkInv PROVE RepeatedUploadsAddNothing
  OBVIOUS
<1>1. NoTwins /\ \A k \in DOMAIN request.results : ResultIsTrue(k)
  BY DEF BulkInv
<1>2. request.step = "done" => Len(request.results) = Len(request.entries)
  BY DEF BulkInv, Answers
<1> QED BY <1>1, <1>2 DEF RepeatedUploadsAddNothing, NoTwins, ResultIsTrue

\* Revisions, rejected contents and results keep their types, and there are no
\* more results than entries (handleExpandedMultipartSaveUploads).
THEOREM BulkTypes == BulkSpec => []BulkTypeOK
BY BulkInitInv, BulkNextInv, BulkInvIsTyped, PTL DEF BulkSpec

\* However often a request is sent again, each content is stored once, and the
\* answer names what became of every entry
\* (handleExpandedMultipartSaveUploads).
THEOREM BulkUploadsAddNothing == BulkSpec => []RepeatedUploadsAddNothing
BY BulkInitInv, BulkNextInv, BulkInvAnswers, PTL DEF BulkSpec

----------------------------------------------------------------------------
\* Saves are numbered without gaps.
UsedInOrder ==
    \A i, j \in Ids : i < j /\ save[j] # NoSave => save[i] # NoSave

\* The list has every save, and of each its content and time.
ListIsComplete ==
    /\ tree \cup torn \subseteq DOMAIN list
    /\ \A i \in DOMAIN list : /\ save[i] # NoSave
                              /\ list[i].sha = save[i].sha
                              /\ list[i].at = save[i].at

\* What the rescan reads from the list is what the files say.
ListIsFresh ==
    step \in {"plan", "remove", "reindex"} =>
        \A i \in DOMAIN list : list[i] = save[i]

WorkOK ==
    /\ \A i \in work : save[i] # NoSave
    /\ step # "write" => DOMAIN writes = {}
    /\ \A i \in DOMAIN writes : save[i] # NoSave /\ writes[i] \in Ids

\* The plan leaves a copy of what is owed.
OwedIsKept ==
    /\ owed \cap Rejected = {}
    /\ \A c \in owed : \E i \in tree \ Planned : save[i].sha = c

\* No client gave a time of its own, and no save changed its key.
Undisturbed == ~refiled /\ \A i \in Ids : save[i] # NoSave => save[i].at = i

\* What the number of a save will be when the rescan has written its own.
Target(i) == IF i \in DOMAIN writes THEN writes[i] ELSE save[i].ver

Ordered ==
    \A i, j \in tree \cup torn :
        i < j /\ save[i].key = save[j].key => save[i].ver < save[j].ver

\* Numbers are only lowered, and to numbers in order.
Lowering ==
    /\ \A i \in DOMAIN writes : writes[i] < save[i].ver
    /\ \A i, j \in tree \cup torn :
           i < j /\ save[i].key = save[j].key => Target(i) < Target(j)

CleanupInv ==
    /\ CleanupTypeOK
    /\ UsedInOrder /\ ListIsComplete /\ ListIsFresh /\ WorkOK /\ OwedIsKept
    /\ Undisturbed => Ordered /\ Lowering
----------------------------------------------------------------------------
LEMMA LoadedIsSound ==
    ASSUME CleanupTypeOK
    PROVE  /\ DOMAIN Loaded = tree \cup torn
           /\ tree \cup torn \subseteq Ids
           /\ \A i \in tree \cup torn : /\ save[i] \in Save /\ save[i] # NoSave
                                        /\ Loaded[i] = save[i]
  BY CleanupAssumption DEF CleanupTypeOK, Loaded

LEMMA RemovalKeepsOrder ==
    ASSUME Undisturbed => Ordered /\ Lowering, UNCHANGED <<save, refiled>>,
           tree' \cup torn' \subseteq tree \cup torn,
           writes' = writes \/ DOMAIN writes' = {}
    PROVE  Undisturbed' => Ordered' /\ Lowering'
<1> SUFFICES ASSUME Undisturbed' PROVE Ordered' /\ Lowering'
  OBVIOUS
<1>1. Undisturbed
  BY DEF Undisturbed
<1>2. Ordered'
  BY <1>1 DEF Ordered
<1>3. CASE writes' = writes
  <2>1. \A i : Target(i)' = Target(i)
    BY <1>3 DEF Target
  <2>2. Lowering
    BY <1>1
  <2> QED BY <1>2, <1>3, <2>1, <2>2 DEF Lowering
<1>4. CASE DOMAIN writes' = {}
  BY <1>2, <1>4 DEF Ordered, Lowering, Target
<1> QED BY <1>2, <1>3, <1>4

\* Steps that only go on to another one, and read the list again or not.
LEMMA GoKeepsHistory ==
    ASSUME CleanupInv, UNCHANGED <<save, tree, torn, refiled, owed, cleanupFaults>>,
           list' = list \/ list' = Loaded,
           step' \in {"idle", "scan", "plan", "reindex"},
           step' = "plan" => list' = Loaded,
           step' = "reindex" => list' = list /\ step = "remove",
           work' = {} \/ work' = work \ {} \/ work' = tree \cup torn \/ \E i : work' = work \ {i},
           DOMAIN writes' = {}
    PROVE  CleanupInv'
<1>1. /\ DOMAIN Loaded = tree \cup torn
      /\ tree \cup torn \subseteq Ids
      /\ \A i \in tree \cup torn : save[i] \in Save /\ save[i] # NoSave /\ Loaded[i] = save[i]
  BY LoadedIsSound DEF CleanupInv
<1>2. work' \subseteq work \cup tree \cup torn /\ \A i \in work' : save[i] # NoSave
  BY <1>1 DEF CleanupInv, WorkOK
<1>3. CleanupTypeOK'
  BY <1>1, <1>2 DEF CleanupInv, CleanupTypeOK
<1>4. UsedInOrder' /\ ListIsComplete'
  BY <1>1 DEF CleanupInv, UsedInOrder, ListIsComplete
<1>5. ListIsFresh'
  BY <1>1 DEF CleanupInv, ListIsFresh
<1>6. WorkOK'
  BY <1>2 DEF CleanupInv, WorkOK
<1>7. OwedIsKept'
  <2>1. Planned' = {}
    BY DEF Planned
  <2> QED BY <2>1 DEF CleanupInv, OwedIsKept
<1>8. Undisturbed' => Ordered' /\ Lowering'
  BY RemovalKeepsOrder DEF CleanupInv
<1> QED BY <1>3, <1>4, <1>5, <1>6, <1>7, <1>8 DEF CleanupInv

LEMMA ControlKeepsHistory ==
    ASSUME CleanupInv,
           \/ StartRescan \/ (\E i \in Ids : ScanFails(i) \/ ScanLeaves(i)) \/ ScanEnds
           \/ RemovalEnds \/ RescanEnds \/ RestartCleanup
    PROVE  CleanupInv'
<1>0. step # "write" => DOMAIN writes = {}
  BY DEF CleanupInv, WorkOK
<1>8. DOMAIN [j \in {} |-> 0] = {}
  OBVIOUS
<1>1. CASE StartRescan
  BY <1>0, <1>1, GoKeepsHistory DEF StartRescan, Go
<1>2. ASSUME NEW i \in Ids, ScanFails(i) PROVE CleanupInv'
  BY <1>8, <1>2, GoKeepsHistory DEF ScanFails, Go, Abort
<1>3. ASSUME NEW i \in Ids, ScanLeaves(i) PROVE CleanupInv'
  BY <1>0, <1>3, GoKeepsHistory DEF ScanLeaves, Go
<1>4. CASE ScanEnds
  BY <1>0, <1>4, GoKeepsHistory DEF ScanEnds, Go
<1>5. CASE RemovalEnds
  BY <1>0, <1>5, GoKeepsHistory DEF RemovalEnds, Go
<1>6. CASE RescanEnds
  BY <1>6, GoKeepsHistory DEF RescanEnds, Go
<1>7. CASE RestartCleanup
  BY <1>8, <1>7, GoKeepsHistory DEF RestartCleanup, Go, Abort
<1> QED BY <1>1, <1>2, <1>3, <1>4, <1>5, <1>6, <1>7


LEMMA RemovalsKeep ==
    ASSUME CleanupInv, NEW i \in Ids, RemoveDirectory(i), UNCHANGED <<save, list, refiled, owed>>,
           \/ step = "scan" /\ save[i].sha \in Rejected /\ i \in work
           \/ step = "remove" /\ i \in work
    PROVE  CleanupInv'
<1>1. /\ tree' = tree \ {i}
      /\ torn' = torn \ {i} \/ (torn' = torn \cup {i} /\ i \in tree)
      /\ tree' \cup torn' \subseteq tree \cup torn
      /\ torn' \cap tree' = {}
  BY DEF RemoveDirectory, CleanupInv, CleanupTypeOK
<1>2. /\ \/ step' = step /\ work' = work \ {i} /\ writes' = writes
         \/ step' = "idle" /\ work' = {} /\ writes' = [j \in {} |-> 0]
      /\ step \in {"scan", "remove"} /\ i \in work
  BY DEF RemoveDirectory, Abort, Go
<1>3. DOMAIN writes' = {}
  <2>1. DOMAIN [j \in {} |-> 0] = {}
    OBVIOUS
  <2> QED BY <1>2, <2>1 DEF CleanupInv, WorkOK
<1>4. CleanupTypeOK'
  <2>1. cleanupFaults' \in 0..MaxCleanupFaults
    BY CleanupAssumption DEF RemoveDirectory, CleanupFault, CleanupInv, CleanupTypeOK
  <2>2. work' \subseteq Ids /\ step' \in {"idle", "scan", "remove"}
    BY <1>2 DEF CleanupInv, CleanupTypeOK
  <2> QED BY <1>1, <1>3, <2>1, <2>2 DEF CleanupInv, CleanupTypeOK
<1>5. UsedInOrder' /\ ListIsComplete' /\ ListIsFresh'
  BY <1>1, <1>2 DEF CleanupInv, UsedInOrder, ListIsComplete, ListIsFresh
<1>6. WorkOK'
  BY <1>2, <1>3 DEF CleanupInv, WorkOK
<1>7. OwedIsKept'
  <2> SUFFICES ASSUME NEW c \in owed
               PROVE  c \notin Rejected /\ \E j \in tree' \ Planned' : save[j].sha = c
    BY DEF OwedIsKept
  <2>1. c \notin Rejected
    BY DEF CleanupInv, OwedIsKept
  <2>2. PICK j \in tree \ Planned : save[j].sha = c
    BY DEF CleanupInv, OwedIsKept
  <2>3. j # i
    BY <2>1, <2>2, <1>2 DEF Planned
  <2>4. j \in tree' \ Planned'
    BY <1>1, <1>2, <2>2, <2>3 DEF Planned
  <2> QED BY <2>1, <2>2, <2>4
<1>8. Undisturbed' => Ordered' /\ Lowering'
  BY <1>1, <1>3, RemovalKeepsOrder DEF CleanupInv
<1> QED BY <1>4, <1>5, <1>6, <1>7, <1>8 DEF CleanupInv

LEMMA DeleteKeepsHistory ==
    ASSUME CleanupInv, NEW i \in Ids, Delete(i)
    PROVE  CleanupInv'
<1>0. UNCHANGED <<save, step, work, writes, refiled>>
  BY DEF Delete
<1>1. /\ tree' = tree \ {i} /\ i \in DOMAIN list
      /\ torn' = torn \ {i} \/ (torn' = torn \cup {i} /\ i \in tree)
      /\ tree' \cup torn' \subseteq tree \cup torn
      /\ torn' \cap tree' = {}
      /\ list' = [j \in tree' \cup torn' |-> save[j]]
  BY DEF Delete, CleanupInv, CleanupTypeOK
<1>2. /\ tree \cup torn \subseteq Ids
      /\ \A j \in tree \cup torn : save[j] \in Save /\ save[j] # NoSave
  BY LoadedIsSound DEF CleanupInv
<1>3. CleanupTypeOK'
  <2>1. cleanupFaults' \in 0..MaxCleanupFaults
    BY CleanupAssumption DEF Delete, CleanupFault, CleanupInv, CleanupTypeOK
  <2>2. owed' \subseteq Hashes
    BY DEF Delete, CleanupInv, CleanupTypeOK
  <2>3. DOMAIN list' \subseteq Ids /\ \A j \in DOMAIN list' : list'[j] \in Save
    BY <1>1, <1>2
  <2>4. /\ tree' \subseteq {j \in Ids : save[j] # NoSave}
        /\ torn' \subseteq {j \in Ids : save[j] # NoSave} \ tree'
    BY <1>1, <1>2
  <2> QED BY <1>0, <2>1, <2>2, <2>3, <2>4 DEF CleanupInv, CleanupTypeOK
<1>4. UsedInOrder' /\ ListIsComplete' /\ ListIsFresh'
  BY <1>0, <1>1, <1>2 DEF CleanupInv, UsedInOrder, ListIsComplete, ListIsFresh
<1>5. WorkOK'
  BY <1>0 DEF CleanupInv, WorkOK
<1>6. OwedIsKept'
  <2> SUFFICES ASSUME NEW c \in owed'
               PROVE  c \notin Rejected /\ \E j \in tree' \ Planned' : save[j].sha = c
    BY <1>0 DEF OwedIsKept
  <2>1. c \in owed /\ c \notin Rejected /\ Planned' = Planned
        /\ (c # list[i].sha \/ \E j \in tree' \ Planned : save[j].sha = c)
    BY <1>0 DEF Delete, CleanupInv, OwedIsKept, Planned
  <2>2. PICK j \in tree \ Planned : save[j].sha = c
    BY <2>1 DEF CleanupInv, OwedIsKept
  <2>3. CASE c # list[i].sha
    <3>1. save[i].sha = list[i].sha
      BY <1>1 DEF CleanupInv, ListIsComplete
    <3>2. j # i
      BY <2>2, <2>3, <3>1
    <3> QED BY <1>1, <2>1, <2>2, <3>2
  <2> QED BY <2>1, <2>3
<1>7. Undisturbed' => Ordered' /\ Lowering'
  BY <1>0, <1>1, RemovalKeepsOrder DEF CleanupInv
<1> QED BY <1>3, <1>4, <1>5, <1>6, <1>7 DEF CleanupInv

LEMMA NewNumber ==
    ASSUME CleanupInv, NEW k, NEW numbers,
           numbers = {save[j].ver : j \in {n \in tree \cup torn : save[n].key = k}}
    PROVE  /\ Max(numbers \cup {0}) \in 0..MaxSaves
           /\ \A n \in numbers : n \in Nat /\ n <= Max(numbers \cup {0})
<1> DEFINE S == numbers \cup {0}
           top == Max(S)
<1>1. \A n \in S : n \in 0..MaxSaves
  <2>1. \A j \in tree \cup torn : save[j] \in Save
    BY LoadedIsSound DEF CleanupInv
  <2>2. \A j \in tree \cup torn : save[j].ver \in 1..MaxSaves
    BY <2>1 DEF Save, Ids
  <2>3. \A n \in numbers : n \in 1..MaxSaves
    BY <2>2
  <2> QED BY <2>3, CleanupAssumption
<1>2. (\A n \in numbers : n \in S) /\ 0 \in S
  OBVIOUS
<1> HIDE DEF S
<1>6. S \subseteq 0..MaxSaves /\ S # {} /\ MaxSaves \in Nat
  BY <1>1, <1>2, CleanupAssumption
<1>3. PICK m \in S : \A n \in S : n <= m
  BY <1>6, GreatestExists
<1>4. m \in S /\ \A n \in S : m >= n
  BY <1>1, <1>3, <1>6
<1>5. top \in S /\ \A n \in S : top >= n
  BY <1>4 DEF Max
<1>7. top = Max(numbers \cup {0})
  BY DEF S
<1> HIDE DEF top
<1>8. top \in 0..MaxSaves
  BY <1>1, <1>5
<1>9. \A n \in numbers : n \in 0..MaxSaves /\ top >= n
  BY <1>1, <1>2, <1>5
<1>10. \A n \in numbers : n \in Nat /\ n <= top
  BY <1>6, <1>8, <1>9
<1> QED BY <1>7, <1>8, <1>10

LEMMA CreateKeepsHistory ==
    ASSUME CleanupInv, NEW k \in Keys, NEW c \in Hashes, c \notin Rejected,
           NEW r \in BOOLEAN, CreateSave(k, c, r)
    PROVE  CleanupInv'
<1> DEFINE numbers == {save[j].ver : j \in {n \in tree \cup torn : save[n].key = k}}
           Created(t) == [key |-> k, sha |-> c, rollback |-> r, at |-> t,
                          projection |-> FALSE, ver |-> 1 + Max(numbers \cup {0})]
<1>0. PICK i \in Ids, t \in 0..MaxSaves :
        /\ save[i] = NoSave /\ \A j \in 1..i-1 : save[j] # NoSave
        /\ Created(t).ver \in Ids
        /\ save' = [save EXCEPT ![i] = Created(t)]
        /\ list' = [j \in DOMAIN list \cup {i} |-> IF j = i THEN Created(t) ELSE list[j]]
        /\ tree' = tree \cup {i} /\ owed' = owed \cup {c}
        /\ UNCHANGED <<torn, step, work, writes, refiled, cleanupFaults>>
  BY DEF CreateSave
<1> DEFINE new == Created(t)
<1>1. /\ save[i] = NoSave /\ \A j \in 1..i-1 : save[j] # NoSave
      /\ new.ver \in Ids
      /\ save' = [save EXCEPT ![i] = new]
      /\ list' = [j \in DOMAIN list \cup {i} |-> IF j = i THEN new ELSE list[j]]
      /\ numbers = {save[j].ver : j \in {n \in tree \cup torn : save[n].key = k}}
  BY <1>0
<1>2. /\ tree' = tree \cup {i} /\ owed' = owed \cup {c}
      /\ UNCHANGED <<torn, step, work, writes, refiled, cleanupFaults>>
  BY <1>0
<1> HIDE DEF numbers
<1>12. new.ver = 1 + Max(numbers \cup {0})
  OBVIOUS
<1>3. /\ new \in Save /\ new # NoSave /\ new.sha = c /\ new.key = k
  <2>1. new.ver \in Ids
    BY <1>1
  <2> DEFINE v == 1 + Max(numbers \cup {0})
  <2>2. new = [key |-> k, sha |-> c, rollback |-> r, at |-> t, projection |-> FALSE,
               ver |-> v] /\ v \in Ids
    BY <2>1
  <2> HIDE DEF v, new
  <2>3. new \in Save
    BY <2>2 DEF Save
  <2> QED BY <2>2, <2>3, CleanupAssumption
<1> HIDE DEF new
<1>4. /\ tree \cup torn \subseteq Ids /\ i \notin tree \cup torn
      /\ \A j \in tree \cup torn : save[j] \in Save /\ save[j] # NoSave
      /\ \A j \in DOMAIN list : save[j] # NoSave
      /\ \A j \in work : save[j] # NoSave
      /\ \A j \in DOMAIN writes : save[j] # NoSave
  BY <1>1, LoadedIsSound DEF CleanupInv, ListIsComplete, WorkOK
<1>5. /\ save \in [Ids -> Save \cup {NoSave}]
      /\ save'[i] = new /\ \A j \in Ids : j # i => save'[j] = save[j]
  BY <1>1 DEF CleanupInv, CleanupTypeOK
<1>6. CleanupTypeOK'
  <2>1. save' \in [Ids -> Save \cup {NoSave}]
    BY <1>1, <1>3, <1>5
  <2>2. DOMAIN list' \subseteq Ids /\ \A j \in DOMAIN list' : list'[j] \in Save
    BY <1>1, <1>3 DEF CleanupInv, CleanupTypeOK
  <2>3. /\ tree' \subseteq {j \in Ids : save'[j] # NoSave}
        /\ torn' \subseteq {j \in Ids : save'[j] # NoSave} \ tree'
    <3>1. torn \cap tree = {}
      BY DEF CleanupInv, CleanupTypeOK
    <3> QED BY <1>2, <1>3, <1>4, <1>5, <3>1
  <2> QED BY <1>2, <2>1, <2>2, <2>3 DEF CleanupInv, CleanupTypeOK
<1>7. UsedInOrder'
  <2> SUFFICES ASSUME NEW a \in Ids, NEW b \in Ids, a < b, save'[b] # NoSave
               PROVE  save'[a] # NoSave
    BY DEF UsedInOrder
  <2>1. CASE a = i
    BY <1>3, <1>5, <2>1
  <2>2. CASE a # i /\ b # i
    BY <1>5, <2>2 DEF CleanupInv, UsedInOrder
  <2>3. CASE b = i
    <3>1. a \in 1..i-1 /\ a # i
      BY <2>3, CleanupAssumption DEF Ids
    <3> QED BY <1>1, <1>5, <3>1
  <2> QED BY <2>1, <2>2, <2>3
<1>8. ListIsComplete' /\ ListIsFresh'
  <2>1. \A j \in DOMAIN list : j \in Ids /\ j # i
    BY <1>1, <1>4 DEF CleanupInv, CleanupTypeOK
  <2>2. /\ DOMAIN list' = DOMAIN list \cup {i} /\ list'[i] = new
        /\ \A j \in DOMAIN list : list'[j] = list[j] /\ save'[j] = save[j]
    BY <1>1, <1>5, <2>1
  <2>3. ListIsComplete'
    BY <1>2, <1>3, <1>5, <2>2 DEF CleanupInv, ListIsComplete
  <2>4. ListIsFresh'
    BY <1>2, <1>5, <2>2 DEF CleanupInv, ListIsFresh
  <2> QED BY <2>3, <2>4
<1>9. WorkOK'
  <2>1. work \subseteq Ids /\ DOMAIN writes \subseteq Ids
    BY DEF CleanupInv, CleanupTypeOK
  <2>2. \A j \in work \cup DOMAIN writes : save'[j] # NoSave
    BY <1>1, <1>4, <1>5, <2>1
  <2> QED BY <1>2, <2>2 DEF CleanupInv, WorkOK
<1>10. OwedIsKept'
  <2>1. i \notin Planned /\ Planned' = Planned
    BY <1>1, <1>2, <1>4 DEF Planned
  <2>2. \A d \in owed' : d \notin Rejected
    BY <1>2 DEF CleanupInv, OwedIsKept
  <2>3. \E j \in tree' \ Planned' : save'[j].sha = c
    BY <1>2, <1>3, <1>5, <2>1
  <2>4. ASSUME NEW d \in owed PROVE \E j \in tree' \ Planned' : save'[j].sha = d
    <3>1. PICK j \in tree \ Planned : save[j].sha = d
      BY DEF CleanupInv, OwedIsKept
    <3>2. save'[j] = save[j]
      BY <1>4, <1>5, <3>1
    <3> QED BY <1>2, <2>1, <3>1, <3>2
  <2> QED BY <1>2, <2>2, <2>3, <2>4 DEF OwedIsKept
<1>11. Undisturbed' => Ordered' /\ Lowering'
  <2> SUFFICES ASSUME Undisturbed' PROVE Ordered' /\ Lowering'
    OBVIOUS
  <2>1. Ordered /\ Lowering
    <3>1. Undisturbed
      <4> SUFFICES ASSUME NEW j \in Ids, save[j] # NoSave PROVE save[j].at = j
        BY <1>2 DEF Undisturbed
      <4>1. save'[j] = save[j]
        BY <1>1, <1>5
      <4> QED BY <4>1 DEF Undisturbed
    <3> QED BY <3>1 DEF CleanupInv
  <2>2. \A a \in tree \cup torn : a < i /\ save'[a] = save[a]
    <3> SUFFICES ASSUME NEW a \in tree \cup torn PROVE a < i /\ save'[a] = save[a]
      OBVIOUS
    <3>1. a \in Ids /\ a # i /\ save[a] # NoSave
      BY <1>4
    <3>2. ~(i < a)
      BY <1>1, <3>1 DEF CleanupInv, UsedInOrder
    <3>3. a < i
      BY <3>1, <3>2, CleanupAssumption DEF Ids
    <3> QED BY <1>5, <3>1, <3>3
  <2>3. \A a \in tree \cup torn : save[a].key = k => save[a].ver < new.ver
    <3> SUFFICES ASSUME NEW a \in tree \cup torn, save[a].key = k PROVE save[a].ver < new.ver
      OBVIOUS
    <3>1. save[a].ver \in numbers
      BY <1>1
    <3>2. PICK m : m = Max(numbers \cup {0})
      OBVIOUS
    <3>3. m \in 0..MaxSaves /\ \A n \in numbers : n \in Nat /\ n <= m
      BY <1>1, <3>2, NewNumber
    <3>4. m \in Nat
      BY <3>3, CleanupAssumption
    <3>5. save[a].ver \in Nat /\ save[a].ver <= m
      BY <3>1, <3>3
    <3>6. new.ver = 1 + m
      BY <1>12, <3>2
    <3> QED BY <3>4, <3>5, <3>6
  <2>4. tree' \cup torn' = tree \cup torn \cup {i}
    BY <1>2
  <2>5. ASSUME NEW a \in tree' \cup torn', NEW b \in tree' \cup torn', a < b,
               save'[a].key = save'[b].key
        PROVE  a \in tree \cup torn /\ (b \in tree \cup torn \/ b = i)
    <3>1. CASE a = i
      <4>1. b \in tree \cup torn \/ b = i
        BY <2>4
      <4>2. b \in Int /\ i \in Int
        BY <1>4, <4>1, CleanupAssumption DEF Ids
      <4>3. b < i \/ b = i
        BY <2>2, <4>1
      <4> QED BY <2>5, <3>1, <4>2, <4>3
    <3>2. CASE a # i
      BY <2>4, <3>2
    <3> QED BY <3>1, <3>2
  <2>6. Ordered'
    <3> SUFFICES ASSUME NEW a \in tree' \cup torn', NEW b \in tree' \cup torn', a < b,
                        save'[a].key = save'[b].key
                 PROVE  save'[a].ver < save'[b].ver
      BY DEF Ordered
    <3>1. a \in tree \cup torn /\ (b \in tree \cup torn \/ b = i)
      BY <2>5
    <3>2. CASE b \in tree \cup torn
      BY <2>1, <2>2, <3>1, <3>2 DEF Ordered
    <3>3. CASE b = i
      BY <1>3, <1>5, <2>2, <2>3, <3>1, <3>3
    <3> QED BY <3>1, <3>2, <3>3
  <2>7. /\ \A a \in tree \cup torn : Target(a)' = Target(a)
        /\ Target(i)' = new.ver
        /\ \A a \in DOMAIN writes : save'[a] = save[a]
    <3>1. DOMAIN writes \subseteq Ids /\ i \notin DOMAIN writes
      BY <1>1, <1>4 DEF CleanupInv, CleanupTypeOK
    <3> QED BY <1>2, <1>4, <1>5, <2>2, <3>1 DEF Target
  <2>8. Lowering'
    <3>1. \A a \in DOMAIN writes' : writes'[a] < save'[a].ver
      BY <1>2, <2>1, <2>7 DEF Lowering
    <3>2. ASSUME NEW a \in tree' \cup torn', NEW b \in tree' \cup torn', a < b,
                 save'[a].key = save'[b].key
          PROVE  Target(a)' < Target(b)'
      <4>1. a \in tree \cup torn /\ (b \in tree \cup torn \/ b = i)
        BY <2>5, <3>2
      <4>2. CASE b \in tree \cup torn
        BY <2>1, <2>2, <2>7, <3>2, <4>1, <4>2 DEF Lowering
      <4>3. CASE b = i
        <5>1. save[a].ver < new.ver
          BY <1>3, <1>5, <2>2, <2>3, <3>2, <4>1, <4>3
        <5>2. Target(a) <= save[a].ver
          <6>1. save[a].ver \in Nat
            BY <1>4, <4>1, CleanupAssumption DEF Save, Ids
          <6>2. a \in DOMAIN writes => writes[a] \in Nat /\ writes[a] < save[a].ver
            BY <2>1, CleanupAssumption DEF Lowering, CleanupInv, WorkOK, Ids
          <6> QED BY <6>1, <6>2 DEF Target
        <5>3. Target(a) \in Nat /\ save[a].ver \in Nat /\ new.ver \in Nat
          <6>1. save[a].ver \in Nat
            BY <1>4, <4>1, CleanupAssumption DEF Save, Ids
          <6>2. a \in DOMAIN writes => writes[a] \in Nat
            BY CleanupAssumption DEF CleanupInv, WorkOK, Ids
          <6> QED BY <1>1, <6>1, <6>2, CleanupAssumption DEF Target, Ids
        <5>4. Target(a) < new.ver
          BY <5>1, <5>2, <5>3
        <5> QED BY <2>7, <4>1, <4>3, <5>4
      <4> QED BY <4>1, <4>2, <4>3
    <3> QED BY <3>1, <3>2 DEF Lowering
  <2> QED BY <2>6, <2>8
<1> QED BY <1>6, <1>7, <1>8, <1>9, <1>10, <1>11 DEF CleanupInv

LEMMA UploadsKeepHistory ==
    ASSUME CleanupInv, NEW k \in Keys, NEW c \in Hashes, UploadSave(k, c)
    PROVE  CleanupInv'
BY CreateKeepsHistory DEF UploadSave

LEMMA RollbacksKeepHistory ==
    ASSUME CleanupInv, NEW i \in Ids, Rollback(i)
    PROVE  CleanupInv'
<1>1. i \in DOMAIN list /\ list[i].sha \notin Rejected
      /\ CreateSave(Detected[list[i].key], list[i].sha, TRUE)
  BY DEF Rollback
<1>2. Detected[list[i].key] \in Keys /\ list[i].sha \in Hashes
  BY <1>1, CleanupAssumption DEF CleanupInv, CleanupTypeOK, Save
<1> QED BY <1>1, <1>2, CreateKeepsHistory


LEMMA ScanRewritesKeeps ==
    ASSUME CleanupInv, NEW i \in Ids, ScanRewrites(i)
    PROVE  CleanupInv'
<1>1. /\ step = "scan" /\ i \in work \cap tree
      /\ UNCHANGED <<tree, torn, list, owed>>
      /\ \/ /\ save' = [save EXCEPT ![i] = Normalized(i)]
            /\ refiled' = (refiled \/ Detected[save[i].key] # save[i].key)
            /\ step' = "scan" /\ work' = work \ {i} /\ UNCHANGED <<writes, cleanupFaults>>
         \/ /\ step' = "idle" /\ work' = {} /\ DOMAIN writes' = {}
            /\ cleanupFaults < MaxCleanupFaults /\ cleanupFaults' = cleanupFaults + 1
            /\ UNCHANGED <<save, refiled>>
  BY DEF ScanRewrites, Go, Abort, CleanupFault
<1> DEFINE new == Normalized(i)
<1>2. /\ save[i] \in Save /\ save[i] # NoSave
      /\ \A j \in tree \cup torn : save[j] \in Save /\ j \in Ids
      /\ save \in [Ids -> Save \cup {NoSave}]
  BY <1>1, LoadedIsSound DEF CleanupInv, CleanupTypeOK
<1>3. /\ new \in Save /\ new.sha = save[i].sha /\ new.at = save[i].at /\ new.ver = save[i].ver
      /\ new.key = Detected[save[i].key]
  BY <1>2, CleanupAssumption DEF Normalized, Save
<1>4. new # NoSave
  BY <1>3, CleanupAssumption
<1> HIDE DEF new
<1>5. /\ save' \in [Ids -> Save \cup {NoSave}]
      /\ \A j \in Ids : /\ save'[j] # NoSave <=> save[j] # NoSave
                        /\ save[j] # NoSave => /\ save'[j].sha = save[j].sha
                                               /\ save'[j].at = save[j].at
                                               /\ save'[j].ver = save[j].ver
  BY <1>1, <1>2, <1>3, <1>4 DEF new
<1>6. DOMAIN writes' = {} /\ step' \in {"scan", "idle"} /\ work' \subseteq work /\ DOMAIN writes = {}
  BY <1>1 DEF CleanupInv, WorkOK
<1>7. CleanupTypeOK'
  <2>1. cleanupFaults' \in 0..MaxCleanupFaults
    BY <1>1, CleanupAssumption DEF CleanupInv, CleanupTypeOK
  <2>2. refiled' \in BOOLEAN
    <3>1. CASE refiled' = refiled
      BY Zenon, <3>1 DEF CleanupInv, CleanupTypeOK
    <3>2. CASE refiled' = (refiled \/ Detected[save[i].key] # save[i].key)
      BY Zenon, <3>2
    <3> QED BY <1>1, <3>1, <3>2
  <2>3. work' \subseteq Ids /\ DOMAIN list \subseteq Ids /\ DOMAIN writes' \subseteq Ids
    BY <1>6 DEF CleanupInv, CleanupTypeOK
  <2>4. /\ tree' \subseteq {j \in Ids : save'[j] # NoSave}
        /\ torn' \subseteq {j \in Ids : save'[j] # NoSave} \ tree'
    BY <1>1, <1>5 DEF CleanupInv, CleanupTypeOK
  <2> QED
    BY <1>1, <1>5, <1>6, <2>1, <2>2, <2>3, <2>4 DEF CleanupInv, CleanupTypeOK
<1>8. UsedInOrder'
  BY <1>5 DEF CleanupInv, UsedInOrder
<1>9. ListIsComplete'
  <2>1. DOMAIN list \subseteq Ids
    BY DEF CleanupInv, CleanupTypeOK
  <2> QED BY <1>1, <1>5, <2>1 DEF CleanupInv, ListIsComplete
<1>10. ListIsFresh'
  BY <1>6 DEF ListIsFresh
<1>11. WorkOK'
  <2>1. work \subseteq Ids
    BY DEF CleanupInv, CleanupTypeOK
  <2> QED BY <1>5, <1>6, <2>1 DEF CleanupInv, WorkOK
<1>12. OwedIsKept'
  <2>1. Planned' = {} /\ Planned = {}
    BY <1>1, <1>6 DEF Planned
  <2>2. \A j \in tree : j \in Ids /\ save[j] # NoSave
    BY <1>2, LoadedIsSound DEF CleanupInv
  <2> QED BY <1>1, <1>5, <2>1, <2>2 DEF CleanupInv, OwedIsKept
<1>13. Undisturbed' => Ordered' /\ Lowering'
  <2> SUFFICES ASSUME Undisturbed' PROVE Ordered' /\ Lowering'
    OBVIOUS
  <2>1. /\ ~refiled
        /\ \A j \in tree \cup torn : save'[j].key = save[j].key
    <3>1. CASE UNCHANGED <<save, refiled>>
      BY <3>1 DEF Undisturbed
    <3>2. CASE /\ save' = [save EXCEPT ![i] = Normalized(i)]
               /\ refiled' = (refiled \/ Detected[save[i].key] # save[i].key)
      <4>1. ~refiled /\ Detected[save[i].key] = save[i].key
        BY Zenon, <3>2 DEF Undisturbed
      <4> QED BY <1>2, <1>3, <3>2, <4>1 DEF new
    <3> QED BY <1>1, <3>1, <3>2
  <2>2. Undisturbed
    BY <1>5, <2>1 DEF Undisturbed
  <2>3. \A j \in tree \cup torn : save'[j].ver = save[j].ver /\ Target(j)' = Target(j)
    <3>1. \A j \in tree \cup torn : save[j] # NoSave /\ j \in Ids
      BY LoadedIsSound DEF CleanupInv
    <3> QED BY <1>5, <1>6, <3>1 DEF Target
  <2> QED BY <1>1, <1>6, <2>1, <2>2, <2>3 DEF CleanupInv, Ordered, Lowering
<1> QED BY <1>7, <1>8, <1>9, <1>10, <1>11, <1>12, <1>13 DEF CleanupInv

\* Of the revisions of a content in a track one survives.
LEMMA OneSurvives ==
    ASSUME CleanupInv, step = "plan", NEW i \in Candidates
    PROVE  Survivor(i) \in Alike(i) /\ Survivor(Survivor(i)) = Survivor(i)
<1>1. \A j \in Candidates : j \in tree /\ j \in Nat /\ list[j].at \in Nat
  <2>1. \A j \in Candidates : j \in tree /\ j \in Ids /\ list[j] \in Save
    BY DEF Candidates, CleanupInv, CleanupTypeOK
  <2> QED BY <2>1, CleanupAssumption DEF Ids, Save
<1>2. i \in Alike(i) /\ Alike(i) \subseteq Candidates
  BY DEF Alike, InTrack
<1>3. \A j \in Alike(i) : InTrack(j) = InTrack(i) /\ Alike(j) = Alike(i)
  BY DEF Alike, InTrack
<1>4. \E j \in Alike(i) : \A n \in Alike(i) \ {j} : Older(j, n)
  <2> DEFINE A == Alike(i)
             ats == {list[j].at : j \in A}
  <2>1. ats \subseteq Nat /\ ats # {}
    BY <1>1, <1>2
  <2> HIDE DEF ats
  <2>2. PICK t \in ats : \A u \in ats : t <= u
    BY <2>1, LeastExists
  <2> DEFINE first == {j \in A : list[j].at = t}
  <2>3. first \subseteq Nat /\ first # {}
    <3>1. \A j \in A : j \in Nat
      BY <1>1, <1>2
    <3>2. \E j \in A : list[j].at = t
      BY <2>2 DEF ats
    <3> QED BY <3>1, <3>2
  <2>4. PICK j \in first : \A n \in first : j <= n
    <3> HIDE DEF first
    <3> QED BY <2>3, LeastExists
  <2>5. ASSUME NEW n \in A \ {j} PROVE Older(j, n)
    <3>1. list[n].at \in ats /\ t <= list[n].at /\ t \in Nat /\ list[n].at \in Nat
      BY <2>1, <2>2 DEF ats
    <3>2. list[j].at = t /\ j \in Nat /\ n \in Nat /\ n # j
      BY <1>1, <1>2, <2>4
    <3>3. list[n].at = t => j <= n
      BY <2>4
    <3> QED BY <3>1, <3>2, <3>3 DEF Older
  <2> QED BY <2>4, <2>5
<1>5. Survivor(i) \in Alike(i)
  BY <1>4 DEF Survivor
<1>6. ASSUME NEW j \in Alike(i) PROVE Survivor(j) = Survivor(i)
  <2> DEFINE Chosen(T, A) ==
               IF LatestOf(T) \in A THEN LatestOf(T)
               ELSE CHOOSE x \in A : \A n \in A \ {x} : Older(x, n)
  <2>1. Survivor(i) = Chosen(InTrack(i), Alike(i))
    BY DEF Survivor
  <2>2. Survivor(j) = Chosen(InTrack(j), Alike(j))
    BY DEF Survivor
  <2>3. InTrack(j) = InTrack(i) /\ Alike(j) = Alike(i)
    BY <1>3
  <2> HIDE DEF Chosen
  <2> QED BY <2>1, <2>2, <2>3
<1> QED BY <1>5, <1>6

LEMMA PlanKeepsHistory == ASSUME CleanupInv, Plan PROVE CleanupInv'
<1>1. /\ step = "plan" /\ step' = "remove"
      /\ work' = {i \in Candidates : Cardinality(Alike(i)) > 1 /\ i # Survivor(i)}
      /\ UNCHANGED <<save, tree, torn, list, writes, refiled, owed, cleanupFaults>>
  BY DEF Plan, Go
<1>2. work' \subseteq tree /\ tree \subseteq Ids
  BY <1>1, LoadedIsSound DEF Candidates, CleanupInv
<1>3. CleanupTypeOK'
  BY <1>1, <1>2 DEF CleanupInv, CleanupTypeOK
<1>4. UsedInOrder' /\ ListIsComplete' /\ ListIsFresh'
  BY <1>1 DEF CleanupInv, UsedInOrder, ListIsComplete, ListIsFresh
<1>5. WorkOK'
  <2>1. \A i \in tree : save[i] # NoSave
    BY LoadedIsSound DEF CleanupInv
  <2> QED BY <1>1, <1>2, <2>1 DEF CleanupInv, WorkOK
<1>6. OwedIsKept'
  <2> SUFFICES ASSUME NEW c \in owed PROVE \E j \in tree \ work' : save[j].sha = c
    BY <1>1 DEF CleanupInv, OwedIsKept, Planned
  <2>1. PICK i \in tree : save[i].sha = c
    BY DEF CleanupInv, OwedIsKept
  <2>2. CASE i \notin work'
    BY <2>1, <2>2
  <2>3. CASE i \in work'
    <3> DEFINE s == Survivor(i)
    <3>1. i \in Candidates
      BY <1>1, <2>3
    <3>2. s \in Alike(i) /\ Survivor(s) = s
      BY <1>1, <3>1, OneSurvives
    <3>3. s \in tree /\ s \in DOMAIN list /\ list[s].sha = list[i].sha /\ i \in DOMAIN list
      BY <3>1, <3>2 DEF Alike, InTrack, Candidates
    <3>4. save[s].sha = c
      BY <2>1, <3>3 DEF CleanupInv, ListIsComplete
    <3>5. s \notin work'
      BY <1>1, <3>2
    <3> QED BY <3>3, <3>4, <3>5
  <2> QED BY <2>2, <2>3
<1>7. Undisturbed' => Ordered' /\ Lowering'
  BY <1>1, RemovalKeepsOrder DEF CleanupInv
<1> QED BY <1>3, <1>4, <1>5, <1>6, <1>7 DEF CleanupInv


\* Numbers by rank.
LEMMA NumbersAreRanks ==
    ASSUME CleanupTypeOK, NEW kept \in SUBSET Ids, kept \subseteq DOMAIN list, NEW i \in kept
    PROVE  Number(i, kept) \in Ids
<1> DEFINE B == {j \in kept : list[j].key = list[i].key /\ Older(j, i)}
<1>1. IsFiniteSet(Ids) /\ Cardinality(Ids) = MaxSaves /\ MaxSaves \in Nat
  BY FS_Interval, CleanupAssumption DEF Ids
<1>2. IsFiniteSet(kept) /\ Cardinality(kept) <= MaxSaves
  BY <1>1, FS_Subset
<1>3. i \notin B /\ B \subseteq kept
  <2>1. i \in Nat /\ list[i].at \in Nat
    BY CleanupAssumption DEF CleanupTypeOK, Ids, Save
  <2> QED BY <2>1 DEF Older
<1>4. Number(i, kept) = Cardinality(B) + 1
  BY DEF Number
<1> HIDE DEF B
<1>5. /\ IsFiniteSet(B) /\ Cardinality(B) <= Cardinality(kept)
      /\ Cardinality(B) # Cardinality(kept)
  BY <1>2, <1>3, FS_Subset
<1>6. Cardinality(B) \in Nat /\ Cardinality(kept) \in Nat
  BY <1>2, <1>5, FS_CardinalityType
<1> QED BY <1>1, <1>2, <1>4, <1>5, <1>6 DEF Ids

\* By rank, numbers are in order and not above those in order before.
LEMMA RanksAreInOrder ==
    ASSUME CleanupInv, Undisturbed, step = "reindex",
           NEW kept, kept = tree \cup torn
    PROVE  /\ \A i \in kept : Number(i, kept) <= save[i].ver /\ list[i].ver = save[i].ver
           /\ \A i, j \in kept : i < j /\ save[i].key = save[j].key =>
                                   Number(i, kept) < Number(j, kept)
<1> DEFINE B(i) == {j \in kept : save[j].key = save[i].key /\ j < i}
<1>1. \A i \in kept : /\ i \in DOMAIN list /\ list[i] = save[i] /\ save[i].at = i
                      /\ i \in Nat /\ save[i].ver \in Ids /\ i \in Ids
  <2>1. \A i \in kept : /\ i \in DOMAIN list /\ list[i] = save[i] /\ save[i] \in Save
                        /\ i \in Ids /\ save[i] # NoSave
    BY LoadedIsSound DEF CleanupInv, ListIsComplete, ListIsFresh
  <2> QED BY <2>1, CleanupAssumption DEF Undisturbed, Save, Ids
<1>2. \A i, j \in kept : Older(j, i) <=> j < i
  BY <1>1 DEF Older
<1>3. \A i \in kept : Number(i, kept) = Cardinality(B(i)) + 1
  <2> SUFFICES ASSUME NEW i \in kept PROVE Number(i, kept) = Cardinality(B(i)) + 1
    OBVIOUS
  <2>1. B(i) = {j \in kept : list[j].key = list[i].key /\ Older(j, i)}
    BY <1>1, <1>2
  <2> HIDE DEF B
  <2> QED BY <2>1 DEF Number
<1>4. IsFiniteSet(kept)
  <2>1. IsFiniteSet(Ids)
    BY FS_Interval, CleanupAssumption DEF Ids
  <2>2. kept \subseteq Ids
    BY <1>1
  <2> QED BY <2>1, <2>2, FS_Subset
<1>5. \A i \in kept : IsFiniteSet(B(i)) /\ B(i) \subseteq kept /\ i \notin B(i)
  BY <1>1, <1>4, FS_Subset
<1>6. \A i \in kept : Cardinality(B(i)) \in Nat
  <2> HIDE DEF B
  <2> QED BY <1>5, FS_CardinalityType
<1>7. ASSUME NEW i \in kept, NEW j \in kept, i < j, save[i].key = save[j].key
      PROVE  Number(i, kept) < Number(j, kept)
  <2>1. B(i) \subseteq B(j) /\ i \in B(j) /\ i \notin B(i)
    BY <1>1, <1>7
  <2> HIDE DEF B
  <2>2. Cardinality(B(i)) <= Cardinality(B(j)) /\ Cardinality(B(i)) # Cardinality(B(j))
    BY <1>5, <2>1, FS_Subset
  <2> QED BY <1>3, <1>6, <2>2
<1>8. ASSUME NEW i \in kept PROVE Number(i, kept) <= save[i].ver
  <2> DEFINE f == [j \in B(i) |-> save[j].ver]
             v == save[i].ver
  <2>1. Ordered
    BY DEF CleanupInv
  <2>2. \A j \in B(i) : save[j].ver \in 1..(v - 1)
    <3> SUFFICES ASSUME NEW j \in B(i) PROVE save[j].ver \in 1..(v - 1)
      OBVIOUS
    <3>1. j \in kept /\ save[j].key = save[i].key /\ j < i
      OBVIOUS
    <3>2. save[j].ver < save[i].ver
      BY <2>1, <3>1 DEF Ordered
    <3> QED BY <1>1, <3>1, <3>2, CleanupAssumption DEF Ids
  <2>3. \A j, n \in B(i) : save[j].ver = save[n].ver => j = n
    <3> SUFFICES ASSUME NEW j \in B(i), NEW n \in B(i), j < n
                 PROVE  save[j].ver # save[n].ver
      BY <1>1
    <3>1. save[j].ver < save[n].ver
      BY <2>1 DEF Ordered
    <3>2. save[j].ver \in Nat
      BY <1>1, CleanupAssumption DEF Ids
    <3> QED BY <3>1, <3>2
  <2>4. f \in Injection(B(i), 1..(v - 1))
    <3> HIDE DEF B, v
    <3>1. f \in [B(i) -> 1..(v - 1)]
      BY <2>2
    <3>2. \A j, n \in B(i) : f[j] = f[n] => j = n
      BY <2>3
    <3> HIDE DEF f
    <3> QED BY <3>1, <3>2 DEF Injection, IsInjective
  <2>5. v \in Nat /\ v >= 1
    BY <1>1, CleanupAssumption DEF Ids
  <2> HIDE DEF f, v, B
  <2>6. 1 \in Int /\ v - 1 \in Int
    BY <2>5
  <2>7. IsFiniteSet(1..(v - 1)) /\ Cardinality(1..(v - 1)) = v - 1
    <3>1. IsFiniteSet(1..(v - 1)) /\ Cardinality(1..(v - 1)) = IF 1 > v - 1 THEN 0 ELSE v - 1 - 1 + 1
      BY <2>6, FS_Interval
    <3> QED BY <2>5, <3>1
  <2>8. Cardinality(B(i)) <= v - 1
    <3>1. Cardinality(B(i)) <= Cardinality(1..(v - 1))
      BY <2>4, <2>7, FS_Injection
    <3> QED BY <2>7, <3>1
  <2>9. Number(i, kept) = Cardinality(B(i)) + 1 /\ Cardinality(B(i)) \in Nat
    BY <1>3, <1>6
  <2>10. Number(i, kept) <= v
    BY <2>5, <2>8, <2>9
  <2> QED BY <2>10 DEF v
<1> QED BY <1>1, <1>7, <1>8

LEMMA ReindexKeepsHistory == ASSUME CleanupInv, Reindex PROVE CleanupInv'
<1> DEFINE kept == DOMAIN list \cap (tree \cup torn)
           renumbered == {j \in kept : list[j].ver # Number(j, kept)}
<1>1. /\ step = "reindex" /\ step' = "write" /\ work' = {}
      /\ writes' = [i \in renumbered |-> Number(i, kept)]
      /\ UNCHANGED <<save, tree, torn, list, refiled, owed, cleanupFaults>>
  BY DEF Reindex, Go
<1>2. kept = tree \cup torn /\ kept \subseteq Ids /\ kept \subseteq DOMAIN list /\ \A i \in kept : save[i] # NoSave
  BY LoadedIsSound DEF CleanupInv, ListIsComplete
<1>3. \A i \in kept : Number(i, kept) \in Ids
  BY <1>2, NumbersAreRanks DEF CleanupInv
<1>9. renumbered \subseteq kept /\ \A i \in kept : i \notin renumbered => list[i].ver = Number(i, kept)
  OBVIOUS
<1>10. \A i \in renumbered : list[i].ver # Number(i, kept)
  OBVIOUS
<1> HIDE DEF kept, renumbered
<1>4. CleanupTypeOK'
  BY <1>1, <1>2, <1>9 DEF CleanupInv, CleanupTypeOK
<1>5. UsedInOrder' /\ ListIsComplete' /\ ListIsFresh'
  BY <1>1 DEF CleanupInv, UsedInOrder, ListIsComplete, ListIsFresh
<1>6. WorkOK'
  BY <1>1, <1>2, <1>3, <1>9 DEF WorkOK
<1>7. OwedIsKept'
  BY <1>1 DEF CleanupInv, OwedIsKept, Planned
<1>8. Undisturbed' => Ordered' /\ Lowering'
  <2> SUFFICES ASSUME Undisturbed' PROVE Ordered' /\ Lowering'
    OBVIOUS
  <2>1. Undisturbed
    BY <1>1 DEF Undisturbed
  <2>2. Ordered'
    BY <1>1, <2>1 DEF CleanupInv, Ordered
  <2>3. /\ \A i \in kept : Number(i, kept) <= save[i].ver /\ list[i].ver = save[i].ver
        /\ \A i, j \in kept : i < j /\ save[i].key = save[j].key =>
                                Number(i, kept) < Number(j, kept)
    BY <1>1, <1>2, <2>1, RanksAreInOrder
  <2>4. \A i \in kept : Target(i)' = Number(i, kept)
    BY <1>1, <1>9, <2>3 DEF Target
  <2>5. \A i \in DOMAIN writes' : writes'[i] < save'[i].ver
    <3> SUFFICES ASSUME NEW i \in renumbered PROVE Number(i, kept) < save[i].ver
      BY <1>1
    <3>1. i \in kept /\ Number(i, kept) # save[i].ver /\ Number(i, kept) <= save[i].ver
      BY <1>9, <1>10, <2>3
    <3>2. Number(i, kept) \in Nat /\ save[i].ver \in Nat
      <4>1. save[i] \in Save
        BY <1>2, <3>1, LoadedIsSound DEF CleanupInv
      <4> QED BY <1>3, <3>1, <4>1, CleanupAssumption DEF Save, Ids
    <3> QED BY <3>1, <3>2
  <2>6. ASSUME NEW i \in kept, NEW j \in kept, i < j, save[i].key = save[j].key
        PROVE  Target(i)' < Target(j)'
    BY <2>3, <2>4, <2>6
  <2>7. tree' \cup torn' = kept /\ save' = save
    BY <1>1, <1>2
  <2>8. Lowering'
    BY <2>5, <2>6, <2>7 DEF Lowering
  <2> QED BY <2>2, <2>8
<1> QED BY <1>4, <1>5, <1>6, <1>7, <1>8 DEF CleanupInv


LEMMA WriteMetadataKeepsHistory ==
    ASSUME CleanupInv, NEW i \in Ids, WriteMetadata(i)
    PROVE  CleanupInv'
<1> DEFINE rest == [j \in DOMAIN writes \ {i} |-> writes[j]]
<1>1. /\ step = "write" /\ i \in DOMAIN writes
      /\ \A j \in DOMAIN rest : save[j].key = save[i].key => writes[j] > writes[i]
      /\ UNCHANGED <<tree, torn, list, refiled, owed>>
  BY DEF WriteMetadata
<1>2. \/ /\ i \in tree \cup torn /\ save' = [save EXCEPT ![i].ver = writes[i]]
         /\ writes' = rest /\ UNCHANGED <<step, work, cleanupFaults>>
      \/ /\ UNCHANGED save /\ step' = "idle" /\ work' = {} /\ DOMAIN writes' = {}
         /\ \/ cleanupFaults' = cleanupFaults
            \/ cleanupFaults < MaxCleanupFaults /\ cleanupFaults' = cleanupFaults + 1
  <2>1. DOMAIN [j \in {} |-> 0] = {}
    OBVIOUS
  <2> HIDE DEF rest
  <2>2. \/ /\ i \in tree \cup torn /\ save' = [save EXCEPT ![i].ver = writes[i]]
           /\ writes' = rest /\ UNCHANGED <<step, work, cleanupFaults>>
        \/ Abort /\ UNCHANGED <<save, cleanupFaults>>
        \/ CleanupFault /\ Abort /\ UNCHANGED save
    BY DEF WriteMetadata, rest
  <2>3. Abort => step' = "idle" /\ work' = {} /\ DOMAIN writes' = {}
    BY <2>1 DEF Abort, Go
  <2>4. CASE Abort /\ UNCHANGED <<save, cleanupFaults>>
    BY <2>3, <2>4
  <2>5. CASE CleanupFault /\ Abort /\ UNCHANGED save
    BY <2>3, <2>5 DEF CleanupFault
  <2> QED BY Zenon, <2>2, <2>4, <2>5
<1>3. /\ \A j \in tree \cup torn : save[j] \in Save /\ j \in Ids /\ save[j] # NoSave
      /\ save \in [Ids -> Save \cup {NoSave}]
      /\ writes[i] \in Ids /\ DOMAIN writes \subseteq Ids
      /\ \A j \in DOMAIN writes : writes[j] \in Ids /\ save[j] # NoSave
  <2>1. \A j \in tree \cup torn : save[j] \in Save /\ j \in Ids /\ save[j] # NoSave
    BY LoadedIsSound DEF CleanupInv
  <2> QED BY <1>1, <2>1 DEF CleanupInv, CleanupTypeOK, WorkOK
<1>4. DOMAIN rest = DOMAIN writes \ {i} /\ \A j \in DOMAIN rest : rest[j] = writes[j]
  OBVIOUS
<1> HIDE DEF rest
<1> DEFINE new == [save[i] EXCEPT !.ver = writes[i]]
<1>5. ASSUME i \in tree \cup torn
      PROVE  /\ new \in Save /\ new # NoSave /\ new.ver = writes[i] /\ new.key = save[i].key
             /\ new.sha = save[i].sha /\ new.at = save[i].at
  <2>1. new \in Save /\ new.ver = writes[i] /\ new.key = save[i].key
        /\ new.sha = save[i].sha /\ new.at = save[i].at
    BY <1>3, <1>5 DEF Save
  <2> HIDE DEF new
  <2> QED BY <2>1, CleanupAssumption
<1>6. CASE /\ UNCHANGED save /\ step' = "idle" /\ work' = {} /\ DOMAIN writes' = {}
           /\ \/ cleanupFaults' = cleanupFaults
              \/ cleanupFaults < MaxCleanupFaults /\ cleanupFaults' = cleanupFaults + 1
  <2>1. CleanupTypeOK'
    <3>1. cleanupFaults' \in 0..MaxCleanupFaults
      BY <1>6, CleanupAssumption DEF CleanupInv, CleanupTypeOK
    <3> QED BY <1>1, <1>6, <3>1 DEF CleanupInv, CleanupTypeOK
  <2>2. UsedInOrder' /\ ListIsComplete' /\ ListIsFresh' /\ WorkOK'
    BY <1>1, <1>6 DEF CleanupInv, UsedInOrder, ListIsComplete, ListIsFresh, WorkOK
  <2>3. OwedIsKept'
    BY <1>1, <1>6 DEF CleanupInv, OwedIsKept, Planned
  <2>4. Undisturbed' => Ordered' /\ Lowering'
    BY <1>1, <1>6, RemovalKeepsOrder DEF CleanupInv
  <2> QED BY <2>1, <2>2, <2>3, <2>4 DEF CleanupInv
<1>7. CASE /\ i \in tree \cup torn /\ save' = [save EXCEPT ![i].ver = writes[i]]
           /\ writes' = rest /\ UNCHANGED <<step, work, cleanupFaults>>
  <2>1. /\ save' = [save EXCEPT ![i] = new]
        /\ new \in Save /\ new # NoSave /\ new.ver = writes[i] /\ new.key = save[i].key
        /\ new.sha = save[i].sha /\ new.at = save[i].at
    BY <1>5, <1>7
  <2> HIDE DEF new
  <2>2. /\ save' \in [Ids -> Save \cup {NoSave}]
        /\ save'[i] = new /\ \A j \in Ids : j # i => save'[j] = save[j]
        /\ \A j \in Ids : /\ save'[j] # NoSave <=> save[j] # NoSave
                          /\ save[j] # NoSave => /\ save'[j].sha = save[j].sha
                                                 /\ save'[j].at = save[j].at
                                                 /\ save'[j].key = save[j].key
    BY <1>3, <1>7, <2>1
  <2>3. DOMAIN writes' = DOMAIN writes \ {i} /\ \A j \in DOMAIN writes' : writes'[j] = writes[j]
    BY <1>4, <1>7
  <2>4. CleanupTypeOK'
    <3>1. /\ tree \subseteq {j \in Ids : save'[j] # NoSave}
          /\ torn \subseteq {j \in Ids : save'[j] # NoSave} \ tree
      BY <2>2 DEF CleanupInv, CleanupTypeOK
    <3> QED BY <1>1, <1>3, <1>7, <2>2, <2>3, <3>1 DEF CleanupInv, CleanupTypeOK
  <2>5. UsedInOrder'
    BY <2>2 DEF CleanupInv, UsedInOrder
  <2>6. ListIsComplete'
    <3>1. DOMAIN list \subseteq Ids
      BY DEF CleanupInv, CleanupTypeOK
    <3> QED BY <1>1, <2>2, <3>1 DEF CleanupInv, ListIsComplete
  <2>7. ListIsFresh'
    BY <1>1, <1>7 DEF ListIsFresh
  <2>8. WorkOK'
    <3>1. work \subseteq Ids
      BY DEF CleanupInv, CleanupTypeOK
    <3> QED BY <1>1, <1>3, <1>7, <2>2, <2>3, <3>1 DEF CleanupInv, WorkOK
  <2>9. OwedIsKept'
    <3>1. Planned' = {} /\ Planned = {}
      BY <1>1, <1>7 DEF Planned
    <3> QED BY <1>1, <1>3, <2>2, <3>1 DEF CleanupInv, OwedIsKept
  <2>10. Undisturbed' => Ordered' /\ Lowering'
    <3> SUFFICES ASSUME Undisturbed' PROVE Ordered' /\ Lowering'
      OBVIOUS
    <3>1. Undisturbed
      BY <1>1, <2>2 DEF Undisturbed
    <3>2. Ordered /\ Lowering
      BY <3>1 DEF CleanupInv
    <3>3. \A j \in tree \cup torn : Target(j)' = Target(j)
      BY <1>1, <1>3, <2>1, <2>2, <2>3 DEF Target
    <3>4. \A j \in tree \cup torn : /\ j \in Nat /\ save[j].ver \in Nat /\ Target(j) \in Nat
      <4>1. \A j \in tree \cup torn : save[j].ver \in Ids /\ j \in Ids
        BY <1>3 DEF Save
      <4> QED BY <1>3, <4>1, CleanupAssumption DEF Target, Ids
    <3>5. ASSUME NEW j \in tree \cup torn, save[j].key = save[i].key, j < i
          PROVE  save[j].ver < writes[i]
      <4>1. Target(j) < Target(i)
        BY <1>7, <3>2, <3>5 DEF Lowering
      <4>2. Target(i) = writes[i] /\ writes[i] \in Nat
        BY <1>1, <1>3, CleanupAssumption DEF Target, Ids
      <4>3. j # i
        BY <1>7, <3>4, <3>5
      <4>4. j \notin DOMAIN writes
        <5> SUFFICES ASSUME j \in DOMAIN writes PROVE FALSE
          OBVIOUS
        <5>1. writes[j] > writes[i]
          BY <1>1, <1>4, <3>5, <4>3
        <5>2. Target(j) = writes[j] /\ writes[j] \in Nat
          BY <1>3, CleanupAssumption DEF Target, Ids
        <5> QED BY <4>1, <4>2, <5>1, <5>2
      <4>5. Target(j) = save[j].ver
        BY <4>4 DEF Target
      <4> QED BY <4>1, <4>2, <4>5
    <3>6. ASSUME NEW j \in tree \cup torn, save[j].key = save[i].key, i < j
          PROVE  writes[i] < save[j].ver
      <4>1. save[i].ver < save[j].ver
        BY <1>7, <3>2, <3>6 DEF Ordered
      <4>2. writes[i] < save[i].ver
        BY <1>1, <3>2 DEF Lowering
      <4>3. writes[i] \in Nat /\ save[i].ver \in Nat /\ save[j].ver \in Nat
        BY <1>3, <1>7, <3>4, CleanupAssumption DEF Ids
      <4> QED BY <4>1, <4>2, <4>3
    <3>7. ASSUME NEW a \in tree \cup torn, NEW b \in tree \cup torn, a < b,
                 save'[a].key = save'[b].key
          PROVE  save'[a].ver < save'[b].ver
      <4>1. save[a].key = save[b].key
        BY <1>3, <2>2, <3>7
      <4>2. a # b
        BY <3>4, <3>7
      <4>3. CASE a = i
        BY <1>3, <2>1, <2>2, <3>6, <3>7, <4>1, <4>2, <4>3
      <4>4. CASE b = i
        BY <1>3, <2>1, <2>2, <3>5, <3>7, <4>1, <4>2, <4>4
      <4>5. CASE a # i /\ b # i
        BY <1>3, <2>2, <3>2, <3>7, <4>1, <4>5 DEF Ordered
      <4> QED BY <4>3, <4>4, <4>5
    <3>8. Ordered'
      BY <1>1, <3>7 DEF Ordered
    <3>9. \A j \in DOMAIN writes' : writes'[j] < save'[j].ver
      BY <1>3, <2>2, <2>3, <3>2 DEF Lowering
    <3>10. ASSUME NEW a \in tree \cup torn, NEW b \in tree \cup torn, a < b,
                  save'[a].key = save'[b].key
           PROVE  Target(a)' < Target(b)'
      <4>1. save[a].key = save[b].key
        BY <1>3, <2>2, <3>10
      <4> QED BY <3>2, <3>3, <3>10, <4>1 DEF Lowering
    <3>11. Lowering'
      BY <1>1, <3>9, <3>10 DEF Lowering
    <3> QED BY <3>8, <3>11
  <2> QED BY <2>4, <2>5, <2>6, <2>7, <2>8, <2>9, <2>10 DEF CleanupInv
<1> QED BY <1>2, <1>6, <1>7

LEMMA CleanupInitInv == CleanupInit => CleanupInv
<1> SUFFICES ASSUME CleanupInit PROVE CleanupInv
  OBVIOUS
<1>1. PICK keys \in [1..MaxLegacy -> Keys], shas \in [1..MaxLegacy -> Hashes],
           ats \in [1..MaxLegacy -> {TRUE, FALSE}] :
        save = [i \in Ids |->
          IF i > MaxLegacy THEN NoSave
          ELSE [key |-> keys[i], sha |-> shas[i], rollback |-> FALSE,
                projection |-> keys[i] \in CardKeys,
                ver |-> Cardinality({j \in 1..i : keys[j] = keys[i]}),
                at |-> IF ats[i] THEN i ELSE 0]]
  BY DEF CleanupInit
<1>2. /\ tree = 1..MaxLegacy /\ torn = {} /\ list = Loaded /\ step = "idle" /\ work = {}
      /\ DOMAIN writes = {} /\ refiled = FALSE
      /\ owed = {save[i].sha : i \in tree} \ Rejected /\ cleanupFaults = 0
  BY DEF CleanupInit
<1> DEFINE E(i) == {j \in 1..i : keys[j] = keys[i]}
<1>3. \A i \in 1..MaxLegacy : /\ i \in Ids /\ ~(i > MaxLegacy) /\ i \in 1..MaxSaves /\ i \in Nat
  BY CleanupAssumption DEF Ids
<1>4. \A i \in 1..MaxLegacy : IsFiniteSet(1..i) /\ Cardinality(1..i) = i
  BY <1>3, FS_Interval
<1>5. \A i \in 1..MaxLegacy : /\ IsFiniteSet(E(i)) /\ i \in E(i)
                              /\ Cardinality(E(i)) <= Cardinality(1..i)
  BY <1>3, <1>4, FS_Subset
<1> HIDE DEF E
<1>6. \A i \in 1..MaxLegacy : Cardinality(E(i)) \in Nat /\ Cardinality(E(i)) # 0
  BY <1>5, FS_CardinalityType, FS_EmptySet
<1>7. \A i \in 1..MaxLegacy : Cardinality(E(i)) \in Ids
  <2> SUFFICES ASSUME NEW i \in 1..MaxLegacy PROVE Cardinality(E(i)) \in 1..MaxSaves
    BY DEF Ids
  <2>1. Cardinality(E(i)) \in Nat /\ Cardinality(E(i)) # 0
    BY <1>6
  <2>2. Cardinality(E(i)) <= i
    BY <1>4, <1>5
  <2>3. i \in 1..MaxSaves /\ MaxSaves \in Nat
    BY <1>3, CleanupAssumption
  <2> QED BY <2>1, <2>2, <2>3
<1>8. \A i \in 1..MaxLegacy :
        save[i] = [key |-> keys[i], sha |-> shas[i], rollback |-> FALSE,
                   projection |-> keys[i] \in CardKeys, ver |-> Cardinality(E(i)),
                   at |-> IF ats[i] THEN i ELSE 0]
  BY <1>1, <1>3 DEF E
<1>9. \A i \in 1..MaxLegacy : /\ save[i] \in Save /\ save[i] # NoSave
                              /\ save[i].key = keys[i] /\ save[i].ver = Cardinality(E(i))
  <2> SUFFICES ASSUME NEW i \in 1..MaxLegacy
               PROVE  /\ save[i] \in Save
                      /\ save[i].key = keys[i] /\ save[i].ver = Cardinality(E(i))
    BY CleanupAssumption
  <2>1. (IF ats[i] THEN i ELSE 0) \in 0..MaxSaves
    BY <1>3, CleanupAssumption
  <2>2. PICK p \in BOOLEAN : p = (keys[i] \in CardKeys)
    <3>1. (keys[i] \in CardKeys) \in BOOLEAN
      OBVIOUS
    <3> QED BY Zenon, <3>1
  <2>3. save[i] = [key |-> keys[i], sha |-> shas[i], rollback |-> FALSE,
                   projection |-> p, ver |-> Cardinality(E(i)),
                   at |-> IF ats[i] THEN i ELSE 0]
    BY <1>8, <2>2
  <2>4. keys[i] \in Keys /\ shas[i] \in Hashes /\ Cardinality(E(i)) \in Ids
    BY <1>7
  <2> QED BY <2>1, <2>3, <2>4 DEF Save
<1>10. \A i \in Ids : i \notin 1..MaxLegacy => save[i] = NoSave
  BY <1>1, CleanupAssumption DEF Ids
<1>11. CleanupTypeOK
  <2>1. save \in [Ids -> Save \cup {NoSave}]
    <3>1. save = [i \in Ids |-> save[i]]
      BY <1>1
    <3> QED BY <1>9, <1>10, <3>1
  <2>2. DOMAIN list = tree /\ \A i \in tree : list[i] = save[i]
    BY <1>2 DEF Loaded
  <2>3. \A i \in tree : save[i].sha \in Hashes
    BY <1>2, <1>9 DEF Save
  <2>4. refiled \in BOOLEAN
    BY Zenon, <1>2
  <2> QED
    BY <1>2, <1>3, <1>9, <2>1, <2>2, <2>3, <2>4, CleanupAssumption DEF CleanupTypeOK
<1>12. UsedInOrder
  <2> SUFFICES ASSUME NEW i \in Ids, NEW j \in Ids, i < j, save[j] # NoSave
               PROVE  save[i] # NoSave
    BY DEF UsedInOrder
  <2>1. j \in 1..MaxLegacy
    BY <1>10
  <2>2. i \in 1..MaxLegacy
    BY <2>1, CleanupAssumption DEF Ids
  <2> QED BY <1>9, <2>2
<1>13. ListIsComplete /\ ListIsFresh /\ WorkOK
  <2>1. DOMAIN list = tree /\ \A i \in tree : list[i] = save[i]
    BY <1>2 DEF Loaded
  <2> QED BY <1>2, <1>9, <2>1 DEF ListIsComplete, ListIsFresh, WorkOK
<1>14. OwedIsKept
  BY <1>2 DEF OwedIsKept, Planned
<1>15. Ordered /\ Lowering
  <2>1. ASSUME NEW i \in 1..MaxLegacy, NEW j \in 1..MaxLegacy, i < j, keys[i] = keys[j]
        PROVE  Cardinality(E(i)) < Cardinality(E(j))
    <3>1. E(i) \subseteq E(j) /\ j \in E(j) /\ j \notin E(i)
      BY <1>3, <2>1 DEF E
    <3>2. Cardinality(E(i)) <= Cardinality(E(j)) /\ Cardinality(E(i)) # Cardinality(E(j))
      BY <1>5, <3>1, FS_Subset
    <3> QED BY <1>6, <3>2
  <2>2. \A i \in 1..MaxLegacy : Target(i) = save[i].ver
    BY <1>2 DEF Target
  <2> QED BY <1>2, <1>9, <2>1, <2>2 DEF Ordered, Lowering
<1> QED BY <1>11, <1>12, <1>13, <1>14, <1>15 DEF CleanupInv

LEMMA CleanupNextInv == ASSUME CleanupInv, [CleanupNext]_cleanupVars PROVE CleanupInv'
<1>1. CASE UNCHANGED cleanupVars
  <2>1. UNCHANGED <<save, tree, torn, list, step, work, writes, refiled, owed, cleanupFaults>>
    BY <1>1 DEF cleanupVars
  <2> QED
    BY <2>1 DEF CleanupInv, CleanupTypeOK, UsedInOrder, ListIsComplete, ListIsFresh, WorkOK,
                OwedIsKept, Planned, Undisturbed, Ordered, Lowering, Target
<1>2. ASSUME NEW i \in Ids, ScanPrunes(i) \/ RemoveDuplicate(i) PROVE CleanupInv'
  BY <1>2, RemovalsKeep DEF ScanPrunes, RemoveDuplicate
<1> QED
  BY <1>1, <1>2, ControlKeepsHistory, DeleteKeepsHistory, UploadsKeepHistory,
     RollbacksKeepHistory, ScanRewritesKeeps, PlanKeepsHistory, ReindexKeepsHistory,
     WriteMetadataKeepsHistory DEF CleanupNext

LEMMA CleanupInvKeeps == CleanupInv => CleanupKeepsHistory
  BY DEF CleanupInv, CleanupKeepsHistory, OwedIsKept, Undisturbed, Ordered

\* The saves, the list and the work of the rescan keep their types
\* (rescanSaves).
THEOREM CleanupTypes == CleanupSpec => []CleanupTypeOK
<1>1. CleanupInv => CleanupTypeOK
  BY DEF CleanupInv
<1> QED BY <1>1, CleanupInitInv, CleanupNextInv, PTL DEF CleanupSpec

\* Whatever happens during a rescan and wherever it stops, a content nobody
\* deleted keeps a revision, and the revisions of a key their order
\* (rescanSaves, cleanupDuplicateSaveHistory, reindexSaveVersionsAfterCleanup).
THEOREM CleanupsKeepHistory == CleanupSpec => []CleanupKeepsHistory
BY CleanupInitInv, CleanupNextInv, CleanupInvKeeps, PTL DEF CleanupSpec
=============================================================================
