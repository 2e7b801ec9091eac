----------------------- MODULE N64ControllerPakProofs -----------------------
(***************************************************************************)
(* Contents of controller paks that were answered as stored stay so, and   *)
(* the files of their revisions too, for any number of lines, profiles,    *)
(* saves and failed writes.                                                *)
(*                                                                         *)
(* Cleanup would lose the files of every revision if it found two of one   *)
(* content. It finds none: that is NoTwins, which uploads keep because     *)
(* they compare with all revisions of a save, and which the file has as    *)
(* well, so that a restart keeps it. And memory may be ahead of the file,  *)
(* after a write that failed, but never behind it.                         *)
(*                                                                         *)
(* The second part proves that the latest paks show the active saves of    *)
(* their line, until a write fails or another line uploads one of them.    *)
(***************************************************************************)
EXTENDS N64ControllerPak, FiniteSetTheorems, SequenceTheorems, TLAPS

Bounds == MaxPaks \in Nat /\ MaxPakFaults \in Nat /\ 1 \in Profiles

NoTwins(s) ==
  \A l \in Logicals : \A i, j \in DOMAIN s.revisions[l] :
    (/\ ~s.revisions[l][i].rollback /\ ~s.revisions[l][j].rollback
     /\ s.revisions[l][i].content = s.revisions[l][j].content) => i = j

Sound(s) == s \in Pak /\ s.attached \subseteq s.projections /\ NoTwins(s)

Extends(s, t) == \A l \in Logicals : Revised(t, l) \subseteq Revised(s, l)

HasFiles(s, files) == \A l \in Logicals : \A c \in Revised(s, l) : <<l, c>> \in files

RequestOK(s, r) ==
  /\ r \in Request
  /\ r.todo # {} => r.at \in Rebuilds
  /\ \A m \in r.promise : m[2] \in Revised(s, m[1])

IInv ==
  /\ PaksTypeOK
  /\ Sound(pak) /\ Sound(pakFile) /\ Extends(pak, pakFile)
  /\ HasFiles(pak, payloads)
  /\ \A r \in uploads : RequestOK(pakFile, r)
  /\ \A m \in acknowledged : m[2] \in Revised(pakFile, m[1])
-----------------------------------------------------------------------------
(***************************************************************************)
(* What is built of the revisions, and what cleanup leaves of them.        *)
(***************************************************************************)
LEMMA CanonicalPakIsCard ==
  ASSUME NEW s \in Pak, NEW k \in Lines
  PROVE  CanonicalPak(s, k) \in Cards
<1>1. \A l \in Active(s, k) : LatestRevision(s, l) \in Contents
  <2> SUFFICES ASSUME NEW l \in Active(s, k) PROVE LatestRevision(s, l) \in Contents
    OBVIOUS
  <2>1. s.revisions[l] \in Seq(Revision) /\ s.revisions[l] # << >>
    BY DEF Active, Pak
  <2>2. s.revisions[l][Len(s.revisions[l])] \in Revision
    BY <2>1
  <2> QED BY <2>2 DEF LatestRevision, Revision
<1>2. Active(s, k) \in SUBSET Logicals
  BY DEF Active
<1>3. CanonicalPak(s, k) \in [Active(s, k) -> Contents]
  BY <1>1 DEF CanonicalPak
<1> QED BY <1>2, <1>3 DEF Cards

LEMMA RebuiltIsSound ==
  ASSUME Bounds, NEW s, Sound(s), NEW k \in Lines, NEW due \in SUBSET Profiles, NEW done,
         NEW rollback \in BOOLEAN, due # {} => Len(s.built) < MaxPaks
  PROVE  /\ Sound(Rebuilt(s, k, due, done, rollback))
         /\ Rebuilt(s, k, due, done, rollback).revisions = s.revisions
<1> DEFINE n == Len(s.built) + 1
           new == due \cap done
           t == Rebuilt(s, k, due, done, rollback)
<1>1. CASE new = {}
  BY <1>1 DEF Rebuilt
<1>2. CASE new # {}
  <2> DEFINE card == [line |-> k, card |-> CanonicalPak(s, k), rollback |-> rollback]
             built == Append(s.built, card)
             latest == [j \in Lines \X Profiles |->
                          IF j[1] = k /\ j[2] \in new THEN n ELSE s.latest[j]]
  <2>1. t = [s EXCEPT !.built = built, !.projections = @ \cup (new \X {n}), !.latest = latest]
    BY <1>2 DEF Rebuilt
  <2>2. n \in Rebuilds
    BY <1>2 DEF Sound, Pak, Rebuilds, Bounds
  <2>3. built \in Seq([line : Lines, card : Cards, rollback : BOOLEAN])
    <3>1. card \in [line : Lines, card : Cards, rollback : BOOLEAN]
      BY CanonicalPakIsCard DEF Sound
    <3> HIDE DEF card
    <3> QED BY <3>1 DEF Sound, Pak
  <2>4. latest \in [Lines \X Profiles -> {None} \cup Rebuilds]
    BY <2>2 DEF Sound, Pak
  <2>5. s.projections \cup (new \X {n}) \in SUBSET (Profiles \X Rebuilds)
    BY <2>2 DEF Sound, Pak
  <2> HIDE DEF built, latest, n, new, t
  <2>6. /\ t \in Pak /\ t.revisions = s.revisions /\ t.attached = s.attached
        /\ s.projections \subseteq t.projections
    BY <2>1, <2>3, <2>4, <2>5 DEF Sound, Pak
  <2> QED BY <2>6 DEF Sound, NoTwins, t
<1> QED BY <1>1, <1>2

LEMMA CardinalityUpTo == ASSUME NEW n \in Nat PROVE Cardinality(1 .. n) = n
<1>1. Cardinality(1 .. n) = IF 1 > n THEN 0 ELSE n - 1 + 1
  BY FS_Interval
<1> QED BY <1>1

\* Of the numbers up to n, the one with i - 1 below it is i.
LEMMA NthOfAll ==
  ASSUME NEW n \in Nat, NEW i \in 1 .. n
  PROVE  (CHOOSE j \in 1 .. n : Cardinality({k \in 1 .. n : k < j}) = i - 1) = i
<1>1. \A j \in 1 .. n : Cardinality({k \in 1 .. n : k < j}) = j - 1
  <2> SUFFICES ASSUME NEW j \in 1 .. n PROVE Cardinality({k \in 1 .. n : k < j}) = j - 1
    OBVIOUS
  <2>1. {k \in 1 .. n : k < j} = 1 .. (j - 1)
    OBVIOUS
  <2>2. Cardinality(1 .. (j - 1)) = j - 1
    BY CardinalityUpTo
  <2> QED BY <2>1, <2>2
<1>2. \A j \in 1 .. n : Cardinality({k \in 1 .. n : k < j}) = i - 1 <=> j = i
  BY <1>1
<1> QED BY <1>2

LEMMA CleanedIsSound ==
  ASSUME NEW s, Sound(s)
  PROVE  Sound(Cleaned(s)) /\ Cleaned(s).revisions = s.revisions
<1> DEFINE kept(l) == {i \in DOMAIN s.revisions[l] : i \notin SurplusRevisions(s.revisions[l])}
           nth(l, n) == CHOOSE i \in kept(l) : Cardinality({j \in kept(l) : j < i}) = n - 1
           revisions == [l \in Logicals |->
                           [n \in 1 .. Cardinality(kept(l)) |-> s.revisions[l][nth(l, n)]]]
<1>1. ASSUME NEW l \in Logicals PROVE revisions[l] = s.revisions[l]
  <2> DEFINE revs == s.revisions[l]
  <2>1. revs \in Seq(Revision) /\ Len(revs) \in Nat /\ DOMAIN revs = 1 .. Len(revs)
    BY DEF Sound, Pak
  <2>2. SurplusRevisions(revs) = {}
    BY <2>1 DEF SurplusRevisions, Sound, NoTwins
  <2>3. kept(l) = 1 .. Len(revs)
    BY <2>1, <2>2
  <2>4. Cardinality(kept(l)) = Len(revs)
    BY <2>1, <2>3, CardinalityUpTo
  <2>5. \A n \in 1 .. Len(revs) : nth(l, n) = n
    BY <2>1, <2>3, NthOfAll
  <2>6. [n \in 1 .. Cardinality(kept(l)) |-> revs[nth(l, n)]] = revs
    <3> HIDE DEF kept, nth, revs
    <3> QED BY <2>1, <2>4, <2>5
  <2> QED BY <2>6
<1>2. revisions = s.revisions
  <2>1. s.revisions \in [Logicals -> Seq(Revision)]
    BY DEF Sound, Pak
  <2>2. revisions = [l \in Logicals |-> revisions[l]]
    OBVIOUS
  <2> HIDE DEF revisions
  <2> QED BY <1>1, <2>1, <2>2
<1>3. Cleaned(s) = [s EXCEPT !.revisions = revisions, !.projections = @ \ SurplusPaks(s),
                             !.attached = @ \ SurplusPaks(s)]
  BY DEF Cleaned
<1> HIDE DEF revisions
<1>4. /\ Cleaned(s) \in Pak /\ Cleaned(s).revisions = s.revisions
      /\ Cleaned(s).attached = s.attached \ SurplusPaks(s)
      /\ Cleaned(s).projections = s.projections \ SurplusPaks(s)
  <2>1. /\ s.projections \ SurplusPaks(s) \in SUBSET (Profiles \X Rebuilds)
        /\ s.attached \ SurplusPaks(s) \in SUBSET (Profiles \X Rebuilds)
    BY DEF Sound, Pak
  <2> QED BY <1>2, <1>3, <2>1 DEF Sound, Pak
<1> QED BY <1>4 DEF Sound, NoTwins
-----------------------------------------------------------------------------
(***************************************************************************)
(* Writing the state.                                                      *)
(***************************************************************************)
(* What a step needs of the state it makes, besides its being sound.       *)
Advances(s) == Sound(s) /\ Extends(s, pak) /\ HasFiles(s, payloads')

StaysTyped ==
  /\ payloads \subseteq payloads' /\ payloads' \subseteq Logicals \X Contents
  /\ copies' \subseteq Profiles \X Rebuilds
  /\ uploaded' \subseteq Lines \X Logicals

LEMMA RevisedAreContents ==
  ASSUME NEW s \in Pak, NEW l \in Logicals
  PROVE  Revised(s, l) \subseteq Contents
<1>1. \A i \in DOMAIN s.revisions[l] : s.revisions[l][i] \in Revision
  BY DEF Pak
<1> QED BY <1>1 DEF Revised, Revision

(* The file is left as it was: what it has memory has still.               *)
LEMMA DropKeeps ==
  ASSUME IInv, NEW s, Advances(s), StaysTyped, pak' = s,
         NEW others \in SUBSET uploads, Drop(others), pakFaults' \in 0 .. MaxPakFaults
  PROVE  IInv'
<1>1. /\ uploads' = others /\ UNCHANGED <<pakFile, acknowledged>>
  BY DEF Drop
<1>2. PaksTypeOK'
  BY <1>1 DEF IInv, PaksTypeOK, Advances, Sound, StaysTyped
<1>3. Extends(pak, pakFile)'
  <2>1. \A l \in Logicals : Revised(pakFile, l) \subseteq Revised(s, l)
    BY DEF IInv, Advances, Extends
  <2>2. \A l \in Logicals : Revised(pakFile, l)' = Revised(pakFile, l)
    BY <1>1 DEF Revised
  <2>3. \A l \in Logicals : Revised(pak, l)' = Revised(s, l)
    BY DEF Revised
  <2> QED BY <2>1, <2>2, <2>3 DEF Extends
<1>4. \A r \in uploads' : RequestOK(pakFile, r)'
  BY <1>1 DEF IInv, RequestOK, Revised
<1> QED
  BY <1>1, <1>2, <1>3, <1>4 DEF IInv, Advances, Sound, NoTwins, HasFiles, Revised

(* The file is written, and the request goes on or is answered.            *)
LEMMA WrittenKeeps ==
  ASSUME IInv, NEW s, Advances(s), StaysTyped, pak' = s, pakFile' = s, UNCHANGED pakFaults,
         NEW others \in SUBSET uploads, NEW r, RequestOK(s, r), Proceed(others, r)
  PROVE  IInv'
<1>1. Extends(s, pakFile)
  BY DEF IInv, Advances, Extends
<1>2. \A q \in others : RequestOK(s, q)
  <2> SUFFICES ASSUME NEW q \in others, NEW m \in q.promise PROVE m[2] \in Revised(s, m[1])
    BY DEF IInv, RequestOK
  <2>1. m[2] \in Revised(pakFile, m[1]) /\ m[1] \in Logicals
    BY DEF IInv, RequestOK, Request
  <2> QED BY <1>1, <2>1 DEF Extends
<1>3. \A m \in acknowledged : m[2] \in Revised(s, m[1])
  <2> SUFFICES ASSUME NEW m \in acknowledged PROVE m[2] \in Revised(s, m[1])
    OBVIOUS
  <2>1. m[2] \in Revised(pakFile, m[1]) /\ m[1] \in Logicals
    BY DEF IInv, PaksTypeOK
  <2> QED BY <1>1, <2>1 DEF Extends
<1>4. \A step \in {"materialize", "lookup"} :
        LET q == [r EXCEPT !.step = step] IN RequestOK(s, q)
  BY DEF RequestOK, Request
<1>5. /\ \A q \in uploads' : RequestOK(s, q)
      /\ acknowledged' \subseteq acknowledged \cup r.promise
  <2>1. CASE uploads' = others \cup {[r EXCEPT !.step = "materialize"]} /\ UNCHANGED acknowledged
    BY <2>1, <1>2, <1>4
  <2>2. CASE uploads' = others \cup {[r EXCEPT !.step = "lookup"]} /\ UNCHANGED acknowledged
    BY <2>2, <1>2, <1>4
  <2>3. CASE uploads' = others /\ acknowledged' = acknowledged \cup r.promise
    BY <2>3, <1>2
  <2> QED BY <2>1, <2>2, <2>3 DEF Proceed
<1>6. /\ \A m \in acknowledged' : m[2] \in Revised(s, m[1])
      /\ acknowledged' \subseteq Logicals \X Contents
  BY <1>3, <1>5 DEF RequestOK, Request, IInv, PaksTypeOK
<1>7. PaksTypeOK'
  BY <1>5, <1>6 DEF IInv, PaksTypeOK, Advances, Sound, StaysTyped, RequestOK
<1>8. \A q \in uploads' : RequestOK(pakFile, q)'
  BY <1>5 DEF RequestOK, Revised
<1> QED
  BY <1>6, <1>7, <1>8 DEF IInv, Advances, Sound, NoTwins, Extends, HasFiles, Revised

LEMMA PersistKeeps ==
  ASSUME Bounds, IInv, NEW s, Advances(s), StaysTyped,
         NEW others \in SUBSET uploads, NEW r, RequestOK(s, r), Persist(s, others, r)
  PROVE  IInv'
<1>1. CASE pakFile' = s /\ Proceed(others, r) /\ UNCHANGED pakFaults
  BY <1>1, WrittenKeeps DEF Persist
<1>2. CASE PakFault /\ Drop(others)
  <2>1. pakFaults' \in 0 .. MaxPakFaults
    BY <1>2 DEF PakFault, IInv, PaksTypeOK, Bounds
  <2> QED BY <1>2, <2>1, DropKeeps DEF Persist
<1> QED BY <1>1, <1>2 DEF Persist

LEMMA RebuildKeeps ==
  ASSUME Bounds, IInv, NEW s, Advances(s), StaysTyped, NEW k \in Lines,
         NEW rollback \in BOOLEAN, NEW others \in SUBSET uploads, NEW r, RequestOK(s, r),
         NEW files, RebuildAndPersist(s, k, files, rollback, others, r)
  PROVE  IInv'
<1> DEFINE due == Due(s, k, rollback)
           next == [r EXCEPT !.todo = due,
                             !.at = IF due = {} THEN None ELSE Len(s.built) + 1]
<1>1. due \in SUBSET Profiles
  BY DEF Due
<1>2. CASE CannotBuild(s, k, files)
  <2>1. pakFaults' \in 0 .. MaxPakFaults /\ pak' = s /\ Drop(others)
    BY <1>2 DEF RebuildAndPersist, IInv, PaksTypeOK
  <2> QED BY <2>1, DropKeeps
<1>3. ASSUME NEW done, due # {} => Len(s.built) < MaxPaks
      PROVE  Advances(Rebuilt(s, k, due, done, rollback))
  <2>1. /\ Sound(Rebuilt(s, k, due, done, rollback))
        /\ Rebuilt(s, k, due, done, rollback).revisions = s.revisions
    BY <1>1, <1>3, RebuiltIsSound DEF Advances
  <2>2. \A l \in Logicals : Revised(Rebuilt(s, k, due, done, rollback), l) = Revised(s, l)
    BY <2>1 DEF Revised
  <2> QED BY <2>1, <2>2 DEF Advances, Extends, HasFiles
<1>4. CASE /\ ~CannotBuild(s, k, files)
           /\ due # {} => Len(s.built) < MaxPaks
           /\ Persist(Rebuilt(s, k, due, Profiles, rollback), others, next)
  <2> DEFINE t == Rebuilt(s, k, due, Profiles, rollback)
  <2>1. Len(s.built) + 1 \in Nat /\ (due # {} => Len(s.built) + 1 \in Rebuilds)
    BY <1>4 DEF Advances, Sound, Pak, Rebuilds, Bounds
  <2>2. RequestOK(s, next)
    <3>1. r \in Request
      BY DEF RequestOK
    <3>2. /\ next \in Request /\ next.todo = due /\ next.promise = r.promise
          /\ (due # {} => next.at \in Rebuilds)
      <4> HIDE DEF due
      <4> QED BY <1>1, <2>1, <3>1 DEF Request
    <3> QED BY <3>2 DEF RequestOK
  <2>3. t.revisions = s.revisions
    BY <1>1, <1>4, RebuiltIsSound DEF Advances
  <2>4. RequestOK(t, next)
    <3> HIDE DEF t, next
    <3> QED BY <2>2, <2>3 DEF RequestOK, Revised
  <2>5. Advances(t)
    BY <1>3, <1>4
  <2> HIDE DEF t, next
  <2> QED BY <1>4, <2>4, <2>5, PersistKeeps DEF t, next
<1>5. ASSUME NEW p \in due, due # {} => Len(s.built) < MaxPaks,
             pak' = Rebuilt(s, k, due, 1 .. p - 1, rollback), PakFault, Drop(others)
      PROVE  IInv'
  <2>1. pakFaults' \in 0 .. MaxPakFaults
    BY <1>5 DEF PakFault, IInv, PaksTypeOK, Bounds
  <2> QED BY <1>3, <1>5, <2>1, DropKeeps
<1> QED BY <1>2, <1>4, <1>5 DEF RebuildAndPersist
-----------------------------------------------------------------------------
(***************************************************************************)
(* The operations.                                                         *)
(***************************************************************************)
LEMMA InitIsSound == ASSUME Bounds, PaksInit PROVE IInv
<1>1. EmptyPak \in Pak
  <2>1. << >> \in Seq([line : Lines, card : Cards, rollback : BOOLEAN])
    OBVIOUS
  <2>2. [l \in Logicals |-> << >>] \in [Logicals -> Seq(Revision)]
    OBVIOUS
  <2>3. /\ [k \in Lines \X Profiles |-> None] \in [Lines \X Profiles -> {None} \cup Rebuilds]
        /\ [l \in Logicals |-> NoLine] \in [Logicals -> Lines \cup {NoLine}]
    OBVIOUS
  <2> QED BY <2>1, <2>2, <2>3 DEF EmptyPak, Pak
<1>2. /\ \A l \in Logicals : EmptyPak.revisions[l] = << >>
      /\ EmptyPak.attached = {} /\ EmptyPak.projections = {}
  BY DEF EmptyPak
<1>3. Sound(EmptyPak) /\ \A l \in Logicals : Revised(EmptyPak, l) = {}
  BY <1>1, <1>2 DEF Sound, NoTwins, Revised
<1>4. PaksTypeOK
  BY <1>1, <1>2 DEF PaksInit, PaksTypeOK, Bounds
<1>5. pak = EmptyPak /\ pakFile = EmptyPak /\ uploads = {} /\ acknowledged = {}
  BY DEF PaksInit
<1> QED BY <1>3, <1>4, <1>5 DEF IInv, Extends, HasFiles

(* One more revision of some saves.                                        *)
LEMMA AppendedRevision ==
  ASSUME NEW revs \in Seq(Revision), NEW rev \in Revision
  PROVE  /\ Append(revs, rev) \in Seq(Revision)
         /\ DOMAIN Append(revs, rev) = DOMAIN revs \cup {Len(revs) + 1}
         /\ Len(revs) + 1 \notin DOMAIN revs
         /\ \A i \in DOMAIN revs : Append(revs, rev)[i] = revs[i]
         /\ Append(revs, rev)[Len(revs) + 1] = rev
<1>1. Len(revs) \in Nat /\ DOMAIN revs = 1 .. Len(revs)
  OBVIOUS
<1>2. /\ Append(revs, rev) \in Seq(Revision) /\ Len(Append(revs, rev)) = Len(revs) + 1
      /\ \A i \in 1 .. Len(revs) : Append(revs, rev)[i] = revs[i]
      /\ Append(revs, rev)[Len(revs) + 1] = rev
  OBVIOUS
<1>3. DOMAIN Append(revs, rev) = 1 .. (Len(revs) + 1)
  BY <1>1, <1>2
<1>4. 1 .. (Len(revs) + 1) = 1 .. Len(revs) \cup {Len(revs) + 1}
  BY <1>1
<1> QED BY <1>1, <1>2, <1>3, <1>4

LEMMA RevisedIsSound ==
  ASSUME NEW s, Sound(s), NEW t \in Pak, t.attached \subseteq t.projections,
         NEW S \in SUBSET Logicals, NEW rev \in [S -> Revision],
         \A l \in Logicals :
           t.revisions[l] = IF l \in S THEN Append(s.revisions[l], rev[l]) ELSE s.revisions[l],
         \A l \in S : rev[l].rollback \/ rev[l].content \notin Revised(s, l)
  PROVE  /\ Sound(t)
         /\ \A l \in Logicals : Revised(t, l) =
              IF l \in S THEN Revised(s, l) \cup {rev[l].content} ELSE Revised(s, l)
<1>1. \A l \in Logicals : s.revisions[l] \in Seq(Revision)
  BY DEF Sound, Pak
<1>2. ASSUME NEW l \in S
      PROVE  /\ DOMAIN t.revisions[l] = DOMAIN s.revisions[l] \cup {Len(s.revisions[l]) + 1}
             /\ Len(s.revisions[l]) + 1 \notin DOMAIN s.revisions[l]
             /\ \A i \in DOMAIN s.revisions[l] : t.revisions[l][i] = s.revisions[l][i]
             /\ t.revisions[l][Len(s.revisions[l]) + 1] = rev[l]
  <2>1. s.revisions[l] \in Seq(Revision) /\ rev[l] \in Revision
        /\ t.revisions[l] = Append(s.revisions[l], rev[l])
    BY <1>1
  <2> QED BY <2>1, AppendedRevision
<1>3. NoTwins(t)
  <2> SUFFICES ASSUME NEW l \in Logicals,
                      NEW i \in DOMAIN t.revisions[l], NEW j \in DOMAIN t.revisions[l],
                      ~t.revisions[l][i].rollback, ~t.revisions[l][j].rollback,
                      t.revisions[l][i].content = t.revisions[l][j].content
               PROVE  i = j
    BY DEF NoTwins
  <2>1. CASE l \notin S
    BY <2>1 DEF Sound, NoTwins
  <2>2. CASE l \in S
    <3> DEFINE n == Len(s.revisions[l]) + 1
    <3>1. CASE i # n /\ j # n
      BY <1>2, <2>2, <3>1 DEF Sound, NoTwins
    <3>2. CASE i = n /\ j # n
      BY <1>2, <2>2, <3>2 DEF Revised
    <3>3. CASE i # n /\ j = n
      BY <1>2, <2>2, <3>3 DEF Revised
    <3> QED BY <3>1, <3>2, <3>3
  <2> QED BY <2>1, <2>2
<1>4. ASSUME NEW l \in Logicals
      PROVE  Revised(t, l) = IF l \in S THEN Revised(s, l) \cup {rev[l].content}
                             ELSE Revised(s, l)
  <2>1. CASE l \notin S
    BY <2>1 DEF Revised
  <2>2. CASE l \in S
    BY <1>2, <2>2 DEF Revised
  <2> QED BY <2>1, <2>2
<1> QED BY <1>3, <1>4 DEF Sound

LEMMA EnteredIsSound ==
  ASSUME Sound(pak), HasFiles(pak, payloads), NEW k \in Lines, NEW card \in Cards
  PROVE  /\ Sound(Entered(k, card)) /\ Extends(Entered(k, card), pak)
         /\ HasFiles(Entered(k, card), payloads \cup NewFiles(card))
         /\ \A l \in DOMAIN card : card[l] \in Revised(Entered(k, card), l)
         /\ DOMAIN card \subseteq Logicals /\ \A l \in DOMAIN card : card[l] \in Contents
         /\ NewFiles(card) \subseteq Logicals \X Contents
<1> DEFINE t == Entered(k, card)
           S == Fresh(card)
           rev == [l \in S |-> [content |-> card[l], rollback |-> FALSE]]
           line == [l \in Logicals |-> IF l \in DOMAIN card THEN k ELSE pak.line[l]]
           revisions == [l \in Logicals |->
              IF l \in S THEN Append(pak.revisions[l], [content |-> card[l], rollback |-> FALSE])
              ELSE pak.revisions[l]]
<1>1. DOMAIN card \subseteq Logicals /\ \A l \in DOMAIN card : card[l] \in Contents
  BY DEF Cards
<1>2. S \subseteq DOMAIN card /\ \A l \in DOMAIN card \ S : card[l] \in Revised(pak, l)
  BY DEF Fresh
<1>3. rev \in [S -> Revision]
  BY <1>1, <1>2 DEF Revision
<1>4. t = [pak EXCEPT !.line = line, !.tombstones = @ \ ({k} \X S), !.revisions = revisions]
  BY DEF Entered
<1>5. revisions \in [Logicals -> Seq(Revision)]
  <2>1. \A l \in Logicals : pak.revisions[l] \in Seq(Revision)
    BY DEF Sound, Pak
  <2>2. \A l \in S : [content |-> card[l], rollback |-> FALSE] \in Revision
    BY <1>1, <1>2 DEF Revision
  <2>3. \A l \in S : Append(pak.revisions[l], [content |-> card[l], rollback |-> FALSE])
                       \in Seq(Revision)
    BY <1>1, <1>2, <2>1, <2>2, AppendedRevision
  <2> QED BY <2>1, <2>3
<1>6. line \in [Logicals -> Lines \cup {NoLine}]
  BY DEF Sound, Pak
<1>7. \A l \in Logicals : revisions[l] = IF l \in S THEN Append(pak.revisions[l], rev[l])
                                         ELSE pak.revisions[l]
  OBVIOUS
<1>8. \A l \in S : rev[l].content = card[l] /\ card[l] \notin Revised(pak, l)
  BY DEF Fresh
<1>9. /\ t \in Pak /\ t.revisions = revisions /\ t.attached \subseteq t.projections
  <2>1. pak.tombstones \ ({k} \X S) \in SUBSET (Lines \X Logicals)
    BY DEF Sound, Pak
  <2> HIDE DEF t, S, rev, line, revisions
  <2> QED BY <1>4, <1>5, <1>6, <2>1 DEF Sound, Pak
<1>10. NewFiles(card) = {<<l, card[l]>> : l \in S}
  BY DEF NewFiles
<1> HIDE DEF t, S, rev, line, revisions
<1>11. /\ Sound(t)
       /\ \A l \in Logicals : Revised(t, l) =
            IF l \in S THEN Revised(pak, l) \cup {rev[l].content} ELSE Revised(pak, l)
  BY <1>1, <1>2, <1>3, <1>7, <1>8, <1>9, RevisedIsSound
<1>12. HasFiles(t, payloads \cup NewFiles(card))
  BY <1>8, <1>10, <1>11 DEF HasFiles
<1>13. Extends(t, pak) /\ \A l \in DOMAIN card : card[l] \in Revised(t, l)
  BY <1>1, <1>2, <1>8, <1>11 DEF Extends
<1>14. NewFiles(card) \subseteq Logicals \X Contents
  BY <1>1, <1>2, <1>10
<1> QED BY <1>1, <1>11, <1>12, <1>13, <1>14 DEF t

(* All but its revisions may differ.                                       *)
LEMMA SameRevisions ==
  ASSUME NEW s, Sound(s), Extends(s, pak), HasFiles(s, payloads'),
         NEW t \in Pak, t.revisions = s.revisions, t.attached \subseteq t.projections
  PROVE  Advances(t) /\ \A l \in Logicals : Revised(t, l) = Revised(s, l)
<1>1. \A l \in Logicals : Revised(t, l) = Revised(s, l)
  BY DEF Revised
<1>2. NoTwins(t)
  BY DEF Sound, NoTwins
<1> QED BY <1>1, <1>2 DEF Advances, Sound, Extends, HasFiles

LEMMA UploadKeeps ==
  ASSUME Bounds, IInv, NEW k \in Lines, NEW p \in Profiles, NEW card \in Cards,
         Upload(k, p, card)
  PROVE  IInv'
<1> DEFINE entered == Entered(k, card)
           missing == Missing(entered, k, card)
           s == [entered EXCEPT !.tombstones = @ \cup ({k} \X missing)]
           changed == Fresh(card) \cup missing # {}
           promise == IF ~changed /\ Historical(k, card) # {} THEN {}
                      ELSE {<<l, card[l]>> : l \in DOMAIN card}
           r == [step |-> "lookup", line |-> k, profile |-> p, todo |-> {}, at |-> None,
                 own |-> FALSE, gone |-> {}, promise |-> promise]
<1>1. /\ Sound(entered) /\ Extends(entered, pak)
      /\ HasFiles(entered, payloads \cup NewFiles(card))
      /\ \A l \in DOMAIN card : card[l] \in Revised(entered, l)
      /\ DOMAIN card \subseteq Logicals /\ \A l \in DOMAIN card : card[l] \in Contents
      /\ NewFiles(card) \subseteq Logicals \X Contents
  BY EnteredIsSound DEF IInv
<1>2. /\ s \in Pak /\ s.revisions = entered.revisions
      /\ s.attached = entered.attached /\ s.projections = entered.projections
  <2>1. {k} \X missing \in SUBSET (Lines \X Logicals)
    BY DEF Missing
  <2> HIDE DEF entered, missing
  <2> QED BY <1>1, <2>1 DEF Sound, Pak
<1>3. promise \subseteq Logicals \X Contents
      /\ \A m \in promise : m[2] \in Revised(entered, m[1])
  BY <1>1
<1> HIDE DEF entered, missing, s, changed, promise
<1>4. payloads' = payloads \cup NewFiles(card) /\ uploaded' = uploaded \cup ({k} \X DOMAIN card)
      /\ UNCHANGED copies
  BY DEF Upload
<1>5. Advances(s)
  <2>1. s.attached \subseteq s.projections
    BY <1>1, <1>2 DEF Sound
  <2>2. HasFiles(entered, payloads')
    BY <1>1, <1>4
  <2> QED BY <1>1, <1>2, <2>1, <2>2, SameRevisions
<1>6. StaysTyped
  BY <1>1, <1>4 DEF StaysTyped, IInv, PaksTypeOK
<1>7. RequestOK(s, r)
  <2>1. r \in Request /\ r.todo = {} /\ r.promise = promise
    BY <1>3 DEF Request
  <2> HIDE DEF r
  <2> QED BY <1>2, <1>3, <2>1 DEF RequestOK, Revised
<1>8. \/ Persist(s, uploads, r)
      \/ RebuildAndPersist(s, k, payloads', FALSE, uploads, r)
  BY DEF Upload, s, r, promise, changed, missing, entered
<1> HIDE DEF r
<1> QED BY <1>5, <1>6, <1>7, <1>8, PersistKeeps, RebuildKeeps

LEMMA UploadPartlyKeeps ==
  ASSUME Bounds, IInv, NEW k \in Lines, NEW card \in Cards, NEW S \in SUBSET Logicals,
         UploadPartly(k, card, S)
  PROVE  IInv'
<1> DEFINE part == Restrict(card, S)
<1>1. S \subseteq DOMAIN card /\ part \in Cards
  <2>1. /\ S \subseteq DOMAIN card /\ \A l \in DOMAIN card : card[l] \in Contents
    BY DEF UploadPartly, Cards
  <2>2. part \in [S -> Contents]
    BY <2>1 DEF Restrict
  <2> QED BY <2>1, <2>2 DEF Cards
<1>2. /\ pak' = Entered(k, part) /\ payloads' = payloads \cup NewFiles(part)
      /\ uploaded' = uploaded \cup ({k} \X S) /\ UNCHANGED <<copies, uploads, acknowledged>>
      /\ Drop(uploads) /\ PakFault
  BY DEF UploadPartly, Drop
<1> HIDE DEF part
<1>3. /\ Sound(Entered(k, part)) /\ Extends(Entered(k, part), pak)
      /\ HasFiles(Entered(k, part), payloads \cup NewFiles(part))
      /\ NewFiles(part) \subseteq Logicals \X Contents
  BY <1>1, EnteredIsSound DEF IInv
<1>4. Advances(Entered(k, part)) /\ StaysTyped
  BY <1>1, <1>2, <1>3 DEF Advances, StaysTyped, IInv, PaksTypeOK
<1>5. pakFaults' \in 0 .. MaxPakFaults
  BY <1>2 DEF PakFault, IInv, PaksTypeOK, Bounds
<1> QED BY <1>2, <1>4, <1>5, DropKeeps

(* Requests of the web page change no more than tombstones, or add a       *)
(* revision that is a copy of one.                                         *)
LEMMA WebRequestIsOK ==
  ASSUME NEW k \in Lines, NEW p \in Profiles, NEW s,
         NEW promise \in SUBSET (Logicals \X Contents),
         \A m \in promise : m[2] \in Revised(s, m[1])
  PROVE  /\ RequestOK(s, WebRequest(k, p))
         /\ RequestOK(s, [WebRequest(k, p) EXCEPT !.promise = promise])
<1> DEFINE r == [WebRequest(k, p) EXCEPT !.promise = promise]
<1>0. RequestOK(s, WebRequest(k, p))
  <2>1. /\ WebRequest(k, p) \in Request
        /\ WebRequest(k, p).todo = {} /\ WebRequest(k, p).promise = {}
    BY DEF WebRequest, Request
  <2> QED BY <2>1 DEF RequestOK
<1>1. r \in Request /\ r.todo = {} /\ r.promise = promise
  BY DEF WebRequest, Request
<1> HIDE DEF r
<1>2. RequestOK(s, r)
  BY <1>1 DEF RequestOK
<1> QED BY <1>0, <1>2 DEF r

LEMMA DeleteKeeps ==
  ASSUME Bounds, IInv, NEW k \in Lines, NEW p \in Profiles, NEW l \in Logicals,
         DeleteLogicalSave(k, p, l)
  PROVE  IInv'
<1> DEFINE s == [pak EXCEPT !.tombstones = @ \cup {<<k, l>>}]
<1>1. /\ s \in Pak /\ s.revisions = pak.revisions
      /\ s.attached = pak.attached /\ s.projections = pak.projections
  <2>1. pak.tombstones \cup {<<k, l>>} \in SUBSET (Lines \X Logicals)
    BY DEF IInv, Sound, Pak
  <2> QED BY <2>1 DEF IInv, Sound, Pak
<1>2. RequestOK(s, WebRequest(k, p))
  <2> HIDE DEF s
  <2> QED BY WebRequestIsOK, {} \in SUBSET (Logicals \X Contents)
<1>3. RebuildAndPersist(s, k, payloads, FALSE, uploads, WebRequest(k, p))
      /\ UNCHANGED <<payloads, copies, uploaded>>
  BY DEF DeleteLogicalSave
<1> HIDE DEF s
<1>4. Advances(s)
  <2>1. Sound(pak) /\ HasFiles(pak, payloads') /\ s.attached \subseteq s.projections
    BY <1>1, <1>3 DEF IInv, Sound
  <2> QED BY <1>1, <2>1, SameRevisions DEF Extends
<1>5. StaysTyped
  BY <1>3 DEF StaysTyped, IInv, PaksTypeOK
<1> QED BY <1>2, <1>3, <1>4, <1>5, RebuildKeeps

LEMMA RollbackKeeps ==
  ASSUME Bounds, IInv, NEW k \in Lines, NEW p \in Profiles, NEW l \in Logicals,
         NEW i \in DOMAIN pak.revisions[l], RollbackLogicalSave(k, p, l, i)
  PROVE  IInv'
<1> DEFINE content == pak.revisions[l][i].content
           rev == [content |-> content, rollback |-> TRUE]
           revs == Append(pak.revisions[l], rev)
           copy == [n \in {l} |-> rev]
           s == [pak EXCEPT !.revisions[l] = revs, !.tombstones = @ \ {<<k, l>>}]
           r == [WebRequest(k, p) EXCEPT !.promise = {<<l, content>>}]
<1>1. /\ pak.revisions[l] \in Seq(Revision) /\ content \in Contents /\ rev \in Revision
      /\ content \in Revised(pak, l)
  <2>1. pak.revisions[l] \in Seq(Revision)
    BY DEF IInv, Sound, Pak
  <2>2. pak.revisions[l][i] \in Revision
    BY <2>1
  <2> QED BY <2>1, <2>2 DEF Revision, Revised
<1>2. revs \in Seq(Revision)
  BY <1>1, AppendedRevision
<1>3. /\ s \in Pak /\ s.revisions = [pak.revisions EXCEPT ![l] = revs]
      /\ s.attached = pak.attached /\ s.projections = pak.projections
  <2>1. [pak.revisions EXCEPT ![l] = revs] \in [Logicals -> Seq(Revision)]
    BY <1>2 DEF IInv, Sound, Pak
  <2>2. pak.tombstones \ {<<k, l>>} \in SUBSET (Lines \X Logicals)
    BY DEF IInv, Sound, Pak
  <2> HIDE DEF revs
  <2> QED BY <2>1, <2>2 DEF IInv, Sound, Pak
<1>4. \A m \in Logicals : s.revisions[m] =
        IF m \in {l} THEN Append(pak.revisions[m], copy[m]) ELSE pak.revisions[m]
  <2> HIDE DEF s
  <2> QED BY <1>3 DEF IInv, Sound, Pak
<1>5. /\ copy \in [{l} -> Revision] /\ {l} \in SUBSET Logicals
      /\ \A m \in {l} : copy[m].rollback /\ copy[m].content = content
  BY <1>1
<1> HIDE DEF s, rev, revs, content, copy
<1>6. /\ Sound(s)
      /\ \A m \in Logicals : Revised(s, m) =
           IF m \in {l} THEN Revised(pak, m) \cup {copy[m].content}
           ELSE Revised(pak, m)
  <2>1. Sound(pak) /\ s.attached \subseteq s.projections
    BY <1>3 DEF IInv, Sound
  <2>2. \A m \in {l} : copy[m].rollback \/ copy[m].content \notin Revised(pak, m)
    BY <1>5
  <2>3. s \in Pak
    BY <1>3
  <2> QED BY ONLY <1>4, <1>5, <2>1, <2>2, <2>3, RevisedIsSound
<1>7. \A m \in Logicals : Revised(s, m) = Revised(pak, m)
  BY <1>1, <1>5, <1>6
<1>8. RebuildAndPersist(s, k, payloads, TRUE, uploads, r)
      /\ UNCHANGED <<payloads, copies, uploaded>>
  BY DEF RollbackLogicalSave, s, revs, rev, content
<1>9. Advances(s) /\ StaysTyped
  BY <1>6, <1>7, <1>8 DEF Advances, Extends, HasFiles, StaysTyped, IInv, PaksTypeOK
<1>10. RequestOK(s, r)
  <2>1. /\ {<<l, content>>} \in SUBSET (Logicals \X Contents)
        /\ \A m \in {<<l, content>>} : m[2] \in Revised(s, m[1])
    BY <1>1, <1>7
  <2> QED BY <2>1, WebRequestIsOK
<1> HIDE DEF r
<1> QED BY <1>8, <1>9, <1>10, RebuildKeeps

(* A step that leaves the state, its file and the payloads alone.          *)
LEMMA UntouchedStaysSound ==
  ASSUME IInv, UNCHANGED <<pak, pakFile, payloads>>
  PROVE  /\ Sound(pak)' /\ Sound(pakFile)' /\ Extends(pak, pakFile)'
         /\ HasFiles(pak, payloads)'
<1>1. UNCHANGED pak /\ UNCHANGED pakFile /\ UNCHANGED payloads
  OBVIOUS
<1>2. Sound(pak) /\ Sound(pakFile) /\ Extends(pak, pakFile) /\ HasFiles(pak, payloads)
  BY DEF IInv
<1> QED BY ONLY <1>1, <1>2 DEF Extends, HasFiles, Sound, NoTwins, Revised

LEMMA MaterializeKeeps ==
  ASSUME Bounds, IInv, NEW r \in uploads, Materialize(r)
  PROVE  IInv'
<1> DEFINE next == [r EXCEPT !.step = "attach"]
<1>1. r \in Request /\ RequestOK(pakFile, r)
  BY DEF IInv, RequestOK
<1>2. Advances(pak) /\ UNCHANGED <<pak, payloads, uploaded>>
  BY DEF Materialize, IInv, Advances, Extends
<1>3. CASE PakFault /\ Drop(uploads \ {r}) /\ UNCHANGED copies
  <2>1. StaysTyped /\ pakFaults' \in 0 .. MaxPakFaults
    BY <1>2, <1>3 DEF StaysTyped, PakFault, IInv, PaksTypeOK, Bounds
  <2> QED BY <1>2, <1>3, <2>1, DropKeeps
<1>4. CASE /\ \E p \in NextDue(r) : copies' = copies \cup {<<p, r.at>>}
           /\ uploads' = (uploads \ {r}) \cup {next}
           /\ UNCHANGED <<pakFile, acknowledged, pakFaults>>
  <2>1. \A p \in NextDue(r) : <<p, r.at>> \in Profiles \X Rebuilds
    BY <1>1 DEF NextDue, RequestOK, Request
  <2>2. copies' \subseteq Profiles \X Rebuilds
    BY <1>4, <2>1 DEF IInv, PaksTypeOK
  <2>3. RequestOK(pakFile, next)
    BY <1>1 DEF RequestOK, Request
  <2> HIDE DEF next
  <2>4. \A q \in uploads' : RequestOK(pakFile, q)
    BY <1>4, <2>3 DEF IInv
  <2>5. PaksTypeOK'
    BY <1>2, <1>4, <2>2, <2>4 DEF IInv, PaksTypeOK, RequestOK
  <2>6. /\ Sound(pak)' /\ Sound(pakFile)' /\ Extends(pak, pakFile)'
        /\ HasFiles(pak, payloads)'
    BY <1>2, <1>4, UntouchedStaysSound
  <2>7. \A q \in uploads' : RequestOK(pakFile, q)'
    BY <1>4, <2>4 DEF RequestOK, Revised
  <2>8. \A m \in acknowledged' : m[2] \in Revised(pakFile, m[1])'
    BY <1>4 DEF IInv, Revised
  <2> QED BY <2>5, <2>6, <2>7, <2>8 DEF IInv
<1> QED BY <1>3, <1>4 DEF Materialize

LEMMA AttachKeeps ==
  ASSUME Bounds, IInv, NEW r \in uploads, Attach(r)
  PROVE  IInv'
<1> PICK p \in r.todo :
      LET copy == <<p, r.at>> IN
      \/ /\ copy \in pak.projections
         /\ Persist([pak EXCEPT !.attached = @ \cup {copy}], uploads \ {r},
                    [r EXCEPT !.todo = @ \ {p}, !.own = @ \/ p = r.profile])
      \/ /\ copy \notin pak.projections
         /\ Drop(uploads \ {r}) /\ UNCHANGED <<pak, pakFaults>>
  BY DEF Attach, NextDue
<1> DEFINE copy == <<p, r.at>>
           s == [pak EXCEPT !.attached = @ \cup {copy}]
           own == r.own \/ p = r.profile
           next == [r EXCEPT !.todo = @ \ {p}, !.own = own]
<1>1. /\ r \in Request /\ r.at \in Rebuilds /\ copy \in Profiles \X Rebuilds
      /\ RequestOK(pakFile, r)
  BY DEF IInv, RequestOK, Request
<1>2. Advances(pak) /\ UNCHANGED <<payloads, copies, uploaded>>
  BY DEF Attach, IInv, Advances, Extends
<1>3. StaysTyped
  BY <1>2 DEF StaysTyped, IInv, PaksTypeOK
<1>4. CASE Drop(uploads \ {r}) /\ UNCHANGED <<pak, pakFaults>>
  <2>1. pakFaults' \in 0 .. MaxPakFaults
    BY <1>4 DEF IInv, PaksTypeOK
  <2> QED BY <1>2, <1>3, <1>4, <2>1, DropKeeps
<1>5. CASE copy \in pak.projections /\ Persist(s, uploads \ {r}, next)
  <2>1. /\ s \in Pak /\ s.revisions = pak.revisions
        /\ s.attached = pak.attached \cup {copy} /\ s.projections = pak.projections
    <3>1. pak.attached \cup {copy} \in SUBSET (Profiles \X Rebuilds)
      BY <1>1 DEF IInv, Sound, Pak
    <3> HIDE DEF copy
    <3> QED BY <3>1 DEF IInv, Sound, Pak
  <2>2. s.attached \subseteq s.projections
    BY <1>5, <2>1 DEF IInv, Sound
  <2>3. Advances(s) /\ \A l \in Logicals : Revised(s, l) = Revised(pak, l)
    <3>1. Sound(pak) /\ Extends(pak, pak) /\ HasFiles(pak, payloads')
      BY <1>2 DEF Advances
    <3> HIDE DEF s
    <3> QED BY <2>1, <2>2, <3>1, SameRevisions
  <2>4. /\ next \in Request /\ next.todo \subseteq r.todo
        /\ next.at = r.at /\ next.promise = r.promise
    <3>1. own \in BOOLEAN /\ r.todo \ {p} \in SUBSET Profiles
      BY <1>1 DEF Request
    <3> HIDE DEF own
    <3> QED BY <1>1, <3>1 DEF Request
  <2>5. RequestOK(s, next)
    <3>1. \A m \in r.promise : m[2] \in Revised(pakFile, m[1]) /\ m[1] \in Logicals
      BY <1>1 DEF RequestOK, Request
    <3>2. \A l \in Logicals : Revised(pakFile, l) \subseteq Revised(s, l)
      BY <2>3 DEF IInv, Extends
    <3> HIDE DEF s, next
    <3> QED BY <1>1, <2>4, <3>1, <3>2 DEF RequestOK
  <2> HIDE DEF s, next
  <2> QED BY <1>3, <1>5, <2>3, <2>5, PersistKeeps
<1> QED BY <1>4, <1>5

LEMMA LookupKeeps == ASSUME IInv, NEW r \in uploads, Lookup(r) PROVE IInv'
<1>1. /\ uploads' \subseteq uploads /\ acknowledged' \subseteq acknowledged \cup r.promise
      /\ UNCHANGED <<pak, pakFile, payloads, copies, uploaded, pakFaults>>
  BY DEF Lookup
<1>2. RequestOK(pakFile, r)
  BY DEF IInv
<1>3. \A m \in acknowledged' : m[2] \in Revised(pakFile, m[1])
  BY <1>1, <1>2 DEF IInv, RequestOK
<1>4. PaksTypeOK'
  BY <1>1, <1>2 DEF IInv, PaksTypeOK, RequestOK, Request
<1>5. /\ Sound(pak)' /\ Sound(pakFile)' /\ Extends(pak, pakFile)'
      /\ HasFiles(pak, payloads)'
  BY <1>1, UntouchedStaysSound
<1>6. \A q \in uploads' : RequestOK(pakFile, q)'
  BY <1>1 DEF IInv, RequestOK, Revised
<1>7. \A m \in acknowledged' : m[2] \in Revised(pakFile, m[1])'
  BY <1>1, <1>3 DEF Revised
<1> QED BY <1>4, <1>5, <1>6, <1>7 DEF IInv

(* With no twins cleanup takes paks away, and never a revision.            *)
LEMMA CleanedAdvances ==
  ASSUME IInv, payloads \subseteq payloads'
  PROVE  Advances(Cleaned(pak))
<1>1. Sound(Cleaned(pak)) /\ Cleaned(pak).revisions = pak.revisions
  BY CleanedIsSound DEF IInv
<1> QED BY <1>1 DEF IInv, Advances, Extends, HasFiles, Revised

LEMMA CleanupDryRunKeeps == ASSUME IInv, CleanupDryRun PROVE IInv'
<1>1. pak' = Cleaned(pak) /\ Drop(uploads) /\ UNCHANGED <<payloads, copies, uploaded, pakFaults>>
  BY DEF CleanupDryRun, Drop
<1>2. Advances(Cleaned(pak)) /\ StaysTyped /\ pakFaults' \in 0 .. MaxPakFaults
  BY <1>1, CleanedAdvances DEF StaysTyped, IInv, PaksTypeOK
<1> QED BY <1>1, <1>2, DropKeeps

LEMMA CleanupKeeps == ASSUME Bounds, IInv, Cleanup PROVE IInv'
<1> DEFINE s == Cleaned(pak)
           r == [step |-> "remove", line |-> NoLine, profile |-> 1,
                 todo |-> {}, at |-> None, own |-> TRUE, promise |-> {},
                 gone |-> SurplusPaks(pak) \cap pak.attached]
<1>1. s.revisions = pak.revisions
  BY CleanedIsSound DEF IInv
<1>2. /\ pak' = s /\ UNCHANGED <<payloads, copies, uploaded, acknowledged>>
      /\ \/ pakFile' = s /\ uploads' = uploads \cup {r} /\ UNCHANGED pakFaults
         \/ PakFault /\ UNCHANGED <<pakFile, uploads>>
  BY <1>1 DEF Cleanup
<1>3. Advances(s) /\ StaysTyped
  BY <1>2, CleanedAdvances DEF StaysTyped, IInv, PaksTypeOK
<1>4. RequestOK(s, r)
  <2>1. SurplusPaks(pak) \cap pak.attached \in SUBSET (Profiles \X Rebuilds)
    BY DEF IInv, Sound, Pak
  <2>2. r \in Request /\ r.todo = {} /\ r.promise = {}
    BY <2>1 DEF Request, Bounds
  <2> HIDE DEF r, s
  <2> QED BY <2>2 DEF RequestOK
<1> HIDE DEF s, r
<1>5. CASE PakFault /\ UNCHANGED <<pakFile, uploads>>
  <2>1. pakFaults' \in 0 .. MaxPakFaults /\ Drop(uploads)
    BY <1>2, <1>5 DEF PakFault, IInv, PaksTypeOK, Bounds, Drop
  <2> QED BY <1>2, <1>3, <2>1, DropKeeps
<1>6. CASE pakFile' = s /\ uploads' = uploads \cup {r} /\ UNCHANGED pakFaults
  <2>1. Extends(s, pakFile)
    BY <1>3 DEF IInv, Advances, Extends
  <2>2. \A q \in uploads' : RequestOK(s, q)
    <3>1. ASSUME NEW q \in uploads, NEW m \in q.promise PROVE m[2] \in Revised(s, m[1])
      <4>1. m[2] \in Revised(pakFile, m[1]) /\ m[1] \in Logicals
        BY DEF IInv, RequestOK, Request
      <4> QED BY <2>1, <4>1 DEF Extends
    <3>2. \A q \in uploads : RequestOK(s, q)
      BY <3>1 DEF IInv, RequestOK
    <3> QED BY <1>4, <1>6, <3>2
  <2>3. \A m \in acknowledged : m[2] \in Revised(s, m[1])
    <3> SUFFICES ASSUME NEW m \in acknowledged PROVE m[2] \in Revised(s, m[1])
      OBVIOUS
    <3>1. m[2] \in Revised(pakFile, m[1]) /\ m[1] \in Logicals
      BY DEF IInv, PaksTypeOK
    <3> QED BY <2>1, <3>1 DEF Extends
  <2>4. PaksTypeOK'
    BY <1>2, <1>3, <1>4, <1>6 DEF IInv, PaksTypeOK, Advances, Sound, StaysTyped, RequestOK
  <2>5. \A q \in uploads' : RequestOK(pakFile, q)'
    BY <1>6, <2>2 DEF RequestOK, Revised
  <2> QED BY <1>2, <1>3, <1>6, <2>3, <2>4, <2>5
          DEF IInv, Advances, Sound, NoTwins, Extends, HasFiles, Revised
<1> QED BY <1>2, <1>5, <1>6

LEMMA RemoveCopiesKeeps == ASSUME Bounds, IInv, NEW r \in uploads, RemoveCopies(r) PROVE IInv'
<1>1. /\ copies' \subseteq copies /\ uploads' \subseteq uploads
      /\ UNCHANGED <<pak, pakFile, payloads, uploaded, acknowledged>>
      /\ UNCHANGED pakFaults \/ PakFault
  BY DEF RemoveCopies
<1>2. pakFaults' \in 0 .. MaxPakFaults
  BY <1>1 DEF PakFault, IInv, PaksTypeOK, Bounds
<1>3. PaksTypeOK'
  BY <1>1, <1>2 DEF IInv, PaksTypeOK
<1>4. /\ Sound(pak)' /\ Sound(pakFile)' /\ Extends(pak, pakFile)'
      /\ HasFiles(pak, payloads)'
  BY <1>1, UntouchedStaysSound
<1>5. \A q \in uploads' : RequestOK(pakFile, q)'
  BY <1>1 DEF IInv, RequestOK, Revised
<1>6. \A m \in acknowledged' : m[2] \in Revised(pakFile, m[1])'
  BY <1>1 DEF IInv, Revised
<1> QED BY <1>3, <1>4, <1>5, <1>6 DEF IInv

(* What is read again has no more revisions than were in memory.           *)
LEMMA RestartKeeps == ASSUME IInv, RestartPaks PROVE IInv'
<1>1. /\ pak' = pakFile /\ uploads' = {}
      /\ UNCHANGED <<pakFile, payloads, copies, uploaded, acknowledged, pakFaults>>
  BY DEF RestartPaks
<1>2. HasFiles(pakFile, payloads)
  BY DEF IInv, Extends, HasFiles
<1>3. PaksTypeOK'
  BY <1>1 DEF IInv, PaksTypeOK, Sound
<1> QED BY <1>1, <1>2, <1>3 DEF IInv, Extends, HasFiles, Sound, NoTwins, Revised

LEMMA StepKeeps == ASSUME Bounds, IInv, [PaksNext]_pakVars PROVE IInv'
<1>1. ASSUME NEW k \in Lines, NEW card \in Cards, NEW p \in Profiles, Upload(k, p, card)
      PROVE  IInv'
  BY <1>1, UploadKeeps
<1>2. ASSUME NEW k \in Lines, NEW card \in Cards, NEW S \in SUBSET Logicals,
             UploadPartly(k, card, S)
      PROVE  IInv'
  BY <1>2, UploadPartlyKeeps
<1>3. ASSUME NEW k \in Lines, NEW p \in Profiles, NEW l \in Logicals,
             DeleteLogicalSave(k, p, l)
      PROVE  IInv'
  BY <1>3, DeleteKeeps
<1>4. ASSUME NEW k \in Lines, NEW p \in Profiles, NEW l \in Logicals,
             NEW i \in DOMAIN pak.revisions[l], RollbackLogicalSave(k, p, l, i)
      PROVE  IInv'
  BY <1>4, RollbackKeeps
<1>5. ASSUME NEW r \in uploads, Materialize(r) \/ Attach(r) \/ Lookup(r) \/ RemoveCopies(r)
      PROVE  IInv'
  BY <1>5, MaterializeKeeps, AttachKeeps, LookupKeeps, RemoveCopiesKeeps
<1>6. CASE CleanupDryRun
  BY <1>6, CleanupDryRunKeeps
<1>7. CASE Cleanup
  BY <1>7, CleanupKeeps
<1>8. CASE RestartPaks
  BY <1>8, RestartKeeps
<1>9. CASE UNCHANGED pakVars
  <2>1. UNCHANGED <<pak, pakFile, payloads, copies, uploads, uploaded, acknowledged, pakFaults>>
    BY <1>9 DEF pakVars
  <2>2. PaksTypeOK'
    BY <2>1 DEF IInv, PaksTypeOK
  <2>3. /\ Sound(pak)' /\ Sound(pakFile)' /\ Extends(pak, pakFile)'
        /\ HasFiles(pak, payloads)'
    BY <2>1, UntouchedStaysSound
  <2>4. /\ \A q \in uploads' : RequestOK(pakFile, q)'
        /\ \A m \in acknowledged' : m[2] \in Revised(pakFile, m[1])'
    BY <2>1 DEF IInv, RequestOK, Revised
  <2> QED BY <2>2, <2>3, <2>4 DEF IInv
<1> QED BY <1>1, <1>2, <1>3, <1>4, <1>5, <1>6, <1>7, <1>8, <1>9 DEF PaksNext
-----------------------------------------------------------------------------
(***************************************************************************)
(* The paks of a line show its active saves. A state may be in memory only,*)
(* after a pak that would not fit, or in the file; both show what they     *)
(* should, and a rebuild of one line leaves those of the others as they    *)
(* are, because a save that only this line uploaded is of no other.        *)
(***************************************************************************)
Sizes == IsFiniteSet(Logicals) /\ Capacity \in Nat

\* A save is of a line that uploaded it.
Filed(s, up) == \A l \in Logicals : s.revisions[l] # << >> => <<s.line[l], l>> \in up

\* The latest pak of a profile is one that was built for the line.
LatestMade(s) ==
  \A k \in Lines, p \in Profiles :
    s.latest[<<k, p>>] # None =>
      /\ s.latest[<<k, p>>] \in DOMAIN s.built
      /\ s.built[s.latest[<<k, p>>]].line = k

Own(up, k) == \A u, v \in up : u[1] = k /\ v[2] = u[2] => v[1] = k

Current(s, k, p) ==
  /\ <<p, s.latest[<<k, p>>]>> \in s.projections
  /\ s.built[s.latest[<<k, p>>]].card = CanonicalPak(s, k)

Shows(s, k) ==
  (/\ Cardinality(Active(s, k)) <= Capacity
   /\ \E p \in Profiles : s.latest[<<k, p>>] # None)
  => \A p \in Profiles : Current(s, k, p)

Faithful(s, up, faults) ==
  /\ Filed(s, up) /\ LatestMade(s)
  /\ faults = 0 => \A k \in Lines : Own(up, k) => Shows(s, k)

ShowInv == Faithful(pak, uploaded, pakFaults) /\ Faithful(pakFile, uploaded, pakFaults)

(* Later uploads and failures take nothing back.                           *)
LEMMA FaithfulStays ==
  ASSUME NEW s, NEW up, NEW faults, Faithful(s, up, faults), NEW more, up \subseteq more,
         NEW later, later = 0 => faults = 0
  PROVE  Faithful(s, more, later)
<1>1. Filed(s, more)
  BY DEF Faithful, Filed
<1>2. \A k : Own(more, k) => Own(up, k)
  BY DEF Own
<1> QED BY <1>1, <1>2 DEF Faithful

(* What has to be shown of a step: what it does to the state in memory.    *)
LEMMA StepShows ==
  ASSUME ShowInv, pakFile' = pakFile \/ pakFile' = pak', uploaded \subseteq uploaded',
         pakFaults' = 0 => pakFaults = 0, Faithful(pak', uploaded', pakFaults')
  PROVE  ShowInv'
<1>1. Faithful(pakFile, uploaded', pakFaults')
  BY FaithfulStays DEF ShowInv
<1>2. Faithful(pakFile', uploaded', pakFaults')
  BY <1>1
<1> QED BY <1>2 DEF ShowInv, Faithful, Filed, LatestMade, Own, Shows, Current, Active,
           CanonicalPak, LatestRevision

(* The paks of a line depend on this of a state.                           *)
LEMMA ShowsAlike ==
  ASSUME NEW s, NEW t, NEW k \in Lines, LatestMade(s), Shows(s, k), s \in Pak,
         CanonicalPak(t, k) = CanonicalPak(s, k), Active(t, k) = Active(s, k),
         \A p \in Profiles : t.latest[<<k, p>>] = s.latest[<<k, p>>],
         \A n \in DOMAIN s.built : t.built[n] = s.built[n],
         \A p \in Profiles : Current(s, k, p) => <<p, s.latest[<<k, p>>]>> \in t.projections
  PROVE  Shows(t, k)
<1> SUFFICES ASSUME Cardinality(Active(t, k)) <= Capacity,
                    \E p \in Profiles : t.latest[<<k, p>>] # None,
                    NEW p \in Profiles
             PROVE  Current(t, k, p)
  BY DEF Shows
<1>1. Current(s, k, p)
  BY DEF Shows
<1>2. s.latest[<<k, p>>] \in DOMAIN s.built
  <2>1. <<p, s.latest[<<k, p>>]>> \in Profiles \X Rebuilds
    BY <1>1 DEF Current, Pak
  <2>2. s.latest[<<k, p>>] # None
    BY <2>1 DEF Rebuilds, None
  <2> QED BY <2>2 DEF LatestMade
<1> QED BY <1>1, <1>2 DEF Current

LEMMA ActiveAlike ==
  ASSUME NEW s, NEW t, NEW k,
         \A l \in Logicals :
           (s.line[l] = k \/ t.line[l] = k) =>
             \/ /\ s.line[l] = t.line[l] /\ s.revisions[l] = t.revisions[l]
                /\ <<k, l>> \in s.tombstones <=> <<k, l>> \in t.tombstones
             \/ l \notin Active(s, k) /\ l \notin Active(t, k)
  PROVE  Active(t, k) = Active(s, k) /\ CanonicalPak(t, k) = CanonicalPak(s, k)
<1>1. \A l \in Logicals : l \in Active(s, k) <=> l \in Active(t, k)
  BY DEF Active
<1>2. Active(t, k) = Active(s, k)
  BY <1>1 DEF Active
<1>3. \A l \in Active(s, k) : s.revisions[l] = t.revisions[l]
  BY <1>2 DEF Active
<1> QED BY <1>2, <1>3 DEF CanonicalPak, LatestRevision

(* Rebuild number Len(s.built) + 1 makes t of s: a pak of k for profiles.   *)
BuiltOn(t, s, k, profiles) ==
  /\ t.line = s.line /\ t.revisions = s.revisions /\ t.tombstones = s.tombstones
  /\ \A i \in DOMAIN s.built : i \in DOMAIN t.built /\ t.built[i] = s.built[i]
  /\ Len(s.built) + 1 \in DOMAIN t.built
  /\ t.built[Len(s.built) + 1].line = k
  /\ t.built[Len(s.built) + 1].card = CanonicalPak(s, k)
  /\ t.projections = s.projections \cup (profiles \X {Len(s.built) + 1})
  /\ \A j \in Lines, p \in Profiles :
       t.latest[<<j, p>>] = IF j = k /\ p \in profiles THEN Len(s.built) + 1
                            ELSE s.latest[<<j, p>>]

LEMMA RebuiltParts ==
  ASSUME Bounds, NEW s \in Pak, NEW k \in Lines, NEW due \in SUBSET Profiles, NEW done,
         NEW rollback \in BOOLEAN, due \cap done # {}
  PROVE  BuiltOn(Rebuilt(s, k, due, done, rollback), s, k, due \cap done)
<1> DEFINE n == Len(s.built) + 1
           new == due \cap done
           made == [line |-> k, card |-> CanonicalPak(s, k), rollback |-> rollback]
           built == Append(s.built, made)
           latest == [j \in Lines \X Profiles |->
                        IF j[1] = k /\ j[2] \in new THEN n ELSE s.latest[j]]
           t == Rebuilt(s, k, due, done, rollback)
<1>1. t = [s EXCEPT !.built = built, !.projections = @ \cup (new \X {n}), !.latest = latest]
  BY DEF Rebuilt
<1>2. /\ s.built \in Seq([line : Lines, card : Cards, rollback : BOOLEAN])
      /\ made \in [line : Lines, card : Cards, rollback : BOOLEAN]
  BY CanonicalPakIsCard DEF Pak
<1>3. made.line = k /\ made.card = CanonicalPak(s, k)
  OBVIOUS
<1>4. \A j \in Lines, p \in Profiles :
        latest[<<j, p>>] = IF j = k /\ p \in new THEN n ELSE s.latest[<<j, p>>]
  OBVIOUS
<1> HIDE DEF made
<1>5. /\ \A i \in DOMAIN s.built : i \in DOMAIN built /\ built[i] = s.built[i]
      /\ n \in DOMAIN built /\ built[n] = made
  BY <1>2
<1> HIDE DEF built, latest, n, new, t
<1>6. /\ t.line = s.line /\ t.revisions = s.revisions /\ t.tombstones = s.tombstones
      /\ t.built = built /\ t.latest = latest /\ t.projections = s.projections \cup (new \X {n})
  BY <1>1 DEF Pak
<1>7. BuiltOn(t, s, k, new)
  <2>1. n = Len(s.built) + 1
    BY DEF n
  <2> QED BY <1>3, <1>4, <1>5, <1>6, <2>1 DEF BuiltOn
<1> QED BY <1>7 DEF t, n, new

LEMMA RebuiltStaysMade ==
  ASSUME Bounds, NEW s \in Pak, NEW k \in Lines, NEW due \in SUBSET Profiles, NEW done,
         NEW rollback \in BOOLEAN, NEW up, Filed(s, up), LatestMade(s)
  PROVE  /\ Filed(Rebuilt(s, k, due, done, rollback), up)
         /\ LatestMade(Rebuilt(s, k, due, done, rollback))
<1> DEFINE t == Rebuilt(s, k, due, done, rollback)
<1>1. CASE due \cap done = {}
  BY <1>1 DEF Rebuilt
<1>2. CASE due \cap done # {}
  <2>1. BuiltOn(t, s, k, due \cap done)
    BY <1>2, RebuiltParts
  <2> HIDE DEF t
  <2>2. Filed(t, up)
    BY <2>1 DEF BuiltOn, Filed
  <2>3. LatestMade(t)
    <3> SUFFICES ASSUME NEW j \in Lines, NEW p \in Profiles, t.latest[<<j, p>>] # None
                 PROVE  /\ t.latest[<<j, p>>] \in DOMAIN t.built
                        /\ t.built[t.latest[<<j, p>>]].line = j
      BY DEF LatestMade
    <3>1. CASE j = k /\ p \in due \cap done
      BY <2>1, <3>1 DEF BuiltOn
    <3>2. CASE ~(j = k /\ p \in due \cap done)
      BY <2>1, <3>2 DEF BuiltOn, LatestMade
    <3> QED BY <3>1, <3>2
  <2> QED BY <2>2, <2>3 DEF t
<1> QED BY <1>1, <1>2

LEMMA RebuiltShows ==
  ASSUME Bounds, NEW s \in Pak, LatestMade(s), NEW k \in Lines, NEW rollback \in BOOLEAN
  PROVE  LET t == Rebuilt(s, k, Due(s, k, rollback), Profiles, rollback)
         IN  /\ Shows(t, k)
             /\ \A j \in Lines \ {k} : Shows(s, j) => Shows(t, j)
<1> DEFINE due == Due(s, k, rollback)
           t == Rebuilt(s, k, due, Profiles, rollback)
<1>1. due \in SUBSET Profiles
  BY DEF Due
<1>2. \A p \in Profiles \ due : Current(s, k, p)
  BY DEF Due, Current
<1>3. CASE due = {}
  <2>1. t = s
    BY <1>3 DEF Rebuilt
  <2> QED BY <1>2, <1>3, <2>1 DEF Shows
<1>4. CASE due # {}
  <2>1. BuiltOn(t, s, k, due)
    <3>1. due \cap Profiles = due
      BY <1>1
    <3> HIDE DEF due
    <3> QED BY <1>1, <1>4, <3>1, RebuiltParts
  <2> HIDE DEF due, t
  <2>2. \A j : Active(t, j) = Active(s, j) /\ CanonicalPak(t, j) = CanonicalPak(s, j)
    BY <2>1 DEF BuiltOn, Active, CanonicalPak, LatestRevision
  <2>3. ASSUME NEW p \in Profiles PROVE Current(t, k, p)
    <3>1. CASE p \in due
      <4>1. t.latest[<<k, p>>] = Len(s.built) + 1
        BY <2>1, <3>1 DEF BuiltOn
      <4> QED BY <2>1, <2>2, <3>1, <4>1 DEF BuiltOn, Current
    <3>2. CASE p \notin due
      <4>1. Current(s, k, p) /\ t.latest[<<k, p>>] = s.latest[<<k, p>>]
        BY <1>2, <2>1, <3>2 DEF BuiltOn
      <4>2. <<p, s.latest[<<k, p>>]>> \in Profiles \X Rebuilds
        BY <4>1 DEF Current, Pak
      <4>3. s.latest[<<k, p>>] \in DOMAIN s.built
        BY <4>2 DEF Rebuilds, None, LatestMade
      <4> QED BY <2>1, <2>2, <4>1, <4>3 DEF BuiltOn, Current
    <3> QED BY <3>1, <3>2
  <2>4. ASSUME NEW j \in Lines \ {k}, Shows(s, j) PROVE Shows(t, j)
    <3>1. /\ \A p \in Profiles : t.latest[<<j, p>>] = s.latest[<<j, p>>]
          /\ \A p \in Profiles : Current(s, j, p) => <<p, s.latest[<<j, p>>]>> \in t.projections
      BY <2>1, <2>4 DEF BuiltOn, Current
    <3> QED BY <2>1, <2>2, <2>4, <3>1, ShowsAlike DEF BuiltOn
  <2> QED BY <2>3, <2>4 DEF Shows, t, due
<1> QED BY <1>3, <1>4

(* Before a rebuild of line k: the other lines are as they should be.      *)
Ready(s, k, up, faults) ==
  /\ s \in Pak /\ Filed(s, up) /\ LatestMade(s)
  /\ faults = 0 => \A j \in Lines \ {k} : Own(up, j) => Shows(s, j)

LEMMA PersistShows ==
  ASSUME ShowInv, IInv, NEW s, NEW others, NEW r, Persist(s, others, r),
         uploaded \subseteq uploaded', Faithful(s, uploaded', pakFaults)
  PROVE  ShowInv'
<1>1. /\ pak' = s
      /\ pakFile' = pakFile \/ pakFile' = pak'
      /\ pakFaults' = pakFaults \/ pakFaults' = pakFaults + 1
  BY DEF Persist, PakFault, Drop
<1>2. pakFaults' = 0 => pakFaults = 0
  BY <1>1 DEF IInv, PaksTypeOK
<1>3. Faithful(s, uploaded', pakFaults')
  BY <1>2, FaithfulStays
<1> QED BY <1>1, <1>2, <1>3, StepShows

LEMMA RebuildShows ==
  ASSUME Bounds, Sizes, ShowInv, IInv, NEW s, NEW k \in Lines, NEW files,
         Ready(s, k, uploaded', pakFaults), HasFiles(s, files), uploaded \subseteq uploaded',
         NEW rollback \in BOOLEAN, NEW others, NEW r,
         RebuildAndPersist(s, k, files, rollback, others, r)
  PROVE  ShowInv'
<1> DEFINE due == Due(s, k, rollback)
<1>1. due \in SUBSET Profiles
  BY DEF Due
<1>2. CASE CannotBuild(s, k, files)
  <2>1. pak' = s /\ pakFile' = pakFile /\ pakFaults' = pakFaults
    BY <1>2 DEF RebuildAndPersist, Drop
  <2>2. \A l \in Active(s, k) : <<l, LatestRevision(s, l)>> \in files
    <3> SUFFICES ASSUME NEW l \in Active(s, k)
                 PROVE  <<l, LatestRevision(s, l)>> \in files
      OBVIOUS
    <3>1. l \in Logicals /\ s.revisions[l] \in Seq(Revision) /\ s.revisions[l] # << >>
      BY DEF Active, Ready, Pak
    <3>2. Len(s.revisions[l]) \in DOMAIN s.revisions[l]
      BY <3>1
    <3>3. LatestRevision(s, l) \in Revised(s, l)
      BY <3>2 DEF LatestRevision, Revised
    <3> QED BY <3>1, <3>3 DEF HasFiles
  <2>3. Cardinality(Active(s, k)) > Capacity /\ Cardinality(Active(s, k)) \in Nat
    <3>1. Active(s, k) \subseteq Logicals
      BY DEF Active
    <3>2. IsFiniteSet(Active(s, k))
      BY <3>1, FS_Subset DEF Sizes
    <3> QED BY <1>2, <2>2, <3>2, FS_CardinalityType DEF CannotBuild
  <2>4. Shows(s, k)
    BY <2>3 DEF Shows, Sizes
  <2>5. Faithful(s, uploaded', pakFaults)
    BY <2>4 DEF Ready, Faithful
  <2> QED BY <2>1, <2>5, StepShows
<1>3. CASE Persist(Rebuilt(s, k, due, Profiles, rollback), others,
                   [r EXCEPT !.todo = due,
                             !.at = IF due = {} THEN None ELSE Len(s.built) + 1])
  <2> DEFINE t == Rebuilt(s, k, due, Profiles, rollback)
             next == [r EXCEPT !.todo = due,
                               !.at = IF due = {} THEN None ELSE Len(s.built) + 1]
  <2>1. Filed(t, uploaded') /\ LatestMade(t)
    BY <1>1, RebuiltStaysMade DEF Ready
  <2>2. Shows(t, k) /\ \A j \in Lines \ {k} : Shows(s, j) => Shows(t, j)
    BY RebuiltShows DEF Ready
  <2>3. Persist(t, others, next)
    BY <1>3
  <2> HIDE DEF t, next
  <2>4. Faithful(t, uploaded', pakFaults)
    BY <2>1, <2>2 DEF Faithful, Ready
  <2> QED BY <2>3, <2>4, PersistShows
<1>4. ASSUME NEW p \in due, pak' = Rebuilt(s, k, due, 1 .. p - 1, rollback), PakFault,
             Drop(others)
      PROVE  ShowInv'
  <2>1. Filed(pak', uploaded') /\ LatestMade(pak')
    BY <1>1, <1>4, RebuiltStaysMade DEF Ready
  <2>2. pakFaults' # 0 /\ pakFile' = pakFile
    BY <1>4 DEF PakFault, Drop, IInv, PaksTypeOK
  <2> QED BY <2>1, <2>2, StepShows DEF Faithful
<1> QED BY <1>2, <1>3, <1>4 DEF RebuildAndPersist
-----------------------------------------------------------------------------
(***************************************************************************)
(* Every action leaves the paks of its line as they should be, and those   *)
(* of the other lines as they were.                                        *)
(***************************************************************************)
(* The saves in S become saves of k; all else that is of another line is   *)
(* as before.                                                              *)
LEMMA OthersShow ==
  ASSUME ShowInv, NEW s \in Pak, pak \in Pak, NEW k \in Lines, NEW S \in SUBSET Logicals,
         uploaded' = uploaded \cup ({k} \X S),
         \A l \in Logicals : s.line[l] = IF l \in S THEN k ELSE pak.line[l],
         \A l \in Logicals \ S : s.revisions[l] = pak.revisions[l],
         \A j \in Lines \ {k}, l \in Logicals :
           <<j, l>> \in s.tombstones <=> <<j, l>> \in pak.tombstones,
         s.built = pak.built, s.projections = pak.projections, s.latest = pak.latest
  PROVE  Ready(s, k, uploaded', pakFaults)
<1>1. Filed(pak, uploaded) /\ LatestMade(pak)
  BY DEF ShowInv, Faithful
<1>2. Filed(s, uploaded')
  <2> SUFFICES ASSUME NEW l \in Logicals, s.revisions[l] # << >>
               PROVE  <<s.line[l], l>> \in uploaded'
    BY DEF Filed
  <2>1. CASE l \in S
    BY <2>1
  <2>2. CASE l \notin S
    BY <1>1, <2>2 DEF Filed
  <2> QED BY <2>1, <2>2
<1>3. LatestMade(s)
  BY <1>1 DEF LatestMade
<1>4. ASSUME pakFaults = 0, NEW j \in Lines \ {k}, Own(uploaded', j)
      PROVE  Shows(s, j)
  <2>1. Shows(pak, j)
    <3>1. Own(uploaded, j)
      BY <1>4 DEF Own
    <3> QED BY <1>4, <3>1 DEF ShowInv, Faithful
  <2>2. ASSUME NEW l \in Logicals, pak.line[l] = j \/ s.line[l] = j
        PROVE  \/ /\ pak.line[l] = s.line[l] /\ pak.revisions[l] = s.revisions[l]
                  /\ <<j, l>> \in pak.tombstones <=> <<j, l>> \in s.tombstones
               \/ l \notin Active(pak, j) /\ l \notin Active(s, j)
    <3>1. CASE l \notin S
      BY <3>1
    <3>2. CASE l \in S
      <4>1. s.line[l] = k /\ pak.line[l] = j
        BY <2>2, <3>2
      <4>2. pak.revisions[l] = << >>
        <5> SUFFICES ASSUME pak.revisions[l] # << >> PROVE FALSE
          OBVIOUS
        <5>1. <<j, l>> \in uploaded' /\ <<k, l>> \in uploaded'
          BY <1>1, <3>2, <4>1 DEF Filed
        <5>2. <<j, l>>[1] = j /\ <<k, l>>[2] = <<j, l>>[2] /\ <<k, l>>[1] = k
          OBVIOUS
        <5> QED BY <1>4, <5>1, <5>2 DEF Own
      <4> QED BY <4>1, <4>2 DEF Active
    <3> QED BY <3>1, <3>2
  <2>3. Active(s, j) = Active(pak, j) /\ CanonicalPak(s, j) = CanonicalPak(pak, j)
    BY <2>2, ActiveAlike
  <2> QED BY <1>1, <2>1, <2>3, ShowsAlike DEF Current
<1> QED BY <1>2, <1>3, <1>4 DEF Ready

Enters(t, k, card) ==
  /\ t \in Pak
  /\ \A l \in Logicals : t.line[l] = IF l \in DOMAIN card THEN k ELSE pak.line[l]
  /\ \A l \in Logicals \ Fresh(card) : t.revisions[l] = pak.revisions[l]
  /\ t.tombstones = pak.tombstones \ ({k} \X Fresh(card))
  /\ t.built = pak.built /\ t.projections = pak.projections /\ t.latest = pak.latest

LEMMA EnteredParts ==
  ASSUME IInv, NEW k \in Lines, NEW card \in Cards
  PROVE  Enters(Entered(k, card), k, card)
<1> DEFINE t == Entered(k, card)
           line == [l \in Logicals |-> IF l \in DOMAIN card THEN k ELSE pak.line[l]]
           revisions == [l \in Logicals |->
              IF l \in Fresh(card)
                THEN Append(pak.revisions[l], [content |-> card[l], rollback |-> FALSE])
              ELSE pak.revisions[l]]
<1>1. t \in Pak /\ pak \in Pak
  BY EnteredIsSound DEF IInv, Sound
<1>2. /\ \A l \in Logicals : line[l] = IF l \in DOMAIN card THEN k ELSE pak.line[l]
      /\ \A l \in Logicals \ Fresh(card) : revisions[l] = pak.revisions[l]
  OBVIOUS
<1>3. t = [pak EXCEPT !.line = line, !.tombstones = @ \ ({k} \X Fresh(card)),
                      !.revisions = revisions]
  BY DEF Entered
<1> HIDE DEF line, revisions, t
<1>4. /\ t.line = line /\ t.revisions = revisions
      /\ t.tombstones = pak.tombstones \ ({k} \X Fresh(card))
      /\ t.built = pak.built /\ t.projections = pak.projections /\ t.latest = pak.latest
  BY <1>1, <1>3 DEF Pak
<1>5. Enters(t, k, card)
  BY <1>1, <1>2, <1>4 DEF Enters
<1> QED BY <1>5 DEF t

(* An upload that changes nothing is of saves that are the line's already. *)
LEMMA UploadShows ==
  ASSUME Bounds, Sizes, IInv, ShowInv, NEW k \in Lines, NEW p \in Profiles, NEW card \in Cards,
         Upload(k, p, card)
  PROVE  ShowInv'
<1> DEFINE entered == Entered(k, card)
           missing == Missing(entered, k, card)
           s == [entered EXCEPT !.tombstones = @ \cup ({k} \X missing)]
           changed == Fresh(card) \cup missing # {}
           r == [step |-> "lookup", line |-> k, profile |-> p, todo |-> {}, at |-> None,
                 own |-> FALSE, gone |-> {},
                 promise |-> IF ~changed /\ Historical(k, card) # {} THEN {}
                             ELSE {<<l, card[l]>> : l \in DOMAIN card}]
<1>1. missing \in SUBSET Logicals /\ DOMAIN card \in SUBSET Logicals
      /\ Fresh(card) \in SUBSET DOMAIN card
  BY DEF Missing, Cards, Fresh
<1>2. /\ \A l \in Logicals : s.line[l] = IF l \in DOMAIN card THEN k ELSE pak.line[l]
      /\ \A l \in Logicals \ Fresh(card) : s.revisions[l] = pak.revisions[l]
      /\ s \in Pak /\ s.revisions = entered.revisions
      /\ s.built = pak.built /\ s.projections = pak.projections /\ s.latest = pak.latest
      /\ s.tombstones = (pak.tombstones \ ({k} \X Fresh(card))) \cup ({k} \X missing)
  <2>1. Enters(entered, k, card)
    BY EnteredParts
  <2>2. entered.tombstones \cup ({k} \X missing) \in SUBSET (Lines \X Logicals)
    BY <1>1, <2>1 DEF Enters, Pak
  <2> HIDE DEF entered, missing
  <2> QED BY <2>1, <2>2 DEF Enters, Pak
<1>3. payloads' = payloads \cup NewFiles(card) /\ uploaded' = uploaded \cup ({k} \X DOMAIN card)
  BY DEF Upload
<1>4. HasFiles(s, payloads')
  <2>1. HasFiles(entered, payloads')
    BY <1>3, EnteredIsSound DEF IInv
  <2> HIDE DEF s, entered
  <2> QED BY <1>2, <2>1 DEF HasFiles, Revised
<1>5. \/ ~changed /\ Persist(s, uploads, r)
      \/ RebuildAndPersist(s, k, payloads', FALSE, uploads, r)
  BY DEF Upload
<1> HIDE DEF entered, s, r
<1>6. Ready(s, k, uploaded', pakFaults)
  <2>1. \A j \in Lines \ {k}, l \in Logicals :
          <<j, l>> \in s.tombstones <=> <<j, l>> \in pak.tombstones
    BY <1>2
  <2>2. \A l \in Logicals \ DOMAIN card : s.revisions[l] = pak.revisions[l]
    BY <1>1, <1>2
  <2>3. pak \in Pak
    BY DEF IInv, Sound
  <2> HIDE DEF missing, changed
  <2> QED BY <1>1, <1>2, <1>3, <2>1, <2>2, <2>3, OthersShow
<1>7. CASE ~changed /\ Persist(s, uploads, r)
  <2>1. Fresh(card) = {} /\ missing = {}
    BY <1>7
  <2> HIDE DEF missing, changed
  <2>2. ASSUME pakFaults = 0, Own(uploaded', k) PROVE Shows(s, k)
    <3>1. Filed(pak, uploaded) /\ LatestMade(pak) /\ pak \in Pak
      BY DEF ShowInv, Faithful, IInv, Sound
    <3>2. Shows(pak, k)
      <4>1. Own(uploaded, k)
        BY <1>3, <2>2 DEF Own
      <4> QED BY <2>2, <4>1 DEF ShowInv, Faithful
    <3>3. ASSUME NEW l \in DOMAIN card PROVE pak.line[l] = k
      <4>1. card[l] \in Revised(pak, l) /\ l \in Logicals
        BY <1>1, <2>1 DEF Fresh
      <4>2. pak.revisions[l] # << >>
        BY <4>1 DEF Revised
      <4>3. <<pak.line[l], l>> \in uploaded' /\ <<k, l>> \in uploaded'
        BY <1>3, <3>1, <4>1, <4>2 DEF Filed
      <4>4. /\ <<pak.line[l], l>>[1] = pak.line[l] /\ <<k, l>>[1] = k
            /\ <<k, l>>[2] = <<pak.line[l], l>>[2]
        OBVIOUS
      <4> QED BY <2>2, <4>3, <4>4 DEF Own
    <3>4. \A l \in Logicals : s.line[l] = pak.line[l] /\ s.revisions[l] = pak.revisions[l]
      BY <1>2, <2>1, <3>3
    <3>5. s.tombstones = pak.tombstones
      BY <1>2, <2>1
    <3>6. Active(s, k) = Active(pak, k) /\ CanonicalPak(s, k) = CanonicalPak(pak, k)
      BY <3>4, <3>5, ActiveAlike
    <3> QED BY <1>2, <3>1, <3>2, <3>6, ShowsAlike DEF Current
  <2>3. Faithful(s, uploaded', pakFaults)
    BY <1>6, <2>2 DEF Ready, Faithful
  <2>4. uploaded \subseteq uploaded'
    BY <1>3
  <2> QED BY <1>7, <2>3, <2>4, PersistShows
<1>8. CASE RebuildAndPersist(s, k, payloads', FALSE, uploads, r)
  <2>1. uploaded \subseteq uploaded' /\ FALSE \in BOOLEAN
    BY <1>3
  <2> QED BY <1>4, <1>6, <1>8, <2>1, RebuildShows
<1> QED BY <1>5, <1>7, <1>8

LEMMA UploadPartlyShows ==
  ASSUME IInv, ShowInv, NEW k \in Lines, NEW card \in Cards, NEW S \in SUBSET Logicals,
         UploadPartly(k, card, S)
  PROVE  ShowInv'
<1> DEFINE part == Restrict(card, S)
           s == Entered(k, part)
<1>1. part \in Cards /\ DOMAIN part = S /\ Fresh(part) \subseteq S
  <2>1. /\ S \subseteq DOMAIN card /\ \A l \in DOMAIN card : card[l] \in Contents
    BY DEF UploadPartly, Cards
  <2>2. part \in [S -> Contents]
    BY <2>1 DEF Restrict
  <2> HIDE DEF part
  <2> QED BY <2>2 DEF Cards, Fresh
<1>2. /\ pak' = s /\ pakFile' = pakFile /\ PakFault
      /\ uploaded' = uploaded \cup ({k} \X S)
  BY DEF UploadPartly
<1> HIDE DEF part
<1>3. /\ \A l \in Logicals : s.line[l] = IF l \in S THEN k ELSE pak.line[l]
      /\ \A l \in Logicals \ Fresh(part) : s.revisions[l] = pak.revisions[l]
      /\ s \in Pak /\ s.built = pak.built /\ s.projections = pak.projections
      /\ s.latest = pak.latest /\ s.tombstones = pak.tombstones \ ({k} \X Fresh(part))
  BY <1>1, EnteredParts DEF Enters
<1> HIDE DEF s
<1>4. Ready(s, k, uploaded', pakFaults)
  <2>1. \A j \in Lines \ {k}, l \in Logicals :
          <<j, l>> \in s.tombstones <=> <<j, l>> \in pak.tombstones
    BY <1>3
  <2>2. \A l \in Logicals \ S : s.revisions[l] = pak.revisions[l]
    BY <1>1, <1>3
  <2>3. pak \in Pak
    BY DEF IInv, Sound
  <2> QED BY <1>2, <1>3, <2>1, <2>2, <2>3, OthersShow
<1>5. pakFaults' # 0
  BY <1>2 DEF PakFault, IInv, PaksTypeOK
<1>6. Faithful(pak', uploaded', pakFaults')
  BY <1>2, <1>4, <1>5 DEF Ready, Faithful
<1>7. uploaded \subseteq uploaded'
  BY <1>2
<1> QED BY <1>2, <1>5, <1>6, <1>7, StepShows

LEMMA DeleteShows ==
  ASSUME Bounds, Sizes, IInv, ShowInv, NEW k \in Lines, NEW p \in Profiles, NEW l \in Logicals,
         DeleteLogicalSave(k, p, l)
  PROVE  ShowInv'
<1> DEFINE s == [pak EXCEPT !.tombstones = @ \cup {<<k, l>>}]
<1>1. pak \in Pak /\ HasFiles(pak, payloads)
  BY DEF IInv, Sound
<1>2. /\ s \in Pak /\ s.revisions = pak.revisions /\ s.line = pak.line
      /\ s.built = pak.built /\ s.projections = pak.projections /\ s.latest = pak.latest
      /\ s.tombstones = pak.tombstones \cup {<<k, l>>}
  <2>1. pak.tombstones \cup {<<k, l>>} \in SUBSET (Lines \X Logicals)
    BY <1>1 DEF Pak
  <2> QED BY <1>1, <2>1 DEF Pak
<1>3. RebuildAndPersist(s, k, payloads, FALSE, uploads, WebRequest(k, p))
      /\ uploaded' = uploaded
  BY DEF DeleteLogicalSave
<1> HIDE DEF s
<1>4. Ready(s, k, uploaded', pakFaults)
  <2>1. \A j \in Lines \ {k}, m \in Logicals :
          <<j, m>> \in s.tombstones <=> <<j, m>> \in pak.tombstones
    BY <1>2
  <2>2. {} \in SUBSET Logicals /\ uploaded' = uploaded \cup ({k} \X {})
    BY <1>3
  <2> QED BY <1>1, <1>2, <2>1, <2>2, OthersShow
<1>5. HasFiles(s, payloads)
  BY <1>1, <1>2 DEF HasFiles, Revised
<1>6. uploaded \subseteq uploaded' /\ FALSE \in BOOLEAN
  BY <1>3
<1> QED BY <1>3, <1>4, <1>5, <1>6, RebuildShows

LEMMA RollbackShows ==
  ASSUME Bounds, Sizes, IInv, ShowInv, NEW k \in Lines, NEW p \in Profiles, NEW l \in Logicals,
         NEW i \in DOMAIN pak.revisions[l], RollbackLogicalSave(k, p, l, i)
  PROVE  ShowInv'
<1> DEFINE content == pak.revisions[l][i].content
           rev == [content |-> content, rollback |-> TRUE]
           revs == Append(pak.revisions[l], rev)
           s == [pak EXCEPT !.revisions[l] = revs, !.tombstones = @ \ {<<k, l>>}]
           r == [WebRequest(k, p) EXCEPT !.promise = {<<l, content>>}]
<1>1. pak \in Pak /\ HasFiles(pak, payloads) /\ pak.line[l] = k
  BY DEF RollbackLogicalSave, IInv, Sound
<1>2. pak.revisions[l] \in Seq(Revision) /\ pak.revisions[l][i] \in Revision
  <2>1. pak.revisions[l] \in Seq(Revision)
    BY <1>1 DEF Pak
  <2> QED BY <2>1
<1>3. rev \in Revision /\ rev.content = content /\ content \in Revised(pak, l)
  BY <1>2 DEF Revision, Revised
<1>4. RebuildAndPersist(s, k, payloads, TRUE, uploads, r) /\ uploaded' = uploaded
  BY DEF RollbackLogicalSave
<1> HIDE DEF rev, content, r
<1>5. /\ revs \in Seq(Revision)
      /\ \A j \in DOMAIN revs : revs[j].content \in Revised(pak, l)
  BY <1>2, <1>3, AppendedRevision DEF Revised
<1> HIDE DEF revs
<1>6. /\ s \in Pak /\ s.revisions = [pak.revisions EXCEPT ![l] = revs]
      /\ s.line = pak.line /\ s.tombstones = pak.tombstones \ {<<k, l>>}
      /\ s.built = pak.built /\ s.projections = pak.projections /\ s.latest = pak.latest
  <2>1. [pak.revisions EXCEPT ![l] = revs] \in [Logicals -> Seq(Revision)]
    BY <1>1, <1>5 DEF Pak
  <2>2. pak.tombstones \ {<<k, l>>} \in SUBSET (Lines \X Logicals)
    BY <1>1 DEF Pak
  <2> QED BY <1>1, <2>1, <2>2 DEF Pak
<1>7. \A m \in Logicals : s.revisions[m] = IF m = l THEN revs ELSE pak.revisions[m]
  <2>1. pak.revisions \in [Logicals -> Seq(Revision)]
    BY <1>1 DEF Pak
  <2> QED BY <1>6, <2>1
<1> HIDE DEF s
<1>8. Ready(s, k, uploaded', pakFaults)
  <2>1. \A j \in Lines \ {k}, m \in Logicals :
          <<j, m>> \in s.tombstones <=> <<j, m>> \in pak.tombstones
    BY <1>6
  <2>2. uploaded' = uploaded \cup ({k} \X {l})
    <3>1. <<k, l>> \in uploaded
      <4>1. pak.revisions[l] # << >>
        OBVIOUS
      <4> QED BY <1>1, <4>1 DEF ShowInv, Faithful, Filed
    <3> QED BY <1>4, <3>1
  <2>3. /\ {l} \in SUBSET Logicals
        /\ \A m \in Logicals : s.line[m] = IF m \in {l} THEN k ELSE pak.line[m]
        /\ \A m \in Logicals \ {l} : s.revisions[m] = pak.revisions[m]
    BY <1>1, <1>6, <1>7
  <2> QED BY <1>1, <1>6, <2>1, <2>2, <2>3, OthersShow
<1>9. HasFiles(s, payloads)
  <2> SUFFICES ASSUME NEW m \in Logicals, NEW c \in Revised(s, m) PROVE <<m, c>> \in payloads
    BY DEF HasFiles
  <2>1. c \in Revised(pak, m)
    BY <1>5, <1>7 DEF Revised
  <2> QED BY <1>1, <2>1 DEF HasFiles
<1>10. uploaded \subseteq uploaded' /\ TRUE \in BOOLEAN
  BY <1>4
<1> QED BY <1>4, <1>8, <1>9, <1>10, RebuildShows

LEMMA AttachShows ==
  ASSUME IInv, ShowInv, NEW r \in uploads, Attach(r)
  PROVE  ShowInv'
<1> PICK p \in r.todo :
      LET copy == <<p, r.at>> IN
      \/ /\ copy \in pak.projections
         /\ Persist([pak EXCEPT !.attached = @ \cup {copy}], uploads \ {r},
                    [r EXCEPT !.todo = @ \ {p}, !.own = @ \/ p = r.profile])
      \/ /\ copy \notin pak.projections
         /\ Drop(uploads \ {r}) /\ UNCHANGED <<pak, pakFaults>>
  BY DEF Attach, NextDue
<1> DEFINE copy == <<p, r.at>>
           s == [pak EXCEPT !.attached = @ \cup {copy}]
           own == r.own \/ p = r.profile
           next == [r EXCEPT !.todo = @ \ {p}, !.own = own]
<1>1. Faithful(pak, uploaded, pakFaults) /\ uploaded' = uploaded
  BY DEF Attach, ShowInv
<1>2. CASE Drop(uploads \ {r}) /\ UNCHANGED <<pak, pakFaults>>
  <2>1. pakFaults' = 0 => pakFaults = 0
    BY <1>2
  <2>2. Faithful(pak', uploaded', pakFaults')
    BY <1>1, <1>2, <2>1, FaithfulStays
  <2> QED BY <1>1, <1>2, <2>1, <2>2, StepShows DEF Drop
<1>3. CASE Persist(s, uploads \ {r}, next)
  <2>1. /\ s.line = pak.line /\ s.revisions = pak.revisions /\ s.tombstones = pak.tombstones
        /\ s.built = pak.built /\ s.projections = pak.projections /\ s.latest = pak.latest
    BY DEF IInv, Sound, Pak
  <2> HIDE DEF s, next
  <2>2. \A k : Active(s, k) = Active(pak, k) /\ CanonicalPak(s, k) = CanonicalPak(pak, k)
    BY <2>1 DEF Active, CanonicalPak, LatestRevision
  <2>3. Faithful(s, uploaded', pakFaults)
    BY <1>1, <2>1, <2>2 DEF Faithful, Filed, LatestMade, Shows, Current
  <2> QED BY <1>1, <1>3, <2>3, PersistShows
<1> QED BY <1>2, <1>3

(* Cleanup leaves the latest paks alone, whatever is alike.                *)
LEMMA CleanedShows ==
  ASSUME IInv, ShowInv
  PROVE  Faithful(Cleaned(pak), uploaded, pakFaults)
<1> DEFINE s == Cleaned(pak)
<1>1. pak \in Pak /\ Filed(pak, uploaded) /\ LatestMade(pak)
  BY DEF IInv, Sound, ShowInv, Faithful
<1>2. /\ s.line = pak.line /\ s.revisions = pak.revisions /\ s.tombstones = pak.tombstones
      /\ s.built = pak.built /\ s.latest = pak.latest
      /\ s.projections = pak.projections \ SurplusPaks(pak)
  <2>1. s.revisions = pak.revisions
    BY CleanedIsSound DEF IInv
  <2> DEFINE revisions == [l \in Logicals |->
        LET kept == {i \in DOMAIN pak.revisions[l] :
                       i \notin SurplusRevisions(pak.revisions[l])}
            nth(n) == CHOOSE i \in kept : Cardinality({j \in kept : j < i}) = n - 1
        IN [n \in 1 .. Cardinality(kept) |-> pak.revisions[l][nth(n)]]]
  <2>2. s = [pak EXCEPT !.revisions = revisions, !.projections = @ \ SurplusPaks(pak),
                        !.attached = @ \ SurplusPaks(pak)]
    BY DEF Cleaned
  <2> HIDE DEF revisions, s
  <2> QED BY <1>1, <2>1, <2>2 DEF Pak
<1> HIDE DEF s
<1>3. Filed(s, uploaded) /\ LatestMade(s)
  BY <1>1, <1>2 DEF Filed, LatestMade
<1>4. ASSUME NEW k \in Lines, NEW p \in Profiles, Current(pak, k, p)
      PROVE  <<p, pak.latest[<<k, p>>]>> \in s.projections
  <2> DEFINE n == pak.latest[<<k, p>>]
             c == <<p, n>>
  <2>1. c \in pak.projections /\ c \in Profiles \X Rebuilds /\ c[1] = p /\ c[2] = n
    BY <1>1, <1>4 DEF Current, Pak
  <2>2. pak.built[n].line = k
    BY <1>1, <2>1 DEF Rebuilds, None, LatestMade
  <2>3. pak.latest[<<pak.built[c[2]].line, c[1]>>] = c[2]
    BY <2>1, <2>2
  <2> HIDE DEF c
  <2>4. c \notin SurplusPaks(pak)
    BY <2>3 DEF SurplusPaks
  <2> QED BY <1>2, <2>1, <2>4 DEF c
<1>5. \A k : Active(s, k) = Active(pak, k) /\ CanonicalPak(s, k) = CanonicalPak(pak, k)
  BY <1>2 DEF Active, CanonicalPak, LatestRevision
<1>6. ASSUME NEW k \in Lines, Shows(pak, k) PROVE Shows(s, k)
  BY <1>1, <1>2, <1>4, <1>5, <1>6, ShowsAlike
<1>7. Faithful(s, uploaded, pakFaults)
  BY <1>3, <1>6 DEF Faithful, ShowInv
<1> QED BY <1>7 DEF s

LEMMA CleanupShows ==
  ASSUME IInv, ShowInv, CleanupDryRun \/ Cleanup
  PROVE  ShowInv'
<1>1. /\ pak' = Cleaned(pak) /\ uploaded' = uploaded
      /\ pakFile' = pakFile \/ pakFile' = pak'
      /\ UNCHANGED pakFaults \/ PakFault
  BY DEF CleanupDryRun, Cleanup
<1>2. pakFaults' = 0 => pakFaults = 0
  BY <1>1 DEF PakFault, IInv, PaksTypeOK
<1>3. Faithful(pak', uploaded', pakFaults')
  BY <1>1, <1>2, CleanedShows, FaithfulStays
<1> QED BY <1>1, <1>2, <1>3, StepShows

(* The file shows what memory has to, so that a restart loses nothing.     *)
LEMMA RestShows ==
  ASSUME IInv, ShowInv,
         \/ \E r \in uploads : Materialize(r) \/ Lookup(r) \/ RemoveCopies(r)
         \/ RestartPaks \/ UNCHANGED pakVars
  PROVE  ShowInv'
<1>1. /\ pak' = pak \/ pak' = pakFile
      /\ pakFile' = pakFile /\ uploaded' = uploaded
      /\ UNCHANGED pakFaults \/ PakFault
  BY DEF Materialize, Drop, Lookup, RemoveCopies, RestartPaks, pakVars
<1>2. pakFaults' = 0 => pakFaults = 0
  BY <1>1 DEF PakFault, IInv, PaksTypeOK
<1>3. Faithful(pak, uploaded', pakFaults') /\ Faithful(pakFile, uploaded', pakFaults')
  BY <1>1, <1>2, FaithfulStays DEF ShowInv
<1>4. Faithful(pak', uploaded', pakFaults')
  BY <1>1, <1>3
<1> QED BY <1>1, <1>2, <1>4, StepShows

LEMMA StepShowsSaves ==
  ASSUME Bounds, Sizes, IInv, ShowInv, [PaksNext]_pakVars
  PROVE  ShowInv'
<1>1. ASSUME NEW k \in Lines, NEW card \in Cards, NEW p \in Profiles, Upload(k, p, card)
      PROVE  ShowInv'
  BY <1>1, UploadShows
<1>2. ASSUME NEW k \in Lines, NEW card \in Cards, NEW S \in SUBSET Logicals,
             UploadPartly(k, card, S)
      PROVE  ShowInv'
  BY <1>2, UploadPartlyShows
<1>3. ASSUME NEW k \in Lines, NEW p \in Profiles, NEW l \in Logicals,
             DeleteLogicalSave(k, p, l)
      PROVE  ShowInv'
  BY <1>3, DeleteShows
<1>4. ASSUME NEW k \in Lines, NEW p \in Profiles, NEW l \in Logicals,
             NEW i \in DOMAIN pak.revisions[l], RollbackLogicalSave(k, p, l, i)
      PROVE  ShowInv'
  BY <1>4, RollbackShows
<1>5. ASSUME NEW r \in uploads, Attach(r)
      PROVE  ShowInv'
  BY <1>5, AttachShows
<1>6. CASE CleanupDryRun \/ Cleanup
  BY <1>6, CleanupShows
<1>7. CASE \/ \E r \in uploads : Materialize(r) \/ Lookup(r) \/ RemoveCopies(r)
           \/ RestartPaks \/ UNCHANGED pakVars
  BY <1>7, RestShows
<1> QED BY <1>1, <1>2, <1>3, <1>4, <1>5, <1>6, <1>7 DEF PaksNext

LEMMA InitShows ==
  ASSUME PaksInit
  PROVE  ShowInv
<1>1. /\ \A l \in Logicals : EmptyPak.revisions[l] = << >>
      /\ \A k \in Lines, p \in Profiles : EmptyPak.latest[<<k, p>>] = None
  BY DEF EmptyPak
<1>2. Filed(EmptyPak, uploaded)
  BY <1>1 DEF Filed
<1>3. LatestMade(EmptyPak)
  BY <1>1 DEF LatestMade
<1>4. \A k \in Lines : Shows(EmptyPak, k)
  BY <1>1 DEF Shows
<1> QED BY <1>2, <1>3, <1>4 DEF PaksInit, ShowInv, Faithful
-----------------------------------------------------------------------------
(***************************************************************************)
(* The theorems.                                                           *)
(***************************************************************************)
LEMMA AlwaysSound == ASSUME Bounds PROVE PaksSpec => []IInv
<1>1. PaksInit => IInv
  BY InitIsSound
<1>2. IInv /\ [PaksNext]_pakVars => IInv'
  BY StepKeeps
<1> QED BY <1>1, <1>2, PTL DEF PaksSpec

(* The state keeps its type: no pak is attached to a save of the store but *)
(* one that a rebuild made and cleanup left there.                         *)
THEOREM PaksAreTyped == ASSUME Bounds PROVE PaksSpec => []PaksTypeOK
<1>1. IInv => PaksTypeOK
  BY DEF IInv
<1> QED BY <1>1, AlwaysSound, PTL

(* Contents that an upload was answered as stored for, or that it is about *)
(* to be, are revisions in the state's file from then on, whichever writes *)
(* fail, whenever the process stops, and whatever else is uploaded,        *)
(* deleted, rolled back or cleaned up.                                     *)
THEOREM PakSavesStay == ASSUME Bounds PROVE PaksSpec => []PakSavesAreKept
<1>1. IInv => PakSavesAreKept
  BY DEF IInv, RequestOK, PakSavesAreKept
<1> QED BY <1>1, AlwaysSound, PTL

(* Every revision has its payload file, in memory and in the state's file, *)
(* although cleanup removes the one directory that all of them are in: it  *)
(* has never a revision to remove.                                         *)
THEOREM RevisionFilesStay == ASSUME Bounds PROVE PaksSpec => []RevisionFilesRemain
<1>1. IInv => RevisionFilesRemain
  BY DEF IInv, Extends, HasFiles, RevisionFilesRemain
<1> QED BY <1>1, AlwaysSound, PTL

(* While no write has failed, a line whose saves no other line uploaded    *)
(* has its active saves on the latest pak of every profile, in their       *)
(* latest revisions and no others, whatever was left out, deleted, rolled  *)
(* back, cleaned up or uploaded for other lines, and after restarts.       *)
THEOREM PaksShowTheirSaves == ASSUME Bounds, Sizes PROVE PaksSpec => []PaksShowActiveSaves
<1>1. PaksInit => IInv /\ ShowInv
  BY InitIsSound, InitShows
<1>2. IInv /\ ShowInv /\ [PaksNext]_pakVars => (IInv /\ ShowInv)'
  BY StepKeeps, StepShowsSaves
<1>3. IInv /\ ShowInv => PaksShowActiveSaves
  <2> SUFFICES ASSUME IInv, ShowInv, pakFaults = 0, NEW u \in uploaded, OwnSaves(u[1]),
                      Cardinality(Active(pak, u[1])) <= Capacity,
                      \E p \in Profiles : pak.latest[<<u[1], p>>] # None,
                      NEW p \in Profiles
               PROVE  Current(pak, u[1], p)
    BY DEF PaksShowActiveSaves, Current
  <2>1. u[1] \in Lines
    BY DEF IInv, PaksTypeOK
  <2>2. Own(uploaded, u[1])
    BY DEF OwnSaves, Own
  <2>3. Shows(pak, u[1])
    BY <2>1, <2>2 DEF ShowInv, Faithful
  <2> QED BY <2>3 DEF Shows
<1> QED BY <1>1, <1>2, <1>3, PTL DEF PaksSpec
=============================================================================
