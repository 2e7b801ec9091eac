---- MODULE LogAndLoginsProofs ----
(***************************************************************************)
(* Three services of the server, for any number of handlers, entries,      *)
(* sessions and clients.                                                   *)
(*                                                                         *)
(* The sync log drops entries in two ways, by age and by number, whenever  *)
(* one is added. An entry is dropped only when it is too old or MaxEntries *)
(* of those logged are newer, and then it is so for good: LogInv. The      *)
(* pages cut the list at multiples of their length, so each place of the   *)
(* list is on one page.                                                    *)
(*                                                                         *)
(* A session leaves the file when it expires, is logged out or MaxSessions *)
(* others are no older, and all three stay true once they are:             *)
(* GoneForGood. So a session the file lacks, or that a request did not     *)
(* find in it, is gone: WebInv.                                            *)
(*                                                                         *)
(* The throttle counts the failures of a client in series (ThrottleInv,    *)
(* explained there). What bounds the guesses of a stretch is that logins   *)
(* past the throttle when a block begins are fewer than all logins, that   *)
(* each of them is either early, and adds one guess to the series, or so   *)
(* late that the block is over for it, too, and that the failure a series  *)
(* began with is older than the stretch when the next series begins in it. *)
(***************************************************************************)
EXTENDS SyncLog, WebSessions, LoginThrottle,
        FiniteSetTheorems, SequenceTheorems, TLAPS

\* e must still be in the log: it is not too old, and few enough are newer.
Recents(e) == /\ e.at + Retention >= clock
              /\ Cardinality({f \in appended : Before(f, e)}) < MaxEntries

\* Entries wait for the lock with a time that has been; what must still be in
\* the log is.
LogInv ==
    /\ LogTypeOK
    /\ IsFiniteSet(appended)
    /\ \A h \in Appenders : pending[h] # NoEntry => pending[h].at <= clock
    /\ \A e \in appended \ lost : Recents(e) => e \in logs

LEMMA BeforeIsAnOrder ==
  ASSUME NEW e \in Entry, NEW f \in Entry, NEW g \in Entry
  PROVE  /\ ~Before(e, e)
         /\ Before(e, f) /\ Before(f, g) => Before(e, g)
         /\ e = f \/ Before(e, f) \/ Before(f, e)
BY SyncLogAssumption DEF Before, Entry

\* How many entries of S come before e.
Rank(S, e) == Cardinality({f \in S : Before(f, e)})

LEMMA RankIsStrict ==
  ASSUME NEW S \in SUBSET Entry, IsFiniteSet(S)
  PROVE  /\ \A e \in S : Rank(S, e) \in 0..(Cardinality(S) - 1)
         /\ \A e, f \in S : Before(e, f) => Rank(S, e) < Rank(S, f)
         /\ \A e, f \in S : Rank(S, e) = Rank(S, f) => e = f
<1> DEFINE B(x) == {g \in S : Before(g, x)}
<1>1. \A e \in S : IsFiniteSet(B(e)) /\ B(e) \subseteq S /\ e \notin B(e)
  BY FS_Subset, BeforeIsAnOrder
<1>2. \A e \in S : Rank(S, e) = Cardinality(B(e))
  BY DEF Rank
<1>3. \A e, f \in S : Before(e, f) => B(e) \subseteq B(f) /\ e \in B(f)
  BY BeforeIsAnOrder
<1> HIDE DEF B
<1>4. Cardinality(S) \in Nat /\ \A e \in S : Rank(S, e) \in Nat
  BY <1>1, <1>2, FS_CardinalityType
<1>5. \A e \in S : Rank(S, e) <= Cardinality(S) /\ Rank(S, e) # Cardinality(S)
  BY <1>1, <1>2, FS_Subset
<1>6. \A e, f \in S : Before(e, f) => Rank(S, e) <= Rank(S, f) /\ Rank(S, e) # Rank(S, f)
  BY <1>1, <1>2, <1>3, FS_Subset
<1>7. \A e, f \in S : Before(e, f) => Rank(S, e) < Rank(S, f)
  BY <1>4, <1>6
<1>8. \A e, f \in S : Rank(S, e) = Rank(S, f) => e = f
  BY <1>4, <1>7, BeforeIsAnOrder
<1> QED BY <1>4, <1>5, <1>7, <1>8

LEMMA PruneIsBounded ==
  ASSUME NEW S \in SUBSET Entry, IsFiniteSet(S), NEW now \in Nat
  PROVE  /\ Prune(S, now) \subseteq S
         /\ Cardinality(Prune(S, now)) <= MaxEntries
<1> DEFINE kept == {e \in S : e.at + Retention >= now}
           P == Prune(S, now)
<1>1. P = {e \in kept : Rank(kept, e) < MaxEntries}
  BY DEF Prune, Rank
<1>2. kept \in SUBSET Entry /\ IsFiniteSet(kept)
  BY FS_Subset
<1>3. \A e \in kept : Rank(kept, e) \in Nat
  <2> HIDE DEF kept
  <2> QED BY <1>2, RankIsStrict
<1>4. \A e, f \in kept : Rank(kept, e) = Rank(kept, f) => e = f
  <2> HIDE DEF kept
  <2> QED BY <1>2, RankIsStrict
<1>5. P \subseteq kept /\ \A e \in P : Rank(kept, e) \in 0..(MaxEntries - 1)
  <2> HIDE DEF P, kept
  <2> QED BY <1>1, <1>3, SyncLogAssumption
<1> DEFINE g == [e \in P |-> Rank(kept, e)]
<1>6. g \in Injection(P, 0..(MaxEntries - 1))
  <2> HIDE DEF P, kept
  <2> QED BY <1>4, <1>5 DEF Injection, IsInjective
<1>7. IsFiniteSet(0..(MaxEntries - 1)) /\ Cardinality(0..(MaxEntries - 1)) = MaxEntries
  BY FS_Interval, SyncLogAssumption
<1>8. Cardinality(P) <= MaxEntries
  BY <1>6, <1>7, FS_Injection
<1> QED BY <1>1, <1>8

\* The order is total, so there is exactly one way to sort.
LEMMA NewestFirstSorts ==
  ASSUME NEW S \in SUBSET Entry, IsFiniteSet(S)
  PROVE  /\ Cardinality(S) \in Nat
         /\ NewestFirst(S) \in [1..Cardinality(S) -> S]
         /\ \A i, j \in 1..Cardinality(S) : NewestFirst(S)[i] = NewestFirst(S)[j] => i = j
         /\ \A e \in S : \E i \in 1..Cardinality(S) : NewestFirst(S)[i] = e
<1> DEFINE n == Cardinality(S)
           Sorted(s) == \A i, j \in DOMAIN s : i < j => Before(s[i], s[j])
           g == [e \in S |-> Rank(S, e) + 1]
           w == [i \in 1..n |-> CHOOSE e \in S : g[e] = i]
<1>1. n \in Nat /\ IsFiniteSet(1..n) /\ Cardinality(1..n) = n
  BY FS_CardinalityType, FS_Interval
<1>2. g \in Injection(S, 1..n)
  <2>1. \A e \in S : Rank(S, e) \in 0..(n - 1)
    BY RankIsStrict
  <2>2. \A e \in S : Rank(S, e) + 1 \in 1..n
    <3> HIDE DEF n
    <3> QED BY <1>1, <2>1
  <2>3. \A e, f \in S : g[e] = g[f] => e = f
    <3> HIDE DEF n
    <3> QED BY <2>1, <1>1, RankIsStrict
  <2> HIDE DEF n
  <2> QED BY <2>2, <2>3 DEF Injection, IsInjective
<1>3. g \in Surjection(S, 1..n)
  <2> HIDE DEF g
  <2> QED BY <1>1, <1>2, FS_Injection
<1>4. \A i \in 1..n : w[i] \in S /\ g[w[i]] = i
  <2> HIDE DEF g, n
  <2> QED BY <1>3 DEF Surjection
<1>5. w \in [1..n -> S] /\ Sorted(w)
  <2>1. ASSUME NEW i \in 1..n, NEW j \in 1..n, i < j PROVE Before(w[i], w[j])
    <3>1. /\ w[i] \in S /\ w[j] \in S
          /\ Rank(S, w[i]) + 1 = i /\ Rank(S, w[j]) + 1 = j
      <4> HIDE DEF w, n
      <4> QED BY <1>4
    <3>2. Rank(S, w[i]) \in Nat /\ Rank(S, w[j]) \in Nat
      BY <3>1, RankIsStrict
    <3>3. w[i] # w[j] /\ ~Before(w[j], w[i])
      <4> HIDE DEF w, n
      <4> QED BY <1>1, <2>1, <3>1, <3>2, RankIsStrict
    <3> QED BY <3>1, <3>3, BeforeIsAnOrder
  <2>2. \A i \in 1..n : w[i] \in S
    BY <1>4
  <2> HIDE DEF n, g
  <2> QED BY <2>1, <2>2
<1> DEFINE s == NewestFirst(S)
<1>6. s \in [1..n -> S] /\ Sorted(s)
  <2>1. s = CHOOSE t \in [1..n -> S] : Sorted(t)
    BY DEF NewestFirst
  <2> HIDE DEF n, Sorted, w, s
  <2> QED BY <1>5, <2>1
<1>7. \A i, j \in 1..n : s[i] = s[j] => i = j
  <2> SUFFICES ASSUME NEW i \in 1..n, NEW j \in 1..n, i < j PROVE s[i] # s[j]
    <3> HIDE DEF s, n
    <3> QED BY <1>1
  <2>1. Before(s[i], s[j]) /\ s[i] \in S
    <3> HIDE DEF s, n
    <3> QED BY <1>6
  <2> QED BY <2>1, BeforeIsAnOrder
<1>8. \A e \in S : \E i \in 1..n : s[i] = e
  <2> HIDE DEF s, n
  <2>1. s \in Injection(1..n, S)
    BY <1>6, <1>7 DEF Injection, IsInjective
  <2>2. s \in Surjection(1..n, S)
    BY <1>1, <2>1, FS_Injection DEF n
  <2> QED BY <2>2 DEF Surjection
<1> QED BY <1>1, <1>6, <1>7, <1>8

LEMMA RecentIsKept ==
  ASSUME NEW S, IsFiniteSet(S), NEW T, T \in SUBSET S, NEW now \in Int,
         NEW e \in T, e.at + Retention >= now,
         Cardinality({f \in S : Before(f, e)}) < MaxEntries
  PROVE  e \in Prune(T, now)
<1> DEFINE kept == {f \in T : f.at + Retention >= now}
<1>1. /\ {f \in kept : Before(f, e)} \subseteq {f \in S : Before(f, e)}
      /\ IsFiniteSet({f \in S : Before(f, e)})
  BY FS_Subset
<1>2. Cardinality({f \in kept : Before(f, e)}) <= Cardinality({f \in S : Before(f, e)})
  BY <1>1, FS_Subset
<1>3. /\ Cardinality({f \in kept : Before(f, e)}) \in Nat
      /\ Cardinality({f \in S : Before(f, e)}) \in Nat
  BY <1>1, FS_Subset, FS_CardinalityType
<1> QED BY <1>2, <1>3, SyncLogAssumption DEF Prune

LEMMA MinOfTwo ==
  ASSUME NEW a \in Int, NEW b \in Int
  PROVE  Min({a, b}) = IF a <= b THEN a ELSE b
<1>1. \A x \in {a, b} : (\A y \in {a, b} : x =< y) <=> x = (IF a <= b THEN a ELSE b)
  OBVIOUS
<1>2. (IF a <= b THEN a ELSE b) \in {a, b}
  OBVIOUS
<1> QED BY <1>1, <1>2 DEF Min

\* The bounds of page p when there are n entries.
StartOf(n, p) == Min({(p - 1) * PageLimit, n})
EndOf(n, p) == Min({StartOf(n, p) + PageLimit, n})

LEMMA OnePage ==
  ASSUME NEW n \in Nat, NEW k \in 1..n
  PROVE  /\ PagesOf(n) \in Nat
         /\ \E q \in 1..PagesOf(n) : \A p \in 1..PagesOf(n) :
              StartOf(n, p) < k /\ k <= EndOf(n, p) <=> p = q
<1> DEFINE L == PageLimit
           q == ((k - 1) \div L) + 1
<1>1. L \in Nat \ {0} /\ n # 0
  BY SyncLogAssumption
<1>2. PagesOf(n) = (n + L - 1) \div L
  BY <1>1 DEF PagesOf
<1>3. /\ (n + L - 1) \div L \in Nat
      /\ ((n + L - 1) \div L) * L <= n + L - 1
      /\ n + L - 1 < ((n + L - 1) \div L) * L + L
  <2> HIDE DEF L
  <2> QED BY <1>1
<1>4. q \in Nat \ {0} /\ (q - 1) * L < k /\ k <= (q - 1) * L + L
  <2> HIDE DEF L
  <2> QED BY <1>1
<1>5. \A p \in Nat \ {0} : (p - 1) * L \in Nat /\ p * L = (p - 1) * L + L
  <2> HIDE DEF L
  <2> QED BY <1>1
<1>6. \A p \in Nat \ {0} : (p - 1) * L < k /\ k <= (p - 1) * L + L <=> p = q
  <2> HIDE DEF L, q
  <2> SUFFICES ASSUME NEW p \in Nat \ {0}, (p - 1) * L < k, k <= (p - 1) * L + L, p # q
               PROVE  FALSE
    BY <1>4
  <2>1. CASE p < q
    <3>1. p * L <= (q - 1) * L
      BY <1>1, <1>4, <2>1
    <3> QED BY <1>1, <1>4, <1>5, <3>1
  <2>2. CASE p > q
    <3>1. q * L <= (p - 1) * L
      BY <1>1, <1>4, <2>2
    <3> QED BY <1>1, <1>4, <1>5, <3>1
  <2> QED BY <1>4, <2>1, <2>2
<1>7. q <= (n + L - 1) \div L
  <2> DEFINE m == (n + L - 1) \div L
  <2> SUFFICES ASSUME q > m PROVE FALSE
    <3> HIDE DEF q, L
    <3> QED BY <1>3, <1>4
  <2>1. m \in Nat
    BY <1>3
  <2>2. m * L <= (q - 1) * L
    <3> HIDE DEF q, L, m
    <3> QED BY <1>1, <1>4, <2>1
  <2>3. m * L + L > n + L - 1
    BY <1>3
  <2>4. m * L \in Nat /\ (q - 1) * L \in Nat
    <3> HIDE DEF q, L, m
    <3> QED BY <1>1, <1>4, <2>1
  <2> HIDE DEF q, L, m
  <2> QED BY <1>1, <1>4, <2>2, <2>3, <2>4
<1>8. \A p \in Nat \ {0} :
        /\ StartOf(n, p) = IF (p - 1) * L <= n THEN (p - 1) * L ELSE n
        /\ EndOf(n, p) = IF StartOf(n, p) + L <= n THEN StartOf(n, p) + L ELSE n
  BY <1>1, <1>5, MinOfTwo DEF StartOf, EndOf
<1>9. \A p \in Nat \ {0} :
        StartOf(n, p) < k /\ k <= EndOf(n, p)
          <=> (p - 1) * L < k /\ k <= (p - 1) * L + L
  <2> TAKE p \in Nat \ {0}
  <2> DEFINE s == (p - 1) * L
  <2>1. s \in Nat
    BY <1>5
  <2>2. /\ StartOf(n, p) = IF s <= n THEN s ELSE n
        /\ EndOf(n, p) = IF StartOf(n, p) + L <= n THEN StartOf(n, p) + L ELSE n
    BY <1>8
  <2> HIDE DEF s, L
  <2>3. StartOf(n, p) < k /\ k <= EndOf(n, p) <=> s < k /\ k <= s + L
    BY <1>1, <2>1, <2>2
  <2> QED BY <2>3 DEF s
<1> HIDE DEF L, q
<1> QED BY <1>2, <1>3, <1>4, <1>6, <1>7, <1>9

LEMMA PagesShowAll ==
  ASSUME NEW hours, Recent(hours) \in SUBSET Entry, IsFiniteSet(Recent(hours)),
         NEW e \in Recent(hours)
  PROVE  Cardinality({p \in 1..PagesOf(Cardinality(Recent(hours))) :
                        Contains(Page(hours, p), e)}) = 1
<1> DEFINE R == Recent(hours)
           n == Cardinality(R)
           s == NewestFirst(R)
<1>1. /\ n \in Nat /\ s \in [1..n -> R]
      /\ \A i, j \in 1..n : s[i] = s[j] => i = j
      /\ \A f \in R : \E i \in 1..n : s[i] = f
  BY NewestFirstSorts
<1>0. e \in R
  OBVIOUS
<1> HIDE DEF R, n, s
<1>2. PICK k \in 1..n : s[k] = e
  BY <1>0, <1>1
<1>3. /\ PagesOf(n) \in Nat
      /\ \E q \in 1..PagesOf(n) : \A p \in 1..PagesOf(n) :
           StartOf(n, p) < k /\ k <= EndOf(n, p) <=> p = q
  <2>1. n \in Nat
    BY <1>1
  <2> QED BY <2>1, OnePage
<1>4. PICK q \in 1..PagesOf(n) : \A p \in 1..PagesOf(n) :
           StartOf(n, p) < k /\ k <= EndOf(n, p) <=> p = q
  BY <1>3
<1>5. ASSUME NEW p \in 1..PagesOf(n)
      PROVE  Contains(Page(hours, p), e) <=> StartOf(n, p) < k /\ k <= EndOf(n, p)
  <2> DEFINE a == StartOf(n, p)
             b == EndOf(n, p)
  <2>1. Min({p, PagesOf(n)}) = p
    BY <1>3, MinOfTwo
  <2>2. Page(hours, p) = SubSeq(s, a + 1, b)
    BY <2>1 DEF Page, R, n, s, StartOf, EndOf
  <2>3. /\ PageLimit \in Nat \ {0} /\ p - 1 \in Nat /\ (p - 1) * PageLimit \in Nat
    BY <1>3, SyncLogAssumption
  <2>4. a \in Nat /\ a <= n
    BY <1>1, <2>3, MinOfTwo DEF StartOf
  <2>5. b \in Nat /\ b <= n
    BY <1>1, <2>3, <2>4, MinOfTwo DEF EndOf
  <2> HIDE DEF a, b
  <2>6. \A i \in (a + 1)..b : s[i] \in R
    BY <1>1, <2>4, <2>5
  <2>7. /\ Len(SubSeq(s, a + 1, b)) = IF a + 1 <= b THEN b - (a + 1) + 1 ELSE 0
        /\ \A i \in 1..(b - (a + 1) + 1) : SubSeq(s, a + 1, b)[i] = s[(a + 1) + i - 1]
    BY <2>4, <2>5, <2>6, SubSeqProperties
  <2> DEFINE m == IF a <= b THEN b - a ELSE 0
  <2>a. m \in Nat /\ 1..m = 1..(b - a)
    BY <2>4, <2>5
  <2>b. Len(SubSeq(s, a + 1, b)) = m
    BY <2>4, <2>5, <2>7
  <2>c. \A i \in 1..m : SubSeq(s, a + 1, b)[i] = s[a + i]
    <3> TAKE i \in 1..m
    <3>1. i \in 1..(b - (a + 1) + 1) /\ (a + 1) + i - 1 = a + i
      BY <2>4, <2>5
    <3> QED BY <2>7, <3>1
  <2>8. Contains(Page(hours, p), e) <=> \E i \in 1..(b - a) : s[a + i] = e
    <3> HIDE DEF m
    <3>1. Contains(SubSeq(s, a + 1, b), e) <=> \E i \in 1..m : SubSeq(s, a + 1, b)[i] = e
      BY <2>b DEF Contains
    <3> QED BY <2>2, <2>a, <2>c, <3>1
  <2>9. \A i \in 1..(b - a) : a + i \in 1..n /\ (s[a + i] = e <=> a + i = k)
    BY <1>1, <1>2, <2>4, <2>5
  <2>10. (\E i \in 1..(b - a) : a + i = k) <=> a < k /\ k <= b
    <3>1. a < k /\ k <= b => k - a \in 1..(b - a) /\ a + (k - a) = k
      BY <1>1, <2>4, <2>5
    <3> QED BY <1>1, <2>4, <2>5, <3>1
  <2> QED BY <2>8, <2>9, <2>10 DEF a, b
<1>6. {p \in 1..PagesOf(n) : Contains(Page(hours, p), e)} = {q}
  BY <1>4, <1>5
<1> QED BY <1>6, FS_Singleton DEF n, R

----------------------------------------------------------------------------
LEMMA LogInitInv == LogInit => LogInv
<1> SUFFICES ASSUME LogInit PROVE LogInv
  OBVIOUS
<1>1. Cardinality({}) = 0 /\ IsFiniteSet({})
  BY FS_EmptySet
<1>2. LogTypeOK
  BY <1>1, SyncLogAssumption DEF LogInit, LogTypeOK
<1> QED BY <1>1, <1>2 DEF LogInit, LogInv

\* Ids do not run out before MaxAppends.
LEMMA TakenIsFinite ==
  ASSUME LogInv, Cardinality(Taken) < MaxAppends
  PROVE  Cardinality(Taken) + 1 \in 1..MaxAppends
<1>1. Taken \subseteq 1..MaxAppends
  BY DEF Taken, LogInv, LogTypeOK, Entry
<1>2. IsFiniteSet(1..MaxAppends)
  BY FS_Interval, SyncLogAssumption
<1>3. Cardinality(Taken) \in Nat
  BY <1>1, <1>2, FS_Subset, FS_CardinalityType
<1> QED BY <1>3, SyncLogAssumption

\* What an append and a restart do to the entries a reader may expect.
LEMMA PruneKeepsRecent ==
  ASSUME NEW S \in SUBSET Entry, IsFiniteSet(S), NEW T \in SUBSET S,
         NEW now \in Nat, NEW e \in T, e.at + Retention >= now,
         Rank(S, e) < MaxEntries
  PROVE  e \in Prune(T, now)
BY RecentIsKept DEF Rank

LEMMA StampEntryInv ==
  ASSUME LogInv, NEW h \in Appenders, StampEntry(h)
  PROVE  LogInv'
<1>1. Cardinality(Taken) + 1 \in 1..MaxAppends
  BY TakenIsFinite DEF StampEntry
<1>2. clock \in 0..MaxClock /\ pending \in [Appenders -> Entry \cup {NoEntry}]
  BY DEF LogInv, LogTypeOK
<1> DEFINE x == [at |-> clock, id |-> Cardinality(Taken) + 1]
<1>3. x \in Entry /\ x.at = clock
  BY <1>1, <1>2 DEF Entry
<1>4. pending' = [pending EXCEPT ![h] = x] /\ UNCHANGED <<clock, logs, logFile, appended, lost, logFaults>>
  BY DEF StampEntry
<1> HIDE DEF x
<1>5. pending' \in [Appenders -> Entry \cup {NoEntry}]
  BY <1>2, <1>3, <1>4
<1>6. LogTypeOK'
  BY <1>4, <1>5 DEF LogInv, LogTypeOK
<1>7. \A g \in Appenders : pending'[g] # NoEntry => pending'[g].at <= clock'
  BY <1>2, <1>3, <1>4 DEF LogInv
<1>8. (\A e \in appended \ lost : Recents(e) => e \in logs)'
  BY <1>4 DEF LogInv, Recents
<1> QED BY <1>4, <1>6, <1>7, <1>8 DEF LogInv

LEMMA AppendSyncLogInv ==
  ASSUME LogInv, NEW h \in Appenders, AppendSyncLog(h)
  PROVE  LogInv'
<1> DEFINE x == pending[h]
<1>1. /\ x \in Entry /\ x.at <= clock /\ x.at \in Nat
      /\ clock \in 0..MaxClock
      /\ pending' = [pending EXCEPT ![h] = NoEntry]
      /\ appended' = appended \cup {x}
      /\ logs' = Prune(logs \cup {x}, x.at)
      /\ clock' = clock /\ lost' = lost
  BY SyncLogAssumption DEF AppendSyncLog, LogInv, LogTypeOK, Entry
<1> HIDE DEF x
<1>2. /\ appended' \subseteq Entry /\ IsFiniteSet(appended')
      /\ logs \cup {x} \subseteq appended'
  BY <1>1, FS_AddElement DEF LogInv, LogTypeOK
<1>3. logs \cup {x} \in SUBSET Entry /\ IsFiniteSet(logs \cup {x})
  BY <1>2, FS_Subset
<1>4. logs' \subseteq logs \cup {x} /\ Cardinality(logs') <= MaxEntries
  <2> DEFINE S == logs \cup {x}
  <2>1. S \in SUBSET Entry /\ IsFiniteSet(S) /\ x.at \in Nat
    BY <1>1, <1>3
  <2>2. logs' = Prune(S, x.at)
    BY <1>1
  <2> HIDE DEF S
  <2>3. Prune(S, x.at) \subseteq S /\ Cardinality(Prune(S, x.at)) <= MaxEntries
    BY <2>1, PruneIsBounded
  <2> QED BY <2>2, <2>3 DEF S
<1>5. (logFile' = logs' \/ logFile' = logFile) /\ logFaults' \in 0..MaxLogFaults
  <2>1. logFaults \in 0..MaxLogFaults /\ (UNCHANGED logFaults \/ (logFaults < MaxLogFaults /\ logFaults' = logFaults + 1))
    BY DEF AppendSyncLog, LogInv, LogTypeOK
  <2> QED BY <2>1, SyncLogAssumption DEF AppendSyncLog
<1>6. LogTypeOK'
  <2>1. pending' \in [Appenders -> Entry \cup {NoEntry}]
    BY <1>1 DEF LogInv, LogTypeOK
  <2> QED BY <1>1, <1>2, <1>4, <1>5, <2>1 DEF LogInv, LogTypeOK
<1>7. \A g \in Appenders : pending'[g] # NoEntry => pending'[g].at <= clock'
  BY <1>1 DEF LogInv, LogTypeOK
<1>8. ASSUME NEW e \in appended' \ lost', Recents(e)'
      PROVE  e \in logs'
  <2>1. e.at + Retention >= clock /\ Rank(appended', e) < MaxEntries /\ e \in Entry
    BY <1>1, <1>2, <1>8 DEF Recents, Rank
  <2>2. e \in logs \cup {x}
    <3> SUFFICES ASSUME e \in appended, e \notin lost PROVE e \in logs
      BY <1>1
    <3>1. Rank(appended, e) <= Rank(appended', e)
      <4> DEFINE A == {f \in appended : Before(f, e)}
                 C == {f \in appended' : Before(f, e)}
      <4>1. A \subseteq C /\ IsFiniteSet(C)
        BY <1>1, <1>2, FS_Subset
      <4> HIDE DEF A, C
      <4>2. Cardinality(A) <= Cardinality(C)
        BY <4>1, FS_Subset
      <4> QED BY <4>2 DEF A, C, Rank
    <3>2. Rank(appended, e) \in Int /\ Rank(appended', e) \in Int
      <4>1. appended \in SUBSET Entry /\ IsFiniteSet(appended) /\ e \in appended'
        BY <1>1 DEF LogInv, LogTypeOK
      <4> QED BY <1>2, <4>1, RankIsStrict
    <3>3. Recents(e)
      BY <2>1, <3>1, <3>2, SyncLogAssumption DEF Recents, Rank
    <3> QED BY <3>3 DEF LogInv
  <2>3. e.at + Retention >= x.at
    BY <1>1, <2>1, SyncLogAssumption DEF Entry
  <2> DEFINE T == logs \cup {x}
             S == appended'
             now == x.at
  <2>4. S \in SUBSET Entry /\ IsFiniteSet(S) /\ T \in SUBSET S /\ now \in Nat
        /\ e \in T /\ e.at + Retention >= now /\ Rank(S, e) < MaxEntries
    BY <1>1, <1>2, <2>1, <2>2, <2>3
  <2>5. logs' = Prune(T, now)
    BY <1>1
  <2> HIDE DEF T, S, now
  <2> QED BY <2>4, <2>5, PruneKeepsRecent
<1> QED BY <1>2, <1>6, <1>7, <1>8 DEF LogInv

LEMMA RestartLogInv ==
  ASSUME LogInv, RestartLog
  PROVE  LogInv'
<1>1. /\ clock \in Nat /\ logFile \in SUBSET appended /\ appended \in SUBSET Entry
      /\ IsFiniteSet(appended) /\ logs \subseteq appended
      /\ clock' = clock /\ appended' = appended /\ logFile' = logFile
      /\ logs' = Prune(logFile, clock)
      /\ lost' = lost \cup (logs \ logFile)
      /\ pending' = [g \in Appenders |-> NoEntry]
  BY SyncLogAssumption DEF LogInv, LogTypeOK, RestartLog
<1>2. logFile \in SUBSET Entry /\ IsFiniteSet(logFile)
  BY <1>1, FS_Subset
<1>3. logs' \subseteq logFile /\ Cardinality(logs') <= MaxEntries
  BY <1>1, <1>2, PruneIsBounded
<1>4. LogTypeOK'
  BY <1>1, <1>3 DEF LogInv, LogTypeOK, RestartLog
<1>5. ASSUME NEW e \in appended' \ lost', Recents(e)'
      PROVE  e \in logs'
  <2>1. e.at + Retention >= clock /\ Rank(appended, e) < MaxEntries /\ Recents(e)
    BY <1>1, <1>5 DEF Recents, Rank
  <2>2. e \in logFile
    BY <1>1, <1>5, <2>1 DEF LogInv
  <2> QED BY <1>1, <2>1, <2>2, PruneKeepsRecent
<1>6. \A g \in Appenders : pending'[g] = NoEntry
  BY <1>1
<1> QED BY <1>1, <1>4, <1>5, <1>6 DEF LogInv

LEMMA TickInv ==
  ASSUME LogInv, Tick
  PROVE  LogInv'
<1>1. /\ clock \in 0..MaxClock /\ clock' = clock + 1 /\ clock' \in 0..MaxClock
      /\ UNCHANGED <<pending, logs, logFile, appended, lost, logFaults>>
  BY SyncLogAssumption DEF LogInv, LogTypeOK, Tick
<1>2. LogTypeOK'
  BY <1>1 DEF LogInv, LogTypeOK
<1>3. \A g \in Appenders : pending'[g] # NoEntry => pending'[g].at <= clock'
  <2> SUFFICES ASSUME NEW g \in Appenders, pending[g] # NoEntry PROVE pending[g].at <= clock + 1
    BY <1>1
  <2>1. pending[g] \in Entry /\ pending[g].at <= clock
    BY DEF LogInv, LogTypeOK
  <2> QED BY <1>1, <2>1 DEF Entry
<1>4. ASSUME NEW e \in appended' \ lost', Recents(e)'
      PROVE  e \in logs'
  <2>1. e \in Entry /\ e \in appended \ lost
    BY <1>1, <1>4 DEF LogInv, LogTypeOK
  <2>2. Recents(e)
    BY <1>1, <1>4, <2>1, SyncLogAssumption DEF Recents, Entry
  <2> QED BY <1>1, <2>1, <2>2 DEF LogInv
<1> QED BY <1>1, <1>2, <1>3, <1>4 DEF LogInv

LEMMA LogNextInv == LogInv /\ [LogNext]_logVars => LogInv'
<1> SUFFICES ASSUME LogInv, [LogNext]_logVars PROVE LogInv'
  OBVIOUS
<1>1. ASSUME NEW h \in Appenders, StampEntry(h) PROVE LogInv'
  BY <1>1, StampEntryInv
<1>2. ASSUME NEW h \in Appenders, AppendSyncLog(h) PROVE LogInv'
  BY <1>2, AppendSyncLogInv
<1>3. CASE RestartLog
  BY <1>3, RestartLogInv
<1>4. CASE Tick
  BY <1>4, TickInv
<1>5. CASE UNCHANGED logVars
  BY <1>5 DEF logVars, LogInv, LogTypeOK, Recents
<1> QED BY <1>1, <1>2, <1>3, <1>4, <1>5 DEF LogNext

LEMMA LogInvShows == LogInv => RecentEntriesAreShown
<1> SUFFICES ASSUME LogInv, NEW e \in appended \ lost, Recents(e)
             PROVE  Cardinality({p \in 1..PagesOf(Cardinality(Recent(Retention))) :
                                   Contains(Page(Retention, p), e)}) = 1
  BY DEF RecentEntriesAreShown, Recents
<1>1. e \in logs
  BY DEF LogInv
<1>2. e \in Recent(Retention)
  BY <1>1 DEF Recent, Recents
<1>3. Recent(Retention) \in SUBSET Entry /\ IsFiniteSet(Recent(Retention))
  BY FS_Subset DEF Recent, LogInv, LogTypeOK
<1> QED BY <1>2, <1>3, PagesShowAll

\* The log never holds more than MaxEntries, and entries, in memory and in the
\* file (appendSyncLog, pruneSyncLogs).
THEOREM LogTypes == LogSpec => []LogTypeOK
<1>1. LogInv => LogTypeOK
  BY DEF LogInv
<1> QED BY LogInitInv, LogNextInv, <1>1, PTL DEF LogSpec

\* An entry that is neither too old nor one of more than MaxEntries is on exactly
\* one page of the log, however late appenders get the lock and whatever writes
\* fail (appendSyncLog, handleSyncLogs).
THEOREM LogShowsRecentEntries == LogSpec => []RecentEntriesAreShown
BY LogInitInv, LogNextInv, LogInvShows, PTL DEF LogSpec

----------------------------------------------------------------------------
Days == 0..MaxDays
WebRequest == {NoRequest}
             \cup [op : {"session"}, now : Days]
             \cup [op : {"validate"}, session : Session, now : Days, out : BOOLEAN]
             \cup [op : {"logout"}, session : Session, now : Days]
Verdict == {NoVerdict}
             \cup [session : Session, now : Days, out : BOOLEAN, ok : BOOLEAN]

\* Tokens are numbered as they are issued.
TokensAreUsedOnce ==
    /\ IsFiniteSet(issued)
    /\ \A s \in issued : s.token <= Cardinality(issued)
    /\ \A s, t \in issued : s.token = t.token => s = t
    /\ \A k \in revoked : k <= Cardinality(issued)

RequestsOK ==
    /\ request \in [Browsers -> WebRequest]
    /\ \A b \in Browsers :
         /\ request[b].op # "idle" => request[b].now <= day
         /\ request[b].op \in {"validate", "logout"} => request[b].session \in issued
         /\ request[b].op = "validate" =>
              (request[b].out => request[b].session.token \in revoked)

\* The sessions that take the place of s when too many are kept.
Rivals(s) == {t \in issued \ {s} : t.created >= s.created}

\* s is not in the file, or need not be.
Gone(s) ==
    \/ ~Alive(s, day)
    \/ s.token \in revoked
    \/ Cardinality(Rivals(s)) >= MaxSessions

SessionsOK ==
    /\ sessions \subseteq issued
    /\ \A s \in sessions : s.token \notin revoked
    /\ \A s \in issued : s \in sessions \/ Gone(s)

VerdictOK ==
    /\ validated \in Verdict
    /\ validated # NoVerdict =>
         /\ validated.session \in issued
         /\ validated.ok => Alive(validated.session, validated.now) /\ ~validated.out
         /\ ~validated.ok => Gone(validated.session)

WebInv == WebTypeOK /\ TokensAreUsedOnce /\ RequestsOK /\ SessionsOK /\ VerdictOK

----------------------------------------------------------------------------
\* A session that is gone stays so.
LEMMA GoneForGood ==
    ASSUME WebTypeOK, WebTypeOK', IsFiniteSet(issued'), issued \subseteq issued',
           revoked \subseteq revoked', day <= day', NEW s \in Session, Gone(s)
    PROVE  Gone(s)'
<1>1. CASE ~Alive(s, day)
  <2>1. s.created \in Nat /\ Lifetime \in Nat /\ day \in Nat /\ day' \in Nat
    BY WebSessionsAssumption DEF Session, WebTypeOK
  <2> QED BY <1>1, <2>1 DEF Alive, Gone
<1>2. CASE s.token \in revoked
  BY <1>2 DEF Gone
<1>3. CASE Cardinality(Rivals(s)) >= MaxSessions
  <2>1. Rivals(s) \subseteq Rivals(s)' /\ IsFiniteSet(Rivals(s)')
    BY FS_Subset DEF Rivals
  <2>2. /\ Cardinality(Rivals(s)) <= Cardinality(Rivals(s)')
        /\ Cardinality(Rivals(s)) \in Nat /\ Cardinality(Rivals(s)') \in Nat
    BY <2>1, FS_Subset, FS_CardinalityType
  <2>3. Cardinality(Rivals(s)') >= MaxSessions
    BY <1>3, <2>2, WebSessionsAssumption
  <2> QED BY <2>3 DEF Gone
<1> QED BY <1>1, <1>2, <1>3 DEF Gone

\* What has expired by the time of an earlier reading has expired by now.
LEMMA ExpiredSinceThen ==
    ASSUME WebTypeOK, NEW s \in Session, NEW now \in Days, now <= day, ~Alive(s, now)
    PROVE  Gone(s)
<1>1. s.created \in Nat /\ Lifetime \in Nat /\ day \in Nat /\ now \in Nat
  BY WebSessionsAssumption DEF Session, WebTypeOK, Days
<1> QED BY <1>1 DEF Alive, Gone

\* A smaller file has no more sessions than the cap allows.
LEMMA FewerSessions ==
    ASSUME WebTypeOK, TokensAreUsedOnce, SessionsOK, NEW kept \in SUBSET sessions
    PROVE  Cardinality(kept) <= MaxSessions
<1>1. IsFiniteSet(sessions)
  BY FS_Subset DEF TokensAreUsedOnce, SessionsOK
<1>2. /\ Cardinality(kept) <= Cardinality(sessions)
      /\ Cardinality(kept) \in Nat /\ Cardinality(sessions) \in Nat
  BY <1>1, FS_Subset, FS_CardinalityType
<1> QED BY <1>2, WebSessionsAssumption DEF WebTypeOK

\* A step that takes sessions out of the file for a reason, and issues none.
LEMMA RemovalKeeps ==
    ASSUME WebInv, UNCHANGED <<day, issued>>,
           revoked \subseteq revoked', revoked' \subseteq {s.token : s \in issued} \cup revoked,
           sessions' \subseteq sessions,
           \A s \in sessions' : s.token \notin revoked',
           \A s \in sessions \ sessions' : Gone(s)',
           sessionFaults' \in 0..MaxSessionFaults
    PROVE  WebTypeOK' /\ TokensAreUsedOnce' /\ SessionsOK'
<1>1. issued \subseteq Session /\ \A s \in issued : s.token \in Tokens
  BY DEF WebInv, WebTypeOK, Session
<1>2. Cardinality(sessions') <= MaxSessions
  BY FewerSessions DEF WebInv
<1>3. revoked' \subseteq Tokens
  BY <1>1 DEF WebInv, WebTypeOK
<1>4. WebTypeOK'
  BY <1>2, <1>3 DEF WebInv, WebTypeOK
<1>5. TokensAreUsedOnce'
  BY DEF WebInv, TokensAreUsedOnce
<1>6. \A s \in issued : s \in sessions' \/ Gone(s)'
  <2> SUFFICES ASSUME NEW s \in issued, s \notin sessions PROVE Gone(s)'
    OBVIOUS
  <2>1. Gone(s) /\ s \in Session
    BY <1>1 DEF WebInv, SessionsOK
  <2>2. day <= day' /\ issued \subseteq issued' /\ IsFiniteSet(issued')
    BY DEF WebInv, WebTypeOK, TokensAreUsedOnce
  <2> QED BY <1>4, <2>1, <2>2, GoneForGood DEF WebInv
<1> QED BY <1>4, <1>5, <1>6 DEF WebInv, SessionsOK

\* A verdict stays justified.
LEMMA VerdictStands ==
    ASSUME WebInv, WebTypeOK', TokensAreUsedOnce', issued \subseteq issued',
           revoked \subseteq revoked', day <= day', UNCHANGED validated
    PROVE  VerdictOK'
<1>1. validated # NoVerdict => validated.session \in Session
  BY DEF WebInv, VerdictOK, WebTypeOK
<1>2. IsFiniteSet(issued')
  BY DEF TokensAreUsedOnce
<1>3. validated # NoVerdict /\ ~validated.ok => Gone(validated.session)'
  <2> SUFFICES ASSUME validated # NoVerdict, ~validated.ok PROVE Gone(validated.session)'
    OBVIOUS
  <2> DEFINE s == validated.session
  <2>1. PICK t \in Session : t = s /\ Gone(t)
    BY <1>1 DEF WebInv, VerdictOK
  <2>2. Gone(t)'
    BY <1>2, <2>1, GoneForGood DEF WebInv
  <2>3. validated'.session = t
    BY <2>1
  <2> QED BY <2>2, <2>3 DEF Gone, Rivals
<1> QED BY <1>3 DEF WebInv, VerdictOK

\* Answering a request, or losing it, leaves the others as they were.
LEMMA AnswerKeeps ==
    ASSUME WebInv, NEW b \in Browsers, Answer(b), issued \subseteq issued',
           revoked \subseteq revoked', UNCHANGED day
    PROVE  RequestsOK'
<1>1. request' = [request EXCEPT ![b] = NoRequest] /\ NoRequest \in WebRequest
  BY DEF Answer, WebRequest
<1> QED BY <1>1 DEF WebInv, RequestsOK, NoRequest

\* So does taking one up.
LEMMA GoKeeps ==
    ASSUME WebInv, NEW b \in Browsers, NEW r \in WebRequest, Go(b, r),
           r.op # "idle" => r.now <= day,
           r.op \in {"validate", "logout"} => r.session \in issued,
           r.op = "validate" => (r.out => r.session.token \in revoked),
           UNCHANGED <<day, sessions, issued, revoked, validated, sessionFaults>>
    PROVE  WebInv'
<1>1. request' \in [Browsers -> WebRequest]
  BY DEF WebInv, RequestsOK, Go
<1>2. RequestsOK'
  BY <1>1 DEF WebInv, RequestsOK, Go
<1> QED
  BY <1>2 DEF WebInv, WebTypeOK, TokensAreUsedOnce, SessionsOK, VerdictOK, Gone, Rivals

----------------------------------------------------------------------------
LEMMA WebInitIsSound == ASSUME WebInit PROVE WebInv
<1>1. IsFiniteSet({}) /\ Cardinality({}) = 0
  BY FS_EmptySet
<1>2. WebTypeOK
  BY <1>1, WebSessionsAssumption DEF WebInit, WebTypeOK
<1>3. RequestsOK
  BY DEF WebInit, RequestsOK, WebRequest, NoRequest
<1> QED
  BY <1>1, <1>2, <1>3 DEF WebInit, WebInv, TokensAreUsedOnce, SessionsOK, VerdictOK, Verdict

LEMMA StartsKeep ==
    ASSUME WebInv, NEW b \in Browsers,
           \/ StartSession(b)
           \/ \E s \in issued : StartRequest(b, s) \/ StartLogout(b, s)
    PROVE  WebInv'
<1>1. day \in Days /\ day <= day /\ issued \subseteq Session
  BY WebSessionsAssumption DEF WebInv, WebTypeOK, Days
<1>2. CASE StartSession(b)
  <2> DEFINE r == [op |-> "session", now |-> day]
  <2>1. PICK d \in Days : d = day
    BY <1>1
  <2>2. [op |-> "session", now |-> d] \in WebRequest
    BY DEF WebRequest
  <2> QED BY <1>1, <1>2, <2>1, <2>2, GoKeeps DEF StartSession
<1>3. ASSUME NEW s \in issued, StartRequest(b, s) PROVE WebInv'
  <2> DEFINE r == [op |-> "validate", session |-> s, now |-> day, out |-> s.token \in revoked]
  <2>1. r \in WebRequest
    BY <1>1 DEF WebRequest
  <2>2. Go(b, r) /\ UNCHANGED <<day, sessions, issued, revoked, validated, sessionFaults>>
    BY <1>3 DEF StartRequest
  <2>3. r.op = "validate" /\ r.now = day /\ r.session = s /\ r.out = (s.token \in revoked)
    OBVIOUS
  <2> HIDE DEF r
  <2> QED BY <1>1, <2>1, <2>2, <2>3, GoKeeps
<1>4. ASSUME NEW s \in issued, StartLogout(b, s) PROVE WebInv'
  <2> DEFINE r == [op |-> "logout", session |-> s, now |-> day]
  <2>1. r \in WebRequest
    BY <1>1 DEF WebRequest
  <2>2. Go(b, r) /\ UNCHANGED <<day, sessions, issued, revoked, validated, sessionFaults>>
    BY <1>4 DEF StartLogout
  <2>3. r.op = "logout" /\ r.now = day /\ r.session = s
    OBVIOUS
  <2> HIDE DEF r
  <2> QED BY <1>1, <2>1, <2>2, <2>3, GoKeeps
<1> QED BY <1>2, <1>3, <1>4

LEMMA ValidateKeeps ==
    ASSUME WebInv, NEW b \in Browsers, ValidateWebSession(b)
    PROVE  WebInv'
<1> DEFINE r == request[b]
<1>1. /\ r.session \in issued /\ r.session \in Session /\ r.now \in Days /\ r.now <= day
      /\ r.out \in BOOLEAN /\ (r.out => r.session.token \in revoked)
  <2>1. r \in WebRequest /\ r.op = "validate" /\ issued \subseteq Session
    BY DEF WebInv, RequestsOK, WebTypeOK, ValidateWebSession
  <2>2. r \in [op : {"validate"}, session : Session, now : Days, out : BOOLEAN]
    BY <2>1 DEF WebRequest, NoRequest
  <2> QED BY <2>1, <2>2 DEF WebInv, RequestsOK
<1>2. UNCHANGED <<day, issued, revoked>> /\ Answer(b)
  BY DEF ValidateWebSession
<1>3. \A s \in sessions : s \in Session /\ s \in issued
  BY DEF WebInv, WebTypeOK, SessionsOK
<1>4. \A s \in sessions \ Loaded(r.now) : Gone(s)
  BY <1>1, <1>3, ExpiredSinceThen DEF WebInv, Loaded
<1>5. \A s \in Session : Gone(s)' <=> Gone(s)
  BY <1>2 DEF Gone, Rivals
<1>6. /\ sessions' \in {sessions, Loaded(r.now)}
      /\ sessionFaults' \in 0..MaxSessionFaults
  BY WebSessionsAssumption DEF ValidateWebSession, Persist, PersistFails, WebInv, WebTypeOK
<1>7. WebTypeOK' /\ TokensAreUsedOnce' /\ SessionsOK'
  <2>1. /\ sessions' \subseteq sessions
        /\ \A s \in sessions' : s.token \notin revoked'
        /\ \A s \in sessions \ sessions' : Gone(s)'
    BY <1>2, <1>3, <1>4, <1>5, <1>6 DEF Loaded, WebInv, SessionsOK
  <2> QED BY <1>2, <1>6, <2>1, RemovalKeeps
<1>8. RequestsOK'
  BY <1>2, AnswerKeeps
<1>9. VerdictOK'
  <2> DEFINE v == [session |-> r.session, now |-> r.now, out |-> r.out,
                   ok |-> r.session \in Loaded(r.now)]
  <2>1. validated' = v /\ v \in Verdict
    BY <1>1 DEF ValidateWebSession, Verdict
  <2>2. CASE r.session \in Loaded(r.now)
    <3>1. Alive(r.session, r.now) /\ ~r.out
      BY <1>1, <2>2 DEF Loaded, WebInv, SessionsOK
    <3> QED BY <1>1, <1>2, <2>1, <2>2, <3>1 DEF VerdictOK, Alive
  <2>3. CASE r.session \notin Loaded(r.now)
    <3>1. Gone(r.session)
      BY <1>1, <1>4, <2>3 DEF Loaded, WebInv, SessionsOK
    <3>2. Gone(validated.session)'
      BY <1>2, <2>1, <3>1 DEF Gone, Rivals
    <3> QED BY <1>1, <1>2, <2>1, <2>3, <3>2 DEF VerdictOK
  <2> QED BY <2>2, <2>3
<1> QED BY <1>7, <1>8, <1>9 DEF WebInv

LEMMA RevokeKeeps ==
    ASSUME WebInv, NEW b \in Browsers, RevokeWebSession(b)
    PROVE  WebInv'
<1> DEFINE r == request[b]
<1>1. r.session \in issued /\ r.now \in Days /\ r.now <= day
  <2>1. r \in WebRequest /\ r.op = "logout"
    BY DEF WebInv, RequestsOK, RevokeWebSession
  <2>2. r \in [op : {"logout"}, session : Session, now : Days]
    BY <2>1 DEF WebRequest, NoRequest
  <2> QED BY <2>1, <2>2 DEF WebInv, RequestsOK
<1>2. UNCHANGED <<day, issued, validated>> /\ Answer(b)
  BY DEF RevokeWebSession
<1>3. \A s \in sessions : s \in Session /\ s \in issued
  BY DEF WebInv, WebTypeOK, SessionsOK
<1>4. \A s \in sessions \ Loaded(r.now) : Gone(s)
  BY <1>1, <1>3, ExpiredSinceThen DEF WebInv, Loaded
<1>5. sessionFaults' \in 0..MaxSessionFaults /\ revoked \subseteq revoked'
  BY WebSessionsAssumption DEF RevokeWebSession, Persist, PersistFails, WebInv, WebTypeOK
<1>6. WebTypeOK' /\ TokensAreUsedOnce' /\ SessionsOK'
  <2>1. CASE UNCHANGED <<sessions, revoked>>
    BY <1>2, <1>5, <2>1, RemovalKeeps DEF WebInv, SessionsOK
  <2>2. CASE /\ sessions' = Loaded(r.now) \ {r.session}
             /\ revoked' = revoked \cup {r.session.token}
    <3>1. sessions' \subseteq sessions
      BY <2>2 DEF Loaded
    <3>2. \A s \in sessions' : s.token \notin revoked'
      BY <1>1, <1>3, <2>2 DEF Loaded, WebInv, SessionsOK, TokensAreUsedOnce
    <3>3. \A s \in sessions \ sessions' : Gone(s)'
      <4> SUFFICES ASSUME NEW s \in sessions \ sessions' PROVE Gone(s)'
        OBVIOUS
      <4>1. CASE s = r.session
        BY <4>1, <2>2 DEF Gone
      <4>2. CASE s \notin Loaded(r.now)
        <5>1. Gone(s)
          BY <4>2, <1>4
        <5> QED BY <5>1, <1>2, <1>5 DEF Gone, Rivals
      <4> QED BY <4>1, <4>2, <2>2
    <3>4. revoked' \subseteq {s.token : s \in issued} \cup revoked
      BY <1>1, <2>2
    <3> QED BY <1>2, <1>5, <3>1, <3>2, <3>3, <3>4, RemovalKeeps
  <2> QED BY <2>1, <2>2 DEF RevokeWebSession, Persist, PersistFails
<1>7. RequestsOK'
  BY <1>2, <1>5, AnswerKeeps
<1>8. VerdictOK'
  BY <1>2, <1>5, <1>6, VerdictStands, WebSessionsAssumption DEF WebInv, WebTypeOK
<1> QED BY <1>6, <1>7, <1>8 DEF WebInv

\* What the cap drops has MaxSessions rivals that stay.
LEMMA DroppedByRivals ==
    ASSUME NEW all, IsFiniteSet(all), all \subseteq issued', IsFiniteSet(issued'),
           NEW kept \in Capped(all), NEW s \in all \ kept
    PROVE  Gone(s)'
<1>1. /\ kept \subseteq all
      /\ \A t \in kept : t.created >= s.created
      /\ Cardinality(kept) = IF Cardinality(all) > MaxSessions
                             THEN MaxSessions ELSE Cardinality(all)
  BY DEF Capped
<1>2. Cardinality(kept) = MaxSessions
  <2>1. CASE ~(Cardinality(all) > MaxSessions)
    <3>1. Cardinality(kept) = Cardinality(all)
      BY <1>1, <2>1
    <3>2. kept # all
      OBVIOUS
    <3> QED BY <1>1, <3>1, <3>2, FS_Subset
  <2> QED BY <1>1, <2>1
<1>3. kept \subseteq Rivals(s)' /\ IsFiniteSet(Rivals(s)')
  BY <1>1, FS_Subset DEF Rivals
<1>4. /\ Cardinality(kept) <= Cardinality(Rivals(s)')
      /\ Cardinality(Rivals(s)') \in Nat
  BY <1>3, FS_Subset, FS_CardinalityType
<1>5. Cardinality(Rivals(s)') >= MaxSessions
  BY <1>2, <1>4, WebSessionsAssumption
<1> QED BY <1>5 DEF Gone

LEMMA CreateSessionKeeps ==
    ASSUME WebInv, NEW b \in Browsers, CreateWebSession(b)
    PROVE  WebInv'
<1> DEFINE r == request[b]
<1>1. r.now \in Days /\ r.now <= day
  <2>1. r \in WebRequest /\ r.op = "session"
    BY DEF WebInv, RequestsOK, CreateWebSession
  <2>2. r \in [op : {"session"}, now : Days]
    BY <2>1 DEF WebRequest, NoRequest
  <2> QED BY <2>1, <2>2 DEF WebInv, RequestsOK
<1>2. UNCHANGED <<day, revoked, validated>> /\ Answer(b)
  BY DEF CreateWebSession
<1>3. CASE UNCHANGED <<sessions, issued>> /\ PersistFails
  <2>1. sessionFaults' \in 0..MaxSessionFaults
    BY <1>3, WebSessionsAssumption DEF PersistFails, WebInv, WebTypeOK
  <2>2. WebTypeOK' /\ TokensAreUsedOnce' /\ SessionsOK'
    BY <1>2, <1>3, <2>1, RemovalKeeps DEF WebInv, SessionsOK
  <2>3. RequestsOK'
    BY <1>2, <1>3, AnswerKeeps
  <2>4. VerdictOK'
    BY <1>2, <1>3, <2>2, VerdictStands, WebSessionsAssumption DEF WebInv, WebTypeOK
  <2> QED BY <2>2, <2>3, <2>4 DEF WebInv
<1>4. ASSUME NEW s \in Session, s = [token |-> Cardinality(issued) + 1, created |-> r.now],
             NEW kept \in Capped(Loaded(r.now) \cup {s}),
             sessions' = kept, issued' = issued \cup {s}, UNCHANGED sessionFaults
      PROVE  WebInv'
  <2> DEFINE all == Loaded(r.now) \cup {s}
  <2>0. Cardinality(issued) \in Nat /\ IsFiniteSet(issued)
    BY FS_CardinalityType DEF WebInv, TokensAreUsedOnce
  <2>1. s \notin issued /\ s.token = Cardinality(issued) + 1
    BY <1>4, <2>0 DEF WebInv, TokensAreUsedOnce
  <2>2. IsFiniteSet(issued') /\ Cardinality(issued') = Cardinality(issued) + 1
    BY <1>4, <2>0, <2>1, FS_AddElement
  <2>3. TokensAreUsedOnce'
    <3>1. \A t \in issued' : t \in issued \/ t = s
      BY <1>4
    <3>2. /\ \A t \in issued : t.token <= Cardinality(issued) /\ t.token \in Nat
          /\ \A k \in revoked : k <= Cardinality(issued) /\ k \in Nat
      BY DEF WebInv, TokensAreUsedOnce, WebTypeOK, Session, Tokens
    <3>3. \A t \in issued' : t.token <= Cardinality(issued')
      BY <2>0, <2>1, <2>2, <3>1, <3>2
    <3>4. \A t, u \in issued' : t.token = u.token => t = u
      BY <2>0, <2>1, <3>1, <3>2 DEF WebInv, TokensAreUsedOnce
    <3>5. \A k \in revoked' : k <= Cardinality(issued')
      BY <1>2, <2>0, <2>2, <3>2
    <3> QED BY <2>2, <3>3, <3>4, <3>5 DEF TokensAreUsedOnce
  <2>4. all \subseteq issued' /\ IsFiniteSet(all) /\ kept \subseteq all
    <3>1. all \subseteq issued' /\ kept \subseteq all
      BY <1>4 DEF Loaded, Capped, WebInv, SessionsOK
    <3> QED BY <2>2, <3>1, FS_Subset
  <2>5. WebTypeOK'
    <3>1. Cardinality(kept) <= MaxSessions
      <4>1. Cardinality(all) \in Nat
        BY <2>4, FS_CardinalityType
      <4> QED BY <4>1, <1>4, WebSessionsAssumption DEF Capped
    <3>2. kept \subseteq Session /\ issued' \subseteq Session
      BY <1>4, <2>4 DEF WebInv, WebTypeOK
    <3> QED BY <1>2, <1>4, <3>1, <3>2 DEF WebInv, WebTypeOK
  <2>6. SessionsOK'
    <3>1. \A t \in sessions' : t.token \notin revoked'
      <4>1. \A k \in revoked : k <= Cardinality(issued) /\ k \in Nat
        BY DEF WebInv, TokensAreUsedOnce, WebTypeOK, Tokens
      <4>2. s.token \notin revoked
        BY <2>0, <2>1, <4>1
      <4> QED BY <1>2, <1>4, <2>4, <4>2 DEF Loaded, WebInv, SessionsOK
    <3>2. \A t \in all \ kept : Gone(t)'
      BY <2>2, <2>4, DroppedByRivals
    <3>3. \A t \in issued : Gone(t) => Gone(t)'
      <4> SUFFICES ASSUME NEW t \in issued, Gone(t) PROVE Gone(t)'
        OBVIOUS
      <4>1. /\ t \in Session /\ issued \subseteq issued' /\ revoked \subseteq revoked'
            /\ day <= day'
        BY <1>2, <1>4, WebSessionsAssumption DEF WebInv, WebTypeOK
      <4> QED BY <2>2, <2>5, <4>1, GoneForGood DEF WebInv
    <3>4. \A t \in sessions \ Loaded(r.now) : Gone(t)
      BY <1>1, ExpiredSinceThen DEF WebInv, WebTypeOK, Loaded
    <3>5. \A t \in issued' : t \in sessions' \/ Gone(t)'
      <4> SUFFICES ASSUME NEW t \in issued', t \notin kept PROVE Gone(t)'
        BY <1>4
      <4>1. CASE t \in all
        BY <4>1, <3>2
      <4>2. CASE t \notin all
        <5>1. t \in issued /\ t \notin Loaded(r.now)
          BY <4>2, <1>4
        <5>2. Gone(t)
          BY <5>1, <3>4 DEF WebInv, SessionsOK
        <5> QED BY <5>1, <5>2, <3>3
      <4> QED BY <4>1, <4>2
    <3> QED BY <1>4, <2>4, <3>1, <3>5 DEF SessionsOK
  <2>7. RequestsOK'
    BY <1>2, <1>4, AnswerKeeps
  <2>8. VerdictOK'
    BY <1>2, <1>4, <2>3, <2>5, VerdictStands, WebSessionsAssumption DEF WebInv, WebTypeOK
  <2> QED BY <2>3, <2>5, <2>6, <2>7, <2>8 DEF WebInv
<1>5. [token |-> Cardinality(issued) + 1, created |-> r.now] \in Session
  <2>1. Cardinality(issued) \in Nat /\ Cardinality(issued) < MaxTokens
    BY FS_CardinalityType DEF WebInv, TokensAreUsedOnce, CreateWebSession
  <2> QED BY <1>1, <2>1, WebSessionsAssumption DEF Session, Tokens, Days
<1> QED
  <2> DEFINE s == [token |-> Cardinality(issued) + 1, created |-> r.now]
  <2>1. CASE UNCHANGED issued /\ PersistFails
    BY <1>3, <2>1 DEF PersistFails
  <2>2. CASE /\ \E kept \in Capped(Loaded(r.now) \cup {s}) : Persist(kept)
             /\ issued' = issued \cup {s}
    BY <1>4, <1>5, <2>2 DEF Persist
  <2> QED BY <2>1, <2>2 DEF CreateWebSession

LEMMA RestartServerKeeps == ASSUME WebInv, RestartServer PROVE WebInv'
<1>1. RequestsOK'
  BY DEF RestartServer, RequestsOK, WebRequest, NoRequest
<1> QED
  BY <1>1 DEF RestartServer, WebInv, WebTypeOK, TokensAreUsedOnce, SessionsOK, VerdictOK,
              Gone, Rivals

LEMMA TimePassesKeeps == ASSUME WebInv, TimePasses PROVE WebInv'
<1>1. /\ UNCHANGED <<sessions, request, issued, revoked, validated, sessionFaults>>
      /\ day' \in 0..MaxDays /\ day <= day'
  BY WebSessionsAssumption DEF TimePasses, WebInv, WebTypeOK
<1>2. WebTypeOK' /\ TokensAreUsedOnce'
  BY <1>1 DEF WebInv, WebTypeOK, TokensAreUsedOnce
<1>3. SessionsOK'
  <2> SUFFICES ASSUME NEW s \in issued, s \notin sessions PROVE Gone(s)'
    BY <1>1 DEF WebInv, SessionsOK
  <2>1. Gone(s) /\ s \in Session
    BY DEF WebInv, SessionsOK, WebTypeOK
  <2> QED BY <1>1, <1>2, <2>1, GoneForGood DEF WebInv, TokensAreUsedOnce
<1>4. RequestsOK'
  <2>1. \A b \in Browsers : request[b].op # "idle" => request[b].now \in Days
    <3> SUFFICES ASSUME NEW b \in Browsers, request[b].op # "idle"
                 PROVE  request[b].now \in Days
      OBVIOUS
    <3>1. request[b] \in WebRequest
      BY DEF WebInv, RequestsOK
    <3> QED BY <3>1 DEF WebRequest, NoRequest
  <2>2. \A n \in Days : n <= day => n <= day'
    BY <1>1, WebSessionsAssumption DEF WebInv, WebTypeOK, Days
  <2> QED BY <1>1, <2>1, <2>2 DEF WebInv, RequestsOK
<1>5. VerdictOK'
  BY <1>1, <1>2, VerdictStands
<1> QED BY <1>2, <1>3, <1>4, <1>5 DEF WebInv

LEMMA WebStepKeeps == ASSUME WebInv, [WebNext]_webVars PROVE WebInv'
<1>1. CASE UNCHANGED webVars
  BY <1>1 DEF WebInv, WebTypeOK, TokensAreUsedOnce, RequestsOK, SessionsOK, VerdictOK, Gone,
              Rivals, webVars
<1> QED
  BY <1>1, StartsKeep, ValidateKeeps, RevokeKeeps, CreateSessionKeeps, RestartServerKeeps, TimePassesKeeps
  DEF WebNext

\* The file never holds more sessions than are kept, and the rest has its type
\* (auth_web_sessions.go).
THEOREM SessionsAreTyped == WebSpec => []WebTypeOK
<1>1. WebInv => WebTypeOK
  BY DEF WebInv
<1> QED BY <1>1, WebInitIsSound, WebStepKeeps, PTL DEF WebSpec

\* A session that was answered opens the page until it expires, is logged out
\* or MaxSessions others were created no earlier; one that has expired, or
\* whose logout was answered before the request began, never does: for any
\* number of browsers at once, failed writes and restarts
\* (createWebSession, validateWebSession, revokeWebSession).
THEOREM SessionsLastAsTheyShould == WebSpec => []SessionsLast
<1>1. WebInv => SessionsLast
  <2> SUFFICES ASSUME WebInv, "session" \in DOMAIN validated PROVE SessionsLast
    BY DEF SessionsLast
  <2>1. validated # NoVerdict
    BY DEF NoVerdict
  <2> QED BY <2>1 DEF WebInv, VerdictOK, SessionsLast, Gone, Rivals
<1> QED BY <1>1, WebInitIsSound, WebStepKeeps, PTL DEF WebSpec

----------------------------------------------------------------------------
\* The guesses of a client, in S and in all.
Of(c, S) == {g \in S : g.client = c}

Mine(c) == {g \in guesses : g.client = c}

\* The logins of a client that were let past the throttle.
Asked(c) == {h \in Logins : login[h].at = "password" /\ login[h].client = c}

\* Of those, the ones that were before the block.
Early(c) == {h \in Asked(c) : login[h].now < attempts[c].blocked}

\* Those of S in the stretch that begins at t.
During(S, t) ==
    {g \in S : g.time >= t /\ g.time < t + BlockTime - 2 * MaxDelay}

\* The failures of a client that are counted, and what came before.
IsSeries(c, series) ==
    LET s == attempts[c]  old == Mine(c) \ series IN
    /\ Cardinality(series) = s.failures
    /\ s.failures > 0 /\ s.started \in 1..time
    /\ \E g \in series : g.time = s.started
    /\ \A g \in old : g.time <= s.started + MaxDelay
    /\ \A t \in 1..MaxTime :
          s.started < t + BlockTime - MaxDelay =>
            Cardinality(During(old, t)) <= FailureLimit + Cardinality(Logins) - 3

\* A block: whoever is past the throttle is there since before it, and late by
\* less than the block lasts, or came after it.
BlockOK(c) ==
    LET s == attempts[c] IN
    /\ s.failures < FailureLimit => s.blocked = 0
    /\ s.failures >= FailureLimit =>
         /\ s.blocked > 0
         /\ \A g \in Mine(c) : g.time + BlockTime <= s.blocked + MaxDelay
         /\ \A h \in Asked(c) : \/ s.blocked <= login[h].now
                                \/ login[h].now + MaxDelay < s.blocked
         /\ s.failures + Cardinality(Early(c)) <= FailureLimit + Cardinality(Logins) - 1

\* The failures a client is remembered for are a series of its guesses, and it
\* is remembered as long as there are any.
ClientOK(c) ==
    /\ attempts[c] = NoAttempts => Mine(c) = {}
    /\ attempts[c] # NoAttempts =>
         /\ \E series \in SUBSET Mine(c) : IsSeries(c, series)
         /\ BlockOK(c)

\* No login takes longer than MaxDelay.
InTime ==
    /\ \A h \in Logins : login[h] # Waiting =>
          login[h].now <= time /\ time <= login[h].now + MaxDelay
    /\ \A g \in guesses : g.time <= time

ThrottleInv ==
    /\ ThrottleTypeOK
    /\ IsFiniteSet(guesses)
    /\ InTime
    /\ \A c \in Clients : ClientOK(c)
    /\ GuessesAreLimited

----------------------------------------------------------------------------
LEMMA LoginsAreSome == Cardinality(Logins) \in Nat \ {0}
  BY ThrottleAssumption, FS_CardinalityType, FS_EmptySet

\* A login in progress.
LEMMA LoginType ==
  ASSUME ThrottleInv, NEW h \in Logins, login[h].at # "waiting"
  PROVE  /\ login[h] # Waiting
         /\ login[h].client \in Clients
         /\ login[h].now \in 1..MaxTime
         /\ login[h].now <= time /\ time <= login[h].now + MaxDelay
         /\ time \in 1..MaxTime
<1>1. login[h] # Waiting
  BY DEF Waiting
<1>2. login[h] \in [at : {"throttle", "password"}, client : Clients, now : 1..MaxTime]
  BY <1>1 DEF ThrottleInv, ThrottleTypeOK
<1> QED BY <1>1, <1>2 DEF ThrottleInv, ThrottleTypeOK, InTime

\* There is a number for the next guess.
LEMMA NumbersAreLeft ==
  ASSUME IsFiniteSet(guesses), guesses \subseteq Guess,
         Cardinality(guesses) < MaxGuesses
  PROVE  \E n \in 0..(MaxGuesses - 1) : \A g \in guesses : g.nth # n
<1> DEFINE U == {g.nth : g \in guesses}
           f == [g \in guesses |-> g.nth]
<1>1. f \in Surjection(guesses, U)
  BY DEF Surjection
<1>2. IsFiniteSet(U) /\ Cardinality(U) <= Cardinality(guesses)
  <2> HIDE DEF f, U
  <2> QED BY <1>1, FS_Surjection
<1>3. /\ IsFiniteSet(0..(MaxGuesses - 1))
      /\ Cardinality(0..(MaxGuesses - 1)) = MaxGuesses
  <2>1. MaxGuesses \in Nat /\ MaxGuesses # 0
    <3>1. Cardinality(guesses) \in Nat
      BY FS_CardinalityType
    <3> QED BY <3>1, ThrottleAssumption
  <2>2. 0 \in Int /\ MaxGuesses - 1 \in Int /\ ~(0 > MaxGuesses - 1)
    BY <2>1
  <2> QED BY <2>1, <2>2, FS_Interval
<1>4. SUFFICES ASSUME 0..(MaxGuesses - 1) \subseteq U PROVE FALSE
  OBVIOUS
<1>5. Cardinality(0..(MaxGuesses - 1)) <= Cardinality(U)
  <2> HIDE DEF U
  <2> QED BY <1>2, <1>4, FS_Subset
<1>6. Cardinality(U) \in Nat /\ Cardinality(guesses) \in Nat
  <2> HIDE DEF U
  <2> QED BY <1>2, FS_CardinalityType
<1> HIDE DEF U
<1> QED BY <1>2, <1>3, <1>5, <1>6, ThrottleAssumption

\* What happens to others does not concern a client.
LEMMA ClientKeeps ==
  ASSUME ThrottleInv, NEW d \in Clients,
         attempts'[d] = attempts[d], Mine(d)' = Mine(d),
         time' \in 1..MaxTime, time <= time',
         Early(d)' \subseteq Early(d),
         \A h \in Asked(d)' : \/ attempts[d].blocked <= login'[h].now
                              \/ h \in Asked(d) /\ login'[h].now = login[h].now
  PROVE  ClientOK(d)'
<1>1. CASE attempts[d] = NoAttempts
  BY <1>1 DEF ThrottleInv, ClientOK
<1>2. CASE attempts[d] # NoAttempts
  <2>1. PICK series \in SUBSET Mine(d) : IsSeries(d, series)
    BY <1>2 DEF ThrottleInv, ClientOK
  <2>2. IsSeries(d, series)'
    <3>1. attempts[d].started \in 1..time'
      BY <2>1 DEF IsSeries, ThrottleInv, ThrottleTypeOK
    <3>2. During(Mine(d) \ series, 0)' = During(Mine(d) \ series, 0)
      BY DEF During
    <3> QED BY <2>1, <3>1 DEF IsSeries, During
  <2>3. BlockOK(d)'
    <3>1. BlockOK(d)
      BY <1>2 DEF ThrottleInv, ClientOK
    <3>2. Cardinality(Early(d)') <= Cardinality(Early(d))
          /\ Cardinality(Early(d)) \in Nat /\ Cardinality(Early(d)') \in Nat
      <4>1. IsFiniteSet(Early(d))
        <5>1. Early(d) \subseteq Logins
          BY DEF Early, Asked
        <5> QED BY <5>1, ThrottleAssumption, FS_Subset
      <4> QED BY <4>1, FS_Subset, FS_CardinalityType
    <3>3. attempts[d].failures \in Nat /\ attempts[d].blocked \in Nat
      BY ThrottleAssumption DEF ThrottleInv, ThrottleTypeOK
    <3>4. ASSUME attempts[d].failures >= FailureLimit
          PROVE  attempts[d].failures + Cardinality(Early(d)')
                   <= FailureLimit + Cardinality(Logins) - 1
      <4>1. attempts[d].failures + Cardinality(Early(d))
                   <= FailureLimit + Cardinality(Logins) - 1
        BY <3>1, <3>4 DEF BlockOK
      <4> QED BY <4>1, <3>2, <3>3, LoginsAreSome, ThrottleAssumption
    <3> QED BY <3>1, <3>4 DEF BlockOK
  <2>4. series \in SUBSET Mine(d)'
    BY <2>1
  <2> QED BY <1>2, <2>2, <2>3, <2>4 DEF ClientOK
<1> QED BY <1>1, <1>2

Limited(S) == \A t \in 1..MaxTime :
    Cardinality(During(S, t)) <= 2 * (FailureLimit + Cardinality(Logins) - 2)

LEMMA LimitedMeans == GuessesAreLimited <=> \A c \in Clients : Limited(Mine(c))
<1>1. ASSUME NEW c \in Clients, NEW t \in 1..MaxTime
      PROVE  {g \in Stretch(t) : g.client = c} = During(Mine(c), t)
  BY DEF Stretch, During, Mine
<1> QED BY <1>1 DEF GuessesAreLimited, Limited

LEMMA FewerAreLimited ==
  ASSUME NEW S, IsFiniteSet(S), Limited(S), NEW T \in SUBSET S
  PROVE  Limited(T)
<1> SUFFICES ASSUME NEW t \in 1..MaxTime
             PROVE  Cardinality(During(T, t)) <= 2 * (FailureLimit + Cardinality(Logins) - 2)
  BY DEF Limited
<1>1. During(T, t) \subseteq During(S, t) /\ During(S, t) \subseteq S
  BY DEF During
<1>2. IsFiniteSet(During(S, t))
  BY <1>1, FS_Subset
<1>3. Cardinality(During(T, t)) <= Cardinality(During(S, t))
      /\ Cardinality(During(S, t)) \in Nat /\ Cardinality(During(T, t)) \in Nat
  BY <1>1, <1>2, FS_Subset, FS_CardinalityType
<1>4. Cardinality(During(S, t)) <= 2 * (FailureLimit + Cardinality(Logins) - 2)
  BY DEF Limited
<1> QED BY <1>3, <1>4, LoginsAreSome, ThrottleAssumption

\* A series and what falls in a stretch with it.
LEMMA TwoSeries ==
  ASSUME NEW S, IsFiniteSet(S), NEW series \in SUBSET S, NEW t,
         Cardinality(During(S \ series, t)) <= FailureLimit + Cardinality(Logins) - 3,
         Cardinality(series) <= FailureLimit + Cardinality(Logins) - 1
  PROVE  Cardinality(During(S, t)) <= 2 * (FailureLimit + Cardinality(Logins) - 2)
<1> DEFINE A == During(S \ series, t)
<1>1. During(S, t) \subseteq A \cup series /\ A \subseteq S
  BY DEF During
<1>2. IsFiniteSet(A) /\ IsFiniteSet(series)
  BY <1>1, FS_Subset
<1>3. Cardinality(A) \in Nat /\ Cardinality(series) \in Nat
      /\ Cardinality(A) <= FailureLimit + Cardinality(Logins) - 3
  BY <1>2, FS_CardinalityType
<1> HIDE DEF A
<1>4. IsFiniteSet(A \cup series) /\ IsFiniteSet(A \cap series)
      /\ Cardinality(A \cup series)
           = Cardinality(A) + Cardinality(series) - Cardinality(A \cap series)
  BY <1>2, FS_Union, FS_Intersection
<1>5. Cardinality(A \cap series) \in Nat
  BY <1>4, FS_CardinalityType
<1>6. IsFiniteSet(During(S, t)) /\ Cardinality(During(S, t)) <= Cardinality(A \cup series)
  BY <1>1, <1>4, FS_Subset
<1>7. Cardinality(During(S, t)) \in Nat
  BY <1>6, FS_CardinalityType
<1> QED BY <1>3, <1>4, <1>5, <1>6, <1>7, LoginsAreSome, ThrottleAssumption

\* A failure that begins a series.
LEMMA NewSeries ==
  ASSUME ThrottleInv, NEW c \in Clients, NEW y \in 1..MaxTime, y <= time,
         time <= y + MaxDelay, UNCHANGED time,
         NEW old \in SUBSET Mine(c), NEW new, new.time = y, new \notin old,
         Mine(c)' = old \cup {new},
         attempts'[c] = [failures |-> 1, started |-> y, last |-> y, blocked |-> 0],
         \A t \in 1..MaxTime : y < t + BlockTime - MaxDelay =>
            Cardinality(During(old, t)) <= FailureLimit + Cardinality(Logins) - 3
  PROVE  ClientOK(c)' /\ Limited(Mine(c)')
<1>0. MaxDelay \in Nat /\ BlockTime \in Nat /\ MaxTime \in Nat /\ time \in 1..MaxTime
      /\ FailureLimit \in Nat \ {0, 1}
  BY ThrottleAssumption DEF ThrottleInv, ThrottleTypeOK
<1>1. Cardinality({new}) = 1
  BY FS_Singleton
<1>2. (Mine(c)') \ {new} = old
  OBVIOUS
<1>3. \A g \in old : g.time <= y + MaxDelay
  <2> SUFFICES ASSUME NEW g \in old PROVE g.time <= y + MaxDelay
    OBVIOUS
  <2>1. g.time <= time /\ g.time \in 1..MaxTime
    BY DEF ThrottleInv, InTime, Mine, ThrottleTypeOK, Guess
  <2> QED BY <2>1, <1>0
<1>4. IsSeries(c, {new})'
  <2>1. y \in 1..time'
    BY <1>0
  <2>2. During((Mine(c) \ {new})', 0) = During(old, 0)
    BY <1>2
  <2> QED BY <1>1, <1>2, <1>3, <2>1 DEF IsSeries, During
<1>5. BlockOK(c)'
  BY <1>0 DEF BlockOK
<1>6. ClientOK(c)'
  <2>1. attempts'[c] # NoAttempts
    BY DEF NoAttempts
  <2>2. {new} \in SUBSET Mine(c)'
    OBVIOUS
  <2> QED BY <1>4, <1>5, <2>1, <2>2 DEF ClientOK
<1>7. Limited(Mine(c)')
  <2>1. IsFiniteSet(old) /\ IsFiniteSet(old \cup {new}) /\ Limited(Mine(c))
        /\ IsFiniteSet(Mine(c))
    <3>1. IsFiniteSet(Mine(c)) /\ Limited(Mine(c))
      BY FS_Subset, LimitedMeans DEF ThrottleInv, Mine
    <3>2. IsFiniteSet(old)
      BY <3>1, FS_Subset
    <3> QED BY <3>1, <3>2, FS_AddElement
  <2> SUFFICES ASSUME NEW t \in 1..MaxTime
               PROVE  Cardinality(During(old \cup {new}, t))
                        <= 2 * (FailureLimit + Cardinality(Logins) - 2)
    BY DEF Limited
  <2>2. CASE y < t + BlockTime - 2 * MaxDelay
    <3>1. y < t + BlockTime - MaxDelay
      BY <1>0, <2>2
    <3>2. Cardinality(During((old \cup {new}) \ {new}, t))
            <= FailureLimit + Cardinality(Logins) - 3
      <4>1. (old \cup {new}) \ {new} = old
        OBVIOUS
      <4> QED BY <3>1, <4>1
    <3>3. Cardinality({new}) <= FailureLimit + Cardinality(Logins) - 1
      BY <1>0, <1>1, LoginsAreSome
    <3> QED BY <2>1, <3>2, <3>3, TwoSeries
  <2>3. CASE ~(y < t + BlockTime - 2 * MaxDelay)
    <3>1. During(old \cup {new}, t) = During(old, t)
      BY <2>3 DEF During
    <3>2. Limited(old)
      BY <2>1, FewerAreLimited
    <3> QED BY <3>1, <3>2 DEF Limited
  <2> QED BY <2>2, <2>3
<1> QED BY <1>6, <1>7

\* A failure that is counted to the series it falls in.
LEMMA SameSeries ==
  ASSUME ThrottleInv, NEW c \in Clients, NEW h \in Asked(c),
         NEW y \in 1..MaxTime, y = login[h].now, y <= time, time <= y + MaxDelay,
         UNCHANGED time, attempts[c] # NoAttempts,
         attempts[c].blocked = 0 \/ y < attempts[c].blocked,
         NEW new, new.time = y, new \notin Mine(c), Mine(c)' = Mine(c) \cup {new},
         NEW n, n = attempts[c].failures + 1,
         attempts'[c] = [failures |-> n, started |-> attempts[c].started, last |-> y,
                         blocked |-> IF n >= FailureLimit THEN y + BlockTime
                                     ELSE attempts[c].blocked],
         Asked(c)' = Asked(c) \ {h}, \A k \in Asked(c)' : login'[k] = login[k]
  PROVE  ClientOK(c)' /\ Limited(Mine(c)')
<1> DEFINE s == attempts[c]
<1>0. /\ MaxDelay \in Nat /\ BlockTime \in Nat /\ MaxTime \in Nat /\ time \in 1..MaxTime
      /\ FailureLimit \in Nat \ {0, 1} /\ 2 * MaxDelay < BlockTime
      /\ s.failures \in Nat /\ s.blocked \in Nat /\ s.started \in Nat
  BY ThrottleAssumption DEF ThrottleInv, ThrottleTypeOK
<1>1. PICK series \in SUBSET Mine(c) : IsSeries(c, series)
  BY DEF ThrottleInv, ClientOK
<1>2. BlockOK(c)
  BY DEF ThrottleInv, ClientOK
<1> DEFINE counted == series \cup {new}
<1>3. IsFiniteSet(Mine(c)) /\ IsFiniteSet(series) /\ Limited(Mine(c))
      /\ IsFiniteSet(Mine(c) \cup {new})
  <2>1. IsFiniteSet(Mine(c)) /\ Limited(Mine(c))
    BY FS_Subset, LimitedMeans DEF ThrottleInv, Mine
  <2> QED BY <2>1, <1>1, FS_Subset, FS_AddElement
<1>4. Cardinality(counted) = n
  BY <1>1, <1>3, FS_AddElement DEF IsSeries
<1>5. (Mine(c) \cup {new}) \ counted = Mine(c) \ series
  BY <1>1
<1>6. IsSeries(c, counted)'
  <2>1. n > 0 /\ \E g \in counted : g.time = s.started
    BY <1>0, <1>1 DEF IsSeries
  <2> HIDE DEF counted
  <2>2. (Mine(c)') \ counted = Mine(c) \ series
    BY <1>5
  <2>3. s.started \in 1..time'
    BY <1>1 DEF IsSeries
  <2> QED BY <1>1, <1>4, <2>1, <2>2, <2>3 DEF IsSeries, During
<1>7. \A k \in Asked(c) : login[k].now \in 1..MaxTime /\ login[k].now <= time
  BY LoginType DEF Asked
<1>8. /\ IsFiniteSet(Asked(c)) /\ Cardinality(Asked(c)) \in Nat
      /\ Cardinality(Asked(c)) <= Cardinality(Logins)
      /\ Cardinality(Asked(c) \ {h}) = Cardinality(Asked(c)) - 1
  <2>1. Asked(c) \subseteq Logins
    BY DEF Asked
  <2>2. IsFiniteSet(Asked(c)) /\ Cardinality(Asked(c)) <= Cardinality(Logins)
    BY <2>1, ThrottleAssumption, FS_Subset
  <2> QED BY <2>2, FS_CardinalityType, FS_RemoveElement
<1>9. n >= FailureLimit =>
        n + Cardinality(Asked(c)) <= FailureLimit + Cardinality(Logins)
  <2>1. CASE n <= FailureLimit
    BY <1>0, <1>8, <2>1, LoginsAreSome
  <2>2. CASE n > FailureLimit
    <3>1. s.failures >= FailureLimit
      BY <1>0, <2>2
    <3>2. s.failures + Cardinality(Early(c)) <= FailureLimit + Cardinality(Logins) - 1
          /\ s.blocked > 0
      BY <1>2, <3>1 DEF BlockOK
    <3>3. y + MaxDelay < s.blocked
      BY <1>0, <1>2, <3>1, <3>2 DEF BlockOK
    <3>4. Early(c) = Asked(c)
      <4> SUFFICES ASSUME NEW k \in Asked(c) PROVE login[k].now < s.blocked
        BY DEF Early
      <4> QED BY <1>0, <1>7, <3>3
    <3> QED BY <1>0, <1>8, <3>2, <3>4, LoginsAreSome
  <2> QED BY <1>0, <2>1, <2>2
<1>10. BlockOK(c)'
  <2>1. CASE n < FailureLimit
    <3>1. s.failures < FailureLimit
      BY <1>0, <2>1
    <3>2. s.blocked = 0
      BY <1>2, <3>1 DEF BlockOK
    <3> QED BY <1>0, <2>1, <3>2 DEF BlockOK
  <2>2. CASE n >= FailureLimit
    <3>1. attempts'[c].blocked = y + BlockTime /\ attempts'[c].failures = n
      BY <2>2
    <3>2. \A g \in Mine(c)' : g.time + BlockTime <= y + BlockTime + MaxDelay
      <4> SUFFICES ASSUME NEW g \in Mine(c) \cup {new}
                   PROVE  g.time + BlockTime <= y + BlockTime + MaxDelay
        OBVIOUS
      <4>1. CASE g \in Mine(c)
        <5>1. g.time <= time /\ g.time \in 1..MaxTime
          BY <4>1 DEF ThrottleInv, InTime, Mine, ThrottleTypeOK, Guess
        <5> QED BY <5>1, <1>0
      <4>2. CASE g = new
        BY <4>2, <1>0
      <4> QED BY <4>1, <4>2
    <3>3. \A k \in Asked(c)' : login'[k].now + MaxDelay < y + BlockTime
      <4> SUFFICES ASSUME NEW k \in Asked(c)'
                   PROVE  login'[k].now + MaxDelay < y + BlockTime
        OBVIOUS
      <4>1. k \in Asked(c) /\ login'[k] = login[k]
        OBVIOUS
      <4> QED BY <4>1, <1>0, <1>7
    <3>4. Early(c)' \subseteq Asked(c)'
      BY DEF Early
    <3>5. Cardinality(Early(c)') \in Nat
          /\ Cardinality(Early(c)') <= Cardinality(Asked(c)) - 1
      <4>1. IsFiniteSet(Asked(c)')
        BY <1>8, FS_Subset
      <4>2. IsFiniteSet(Early(c)') /\ Cardinality(Early(c)') <= Cardinality(Asked(c)')
        BY <3>4, <4>1, FS_Subset
      <4> QED BY <1>8, <4>2, FS_CardinalityType
    <3>6. n + Cardinality(Early(c)') <= FailureLimit + Cardinality(Logins) - 1
      BY <1>0, <1>8, <1>9, <2>2, <3>5, LoginsAreSome
    <3>7. y + BlockTime > 0
      BY <1>0
    <3>8. ~(n < FailureLimit)
      BY <1>0, <2>2
    <3> QED BY <3>1, <3>2, <3>3, <3>6, <3>7, <3>8 DEF BlockOK
  <2> QED BY <1>0, <2>1, <2>2
<1>11. ClientOK(c)'
  <2>1. attempts'[c].failures # 0
    BY <1>0
  <2>2. attempts'[c] # NoAttempts
    BY <2>1 DEF NoAttempts
  <2>3. counted \in SUBSET Mine(c)'
    BY <1>1
  <2> HIDE DEF counted
  <2> QED BY <1>6, <1>10, <2>2, <2>3 DEF ClientOK
<1>12. n <= FailureLimit + Cardinality(Logins) - 1
  <2>1. CASE n < FailureLimit
    BY <1>0, <2>1, LoginsAreSome
  <2>2. CASE n >= FailureLimit
    <3>1. Cardinality(Asked(c)) > 0
      <4>1. Cardinality(Asked(c)) # 0
        BY <1>8, FS_EmptySet
      <4> QED BY <4>1, <1>8
    <3> QED BY <1>0, <1>8, <1>9, <2>2, <3>1, LoginsAreSome
  <2> QED BY <1>0, <2>1, <2>2
<1>13. Limited(Mine(c)')
  <2> SUFFICES ASSUME NEW t \in 1..MaxTime
               PROVE  Cardinality(During(Mine(c) \cup {new}, t))
                        <= 2 * (FailureLimit + Cardinality(Logins) - 2)
    BY DEF Limited
  <2>1. CASE y < t + BlockTime - 2 * MaxDelay
    <3>1. s.started < t + BlockTime - MaxDelay
      <4>1. s.started <= time
        BY <1>1, <1>0 DEF IsSeries
      <4> QED BY <1>0, <2>1, <4>1
    <3>2. Cardinality(During((Mine(c) \cup {new}) \ counted, t))
            <= FailureLimit + Cardinality(Logins) - 3
      BY <1>1, <1>5, <3>1 DEF IsSeries
    <3>3. Cardinality(counted) <= FailureLimit + Cardinality(Logins) - 1
          /\ counted \in SUBSET (Mine(c) \cup {new})
      BY <1>1, <1>4, <1>12
    <3> HIDE DEF counted
    <3> QED BY <1>3, <3>2, <3>3, TwoSeries
  <2>2. CASE ~(y < t + BlockTime - 2 * MaxDelay)
    <3>1. During(Mine(c) \cup {new}, t) = During(Mine(c), t)
      BY <2>2 DEF During
    <3> QED BY <1>3, <3>1 DEF Limited
  <2> QED BY <2>1, <2>2
<1> QED BY <1>11, <1>13

\* What is left of a series when a failure does not fall in it any more.
LEMMA SeriesIsOver ==
  ASSUME ThrottleInv, NEW c \in Clients, NEW h \in Asked(c), NEW y, y = login[h].now,
         attempts[c] # NoAttempts,
         \/ y >= attempts[c].started + FailureWindow
         \/ attempts[c].blocked # 0 /\ y >= attempts[c].blocked,
         NEW t \in 1..MaxTime, y < t + BlockTime - MaxDelay
  PROVE  Cardinality(During(Mine(c), t)) <= FailureLimit + Cardinality(Logins) - 3
<1> DEFINE s == attempts[c]
<1>0. /\ MaxDelay \in Nat /\ BlockTime \in Nat /\ MaxTime \in Nat /\ time \in 1..MaxTime
      /\ FailureLimit \in Nat \ {0, 1} /\ 2 * MaxDelay < BlockTime
      /\ FailureWindow \in Nat /\ BlockTime <= FailureWindow
      /\ s.failures \in Nat /\ s.blocked \in Nat /\ s.started \in Nat
      /\ Cardinality(Logins) \in Nat \ {0}
  BY ThrottleAssumption, LoginsAreSome DEF ThrottleInv, ThrottleTypeOK
<1>1. PICK series \in SUBSET Mine(c) : IsSeries(c, series)
  BY DEF ThrottleInv, ClientOK
<1>2. BlockOK(c)
  BY DEF ThrottleInv, ClientOK
<1>3. y \in 1..MaxTime
  BY LoginType DEF Asked
<1>4. \A g \in Mine(c) : g.time \in Nat
  BY <1>0 DEF Mine, ThrottleInv, ThrottleTypeOK, Guess
<1>5. CASE s.blocked # 0 /\ y >= s.blocked
  <2>1. s.failures >= FailureLimit
    BY <1>0, <1>2, <1>5 DEF BlockOK
  <2>2. \A g \in Mine(c) : g.time + BlockTime <= s.blocked + MaxDelay
    BY <1>2, <2>1 DEF BlockOK
  <2>3. \A g \in Mine(c) : ~(g.time >= t)
    <3> SUFFICES ASSUME NEW g \in Mine(c) PROVE ~(g.time >= t)
      OBVIOUS
    <3>1. g.time + BlockTime <= s.blocked + MaxDelay /\ g.time \in Nat
      BY <1>4, <2>2
    <3> QED BY <1>0, <1>3, <1>5, <3>1
  <2>4. During(Mine(c), t) = {}
    BY <2>3 DEF During
  <2> QED BY <1>0, <2>4, FS_EmptySet
<1>6. CASE y >= s.started + FailureWindow /\ ~(s.blocked # 0 /\ y >= s.blocked)
  <2>1. PICK first \in series : first.time = s.started
    BY <1>1 DEF IsSeries
  <2>2. s.started + MaxDelay < t
    BY <1>0, <1>3, <1>6
  <2>3. During(Mine(c), t) \subseteq series \ {first}
    <3> SUFFICES ASSUME NEW g \in Mine(c), g.time >= t PROVE g \in series \ {first}
      BY DEF During
    <3>1. g \in series
      <4> SUFFICES ASSUME g \in Mine(c) \ series PROVE FALSE
        OBVIOUS
      <4>1. g.time <= s.started + MaxDelay
        BY <1>1 DEF IsSeries
      <4> QED BY <1>0, <1>4, <2>2, <4>1
    <3>2. g # first
      BY <1>0, <2>1, <2>2
    <3> QED BY <3>1, <3>2
  <2>4. IsFiniteSet(series) /\ Cardinality(series) = s.failures
    <3>1. IsFiniteSet(Mine(c))
      BY FS_Subset DEF ThrottleInv, Mine
    <3> QED BY <1>1, <3>1, FS_Subset DEF IsSeries
  <2>5. IsFiniteSet(series \ {first}) /\ Cardinality(series \ {first}) = s.failures - 1
    BY <2>1, <2>4, FS_RemoveElement
  <2>6. Cardinality(During(Mine(c), t)) <= s.failures - 1
        /\ Cardinality(During(Mine(c), t)) \in Nat
    BY <2>3, <2>5, FS_Subset, FS_CardinalityType
  <2>7. s.failures <= FailureLimit + Cardinality(Logins) - 2
    <3>1. CASE s.failures < FailureLimit
      BY <1>0, <3>1
    <3>2. CASE s.failures >= FailureLimit
      <4>1. s.blocked > 0
            /\ s.failures + Cardinality(Early(c)) <= FailureLimit + Cardinality(Logins) - 1
        BY <1>2, <3>2 DEF BlockOK
      <4>2. y < s.blocked
        BY <1>0, <1>3, <1>6, <4>1
      <4>3. h \in Early(c)
        BY <4>2 DEF Early
      <4>4. Cardinality(Early(c)) \in Nat /\ Cardinality(Early(c)) # 0
        <5>1. Early(c) \subseteq Logins
          BY DEF Early, Asked
        <5>2. IsFiniteSet(Early(c))
          BY <5>1, ThrottleAssumption, FS_Subset
        <5> QED BY <4>3, <5>2, FS_CardinalityType, FS_EmptySet
      <4> QED BY <1>0, <4>1, <4>4
    <3> QED BY <1>0, <3>1, <3>2
  <2> QED BY <1>0, <2>6, <2>7
<1> QED BY <1>5, <1>6

\* Pruning forgets a client, with its guesses, or leaves both alone.
LEMMA PruningForgets ==
  ASSUME ThrottleInv, NEW now, NEW a \in Pruned(now)
  PROVE  /\ a \in [Clients -> [failures : 0..MaxGuesses, started : 0..MaxTime,
                               blocked : 0..(MaxTime + BlockTime), last : 0..MaxTime]]
         /\ \A d \in Clients :
               \/ a[d] = attempts[d] /\ Of(d, Forget(a)) = Mine(d)
               \/ a[d] = NoAttempts /\ Of(d, Forget(a)) = {}
         /\ Forget(a) \subseteq guesses
<1>1. /\ a \in [Clients -> {NoAttempts} \cup
                           {attempts[d] : d \in Clients}]
      /\ \A d \in Clients : a[d] = attempts[d] \/ a[d] = NoAttempts
  BY DEF Pruned
<1>2. NoAttempts \in [failures : 0..MaxGuesses, started : 0..MaxTime,
                      blocked : 0..(MaxTime + BlockTime), last : 0..MaxTime]
  BY ThrottleAssumption DEF NoAttempts
<1>3. a \in [Clients -> [failures : 0..MaxGuesses, started : 0..MaxTime,
                         blocked : 0..(MaxTime + BlockTime), last : 0..MaxTime]]
  BY <1>1, <1>2 DEF ThrottleInv, ThrottleTypeOK
<1>4. ASSUME NEW d \in Clients
      PROVE  \/ a[d] = attempts[d] /\ Of(d, Forget(a)) = Mine(d)
             \/ a[d] = NoAttempts /\ Of(d, Forget(a)) = {}
  <2>1. CASE a[d] = attempts[d]
    BY <2>1 DEF Of, Forget, Mine
  <2>2. CASE a[d] = NoAttempts /\ attempts[d] # NoAttempts
    BY <2>2 DEF Of, Forget
  <2> QED BY <1>1, <2>1, <2>2
<1> QED BY <1>3, <1>4 DEF Forget

LEMMA LimitedThen == GuessesAreLimited' <=> \A c \in Clients : Limited(Mine(c)')
<1>1. ASSUME NEW c \in Clients, NEW t \in 1..MaxTime
      PROVE  {g \in Stretch(t) : g.client = c}' = During(Mine(c)', t)
  BY DEF Stretch, During, Mine
<1> QED BY <1>1 DEF GuessesAreLimited, Limited

LEMMA ClientForgotten ==
  ASSUME NEW d \in Clients, attempts'[d] = NoAttempts, Mine(d)' = {}
  PROVE  ClientOK(d)' /\ Limited(Mine(d)')
<1>1. \A t \in 1..MaxTime : During({}, t) = {}
  BY DEF During
<1>2. 0 <= 2 * (FailureLimit + Cardinality(Logins) - 2)
  BY LoginsAreSome, ThrottleAssumption
<1> QED BY <1>1, <1>2, FS_EmptySet DEF ClientOK, Limited

LEMMA ClientStays ==
  ASSUME ThrottleInv, NEW d \in Clients,
         attempts'[d] = attempts[d], Mine(d)' = Mine(d),
         time' \in 1..MaxTime, time <= time',
         \A h \in Asked(d)' : \/ attempts[d].blocked <= login'[h].now
                              \/ h \in Asked(d) /\ login'[h].now = login[h].now,
         \A h \in Asked(d)' : login'[h].now \in Nat
  PROVE  ClientOK(d)' /\ Limited(Mine(d)')
<1>1. Early(d)' \subseteq Early(d)
  <2>1. attempts[d].blocked \in Nat
    BY ThrottleAssumption DEF ThrottleInv, ThrottleTypeOK
  <2> SUFFICES ASSUME NEW h \in Asked(d)', login'[h].now < attempts[d].blocked
               PROVE  h \in Early(d)
    BY DEF Early
  <2>2. ~(attempts[d].blocked <= login'[h].now)
    BY <2>1
  <2> QED BY <2>2 DEF Early
<1>2. ClientOK(d)'
  BY <1>1, ClientKeeps
<1>3. Limited(Mine(d))
  BY LimitedMeans DEF ThrottleInv
<1> QED BY <1>2, <1>3

LEMMA StartLoginKeeps ==
  ASSUME ThrottleInv, NEW h \in Logins, NEW c \in Clients, StartLogin(h, c)
  PROVE  ThrottleInv'
<1> DEFINE l == [at |-> "throttle", client |-> c, now |-> time]
<1>1. /\ login' = [login EXCEPT ![h] = l] /\ login[h] = Waiting
      /\ UNCHANGED <<time, attempts, guesses>>
  BY DEF StartLogin
<1>2. time \in 1..MaxTime /\ MaxDelay \in Nat /\ MaxTime \in Nat
  BY ThrottleAssumption DEF ThrottleInv, ThrottleTypeOK
<1>3. ThrottleTypeOK'
  BY <1>1, <1>2 DEF ThrottleInv, ThrottleTypeOK
<1>4. login'[h] = l /\ \A k \in Logins \ {h} : login'[k] = login[k]
  BY <1>1 DEF ThrottleInv, ThrottleTypeOK
<1>5. InTime'
  <2>1. l.now <= time /\ time <= l.now + MaxDelay
    BY <1>2
  <2> HIDE DEF l
  <2> QED BY <1>1, <1>4, <2>1 DEF ThrottleInv, InTime
<1>6. ASSUME NEW d \in Clients PROVE ClientOK(d)' /\ Limited(Mine(d)')
  <2>1. Asked(d)' \subseteq Asked(d) \ {h}
    BY <1>4 DEF Asked
  <2>2. \A k \in Asked(d)' : k \in Asked(d) /\ login'[k] = login[k]
    BY <1>4, <2>1 DEF Asked
  <2>3. \A k \in Asked(d)' : login'[k].now \in Nat
    BY <1>2, <2>2, LoginType DEF Asked
  <2>4. Mine(d)' = Mine(d) /\ attempts'[d] = attempts[d] /\ time' = time /\ time <= time
    BY <1>1, <1>2 DEF Mine
  <2> QED BY <1>2, <2>2, <2>3, <2>4, ClientStays
<1> QED BY <1>1, <1>3, <1>5, <1>6, LimitedThen DEF ThrottleInv

LEMMA LoginRetryAfterKeeps ==
  ASSUME ThrottleInv, NEW h \in Logins, LoginRetryAfter(h)
  PROVE  ThrottleInv'
<1> DEFINE l == login[h]
<1>1. /\ l.at = "throttle" /\ attempts' \in Pruned(l.now)
      /\ guesses' = Forget(attempts') /\ time' = time
      /\ login' = [login EXCEPT ![h] =
                     IF l.now < attempts'[l.client].blocked
                       THEN Waiting ELSE [l EXCEPT !.at = "password"]]
  BY DEF LoginRetryAfter
<1>2. /\ l.client \in Clients /\ l.now \in 1..MaxTime /\ time \in 1..MaxTime
      /\ l.now <= time /\ time <= l.now + MaxDelay /\ l # Waiting /\ MaxTime \in Nat
  BY <1>1, LoginType, ThrottleAssumption
<1>3. l \in [at : {"throttle", "password"}, client : Clients, now : 1..MaxTime]
  BY <1>2 DEF ThrottleInv, ThrottleTypeOK
<1> DEFINE p == [l EXCEPT !.at = "password"]
<1>4. /\ p \in [at : {"throttle", "password"}, client : Clients, now : 1..MaxTime]
      /\ p.at = "password" /\ p.client = l.client /\ p.now = l.now
  BY <1>3
<1>5. PICK c, y : c = l.client /\ y = l.now
  OBVIOUS
<1>6. \/ login'[h] = Waiting
      \/ login'[h] = p /\ ~(y < attempts'[c].blocked)
  BY <1>1, <1>5 DEF ThrottleInv, ThrottleTypeOK
<1>7. \A k \in Logins \ {h} : login'[k] = login[k]
  BY <1>1 DEF ThrottleInv, ThrottleTypeOK
<1>8. login' \in [Logins -> {Waiting} \cup [at : {"throttle", "password"},
                                           client : Clients, now : 1..MaxTime]]
  BY <1>1, <1>4 DEF ThrottleInv, ThrottleTypeOK
<1> HIDE DEF p
<1>9. /\ attempts' \in [Clients -> [failures : 0..MaxGuesses, started : 0..MaxTime,
                               blocked : 0..(MaxTime + BlockTime), last : 0..MaxTime]]
      /\ \A d \in Clients :
               \/ attempts'[d] = attempts[d] /\ Mine(d)' = Mine(d)
               \/ attempts'[d] = NoAttempts /\ Mine(d)' = {}
      /\ guesses' \subseteq guesses
  <2>1. PICK a : a = attempts' /\ a \in Pruned(l.now)
    BY <1>1
  <2>2. \A d \in Clients : Mine(d)' = Of(d, Forget(a))
    BY <1>1, <2>1 DEF Mine, Of
  <2> HIDE DEF l
  <2> QED BY <1>1, <2>1, <2>2, PruningForgets
<1>10. ThrottleTypeOK'
  BY <1>1, <1>8, <1>9 DEF ThrottleInv, ThrottleTypeOK
<1>11. InTime'
  <2>1. \A k \in Logins : login'[k] # Waiting =>
          login'[k].now <= time /\ time <= login'[k].now + MaxDelay
    BY <1>2, <1>4, <1>6, <1>7 DEF ThrottleInv, InTime
  <2> QED BY <1>1, <1>9, <2>1 DEF ThrottleInv, InTime
<1>12. ASSUME NEW d \in Clients PROVE ClientOK(d)' /\ Limited(Mine(d)')
  <2>1. CASE attempts'[d] = NoAttempts /\ Mine(d)' = {}
    BY <2>1, ClientForgotten
  <2>2. CASE attempts'[d] = attempts[d] /\ Mine(d)' = Mine(d)
    <3>1. \A k \in Asked(d)' : \/ k = h /\ d = c /\ login'[h] = p
                               \/ k \in Asked(d) /\ login'[k] = login[k]
      BY <1>4, <1>5, <1>6, <1>7 DEF Asked, Waiting
    <3>2. attempts[d].blocked \in Nat /\ y \in Nat
      BY <1>2, <1>5, ThrottleAssumption DEF ThrottleInv, ThrottleTypeOK
    <3>3. \A k \in Asked(d)' : \/ attempts[d].blocked <= login'[k].now
                               \/ k \in Asked(d) /\ login'[k].now = login[k].now
      <4> SUFFICES ASSUME login'[h] = p, d = c, h \in Asked(d)'
                   PROVE  attempts[d].blocked <= login'[h].now
        BY <3>1
      <4>1. login'[h].now = y /\ ~(y < attempts[d].blocked)
        BY <1>4, <1>5, <1>6, <2>2 DEF Asked, Waiting
      <4> QED BY <3>2, <4>1
    <3>4. \A k \in Asked(d)' : login'[k].now \in Nat
      <4>1. \A k \in Asked(d) : login[k].now \in Nat
        BY <1>2, LoginType DEF Asked
      <4> QED BY <1>4, <1>5, <3>1, <3>2, <4>1
    <3>5. time' \in 1..MaxTime /\ time <= time'
      BY <1>1, <1>2
    <3> QED BY <2>2, <3>3, <3>4, <3>5, ClientStays
  <2> QED BY <1>9, <2>1, <2>2
<1>13. IsFiniteSet(guesses')
  BY <1>9, FS_Subset DEF ThrottleInv
<1> QED BY <1>10, <1>11, <1>12, <1>13, LimitedThen DEF ThrottleInv

\* Counting one more failure, on what pruning left of the client.
LEMMA CountedKeeps ==
  ASSUME ThrottleInv, NEW c \in Clients, NEW h \in Asked(c), NEW y, y = login[h].now,
         UNCHANGED time,
         NEW s, NEW old,
         \/ s = attempts[c] /\ old = Mine(c)
         \/ s = NoAttempts /\ old = {},
         NEW new, new.time = y, new \notin guesses, Mine(c)' = old \cup {new},
         attempts'[c] = Counted(s, y),
         Asked(c)' = Asked(c) \ {h}, \A k \in Asked(c)' : login'[k] = login[k]
  PROVE  ClientOK(c)' /\ Limited(Mine(c)')
<1>0. /\ FailureLimit \in Nat \ {0, 1} /\ Cardinality(Logins) \in Nat \ {0}
      /\ y \in 1..MaxTime /\ y <= time /\ time <= y + MaxDelay
      /\ FailureWindow \in Nat /\ MaxTime \in Nat
  BY LoginType, LoginsAreSome, ThrottleAssumption DEF Asked
<1>1. new \notin Mine(c) /\ old \in SUBSET Mine(c)
  BY DEF Mine
<1> DEFINE fresh == \/ s.started = 0
                    \/ y >= s.started + FailureWindow
                    \/ s.blocked # 0 /\ y >= s.blocked
<1>2. CASE fresh
  <2>1. attempts'[c] = [failures |-> 1, started |-> y, last |-> y, blocked |-> 0]
    BY <1>0, <1>2 DEF Counted
  <2>2. ASSUME NEW t \in 1..MaxTime, y < t + BlockTime - MaxDelay
        PROVE  Cardinality(During(old, t)) <= FailureLimit + Cardinality(Logins) - 3
    <3>1. CASE old = {}
      <4>1. During({}, t) = {}
        BY DEF During
      <4>2. Cardinality(During(old, t)) = 0
        BY <3>1, <4>1, FS_EmptySet
      <4> QED BY <1>0, <4>2
    <3>2. CASE s = attempts[c] /\ old = Mine(c) /\ old # {}
      <4>1. attempts[c] # NoAttempts
        BY <3>2 DEF ThrottleInv, ClientOK
      <4>2. s.started # 0
        <5>1. PICK series \in SUBSET Mine(c) : IsSeries(c, series)
          BY <4>1 DEF ThrottleInv, ClientOK
        <5> QED BY <3>2, <5>1 DEF IsSeries
      <4> QED BY <1>2, <2>2, <3>2, <4>1, <4>2, SeriesIsOver
    <3> QED BY <3>1, <3>2
  <2> QED BY <1>0, <1>1, <2>1, <2>2, NewSeries
<1>3. CASE ~fresh
  <2>1. s = attempts[c] /\ old = Mine(c) /\ attempts[c] # NoAttempts
    BY <1>3 DEF NoAttempts
  <2>2. /\ s.failures \in Nat /\ s.started \in Nat /\ s.blocked \in Nat
    BY <2>1, ThrottleAssumption DEF ThrottleInv, ThrottleTypeOK
  <2>3. attempts[c].blocked = 0 \/ y < attempts[c].blocked
    BY <1>0, <1>3, <2>1, <2>2
  <2>4. PICK n : n = attempts[c].failures + 1
    OBVIOUS
  <2>5. attempts'[c] = [failures |-> n, started |-> attempts[c].started, last |-> y,
                        blocked |-> IF n >= FailureLimit THEN y + BlockTime
                                    ELSE attempts[c].blocked]
    BY <1>3, <2>1, <2>4 DEF Counted
  <2> HIDE DEF fresh
  <2> QED BY <1>0, <1>1, <2>1, <2>3, <2>4, <2>5, SameSeries
<1> QED BY <1>2, <1>3

\* What a failure makes of the record of a client has its type.
LEMMA CountedType ==
  ASSUME NEW s \in [failures : 0..MaxGuesses, started : 0..MaxTime,
                    blocked : 0..(MaxTime + BlockTime), last : 0..MaxTime],
         NEW y \in 1..MaxTime, s.failures < MaxGuesses
  PROVE  Counted(s, y) \in [failures : 0..MaxGuesses, started : 0..MaxTime,
                            blocked : 0..(MaxTime + BlockTime), last : 0..MaxTime]
<1>1. /\ MaxGuesses \in Nat /\ MaxTime \in Nat /\ BlockTime \in Nat
      /\ s.failures \in Nat /\ s.blocked \in 0..(MaxTime + BlockTime)
      /\ s.started \in 0..MaxTime
  BY ThrottleAssumption
<1>2. s.failures + 1 \in 0..MaxGuesses /\ 1 \in 0..MaxGuesses
      /\ 0 \in 0..(MaxTime + BlockTime) /\ y + BlockTime \in 0..(MaxTime + BlockTime)
      /\ y \in 0..MaxTime
  BY <1>1
<1> QED BY <1>1, <1>2 DEF Counted

LEMMA RecordFailedLoginKeeps ==
  ASSUME ThrottleInv, NEW h \in Logins, RecordFailedLogin(h)
  PROVE  ThrottleInv'
<1>1. PICK c, y : c = login[h].client /\ y = login[h].now
  OBVIOUS
<1>2. /\ login[h].at = "password" /\ h \in Asked(c) /\ login[h] # Waiting
      /\ c \in Clients /\ y \in 1..MaxTime /\ time \in 1..MaxTime /\ y <= time
      /\ Cardinality(guesses) < MaxGuesses
      /\ login' = [login EXCEPT ![h] = Waiting] /\ time' = time
  BY <1>1, LoginType DEF RecordFailedLogin, Asked
<1>3. PICK a \in Pruned(y), n \in 0..(MaxGuesses - 1) :
        /\ attempts' = [a EXCEPT ![c] = Counted(a[c], y)]
        /\ guesses' = Forget(a) \cup {[client |-> c, time |-> y, nth |-> n]}
        /\ \A g \in guesses : g.nth # n
  <2>1. \E m \in 0..(MaxGuesses - 1) : \A g \in guesses : g.nth # m
    BY <1>2, NumbersAreLeft DEF ThrottleInv, ThrottleTypeOK
  <2>2. PICK m : /\ m = CHOOSE k \in 0..(MaxGuesses - 1) : \A g \in guesses : g.nth # k
                 /\ m \in 0..(MaxGuesses - 1) /\ \A g \in guesses : g.nth # m
    BY <2>1
  <2> QED BY <1>1, <2>2 DEF RecordFailedLogin
<1>4. PICK new : new = [client |-> c, time |-> y, nth |-> n]
  OBVIOUS
<1>5. new.client = c /\ new.time = y /\ new.nth = n /\ new \in Guess /\ new \notin guesses
  BY <1>2, <1>3, <1>4 DEF Guess
<1>6. login'[h] = Waiting /\ \A k \in Logins \ {h} : login'[k] = login[k]
  BY <1>2 DEF ThrottleInv, ThrottleTypeOK
<1>7. \A d \in Clients : /\ Asked(d)' = Asked(d) \ {h}
                         /\ \A k \in Asked(d)' : login'[k] = login[k]
                                                 /\ login[k].now \in 1..MaxTime
  <2> SUFFICES ASSUME NEW d \in Clients
               PROVE  /\ Asked(d)' = Asked(d) \ {h}
                      /\ \A k \in Asked(d)' : login'[k] = login[k]
                                              /\ login[k].now \in 1..MaxTime
    OBVIOUS
  <2>1. Asked(d)' = Asked(d) \ {h}
    BY <1>6 DEF Asked, Waiting
  <2> QED BY <1>6, <2>1, LoginType DEF Asked
<1>8. PICK old : old = Of(c, Forget(a))
  OBVIOUS
<1>9. /\ \/ a[c] = attempts[c] /\ old = Mine(c)
         \/ a[c] = NoAttempts /\ old = {}
      /\ Forget(a) \subseteq guesses
      /\ a \in [Clients -> [failures : 0..MaxGuesses, started : 0..MaxTime,
                            blocked : 0..(MaxTime + BlockTime), last : 0..MaxTime]]
  <2>1. \/ a[c] = attempts[c] /\ Of(c, Forget(a)) = Mine(c)
        \/ a[c] = NoAttempts /\ Of(c, Forget(a)) = {}
    BY <1>2, PruningForgets
  <2> QED BY <1>8, <2>1, PruningForgets
<1>10. Mine(c)' = old \cup {new} /\ attempts'[c] = Counted(a[c], y)
  BY <1>2, <1>3, <1>4, <1>5, <1>8, <1>9 DEF Mine, Of
<1>11. ClientOK(c)' /\ Limited(Mine(c)')
  <2>1. Asked(c)' = Asked(c) \ {h} /\ \A k \in Asked(c)' : login'[k] = login[k]
    BY <1>2, <1>7
  <2>2. PICK s : s = a[c]
    OBVIOUS
  <2>3. \/ s = attempts[c] /\ old = Mine(c)
        \/ s = NoAttempts /\ old = {}
    BY <1>9, <2>2
  <2>4. attempts'[c] = Counted(s, y) /\ Mine(c)' = old \cup {new}
    BY <1>10, <2>2
  <2>5. c \in Clients /\ h \in Asked(c) /\ y = login[h].now /\ time' = time
    BY <1>1, <1>2
  <2>6. new.time = y /\ new \notin guesses
    BY <1>5
  <2> QED BY <2>1, <2>3, <2>4, <2>5, <2>6, CountedKeeps
<1>12. ASSUME NEW d \in Clients \ {c} PROVE ClientOK(d)' /\ Limited(Mine(d)')
  <2>1. attempts'[d] = a[d] /\ Mine(d)' = Of(d, Forget(a))
    BY <1>3, <1>4, <1>5, <1>9 DEF Mine, Of
  <2>2. CASE attempts'[d] = NoAttempts /\ Mine(d)' = {}
    BY <2>2, ClientForgotten
  <2>3. CASE attempts'[d] = attempts[d] /\ Mine(d)' = Mine(d)
    <3>1. \A k \in Asked(d)' : k \in Asked(d) /\ login'[k].now = login[k].now
                               /\ login'[k].now \in Nat
      BY <1>7
    <3>2. time' \in 1..MaxTime /\ time <= time'
      BY <1>2, ThrottleAssumption
    <3> QED BY <2>3, <3>1, <3>2, ClientStays
  <2> QED BY <2>1, <2>2, <2>3, PruningForgets
<1>13. a[c].failures < MaxGuesses
  <2>1. CASE a[c] = NoAttempts
    <3>1. Cardinality(guesses) \in Nat
      BY FS_CardinalityType DEF ThrottleInv
    <3> QED BY <1>2, <2>1, <3>1, ThrottleAssumption DEF NoAttempts
  <2>2. CASE a[c] = attempts[c] /\ a[c] # NoAttempts
    <3>1. PICK series \in SUBSET Mine(c) : IsSeries(c, series)
      BY <1>2, <2>2 DEF ThrottleInv, ClientOK
    <3>2. series \subseteq guesses
      BY DEF Mine
    <3>3. Cardinality(series) <= Cardinality(guesses) /\ Cardinality(guesses) \in Nat
          /\ Cardinality(series) \in Nat
      BY <3>2, FS_Subset, FS_CardinalityType DEF ThrottleInv
    <3>4. Cardinality(series) = attempts[c].failures
      BY <3>1 DEF IsSeries
    <3> QED BY <1>2, <2>2, <3>3, <3>4, ThrottleAssumption
  <2> QED BY <1>9, <2>1, <2>2
<1>14. ThrottleTypeOK'
  <2>1. Counted(a[c], y) \in [failures : 0..MaxGuesses, started : 0..MaxTime,
                            blocked : 0..(MaxTime + BlockTime), last : 0..MaxTime]
    <3>1. PICK s : s = a[c]
      OBVIOUS
    <3> QED BY <1>2, <1>9, <1>13, <3>1, CountedType
  <2>2. attempts' \in [Clients -> [failures : 0..MaxGuesses, started : 0..MaxTime,
                            blocked : 0..(MaxTime + BlockTime), last : 0..MaxTime]]
    BY <1>3, <1>9, <2>1
  <2>3. login' \in [Logins -> {Waiting} \cup [at : {"throttle", "password"},
                                           client : Clients, now : 1..MaxTime]]
    BY <1>2 DEF ThrottleInv, ThrottleTypeOK
  <2>4. guesses' \subseteq Guess
    BY <1>3, <1>4, <1>5, <1>9 DEF ThrottleInv, ThrottleTypeOK
  <2> QED BY <1>2, <2>2, <2>3, <2>4 DEF ThrottleTypeOK
<1>15. InTime'
  BY <1>2, <1>3, <1>4, <1>5, <1>6, <1>9 DEF ThrottleInv, InTime
<1>16. IsFiniteSet(guesses')
  <2>1. IsFiniteSet(Forget(a))
    BY <1>9, FS_Subset DEF ThrottleInv
  <2> QED BY <1>3, <2>1, FS_AddElement
<1> QED BY <1>11, <1>12, <1>14, <1>15, <1>16, LimitedThen DEF ThrottleInv

LEMMA ClearFailedLoginsKeeps ==
  ASSUME ThrottleInv, NEW h \in Logins, ClearFailedLogins(h)
  PROVE  ThrottleInv'
<1>1. PICK c : c = login[h].client
  OBVIOUS
<1>2. /\ login[h].at = "password" /\ c \in Clients /\ time \in 1..MaxTime
      /\ attempts' = [attempts EXCEPT ![c] = NoAttempts]
      /\ guesses' = {g \in guesses : g.client # c}
      /\ login' = [login EXCEPT ![h] = Waiting] /\ time' = time
  BY <1>1, LoginType DEF ClearFailedLogins
<1>3. login'[h] = Waiting /\ \A k \in Logins \ {h} : login'[k] = login[k]
  BY <1>2 DEF ThrottleInv, ThrottleTypeOK
<1>4. ThrottleTypeOK'
  <2>1. NoAttempts \in [failures : 0..MaxGuesses, started : 0..MaxTime,
                        blocked : 0..(MaxTime + BlockTime), last : 0..MaxTime]
    BY ThrottleAssumption DEF NoAttempts
  <2> QED BY <1>2, <2>1 DEF ThrottleInv, ThrottleTypeOK
<1>5. InTime' /\ IsFiniteSet(guesses')
  BY <1>2, <1>3, FS_Subset DEF ThrottleInv, InTime
<1>6. ASSUME NEW d \in Clients PROVE ClientOK(d)' /\ Limited(Mine(d)')
  <2>1. CASE d = c
    <3>1. attempts'[d] = NoAttempts /\ Mine(d)' = {}
      BY <1>2, <2>1 DEF Mine, ThrottleInv, ThrottleTypeOK
    <3> QED BY <3>1, ClientForgotten
  <2>2. CASE d # c
    <3>1. attempts'[d] = attempts[d] /\ Mine(d)' = Mine(d)
      BY <1>2, <2>2 DEF Mine, ThrottleInv, ThrottleTypeOK
    <3>2. \A k \in Asked(d)' : k \in Asked(d) /\ login'[k] = login[k]
      BY <1>3 DEF Asked, Waiting
    <3>3. \A k \in Asked(d)' : login'[k].now \in Nat
      BY <3>2, LoginType, ThrottleAssumption DEF Asked
    <3>4. time' \in 1..MaxTime /\ time <= time'
      BY <1>2, ThrottleAssumption
    <3> QED BY <3>1, <3>2, <3>3, <3>4, ClientStays
  <2> QED BY <2>1, <2>2
<1> QED BY <1>4, <1>5, <1>6, LimitedThen DEF ThrottleInv

LEMMA ThrottleTickKeeps == ASSUME ThrottleInv, ThrottleTick PROVE ThrottleInv'
<1>1. /\ time' = time + 1 /\ time < MaxTime /\ UNCHANGED <<attempts, login, guesses>>
      /\ \A h \in Logins : login[h] # Waiting => time < login[h].now + MaxDelay
  BY DEF ThrottleTick
<1>2. time \in 1..MaxTime /\ MaxTime \in Nat /\ MaxDelay \in Nat /\ time' \in 1..MaxTime
      /\ time <= time'
  BY <1>1, ThrottleAssumption DEF ThrottleInv, ThrottleTypeOK
<1>3. ThrottleTypeOK'
  BY <1>1, <1>2 DEF ThrottleInv, ThrottleTypeOK
<1>4. ASSUME NEW h \in Logins, login[h] # Waiting
      PROVE  login[h].now <= time + 1 /\ time + 1 <= login[h].now + MaxDelay
  <2>1. login[h].now \in 1..MaxTime
    BY <1>4 DEF ThrottleInv, ThrottleTypeOK
  <2>2. login[h].now <= time /\ time < login[h].now + MaxDelay
    BY <1>1, <1>4 DEF ThrottleInv, InTime
  <2> QED BY <1>2, <2>1, <2>2
<1>5. ASSUME NEW g \in guesses PROVE g.time <= time + 1
  <2>1. g.time \in 1..MaxTime /\ g.time <= time
    BY DEF ThrottleInv, ThrottleTypeOK, Guess, InTime
  <2> QED BY <1>2, <2>1
<1>6. InTime'
  BY <1>1, <1>4, <1>5 DEF InTime
<1>7. ASSUME NEW d \in Clients PROVE ClientOK(d)' /\ Limited(Mine(d)')
  <2>1. attempts'[d] = attempts[d] /\ Mine(d)' = Mine(d) /\ Asked(d)' = Asked(d)
    BY <1>1 DEF Mine, Asked
  <2>2. \A k \in Asked(d)' : k \in Asked(d) /\ login'[k].now = login[k].now
                             /\ login'[k].now \in Nat
    BY <1>1, <1>2, <2>1, LoginType DEF Asked
  <2> QED BY <1>2, <2>1, <2>2, ClientStays
<1> QED BY <1>1, <1>3, <1>6, <1>7, LimitedThen DEF ThrottleInv

LEMMA RestartThrottleKeeps == ASSUME ThrottleInv, RestartThrottle PROVE ThrottleInv'
<1>1. /\ attempts' = [c \in Clients |-> NoAttempts]
      /\ login' = [h \in Logins |-> Waiting] /\ guesses' = {} /\ time' = time
  BY DEF RestartThrottle
<1>2. ThrottleTypeOK'
  BY <1>1, ThrottleAssumption DEF ThrottleInv, ThrottleTypeOK, NoAttempts
<1>3. InTime' /\ IsFiniteSet(guesses')
  BY <1>1, FS_EmptySet DEF InTime
<1>4. \A d \in Clients : attempts'[d] = NoAttempts /\ Mine(d)' = {}
  BY <1>1 DEF Mine
<1> QED BY <1>2, <1>3, <1>4, ClientForgotten, LimitedThen DEF ThrottleInv

LEMMA ThrottleInitInv == ThrottleInit => ThrottleInv
<1> SUFFICES ASSUME ThrottleInit PROVE ThrottleInv
  OBVIOUS
<1>1. ThrottleTypeOK
  BY ThrottleAssumption DEF ThrottleInit, ThrottleTypeOK, NoAttempts
<1>2. InTime /\ IsFiniteSet(guesses)
  BY FS_EmptySet DEF ThrottleInit, InTime
<1>3. \A c \in Clients : attempts[c] = NoAttempts /\ Mine(c) = {}
  BY DEF ThrottleInit, Mine
<1>4. \A c \in Clients : ClientOK(c)
  BY <1>3 DEF ClientOK
<1>5. \A t \in 1..MaxTime : During({}, t) = {}
  BY DEF During
<1>6. 0 <= 2 * (FailureLimit + Cardinality(Logins) - 2)
  BY LoginsAreSome, ThrottleAssumption
<1>7. Limited({})
  BY <1>5, <1>6, FS_EmptySet DEF Limited
<1> QED BY <1>1, <1>2, <1>3, <1>4, <1>7, LimitedMeans DEF ThrottleInv

LEMMA ThrottleNextInv ==
  ASSUME ThrottleInv, [ThrottleNext]_throttleVars PROVE ThrottleInv'
<1>1. CASE UNCHANGED throttleVars
  <2>1. UNCHANGED <<time, attempts, login, guesses>>
    BY <1>1 DEF throttleVars
  <2>2. ThrottleTypeOK' /\ InTime' /\ IsFiniteSet(guesses')
    BY <2>1 DEF ThrottleInv, ThrottleTypeOK, InTime
  <2>3. ASSUME NEW d \in Clients PROVE ClientOK(d)' /\ Limited(Mine(d)')
    <3>1. attempts'[d] = attempts[d] /\ Mine(d)' = Mine(d) /\ Asked(d)' = Asked(d)
      BY <2>1 DEF Mine, Asked
    <3>2. time' \in 1..MaxTime /\ time <= time'
      BY <2>1, ThrottleAssumption DEF ThrottleInv, ThrottleTypeOK
    <3>3. \A k \in Asked(d)' : k \in Asked(d) /\ login'[k].now = login[k].now
                               /\ login'[k].now \in Nat
      BY <2>1, <3>1, LoginType, ThrottleAssumption DEF Asked
    <3> QED BY <3>1, <3>2, <3>3, ClientStays
  <2> QED BY <2>2, <2>3, LimitedThen DEF ThrottleInv
<1> QED
  BY <1>1, StartLoginKeeps, LoginRetryAfterKeeps, RecordFailedLoginKeeps,
     ClearFailedLoginsKeeps, RestartThrottleKeeps, ThrottleTickKeeps DEF ThrottleNext

\* The attempts, the logins and the guesses keep their types; no more failures
\* are counted than there were guesses (loginThrottleState, browser_security.go).
THEOREM ThrottleTypes == ThrottleSpec => []ThrottleTypeOK
<1>1. ThrottleInv => ThrottleTypeOK
  BY DEF ThrottleInv
<1> QED BY <1>1, ThrottleInitInv, ThrottleNextInv, PTL DEF ThrottleSpec

\* In any stretch as long as a block, less the time two logins take, a client
\* makes no more than 2 * (FailureLimit + Cardinality(Logins) - 2) wrong guesses,
\* unless one was right, the client was forgotten or the server restarted: for
\* any number of logins at once, whichever order they end in
\* (loginRetryAfter, recordFailedLogin, pruneLoginThrottleLocked).
THEOREM ThrottleLimitsGuesses == ThrottleSpec => []GuessesAreLimited
<1>1. ThrottleInv => GuessesAreLimited
  BY DEF ThrottleInv
<1> QED BY <1>1, ThrottleInitInv, ThrottleNextInv, PTL DEF ThrottleSpec
====
