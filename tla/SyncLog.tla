---- MODULE SyncLog ----
(***************************************************************************)
(* The log of what was synchronised: a list in memory, newest first,       *)
(* pruned by age and by number at every append, and written to a file      *)
(* whose write errors are dropped.                                         *)
(*                                                                         *)
(* An entry carries the time its handler read before it took app.mu, and   *)
(* an append prunes by that time and not by the clock: entries arrive out  *)
(* of order, and a late one is pruned by an older cutoff than the one      *)
(* before it.  The list is always sorted, so a set of entries stands for   *)
(* it; ids break the ties.                                                 *)
(***************************************************************************)
EXTENDS Naturals, FiniteSets, SequencesExt

CONSTANTS Appenders,     \* handlers with something to log
          MaxEntries,    \* entries kept: 5000 in the code
          Retention,     \* age an entry is kept to: 14 days
          PageLimit,     \* entries on a page: 50 unless the client asks
          NoEntry,       \* nothing to log
          MaxClock, MaxAppends, MaxLogFaults

ASSUME SyncLogAssumption ==
    /\ MaxEntries \in Nat /\ Retention \in Nat /\ PageLimit \in Nat \ {0}
    /\ MaxClock \in Nat /\ MaxAppends \in Nat /\ MaxLogFaults \in Nat

VARIABLES clock,
          pending,       \* per appender: the entry it is about to log
          logs,          \* app.syncLogs
          logFile,       \* sync_logs.json
          appended,      \* history: every entry logged
          lost,          \* history: entries a restart lost to a failed write
          logFaults      \* writes that failed

logVars == <<clock, pending, logs, logFile, appended, lost, logFaults>>

Entry == [at : 0..MaxClock, id : 1..MaxAppends]

LogTypeOK ==
    /\ clock \in 0..MaxClock
    /\ pending \in [Appenders -> Entry \cup {NoEntry}]
    /\ logs \subseteq appended
    /\ logFile \subseteq appended
    /\ appended \subseteq Entry
    /\ lost \subseteq appended
    /\ logFaults \in 0..MaxLogFaults
    /\ Cardinality(logs) <= MaxEntries

LogInit ==
    /\ clock = 0
    /\ pending = [h \in Appenders |-> NoEntry]
    /\ logs = {}
    /\ logFile = {}
    /\ appended = {}
    /\ lost = {}
    /\ logFaults = 0

Before(e, f) == \/ e.at > f.at
                \/ e.at = f.at /\ e.id > f.id

NewestFirst(entries) ==
    CHOOSE s \in [1..Cardinality(entries) -> entries] :
        \A i, j \in DOMAIN s : i < j => Before(s[i], s[j])

\* Mutant: the oldest entries stay when there are too many.
PruneTheNewest(entries, now) ==
    LET kept == {e \in entries : e.at + Retention >= now}
    IN  {e \in kept : Cardinality({f \in kept : Before(e, f)}) < MaxEntries}

\* Mutant: no cap.
PruneByAge(entries, now) == {e \in entries : e.at + Retention >= now}

\* pruneSyncLogs: those within the retention of now, the newest MaxEntries.
Prune(entries, now) ==
    LET kept == {e \in entries : e.at + Retention >= now}
    IN  {e \in kept : Cardinality({f \in kept : Before(f, e)}) < MaxEntries}

\* Ids are made of the time and a hash of the entry: all different.
Taken == {e.id : e \in appended}
           \cup {pending[h].id : h \in {g \in Appenders : pending[g] # NoEntry}}

\* The time is read before the lock is taken.
StampEntry(h) ==
    /\ pending[h] = NoEntry
    /\ Cardinality(Taken) < MaxAppends
    /\ pending' = [pending EXCEPT ![h] =
                     [at |-> clock, id |-> Cardinality(Taken) + 1]]
    /\ UNCHANGED <<clock, logs, logFile, appended, lost, logFaults>>

AppendSyncLog(h) ==
    /\ pending[h] # NoEntry
    /\ pending' = [pending EXCEPT ![h] = NoEntry]
    /\ appended' = appended \cup {pending[h]}
    /\ logs' = Prune(logs \cup {pending[h]}, pending[h].at)
    /\ \/ logFile' = logs' /\ UNCHANGED logFaults
       \/ /\ logFaults < MaxLogFaults
          /\ logFaults' = logFaults + 1
          /\ UNCHANGED logFile
    /\ UNCHANGED <<clock, lost>>

\* loadSyncLogState prunes by the clock, and does not write the file.
RestartLog ==
    /\ logs # logFile \/ \E e \in logs : e.at + Retention < clock
    /\ logs' = Prune(logFile, clock)
    /\ lost' = lost \cup (logs \ logFile)
    /\ pending' = [h \in Appenders |-> NoEntry]
    /\ UNCHANGED <<clock, logFile, appended, logFaults>>

Tick == /\ clock < MaxClock
        /\ clock' = clock + 1
        /\ UNCHANGED <<pending, logs, logFile, appended, lost, logFaults>>

LogNext == \/ \E h \in Appenders : StampEntry(h) \/ AppendSyncLog(h)
           \/ RestartLog
           \/ Tick

LogSpec == LogInit /\ [][LogNext]_logVars

----------------------------------------------------------------------------
(* handleSyncLogs: page p of the entries of the last hours. *)

Recent(hours) == {e \in logs : e.at + hours >= clock}

PagesOf(total) == IF total = 0 THEN 1
                  ELSE (total + PageLimit - 1) \div PageLimit

Page(hours, p) ==
    LET total == Cardinality(Recent(hours))
        page  == Min({p, PagesOf(total)})
        start == Min({(page - 1) * PageLimit, total})
        end   == Min({start + PageLimit, total})
    IN  SubSeq(NewestFirst(Recent(hours)), start + 1, end)

----------------------------------------------------------------------------
\* An entry that was logged, is within the retention and was not in a write
\* that failed before a restart is shown on exactly one page of the log, unless
\* MaxEntries newer ones were logged: whatever order entries arrive in, and
\* however late.
RecentEntriesAreShown ==
    \A e \in appended \ lost :
        (/\ e.at + Retention >= clock
         /\ Cardinality({f \in appended : Before(f, e)}) < MaxEntries)
        => Cardinality({p \in 1..PagesOf(Cardinality(Recent(Retention))) :
                          Contains(Page(Retention, p), e)}) = 1
====
