---- MODULE Quarantine ----
(***************************************************************************)
(* Rejected uploads.  A payload the validators reject is kept in a         *)
(* directory of its own, once for each content, until an operator deletes  *)
(* it or has it tried again and imported.  Handlers run side by side and   *)
(* nothing locks the directories: each works on what it read before.       *)
(***************************************************************************)
EXTENDS Naturals, Sequences, FiniteSets, SequencesExt

CONSTANTS Handlers, Payloads,
          Importable,  \* contents that a retry's hints let the validators accept
          Another,     \* a content of the game that is accepted as it is
          NoItem,
          MaxItems, MaxStored, MaxRescanned, MaxQuarantineFaults

VARIABLES item,        \* quarantine directories: content and files
          stored,      \* contents of the saves of the game, the newest last
          job,         \* handlers at work
          toKeep,      \* history: rejected contents that are to be kept
          rescanned,   \* history: those that a rescan took for saves since
          quarantineFaults

quarantineVars == <<item, stored, job, toKeep, rescanned, quarantineFaults>>

Items == 1..MaxItems
Item == [sha : Payloads, payload : BOOLEAN, metadata : BOOLEAN]
Rejecting == {"make", "metadata", "update"}
Retrying == {"check", "create", "remove"}
Job == [sha : Payloads, item : Items, step : Rejecting \cup Retrying]
IdleJob == [step |-> "idle"]

ASSUME QuarantineAssumption ==
    /\ MaxItems \in Nat /\ MaxStored \in Nat /\ MaxRescanned \in Nat
    /\ MaxQuarantineFaults \in Nat
    /\ NoItem \notin Item
    /\ Importable \subseteq Payloads

QuarantineTypeOK ==
    /\ item \in [Items -> Item \cup {NoItem}]
    /\ stored \in Seq(Payloads \cup {Another}) /\ Len(stored) <= MaxStored
    /\ job \in [Handlers -> Job \cup {IdleJob}]
    /\ toKeep \subseteq Payloads /\ rescanned \subseteq Payloads
    /\ quarantineFaults \in 0..MaxQuarantineFaults

QuarantineInit ==
    /\ item = [d \in Items |-> NoItem]
    /\ stored = <<>>
    /\ job = [h \in Handlers |-> IdleJob]
    /\ toKeep = {} /\ rescanned = {}
    /\ quarantineFaults = 0

QuarantineFault == /\ quarantineFaults < MaxQuarantineFaults
                   /\ quarantineFaults' = quarantineFaults + 1

Exists(d) == item[d] # NoItem
Listed(d) == Exists(d) /\ item[d].metadata

Busy(h, steps) == job[h].step \in steps
Become(h, step) == job' = [job EXCEPT ![h].step = step]
Finish(h) == job' = [job EXCEPT ![h] = IdleJob]
Write(d, files) == item' = [item EXCEPT ![d] = files]

Take(h, c, d, step) ==
    /\ job[h] = IdleJob
    /\ job' = [job EXCEPT ![h] = [sha |-> c, item |-> d, step |-> step]]

----------------------------------------------------------------------------
(* quarantineRejectedUpload *)

\* The directories are searched for the content first, by their metadata.  A
\* new one is named by the time: no handler knows it from before.
RejectUpload(h, c) ==
    LET found == {d \in Items : Listed(d) /\ item[d].sha = c}
        taken == {job[n].item : n \in {n \in Handlers : job[n] # IdleJob}}
        free == {d \in Items \ taken : ~Exists(d)}
    IN  /\ IF found # {} THEN \E d \in found : Take(h, c, d, "update")
           ELSE \E d \in free : /\ \A n \in free : d <= n
                                /\ Take(h, c, d, "make")
        /\ toKeep' = IF \E n \in Handlers : Busy(n, Retrying) /\ job[n].sha = c
                   THEN toKeep ELSE toKeep \cup {c}
        /\ UNCHANGED <<item, stored, quarantineFaults>>

\* A write that fails ends the handler; the client is told of the rejection
\* all the same.
FailedWrite(h) == QuarantineFault /\ Finish(h) /\ toKeep' = toKeep \ {job[h].sha}

MakeDirectory(h) ==
    LET d == job[h].item
        new == [sha |-> job[h].sha, payload |-> TRUE, metadata |-> FALSE]
    IN  /\ Busy(h, {"make"})
        /\ \/ Write(d, new) /\ Become(h, "metadata") /\ UNCHANGED <<toKeep, quarantineFaults>>
           \/ Write(d, [new EXCEPT !.payload = FALSE]) /\ FailedWrite(h)
        /\ UNCHANGED stored

WriteItemMetadata(h) ==
    /\ Busy(h, {"metadata"})
    /\ \/ /\ Write(job[h].item, [item[job[h].item] EXCEPT !.metadata = TRUE])
          /\ Finish(h) /\ UNCHANGED <<toKeep, quarantineFaults>>
       \/ FailedWrite(h) /\ UNCHANGED item
    /\ UNCHANGED stored

\* Seen again: the count and the reason are written, if it is still there.
Update(h) ==
    LET d == job[h].item
    IN  /\ Busy(h, {"update"})
        /\ Finish(h)
        /\ IF Exists(d) THEN Write(d, [item[d] EXCEPT !.metadata = TRUE])
           ELSE UNCHANGED item
        /\ UNCHANGED <<stored, toKeep, quarantineFaults>>

----------------------------------------------------------------------------
(* handleValidationQuarantineRetry and handleValidationQuarantineDelete *)

\* Without its payload the answer is an error.
Retry(h, d) ==
    /\ Listed(d) /\ item[d].payload
    /\ Take(h, item[d].sha, d, "check")
    /\ UNCHANGED <<item, stored, toKeep, quarantineFaults>>

StillRejected(h) ==
    LET d == job[h].item
    IN  /\ Busy(h, {"check"}) /\ job[h].sha \notin Importable
        /\ Finish(h)
        /\ IF Exists(d) THEN Write(d, [item[d] EXCEPT !.metadata = TRUE])
           ELSE UNCHANGED item
        /\ UNCHANGED <<stored, toKeep, quarantineFaults>>

\* Of what is stored already, only what is the newest is removed.
CheckStored(h) ==
    LET c == job[h].sha
    IN  /\ Busy(h, {"check"}) /\ c \in Importable
        /\ IF c \notin ToSet(stored) THEN Become(h, "create")
           ELSE IF Last(stored) = c THEN Become(h, "remove")
           ELSE Finish(h)
        /\ UNCHANGED <<item, stored, toKeep, quarantineFaults>>

\* Mutant: the directory is removed before the save is made of it.
CreateAfterRemoving(h) ==
    /\ Busy(h, {"create"})
    /\ Write(job[h].item, NoItem)
    /\ \/ /\ Len(stored) < MaxStored
          /\ stored' = Append(stored, job[h].sha)
          /\ Become(h, "remove")
          /\ UNCHANGED quarantineFaults
       \/ QuarantineFault /\ Finish(h) /\ UNCHANGED stored
    /\ UNCHANGED toKeep

CreateImported(h) ==
    /\ Busy(h, {"create"})
    /\ \/ /\ Len(stored) < MaxStored
          /\ stored' = Append(stored, job[h].sha)
          /\ Become(h, "remove")
          /\ UNCHANGED quarantineFaults
       \/ QuarantineFault /\ Finish(h) /\ UNCHANGED stored
    /\ UNCHANGED <<item, toKeep>>

\* RemoveAll may stop half-way, with either file left.
RemoveAll(d) ==
    \/ Write(d, NoItem) /\ UNCHANGED quarantineFaults
    \/ /\ Exists(d) /\ QuarantineFault
       /\ \/ Write(d, [item[d] EXCEPT !.payload = FALSE])
          \/ Write(d, [item[d] EXCEPT !.metadata = FALSE])

RemoveItem(h) ==
    /\ Busy(h, {"remove"})
    /\ RemoveAll(job[h].item)
    /\ Finish(h)
    /\ UNCHANGED <<stored, toKeep>>

DeleteItem(d) ==
    /\ Listed(d)
    /\ RemoveAll(d)
    /\ toKeep' = toKeep \ {item[d].sha}
    /\ UNCHANGED <<stored, job>>

----------------------------------------------------------------------------
(* What else goes on *)

UploadMeanwhile(c) ==
    /\ c \notin ToSet(stored)
    /\ Len(stored) < MaxStored
    /\ stored' = Append(stored, c)
    /\ UNCHANGED <<item, job, toKeep, quarantineFaults>>

DeleteSave(i) ==
    /\ i \in 1..Len(stored)
    /\ stored' = RemoveAt(stored, i)
    /\ toKeep' = toKeep \ {stored[i]}
    /\ UNCHANGED <<item, job, quarantineFaults>>

\* A rescan reads every metadata.json below the save root.  One of the
\* quarantine is a save without a name to it, which it removes as rejected or
\* files as an unknown game.  An item without a payload ends the rescan.
RescanTakes(d) ==
    /\ Cardinality(rescanned) < MaxRescanned
    /\ Listed(d) /\ item[d].payload
    /\ RemoveAll(d)
    /\ rescanned' = rescanned \cup {item[d].sha}
    /\ UNCHANGED <<stored, job, toKeep>>

\* Who was not answered tries again.
RestartQuarantine ==
    /\ \E h \in Handlers : job[h] # IdleJob
    /\ job' = [h \in Handlers |-> IdleJob]
    /\ toKeep' = toKeep \ {job[h].sha : h \in {n \in Handlers : Busy(n, Rejecting)}}
    /\ UNCHANGED <<item, stored, quarantineFaults>>

QuarantineNext ==
    \/ /\ UNCHANGED rescanned
       /\ \/ \E h \in Handlers :
               \/ \E c \in Payloads : RejectUpload(h, c)
               \/ MakeDirectory(h) \/ WriteItemMetadata(h) \/ Update(h)
               \/ \E d \in Items : Retry(h, d)
               \/ StillRejected(h) \/ CheckStored(h) \/ CreateImported(h) \/ RemoveItem(h)
          \/ \E d \in Items : DeleteItem(d)
          \/ \E c \in Importable \cup {Another} : UploadMeanwhile(c)
          \/ \E i \in 1..MaxStored : DeleteSave(i)
          \/ RestartQuarantine
    \/ \E d \in Items : RescanTakes(d)

QuarantineSpec == QuarantineInit /\ [][QuarantineNext]_quarantineVars

----------------------------------------------------------------------------
Kept(c) == \E d \in Items : Listed(d) /\ item[d].sha = c /\ item[d].payload
Torn(c) == \E d \in Items : Listed(d) /\ item[d].sha = c /\ ~item[d].payload

Held(c) == \/ \E h \in Handlers : Busy(h, Rejecting) /\ job[h].sha = c
           \/ Kept(c) \/ Torn(c) \/ c \in ToSet(stored)

\* Whoever works on the quarantine at the same time, a content whose upload
\* was rejected stays in it, or is a save by then, until an operator deletes
\* one or the other; unless a write failed, the content was being tried again
\* as it was rejected, a removal cut short left its metadata alone, or a
\* rescan took it (quarantineRejectedUpload, handleValidationQuarantineRetry).
RejectedUploadsAreKept == \A c \in toKeep \ rescanned : Held(c)
====
