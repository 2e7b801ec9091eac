----------------------------- MODULE BulkUpload -----------------------------
(***************************************************************************)
(* Many saves in one request: an archive that a helper or the page uploads, *)
(* or the list of files the page sends. Each entry is checked and stored as *)
(* an upload of its own, after the one before it; the answer has a result   *)
(* for each. A client whose request is cut short by a restart sends it      *)
(* again. It sends one request at a time: what two at once do to one save   *)
(* is SaveStore's.                                                          *)
(***************************************************************************)
EXTENDS Naturals, Sequences, FiniteSets, FiniteSetsExt, SequencesExt

CONSTANTS
  Slots,          (* Paths in an archive, which are the slots of its saves. *)
  Shas,           (* Of entries; those below are special.                   *)
  Noise,          (* By its name no save, or empty.                         *)
  Huge,           (* Larger than an entry may be.                           *)
  Unsupported,    (* In no format the server knows.                         *)
  NotAllowed,     (* Of a system the helper may not sync.                   *)
  MaxEntries, MaxRequests, MaxFaults     (* Bounds the model.               *)

ASSUME BulkAssumption == MaxEntries \in Nat

VARIABLES
  revisions,      (* Of one game in the order they were stored.             *)
  rejected,       (* Contents in quarantine.                                *)
  request,        (* What the client sent, and how far the server is.       *)
  requests,
  mishaps

bulkVars == <<revisions, rejected, request, requests, mishaps>>

(* Saves are told apart by slot only if the archive came with the hash of a *)
(* ROM; a list never does.                                                  *)
NoSlot == "default"
Entry == [slot : Slots \cup {NoSlot}, sha : Shas]
Outcome == {"stored", "ignored", "stale", "unsupported", "not allowed", "failed"}

InSlot(slot) == {i \in DOMAIN revisions : revisions[i].slot = slot}

(* saveRecordSortsAfter: by version, then by time.                          *)
NewestOf(is) ==
  CHOOSE i \in is : \A j \in is \ {i} :
    \/ revisions[i].version > revisions[j].version
    \/ revisions[i].version = revisions[j].version /\ i > j

(* checkUploadDuplicate looks in the slot, then among all of the game.      *)
Duplicate(e) ==
  LET alike(is) == {i \in is : revisions[i].sha = e.sha}
      scope == IF alike(InSlot(e.slot)) # {} THEN InSlot(e.slot) ELSE DOMAIN revisions
  IN  IF alike(scope) = {} THEN "none"
      ELSE IF revisions[NewestOf(scope)].sha = e.sha THEN "ignored" ELSE "stale"

NextSaveVersion(slot) == 1 + Max({0} \cup {revisions[i].version : i \in InSlot(slot)})

(* expandMultipartSaveUpload: the entries that are uploads.                 *)
IsIgnored(e) == e.sha = Noise
Uploads(entries) ==
  LET kept[n \in 0 .. Len(entries)] ==
        IF n = 0 THEN <<>>
        ELSE IF IsIgnored(entries[n]) THEN kept[n - 1]
        ELSE Append(kept[n - 1], entries[n])
  IN  kept[Len(entries)]
Expands(entries) ==
  /\ \A i \in DOMAIN entries : entries[i].sha # Huge
  /\ Uploads(entries) # <<>>

NoRequest == [kind |-> "none", sent |-> <<>>, entries |-> <<>>, step |-> "done",
         results |-> <<>>]

BulkInit ==
  /\ revisions = <<>> /\ rejected = {} /\ request = NoRequest
  /\ requests = 0 /\ mishaps = 0

Opened(kind, entries) ==
  IF kind = "list" THEN [NoRequest EXCEPT !.kind = kind, !.sent = entries, !.entries = entries,
                                     !.step = "check"]
  ELSE IF Expands(entries)
  THEN [NoRequest EXCEPT !.kind = kind, !.sent = entries, !.entries = Uploads(entries), !.step = "check"]
  ELSE [NoRequest EXCEPT !.kind = kind, !.sent = entries, !.step = "refused"]

Send(kind, entries) ==
  /\ request.step \in {"done", "refused"} /\ requests < MaxRequests
  /\ kind = "list" => \A i \in DOMAIN entries : entries[i].slot = NoSlot /\ entries[i].sha \notin {Noise, Huge}
  /\ \A i, j \in DOMAIN entries : entries[i].slot = NoSlot => entries[j].slot = NoSlot
  /\ request' = Opened(kind, entries)
  /\ requests' = requests + 1
  /\ UNCHANGED <<revisions, rejected, mishaps>>

(* The server restarts; the client sends the same again.                    *)
Restart ==
  /\ request.step \in {"check", "create", "answer"} /\ mishaps < MaxFaults
  /\ request' = Opened(request.kind, request.sent)
  /\ mishaps' = mishaps + 1
  /\ UNCHANGED <<revisions, rejected, requests>>

Current == request.entries[Len(request.results) + 1]

(* The result of the current entry, and on to the next.                     *)
WithResult(outcome) ==
  LET results == Append(request.results, outcome)
  IN  [request EXCEPT !.results = results,
         !.step = IF Len(results) = Len(request.entries) THEN "answer" ELSE "check"]

(* An archive's entry is put in quarantine, a list's is left to createSave, *)
(* which refuses it.                                                        *)
RejectEntry ==
  /\ request.step = "check" /\ Current.sha = Unsupported
  /\ IF request.kind = "list"
     THEN request' = [request EXCEPT !.step = "create"] /\ UNCHANGED rejected
     ELSE request' = WithResult("unsupported") /\ rejected' = rejected \cup {Current.sha}
  /\ UNCHANGED <<revisions, requests, mishaps>>

Refuse ==
  /\ request.step = "check" /\ Current.sha = NotAllowed /\ request.kind = "helper"
  /\ request' = WithResult("not allowed")
  /\ UNCHANGED <<revisions, rejected, requests, mishaps>>

(* Mutant: what the records were before the first entry.                    *)
CheckOnce ==
  /\ request.step = "check" /\ Current.sha # Unsupported
  /\ Current.sha = NotAllowed => request.kind # "helper"
  /\ LET found == Duplicate(Current)
     IN  request' = IF found = "none" \/ request.results # <<>>
                    THEN [request EXCEPT !.step = "create"]
                    ELSE WithResult(found)
  /\ UNCHANGED <<revisions, rejected, requests, mishaps>>

CheckDuplicate ==
  /\ request.step = "check" /\ Current.sha # Unsupported
  /\ Current.sha = NotAllowed => request.kind # "helper"
  /\ LET found == Duplicate(Current)
     IN  request' = IF found = "none" THEN [request EXCEPT !.step = "create"]
                    ELSE WithResult(found)
  /\ UNCHANGED <<revisions, rejected, requests, mishaps>>

CreateEntry ==
  /\ request.step = "create" /\ Current.sha # Unsupported
  /\ revisions' = Append(revisions, [slot |-> Current.slot, sha |-> Current.sha,
                                     version |-> NextSaveVersion(Current.slot)])
  /\ request' = WithResult("stored")
  /\ UNCHANGED <<rejected, requests, mishaps>>

CreateEntryFails ==
  /\ request.step = "create"
  /\ IF Current.sha = Unsupported
     THEN request' = WithResult("unsupported") /\ UNCHANGED mishaps
     ELSE /\ mishaps < MaxFaults
          /\ request' = WithResult("failed") /\ mishaps' = mishaps + 1
  /\ UNCHANGED <<revisions, rejected, requests>>

Answer ==
  /\ request.step = "answer"
  /\ request' = [request EXCEPT !.step = "done"]
  /\ UNCHANGED <<revisions, rejected, requests, mishaps>>

BulkNext ==
  \/ \E kind \in {"page", "helper", "list"}, n \in 1 .. MaxEntries :
       \E entries \in [1 .. n -> Entry] : Send(kind, entries)
  \/ Restart \/ RejectEntry \/ Refuse \/ CheckDuplicate \/ CreateEntry \/ CreateEntryFails \/ Answer

BulkSpec == BulkInit /\ [][BulkNext]_bulkVars
-----------------------------------------------------------------------------
BulkTypeOK ==
  /\ \A i \in DOMAIN revisions :
       revisions[i] \in [slot : Slots \cup {NoSlot}, sha : Shas, version : Nat \ {0}]
  /\ rejected \subseteq {Unsupported}
  /\ Range(request.results) \subseteq Outcome
  /\ Len(request.results) <= Len(request.entries)

(* However often a request is cut short and sent again, and whatever the    *)
(* requests before it held, at other paths too, each content is stored once *)
(* for the game (handleExpandedMultipartSaveUploads checks every entry      *)
(* against what its predecessors left). The answer names what became of     *)
(* every entry: what it says is stored, a duplicate or stale is among the   *)
(* revisions, an entry stored last is the newest of its slot, and what an    *)
(* archive had refused is in quarantine.                                    *)
RepeatedUploadsAddNothing ==
  /\ \A i, j \in DOMAIN revisions : revisions[i].sha = revisions[j].sha => i = j
  /\ request.step = "done" =>
       /\ Len(request.results) = Len(request.entries)
       /\ \A k \in DOMAIN request.results :
            /\ request.results[k] \in {"stored", "ignored", "stale"} =>
                 \E i \in DOMAIN revisions : revisions[i].sha = request.entries[k].sha
            /\ request.results[k] = "unsupported" /\ request.kind # "list" =>
                 request.entries[k].sha \in rejected
            /\ request.results[k] = "stored" /\ k = Len(request.results) =>
                 revisions[NewestOf(InSlot(request.entries[k].slot))].sha = request.entries[k].sha
=============================================================================
