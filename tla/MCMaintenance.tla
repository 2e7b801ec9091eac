--------------------------- MODULE MCMaintenance ---------------------------
(***************************************************************************)
(* Instances for TLC of the machines that keep saves beside the save store *)
(* and of those that maintain it.  This module extends controller paks,    *)
(* rescan and cleanup, the layout commands, the quarantine and the uploads *)
(* of many saves at once; it makes instances of a single line of paks with *)
(* three revisions, beside two lines with two, and of a PlayStation 2 card *)
(* shared by two devices.  A behaviour is of one of them; the others stay  *)
(* as they began.                                                          *)
(***************************************************************************)
EXTENDS N64ControllerPak, SaveCleanup, LayoutMigration, Quarantine, BulkUpload

CONSTANTS c1, c2,              \* contents
          first, second,       \* two lines, devices, handlers or slots
          pcsx2, ff7,
          old, k1, k2, psx,    \* keys and titles
          spoilt,
          Shared, Operator, Nobody

MCTrackOf == [k \in Keys |-> IF k \in {old, psx} THEN k ELSE k1]
MCDetected == [k \in Keys |-> IF k = old THEN k1 ELSE k]

OneLine == INSTANCE N64ControllerPak WITH
  Lines <- {first}, MaxRevisions <- 3, MaxPakFaults <- 1

VARIABLES state, inFile, records, asked, held, faults
cardVars == <<state, inFile, records, asked, held, faults>>
Card == INSTANCE PlayStationSync WITH
  Devices <- Lines, Profiles <- {pcsx2}, Position <- (pcsx2 :> 1), Logicals <- {ff7},
  Rank <- (ff7 :> 1), Home <- (ff7 :> Shared),
  ProfileOf <- [d \in Lines |-> pcsx2], Capacity <- 2,
  MaxRebuilds <- 3, MaxRevisions <- 2, MaxRequests <- 2, MaxFaults <- 0,
  stored <- inFile, requests <- asked

VARIABLE part

PartInit ==
  /\ part \in {"one line", "two lines", "card", "saves", "layout", "quarantine",
              "bulk"}
  /\ IF part = "one line" THEN OneLine!PaksInit ELSE PaksInit
  /\ Card!Init
  /\ CleanupInit /\ \A i \in tree :
       save[i].at = i /\ (part # "saves" => save[i].key = k1 /\ save[i].sha = spoilt)
  /\ IF part = "layout" THEN LayoutInit
     ELSE LayoutInit /\ \A s \in Saves : home[s] = Legacy /\ title[s] = k1
  /\ QuarantineInit /\ BulkInit

PartNext ==
  /\ UNCHANGED part
  /\ \/ /\ part = "one line" /\ OneLine!PaksNext
        /\ UNCHANGED <<cardVars, cleanupVars, layoutVars, quarantineVars, bulkVars>>
     \/ /\ part = "two lines" /\ PaksNext
        /\ UNCHANGED <<cardVars, cleanupVars, layoutVars, quarantineVars, bulkVars>>
     \/ /\ part = "card" /\ Card!Next
        /\ UNCHANGED <<pakVars, cleanupVars, layoutVars, quarantineVars, bulkVars>>
     \/ /\ part = "saves" /\ CleanupNext
        /\ UNCHANGED <<pakVars, cardVars, layoutVars, quarantineVars, bulkVars>>
     \/ /\ part = "layout" /\ LayoutNext
        /\ UNCHANGED <<pakVars, cardVars, cleanupVars, quarantineVars, bulkVars>>
     \/ /\ part = "quarantine" /\ QuarantineNext
        /\ UNCHANGED <<pakVars, cardVars, cleanupVars, layoutVars, bulkVars>>
     \/ /\ part = "bulk" /\ BulkNext
        /\ UNCHANGED <<pakVars, cardVars, cleanupVars, layoutVars, quarantineVars>>

Parts == PartInit /\ [][PartNext]_<<pakVars, cardVars, cleanupVars, layoutVars,
                                   quarantineVars, bulkVars, part>>

Interchangeable == Permutations({c1, c2}) \cup Permutations({first, second})

TypesOK ==
  CASE part = "one line" -> OneLine!PaksTypeOK
    [] part = "two lines" -> PaksTypeOK
    [] part = "card" -> Card!TypeOK
    [] part = "saves" -> CleanupTypeOK
    [] part = "layout" -> LayoutTypeOK
    [] part = "quarantine" -> QuarantineTypeOK
    [] part = "bulk" -> BulkTypeOK
\* Of the machines extended, the run checks the definitions of their modules;
\* they hold in the first state, as which the machine stays in other parts.
\* PakSavesAreKept, RevisionFilesRemain and PaksShowActiveSaves do not depend
\* on lines or bounds: those of N64ControllerPak are for both parts.
DeletedSavesStayDeleted == Card!DeletedSavesStayDeleted
RemovalsMatchDownloads == Card!RemovalsMatchDownloads
=============================================================================
