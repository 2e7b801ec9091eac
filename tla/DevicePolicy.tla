---- MODULE DevicePolicy ----
(***************************************************************************)
(* What one device may sync.  A helper reports the sources of its          *)
(* configuration; an operator replaces them by sources of his own, which   *)
(* later reports must leave as they are.  A report is authorised with a    *)
(* copy of the device, and stored under app.mu some time later.            *)
(***************************************************************************)
EXTENDS Naturals, SequencesExt

CONSTANTS Reporters,       \* handlers of config reports and heartbeats
          SourceIds, Kinds,
          Systems,         \* what a source may name
          Supported,       \* those the server knows
          FPGA,            \* misterFPGAAllowedSystems
          MisterKinds,     \* kinds and device types bound to FPGA
          DeviceKind,      \* type of the device
          ReportedLists,   \* lists of sources a helper may report
          PolicyLists,     \* lists of sources an operator may set: in either,
                           \* several may have one id
          AllowLists,      \* allow lists an operator may set
          NoDevice, NoReport,
          MaxPatches

Source == [id : SourceIds, kind : Kinds, origin : {"helper", "backend"},
           systems : SUBSET Systems]

Device == [syncAll : BOOLEAN, allowed : SUBSET Systems, sources : Seq(Source)]

\* A report that is authorised, and the copy of the device it is with.
Report == [kind : {"config", "heartbeat"}, sources : ReportedLists, base : Device]

ASSUME DevicePolicyAssumption ==
    /\ Supported \subseteq Systems
    /\ ReportedLists \subseteq Seq(Source)
    /\ PolicyLists \subseteq Seq(Source)
    /\ NoDevice \notin Device
    /\ NoReport \notin Report
    /\ MaxPatches \in Nat

VARIABLES device,          \* app.devices[id]
          report,          \* per handler: a report that is authorised
          policy,          \* history: the sources the operator last set
          patches

policyVars == <<device, report, policy, patches>>

\* upsertDeviceLocked: a device enrols with everything allowed.
Enrolled == [syncAll |-> TRUE, allowed |-> {}, sources |-> <<>>]

PolicyTypeOK ==
    /\ device \in Device \cup {NoDevice}
    /\ report \in [Reporters -> Report \cup {NoReport}]
    /\ policy \in Seq(Source)
    /\ patches \in 0..MaxPatches

PolicyInit == /\ device = Enrolled
              /\ report = [h \in Reporters |-> NoReport]
              /\ policy = <<>>
              /\ patches = 0

----------------------------------------------------------------------------
(* The policy in force. *)

\* sourceCapabilitySet: a MiSTer, by the kind of the source or of the device,
\* syncs what its FPGA runs.
Capability(s) == IF {s.kind, DeviceKind} \cap MisterKinds # {} THEN FPGA
                                                                ELSE Supported

EffectiveSource(s) == s.systems \cap Supported \cap Capability(s)

\* effectiveDevicePolicy: the sources bound the device once it has any, and
\* the allow list bounds it unless everything is allowed.
Effective(d) ==
    LET bySource == UNION {EffectiveSource(d.sources[i]) : i \in DOMAIN d.sources}
        sourced  == IF d.sources = <<>> THEN Supported ELSE bySource
    IN  IF d.syncAll THEN sourced ELSE d.allowed \cap sourced

SystemAllowed(d, system) == system \in Effective(d)

\* runtimeSourcePoliciesForDevice: what the answer to a report tells the
\* helper to sync for a source.
Told(d, s) == EffectiveSource(s) \cap Effective(d)

----------------------------------------------------------------------------
(* Changing it. *)

MarkBackend(sources) ==
    [i \in DOMAIN sources |-> [sources[i] EXCEPT !.origin = "backend"]]

Replace(sources, s) ==
    LET i == CHOOSE j \in DOMAIN sources :
                /\ sources[j].id = s.id
                /\ \A k \in DOMAIN sources : sources[k].id = s.id => k <= j
    IN  [sources EXCEPT ![i] = s]

\* One of the operator's takes the place of the last with its id, or comes
\* after them.
Put(sources, s) ==
    IF \E i \in DOMAIN sources : sources[i].id = s.id THEN Replace(sources, s)
                                                     ELSE Append(sources, s)

\* mergeHelperReportedConfigSources: the sources of the report, into which the
\* operator's are put one by one.
Merge(reported, existing) ==
    LET merged[n \in 0..Len(existing)] ==
          IF n = 0 THEN reported
          ELSE IF existing[n].origin = "backend" THEN Put(merged[n - 1], existing[n])
          ELSE merged[n - 1]
    IN  merged[Len(existing)]

\* authorizeHelperSyncRequest answers with a copy of the device, made anew if
\* it is not there.
AuthoriseReport(h, kind, sources) ==
    LET d == IF device = NoDevice THEN Enrolled ELSE device IN
    /\ report[h] = NoReport
    /\ kind = "config" => sources # <<>>
    /\ device' = d
    /\ report' = [report EXCEPT ![h] = [kind |-> kind, sources |-> sources,
                                        base |-> d]]
    /\ UNCHANGED <<policy, patches>>

\* Mutant: storing into the copy the report was authorised with.
StoreIntoCopy(h) ==
    LET r == report[h] IN
    /\ r # NoReport
    /\ device' = [r.base EXCEPT !.sources = Merge(r.sources, @)]
    /\ report' = [report EXCEPT ![h] = NoReport]
    /\ UNCHANGED <<policy, patches>>

\* The copy counts only if the device was deleted in between.  A heartbeat may
\* come without sources, and leaves those there are.
StoreReport(h) ==
    LET r == report[h]
        d == IF device = NoDevice THEN r.base ELSE device
    IN  /\ r # NoReport
        /\ device' = IF r.kind = "heartbeat" /\ r.sources = <<>> THEN d
                     ELSE [d EXCEPT !.sources = Merge(r.sources, @)]
        /\ report' = [report EXCEPT ![h] = NoReport]
        /\ UNCHANGED <<policy, patches>>

Patch(next) ==
    /\ device # NoDevice
    /\ patches < MaxPatches
    /\ patches' = patches + 1
    /\ device' = next
    /\ UNCHANGED report

\* handleDevicesPatch, by the fields of its request.
PatchSources(sources) ==
    /\ Patch([device EXCEPT !.sources = MarkBackend(sources)])
    /\ policy' = MarkBackend(sources)

PatchAllowed(all, systems) ==
    /\ Patch([device EXCEPT !.syncAll = all, !.allowed = systems \cap Supported])
    /\ UNCHANGED policy

DeleteDevice ==
    /\ device # NoDevice
    /\ device' = NoDevice
    /\ policy' = <<>>
    /\ UNCHANGED <<report, patches>>

PolicyNext ==
    \/ \E h \in Reporters :
          \/ \E kind \in {"config", "heartbeat"}, s \in ReportedLists :
                AuthoriseReport(h, kind, s)
          \/ StoreReport(h)
    \/ \E s \in PolicyLists : PatchSources(s)
    \/ \E all \in BOOLEAN, systems \in AllowLists : PatchAllowed(all, systems)
    \/ DeleteDevice

PolicySpec == PolicyInit /\ [][PolicyNext]_policyVars

----------------------------------------------------------------------------
\* Whatever helpers report, and whenever their reports were authorised, each
\* source the operator set (of several with one id, the last) is in the device
\* as he set it, and the helper is told to sync for it what he allows and the
\* device can.
PolicySurvivesReports ==
    device # NoDevice =>
        \A i \in DOMAIN policy :
            LET s == policy[i] IN
            (\A j \in DOMAIN policy : policy[j].id = s.id => j <= i) =>
            /\ Contains(device.sources, s)
            /\ Told(device, s) =
                 (s.systems \cap Capability(s))
                   \cap (IF device.syncAll THEN Supported ELSE device.allowed)
====
