----------------------------- MODULE DeviceAuth -----------------------------
(***************************************************************************)
(* Devices and the app passwords helpers on them authenticate with. A      *)
(* device is known by its identity, a type and the fingerprint of a        *)
(* machine. A password is bound to the first device it is used on, and     *)
(* device and password name each other. While the operator keeps the       *)
(* enrolment window open, a helper without a password is given one.        *)
(*                                                                         *)
(* Every handler runs under app.mu and writes the state file at its end,   *)
(* ignoring an error of that write. The reports of a helper (its           *)
(* configuration, its heartbeat) take the mutex twice: they authenticate,  *)
(* and then store what they report over the device as it is by then.       *)
(***************************************************************************)
EXTENDS Naturals, FiniteSets

CONSTANTS
  Handlers,    (* Goroutines that may be in the middle of a report.        *)
  Identities,  (* Device type and fingerprint.                             *)
  Machine,     (* The fingerprint of an identity.                          *)
  NoIdentity,
  MaxDevices, MaxPasswords, MaxFaults    (* Bound the model.               *)

ASSUME IdentitiesAssumption == NoIdentity \notin Identities
ASSUME BoundsAssumption == MaxDevices \in Nat /\ MaxPasswords \in Nat /\ MaxFaults \in Nat

VARIABLES
  state,     (* app.devices, app.appPasswords, their counters, the window. *)
  stored,    (* The same in the state file.                                *)
  reports,   (* The device each handler authenticated, to be reported on.  *)
  faults,    (* How many writes of the file failed.                        *)
  raced      (* History: a device was deleted during a report about it.    *)

vars == <<state, stored, reports, faults, raced>>

None == 0
DeviceIds == 1 .. MaxDevices
PasswordIds == 1 .. MaxPasswords

Device == [identity : Identities \cup {NoIdentity}, password : PasswordIds \cup {None}]
NoDevice == [identity |-> NoIdentity, password |-> None]
AppPassword == [issued : BOOLEAN, device : DeviceIds \cup {None},
                identity : Identities \cup {NoIdentity}]
Unbound(issued) == [issued |-> issued, device |-> None, identity |-> NoIdentity]
NoPassword == Unbound(FALSE)
Report == [id : DeviceIds \cup {None}, base : Device]
NoReport == [id |-> None, base |-> NoDevice]

State == [
  devices      : [DeviceIds -> Device],
  passwords    : [PasswordIds -> AppPassword],
  nextDevice   : 1 .. MaxDevices + 1,
  nextPassword : 1 .. MaxPasswords + 1,
  window       : BOOLEAN]

EmptyState == [
  devices      |-> [d \in DeviceIds |-> NoDevice],
  passwords    |-> [k \in PasswordIds |-> NoPassword],
  nextDevice   |-> 1,
  nextPassword |-> 1,
  window       |-> FALSE]

TypeOK ==
  /\ state \in State /\ stored \in State
  /\ reports \in [Handlers -> Report]
  /\ faults \in 0 .. MaxFaults
  /\ raced \in BOOLEAN

Init ==
  /\ state = EmptyState /\ stored = EmptyState
  /\ reports = [h \in Handlers |-> NoReport]
  /\ faults = 0
  /\ raced = FALSE
-----------------------------------------------------------------------------
(***************************************************************************)
(* Devices and passwords of a state s.                                     *)
(***************************************************************************)
Devices(s) == {d \in DeviceIds : s.devices[d].identity # NoIdentity}
Passwords(s) == {k \in PasswordIds : s.passwords[k].issued}

(* The devices a walk over the map may find for an identity.               *)
Found(s, i) == {d \in Devices(s) : s.devices[d].identity = i}

(* The passwords a walk over the map may find bound to a device.           *)
BoundTo(s, d) == {k \in Passwords(s) : s.passwords[k].device = d}

(* Mutant: an identity that is known gets another device.                  *)
UpsertedTwice(s, i) ==
  [s EXCEPT !.devices[s.nextDevice] = [identity |-> i, password |-> None],
            !.nextDevice = @ + 1]

Upserted(s, i) ==
  IF Found(s, i) # {} THEN s
  ELSE [s EXCEPT !.devices[s.nextDevice] = [identity |-> i, password |-> None],
                 !.nextDevice = @ + 1]

Created(s) ==
  [s EXCEPT !.passwords[s.nextPassword] = Unbound(TRUE),
            !.nextPassword = @ + 1]

(* The password that d had is unbound, and deleted unless another device    *)
(* still names it; other devices forget k.                                 *)
Bound(s, k, d) ==
  LET previous == s.devices[d].password
      named == \E e \in DeviceIds \ {d} : s.devices[e].password = previous
  IN [s EXCEPT
       !.passwords = [q \in PasswordIds |->
          IF q = k
            THEN [issued |-> TRUE, device |-> d, identity |-> s.devices[d].identity]
          ELSE IF q = previous /\ @[q].issued
            THEN Unbound(named)
          ELSE @[q]],
       !.devices = [e \in DeviceIds |->
          IF e = d THEN [@[e] EXCEPT !.password = k]
          ELSE IF @[e].password = k THEN [@[e] EXCEPT !.password = None]
          ELSE @[e]]]

(* Mutant: a password moves to the machine that uses it.                   *)
IdentityFollowing(k, i) ==
  IF i # NoIdentity THEN i ELSE state.passwords[k].identity

(* The identity a helper acts under that shows password k and says it is i: *)
(* the one k is bound to, if that is of the same machine.                  *)
Identity(k, i) ==
  LET bound == state.passwords[k].identity
  IN IF bound = NoIdentity \/ i = bound THEN i
     ELSE IF i = NoIdentity \/ Machine[i] = Machine[bound] THEN bound
     ELSE NoIdentity

(* A helper that acts as device d with password k is turned away: d has     *)
(* another password, or k is bound to a device of another identity.        *)
Conflict(s, k, d) ==
  \/ BoundTo(s, d) \ {k} # {}
  \/ \E e \in Devices(s) \ {d} : /\ s.passwords[k].device = e
                                 /\ s.devices[e].identity # s.devices[d].identity
(* What a start makes of s (loadSecurityDeviceState and then               *)
(* applyBootstrapDemoPolicy): the first id is given out again if it was    *)
(* the only one and nothing is left.                                       *)
Started(s) ==
  [s EXCEPT
    !.nextDevice = IF @ = 2 /\ s.devices = EmptyState.devices THEN 1 ELSE @,
    !.nextPassword = IF @ = 2 /\ s.passwords = EmptyState.passwords THEN 1 ELSE @]
-----------------------------------------------------------------------------
(* persistSecurityDeviceStateLocked; its error is ignored.                 *)
Save(s) ==
  /\ state' = s
  /\ \/ stored' = s /\ UNCHANGED faults
     \/ faults < MaxFaults /\ faults' = faults + 1 /\ UNCHANGED stored

(* The request is done, or it is a report and goes on with a copy of d.    *)
Continue(s, d) ==
  \/ UNCHANGED reports
  \/ \E h \in Handlers :
       /\ reports[h] = NoReport
       /\ reports' = [reports EXCEPT ![h] = [id |-> d, base |-> s.devices[d]]]

DeviceRoom(i) == Found(state, i) = {} => state.nextDevice <= MaxDevices
PasswordRoom == state.nextPassword <= MaxPasswords

AuthenticateHelperWithoutKey(i) ==
  LET s == Upserted(state, i) IN
  /\ state.window /\ DeviceRoom(i)
  /\ \E d \in Found(s, i) :
       \/ /\ BoundTo(s, d) # {}
          /\ Save(s) /\ Continue(s, d)
       \/ /\ BoundTo(s, d) = {}
          /\ PasswordRoom
          /\ LET t == Bound(Created(s), s.nextPassword, d)
             IN Save(t) /\ Continue(t, d)
  /\ UNCHANGED raced

(* A 409 leaves a device that was just made in memory.                     *)
AuthenticateHelperKey(k, said) ==
  LET i == Identity(k, said)
      s == Upserted(state, i)
  IN /\ k \in Passwords(state) /\ i # NoIdentity /\ DeviceRoom(i)
     /\ \E d \in Found(s, i) :
          \/ /\ Conflict(s, k, d)
             /\ state' = s
             /\ UNCHANGED <<stored, reports, faults>>
          \/ /\ ~Conflict(s, k, d)
             /\ Save(Bound(s, k, d)) /\ Continue(Bound(s, k, d), d)
     /\ UNCHANGED raced

(* Mutant: a report stores the device it authenticated.                    *)
StoreReportFromBase(h) ==
  LET r == reports[h] IN
  /\ r # NoReport
  /\ Save([state EXCEPT !.devices[r.id] = r.base])
  /\ reports' = [reports EXCEPT ![h] = NoReport]
  /\ UNCHANGED raced

(* storeDeviceConfigSnapshotLocked, storeDeviceHeartbeatLocked: the device  *)
(* as it is now, or the one authenticated if there is none any more.       *)
StoreReport(h) ==
  LET r == reports[h]
      d == IF r.id \in Devices(state) THEN state.devices[r.id] ELSE r.base
  IN /\ r # NoReport
     /\ Save([state EXCEPT !.devices[r.id] = d])
     /\ reports' = [reports EXCEPT ![h] = NoReport]
     /\ UNCHANGED raced

(* An enrolment through the API: a device that had a password gets another. *)
HandleAuthTokenAppPassword(i) ==
  LET s == Upserted(state, i) IN
  /\ state.window /\ DeviceRoom(i) /\ PasswordRoom
  /\ \E d \in Found(s, i) :
       \/ /\ BoundTo(s, d) = {}
          /\ Save(Bound(Created(s), s.nextPassword, d))
       \/ \E old \in BoundTo(s, d) :
            Save(Bound([Created(s) EXCEPT !.passwords[old] = NoPassword], s.nextPassword, d))
  /\ UNCHANGED <<reports, raced>>

(* Signing in to the web page may name a device.                           *)
HandleAuthLogin(i) ==
  /\ DeviceRoom(i)
  /\ Save(Upserted(state, i))
  /\ UNCHANGED <<reports, raced>>

HandleAuthAppPasswordsCreate ==
  /\ PasswordRoom
  /\ Save(Created(state))
  /\ UNCHANGED <<reports, raced>>

(* Mutant: the devices go on naming the password.                          *)
DeleteKeepingLinks(k) ==
  /\ k \in Passwords(state)
  /\ Save([state EXCEPT !.passwords[k] = NoPassword])
  /\ UNCHANGED <<reports, raced>>

(* Mutant: the deletion is not written.                                    *)
DeleteUnsaved(k) ==
  /\ k \in Passwords(state)
  /\ state' = [state EXCEPT !.passwords[k] = NoPassword]
  /\ UNCHANGED <<stored, reports, faults, raced>>

HandleAuthAppPasswordsDelete(k) ==
  /\ k \in Passwords(state)
  /\ Save([state EXCEPT
       !.passwords[k] = NoPassword,
       !.devices = [d \in DeviceIds |->
          IF @[d].password = k \/ state.passwords[k].device = d
            THEN [@[d] EXCEPT !.password = None] ELSE @[d]]])
  /\ UNCHANGED <<reports, raced>>

(* Its password stays, with the identity it is bound to.                   *)
HandleDevicesDelete(d) ==
  /\ d \in Devices(state)
  /\ Save([state EXCEPT
       !.devices[d] = NoDevice,
       !.passwords = [k \in PasswordIds |->
          IF @[k].device = d THEN [@[k] EXCEPT !.device = None] ELSE @[k]]])
  /\ raced' = (raced \/ \E h \in Handlers : reports[h].id = d)
  /\ UNCHANGED reports

HandleAuthAppPasswordsAutoEnable ==
  /\ Save([state EXCEPT !.window = TRUE])
  /\ UNCHANGED <<reports, raced>>

(* Its time is over, for the file as well.                                 *)
WindowEnds ==
  /\ state.window \/ stored.window
  /\ state' = [state EXCEPT !.window = FALSE]
  /\ stored' = [stored EXCEPT !.window = FALSE]
  /\ UNCHANGED <<reports, faults, raced>>

Restart ==
  /\ state # Started(stored) \/ \E h \in Handlers : reports[h] # NoReport
  /\ state' = Started(stored)
  /\ reports' = [h \in Handlers |-> NoReport]
  /\ UNCHANGED <<stored, faults, raced>>

Next ==
  \/ \E i \in Identities :
       \/ AuthenticateHelperWithoutKey(i)
       \/ HandleAuthTokenAppPassword(i)
       \/ HandleAuthLogin(i)
  \/ \E k \in PasswordIds :
       \/ \E i \in Identities \cup {NoIdentity} : AuthenticateHelperKey(k, i)
       \/ HandleAuthAppPasswordsDelete(k)
  \/ \E d \in DeviceIds : HandleDevicesDelete(d)
  \/ \E h \in Handlers : StoreReport(h)
  \/ HandleAuthAppPasswordsCreate
  \/ HandleAuthAppPasswordsAutoEnable
  \/ WindowEnds
  \/ Restart

Spec == Init /\ [][Next]_vars
-----------------------------------------------------------------------------
(***************************************************************************)
(* Properties.                                                             *)
(***************************************************************************)
(* While no write has failed a restart brings back what memory says: each  *)
(* handler that changes anything saves it, and the devices made by a       *)
(* request that is then turned away (helper_auth.go:395-402) do not exist. *)
MemoryIsSaved == faults = 0 => Started(stored) = Started(state)

(* The device a password is bound to exists, names it, and is of the       *)
(* identity the password keeps: so no two passwords share a device, and    *)
(* the third check of authenticateHelperKey never turns anybody away.      *)
Linked(s) ==
  \A k \in Passwords(s) : s.passwords[k].device # None =>
    LET d == s.passwords[k].device IN
    /\ d \in Devices(s)
    /\ s.devices[d].password = k
    /\ s.devices[d].identity = s.passwords[k].identity

PasswordsNameTheirDevice == Linked(state)

(* The password a device names is bound to it, unless the device was once  *)
(* deleted while it reported (storeDeviceConfigSnapshotLocked).            *)
DevicesNameTheirPassword ==
  ~raced => \A d \in Devices(state) : state.devices[d].password # None =>
    /\ state.devices[d].password \in Passwords(state)
    /\ state.passwords[state.devices[d].password].device = d

(* With the same exception, a password that is bound works: its helper is  *)
(* not answered 409, in whatever order the maps are walked.                *)
BoundPasswordsAreAccepted ==
  ~raced => \A k \in Passwords(state) : state.passwords[k].device # None =>
    \A d \in Found(state, state.passwords[k].identity) : ~Conflict(state, k, d)

(* With the same exception, and while no write has failed, a password that *)
(* was used on one machine is never free to be used on another: it keeps   *)
(* its machine until it is deleted, whatever becomes of its device.        *)
PasswordsKeepTheirMachine ==
  [][\A k \in Passwords(state) :
       (/\ ~raced' /\ faults' = 0
        /\ state.passwords[k].identity # NoIdentity
        /\ k \in Passwords(state'))
         => /\ state'.passwords[k].identity # NoIdentity
            /\ Machine[state'.passwords[k].identity] = Machine[state.passwords[k].identity]]_vars

(* "This removes ... from this server ... this helper must re-enroll before *)
(* it can sync again" (DevicesPage.tsx:98): the password of a deleted      *)
(* device is not taken any more.                                           *)
DeletedHelpersReenroll ==
  [][\A k \in Passwords(state) :
       (/\ state.passwords[k].identity # NoIdentity
        /\ state.passwords[k].device = None)
          => state'.passwords[k].device = None]_vars
=============================================================================
