-------------------------- MODULE DeviceAuthProofs --------------------------
(***************************************************************************)
(* The links between passwords and devices hold in every reachable state   *)
(* of DeviceAuth, whatever is deleted during a report and whichever writes *)
(* of the state file fail.                                                 *)
(*                                                                         *)
(* They are kept by a property of one state, Sound, that memory and file   *)
(* both have: so a restart keeps it too. That a new device cannot take the *)
(* place of one a password is bound to needs Numbered: ids are given out   *)
(* in order, also to the devices that reports may bring back.              *)
(*                                                                         *)
(* The second part proves what holds until a device is deleted in the      *)
(* middle of a report about it: devices name their passwords back, and no  *)
(* two have one identity (Whole). Then a bound password always works, and  *)
(* stays with its machine.                                                 *)
(***************************************************************************)
EXTENDS DeviceAuth, TLAPS

Numbered(s) == \A d \in DeviceIds : d >= s.nextDevice => s.devices[d] = NoDevice

Sound(s) == s \in State /\ Linked(s) /\ Numbered(s)

ReportsAreOfDevices ==
  \A h \in Handlers : reports[h] # NoReport =>
    /\ reports[h].id \in DeviceIds
    /\ reports[h].id < state.nextDevice
    /\ reports[h].base.identity # NoIdentity

IInv == TypeOK /\ Sound(state) /\ Sound(stored) /\ ReportsAreOfDevices

USE DEF None
-----------------------------------------------------------------------------
(***************************************************************************)
(* The operations on one state.                                            *)
(***************************************************************************)
(* The state before the first request is sound.                            *)
LEMMA EmptyIsSound == Sound(EmptyState)
  BY BoundsAssumption
  DEF Sound, State, EmptyState, Linked, Numbered, Passwords, NoPassword, Unbound, NoDevice,
      Device, AppPassword, DeviceIds, PasswordIds

(* Looking a device up or making it keeps the links, uses up at most one   *)
(* id, and leaves the passwords alone (upsertDeviceLocked).                *)
LEMMA UpsertedIsSound ==
  ASSUME NEW s, Sound(s), NEW i \in Identities,
         Found(s, i) = {} => s.nextDevice <= MaxDevices
  PROVE  /\ Sound(Upserted(s, i))
         /\ Upserted(s, i).nextDevice >= s.nextDevice
         /\ Upserted(s, i).nextPassword = s.nextPassword
         /\ Upserted(s, i).passwords = s.passwords
<1> DEFINE u == Upserted(s, i)
<1>1. CASE Found(s, i) # {}
  BY <1>1, BoundsAssumption DEF Upserted, Sound, State
<1>2. CASE Found(s, i) = {}
  <2> DEFINE new == [identity |-> i, password |-> None]
  <2>0. s \in State /\ s.nextDevice \in DeviceIds
    BY <1>2, BoundsAssumption DEF Sound, State, DeviceIds
  <2>1. u = [s EXCEPT !.devices[s.nextDevice] = new, !.nextDevice = @ + 1]
    BY <1>2 DEF Upserted
  <2>2. /\ u.devices = [s.devices EXCEPT ![s.nextDevice] = new]
        /\ u.passwords = s.passwords /\ u.nextPassword = s.nextPassword
        /\ u.nextDevice = s.nextDevice + 1 /\ u.window = s.window
    BY <2>0, <2>1 DEF State
  <2>3. u \in State
    <3>1. new \in Device
      BY DEF Device
    <3>2. u.devices \in [DeviceIds -> Device]
      BY <2>0, <2>2, <3>1 DEF State
    <3>3. u.nextDevice \in 1 .. MaxDevices + 1
      BY <2>0, <2>2, BoundsAssumption DEF DeviceIds
    <3> QED BY <2>0, <2>1, <2>2, <3>2, <3>3 DEF State
  <2>4. Linked(u)
    <3> SUFFICES ASSUME NEW k \in Passwords(u), u.passwords[k].device # None
                 PROVE  /\ u.passwords[k].device \in Devices(u)
                        /\ u.devices[u.passwords[k].device].password = k
                        /\ u.devices[u.passwords[k].device].identity = u.passwords[k].identity
      BY DEF Linked
    <3> DEFINE d == s.passwords[k].device
    <3>1. d \in Devices(s) /\ s.devices[d].password = k
          /\ s.devices[d].identity = s.passwords[k].identity
      BY <2>2 DEF Sound, Linked, Passwords
    <3>2. d # s.nextDevice
      BY <2>0, <3>1 DEF Sound, Numbered, Devices, NoDevice, DeviceIds
    <3>3. u.devices[d] = s.devices[d]
      BY <2>0, <2>2, <3>1, <3>2 DEF Devices, State
    <3> QED BY <2>2, <3>1, <3>3 DEF Devices
  <2>5. Numbered(u)
    BY <2>0, <2>2 DEF Sound, Numbered, State, DeviceIds
  <2> QED BY <2>0, <2>2, <2>3, <2>4, <2>5, BoundsAssumption DEF Sound, State
<1> QED BY <1>1, <1>2

(* So does giving out a password (createAppPasswordLocked).                *)
LEMMA CreatedIsSound ==
  ASSUME NEW s, Sound(s), s.nextPassword <= MaxPasswords
  PROVE  /\ Sound(Created(s))
         /\ Created(s).devices = s.devices /\ Created(s).nextDevice = s.nextDevice
         /\ s.nextPassword \in PasswordIds
         /\ \A d \in DeviceIds : BoundTo(Created(s), d) \subseteq BoundTo(s, d)
<1> DEFINE c == Created(s)
           new == Unbound(TRUE)
<1>1. s \in State /\ s.nextPassword \in PasswordIds
  BY BoundsAssumption DEF Sound, State, PasswordIds
<1>2. /\ c.passwords = [s.passwords EXCEPT ![s.nextPassword] = new]
      /\ c.devices = s.devices /\ c.nextDevice = s.nextDevice /\ c.window = s.window
      /\ c.nextPassword = s.nextPassword + 1
  BY <1>1 DEF Created, State
<1>3. new \in AppPassword /\ new.device = None
  BY DEF AppPassword, Unbound
<1>4. c \in State
  <2>1. c.passwords \in [PasswordIds -> AppPassword]
    BY <1>1, <1>2, <1>3 DEF State
  <2>2. c.nextPassword \in 1 .. MaxPasswords + 1
    BY <1>1, <1>2, BoundsAssumption DEF PasswordIds
  <2> QED BY <1>1, <1>2, <2>1, <2>2 DEF State, Created
<1>5. \A k \in PasswordIds : c.passwords[k].device # None => c.passwords[k] = s.passwords[k]
  BY <1>1, <1>2, <1>3 DEF State
<1>6. Linked(c)
  <2> SUFFICES ASSUME NEW k \in Passwords(c), c.passwords[k].device # None
               PROVE  /\ c.passwords[k].device \in Devices(c)
                      /\ c.devices[c.passwords[k].device].password = k
                      /\ c.devices[c.passwords[k].device].identity = c.passwords[k].identity
    BY DEF Linked
  <2>1. k \in Passwords(s) /\ s.passwords[k] = c.passwords[k]
    BY <1>5 DEF Passwords
  <2> QED BY <1>2, <2>1 DEF Linked, Sound, Devices
<1>7. Numbered(c)
  BY <1>2 DEF Numbered, Sound
<1>8. \A d \in DeviceIds : BoundTo(c, d) \subseteq BoundTo(s, d)
  BY <1>5, BoundsAssumption DEF BoundTo, Passwords, DeviceIds
<1> QED BY <1>1, <1>2, <1>4, <1>6, <1>7, <1>8 DEF Sound

(* And binding a password to a device that has no other                     *)
(* (bindAppPasswordToDeviceLocked).                                        *)
LEMMA BoundIsSound ==
  ASSUME NEW s, Sound(s), NEW k \in PasswordIds, NEW d \in Devices(s),
         BoundTo(s, d) \ {k} = {}
  PROVE  Sound(Bound(s, k, d)) /\ Bound(s, k, d).nextDevice = s.nextDevice
                               /\ d \in Devices(Bound(s, k, d))
<1> DEFINE b == Bound(s, k, d)
           previous == s.devices[d].password
           named == \E e \in DeviceIds \ {d} : s.devices[e].password = previous
           P(q) == IF q = k
                     THEN [issued |-> TRUE, device |-> d, identity |-> s.devices[d].identity]
                   ELSE IF q = previous /\ s.passwords[q].issued
                     THEN Unbound(named)
                   ELSE s.passwords[q]
           D(e) == IF e = d THEN [s.devices[e] EXCEPT !.password = k]
                   ELSE IF s.devices[e].password = k THEN [s.devices[e] EXCEPT !.password = None]
                   ELSE s.devices[e]
<1>1. s \in State /\ d \in DeviceIds /\ d # None /\ k # None
  BY BoundsAssumption DEF Sound, Devices, DeviceIds, PasswordIds
<1>2. /\ b.passwords = [q \in PasswordIds |-> P(q)]
      /\ b.devices = [e \in DeviceIds |-> D(e)]
      /\ b.nextDevice = s.nextDevice /\ b.nextPassword = s.nextPassword /\ b.window = s.window
      /\ b = [s EXCEPT !.passwords = b.passwords, !.devices = b.devices]
  BY <1>1 DEF Bound, State
<1>3. \A q \in PasswordIds :
        P(q) \in AppPassword /\ (q # k /\ P(q).device # None => P(q) = s.passwords[q])
  <2> SUFFICES ASSUME NEW q \in PasswordIds
               PROVE  P(q) \in AppPassword /\ (q # k /\ P(q).device # None => P(q) = s.passwords[q])
    OBVIOUS
  <2>1. s.passwords[q] \in AppPassword /\ s.devices[d] \in Device
    BY <1>1 DEF State
  <2>2. named \in BOOLEAN
    OBVIOUS
  <2> HIDE DEF named, previous
  <2>3. Unbound(named) \in AppPassword /\ Unbound(named).device = None
    BY <2>2 DEF AppPassword, Unbound
  <2>4. CASE q = k
    BY <1>1, <2>1, <2>4 DEF AppPassword, Device
  <2>5. CASE q # k /\ q = previous /\ s.passwords[q].issued
    BY <2>3, <2>5
  <2>6. CASE q # k /\ ~(q = previous /\ s.passwords[q].issued)
    BY <2>1, <2>6
  <2> QED BY <2>4, <2>5, <2>6
<1>4. \A e \in DeviceIds : D(e) \in Device /\ D(e).identity = s.devices[e].identity
  <2> SUFFICES ASSUME NEW e \in DeviceIds
               PROVE  D(e) \in Device /\ D(e).identity = s.devices[e].identity
    OBVIOUS
  <2>1. s.devices[e] \in Device
    BY <1>1 DEF State
  <2> QED BY <2>1 DEF Device
<1> HIDE DEF P, D, b, previous, named
<1>5. b \in State
  <2>1. b.passwords \in [PasswordIds -> AppPassword] /\ b.devices \in [DeviceIds -> Device]
    BY <1>2, <1>3, <1>4
  <2> QED BY <1>1, <1>2, <2>1 DEF State
<1>6. Devices(b) = Devices(s)
  BY <1>2, <1>4 DEF Devices
<1>7. Linked(b)
  <2> SUFFICES ASSUME NEW q \in Passwords(b), b.passwords[q].device # None
               PROVE  /\ b.passwords[q].device \in Devices(b)
                      /\ b.devices[b.passwords[q].device].password = q
                      /\ b.devices[b.passwords[q].device].identity = b.passwords[q].identity
    BY DEF Linked
  <2>0. /\ q \in PasswordIds /\ b.passwords[q] = P(q)
        /\ b.passwords[q].issued /\ b.passwords[q].device # None
    BY <1>2 DEF Passwords
  <2>1. CASE q = k
    <3>1. P(q) = [issued |-> TRUE, device |-> d, identity |-> s.devices[d].identity]
      BY <2>1 DEF P
    <3>2. b.devices[d] = D(d) /\ D(d).password = k /\ D(d).identity = s.devices[d].identity
      <4>1. s.devices[d] \in Device
        BY <1>1 DEF State
      <4>2. D(d).password = k
        BY <4>1 DEF D, Device
      <4> QED BY <1>1, <1>2, <1>4, <4>2
    <3>3. b.passwords[q].device = d /\ b.passwords[q].identity = s.devices[d].identity
      BY <2>0, <3>1
    <3> QED BY <2>1, <3>2, <3>3, <1>6
  <2>2. CASE q # k
    <3> DEFINE e == s.passwords[q].device
    <3>0. P(q) = s.passwords[q]
      BY <1>3, <2>0, <2>2
    <3>1. P(q) = s.passwords[q] /\ q \in Passwords(s) /\ e # None
      BY <2>0, <3>0 DEF Passwords
    <3>2. e \in Devices(s) /\ s.devices[e].password = q
          /\ s.devices[e].identity = s.passwords[q].identity
      BY <3>1 DEF Sound, Linked
    <3>3. e # d
      BY <2>2, <3>1 DEF BoundTo
    <3>4. b.devices[e] = s.devices[e]
      BY <1>2, <2>2, <3>2, <3>3 DEF Devices, D
    <3> QED BY <1>6, <2>0, <3>1, <3>2, <3>4
  <2> QED BY <2>1, <2>2
<1>8. Numbered(b)
  <2> SUFFICES ASSUME NEW e \in DeviceIds, e >= b.nextDevice
               PROVE  b.devices[e] = NoDevice
    BY DEF Numbered
  <2>1. s.devices[e] = NoDevice
    BY <1>2 DEF Sound, Numbered
  <2>2. e # d
    BY <2>1 DEF Devices, NoDevice
  <2> QED BY <1>1, <1>2, <2>1, <2>2 DEF NoDevice, D
<1> QED BY <1>2, <1>5, <1>6, <1>7, <1>8 DEF Sound, b
-----------------------------------------------------------------------------
(***************************************************************************)
(* The actions.                                                            *)
(***************************************************************************)
(* What most actions do: a sound state replaces memory, and the file too   *)
(* unless its write fails; a report may begin with a device of it.         *)
LEMMA SaveKeepsInvariant ==
  ASSUME IInv, NEW s, Sound(s), s.nextDevice >= state.nextDevice, Save(s),
         \/ UNCHANGED reports
         \/ \E d \in Devices(s) : Continue(s, d)
         \/ \E h \in Handlers : reports' = [reports EXCEPT ![h] = NoReport],
         raced' \in BOOLEAN
  PROVE  IInv'
<1>1. state' = s /\ (stored' = s \/ stored' = stored) /\ faults' \in 0 .. MaxFaults
  BY BoundsAssumption DEF Save, IInv, TypeOK
<1>2. Sound(state)' /\ Sound(stored)'
  <2>1. Sound(state') /\ Sound(stored')
    BY <1>1 DEF IInv
  <2> QED BY <2>1 DEF Sound, Linked, Numbered, Passwords, Devices, State
<1>3. \A h \in Handlers :
        \/ reports'[h] = reports[h]
        \/ reports'[h] = NoReport
        \/ \E d \in Devices(s) : reports'[h] = [id |-> d, base |-> s.devices[d]]
  BY DEF Continue, IInv, TypeOK
<1>4. reports' \in [Handlers -> Report]
  <2>1. NoReport \in Report
    BY DEF NoReport, Report, NoDevice, Device
  <2>2. ASSUME NEW d \in Devices(s)
        PROVE  [id |-> d, base |-> s.devices[d]] \in Report
    BY DEF Report, Devices, Sound, State
  <2> QED BY <2>1, <2>2 DEF Continue, IInv, TypeOK
<1>5. ReportsAreOfDevices'
  <2> SUFFICES ASSUME NEW h \in Handlers, reports'[h] # NoReport
               PROVE  /\ reports'[h].id \in DeviceIds
                      /\ reports'[h].id < s.nextDevice
                      /\ reports'[h].base.identity # NoIdentity
    BY <1>1 DEF ReportsAreOfDevices
  <2>1. CASE reports'[h] = reports[h]
    BY <2>1, BoundsAssumption DEF IInv, TypeOK, ReportsAreOfDevices, Sound, State, DeviceIds
  <2>2. ASSUME NEW d \in Devices(s), reports'[h] = [id |-> d, base |-> s.devices[d]]
        PROVE  /\ reports'[h].id \in DeviceIds
               /\ reports'[h].id < s.nextDevice
               /\ reports'[h].base.identity # NoIdentity
    <3>1. d \in DeviceIds /\ s.devices[d].identity # NoIdentity
      BY DEF Devices
    <3>2. ~(d >= s.nextDevice)
      BY <3>1 DEF Sound, Numbered, NoDevice
    <3> QED BY <2>2, <3>1, <3>2, BoundsAssumption DEF Sound, State, DeviceIds
  <2> QED BY <1>3, <2>1, <2>2
<1> QED BY <1>1, <1>2, <1>4, <1>5 DEF IInv, TypeOK, Sound

LEMMA WithoutKeyKeepsInvariant ==
  ASSUME IInv, NEW i \in Identities, AuthenticateHelperWithoutKey(i)
  PROVE  IInv'
<1> DEFINE s == Upserted(state, i)
<1>1. /\ Sound(s) /\ s.nextDevice >= state.nextDevice
      /\ s.nextPassword = state.nextPassword
  BY UpsertedIsSound DEF IInv, AuthenticateHelperWithoutKey, DeviceRoom
<1>2. raced' \in BOOLEAN
  BY DEF AuthenticateHelperWithoutKey, IInv, TypeOK
<1>3. PICK d \in Found(s, i) :
        \/ Save(s) /\ Continue(s, d)
        \/ /\ BoundTo(s, d) = {} /\ PasswordRoom
           /\ Save(Bound(Created(s), s.nextPassword, d))
           /\ Continue(Bound(Created(s), s.nextPassword, d), d)
  BY DEF AuthenticateHelperWithoutKey
<1>4. d \in Devices(s)
  BY DEF Found
<1> HIDE DEF s
<1>5. CASE Save(s) /\ Continue(s, d)
  BY <1>1, <1>2, <1>4, <1>5, SaveKeepsInvariant
<1>6. CASE /\ BoundTo(s, d) = {} /\ PasswordRoom
           /\ Save(Bound(Created(s), s.nextPassword, d))
           /\ Continue(Bound(Created(s), s.nextPassword, d), d)
  <2> DEFINE t == Bound(Created(s), s.nextPassword, d)
  <2>1. /\ Sound(Created(s)) /\ Created(s).nextDevice = s.nextDevice
        /\ s.nextPassword \in PasswordIds /\ d \in Devices(Created(s))
        /\ BoundTo(Created(s), d) = {}
    BY <1>1, <1>4, <1>6, CreatedIsSound DEF PasswordRoom, Devices
  <2>2. Sound(t) /\ t.nextDevice = s.nextDevice /\ d \in Devices(t)
    BY <2>1, BoundIsSound
  <2> QED BY <1>1, <1>2, <1>6, <2>2, SaveKeepsInvariant
<1> QED BY <1>3, <1>5, <1>6

LEMMA HelperKeyKeepsInvariant ==
  ASSUME IInv, NEW k \in PasswordIds, NEW said \in Identities \cup {NoIdentity},
         AuthenticateHelperKey(k, said)
  PROVE  IInv'
<1> DEFINE i == Identity(k, said)
           s == Upserted(state, i)
<1>1. i \in Identities
  <2>1. state.passwords[k].identity \in Identities \cup {NoIdentity}
    BY DEF IInv, TypeOK, State, AppPassword
  <2> QED BY <2>1 DEF Identity, AuthenticateHelperKey
<1>2. /\ Sound(s) /\ s.nextDevice >= state.nextDevice
  BY <1>1, UpsertedIsSound DEF IInv, AuthenticateHelperKey, DeviceRoom
<1>3. raced' = raced /\ raced' \in BOOLEAN
  BY DEF AuthenticateHelperKey, IInv, TypeOK
<1>4. PICK d \in Found(s, i) :
        \/ state' = s /\ UNCHANGED <<stored, reports, faults>>
        \/ /\ ~Conflict(s, k, d)
           /\ Save(Bound(s, k, d)) /\ Continue(Bound(s, k, d), d)
  BY DEF AuthenticateHelperKey
<1>5. d \in Devices(s)
  BY DEF Found
<1> HIDE DEF s, i
<1>6. CASE state' = s /\ UNCHANGED <<stored, reports, faults>>
  <2>1. Sound(state)' /\ Sound(stored)'
    BY <1>2, <1>6 DEF IInv, Sound, Linked, Numbered, Passwords, Devices, State
  <2>2. ReportsAreOfDevices'
    BY <1>2, <1>6, BoundsAssumption
    DEF IInv, TypeOK, ReportsAreOfDevices, Sound, State, DeviceIds
  <2> QED BY <1>3, <1>6, <2>1, <2>2 DEF IInv, TypeOK, Sound
<1>7. CASE /\ ~Conflict(s, k, d)
           /\ Save(Bound(s, k, d)) /\ Continue(Bound(s, k, d), d)
  <2>1. /\ Sound(Bound(s, k, d)) /\ Bound(s, k, d).nextDevice = s.nextDevice
        /\ d \in Devices(Bound(s, k, d))
    BY <1>2, <1>5, <1>7, BoundIsSound DEF Conflict
  <2> QED BY <1>2, <1>3, <1>7, <2>1, SaveKeepsInvariant
<1> QED BY <1>4, <1>6, <1>7

LEMMA StoreReportKeepsInvariant ==
  ASSUME IInv, NEW h \in Handlers, StoreReport(h)
  PROVE  IInv'
<1> DEFINE r == reports[h]
           d == IF r.id \in Devices(state) THEN state.devices[r.id] ELSE r.base
           s == [state EXCEPT !.devices[r.id] = d]
<1>1. /\ r # NoReport /\ Save(s) /\ raced' = raced
      /\ reports' = [reports EXCEPT ![h] = NoReport]
  BY DEF StoreReport
<1>2. /\ r.id \in DeviceIds /\ r.id < state.nextDevice
      /\ r.base \in Device /\ r.base.identity # NoIdentity
  BY <1>1 DEF IInv, TypeOK, ReportsAreOfDevices, Report
<1>3. state \in State /\ Linked(state) /\ Numbered(state) /\ d \in Device
  BY <1>2 DEF IInv, Sound, State
<1>4. /\ s.devices = [state.devices EXCEPT ![r.id] = d]
      /\ s.passwords = state.passwords /\ s.nextDevice = state.nextDevice
  BY <1>3 DEF State
<1>5. \A e \in Devices(state) : s.devices[e] = state.devices[e]
  BY <1>3, <1>4 DEF Devices, State
<1>6. Devices(state) \subseteq Devices(s)
  BY <1>5 DEF Devices
<1> HIDE DEF d
<1>7. s \in State
  BY <1>2, <1>3, <1>4 DEF State
<1>8. Linked(s)
  <2> SUFFICES ASSUME NEW k \in Passwords(s), s.passwords[k].device # None
               PROVE  /\ s.passwords[k].device \in Devices(s)
                      /\ s.devices[s.passwords[k].device].password = k
                      /\ s.devices[s.passwords[k].device].identity = s.passwords[k].identity
    BY DEF Linked
  <2>1. k \in Passwords(state) /\ s.passwords[k] = state.passwords[k]
    BY <1>4 DEF Passwords
  <2>2. /\ state.passwords[k].device \in Devices(state)
        /\ state.devices[state.passwords[k].device].password = k
        /\ state.devices[state.passwords[k].device].identity = state.passwords[k].identity
    BY <1>3, <2>1 DEF Linked
  <2> QED BY <1>5, <1>6, <2>1, <2>2
<1>9. Numbered(s)
  <2> SUFFICES ASSUME NEW e \in DeviceIds, e >= s.nextDevice
               PROVE  s.devices[e] = NoDevice
    BY DEF Numbered
  <2>1. state.devices[e] = NoDevice /\ e # r.id
    BY <1>2, <1>3, <1>4, BoundsAssumption DEF Numbered, State, DeviceIds
  <2> QED BY <1>3, <1>4, <2>1 DEF State
<1>10. s.nextDevice >= state.nextDevice /\ raced' \in BOOLEAN
  BY <1>1, <1>3, <1>4, BoundsAssumption DEF State, IInv, TypeOK
<1> HIDE DEF s
<1> QED BY <1>1, <1>7, <1>8, <1>9, <1>10, SaveKeepsInvariant DEF Sound

LEMMA TokenKeepsInvariant ==
  ASSUME IInv, NEW i \in Identities, HandleAuthTokenAppPassword(i)
  PROVE  IInv'
<1> DEFINE s == Upserted(state, i)
           c == Created(s)
           k == s.nextPassword
           Without(old) == [c EXCEPT !.passwords[old] = NoPassword]
<1>1. /\ Sound(s) /\ s.nextDevice >= state.nextDevice
      /\ s.nextPassword = state.nextPassword
  BY UpsertedIsSound DEF IInv, HandleAuthTokenAppPassword, DeviceRoom
<1>2. UNCHANGED <<reports, raced>> /\ raced' \in BOOLEAN
  BY DEF HandleAuthTokenAppPassword, IInv, TypeOK
<1>3. PICK d \in Found(s, i) :
        \/ BoundTo(s, d) = {} /\ Save(Bound(c, k, d))
        \/ \E old \in BoundTo(s, d) : Save(Bound(Without(old), k, d))
  BY DEF HandleAuthTokenAppPassword
<1>4. d \in Devices(s) /\ d \in DeviceIds
  BY DEF Found, Devices
<1>5. s.nextPassword <= MaxPasswords
  BY <1>1 DEF HandleAuthTokenAppPassword, PasswordRoom
<1> HIDE DEF s
<1>6. /\ Sound(c) /\ c.nextDevice = s.nextDevice /\ k \in PasswordIds
      /\ d \in Devices(c) /\ BoundTo(c, d) \subseteq BoundTo(s, d)
  BY <1>1, <1>4, <1>5, CreatedIsSound DEF Devices
<1> HIDE DEF c, k
<1>7. CASE BoundTo(s, d) = {} /\ Save(Bound(c, k, d))
  <2>1. Sound(Bound(c, k, d)) /\ Bound(c, k, d).nextDevice = s.nextDevice
    BY <1>6, <1>7, BoundIsSound
  <2> QED BY <1>1, <1>2, <1>7, <2>1, SaveKeepsInvariant
<1>8. ASSUME NEW old \in BoundTo(s, d), Save(Bound(Without(old), k, d))
      PROVE  IInv'
  <2> DEFINE w == Without(old)
  <2>1. old \in PasswordIds /\ c \in State
    BY <1>6 DEF BoundTo, Passwords, Sound
  <2>2. /\ w.passwords = [c.passwords EXCEPT ![old] = NoPassword]
        /\ w.devices = c.devices /\ w.nextDevice = c.nextDevice
    BY <2>1 DEF State
  <2>3. NoPassword \in AppPassword /\ ~NoPassword.issued
    BY DEF NoPassword, Unbound, AppPassword
  <2>4. Passwords(w) \subseteq Passwords(c) /\ old \notin Passwords(w)
        /\ \A q \in Passwords(w) : w.passwords[q] = c.passwords[q]
    BY <2>1, <2>2, <2>3 DEF Passwords, State
  <2>5. w \in State
    BY <2>1, <2>2, <2>3 DEF State
  <2>6. Linked(w) /\ Numbered(w) /\ d \in Devices(w)
    BY <1>6, <2>2, <2>4 DEF Sound, Linked, Numbered, Devices
  <2>7. \A q \in BoundTo(s, d) : q = old
    BY <1>1, <1>4, BoundsAssumption DEF BoundTo, Sound, Linked, DeviceIds
  <2>8. BoundTo(w, d) = {}
    BY <1>6, <2>4, <2>7 DEF BoundTo
  <2> HIDE DEF w
  <2>9. Sound(Bound(w, k, d)) /\ Bound(w, k, d).nextDevice = w.nextDevice
    BY <1>6, <2>5, <2>6, <2>8, BoundIsSound DEF Sound
  <2> QED BY <1>1, <1>2, <1>6, <1>8, <2>2, <2>9, SaveKeepsInvariant DEF w
<1> QED BY <1>3, <1>7, <1>8

LEMMA DeletePasswordKeepsInvariant ==
  ASSUME IInv, NEW k \in PasswordIds, HandleAuthAppPasswordsDelete(k)
  PROVE  IInv'
<1> DEFINE forgets(e) == \/ state.devices[e].password = k
                        \/ state.passwords[k].device = e
           D(e) == IF forgets(e) THEN [state.devices[e] EXCEPT !.password = None]
                   ELSE state.devices[e]
           s == [state EXCEPT !.passwords[k] = NoPassword,
                              !.devices = [e \in DeviceIds |-> D(e)]]
<1>1. /\ Save(s) /\ UNCHANGED <<reports, raced>> /\ raced' \in BOOLEAN
      /\ k \in Passwords(state)
  BY DEF HandleAuthAppPasswordsDelete, IInv, TypeOK, Sound, State
<1>2. state \in State /\ Linked(state) /\ Numbered(state)
  BY DEF IInv, Sound
<1>3. /\ s.passwords = [state.passwords EXCEPT ![k] = NoPassword]
      /\ s.devices = [e \in DeviceIds |-> D(e)]
      /\ s.nextDevice = state.nextDevice
  BY <1>2 DEF State
<1>4. \A e \in DeviceIds :
        D(e) \in Device /\ D(e).identity = state.devices[e].identity
        /\ (state.devices[e] = NoDevice => D(e) = NoDevice)
  <2> SUFFICES ASSUME NEW e \in DeviceIds
               PROVE  D(e) \in Device /\ D(e).identity = state.devices[e].identity
                      /\ (state.devices[e] = NoDevice => D(e) = NoDevice)
    OBVIOUS
  <2>1. state.devices[e] \in Device
    BY <1>2 DEF State
  <2> HIDE DEF forgets
  <2> QED BY <2>1 DEF Device, NoDevice
<1>5. NoPassword \in AppPassword /\ ~NoPassword.issued
  BY DEF NoPassword, Unbound, AppPassword
<1> HIDE DEF D
<1>6. s \in State
  <2>1. s.devices \in [DeviceIds -> Device]
    BY <1>3, <1>4
  <2>2. s.passwords \in [PasswordIds -> AppPassword]
    BY <1>2, <1>3, <1>5 DEF State
  <2> QED BY <1>2, <2>1, <2>2 DEF State
<1>7. Linked(s)
  <2> SUFFICES ASSUME NEW q \in Passwords(s), s.passwords[q].device # None
               PROVE  /\ s.passwords[q].device \in Devices(s)
                      /\ s.devices[s.passwords[q].device].password = q
                      /\ s.devices[s.passwords[q].device].identity = s.passwords[q].identity
    BY DEF Linked
  <2> DEFINE e == state.passwords[q].device
  <2>1. q # k /\ q \in Passwords(state) /\ s.passwords[q] = state.passwords[q]
    BY <1>2, <1>3, <1>5 DEF Passwords, State
  <2>2. /\ e \in Devices(state) /\ e \in DeviceIds /\ state.devices[e].password = q
        /\ state.devices[e].identity = state.passwords[q].identity
    BY <1>2, <2>1 DEF Linked, Devices
  <2>3. state.passwords[k].device # e
    BY <1>1, <1>2, <2>1, <2>2, BoundsAssumption DEF Linked, DeviceIds
  <2>4. s.devices[e] = state.devices[e]
    BY <1>3, <2>1, <2>2, <2>3 DEF D
  <2> QED BY <2>1, <2>2, <2>4 DEF Devices
<1>8. Numbered(s)
  BY <1>2, <1>3, <1>4 DEF Numbered
<1>9. s.nextDevice >= state.nextDevice
  BY <1>2, <1>3, BoundsAssumption DEF State
<1> HIDE DEF s
<1> QED BY <1>1, <1>6, <1>7, <1>8, <1>9, SaveKeepsInvariant DEF Sound

LEMMA DeleteDeviceKeepsInvariant ==
  ASSUME IInv, NEW d \in DeviceIds, HandleDevicesDelete(d)
  PROVE  IInv'
<1> DEFINE P(q) == IF state.passwords[q].device = d
                     THEN [state.passwords[q] EXCEPT !.device = None]
                   ELSE state.passwords[q]
           s == [state EXCEPT !.devices[d] = NoDevice,
                              !.passwords = [q \in PasswordIds |-> P(q)]]
<1>1. Save(s) /\ UNCHANGED reports /\ raced' \in BOOLEAN
  BY DEF HandleDevicesDelete, IInv, TypeOK, Sound, State
<1>2. state \in State /\ Linked(state) /\ Numbered(state)
  BY DEF IInv, Sound
<1>3. /\ s.passwords = [q \in PasswordIds |-> P(q)]
      /\ s.devices = [state.devices EXCEPT ![d] = NoDevice]
      /\ s.nextDevice = state.nextDevice
  BY <1>2 DEF State
<1>4. \A q \in PasswordIds :
        /\ P(q) \in AppPassword /\ P(q).issued = state.passwords[q].issued
        /\ (P(q).device # None => (P(q) = state.passwords[q] /\ P(q).device # d))
  <2> SUFFICES ASSUME NEW q \in PasswordIds
               PROVE  /\ P(q) \in AppPassword /\ P(q).issued = state.passwords[q].issued
                      /\ (P(q).device # None => (P(q) = state.passwords[q] /\ P(q).device # d))
    OBVIOUS
  <2>1. state.passwords[q] \in AppPassword
    BY <1>2 DEF State
  <2> QED BY <2>1 DEF AppPassword
<1>5. NoDevice \in Device
  BY DEF NoDevice, Device
<1> HIDE DEF P
<1>6. s \in State
  <2>1. s.passwords \in [PasswordIds -> AppPassword]
    BY <1>3, <1>4
  <2>2. s.devices \in [DeviceIds -> Device]
    BY <1>2, <1>3, <1>5 DEF State
  <2> QED BY <1>2, <2>1, <2>2 DEF State
<1>7. Linked(s)
  <2> SUFFICES ASSUME NEW q \in Passwords(s), s.passwords[q].device # None
               PROVE  /\ s.passwords[q].device \in Devices(s)
                      /\ s.devices[s.passwords[q].device].password = q
                      /\ s.devices[s.passwords[q].device].identity = s.passwords[q].identity
    BY DEF Linked
  <2>1. q \in PasswordIds /\ s.passwords[q] = P(q) /\ P(q).issued /\ P(q).device # None
    BY <1>3 DEF Passwords
  <2>2. /\ q \in Passwords(state) /\ s.passwords[q] = state.passwords[q]
        /\ state.passwords[q].device # d /\ state.passwords[q].device # None
    BY <1>4, <2>1 DEF Passwords
  <2>3. /\ state.passwords[q].device \in Devices(state)
        /\ state.devices[state.passwords[q].device].password = q
        /\ state.devices[state.passwords[q].device].identity = state.passwords[q].identity
    BY <1>2, <2>2 DEF Linked
  <2>4. s.devices[state.passwords[q].device] = state.devices[state.passwords[q].device]
    BY <1>2, <1>3, <2>2, <2>3 DEF Devices, State
  <2> QED BY <2>2, <2>3, <2>4 DEF Devices
<1>8. Numbered(s)
  BY <1>2, <1>3 DEF Numbered, State
<1>9. s.nextDevice >= state.nextDevice
  BY <1>2, <1>3, BoundsAssumption DEF State
<1> HIDE DEF s
<1> QED BY <1>1, <1>6, <1>7, <1>8, <1>9, SaveKeepsInvariant DEF Sound

(* Whether the enrolment window is open is nothing to the links.           *)
LEMMA WindowIsNoMatter ==
  ASSUME NEW s, Sound(s), NEW w \in BOOLEAN
  PROVE  /\ Sound([s EXCEPT !.window = w])
         /\ [s EXCEPT !.window = w].nextDevice = s.nextDevice
  BY DEF Sound, State, Linked, Numbered, Passwords, Devices

(* A start may number devices and passwords anew: then there are none.      *)
LEMMA StartedIsSound ==
  ASSUME NEW s, Sound(s)
  PROVE  Sound(Started(s))
<1> DEFINE n == IF s.nextDevice = 2 /\ s.devices = EmptyState.devices
                  THEN 1 ELSE s.nextDevice
           m == IF s.nextPassword = 2 /\ s.passwords = EmptyState.passwords
                  THEN 1 ELSE s.nextPassword
           t == [s EXCEPT !.nextDevice = n, !.nextPassword = m]
<1>1. t = Started(s)
  BY Zenon DEF Started
<1>2. n \in 1 .. MaxDevices + 1 /\ m \in 1 .. MaxPasswords + 1
  <2>1. s.nextDevice \in 1 .. MaxDevices + 1 /\ s.nextPassword \in 1 .. MaxPasswords + 1
    BY DEF Sound, State
  <2> QED BY <2>1, BoundsAssumption
<1>3. /\ t \in State
      /\ t.devices = s.devices /\ t.passwords = s.passwords
      /\ t.nextDevice = n
  <2> HIDE DEF n, m
  <2> QED BY <1>2 DEF Sound, State
<1> HIDE DEF t
<1>4. Linked(t)
  BY <1>3 DEF Sound, Linked, Passwords, Devices
<1>5. Numbered(t)
  BY <1>3 DEF Sound, Numbered, EmptyState
<1> QED BY <1>1, <1>3, <1>4, <1>5 DEF Sound

LEMMA OthersKeepInvariant ==
  ASSUME IInv,
         \/ \E i \in Identities : HandleAuthLogin(i)
         \/ HandleAuthAppPasswordsCreate
         \/ HandleAuthAppPasswordsAutoEnable
         \/ WindowEnds
         \/ Restart
  PROVE  IInv'
<1>0. /\ Sound(state) /\ Sound(stored) /\ state.nextDevice \in Nat
      /\ state.nextDevice >= state.nextDevice
  BY BoundsAssumption DEF IInv, Sound, State
<1>1. ASSUME NEW i \in Identities, HandleAuthLogin(i) PROVE IInv'
  <2>1. Sound(Upserted(state, i)) /\ Upserted(state, i).nextDevice >= state.nextDevice
    BY <1>0, <1>1, UpsertedIsSound DEF HandleAuthLogin, DeviceRoom
  <2>2. Save(Upserted(state, i)) /\ UNCHANGED reports /\ raced' \in BOOLEAN
    BY <1>1 DEF HandleAuthLogin, IInv, TypeOK
  <2> QED BY <2>1, <2>2, SaveKeepsInvariant
<1>2. CASE HandleAuthAppPasswordsCreate
  <2>1. Sound(Created(state)) /\ Created(state).nextDevice >= state.nextDevice
    BY <1>0, <1>2, CreatedIsSound DEF HandleAuthAppPasswordsCreate, PasswordRoom
  <2>2. Save(Created(state)) /\ UNCHANGED reports /\ raced' \in BOOLEAN
    BY <1>2 DEF HandleAuthAppPasswordsCreate, IInv, TypeOK
  <2> QED BY <2>1, <2>2, SaveKeepsInvariant
<1>3. CASE HandleAuthAppPasswordsAutoEnable
  <2> DEFINE s == [state EXCEPT !.window = TRUE]
  <2>1. Sound(s) /\ s.nextDevice >= state.nextDevice
    BY <1>0, WindowIsNoMatter
  <2>2. Save(s) /\ UNCHANGED reports /\ raced' \in BOOLEAN
    BY <1>3 DEF HandleAuthAppPasswordsAutoEnable, IInv, TypeOK
  <2> HIDE DEF s
  <2> QED BY <2>1, <2>2, SaveKeepsInvariant
<1>4. CASE WindowEnds
  <2>1. /\ Sound([state EXCEPT !.window = FALSE]) /\ Sound([stored EXCEPT !.window = FALSE])
        /\ [state EXCEPT !.window = FALSE].nextDevice = state.nextDevice
    BY <1>0, WindowIsNoMatter
  <2>2. /\ state' = [state EXCEPT !.window = FALSE]
        /\ stored' = [stored EXCEPT !.window = FALSE]
        /\ UNCHANGED <<reports, faults, raced>>
    BY <1>4 DEF WindowEnds
  <2>3. Sound(state)' /\ Sound(stored)' /\ state'.nextDevice = state.nextDevice
    BY <2>1, <2>2 DEF Sound, Linked, Numbered, Passwords, Devices, State
  <2> QED BY <2>2, <2>3 DEF IInv, TypeOK, ReportsAreOfDevices, Sound
<1>5. CASE Restart
  <2>0. Sound(Started(stored)) /\ state' = Started(stored) /\ stored' = stored /\ Sound(stored)
    BY <1>0, <1>5, StartedIsSound DEF Restart
  <2>1. Sound(state)' /\ Sound(stored)'
    <3>1. Sound(state') /\ Sound(stored')
      BY <2>0
    <3> QED BY <3>1 DEF Sound, Linked, Numbered, Passwords, Devices, State
  <2>2. reports' \in [Handlers -> Report] /\ ReportsAreOfDevices'
    BY <1>5 DEF Restart, ReportsAreOfDevices, NoReport, Report, NoDevice, Device
  <2> QED BY <1>5, <2>1, <2>2 DEF Restart, IInv, TypeOK, Sound
<1> QED BY <1>1, <1>2, <1>3, <1>4, <1>5
-----------------------------------------------------------------------------
LEMMA InitInvariant == Init => IInv
<1> SUFFICES ASSUME Init PROVE IInv
  OBVIOUS
<1>1. Sound(state) /\ Sound(stored)
  BY EmptyIsSound DEF Init
<1>2. reports \in [Handlers -> Report] /\ ReportsAreOfDevices
  BY DEF Init, ReportsAreOfDevices, NoReport, Report, NoDevice, Device
<1>3. faults \in 0 .. MaxFaults
  BY BoundsAssumption DEF Init
<1>4. raced \in BOOLEAN
  BY Zenon DEF Init
<1> QED BY <1>1, <1>2, <1>3, <1>4 DEF IInv, TypeOK, Sound

LEMMA NextInvariant == IInv /\ [Next]_vars => IInv'
<1> SUFFICES ASSUME IInv, [Next]_vars PROVE IInv'
  OBVIOUS
<1>1. ASSUME NEW i \in Identities, AuthenticateHelperWithoutKey(i) PROVE IInv'
  BY <1>1, WithoutKeyKeepsInvariant
<1>2. ASSUME NEW i \in Identities, HandleAuthTokenAppPassword(i) PROVE IInv'
  BY <1>2, TokenKeepsInvariant
<1>3. ASSUME NEW k \in PasswordIds, NEW i \in Identities \cup {NoIdentity},
             AuthenticateHelperKey(k, i)
      PROVE  IInv'
  BY <1>3, HelperKeyKeepsInvariant
<1>4. ASSUME NEW k \in PasswordIds, HandleAuthAppPasswordsDelete(k) PROVE IInv'
  BY <1>4, DeletePasswordKeepsInvariant
<1>5. ASSUME NEW d \in DeviceIds, HandleDevicesDelete(d) PROVE IInv'
  BY <1>5, DeleteDeviceKeepsInvariant
<1>6. ASSUME NEW h \in Handlers, StoreReport(h) PROVE IInv'
  BY <1>6, StoreReportKeepsInvariant
<1>7. CASE UNCHANGED vars
  <2>1. Sound(state)' /\ Sound(stored)'
    BY <1>7 DEF vars, IInv, Sound, Linked, Numbered, Passwords, Devices, State
  <2> QED BY <1>7, <2>1 DEF vars, IInv, TypeOK, ReportsAreOfDevices, Sound
<1> QED BY <1>1, <1>2, <1>3, <1>4, <1>5, <1>6, <1>7, OthersKeepInvariant DEF Next

LEMMA Invariance == Spec => []IInv
  BY InitInvariant, NextInvariant, PTL DEF Spec

(* Devices, passwords, counters and reports keep their types: no id leaves  *)
(* its range, and no report begins without a device.                       *)
THEOREM TypeCorrect == Spec => []TypeOK
<1>1. IInv => TypeOK
  BY DEF IInv
<1> QED BY <1>1, Invariance, PTL

(* A password that is bound is bound to a device that exists, names it and *)
(* has its identity: with any number of helpers and reports, deletions in  *)
(* the middle of a report, failed writes and restarts.                     *)
THEOREM LinksHold == Spec => []PasswordsNameTheirDevice
<1>1. IInv => PasswordsNameTheirDevice
  BY DEF IInv, Sound, PasswordsNameTheirDevice
<1> QED BY <1>1, Invariance, PTL

(* So no device ever has two passwords, which appPasswordIDForDeviceLocked *)
(* takes for granted.                                                      *)
THEOREM OnePasswordPerDevice ==
  Spec => [](\A d \in DeviceIds : \A k, q \in BoundTo(state, d) : k = q)
<1>1. IInv => \A d \in DeviceIds : \A k, q \in BoundTo(state, d) : k = q
  BY BoundsAssumption DEF IInv, Sound, Linked, BoundTo, DeviceIds
<1> QED BY <1>1, Invariance, PTL
-----------------------------------------------------------------------------
(***************************************************************************)
(* The other direction, and memory against file. As long as no device was  *)
(* deleted in the middle of a report about it, a report stores nothing     *)
(* new, so no device comes back under an identity that has another one, or *)
(* with a password that is somebody else's by now. States are then Whole.  *)
(***************************************************************************)
Known(s, d) ==
  LET k == s.devices[d].password
  IN k # None => k \in Passwords(s) /\ s.passwords[k].device = d

PasswordsAreNumbered(s) == \A k \in PasswordIds : k >= s.nextPassword => ~s.passwords[k].issued

OneDeviceEach(s) ==
  \A d, e \in Devices(s) : s.devices[d].identity = s.devices[e].identity => d = e

Whole(s) ==
  PasswordsAreNumbered(s) /\ OneDeviceEach(s) /\ \A d \in DeviceIds : Known(s, d)

KeepsIdentities(s, t) ==
  \A k \in Passwords(s) : k \in Passwords(t) /\ s.passwords[k].identity # NoIdentity
    => t.passwords[k].identity = s.passwords[k].identity

ReportsAreOn(s, reps) == \A h \in Handlers : reps[h] # NoReport => reps[h].id \in Devices(s)

WholeUnlessRaced == ~raced => Whole(state) /\ Whole(stored) /\ ReportsAreOn(state, reports)

KeepsIdentitiesUnlessFaulty == ~raced' /\ faults' = 0 => KeepsIdentities(state, state')

LEMMA EmptyIsWhole == Whole(EmptyState)
<1>1. /\ \A k \in PasswordIds : ~EmptyState.passwords[k].issued
      /\ \A d \in DeviceIds : EmptyState.devices[d] = NoDevice
  BY DEF EmptyState, NoPassword, Unbound
<1> HIDE DEF EmptyState
<1> QED BY <1>1 DEF Whole, PasswordsAreNumbered, OneDeviceEach, Devices, NoDevice, Known

\* A device that is made has an identity no other has, and no password.
LEMMA UpsertedIsWhole ==
  ASSUME NEW s, Sound(s), Whole(s), NEW i \in Identities,
         Found(s, i) = {} => s.nextDevice <= MaxDevices
  PROVE  Whole(Upserted(s, i)) /\ Devices(s) \subseteq Devices(Upserted(s, i))
<1> DEFINE u == Upserted(s, i)
           n == s.nextDevice
           new == [identity |-> i, password |-> None]
<1>1. CASE Found(s, i) # {}
  BY <1>1 DEF Upserted
<1>2. CASE Found(s, i) = {}
  <2>1. s \in State /\ n \in DeviceIds /\ i # NoIdentity
    BY <1>2, BoundsAssumption, IdentitiesAssumption DEF Sound, State, DeviceIds
  <2>2. /\ u.devices = [s.devices EXCEPT ![n] = new]
        /\ u.passwords = s.passwords /\ u.nextPassword = s.nextPassword
    BY <1>2, <2>1 DEF Upserted, State
  <2>3. /\ u.devices[n] = new
        /\ \A d \in DeviceIds \ {n} : u.devices[d] = s.devices[d]
    BY <2>1, <2>2 DEF State
  <2>4. n \notin Devices(s)
    BY <2>1, BoundsAssumption DEF Sound, Numbered, Devices, NoDevice, DeviceIds
  <2>5. Devices(u) = Devices(s) \cup {n} /\ n \in Devices(u)
    BY <2>1, <2>3 DEF Devices
  <2> HIDE DEF u
  <2>6. \A d \in Devices(s) : d # n /\ u.devices[d] = s.devices[d] /\ s.devices[d].identity # i
    BY <1>2, <2>3, <2>4 DEF Devices, Found
  <2>7. OneDeviceEach(u)
    BY <2>3, <2>5, <2>6 DEF OneDeviceEach, Whole
  <2>8. \A d \in DeviceIds : Known(u, d)
    BY <2>2, <2>3 DEF Known, Whole, Passwords
  <2>9. PasswordsAreNumbered(u)
    BY <2>2 DEF Whole, PasswordsAreNumbered
  <2> QED BY <2>5, <2>7, <2>8, <2>9 DEF Whole, u
<1> QED BY <1>1, <1>2

\* A password that is given out was nobody's.
LEMMA CreatedIsWhole ==
  ASSUME NEW s, Sound(s), Whole(s), s.nextPassword <= MaxPasswords
  PROVE  /\ Whole(Created(s)) /\ Devices(Created(s)) = Devices(s)
         /\ s.nextPassword \notin Passwords(s) /\ s.nextPassword \in Passwords(Created(s))
         /\ \A k \in Passwords(s) :
              k \in Passwords(Created(s)) /\ Created(s).passwords[k] = s.passwords[k]
         /\ \A k \in Passwords(Created(s)) : k = s.nextPassword \/ k \in Passwords(s)
<1> DEFINE c == Created(s)
           n == s.nextPassword
           new == Unbound(TRUE)
<1>1. s \in State /\ n \in PasswordIds
  BY BoundsAssumption DEF Sound, State, PasswordIds
<1>2. /\ c.passwords = [s.passwords EXCEPT ![n] = new]
      /\ c.devices = s.devices /\ c.nextPassword = n + 1
  BY <1>1 DEF Created, State
<1>3. /\ c.passwords[n] = new /\ new.issued
      /\ \A k \in PasswordIds \ {n} : c.passwords[k] = s.passwords[k]
  BY <1>1, <1>2 DEF State, Unbound
<1>4. n \notin Passwords(s)
  BY <1>1, BoundsAssumption DEF Whole, PasswordsAreNumbered, Passwords, PasswordIds
<1> HIDE DEF c
<1>5. /\ Devices(c) = Devices(s) /\ n \in Passwords(c)
      /\ \A k \in Passwords(s) : k \in Passwords(c) /\ c.passwords[k] = s.passwords[k]
      /\ \A k \in Passwords(c) : k = n \/ k \in Passwords(s)
  BY <1>1, <1>2, <1>3, <1>4 DEF Devices, Passwords
<1>6. PasswordsAreNumbered(c)
  <2> SUFFICES ASSUME NEW k \in PasswordIds, k >= n + 1
               PROVE  ~c.passwords[k].issued
    BY <1>2 DEF PasswordsAreNumbered
  <2>1. k # n /\ k >= n
    BY <1>1 DEF PasswordIds
  <2>2. ~s.passwords[k].issued
    BY <2>1 DEF Whole, PasswordsAreNumbered
  <2> QED BY <1>3, <2>1, <2>2
<1>7. OneDeviceEach(c)
  BY <1>2, <1>5 DEF Whole, OneDeviceEach
<1>8. \A d \in DeviceIds : Known(c, d)
  <2> SUFFICES ASSUME NEW d \in DeviceIds PROVE Known(c, d)
    OBVIOUS
  <2>1. Known(s, d) /\ c.devices[d] = s.devices[d]
    BY <1>2 DEF Whole
  <2> QED BY <1>5, <2>1 DEF Known
<1> QED BY <1>4, <1>5, <1>6, <1>7, <1>8 DEF Whole, c

\* Binding k to d leaves no device naming the password d had: it is deleted.
LEMMA BoundIsWhole ==
  ASSUME NEW s \in State, PasswordsAreNumbered(s), OneDeviceEach(s),
         NEW d \in Devices(s), NEW k \in Passwords(s),
         \A e \in DeviceIds \ {d} : Known(s, e),
         Known(s, d) \/ s.devices[d].password \notin Passwords(s)
  PROVE  LET b == Bound(s, k, d)
         IN /\ Whole(b) /\ Devices(b) = Devices(s)
            /\ b.passwords[k].identity = s.devices[d].identity
            /\ \A q \in Passwords(b) :
                 q = k \/ (q \in Passwords(s) /\ b.passwords[q] = s.passwords[q])
<1> DEFINE b == Bound(s, k, d)
           previous == s.devices[d].password
           named == \E e \in DeviceIds \ {d} : s.devices[e].password = previous
           mine == [issued |-> TRUE, device |-> d, identity |-> s.devices[d].identity]
           P(q) == IF q = k THEN mine
                   ELSE IF q = previous /\ s.passwords[q].issued THEN Unbound(named)
                   ELSE s.passwords[q]
           D(e) == IF e = d THEN [s.devices[e] EXCEPT !.password = k]
                   ELSE IF s.devices[e].password = k THEN [s.devices[e] EXCEPT !.password = None]
                   ELSE s.devices[e]
<1>1. d \in DeviceIds /\ k \in PasswordIds /\ d # None /\ k # None /\ s.passwords[k].issued
  BY DEF Devices, DeviceIds, Passwords, PasswordIds
<1>2. /\ \A q \in PasswordIds : b.passwords[q] = P(q)
      /\ \A e \in DeviceIds : b.devices[e] = D(e)
      /\ b.nextPassword = s.nextPassword
  BY <1>1 DEF Bound, State
<1>3. \A e \in DeviceIds : s.devices[e] \in Device
  BY DEF State
<1>4. /\ b.devices[d].password = k
      /\ \A e \in DeviceIds : b.devices[e].identity = s.devices[e].identity
      /\ \A e \in DeviceIds \ {d} :
           \/ b.devices[e].password = None
           \/ b.devices[e].password = s.devices[e].password /\ s.devices[e].password # k
  <2>1. ASSUME NEW e \in DeviceIds
        PROVE  /\ b.devices[e].identity = s.devices[e].identity
               /\ e # d => \/ b.devices[e].password = None
                           \/ /\ b.devices[e].password = s.devices[e].password
                              /\ s.devices[e].password # k
    <3>1. b.devices[e] = D(e) /\ s.devices[e] \in [identity : {s.devices[e].identity},
                                                  password : {s.devices[e].password}]
      BY <1>2, <1>3 DEF Device
    <3> HIDE DEF b
    <3> QED BY <3>1
  <2>2. b.devices[d].password = k
    <3>1. b.devices[d] = [s.devices[d] EXCEPT !.password = k] /\ s.devices[d] \in Device
      BY <1>1, <1>2, <1>3
    <3> HIDE DEF b
    <3> QED BY <3>1 DEF Device
  <2> HIDE DEF b
  <2> QED BY <2>1, <2>2
<1>5. b.passwords[k] = mine /\ mine.issued /\ mine.device = d
      /\ mine.identity = s.devices[d].identity
  BY <1>1, <1>2
<1>6. ASSUME NEW q \in Passwords(s), q # k, q # previous
      PROVE  b.passwords[q] = s.passwords[q] /\ q \in Passwords(b)
  BY <1>2, <1>6 DEF Passwords
<1>7. \A e \in DeviceIds \ {d} :
        s.devices[e].password # None =>
          /\ s.devices[e].password \in Passwords(s) /\ s.devices[e].password # previous
          /\ s.passwords[s.devices[e].password].device = e
  BY <1>1 DEF Known
<1>8. Devices(b) = Devices(s)
  BY <1>4 DEF Devices
<1>9. ASSUME NEW e \in DeviceIds PROVE Known(b, e)
  <2>1. CASE e = d
    <3>1. b.devices[e].password = k
      BY <1>4, <2>1
    <3>2. k \in Passwords(b) /\ b.passwords[k].device = e
      BY <1>1, <1>5, <2>1 DEF Passwords
    <3> HIDE DEF b
    <3> QED BY <3>1, <3>2 DEF Known
  <2>2. CASE e # d
    <3>1. e \in DeviceIds \ {d}
      BY <2>2
    <3>2. CASE b.devices[e].password = None
      BY <3>2 DEF Known
    <3>3. CASE b.devices[e].password # None
      <4> DEFINE q == s.devices[e].password
      <4>1. b.devices[e].password = q /\ q # k /\ q # None
        BY <1>4, <3>1, <3>3
      <4>2. q \in Passwords(s) /\ q # previous /\ s.passwords[q].device = e
        BY <1>7, <3>1, <4>1
      <4> HIDE DEF q, b, previous
      <4>3. b.passwords[q] = s.passwords[q] /\ q \in Passwords(b)
        BY <1>6, <4>1, <4>2
      <4> QED BY <4>1, <4>2, <4>3 DEF Known
    <3> QED BY <3>2, <3>3
  <2> QED BY <2>1, <2>2
<1>10. ~named \/ previous \notin Passwords(s) \/ previous = k
  <2> SUFFICES ASSUME NEW e \in DeviceIds \ {d}, s.devices[e].password = previous,
                      previous \in Passwords(s)
               PROVE  FALSE
    OBVIOUS
  <2>1. previous # None
    BY DEF Passwords, PasswordIds
  <2> HIDE DEF previous
  <2> QED BY <1>7, <2>1
<1>11. \A q \in Passwords(b) :
         q = k \/ (q \in Passwords(s) /\ b.passwords[q] = s.passwords[q])
  <2> SUFFICES ASSUME NEW q \in Passwords(b), q # k
               PROVE  q \in Passwords(s) /\ b.passwords[q] = s.passwords[q]
    OBVIOUS
  <2>1. q \in PasswordIds /\ b.passwords[q] = P(q) /\ P(q).issued
    BY <1>2 DEF Passwords
  <2>2. CASE q = previous /\ s.passwords[q].issued
    <3>1. q \in Passwords(s) /\ P(q) = Unbound(named)
      BY <2>1, <2>2 DEF Passwords
    <3>2. ~named
      BY <1>10, <2>2, <3>1
    <3>3. Unbound(named).issued = named
      BY DEF Unbound
    <3> QED BY <2>1, <3>1, <3>2, <3>3
  <2>3. CASE ~(q = previous /\ s.passwords[q].issued)
    BY <2>1, <2>3 DEF Passwords
  <2> QED BY <2>2, <2>3
<1>12. PasswordsAreNumbered(b)
  BY <1>1, <1>2, <1>11 DEF PasswordsAreNumbered, Passwords
<1>13. OneDeviceEach(b)
  BY <1>4, <1>8 DEF OneDeviceEach, Devices
<1> HIDE DEF b
<1> QED BY <1>5, <1>8, <1>9, <1>11, <1>12, <1>13 DEF Whole, b

-----------------------------------------------------------------------------
LEMMA WholeIsPrimed ==
  ASSUME ~raced' => Whole(state') /\ Whole(stored') /\ ReportsAreOn(state', reports')
  PROVE  WholeUnlessRaced'
<1>1. Whole(state') => Whole(state)'
  BY DEF Whole, PasswordsAreNumbered, OneDeviceEach, Known, Devices, Passwords
<1>2. Whole(stored') => Whole(stored)'
  BY DEF Whole, PasswordsAreNumbered, OneDeviceEach, Known, Devices, Passwords
<1>3. ReportsAreOn(state', reports') => ReportsAreOn(state, reports)'
  BY DEF ReportsAreOn, Devices
<1> QED BY <1>1, <1>2, <1>3 DEF WholeUnlessRaced

\* What most actions do, as SaveKeepsInvariant has it of Sound.
LEMMA SaveKeepsWhole ==
  ASSUME IInv, MemoryIsSaved, WholeUnlessRaced, NEW s, Save(s), raced => raced',
         ~raced' => Whole(s) /\ KeepsIdentities(state, s) /\ ReportsAreOn(s, reports')
  PROVE  MemoryIsSaved' /\ WholeUnlessRaced' /\ KeepsIdentitiesUnlessFaulty
<1>1. state' = s /\ (stored' = s \/ (stored' = stored /\ faults' # 0))
  BY BoundsAssumption DEF Save, IInv, TypeOK
<1>2. MemoryIsSaved'
  <2>1. faults' = 0 => Started(stored') = Started(state')
    BY <1>1
  <2> QED BY <2>1 DEF MemoryIsSaved, Started
<1>3. WholeUnlessRaced'
  <2>1. ~raced' => Whole(state') /\ Whole(stored') /\ ReportsAreOn(state', reports')
    BY <1>1 DEF WholeUnlessRaced
  <2> QED BY <2>1, WholeIsPrimed
<1>4. KeepsIdentitiesUnlessFaulty
  BY <1>1 DEF KeepsIdentitiesUnlessFaulty
<1> QED BY <1>2, <1>3, <1>4

\* Reports stay on devices that exist while these become more.
LEMMA ReportsStayOn ==
  ASSUME IInv, ReportsAreOn(state, reports), NEW s, Devices(state) \subseteq Devices(s),
         \/ UNCHANGED reports
         \/ \E d \in Devices(s) : Continue(s, d)
         \/ \E h \in Handlers : reports' = [reports EXCEPT ![h] = NoReport]
  PROVE  ReportsAreOn(s, reports')
<1> SUFFICES ASSUME NEW h \in Handlers, reports'[h] # NoReport
             PROVE  reports'[h].id \in Devices(s)
  BY DEF ReportsAreOn
<1>1. \/ reports'[h] = reports[h]
      \/ \E d \in Devices(s) : reports'[h] = [id |-> d, base |-> s.devices[d]]
  BY DEF Continue, IInv, TypeOK
<1>2. reports'[h] = reports[h] => reports[h].id \in Devices(state)
  BY DEF ReportsAreOn
<1>3. ASSUME NEW d \in Devices(s), reports'[h] = [id |-> d, base |-> s.devices[d]]
      PROVE  reports'[h].id \in Devices(s)
  <2>1. reports'[h].id = d
    BY <1>3
  <2> QED BY <2>1
<1> QED BY <1>1, <1>2, <1>3

LEMMA WithoutKeyKeepsWhole ==
  ASSUME IInv, MemoryIsSaved, WholeUnlessRaced,
         NEW i \in Identities, AuthenticateHelperWithoutKey(i)
  PROVE  MemoryIsSaved' /\ WholeUnlessRaced' /\ KeepsIdentitiesUnlessFaulty
<1> DEFINE s == Upserted(state, i)
           c == Created(s)
           k == s.nextPassword
<1>1. /\ Sound(s) /\ s.passwords = state.passwords /\ s.nextPassword = state.nextPassword
      /\ ~raced => Whole(s) /\ Devices(state) \subseteq Devices(s)
  BY UpsertedIsSound, UpsertedIsWhole
     DEF IInv, AuthenticateHelperWithoutKey, DeviceRoom, WholeUnlessRaced
<1>2. raced' = raced
  BY DEF AuthenticateHelperWithoutKey
<1>3. PICK d \in Found(s, i) :
        \/ Save(s) /\ Continue(s, d)
        \/ /\ BoundTo(s, d) = {} /\ PasswordRoom
           /\ Save(Bound(c, k, d))
           /\ Continue(Bound(c, k, d), d)
  BY DEF AuthenticateHelperWithoutKey
<1>4. d \in Devices(s)
  BY DEF Found
<1> HIDE DEF s
<1>5. CASE Save(s) /\ Continue(s, d)
  <2>1. KeepsIdentities(state, s)
    BY <1>1 DEF KeepsIdentities, Passwords
  <2>2. ~raced => ReportsAreOn(s, reports')
    BY <1>1, <1>4, <1>5, ReportsStayOn DEF WholeUnlessRaced
  <2> QED BY <1>1, <1>2, <1>5, <2>1, <2>2, SaveKeepsWhole
<1>6. CASE /\ BoundTo(s, d) = {} /\ PasswordRoom
           /\ Save(Bound(c, k, d))
           /\ Continue(Bound(c, k, d), d)
  <2> DEFINE t == Bound(c, k, d)
  <2>1. s.nextPassword <= MaxPasswords
    BY <1>1, <1>6 DEF PasswordRoom
  <2>2. /\ Sound(c) /\ c.devices = s.devices /\ k \in PasswordIds
        /\ BoundTo(c, d) \subseteq BoundTo(s, d) /\ d \in Devices(c)
    BY <1>1, <1>4, <2>1, CreatedIsSound DEF Devices
  <2>4. ASSUME ~raced
        PROVE  Whole(t) /\ KeepsIdentities(state, t) /\ ReportsAreOn(t, reports')
    <3>1. /\ Whole(c) /\ Devices(c) = Devices(s) /\ k \notin Passwords(s) /\ k \in Passwords(c)
          /\ \A q \in Passwords(s) : q \in Passwords(c) /\ c.passwords[q] = s.passwords[q]
          /\ \A q \in Passwords(c) : q = k \/ q \in Passwords(s)
      BY <1>1, <2>1, <2>4, CreatedIsWhole
    <3>2. Known(c, d) /\ \A e \in DeviceIds \ {d} : Known(c, e)
      BY <2>2, <3>1 DEF Whole, Devices
    <3> HIDE DEF c, k
    <3>3. /\ Whole(t) /\ Devices(t) = Devices(c)
          /\ \A q \in Passwords(t) :
               q = k \/ (q \in Passwords(c) /\ t.passwords[q] = c.passwords[q])
      BY <2>2, <3>1, <3>2, BoundIsWhole DEF Whole, Sound
    <3> HIDE DEF t
    <3>4. KeepsIdentities(state, t)
      BY <1>1, <3>1, <3>3 DEF KeepsIdentities, Passwords
    <3>5. Devices(state) \subseteq Devices(t) /\ d \in Devices(t)
      BY <1>1, <2>2, <2>4, <3>1, <3>3
    <3>6. Continue(t, d)
      BY <1>6 DEF t
    <3> QED BY <2>4, <3>3, <3>4, <3>5, <3>6, ReportsStayOn DEF WholeUnlessRaced
  <2> QED BY <1>2, <1>6, <2>4, SaveKeepsWhole
<1> QED BY <1>3, <1>5, <1>6

LEMMA HelperKeyKeepsWhole ==
  ASSUME IInv, MemoryIsSaved, WholeUnlessRaced,
         NEW k \in PasswordIds, NEW said \in Identities \cup {NoIdentity},
         AuthenticateHelperKey(k, said)
  PROVE  MemoryIsSaved' /\ WholeUnlessRaced' /\ KeepsIdentitiesUnlessFaulty
<1> DEFINE i == Identity(k, said)
           s == Upserted(state, i)
<1>1. /\ i \in Identities /\ k \in Passwords(state)
      /\ (state.passwords[k].identity # NoIdentity => i = state.passwords[k].identity)
  <2>1. state.passwords[k].identity \in Identities \cup {NoIdentity}
    BY DEF IInv, TypeOK, State, AppPassword
  <2> QED BY <2>1 DEF Identity, AuthenticateHelperKey
<1>2. Found(state, i) = {} => state.nextDevice <= MaxDevices
  BY DEF AuthenticateHelperKey, DeviceRoom
<1>3. PICK d \in Found(s, i) :
        \/ Conflict(s, k, d) /\ state' = s /\ UNCHANGED <<stored, reports, faults>>
        \/ ~Conflict(s, k, d) /\ Save(Bound(s, k, d)) /\ Continue(Bound(s, k, d), d)
  BY DEF AuthenticateHelperKey
<1>4. raced' = raced /\ s = Upserted(state, i)
  BY DEF AuthenticateHelperKey
<1> HIDE DEF s, i
<1>5. /\ Sound(s) /\ s.passwords = state.passwords
      /\ ~raced => Whole(s) /\ Devices(state) \subseteq Devices(s)
  BY <1>1, <1>2, <1>4, UpsertedIsSound, UpsertedIsWhole DEF IInv, WholeUnlessRaced
<1>6. d \in Devices(s) /\ s.devices[d].identity = i
  BY DEF Found
<1>7. ASSUME Conflict(s, k, d), state' = s, UNCHANGED <<stored, reports, faults>>
      PROVE  MemoryIsSaved' /\ WholeUnlessRaced' /\ KeepsIdentitiesUnlessFaulty
  <2>1. Found(state, i) # {}
    <3> SUFFICES ASSUME Found(state, i) = {} PROVE FALSE
      OBVIOUS
    <3>1. \A e \in Devices(state) : state.devices[e].identity # i
      BY DEF Found
    <3>2. CASE BoundTo(s, d) \ {k} # {}
      <4>1. PICK q \in Passwords(s) : s.passwords[q].device = d
        BY <3>2 DEF BoundTo
      <4>2. q \in Passwords(state) /\ state.passwords[q].device = d /\ d # None
        BY <1>5, <1>6, <4>1 DEF Passwords, Devices, DeviceIds
      <4>3. d \in Devices(state) /\ state.devices[d].identity = state.passwords[q].identity
        BY <4>2 DEF IInv, Sound, Linked
      <4>4. s.devices[d].identity = s.passwords[q].identity
        BY <1>5, <4>1, <4>2 DEF Sound, Linked
      <4> QED BY <1>5, <1>6, <3>1, <4>3, <4>4
    <3>3. CASE \E e \in Devices(s) \ {d} : /\ s.passwords[k].device = e
                                           /\ s.devices[e].identity # s.devices[d].identity
      <4>1. /\ state.passwords[k].device # None
        BY <1>5, <3>3 DEF Devices, DeviceIds
      <4>2. /\ state.passwords[k].device \in Devices(state)
            /\ state.devices[state.passwords[k].device].identity = state.passwords[k].identity
        BY <1>1, <4>1 DEF IInv, Sound, Linked
      <4> QED BY <1>1, <3>1, <4>2 DEF Devices
    <3> QED BY <1>7, <3>2, <3>3 DEF Conflict
  <2>2. state' = state
    BY <1>4, <1>7, <2>1 DEF Upserted
  <2>3. MemoryIsSaved'
    BY <1>7, <2>2 DEF MemoryIsSaved, Started
  <2>4. WholeUnlessRaced'
    BY <1>4, <1>7, <2>2 DEF WholeUnlessRaced, Whole, PasswordsAreNumbered, OneDeviceEach, Known,
                            Devices, Passwords, ReportsAreOn
  <2> QED BY <2>2, <2>3, <2>4 DEF KeepsIdentitiesUnlessFaulty, KeepsIdentities
<1>8. CASE ~Conflict(s, k, d) /\ Save(Bound(s, k, d)) /\ Continue(Bound(s, k, d), d)
  <2> DEFINE t == Bound(s, k, d)
  <2>2. ASSUME ~raced
        PROVE  Whole(t) /\ KeepsIdentities(state, t) /\ ReportsAreOn(t, reports')
    <3>1. Known(s, d) /\ \A e \in DeviceIds \ {d} : Known(s, e)
      BY <1>5, <1>6, <2>2 DEF Whole, Devices
    <3>2. k \in Passwords(s)
      BY <1>1, <1>5 DEF Passwords
    <3>3. /\ Whole(t) /\ Devices(t) = Devices(s) /\ t.passwords[k].identity = i
          /\ \A q \in Passwords(t) :
               q = k \/ (q \in Passwords(s) /\ t.passwords[q] = s.passwords[q])
      BY <1>5, <1>6, <2>2, <3>1, <3>2, BoundIsWhole DEF Whole, Sound
    <3> HIDE DEF t
    <3>4. KeepsIdentities(state, t)
      BY <1>1, <1>5, <3>3 DEF KeepsIdentities
    <3>5. Devices(state) \subseteq Devices(t) /\ d \in Devices(t)
      BY <1>5, <1>6, <2>2, <3>3
    <3>6. Continue(t, d)
      BY <1>8 DEF t
    <3> QED BY <2>2, <3>3, <3>4, <3>5, <3>6, ReportsStayOn DEF WholeUnlessRaced
  <2> QED BY <1>4, <1>8, <2>2, SaveKeepsWhole
<1> QED BY <1>3, <1>7, <1>8

\* A report on a device that is there leaves it as it is.
LEMMA StoreReportKeepsWhole ==
  ASSUME IInv, MemoryIsSaved, WholeUnlessRaced, NEW h \in Handlers, StoreReport(h)
  PROVE  MemoryIsSaved' /\ WholeUnlessRaced' /\ KeepsIdentitiesUnlessFaulty
<1> DEFINE r == reports[h]
           d == IF r.id \in Devices(state) THEN state.devices[r.id] ELSE r.base
           s == [state EXCEPT !.devices[r.id] = d]
<1>1. /\ r # NoReport /\ Save(s) /\ raced' = raced
      /\ reports' = [reports EXCEPT ![h] = NoReport]
  BY DEF StoreReport
<1>2. state \in State /\ r.base \in Device /\ r.id \in DeviceIds
  BY <1>1 DEF IInv, TypeOK, ReportsAreOfDevices, Report
<1>4. ASSUME ~raced
      PROVE  Whole(s) /\ KeepsIdentities(state, s) /\ ReportsAreOn(s, reports')
  <2>1. r.id \in Devices(state)
    BY <1>1, <1>4 DEF WholeUnlessRaced, ReportsAreOn
  <2>2. s = state
    <3>1. d = state.devices[r.id]
      BY <2>1
    <3> HIDE DEF d
    <3> QED BY <1>2, <3>1 DEF State
  <2>3. Whole(state) /\ ReportsAreOn(state, reports)
    BY <1>4 DEF WholeUnlessRaced
  <2> HIDE DEF s
  <2>4. ReportsAreOn(s, reports')
    BY <1>1, <2>2, <2>3, ReportsStayOn
  <2> QED BY <2>2, <2>3, <2>4 DEF KeepsIdentities
<1> HIDE DEF s
<1> QED BY <1>1, <1>4, SaveKeepsWhole

LEMMA TokenKeepsWhole ==
  ASSUME IInv, MemoryIsSaved, WholeUnlessRaced,
         NEW i \in Identities, HandleAuthTokenAppPassword(i)
  PROVE  MemoryIsSaved' /\ WholeUnlessRaced' /\ KeepsIdentitiesUnlessFaulty
<1> DEFINE s == Upserted(state, i)
           c == Created(s)
           k == s.nextPassword
           Without(old) == [c EXCEPT !.passwords[old] = NoPassword]
<1>1. /\ Sound(s) /\ s.passwords = state.passwords /\ s.nextPassword = state.nextPassword
      /\ ~raced => Whole(s) /\ Devices(state) \subseteq Devices(s)
  BY UpsertedIsSound, UpsertedIsWhole
     DEF IInv, HandleAuthTokenAppPassword, DeviceRoom, WholeUnlessRaced
<1>2. UNCHANGED <<reports, raced>>
  BY DEF HandleAuthTokenAppPassword
<1>3. PICK d \in Found(s, i) :
        \/ BoundTo(s, d) = {} /\ Save(Bound(c, k, d))
        \/ \E old \in BoundTo(s, d) : Save(Bound(Without(old), k, d))
  BY DEF HandleAuthTokenAppPassword
<1>4. d \in Devices(s) /\ d \in DeviceIds
  BY DEF Found, Devices
<1>5. s.nextPassword <= MaxPasswords
  BY <1>1 DEF HandleAuthTokenAppPassword, PasswordRoom
<1> HIDE DEF s
<1>6. /\ Sound(c) /\ c.devices = s.devices /\ k \in PasswordIds
      /\ BoundTo(c, d) \subseteq BoundTo(s, d) /\ d \in Devices(c)
  BY <1>1, <1>4, <1>5, CreatedIsSound DEF Devices
<1>7. ~raced =>
        /\ Whole(c) /\ Devices(c) = Devices(s) /\ k \notin Passwords(s) /\ k \in Passwords(c)
        /\ \A q \in Passwords(s) : q \in Passwords(c) /\ c.passwords[q] = s.passwords[q]
        /\ \A q \in Passwords(c) : q = k \/ q \in Passwords(s)
  BY <1>1, <1>5, CreatedIsWhole
<1> HIDE DEF c, k
\* From a state w with the passwords of s, or some of them, and k.
<1>9. ASSUME NEW w \in State, ~raced, PasswordsAreNumbered(w), OneDeviceEach(w),
             Devices(w) = Devices(s), k \in Passwords(w),
             \A e \in DeviceIds \ {d} : Known(w, e),
             Known(w, d) \/ w.devices[d].password \notin Passwords(w),
             \A q \in Passwords(w) :
               q = k \/ (q \in Passwords(s) /\ w.passwords[q] = s.passwords[q])
      PROVE  LET t == Bound(w, k, d)
             IN Whole(t) /\ KeepsIdentities(state, t) /\ ReportsAreOn(t, reports')
  <2> DEFINE t == Bound(w, k, d)
  <2>1. d \in Devices(w)
    BY <1>4, <1>9
  <2>2. /\ Whole(t) /\ Devices(t) = Devices(w)
        /\ \A q \in Passwords(t) :
             q = k \/ (q \in Passwords(w) /\ t.passwords[q] = w.passwords[q])
    BY <1>9, <2>1, BoundIsWhole
  <2> HIDE DEF t
  <2>3. KeepsIdentities(state, t)
    <3> SUFFICES ASSUME NEW q \in Passwords(state), q \in Passwords(t)
                 PROVE  t.passwords[q].identity = state.passwords[q].identity
      BY DEF KeepsIdentities
    <3>1. q \in Passwords(s) /\ s.passwords[q] = state.passwords[q]
      BY <1>1 DEF Passwords
    <3>2. q # k
      BY <1>7, <1>9, <3>1
    <3>3. t.passwords[q] = w.passwords[q] /\ w.passwords[q] = s.passwords[q]
      BY <1>9, <2>2, <3>2
    <3> QED BY <3>1, <3>3
  <2>4. Devices(state) \subseteq Devices(t) /\ ReportsAreOn(state, reports)
    BY <1>1, <1>9, <2>2 DEF WholeUnlessRaced
  <2>5. ReportsAreOn(t, reports')
    BY <1>2, <2>4, ReportsStayOn
  <2> QED BY <2>2, <2>3, <2>5 DEF t
<1>10. CASE BoundTo(s, d) = {} /\ Save(Bound(c, k, d))
  <2>2. ASSUME ~raced
        PROVE  /\ c \in State /\ PasswordsAreNumbered(c) /\ OneDeviceEach(c)
               /\ Devices(c) = Devices(s) /\ k \in Passwords(c)
               /\ Known(c, d) /\ \A e \in DeviceIds \ {d} : Known(c, e)
               /\ \A q \in Passwords(c) :
                    q = k \/ (q \in Passwords(s) /\ c.passwords[q] = s.passwords[q])
    BY <1>4, <1>6, <1>7, <2>2 DEF Whole, Sound
  <2>3. ~raced => LET t == Bound(c, k, d)
                  IN Whole(t) /\ KeepsIdentities(state, t) /\ ReportsAreOn(t, reports')
    BY <1>9, <2>2
  <2> QED BY <1>2, <1>10, <2>3, SaveKeepsWhole
<1>11. ASSUME NEW old \in BoundTo(s, d), Save(Bound(Without(old), k, d))
       PROVE  MemoryIsSaved' /\ WholeUnlessRaced' /\ KeepsIdentitiesUnlessFaulty
  <2> DEFINE w == Without(old)
  <2>1. old \in PasswordIds /\ old \in Passwords(s) /\ s.passwords[old].device = d /\ c \in State
    BY <1>6 DEF BoundTo, Passwords, Sound
  <2>2. NoPassword \in AppPassword /\ ~NoPassword.issued
    BY DEF NoPassword, Unbound, AppPassword
  <2>3. /\ w.passwords = [c.passwords EXCEPT ![old] = NoPassword]
        /\ w.devices = c.devices /\ w.nextPassword = c.nextPassword
        /\ w.nextDevice = c.nextDevice /\ w \in State
    BY <2>1, <2>2 DEF State
  <2>4. /\ old \notin Passwords(w) /\ Passwords(w) \subseteq Passwords(c)
        /\ \A q \in Passwords(c) \ {old} : q \in Passwords(w) /\ w.passwords[q] = c.passwords[q]
    BY <2>1, <2>2, <2>3 DEF Passwords, State
  <2> HIDE DEF w
  <2>8. ASSUME ~raced
        PROVE  /\ w \in State /\ PasswordsAreNumbered(w) /\ OneDeviceEach(w)
               /\ Devices(w) = Devices(s) /\ k \in Passwords(w)
               /\ \A e \in DeviceIds \ {d} : Known(w, e)
               /\ w.devices[d].password \notin Passwords(w)
               /\ \A q \in Passwords(w) :
                    q = k \/ (q \in Passwords(s) /\ w.passwords[q] = s.passwords[q])
    <3>1. Devices(w) = Devices(s)
      BY <1>6, <2>3 DEF Devices
    <3>2. old # k
      BY <1>7, <2>1, <2>8
    <3>3. k \in Passwords(w)
      BY <1>7, <2>4, <2>8, <3>2
    <3>4. PasswordsAreNumbered(w)
      BY <1>7, <2>3, <2>4, <2>8 DEF Whole, PasswordsAreNumbered, Passwords
    <3>5. OneDeviceEach(w)
      BY <1>6, <1>7, <2>3, <2>8, <3>1 DEF Whole, OneDeviceEach
    <3>6. ASSUME NEW e \in DeviceIds \ {d} PROVE Known(w, e)
      <4> DEFINE q == w.devices[e].password
      <4>1. Known(c, e) /\ q = c.devices[e].password
        BY <1>7, <2>3, <2>8 DEF Whole
      <4>2. CASE q = None
        BY <4>2 DEF Known
      <4>3. CASE q # None
        <5>1. q \in Passwords(c) /\ c.passwords[q].device = e
          BY <4>1, <4>3 DEF Known
        <5>2. q # old
          BY <1>7, <2>1, <2>8, <5>1
        <5> QED BY <2>4, <5>1, <5>2 DEF Known
      <4> QED BY <4>2, <4>3
    <3>7. w.devices[d].password \notin Passwords(w)
      <4>1. s.devices[d].password = old
        BY <1>1, <1>4, <2>1, BoundsAssumption DEF Sound, Linked, DeviceIds
      <4> QED BY <1>6, <2>3, <2>4, <4>1
    <3>8. \A q \in Passwords(w) :
            q = k \/ (q \in Passwords(s) /\ w.passwords[q] = s.passwords[q])
      BY <1>7, <2>4, <2>8
    <3> QED BY <2>3, <3>1, <3>3, <3>4, <3>5, <3>6, <3>7, <3>8
  <2>9. ~raced => LET t == Bound(w, k, d)
                  IN Whole(t) /\ KeepsIdentities(state, t) /\ ReportsAreOn(t, reports')
    BY <1>9, <2>8
  <2>10. Save(Bound(w, k, d))
    BY <1>11 DEF w
  <2> QED BY <1>2, <2>9, <2>10, SaveKeepsWhole
<1> QED BY <1>3, <1>10, <1>11

LEMMA DeletePasswordKeepsWhole ==
  ASSUME IInv, MemoryIsSaved, WholeUnlessRaced,
         NEW k \in PasswordIds, HandleAuthAppPasswordsDelete(k)
  PROVE  MemoryIsSaved' /\ WholeUnlessRaced' /\ KeepsIdentitiesUnlessFaulty
<1> DEFINE forgets(e) == \/ state.devices[e].password = k
                        \/ state.passwords[k].device = e
           D(e) == IF forgets(e) THEN [state.devices[e] EXCEPT !.password = None]
                   ELSE state.devices[e]
           s == [state EXCEPT !.passwords[k] = NoPassword,
                              !.devices = [e \in DeviceIds |-> D(e)]]
<1>1. Save(s) /\ UNCHANGED <<reports, raced>>
  BY DEF HandleAuthAppPasswordsDelete
<1>2. state \in State /\ ~NoPassword.issued
  BY DEF IInv, Sound, NoPassword, Unbound
<1>3. /\ s.passwords = [state.passwords EXCEPT ![k] = NoPassword]
      /\ s.devices = [e \in DeviceIds |-> D(e)]
      /\ s.nextPassword = state.nextPassword
  BY <1>2 DEF State
<1> HIDE DEF s
<1>4. /\ Passwords(s) = Passwords(state) \ {k}
      /\ \A q \in Passwords(s) : s.passwords[q] = state.passwords[q]
  BY <1>2, <1>3 DEF Passwords, State
<1>5. \A e \in DeviceIds :
        /\ s.devices[e].identity = state.devices[e].identity
        /\ \/ s.devices[e].password = None
           \/ s.devices[e].password = state.devices[e].password /\ state.devices[e].password # k
  <2> SUFFICES ASSUME NEW e \in DeviceIds
               PROVE  /\ s.devices[e].identity = state.devices[e].identity
                      /\ \/ s.devices[e].password = None
                         \/ /\ s.devices[e].password = state.devices[e].password
                            /\ state.devices[e].password # k
    OBVIOUS
  <2>1. state.devices[e] \in Device /\ s.devices[e] = D(e)
    BY <1>2, <1>3 DEF State
  <2> QED BY <2>1 DEF Device
<1>6. Devices(s) = Devices(state)
  BY <1>5 DEF Devices
<1>7. ASSUME ~raced
      PROVE  Whole(s) /\ KeepsIdentities(state, s) /\ ReportsAreOn(s, reports')
  <2>1. Whole(state) /\ ReportsAreOn(state, reports)
    BY <1>7 DEF WholeUnlessRaced
  <2>2. PasswordsAreNumbered(s)
    BY <1>3, <1>4, <2>1 DEF Whole, PasswordsAreNumbered, Passwords
  <2>3. OneDeviceEach(s)
    BY <1>5, <1>6, <2>1 DEF Whole, OneDeviceEach, Devices
  <2>4. ASSUME NEW e \in DeviceIds PROVE Known(s, e)
    <3> DEFINE q == s.devices[e].password
    <3>1. CASE q = None
      BY <3>1 DEF Known
    <3>2. CASE q # None
      <4>1. q = state.devices[e].password /\ q # k
        BY <1>5, <3>2
      <4>2. q \in Passwords(state) /\ state.passwords[q].device = e
        BY <2>1, <3>2, <4>1 DEF Whole, Known
      <4> QED BY <1>4, <4>1, <4>2 DEF Known
    <3> QED BY <3>1, <3>2
  <2>5. ReportsAreOn(s, reports')
    BY <1>1, <1>6, <2>1, ReportsStayOn
  <2> QED BY <1>4, <2>2, <2>3, <2>4, <2>5 DEF Whole, KeepsIdentities
<1> QED BY <1>1, <1>7, SaveKeepsWhole

\* A device that is deleted is not reported on, or the history says raced.
LEMMA DeleteDeviceKeepsWhole ==
  ASSUME IInv, MemoryIsSaved, WholeUnlessRaced, NEW d \in DeviceIds, HandleDevicesDelete(d)
  PROVE  MemoryIsSaved' /\ WholeUnlessRaced' /\ KeepsIdentitiesUnlessFaulty
<1> DEFINE P(q) == IF state.passwords[q].device = d
                     THEN [state.passwords[q] EXCEPT !.device = None]
                   ELSE state.passwords[q]
           s == [state EXCEPT !.devices[d] = NoDevice,
                              !.passwords = [q \in PasswordIds |-> P(q)]]
<1>1. /\ Save(s) /\ UNCHANGED reports
      /\ raced' = (raced \/ \E h \in Handlers : reports[h].id = d)
  BY DEF HandleDevicesDelete
<1>2. state \in State
  BY DEF IInv, Sound
<1>3. /\ s.passwords = [q \in PasswordIds |-> P(q)]
      /\ s.devices = [state.devices EXCEPT ![d] = NoDevice]
      /\ s.nextPassword = state.nextPassword
  BY <1>2 DEF State
<1> HIDE DEF s
<1>4. \A q \in PasswordIds :
        /\ s.passwords[q].issued = state.passwords[q].issued
        /\ s.passwords[q].identity = state.passwords[q].identity
        /\ state.passwords[q].device # d => s.passwords[q].device = state.passwords[q].device
  <2> SUFFICES ASSUME NEW q \in PasswordIds
               PROVE  /\ s.passwords[q].issued = state.passwords[q].issued
                      /\ s.passwords[q].identity = state.passwords[q].identity
                      /\ state.passwords[q].device # d
                           => s.passwords[q].device = state.passwords[q].device
    OBVIOUS
  <2>1. state.passwords[q] \in AppPassword /\ s.passwords[q] = P(q)
    BY <1>2, <1>3 DEF State
  <2> QED BY <2>1 DEF AppPassword
<1>5. Passwords(s) = Passwords(state)
  BY <1>4 DEF Passwords
<1>6. /\ s.devices[d] = NoDevice
      /\ \A e \in DeviceIds \ {d} : s.devices[e] = state.devices[e]
      /\ Devices(s) = Devices(state) \ {d}
  <2>1. /\ s.devices[d] = NoDevice
        /\ \A e \in DeviceIds \ {d} : s.devices[e] = state.devices[e]
    BY <1>2, <1>3 DEF State
  <2> QED BY <2>1 DEF Devices, NoDevice
<1>7. ASSUME ~raced'
      PROVE  Whole(s) /\ KeepsIdentities(state, s) /\ ReportsAreOn(s, reports')
  <2>1. ~raced /\ \A h \in Handlers : reports[h].id # d
    BY <1>1, <1>7
  <2>2. Whole(state) /\ ReportsAreOn(state, reports)
    BY <2>1 DEF WholeUnlessRaced
  <2>3. PasswordsAreNumbered(s)
    BY <1>3, <1>4, <2>2 DEF Whole, PasswordsAreNumbered
  <2>4. OneDeviceEach(s)
    BY <1>6, <2>2 DEF Whole, OneDeviceEach, Devices
  <2>5. ASSUME NEW e \in DeviceIds PROVE Known(s, e)
    <3>1. CASE e = d
      BY <1>6, <3>1 DEF Known, NoDevice
    <3>2. CASE e # d
      <4>1. Known(state, e) /\ s.devices[e] = state.devices[e]
        BY <1>6, <2>2, <3>2 DEF Whole
      <4> QED BY <1>4, <1>5, <3>2, <4>1 DEF Known, Passwords
    <3> QED BY <3>1, <3>2
  <2>6. ReportsAreOn(s, reports')
    BY <1>1, <1>6, <2>1, <2>2 DEF ReportsAreOn
  <2>7. KeepsIdentities(state, s)
    BY <1>4 DEF KeepsIdentities, Passwords
  <2> QED BY <2>3, <2>4, <2>5, <2>6, <2>7 DEF Whole
<1> QED BY <1>1, <1>7, SaveKeepsWhole

\* The window is nothing to devices and passwords; a start changes counters
\* only, and another start does nothing more.
LEMMA StartedIsWhole ==
  ASSUME NEW s \in State
  PROVE  /\ Whole(s) => Whole(Started(s))
         /\ Started(s).passwords = s.passwords /\ Started(Started(s)) = Started(s)
<1> DEFINE n == IF s.nextDevice = 2 /\ s.devices = EmptyState.devices
                  THEN 1 ELSE s.nextDevice
           m == IF s.nextPassword = 2 /\ s.passwords = EmptyState.passwords
                  THEN 1 ELSE s.nextPassword
           t == [s EXCEPT !.nextDevice = n, !.nextPassword = m]
<1>1. t = Started(s)
  BY Zenon DEF Started
<1>2. n \in 1 .. MaxDevices + 1 /\ m \in 1 .. MaxPasswords + 1
  <2>1. s.nextDevice \in 1 .. MaxDevices + 1 /\ s.nextPassword \in 1 .. MaxPasswords + 1
    BY DEF State
  <2> QED BY <2>1, BoundsAssumption
<1>3. /\ t \in State /\ t.devices = s.devices /\ t.passwords = s.passwords
      /\ t.nextDevice = n /\ t.nextPassword = m
  <2> HIDE DEF n, m
  <2> QED BY <1>2 DEF State
<1>4. /\ ~(n = 2 /\ s.devices = EmptyState.devices)
      /\ ~(m = 2 /\ s.passwords = EmptyState.passwords)
  OBVIOUS
<1>5. m = s.nextPassword \/ s.passwords = EmptyState.passwords
  OBVIOUS
<1> HIDE DEF t, n, m
<1>6. Started(t) = t
  <2>1. /\ (IF t.nextDevice = 2 /\ t.devices = EmptyState.devices THEN 1 ELSE t.nextDevice)
             = t.nextDevice
        /\ (IF t.nextPassword = 2 /\ t.passwords = EmptyState.passwords
              THEN 1 ELSE t.nextPassword) = t.nextPassword
    BY <1>3, <1>4
  <2>2. Started(t) = [t EXCEPT !.nextDevice = t.nextDevice, !.nextPassword = t.nextPassword]
    BY <2>1 DEF Started
  <2> QED BY <1>3, <2>2 DEF State
<1>7. ASSUME Whole(s) PROVE Whole(t)
  <2>1. PasswordsAreNumbered(t)
    <3>1. CASE m = s.nextPassword
      BY <1>3, <1>7, <3>1 DEF Whole, PasswordsAreNumbered
    <3>2. CASE s.passwords = EmptyState.passwords
      <4>1. \A k \in PasswordIds : ~EmptyState.passwords[k].issued
        BY DEF EmptyState, NoPassword, Unbound
      <4> QED BY <1>3, <3>2, <4>1 DEF PasswordsAreNumbered
    <3> QED BY <1>5, <3>1, <3>2
  <2> QED BY <1>3, <1>7, <2>1 DEF Whole, OneDeviceEach, Known, Devices, Passwords
<1> QED BY <1>1, <1>3, <1>6, <1>7

LEMMA WindowAndStart ==
  ASSUME NEW s \in State, NEW w \in BOOLEAN
  PROVE  Started([s EXCEPT !.window = w]) = [Started(s) EXCEPT !.window = w]
<1> DEFINE n == IF s.nextDevice = 2 /\ s.devices = EmptyState.devices
                  THEN 1 ELSE s.nextDevice
           m == IF s.nextPassword = 2 /\ s.passwords = EmptyState.passwords
                  THEN 1 ELSE s.nextPassword
           v == [s EXCEPT !.window = w]
<1>1. /\ v \in State /\ v.nextDevice = s.nextDevice /\ v.devices = s.devices
      /\ v.nextPassword = s.nextPassword /\ v.passwords = s.passwords
  BY DEF State
<1>2. Started(s) = [s EXCEPT !.nextDevice = n, !.nextPassword = m]
  BY Zenon DEF Started
<1> HIDE DEF v
<1>3. Started(v) = [v EXCEPT !.nextDevice = n, !.nextPassword = m]
  BY <1>1 DEF Started
<1> HIDE DEF n, m
<1>4. [v EXCEPT !.nextDevice = n, !.nextPassword = m]
        = [[s EXCEPT !.nextDevice = n, !.nextPassword = m] EXCEPT !.window = w]
  BY DEF v, State
<1> QED BY <1>2, <1>3, <1>4 DEF v

LEMMA WindowIsNoMatterEither ==
  ASSUME NEW s \in State, NEW w \in BOOLEAN
  PROVE  LET v == [s EXCEPT !.window = w]
         IN /\ Whole(s) => Whole(v)
            /\ v.passwords = s.passwords /\ Devices(v) = Devices(s)
<1> DEFINE v == [s EXCEPT !.window = w]
<1>1. /\ v.devices = s.devices /\ v.nextPassword = s.nextPassword /\ v.passwords = s.passwords
  BY DEF State
<1> HIDE DEF v
<1>2. Whole(s) => Whole(v)
  BY <1>1 DEF Whole, PasswordsAreNumbered, OneDeviceEach, Known, Devices, Passwords
<1>3. Devices(v) = Devices(s)
  BY <1>1 DEF Devices
<1> QED BY <1>1, <1>2, <1>3 DEF v

LEMMA OthersKeepWhole ==
  ASSUME IInv, MemoryIsSaved, WholeUnlessRaced,
         \/ \E i \in Identities : HandleAuthLogin(i)
         \/ HandleAuthAppPasswordsCreate
         \/ HandleAuthAppPasswordsAutoEnable
         \/ WindowEnds
         \/ Restart
  PROVE  MemoryIsSaved' /\ WholeUnlessRaced' /\ KeepsIdentitiesUnlessFaulty
<1>0. Sound(state) /\ Sound(stored) /\ state \in State /\ stored \in State
  BY DEF IInv, Sound
<1>1. ASSUME NEW i \in Identities, HandleAuthLogin(i)
      PROVE  MemoryIsSaved' /\ WholeUnlessRaced' /\ KeepsIdentitiesUnlessFaulty
  <2> DEFINE s == Upserted(state, i)
  <2>1. /\ s.passwords = state.passwords
        /\ ~raced => Whole(s) /\ Devices(state) \subseteq Devices(s)
    BY <1>0, <1>1, UpsertedIsSound, UpsertedIsWhole
       DEF HandleAuthLogin, DeviceRoom, WholeUnlessRaced
  <2>2. Save(s) /\ UNCHANGED <<reports, raced>>
    BY <1>1 DEF HandleAuthLogin
  <2> HIDE DEF s
  <2>3. KeepsIdentities(state, s)
    BY <2>1 DEF KeepsIdentities, Passwords
  <2>4. ~raced => ReportsAreOn(s, reports')
    BY <2>1, <2>2, ReportsStayOn DEF WholeUnlessRaced
  <2> QED BY <2>1, <2>2, <2>3, <2>4, SaveKeepsWhole
<1>2. CASE HandleAuthAppPasswordsCreate
  <2> DEFINE c == Created(state)
  <2>1. ~raced => /\ Whole(c) /\ Devices(c) = Devices(state)
                  /\ \A k \in Passwords(state) : c.passwords[k] = state.passwords[k]
    BY <1>0, <1>2, CreatedIsWhole DEF HandleAuthAppPasswordsCreate, PasswordRoom,
                                      WholeUnlessRaced
  <2>2. Save(c) /\ UNCHANGED <<reports, raced>>
    BY <1>2 DEF HandleAuthAppPasswordsCreate
  <2> HIDE DEF c
  <2>3. ~raced => KeepsIdentities(state, c)
    BY <2>1 DEF KeepsIdentities
  <2>4. ~raced => ReportsAreOn(c, reports')
    BY <2>1, <2>2, ReportsStayOn DEF WholeUnlessRaced
  <2> QED BY <2>1, <2>2, <2>3, <2>4, SaveKeepsWhole
<1>3. CASE HandleAuthAppPasswordsAutoEnable
  <2> DEFINE s == [state EXCEPT !.window = TRUE]
  <2>1. /\ Whole(state) => Whole(s)
        /\ s.passwords = state.passwords /\ Devices(s) = Devices(state)
    BY <1>0, WindowIsNoMatterEither
  <2>2. Save(s) /\ UNCHANGED <<reports, raced>>
    BY <1>3 DEF HandleAuthAppPasswordsAutoEnable
  <2> HIDE DEF s
  <2>3. KeepsIdentities(state, s)
    BY <2>1 DEF KeepsIdentities
  <2>4. ~raced => Whole(s) /\ ReportsAreOn(s, reports')
    BY <2>1, <2>2, ReportsStayOn DEF WholeUnlessRaced
  <2> QED BY <2>1, <2>2, <2>3, <2>4, SaveKeepsWhole
<1>4. CASE WindowEnds
  <2> DEFINE s == [state EXCEPT !.window = FALSE]
             t == [stored EXCEPT !.window = FALSE]
  <2>1. state' = s /\ stored' = t /\ UNCHANGED <<reports, faults, raced>>
    BY <1>4 DEF WindowEnds
  <2>2. /\ Whole(state) => Whole(s)
        /\ s.passwords = state.passwords /\ Devices(s) = Devices(state)
        /\ Whole(stored) => Whole(t)
    BY <1>0, WindowIsNoMatterEither
  <2>3. Started(stored) = Started(state) => Started(t) = Started(s)
    <3>1. Started(t) = [Started(stored) EXCEPT !.window = FALSE]
          /\ Started(s) = [Started(state) EXCEPT !.window = FALSE]
      BY <1>0, WindowAndStart
    <3> QED BY <3>1
  <2> HIDE DEF s, t
  <2>4. MemoryIsSaved'
    <3>1. faults' = 0 => Started(stored') = Started(state')
      BY <2>1, <2>3 DEF MemoryIsSaved
    <3> QED BY <3>1 DEF MemoryIsSaved, Started
  <2>5. ~raced' => Whole(state') /\ Whole(stored') /\ ReportsAreOn(state', reports')
    BY <2>1, <2>2, ReportsStayOn DEF WholeUnlessRaced
  <2>6. KeepsIdentities(state, state')
    BY <2>1, <2>2 DEF KeepsIdentities
  <2> QED BY <2>4, <2>5, <2>6, WholeIsPrimed DEF KeepsIdentitiesUnlessFaulty
<1>5. CASE Restart
  <2>1. state' = Started(stored) /\ reports' = [h \in Handlers |-> NoReport]
        /\ UNCHANGED <<stored, faults, raced>>
    BY <1>5 DEF Restart
  <2>2. MemoryIsSaved'
    <3>1. Started(state') = Started(stored')
      BY <1>0, <2>1, StartedIsWhole
    <3> QED BY <3>1 DEF MemoryIsSaved, Started
  <2>3. ~raced' => Whole(state') /\ Whole(stored') /\ ReportsAreOn(state', reports')
    <3>1. Whole(stored) => Whole(state')
      BY <1>0, <2>1, StartedIsWhole
    <3>2. ReportsAreOn(state', reports')
      BY <2>1 DEF ReportsAreOn
    <3> QED BY <2>1, <3>1, <3>2 DEF WholeUnlessRaced
  <2>4. faults' = 0 => KeepsIdentities(state, state')
    <3>1. faults' = 0 => state' = Started(state)
      BY <2>1 DEF MemoryIsSaved
    <3>2. Started(state).passwords = state.passwords
      BY <1>0, StartedIsWhole
    <3> QED BY <3>1, <3>2 DEF KeepsIdentities
  <2> QED BY <2>2, <2>3, <2>4, WholeIsPrimed DEF KeepsIdentitiesUnlessFaulty
<1> QED BY <1>1, <1>2, <1>3, <1>4, <1>5
-----------------------------------------------------------------------------
LEMMA InitWhole == Init => MemoryIsSaved /\ WholeUnlessRaced
BY EmptyIsWhole DEF Init, MemoryIsSaved, WholeUnlessRaced, ReportsAreOn

LEMMA NextWhole ==
  ASSUME IInv, MemoryIsSaved, WholeUnlessRaced, [Next]_vars
  PROVE  MemoryIsSaved' /\ WholeUnlessRaced' /\ KeepsIdentitiesUnlessFaulty
<1>1. CASE \E i \in Identities : AuthenticateHelperWithoutKey(i)
  BY <1>1, WithoutKeyKeepsWhole
<1>2. CASE \E i \in Identities : HandleAuthTokenAppPassword(i)
  BY <1>2, TokenKeepsWhole
<1>3. CASE \E k \in PasswordIds, i \in Identities \cup {NoIdentity} : AuthenticateHelperKey(k, i)
  BY <1>3, HelperKeyKeepsWhole
<1>4. CASE \E k \in PasswordIds : HandleAuthAppPasswordsDelete(k)
  BY <1>4, DeletePasswordKeepsWhole
<1>5. CASE \E d \in DeviceIds : HandleDevicesDelete(d)
  BY <1>5, DeleteDeviceKeepsWhole
<1>6. CASE \E h \in Handlers : StoreReport(h)
  BY <1>6, StoreReportKeepsWhole
<1>7. CASE UNCHANGED vars
  <2>1. UNCHANGED <<state, stored, reports, faults, raced>>
    BY <1>7 DEF vars
  <2>2. MemoryIsSaved'
    BY <2>1 DEF MemoryIsSaved, Started
  <2>3. ~raced' => Whole(state') /\ Whole(stored') /\ ReportsAreOn(state', reports')
    BY <2>1 DEF WholeUnlessRaced
  <2>4. KeepsIdentities(state, state')
    BY <2>1 DEF KeepsIdentities
  <2> QED BY <2>2, <2>3, <2>4, WholeIsPrimed DEF KeepsIdentitiesUnlessFaulty
<1> QED BY <1>1, <1>2, <1>3, <1>4, <1>5, <1>6, <1>7, OthersKeepWhole DEF Next

LEMMA WholeInvariance == Spec => [](IInv /\ MemoryIsSaved /\ WholeUnlessRaced)
<1>1. Init => IInv /\ MemoryIsSaved /\ WholeUnlessRaced
  BY InitInvariant, InitWhole
<1>2. IInv /\ MemoryIsSaved /\ WholeUnlessRaced /\ [Next]_vars
        => (IInv /\ MemoryIsSaved /\ WholeUnlessRaced)'
  BY NextInvariant, NextWhole
<1> QED BY <1>1, <1>2, PTL DEF Spec

(* While no write has failed, a restart brings back what memory says: a    *)
(* request that is turned away has made no device (persistSecurityDevice-  *)
(* StateLocked, authenticateHelperKey).                                    *)
THEOREM MemoryMatchesTheFile == Spec => []MemoryIsSaved
BY WholeInvariance, PTL

(* Unless a device was deleted in the middle of a report, the password a   *)
(* device names is issued and bound to it (bindAppPasswordToDeviceLocked). *)
THEOREM DevicesNameBack == Spec => []DevicesNameTheirPassword
<1>1. WholeUnlessRaced => DevicesNameTheirPassword
  BY DEF WholeUnlessRaced, Whole, Known, DevicesNameTheirPassword, Devices
<1> QED BY <1>1, WholeInvariance, PTL

(* With the same exception, a helper that shows the password its device is *)
(* bound to is never answered 409 (authenticateHelperKey).                 *)
THEOREM BoundPasswordsWork == Spec => []BoundPasswordsAreAccepted
<1>1. IInv /\ WholeUnlessRaced => BoundPasswordsAreAccepted
  <2> SUFFICES ASSUME IInv, WholeUnlessRaced, ~raced,
                      NEW k \in Passwords(state), state.passwords[k].device # None,
                      NEW d \in Found(state, state.passwords[k].identity)
               PROVE  ~Conflict(state, k, d)
    BY DEF BoundPasswordsAreAccepted
  <2> DEFINE e == state.passwords[k].device
  <2>1. e \in Devices(state) /\ state.devices[e].password = k
        /\ state.devices[e].identity = state.passwords[k].identity
    BY DEF IInv, Sound, Linked
  <2>2. d = e
    BY <2>1 DEF WholeUnlessRaced, Whole, OneDeviceEach, Found
  <2>3. BoundTo(state, d) \ {k} = {}
    BY <2>1, <2>2 DEF IInv, Sound, Linked, BoundTo
  <2> QED BY <2>2, <2>3 DEF Conflict
<1> QED BY <1>1, WholeInvariance, PTL

(* With the same exception, and while no write has failed, a password stays *)
(* with the machine it was first used on until it is deleted (authenticate- *)
(* HelperKey, bindAppPasswordToDeviceLocked).                              *)
THEOREM PasswordsStayOnTheirMachine == Spec => PasswordsKeepTheirMachine
<1>1. IInv /\ MemoryIsSaved /\ WholeUnlessRaced /\ [Next]_vars =>
        [\A k \in Passwords(state) :
           (/\ ~raced' /\ faults' = 0
            /\ state.passwords[k].identity # NoIdentity
            /\ k \in Passwords(state'))
             => /\ state'.passwords[k].identity # NoIdentity
                /\ Machine[state'.passwords[k].identity]
                     = Machine[state.passwords[k].identity]]_vars
  BY NextWhole DEF KeepsIdentitiesUnlessFaulty, KeepsIdentities
<1> QED BY <1>1, WholeInvariance, PTL DEF Spec, PasswordsKeepTheirMachine
=============================================================================
