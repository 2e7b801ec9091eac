---- MODULE EventsPolicyAndPacksProofs ----
(***************************************************************************)
(* What a client of the event stream believes, what a helper is told to    *)
(* sync, and which packs an edit may use, for any number of streams,       *)
(* conflicts, reports, sources, packs, modules and requests at once.       *)
(*                                                                         *)
(* Notifications: what is published of a conflict while no two requests    *)
(* change it is always the truth of the moment (CallsAreTrue). So it is    *)
(* enough to follow the last event of a conflict in a stream's channel:    *)
(* once no handler has yet to send the stream one, that event, or what its *)
(* client knows if there is none, is the truth (StreamsAgree).             *)
(*                                                                         *)
(* Policy: the sources an operator set are in the device, and nothing      *)
(* after them with their ids is the operator's (Rules). A report keeps     *)
(* this since the merge goes through what the device has in order and puts *)
(* each source of the operator's in the place of the last with its id, or  *)
(* at the end (MergeKeepsRules, which looks at the first step of the loop  *)
(* that would not). The helper is told what the last source with an id     *)
(* says, which is that one.                                                *)
(*                                                                         *)
(* Packs: a pack that an operator switched off is so where its status is   *)
(* (KeptOff): in its manifest, in the record of the first module that has  *)
(* it and of which every request that will write one leaves it off, or in  *)
(* a tombstone, with no module that has it or is about to.  A request that *)
(* met no other (AloneOK) still sees what it saw when it began (SeenOK),   *)
(* so that it writes where the status is; and a request at work writes no  *)
(* pack as active that is off (RespectsOK).                                *)
(***************************************************************************)
EXTENDS Notifications, DevicePolicy, CheatLibrary, SequenceTheorems,
        WellFoundedInduction, TLAPS

\* What a client that knows of k should have been told last.
Truth(k) == IF k \in conflicts THEN Created(k) ELSE Resolved(k)
TruthKnown(k) == IF k \in conflicts THEN "open" ELSE "resolved"

\* A handler has yet to tell stream s of a change of k.
Awaits(s, k) ==
    \E h \in Handlers : \E i \in 1..Len(calls[h]) :
        /\ calls[h][i] \in About(k)
        /\ i # 1 \/ targets[h] = NotSending \/ s \in targets[h]

\* What the client of s will believe of k once it has read its channel.
Agrees(s, k) ==
    /\ \A i \in 1..Len(channel[s]) :
          /\ channel[s][i] \in About(k)
          /\ \A j \in 1..Len(channel[s]) : channel[s][j] \in About(k) => j <= i
          => channel[s][i] = Truth(k)
    /\ (\A i \in 1..Len(channel[s]) : channel[s][i] \notin About(k))
          => known[s][k] \in {"unknown", TruthKnown(k)}

\* A handler with targets is sending its next event to them.
SendersSend ==
    \A h \in Handlers : targets[h] # NotSending =>
        /\ calls[h] # <<>> /\ Head(calls[h]) \in Event
        /\ \A s \in targets[h] : stream[s] # "new"

NewStreamsAreEmpty ==
    \A s \in Streams : stream[s] = "new" =>
        channel[s] = <<>> /\ \A k \in Keys : known[s][k] = "unknown"

\* What is still to be told of a conflict that only one request changes is true.
CallsAreTrue ==
    \A k \in Keys \ crossed, h \in Handlers :
        \A i \in 1..Len(calls[h]) : calls[h][i] \in About(k) => calls[h][i] = Truth(k)

\* A stream nobody has yet to tell of k will have its client know the truth.
StreamsAgree ==
    \A s \in Streams \ missed, k \in Keys \ crossed :
        stream[s] = "open" /\ ~Awaits(s, k) => Agrees(s, k)

NotifyInv ==
    /\ NotificationsTypeOK
    /\ SendersSend
    /\ subscribers = {s \in Streams : stream[s] = "open"}
    /\ NewStreamsAreEmpty
    /\ CallsAreTrue
    /\ StreamsAgree

----------------------------------------------------------------------------
LEMMA CallTypes ==
  ASSUME NEW k \in Keys
  PROVE  /\ Created(k) \in Event /\ Resolved(k) \in Event /\ Other(k) \in Event
         /\ ForSave(k) \in Call /\ Event \subseteq Call
         /\ Created(k) # Resolved(k)
         /\ ForSave(k) \notin Event
         /\ \A l \in Keys : /\ Other(k) \notin About(l) /\ ForSave(k) \notin About(l)
                            /\ k # l => Created(k) \notin About(l) /\ Resolved(k) \notin About(l)
         /\ \A e \in About(k) : e.key = k /\ e \in {Created(k), Resolved(k)}
         /\ Created(k).type = "conflict_created" /\ Resolved(k).type = "conflict_resolved"
<1>1. /\ \A l \in Keys : /\ Created(l).type = "conflict_created" /\ Created(l).key = l
                        /\ Resolved(l).type = "conflict_resolved" /\ Resolved(l).key = l
                        /\ Other(l).type = "other" /\ ForSave(l).type = "resolve"
  BY DEF Created, Resolved, Other, ForSave
<1>2. Created(k) \in Call /\ Resolved(k) \in Call /\ Other(k) \in Call /\ ForSave(k) \in Call
  BY DEF Call
<1>3. \A l \in Keys : \A e \in About(l) : e = Created(l) \/ e = Resolved(l)
  BY DEF About
<1>4. \A l \in Keys : Other(k) \notin About(l) /\ ForSave(k) \notin About(l)
  BY <1>1, <1>3
<1>5. \A l \in Keys : k # l => Created(k) \notin About(l) /\ Resolved(k) \notin About(l)
  BY <1>1, <1>3
<1>6. Created(k) \in Event /\ Resolved(k) \in Event /\ Other(k) \in Event
      /\ Event \subseteq Call /\ ForSave(k) \notin Event
  BY <1>1, <1>2 DEF Event
<1>7. \A e \in About(k) : e.key = k /\ e \in {Created(k), Resolved(k)}
  BY <1>1, <1>3
<1> QED BY <1>1, <1>2, <1>4, <1>5, <1>6, <1>7

LEMMA NotifyInitInv == NotificationsInit => NotifyInv
<1> SUFFICES ASSUME NotificationsInit PROVE NotifyInv
  OBVIOUS
<1>0. /\ \A h \in Handlers : <<>> \in Seq(Call) /\ {} \in SUBSET Streams
      /\ <<>> \in Seq(Event) /\ Len(<<>>) = 0
  OBVIOUS
<1>1. NotificationsTypeOK
  BY <1>0, NotificationsAssumption DEF NotificationsInit, NotificationsTypeOK
<1>2. SendersSend /\ NewStreamsAreEmpty /\ CallsAreTrue
  BY DEF NotificationsInit, SendersSend, NewStreamsAreEmpty, CallsAreTrue
<1>3. StreamsAgree /\ subscribers = {s \in Streams : stream[s] = "open"}
  BY DEF NotificationsInit, StreamsAgree
<1> QED BY <1>1, <1>2, <1>3 DEF NotifyInv

\* A request that begins: h tells what todo says.
LEMMA ServeInv ==
  ASSUME NotifyInv, NEW h \in Handlers, NEW k \in Keys, NEW todo \in Seq(Call),
         Serve(h, todo),
         NEW e, e \in {Created(k), Resolved(k), Other(k)},
         todo # <<>>, todo[1] = e,
         \A i \in 1..Len(todo), l \in Keys : i # 1 => todo[i] \notin About(l),
         conflicts' = IF e = Created(k) THEN conflicts \cup {k}
                      ELSE IF e = Resolved(k) THEN conflicts \ {k} ELSE conflicts,
         IF e = Other(k) THEN crossed' = crossed ELSE Changes(k)
  PROVE  NotifyInv'
<1>1. /\ calls[h] = <<>> /\ calls' = [calls EXCEPT ![h] = todo]
      /\ requests' \in 0..MaxRequests
      /\ UNCHANGED <<subscribers, targets, stream, channel, known, missed>>
  BY NotificationsAssumption DEF Serve, Idle, NotifyInv, NotificationsTypeOK
<1>2. calls \in [Handlers -> Seq(Call)] /\ calls' \in [Handlers -> Seq(Call)]
      /\ calls'[h] = todo /\ \A g \in Handlers \ {h} : calls'[g] = calls[g]
  BY <1>1 DEF NotifyInv, NotificationsTypeOK
<1>3. targets[h] = NotSending
  BY <1>1 DEF NotifyInv, SendersSend
<1>4. /\ conflicts' \subseteq Keys /\ crossed' \subseteq Keys /\ crossed \subseteq crossed'
      /\ \A l \in Keys \ {k} : l \in conflicts' <=> l \in conflicts
      /\ \A l \in Keys \ {k} : l \in crossed' <=> l \in crossed
      /\ e \in About(k) /\ k \notin crossed' => ~Unsent(k) /\ e = Truth(k)'
      /\ e \notin About(k) => conflicts' = conflicts /\ crossed' = crossed
  BY CallTypes DEF NotifyInv, NotificationsTypeOK, Changes, About, Truth
<1>5. NotificationsTypeOK'
  BY <1>1, <1>2, <1>4 DEF NotifyInv, NotificationsTypeOK
<1>6. SendersSend' /\ NewStreamsAreEmpty' /\ subscribers' = {s \in Streams : stream'[s] = "open"}
  BY <1>1, <1>2, <1>3 DEF NotifyInv, SendersSend, NewStreamsAreEmpty
<1>7. \A l \in Keys \ {k} : Truth(l)' = Truth(l) /\ TruthKnown(l)' = TruthKnown(l)
  BY <1>4 DEF Truth, TruthKnown
<1>8. \A l \in Keys \ {k}, i \in 1..Len(todo) : todo[i] \notin About(l)
  <2> SUFFICES ASSUME NEW l \in Keys \ {k} PROVE e \notin About(l)
    OBVIOUS
  <2> QED BY CallTypes
<1>9. CallsAreTrue'
  <2> SUFFICES ASSUME NEW l \in Keys \ crossed', NEW g \in Handlers,
                      NEW i \in 1..Len(calls'[g]), calls'[g][i] \in About(l)
               PROVE  calls'[g][i] = Truth(l)'
    BY DEF CallsAreTrue
  <2>1. l \notin crossed
    BY <1>4
  <2>2. CASE l # k
    <3>1. g # h
      BY <1>2, <1>8, <2>2
    <3> QED BY <1>2, <1>7, <2>1, <2>2, <3>1 DEF NotifyInv, CallsAreTrue
  <2>3. CASE l = k /\ e \in About(k)
    <3>1. ~Unsent(k) /\ e = Truth(k)'
      BY <1>4, <2>3
    <3>2. g = h
      BY <1>2, <2>3, <3>1 DEF Unsent
    <3>3. i = 1
      BY <1>2, <3>2
    <3> QED BY <1>2, <2>3, <3>1, <3>2, <3>3
  <2>4. CASE l = k /\ e \notin About(k)
    <3>1. g # h
      BY <1>2, <2>4
    <3>2. Truth(l)' = Truth(l)
      BY <1>4, <2>4 DEF Truth
    <3> QED BY <1>2, <2>1, <2>4, <3>1, <3>2 DEF NotifyInv, CallsAreTrue
  <2> QED BY <2>2, <2>3, <2>4
<1>10. StreamsAgree'
  <2> SUFFICES ASSUME NEW s \in Streams \ missed', NEW l \in Keys \ crossed',
                      stream'[s] = "open", ~Awaits(s, l)'
               PROVE  Agrees(s, l)'
    BY DEF StreamsAgree
  <2>1. ~(l = k /\ e \in About(k))
    <3> SUFFICES ASSUME l = k, e \in About(k) PROVE Awaits(s, l)'
      OBVIOUS
    <3>1. 1 \in 1..Len(calls'[h]) /\ calls'[h][1] \in About(k) /\ targets'[h] = NotSending
      BY <1>1, <1>2, <1>3
    <3> QED BY <3>1 DEF Awaits
  <2>2. ~Awaits(s, l)
    <3> SUFFICES ASSUME Awaits(s, l) PROVE Awaits(s, l)'
      OBVIOUS
    <3>1. PICK g \in Handlers : \E i \in 1..Len(calls[g]) :
            /\ calls[g][i] \in About(l)
            /\ i # 1 \/ targets[g] = NotSending \/ s \in targets[g]
      BY DEF Awaits
    <3>2. g # h
      <4>1. Len(calls[h]) = 0
        BY <1>1
      <4> QED BY <3>1, <4>1
    <3> QED BY <1>1, <1>2, <3>1, <3>2 DEF Awaits
  <2>3. Agrees(s, l)
    BY <1>1, <1>4, <2>2 DEF NotifyInv, StreamsAgree
  <2>4. Truth(l)' = Truth(l) /\ TruthKnown(l)' = TruthKnown(l)
    BY <1>4, <1>7, <2>1 DEF Truth, TruthKnown
  <2> QED BY <1>1, <2>3, <2>4 DEF Agrees
<1> QED BY <1>5, <1>6, <1>9, <1>10 DEF NotifyInv

LEMMA ReportConflictInv ==
  ASSUME NotifyInv, NEW h \in Handlers, NEW k \in Keys, ReportConflict(h, k)
  PROVE  NotifyInv'
<1> DEFINE todo == <<Created(k), Other(k)>>
           e == Created(k)
<1>1. Serve(h, todo) /\ conflicts' = conflicts \cup {k} /\ Changes(k)
  BY DEF ReportConflict
<1>2. /\ Created(k) \in Call /\ Resolved(k) \in Call /\ Other(k) \in Call
      /\ \A l \in Keys : Other(k) \notin About(l)
      /\ e # Other(k)
  BY CallTypes DEF About
<1>3. /\ todo \in Seq(Call) /\ Len(todo) = 2 /\ todo # <<>> /\ todo[1] = e /\ todo[2] = Other(k)
  BY <1>2
<1>4. \A i \in 1..Len(todo), l \in Keys : i # 1 => todo[i] \notin About(l)
  <2> HIDE DEF todo
  <2>1. \A i \in 1..Len(todo) : i = 1 \/ i = 2
    BY <1>3
  <2> QED BY <1>2, <1>3, <2>1
<1> HIDE DEF todo
<1> QED BY <1>1, <1>2, <1>3, <1>4, ServeInv

LEMMA ResolveConflictByIDInv ==
  ASSUME NotifyInv, NEW h \in Handlers, NEW k \in Keys, ResolveConflictByID(h, k)
  PROVE  NotifyInv'
<1> DEFINE todo == <<Resolved(k), Other(k)>>
           e == Resolved(k)
<1>1. Serve(h, todo) /\ conflicts' = conflicts \ {k} /\ Changes(k)
  BY DEF ResolveConflictByID
<1>2. /\ Created(k) \in Call /\ Resolved(k) \in Call /\ Other(k) \in Call
      /\ \A l \in Keys : Other(k) \notin About(l)
      /\ e # Other(k) /\ e # Created(k)
  BY CallTypes DEF About
<1>3. /\ todo \in Seq(Call) /\ Len(todo) = 2 /\ todo # <<>> /\ todo[1] = e /\ todo[2] = Other(k)
  BY <1>2
<1>4. \A i \in 1..Len(todo), l \in Keys : i # 1 => todo[i] \notin About(l)
  <2> HIDE DEF todo
  <2>1. \A i \in 1..Len(todo) : i = 1 \/ i = 2
    BY <1>3
  <2> QED BY <1>2, <1>3, <2>1
<1> HIDE DEF todo
<1> QED BY <1>1, <1>2, <1>3, <1>4, ServeInv

LEMMA OtherRequestsInv ==
  ASSUME NotifyInv, NEW h \in Handlers, NEW k \in Keys,
         Upload(h, k) \/ HandleDeviceCommand(h, k) \/ HandleDevicesPatch(h, k)
  PROVE  NotifyInv'
<1> DEFINE e == Other(k)
<1>1. conflicts' = conflicts /\ crossed' = crossed
  BY DEF Upload, HandleDeviceCommand, HandleDevicesPatch
<1>2. e # Created(k) /\ e # Resolved(k)
  BY CallTypes DEF About
<1>3. ASSUME NEW todo, Serve(h, todo), todo = <<Other(k), ForSave(k), Other(k)>> PROVE NotifyInv'
  <2>1. /\ todo \in Seq(Call) /\ Len(todo) = 3 /\ todo # <<>> /\ todo[1] = e
        /\ \A i \in 1..Len(todo), l \in Keys : i # 1 => todo[i] \notin About(l)
    BY <1>3, CallTypes
  <2> QED BY <1>1, <1>2, <1>3, <2>1, ServeInv
<1>4. ASSUME NEW todo, Serve(h, todo), todo = <<Other(k), Other(k)>> PROVE NotifyInv'
  <2>1. /\ todo \in Seq(Call) /\ Len(todo) = 2 /\ todo # <<>> /\ todo[1] = e
        /\ \A i \in 1..Len(todo), l \in Keys : i # 1 => todo[i] \notin About(l)
    BY <1>4, CallTypes
  <2> QED BY <1>1, <1>2, <1>4, <2>1, ServeInv
<1>5. ASSUME NEW todo, Serve(h, todo), todo = <<Other(k)>> PROVE NotifyInv'
  <2>1. /\ todo \in Seq(Call) /\ Len(todo) = 1 /\ todo # <<>> /\ todo[1] = e
        /\ \A i \in 1..Len(todo), l \in Keys : i # 1 => todo[i] \notin About(l)
    BY <1>5, CallTypes
  <2> QED BY <1>1, <1>2, <1>5, <2>1, ServeInv
<1> QED BY <1>3, <1>4, <1>5 DEF Upload, HandleDeviceCommand, HandleDevicesPatch

\* A handler is done with its first call.
LEMMA TailOfCalls ==
  ASSUME NotificationsTypeOK, NEW h \in Handlers, calls[h] # <<>>
  PROVE  /\ Tail(calls[h]) \in Seq(Call) /\ Head(calls[h]) = calls[h][1]
         /\ Head(calls[h]) \in Call
         /\ Len(calls[h]) \in Nat \ {0} /\ Len(Tail(calls[h])) = Len(calls[h]) - 1
         /\ \A i \in 1..Len(Tail(calls[h])) : Tail(calls[h])[i] = calls[h][i + 1]
                                             /\ i + 1 \in 1..Len(calls[h])
<1>1. calls[h] \in Seq(Call)
  BY DEF NotificationsTypeOK
<1> QED BY <1>1

LEMMA ResolveConflictForSaveInv ==
  ASSUME NotifyInv, NEW h \in Handlers, ResolveConflictForSave(h)
  PROVE  NotifyInv'
<1>1. PICK k \in Keys :
        /\ calls[h] # <<>> /\ Head(calls[h]) = ForSave(k)
        /\ IF k \in conflicts
              THEN /\ conflicts' = conflicts \ {k}
                   /\ calls' = [calls EXCEPT ![h] =
                                  <<Resolved(k), Other(k)>> \o Tail(calls[h])]
                   /\ Changes(k)
              ELSE /\ calls' = [calls EXCEPT ![h] = Tail(calls[h])]
                   /\ UNCHANGED <<conflicts, crossed>>
        /\ UNCHANGED <<subscribers, targets, stream, channel, known, missed, requests>>
  BY DEF ResolveConflictForSave, Idle
<1> DEFINE old == calls[h]
           rest == Tail(calls[h])
<1>2. /\ rest \in Seq(Call) /\ old[1] = ForSave(k) /\ Len(old) \in Nat \ {0} /\ Len(rest) = Len(old) - 1
      /\ \A i \in 1..Len(rest) : rest[i] = old[i + 1] /\ i + 1 \in 1..Len(old)
  BY <1>1, TailOfCalls DEF NotifyInv
<1>3. targets[h] = NotSending
  BY <1>1, CallTypes DEF NotifyInv, SendersSend
<1>4. calls \in [Handlers -> Seq(Call)] /\ old = calls[h]
  BY DEF NotifyInv, NotificationsTypeOK
<1> HIDE DEF old, rest
<1>5. \A l \in Keys, i \in 1..Len(old) : old[i] \in About(l) => i - 1 \in 1..Len(rest) /\ rest[i - 1] = old[i]
  <2> SUFFICES ASSUME NEW l \in Keys, NEW i \in 1..Len(old), old[i] \in About(l)
               PROVE  i - 1 \in 1..Len(rest) /\ rest[i - 1] = old[i]
    OBVIOUS
  <2>1. i # 1
    BY <1>2, CallTypes
  <2>2. i - 1 \in 1..Len(rest) /\ (i - 1) + 1 = i
    BY <1>2, <2>1
  <2> QED BY <1>2, <2>2
\* Whatever else h tells, its new calls are some about k and those it had.
<1>6. PICK m \in Nat, new \in Seq(Call) :
        /\ calls' = [calls EXCEPT ![h] = new] /\ Len(new) = m + Len(rest)
        /\ \A i \in 1..Len(rest) : i + m \in 1..Len(new) /\ new[i + m] = rest[i]
        /\ \A l \in Keys, i \in 1..Len(new) : new[i] \in About(l) =>
              \/ i - m \in 1..Len(rest)
              \/ k \in conflicts /\ l = k /\ new[i] = Resolved(k)
        /\ k \in conflicts => 1 \in 1..Len(new) /\ new[1] = Resolved(k)
  <2>1. CASE k \in conflicts
    <3> DEFINE new == <<Resolved(k), Other(k)>> \o rest
    <3>1. /\ new \in Seq(Call) /\ Len(new) = 2 + Len(rest) /\ new[1] = Resolved(k) /\ new[2] = Other(k)
          /\ \A i \in 1..Len(rest) : i + 2 \in 1..Len(new) /\ new[i + 2] = rest[i]
          /\ \A i \in 1..Len(new) : i = 1 \/ i = 2 \/ i - 2 \in 1..Len(rest)
      <4>1. <<Resolved(k), Other(k)>> \in Seq(Call)
        BY CallTypes
      <4> QED BY <1>2, <4>1
    <3>2. calls' = [calls EXCEPT ![h] = new]
      BY <1>1, <2>1 DEF rest
    <3> HIDE DEF new
    <3>3. \A l \in Keys, i \in 1..Len(new) : new[i] \in About(l) =>
              \/ i - 2 \in 1..Len(rest)
              \/ k \in conflicts /\ l = k /\ new[i] = Resolved(k)
      BY <2>1, <3>1, CallTypes
    <3>4. 1 \in 1..Len(new)
      BY <1>2, <3>1
    <3> QED BY <3>1, <3>2, <3>3, <3>4
  <2>2. CASE k \notin conflicts
    <3>1. calls' = [calls EXCEPT ![h] = rest]
      BY <1>1, <2>2 DEF rest
    <3>2. \A i \in 1..Len(rest) : i + 0 = i /\ i - 0 = i
      OBVIOUS
    <3>3. Len(rest) = 0 + Len(rest) /\ rest \in Seq(Call) /\ 0 \in Nat
      BY <1>2
    <3> HIDE DEF rest
    <3> QED BY <2>2, <3>1, <3>2, <3>3
  <2> QED BY <2>1, <2>2
<1>7. calls' \in [Handlers -> Seq(Call)] /\ calls'[h] = new /\ \A g \in Handlers \ {h} : calls'[g] = calls[g]
  BY <1>4, <1>6
<1>8. /\ conflicts' \subseteq Keys /\ crossed' \subseteq Keys /\ crossed \subseteq crossed'
      /\ \A l \in Keys : l # k \/ k \notin conflicts =>
            (l \in conflicts' <=> l \in conflicts) /\ (l \in crossed' <=> l \in crossed)
      /\ k \in conflicts /\ k \notin crossed' => ~Unsent(k)
      /\ k \in conflicts => Truth(k)' = Resolved(k)
  BY <1>1 DEF NotifyInv, NotificationsTypeOK, Changes, Truth
<1>9. \A l \in Keys : l # k \/ k \notin conflicts => Truth(l)' = Truth(l) /\ TruthKnown(l)' = TruthKnown(l)
  BY <1>8 DEF Truth, TruthKnown
<1>10. NotificationsTypeOK'
  BY <1>1, <1>7, <1>8 DEF NotifyInv, NotificationsTypeOK
<1>11. SendersSend' /\ NewStreamsAreEmpty' /\ subscribers' = {s \in Streams : stream'[s] = "open"}
  BY <1>1, <1>3, <1>7 DEF NotifyInv, SendersSend, NewStreamsAreEmpty
<1>12. CallsAreTrue'
  <2> SUFFICES ASSUME NEW l \in Keys \ crossed', NEW g \in Handlers,
                      NEW i \in 1..Len(calls'[g]), calls'[g][i] \in About(l)
               PROVE  calls'[g][i] = Truth(l)'
    BY DEF CallsAreTrue
  <2>1. l \notin crossed
    BY <1>8
  <2>2. CASE \E j \in 1..Len(calls[g]) : calls[g][j] = calls'[g][i]
    <3>1. l # k \/ k \notin conflicts
      BY <1>8, <2>2 DEF Unsent
    <3> QED BY <1>9, <2>1, <2>2, <3>1 DEF NotifyInv, CallsAreTrue
  <2>3. CASE g = h /\ i - m \in 1..Len(rest)
    <3>1. (i - m) + m = i /\ i \in 1..Len(new)
      BY <1>7, <2>3
    <3>2. new[i] = old[(i - m) + 1] /\ (i - m) + 1 \in 1..Len(old)
      BY <1>2, <1>6, <2>3, <3>1
    <3> QED BY <1>4, <1>7, <2>2, <2>3, <3>2
  <2>4. CASE g = h /\ i - m \notin 1..Len(rest)
    BY <1>6, <1>7, <1>8, <2>4
  <2> QED BY <1>7, <2>2, <2>3, <2>4
<1>13. StreamsAgree'
  <2> SUFFICES ASSUME NEW s \in Streams \ missed', NEW l \in Keys \ crossed',
                      stream'[s] = "open", ~Awaits(s, l)'
               PROVE  Agrees(s, l)'
    BY DEF StreamsAgree
  <2>1. l # k \/ k \notin conflicts
    <3> SUFFICES ASSUME l = k, k \in conflicts PROVE Awaits(s, l)'
      OBVIOUS
    <3>1. 1 \in 1..Len(calls'[h]) /\ calls'[h][1] \in About(k) /\ targets'[h] = NotSending
      BY <1>1, <1>3, <1>6, <1>7 DEF About
    <3> QED BY <3>1 DEF Awaits
  <2>2. ~Awaits(s, l)
    <3> SUFFICES ASSUME Awaits(s, l) PROVE Awaits(s, l)'
      OBVIOUS
    <3>1. PICK g \in Handlers : \E i \in 1..Len(calls[g]) :
            /\ calls[g][i] \in About(l)
            /\ i # 1 \/ targets[g] = NotSending \/ s \in targets[g]
      BY DEF Awaits
    <3>2. CASE g # h
      BY <1>1, <1>7, <3>1, <3>2 DEF Awaits
    <3>3. CASE g = h
      <4>1. PICK i \in 1..Len(old) : old[i] \in About(l)
        BY <1>4, <3>1, <3>3
      <4>2. i - 1 \in 1..Len(rest) /\ rest[i - 1] = old[i]
        BY <1>5, <4>1
      <4>3. (i - 1) + m \in 1..Len(new) /\ new[(i - 1) + m] \in About(l)
        BY <1>6, <4>1, <4>2
      <4> QED BY <1>1, <1>3, <1>7, <4>3 DEF Awaits
    <3> QED BY <3>2, <3>3
  <2>3. Agrees(s, l)
    BY <1>1, <1>8, <2>2 DEF NotifyInv, StreamsAgree
  <2>4. Truth(l)' = Truth(l) /\ TruthKnown(l)' = TruthKnown(l)
    BY <1>9, <2>1
  <2> QED BY <1>1, <2>3, <2>4 DEF Agrees
<1> QED BY <1>10, <1>11, <1>12, <1>13 DEF NotifyInv

LEMMA CopySubscribersInv ==
  ASSUME NotifyInv, NEW h \in Handlers, CopySubscribers(h)
  PROVE  NotifyInv'
<1>1. /\ calls[h] # <<>> /\ Head(calls[h]) \in Event /\ targets[h] = NotSending
      /\ targets' = [targets EXCEPT ![h] = subscribers]
      /\ UNCHANGED <<conflicts, subscribers, calls, stream, channel, known, missed, crossed, requests>>
  BY DEF CopySubscribers, Idle
<1>2. /\ subscribers = {s \in Streams : stream[s] = "open"}
      /\ targets \in [Handlers -> (SUBSET Streams) \cup {NotSending}]
  BY DEF NotifyInv, NotificationsTypeOK
<1>3. /\ targets'[h] = subscribers /\ \A g \in Handlers \ {h} : targets'[g] = targets[g]
      /\ targets' \in [Handlers -> (SUBSET Streams) \cup {NotSending}]
  BY <1>1, <1>2
<1>4. NotificationsTypeOK'
  BY <1>1, <1>3 DEF NotifyInv, NotificationsTypeOK
<1>5. SendersSend'
  BY <1>1, <1>2, <1>3 DEF NotifyInv, SendersSend
<1>6. CallsAreTrue'
  BY <1>1 DEF NotifyInv, CallsAreTrue, Truth
<1>7. StreamsAgree'
  <2> SUFFICES ASSUME NEW s \in Streams \ missed, NEW l \in Keys \ crossed,
                      stream[s] = "open", Awaits(s, l)
               PROVE  Awaits(s, l)'
    BY <1>1 DEF NotifyInv, StreamsAgree, Agrees, Truth, TruthKnown
  <2>1. PICK g \in Handlers : \E i \in 1..Len(calls[g]) :
            /\ calls[g][i] \in About(l)
            /\ i # 1 \/ targets[g] = NotSending \/ s \in targets[g]
    BY DEF Awaits
  <2>2. s \in targets'[h]
    BY <1>2, <1>3
  <2> QED BY <1>1, <1>3, <2>1, <2>2 DEF Awaits
<1> QED BY <1>1, <1>2, <1>4, <1>5, <1>6, <1>7 DEF NotifyInv, NewStreamsAreEmpty

\* One more event in a channel: the last word on what it is about.
LEMMA AppendAgrees ==
  ASSUME NotificationsTypeOK, NEW s \in Streams, NEW k \in Keys, NEW e \in Event,
         channel'[s] = Append(channel[s], e),
         UNCHANGED <<conflicts, known>>,
         IF e \in About(k) THEN e = Truth(k) ELSE Agrees(s, k)
  PROVE  Agrees(s, k)'
<1> DEFINE c == channel[s]
           n == Len(channel[s])
<1>1. /\ c \in Seq(Event) /\ n \in Nat
      /\ Len(channel'[s]) = n + 1 /\ channel'[s][n + 1] = e
      /\ \A i \in 1..n : channel'[s][i] = c[i] /\ i \in 1..(n + 1)
      /\ n + 1 \in 1..(n + 1)
      /\ \A i \in 1..(n + 1) : i = n + 1 \/ i \in 1..n
      /\ \A i \in 1..n : ~(n + 1 <= i)
  BY DEF NotificationsTypeOK
<1>2. Truth(k)' = Truth(k) /\ TruthKnown(k)' = TruthKnown(k)
  BY DEF Truth, TruthKnown
<1>3. CASE e \in About(k)
  BY <1>1, <1>2, <1>3 DEF Agrees
<1>4. CASE e \notin About(k)
  <2>1. ASSUME NEW i \in 1..(n + 1), channel'[s][i] \in About(k),
               \A j \in 1..(n + 1) : channel'[s][j] \in About(k) => j <= i
        PROVE  channel'[s][i] = Truth(k)
    <3>1. i \in 1..n /\ c[i] \in About(k) /\ \A j \in 1..n : c[j] \in About(k) => j <= i
      BY <1>1, <1>4, <2>1
    <3> QED BY <1>1, <1>4, <3>1 DEF Agrees
  <2>2. ASSUME \A i \in 1..(n + 1) : channel'[s][i] \notin About(k)
        PROVE  known[s][k] \in {"unknown", TruthKnown(k)}
    <3>1. \A i \in 1..n : c[i] \notin About(k)
      BY <1>1, <2>2
    <3> QED BY <1>4, <3>1 DEF Agrees
  <2> QED BY <1>1, <1>2, <2>1, <2>2 DEF Agrees
<1> QED BY <1>3, <1>4

LEMMA SendInv ==
  ASSUME NotifyInv, NEW h \in Handlers, NEW r \in Streams, Send(h, r)
  PROVE  NotifyInv'
<1> DEFINE e == Head(calls[h])
           fits == Len(channel[r]) < BufferSize
<1>1. /\ targets[h] # NotSending /\ r \in targets[h]
      /\ targets' = [targets EXCEPT ![h] = @ \ {r}]
      /\ fits => channel' = [channel EXCEPT ![r] = Append(@, e)] /\ missed' = missed
      /\ ~fits => missed' = missed \cup {r} /\ channel' = channel
      /\ UNCHANGED <<conflicts, subscribers, calls, stream, known, crossed, requests>>
  BY DEF Send
<1>2. /\ targets \in [Handlers -> (SUBSET Streams) \cup {NotSending}]
      /\ channel \in [Streams -> Seq(Event)] /\ missed \subseteq Streams
      /\ \A s \in Streams : Len(channel[s]) <= BufferSize
  BY DEF NotifyInv, NotificationsTypeOK
<1>3. /\ targets'[h] = targets[h] \ {r} /\ targets'[h] # NotSending
      /\ \A g \in Handlers \ {h} : targets'[g] = targets[g]
      /\ targets' \in [Handlers -> (SUBSET Streams) \cup {NotSending}]
  <2>1. targets[h] \in SUBSET Streams
    BY <1>1, <1>2
  <2> QED BY <1>1, <1>2, <2>1, NotificationsAssumption
<1>4. /\ e \in Event /\ calls[h] # <<>> /\ stream[r] # "new"
      /\ e = calls[h][1] /\ Len(calls[h]) \in Nat \ {0}
  BY <1>1, TailOfCalls DEF NotifyInv, SendersSend
<1>5. /\ channel' \in [Streams -> Seq(Event)] /\ \A s \in Streams : Len(channel'[s]) <= BufferSize
      /\ \A s \in Streams \ {r} : channel'[s] = channel[s]
      /\ missed' \subseteq Streams
      /\ r \notin missed' => channel'[r] = Append(channel[r], e)
  <2>1. channel[r] \in Seq(Event)
    BY <1>2
  <2> HIDE DEF e, fits
  <2>2. Append(channel[r], e) \in Seq(Event) /\ (fits => Len(Append(channel[r], e)) <= BufferSize)
    BY <1>2, <1>4, <2>1, NotificationsAssumption DEF fits
  <2> QED BY <1>1, <1>2, <2>2
<1> HIDE DEF fits
<1>6. NotificationsTypeOK'
  BY <1>1, <1>3, <1>5 DEF NotifyInv, NotificationsTypeOK
<1>7. SendersSend'
  BY <1>1, <1>3 DEF NotifyInv, SendersSend
<1>8. NewStreamsAreEmpty'
  BY <1>1, <1>4, <1>5 DEF NotifyInv, NewStreamsAreEmpty
<1>9. CallsAreTrue'
  BY <1>1 DEF NotifyInv, CallsAreTrue, Truth
<1>10. StreamsAgree'
  <2> SUFFICES ASSUME NEW s \in Streams \ missed', NEW l \in Keys \ crossed,
                      stream[s] = "open", ~Awaits(s, l)'
               PROVE  Agrees(s, l)'
    BY <1>1 DEF StreamsAgree
  <2>1. s \notin missed
    BY <1>1
  <2>2. Awaits(s, l) => s = r /\ e \in About(l)
    <3> SUFFICES ASSUME Awaits(s, l), s # r \/ e \notin About(l)
                 PROVE  Awaits(s, l)'
      OBVIOUS
    <3>1. PICK g \in Handlers : \E i \in 1..Len(calls[g]) :
            /\ calls[g][i] \in About(l)
            /\ i # 1 \/ targets[g] = NotSending \/ s \in targets[g]
      BY DEF Awaits
    <3>2. CASE g # h
      BY <1>1, <1>3, <3>1, <3>2 DEF Awaits
    <3>3. CASE g = h
      <4>1. PICK i \in 1..Len(calls[h]) :
              /\ calls[h][i] \in About(l)
              /\ i # 1 \/ targets[h] = NotSending \/ s \in targets[h]
        BY <3>1, <3>3
      <4>2. i # 1 \/ s \in targets'[h]
        BY <1>1, <1>3, <1>4, <4>1
      <4> QED BY <1>1, <4>1, <4>2 DEF Awaits
    <3> QED BY <3>2, <3>3
  <2>3. CASE s # r
    <3>1. Agrees(s, l)
      BY <2>1, <2>2, <2>3 DEF NotifyInv, StreamsAgree
    <3> QED BY <1>1, <1>5, <2>3, <3>1 DEF Agrees, Truth, TruthKnown
  <2>4. CASE s = r
    <3>1. channel'[s] = Append(channel[s], e)
      BY <1>5, <2>4
    <3>2. e \in About(l) => e = Truth(l)
      <4>1. 1 \in 1..Len(calls[h])
        BY <1>4
      <4> QED BY <1>4, <4>1 DEF NotifyInv, CallsAreTrue
    <3>3. e \notin About(l) => Agrees(s, l)
      BY <2>1, <2>2 DEF NotifyInv, StreamsAgree
    <3> HIDE DEF e
    <3> QED BY <1>1, <1>4, <3>1, <3>2, <3>3, AppendAgrees DEF NotifyInv
  <2> QED BY <2>3, <2>4
<1> QED BY <1>1, <1>6, <1>7, <1>8, <1>9, <1>10 DEF NotifyInv

LEMMA PublishedInv ==
  ASSUME NotifyInv, NEW h \in Handlers, Published(h)
  PROVE  NotifyInv'
<1>1. /\ targets[h] = {} /\ targets' = [targets EXCEPT ![h] = NotSending]
      /\ calls' = [calls EXCEPT ![h] = Tail(@)]
      /\ UNCHANGED <<conflicts, subscribers, stream, channel, known, missed, crossed, requests>>
  BY DEF Published
<1>2. targets[h] # NotSending
  BY <1>1, NotificationsAssumption
<1>3. calls[h] # <<>>
  BY <1>2 DEF NotifyInv, SendersSend
<1> DEFINE rest == Tail(calls[h])
<1>4. /\ rest \in Seq(Call) /\ Len(calls[h]) \in Nat \ {0} /\ Len(rest) = Len(calls[h]) - 1
      /\ \A i \in 1..Len(rest) : rest[i] = calls[h][i + 1] /\ i + 1 \in 1..Len(calls[h])
  BY <1>3, TailOfCalls DEF NotifyInv
<1>5. /\ calls \in [Handlers -> Seq(Call)]
      /\ targets \in [Handlers -> (SUBSET Streams) \cup {NotSending}]
  BY DEF NotifyInv, NotificationsTypeOK
<1>6. calls' = [calls EXCEPT ![h] = rest]
  BY <1>1
<1> HIDE DEF rest
<1>7. /\ calls' \in [Handlers -> Seq(Call)] /\ calls'[h] = rest
      /\ \A g \in Handlers \ {h} : calls'[g] = calls[g]
      /\ targets' \in [Handlers -> (SUBSET Streams) \cup {NotSending}] /\ targets'[h] = NotSending
      /\ \A g \in Handlers \ {h} : targets'[g] = targets[g]
  BY <1>1, <1>4, <1>5, <1>6
<1>8. NotificationsTypeOK'
  BY <1>1, <1>7 DEF NotifyInv, NotificationsTypeOK
<1>9. SendersSend' /\ NewStreamsAreEmpty'
  BY <1>1, <1>7 DEF NotifyInv, SendersSend, NewStreamsAreEmpty
<1>10. CallsAreTrue'
  <2> SUFFICES ASSUME NEW l \in Keys \ crossed, NEW g \in Handlers,
                      NEW i \in 1..Len(calls'[g]), calls'[g][i] \in About(l)
               PROVE  calls'[g][i] = Truth(l)
    <3>1. crossed' = crossed /\ \A l \in Keys : Truth(l)' = Truth(l)
      BY <1>1 DEF Truth
    <3> QED BY <3>1 DEF CallsAreTrue
  <2>1. \E j \in 1..Len(calls[g]) : calls[g][j] = calls'[g][i]
    <3>1. CASE g = h
      BY <1>4, <1>7, <3>1
    <3>2. CASE g # h
      BY <1>7, <3>2
    <3> QED BY <3>1, <3>2
  <2> QED BY <2>1 DEF NotifyInv, CallsAreTrue
<1>11. StreamsAgree'
  <2> SUFFICES ASSUME NEW s \in Streams, NEW l \in Keys, Awaits(s, l)
               PROVE  Awaits(s, l)'
    BY <1>1 DEF NotifyInv, StreamsAgree, Agrees, Truth, TruthKnown
  <2>1. PICK g \in Handlers : \E i \in 1..Len(calls[g]) :
            /\ calls[g][i] \in About(l)
            /\ i # 1 \/ targets[g] = NotSending \/ s \in targets[g]
    BY DEF Awaits
  <2>2. CASE g # h
    <3>1. calls'[g] = calls[g] /\ targets'[g] = targets[g]
      BY <1>7, <2>2
    <3> QED BY <2>1, <3>1 DEF Awaits
  <2>3. CASE g = h
    <3>1. PICK i \in 1..Len(calls[h]) :
            /\ calls[h][i] \in About(l)
            /\ i # 1 \/ targets[h] = NotSending \/ s \in targets[h]
      BY <2>1, <2>3
    <3>2. i # 1
      BY <1>1, <1>2, <3>1
    <3>3. i - 1 \in 1..Len(rest) /\ (i - 1) + 1 = i
      BY <1>4, <3>1, <3>2
    <3>4. rest[i - 1] \in About(l)
      BY <1>4, <3>1, <3>3
    <3> QED BY <1>7, <3>3, <3>4 DEF Awaits
  <2> QED BY <2>2, <2>3
<1> QED BY <1>1, <1>8, <1>9, <1>10, <1>11 DEF NotifyInv

LEMMA SubscribeEventsInv ==
  ASSUME NotifyInv, NEW r \in Streams, SubscribeEvents(r)
  PROVE  NotifyInv'
<1>1. /\ stream[r] = "new" /\ stream' = [stream EXCEPT ![r] = "open"]
      /\ subscribers' = subscribers \cup {r}
      /\ UNCHANGED <<conflicts, calls, targets, channel, known, missed, crossed, requests>>
  BY DEF SubscribeEvents
<1>2. /\ stream' \in [Streams -> {"new", "open", "gone"}] /\ stream'[r] = "open"
      /\ \A s \in Streams \ {r} : stream'[s] = stream[s]
  BY <1>1 DEF NotifyInv, NotificationsTypeOK
<1>3. NotificationsTypeOK'
  BY <1>1, <1>2 DEF NotifyInv, NotificationsTypeOK
<1>4. SendersSend'
  BY <1>1, <1>2 DEF NotifyInv, NotificationsTypeOK, SendersSend
<1>5. subscribers' = {s \in Streams : stream'[s] = "open"}
  BY <1>1, <1>2 DEF NotifyInv
<1>6. NewStreamsAreEmpty' /\ CallsAreTrue'
  BY <1>1, <1>2 DEF NotifyInv, NewStreamsAreEmpty, CallsAreTrue, Truth
<1>7. StreamsAgree'
  <2> SUFFICES ASSUME NEW s \in Streams \ missed, NEW l \in Keys \ crossed,
                      stream'[s] = "open", ~Awaits(s, l)
               PROVE  Agrees(s, l)
    BY <1>1 DEF StreamsAgree, Awaits, Agrees, Truth, TruthKnown
  <2>1. CASE s = r
    <3>1. channel[r] = <<>> /\ known[r][l] = "unknown"
      BY <1>1 DEF NotifyInv, NewStreamsAreEmpty
    <3>2. Len(channel[r]) = 0
      BY <3>1
    <3> QED BY <2>1, <3>1, <3>2 DEF Agrees
  <2>2. CASE s # r
    BY <1>2, <2>2 DEF NotifyInv, StreamsAgree
  <2> QED BY <2>1, <2>2
<1> QED BY <1>3, <1>4, <1>5, <1>6, <1>7 DEF NotifyInv

LEMMA WriteEventInv ==
  ASSUME NotifyInv, NEW r \in Streams, WriteEvent(r)
  PROVE  NotifyInv'
<1> DEFINE c == channel[r]
           e == Head(c)
           news == CASE e.type = "conflict_created" -> [known EXCEPT ![r][e.key] = "open"]
                     [] e.type = "conflict_resolved" -> [known EXCEPT ![r][e.key] = "resolved"]
                     [] OTHER -> known
<1>1. /\ stream[r] = "open" /\ c # <<>> /\ channel' = [channel EXCEPT ![r] = Tail(@)]
      /\ known' = news
      /\ UNCHANGED <<conflicts, subscribers, calls, targets, stream, missed, crossed, requests>>
  BY DEF WriteEvent
<1>2. /\ channel \in [Streams -> Seq(Event)] /\ c \in Seq(Event)
      /\ known \in [Streams -> [Keys -> {"unknown", "open", "resolved"}]]
      /\ \A s \in Streams : Len(channel[s]) <= BufferSize
  BY DEF NotifyInv, NotificationsTypeOK
<1> DEFINE n == Len(c)
<1>3. /\ n \in Nat \ {0} /\ Tail(c) \in Seq(Event) /\ Len(Tail(c)) = n - 1 /\ e = c[1] /\ e \in Event
      /\ \A i \in 1..(n - 1) : Tail(c)[i] = c[i + 1]
  BY <1>1, <1>2
<1>4. /\ channel' \in [Streams -> Seq(Event)] /\ channel'[r] = Tail(c)
      /\ \A s \in Streams \ {r} : channel'[s] = channel[s]
  BY <1>1, <1>2, <1>3
<1>5. \A s \in Streams : Len(channel'[s]) <= BufferSize
  <2>1. \A s \in Streams \ {r} : Len(channel'[s]) <= BufferSize
    BY <1>2, <1>4
  <2>2. Len(channel'[r]) = n - 1 /\ n <= BufferSize
    BY <1>2, <1>3, <1>4
  <2> HIDE DEF n, c
  <2>3. Len(channel'[r]) <= BufferSize
    BY <1>3, <2>2, NotificationsAssumption
  <2> QED BY <2>1, <2>3
\* An event about k is one of two, and the client learns of k from no other.
<1>6. PICK k \in Keys : e = Created(k) \/ e = Resolved(k) \/ e = Other(k)
  BY <1>3 DEF Event, Call, ForSave
<1>7. /\ Created(k).type = "conflict_created" /\ Created(k).key = k
      /\ Resolved(k).type = "conflict_resolved" /\ Resolved(k).key = k
      /\ Other(k).type = "other"
  BY DEF Created, Resolved, Other
<1>8. known' = IF e = Created(k) THEN [known EXCEPT ![r][k] = "open"]
               ELSE IF e = Resolved(k) THEN [known EXCEPT ![r][k] = "resolved"]
               ELSE known
  <2> HIDE DEF e
  <2> QED BY <1>1, <1>6, <1>7
<1> HIDE DEF e, news
<1>9. /\ known' \in [Streams -> [Keys -> {"unknown", "open", "resolved"}]]
      /\ \A s \in Streams \ {r} : known'[s] = known[s]
      /\ \A l \in Keys : e \notin About(l) => known'[r][l] = known[r][l]
      /\ \A l \in Keys : e \in About(l) =>
            known'[r][l] = IF e = Created(l) THEN "open" ELSE "resolved"
  <2>1. /\ known' \in [Streams -> [Keys -> {"unknown", "open", "resolved"}]]
        /\ \A s \in Streams \ {r} : known'[s] = known[s]
    BY <1>2, <1>6, <1>8
  <2>2. \A l \in Keys : e \notin About(l) => known'[r][l] = known[r][l]
    <3> SUFFICES ASSUME NEW l \in Keys, e \notin About(l) PROVE known'[r][l] = known[r][l]
      OBVIOUS
    <3>1. (e = Created(k) \/ e = Resolved(k)) => k # l
      BY DEF About
    <3> QED BY <1>2, <1>6, <1>8, <3>1
  <2>3. \A l \in Keys : e \in About(l) =>
            known'[r][l] = IF e = Created(l) THEN "open" ELSE "resolved"
    <3> SUFFICES ASSUME NEW l \in Keys, e \in About(l)
                 PROVE  known'[r][l] = IF e = Created(l) THEN "open" ELSE "resolved"
      OBVIOUS
    <3>1. l = k /\ (e = Created(k) \/ e = Resolved(k))
      BY <1>6, CallTypes
    <3>2. Created(k) # Resolved(k)
      BY CallTypes
    <3> QED BY <1>2, <1>6, <1>8, <3>1, <3>2
  <2> QED BY <2>1, <2>2, <2>3
<1>10. NotificationsTypeOK'
  BY <1>1, <1>4, <1>5, <1>9 DEF NotifyInv, NotificationsTypeOK
<1>11. SendersSend' /\ CallsAreTrue' /\ subscribers' = {s \in Streams : stream'[s] = "open"}
  BY <1>1 DEF NotifyInv, SendersSend, CallsAreTrue, Truth
<1>12. NewStreamsAreEmpty'
  BY <1>1, <1>4, <1>9 DEF NotifyInv, NewStreamsAreEmpty
<1>13. StreamsAgree'
  <2> SUFFICES ASSUME NEW s \in Streams \ missed, NEW l \in Keys \ crossed,
                      stream[s] = "open", ~Awaits(s, l)
               PROVE  Agrees(s, l)'
    BY <1>1 DEF StreamsAgree, Awaits
  <2>1. Agrees(s, l)
    BY DEF NotifyInv, StreamsAgree
  <2>2. Truth(l)' = Truth(l) /\ TruthKnown(l)' = TruthKnown(l)
    BY <1>1 DEF Truth, TruthKnown
  <2>3. CASE s # r
    BY <1>4, <1>9, <2>1, <2>2, <2>3 DEF Agrees
  <2>4. CASE s = r
    <3> DEFINE d == Tail(c)
    <3>1. /\ Len(d) = n - 1 /\ channel'[s] = d
          /\ \A i \in 1..(n - 1) : d[i] = c[i + 1] /\ i + 1 \in 1..n
          /\ \A i \in 1..n : i = 1 \/ (i - 1 \in 1..(n - 1) /\ d[i - 1] = c[i])
      <4>1. \A i \in 1..n : i = 1 \/ (i - 1 \in 1..(n - 1) /\ (i - 1) + 1 = i)
        BY <1>3
      <4> QED BY <1>3, <1>4, <2>4, <4>1
    <3> HIDE DEF d, c, n
    <3>2. ASSUME NEW i \in 1..(n - 1), d[i] \in About(l),
                 \A j \in 1..(n - 1) : d[j] \in About(l) => j <= i
          PROVE  d[i] = Truth(l)
      <4>1. i + 1 \in 1..n /\ c[i + 1] \in About(l)
        BY <3>1, <3>2
      <4>2. \A j \in 1..n : c[j] \in About(l) => j <= i + 1
        <5> SUFFICES ASSUME NEW j \in 1..n, c[j] \in About(l) PROVE j <= i + 1
          OBVIOUS
        <5>1. CASE j = 1
          BY <1>3, <3>2, <5>1
        <5>2. CASE j # 1
          <6>1. j - 1 \in 1..(n - 1) /\ d[j - 1] \in About(l)
            BY <3>1, <5>2
          <6>2. j - 1 <= i
            BY <3>2, <6>1
          <6> QED BY <1>3, <6>2
        <5> QED BY <5>1, <5>2
      <4> QED BY <2>1, <2>4, <3>1, <4>1, <4>2 DEF Agrees, c, n
    <3>3. ASSUME \A i \in 1..(n - 1) : d[i] \notin About(l)
          PROVE  known'[s][l] \in {"unknown", TruthKnown(l)}
      <4>1. \A i \in 1..n : c[i] \in About(l) => i = 1
        BY <3>1, <3>3
      <4>2. CASE e \in About(l)
        <5>1. 1 \in 1..n /\ c[1] \in About(l) /\ \A j \in 1..n : c[j] \in About(l) => j <= 1
          BY <1>3, <4>1, <4>2
        <5>2. e = Truth(l)
          BY <1>3, <2>1, <2>4, <5>1 DEF Agrees, c, n
        <5>3. Created(l) # Resolved(l)
          BY CallTypes
        <5> QED BY <1>9, <2>4, <4>2, <5>2, <5>3 DEF Truth, TruthKnown
      <4>3. CASE e \notin About(l)
        <5>1. \A i \in 1..n : c[i] \notin About(l)
          BY <1>3, <4>1, <4>3
        <5>2. known[s][l] \in {"unknown", TruthKnown(l)}
          BY <2>1, <2>4, <5>1 DEF Agrees, c, n
        <5> QED BY <1>9, <2>4, <4>3, <5>2
      <4> QED BY <4>2, <4>3
    <3> QED BY <2>2, <3>1, <3>2, <3>3 DEF Agrees
  <2> QED BY <2>3, <2>4
<1> QED BY <1>10, <1>11, <1>12, <1>13 DEF NotifyInv

LEMMA DetachInv ==
  ASSUME NotifyInv, NEW r \in Streams, DetachEventSubscriber(r)
  PROVE  NotifyInv'
<1>1. /\ stream[r] = "open" /\ stream' = [stream EXCEPT ![r] = "gone"]
      /\ subscribers' = subscribers \ {r}
      /\ UNCHANGED <<conflicts, calls, targets, channel, known, missed, crossed, requests>>
  BY DEF DetachEventSubscriber
<1>2. /\ stream' \in [Streams -> {"new", "open", "gone"}] /\ stream'[r] = "gone"
      /\ \A s \in Streams \ {r} : stream'[s] = stream[s]
  BY <1>1 DEF NotifyInv, NotificationsTypeOK
<1>3. NotificationsTypeOK'
  BY <1>1, <1>2 DEF NotifyInv, NotificationsTypeOK
<1>4. SendersSend' /\ NewStreamsAreEmpty' /\ CallsAreTrue'
  BY <1>1, <1>2 DEF NotifyInv, NotificationsTypeOK, SendersSend, NewStreamsAreEmpty, CallsAreTrue, Truth
<1>5. subscribers' = {s \in Streams : stream'[s] = "open"}
  BY <1>1, <1>2 DEF NotifyInv
<1>6. StreamsAgree'
  BY <1>1, <1>2 DEF NotifyInv, StreamsAgree, Awaits, Agrees, Truth, TruthKnown
<1> QED BY <1>3, <1>4, <1>5, <1>6 DEF NotifyInv

LEMMA RestartNotificationsInv ==
  ASSUME NotifyInv, RestartNotifications
  PROVE  NotifyInv'
<1>1. /\ conflicts' = {} /\ subscribers' = {}
      /\ calls' = [h \in Handlers |-> <<>>] /\ targets' = [h \in Handlers |-> NotSending]
      /\ stream' = [s \in Streams |-> IF stream[s] = "open" THEN "gone" ELSE stream[s]]
      /\ UNCHANGED <<channel, known, missed, crossed, requests>>
  BY DEF RestartNotifications
<1>2. /\ stream' \in [Streams -> {"new", "open", "gone"}]
      /\ \A s \in Streams : stream'[s] # "open" /\ (stream'[s] = "new" => stream[s] = "new")
  BY <1>1 DEF NotifyInv, NotificationsTypeOK
<1>3. NotificationsTypeOK'
  <2>1. calls' \in [Handlers -> Seq(Call)] /\ targets' \in [Handlers -> (SUBSET Streams) \cup {NotSending}]
    BY <1>1
  <2> QED BY <1>1, <1>2, <2>1 DEF NotifyInv, NotificationsTypeOK
<1>4. SendersSend' /\ NewStreamsAreEmpty'
  BY <1>1, <1>2 DEF NotifyInv, SendersSend, NewStreamsAreEmpty
<1>5. CallsAreTrue'
  <2>1. \A h \in Handlers : Len(calls'[h]) = 0
    BY <1>1
  <2> QED BY <2>1 DEF CallsAreTrue
<1>6. subscribers' = {s \in Streams : stream'[s] = "open"} /\ StreamsAgree'
  BY <1>1, <1>2 DEF StreamsAgree
<1> QED BY <1>3, <1>4, <1>5, <1>6 DEF NotifyInv

LEMMA NotifyNextInv == NotifyInv /\ [NotificationsNext]_notificationVars => NotifyInv'
<1> SUFFICES ASSUME NotifyInv, [NotificationsNext]_notificationVars PROVE NotifyInv'
  OBVIOUS
<1>1. ASSUME NEW h \in Handlers, NEW k \in Keys, ReportConflict(h, k) PROVE NotifyInv'
  BY <1>1, ReportConflictInv
<1>2. ASSUME NEW h \in Handlers, NEW k \in Keys, ResolveConflictByID(h, k) PROVE NotifyInv'
  BY <1>2, ResolveConflictByIDInv
<1>3. ASSUME NEW h \in Handlers, NEW k \in Keys,
             Upload(h, k) \/ HandleDeviceCommand(h, k) \/ HandleDevicesPatch(h, k)
      PROVE  NotifyInv'
  BY <1>3, OtherRequestsInv
<1>4. ASSUME NEW h \in Handlers, HandlerStep(h) PROVE NotifyInv'
  BY <1>4, ResolveConflictForSaveInv, CopySubscribersInv, SendInv, PublishedInv DEF HandlerStep
<1>5. ASSUME NEW s \in Streams, SubscribeEvents(s) \/ WriteEvent(s) \/ DetachEventSubscriber(s)
      PROVE  NotifyInv'
  BY <1>5, SubscribeEventsInv, WriteEventInv, DetachInv
<1>6. CASE RestartNotifications
  BY <1>6, RestartNotificationsInv
<1>7. CASE UNCHANGED notificationVars
  BY <1>7 DEF notificationVars, NotifyInv, NotificationsTypeOK, SendersSend, NewStreamsAreEmpty,
              CallsAreTrue, StreamsAgree, Agrees, Awaits, Truth, TruthKnown
<1> QED BY <1>1, <1>2, <1>3, <1>4, <1>5, <1>6, <1>7 DEF NotificationsNext

LEMMA NotifyInvAgrees == NotifyInv => ClientsAgree
<1> SUFFICES ASSUME NotifyInv, NEW s \in Streams, NEW k \in Keys,
                    stream[s] = "open", channel[s] = <<>>, s \notin missed, ~Unsent(k),
                    k \notin crossed, known[s][k] # "unknown"
             PROVE  known[s][k] = "open" <=> k \in conflicts
  BY DEF ClientsAgree
<1>1. ~Awaits(s, k)
  BY DEF Awaits, Unsent
<1>2. Agrees(s, k) /\ Len(channel[s]) = 0
  BY <1>1 DEF NotifyInv, StreamsAgree
<1> QED BY <1>2 DEF Agrees, TruthKnown

\* Channels never hold more than BufferSize events, and every variable of the
\* hub, the handlers and the clients keeps its type (publishEvent, handleEvents).
THEOREM NotificationTypes == NotificationsSpec => []NotificationsTypeOK
<1>1. NotifyInv => NotificationsTypeOK
  BY DEF NotifyInv
<1> QED BY NotifyInitInv, NotifyNextInv, <1>1, PTL DEF NotificationsSpec

\* A client that read all its stream had, and missed nothing, knows of each
\* conflict it heard of whether it is open, once nothing about it is still to be
\* published and unless two requests changed it at once: however many publish and
\* whichever streams come and go (publishEvent, handleEvents).
THEOREM NotificationsAgree == NotificationsSpec => []ClientsAgree
BY NotifyInitInv, NotifyNextInv, NotifyInvAgrees, PTL DEF NotificationsSpec

----------------------------------------------------------------------------
\* A set of numbers has a least member.
LEMMA LeastExists ==
  ASSUME NEW T, T \subseteq Nat, T # {}
  PROVE  \E t \in T : \A u \in T : t <= u
<1>1. PICK t \in T : \A u \in T : <<u, t>> \notin OpToRel(<, Nat)
  BY NatLessThanWellFounded, WFMin
<1>2. \A u \in T : ~(u < t)
  BY <1>1 DEF OpToRel
<1> QED BY <1>2

\* A set of numbers up to M has a greatest member.
LEMMA GreatestExists ==
  ASSUME NEW M \in Nat, NEW S, S \subseteq 0..M, S # {}
  PROVE  \E m \in S : \A n \in S : n <= m
<1> DEFINE T == {t \in Nat : M - t \in S}
<1>1. T \subseteq Nat /\ T # {}
  <2>1. PICK n \in S : TRUE
    OBVIOUS
  <2>2. M - n \in Nat /\ M - (M - n) = n
    BY <2>1
  <2> QED BY <2>1, <2>2
<1>2. PICK t \in T : \A u \in T : t <= u
  <2> HIDE DEF T
  <2> QED BY <1>1, LeastExists
<1>3. \A n \in S : n <= M - t
  <2> TAKE n \in S
  <2>1. M - n \in T /\ n \in 0..M /\ t \in Nat
    OBVIOUS
  <2> HIDE DEF T
  <2> QED BY <1>2, <2>1
<1> QED BY <1>2, <1>3

----------------------------------------------------------------------------
\* s is in sources, and after it no other of the operator's with its id.
Rules(sources, s) ==
    \E i \in DOMAIN sources :
        /\ sources[i] = s
        /\ \A j \in DOMAIN sources :
              sources[j].origin = "backend" /\ sources[j].id = s.id => j <= i

\* Of several sources the operator set with one id the last is meant.
LastSet(i) == \A j \in DOMAIN policy : policy[j].id = policy[i].id => j <= i

\* Reports may be as old as they like: only their base is looked at, and what a
\* base allows is supported, too.
PolicyInv ==
    /\ PolicyTypeOK
    /\ device # NoDevice => device.allowed \subseteq Supported
    /\ \A h \in Reporters : report[h] # NoReport => report[h].base.allowed \subseteq Supported
    /\ \A i \in DOMAIN policy : policy[i].origin = "backend"
    /\ device = NoDevice => policy = <<>>
    /\ device # NoDevice =>
          \A i \in DOMAIN policy : LastSet(i) => Rules(device.sources, policy[i])

LEMMA ReplaceTheLast ==
  ASSUME NEW m \in Seq(Source), NEW s \in Source,
         \E i \in DOMAIN m : m[i].id = s.id
  PROVE  \E i \in DOMAIN m :
            /\ m[i].id = s.id
            /\ \A k \in DOMAIN m : m[k].id = s.id => k <= i
            /\ Replace(m, s) = [m EXCEPT ![i] = s]
<1> DEFINE S == {i \in DOMAIN m : m[i].id = s.id}
<1>1. DOMAIN m = 1..Len(m) /\ Len(m) \in Nat
  OBVIOUS
<1>2. S \subseteq 0..Len(m) /\ S # {}
  BY <1>1
<1>3. PICK i \in S : \A k \in S : k <= i
  <2> HIDE DEF S
  <2> QED BY <1>1, <1>2, GreatestExists
<1>4. \E j \in DOMAIN m : m[j].id = s.id /\ \A k \in DOMAIN m : m[k].id = s.id => k <= j
  BY <1>3
<1> DEFINE j == CHOOSE j \in DOMAIN m : m[j].id = s.id /\ \A k \in DOMAIN m : m[k].id = s.id => k <= j
<1>5. j \in DOMAIN m /\ m[j].id = s.id /\ \A k \in DOMAIN m : m[k].id = s.id => k <= j
  BY <1>4
<1>6. Replace(m, s) = [m EXCEPT ![j] = s]
  BY DEF Replace
<1> HIDE DEF j
<1> QED BY <1>5, <1>6

\* What is put in stands where no other with its id comes after it, and the
\* last of every other id stays so.
LEMMA PutProperties ==
  ASSUME NEW m \in Seq(Source), NEW s \in Source
  PROVE  /\ Put(m, s) \in Seq(Source)
         /\ \E i \in DOMAIN Put(m, s) :
              Put(m, s)[i] = s /\ \A j \in DOMAIN Put(m, s) : Put(m, s)[j].id = s.id => j <= i
         /\ \A i \in DOMAIN m : m[i].id # s.id =>
              /\ i \in DOMAIN Put(m, s) /\ Put(m, s)[i] = m[i]
              /\ (\A j \in DOMAIN m : m[j].id = m[i].id => j <= i) =>
                   \A j \in DOMAIN Put(m, s) : Put(m, s)[j].id = m[i].id => j <= i
<1> DEFINE p == Put(m, s)
<1>0. DOMAIN m = 1..Len(m) /\ Len(m) \in Nat /\ \A i \in DOMAIN m : m[i] \in Source
  OBVIOUS
<1>1. CASE \E i \in DOMAIN m : m[i].id = s.id
  <2>1. PICK i \in DOMAIN m :
            /\ m[i].id = s.id
            /\ \A k \in DOMAIN m : m[k].id = s.id => k <= i
            /\ Replace(m, s) = [m EXCEPT ![i] = s]
    BY <1>1, ReplaceTheLast
  <2>2. p = [m EXCEPT ![i] = s]
    BY <1>1, <2>1 DEF Put
  <2> HIDE DEF p
  <2>3. p \in Seq(Source) /\ DOMAIN p = DOMAIN m /\ p[i] = s /\ \A j \in DOMAIN m : j # i => p[j] = m[j]
    BY <2>2
  <2>4. \A j \in DOMAIN p : p[j].id = m[j].id
    BY <2>1, <2>3
  <2> QED BY <2>1, <2>3, <2>4 DEF p
<1>2. CASE ~ \E i \in DOMAIN m : m[i].id = s.id
  <2>1. p = Append(m, s)
    BY <1>2 DEF Put
  <2> HIDE DEF p
  <2>2. /\ p \in Seq(Source) /\ Len(p) = Len(m) + 1 /\ DOMAIN p = 1..(Len(m) + 1)
        /\ p[Len(m) + 1] = s /\ \A j \in DOMAIN m : p[j] = m[j]
    BY <2>1
  <2>3. \A j \in DOMAIN p : j \in DOMAIN m \/ j = Len(m) + 1
    BY <1>0, <2>2
  <2>4. Len(m) + 1 \in DOMAIN p /\ DOMAIN m \subseteq DOMAIN p
    BY <1>0, <2>2
  <2>5. \A j \in DOMAIN p : j <= Len(m) + 1
    BY <1>0, <2>2
  <2>6. \A i \in DOMAIN m : m[i].id # s.id
    BY <1>2
  <2> QED BY <2>2, <2>3, <2>4, <2>5, <2>6 DEF p
<1> QED BY <1>1, <1>2

\* The sources after the first n of the existing were put in.
Loop(merged, reported, existing) ==
    \A n \in 0..Len(existing) :
        merged[n] = IF n = 0 THEN reported
                    ELSE IF existing[n].origin = "backend" THEN Put(merged[n - 1], existing[n])
                    ELSE merged[n - 1]

LEMMA MergeIsALoop ==
  ASSUME NEW reported \in Seq(Source), NEW existing \in Seq(Source)
  PROVE  \E merged : Loop(merged, reported, existing) /\ Merge(reported, existing) = merged[Len(existing)]
<1> DEFINE N == Len(existing)
           Step(f, n) == IF n = 0 THEN reported
                         ELSE IF existing[n].origin = "backend" THEN Put(f[n - 1], existing[n])
                         ELSE f[n - 1]
           Done(k, f) == f = [n \in 0..k |-> Step(f, n)]
           Bad == {k \in 0..N : ~ \E f : Done(k, f)}
<1>1. N \in Nat
  OBVIOUS
<1>2. Bad = {}
  <2> SUFFICES ASSUME Bad # {} PROVE FALSE
    OBVIOUS
  <2>1. PICK k \in Bad : \A l \in Bad : k <= l
    <3>1. Bad \subseteq Nat
      BY <1>1
    <3> HIDE DEF Bad
    <3> QED BY <3>1, LeastExists
  <2>2. k \in 0..N /\ ~ \E f : Done(k, f)
    OBVIOUS
  <2>3. CASE k = 0
    <3> DEFINE f == [n \in 0..0 |-> reported]
    <3>1. f = [n \in 0..0 |-> Step(f, n)]
      <4>1. \A n \in 0..0 : n = 0
        OBVIOUS
      <4> QED BY <4>1
    <3> HIDE DEF f, Step
    <3> QED BY <2>2, <2>3, <3>1
  <2>4. CASE k # 0
    <3>1. k - 1 \in 0..N /\ k - 1 < k
      BY <1>1, <2>2, <2>4
    <3>2. PICK f : Done(k - 1, f)
      <4>1. k - 1 \notin Bad
        <5> HIDE DEF Bad
        <5>1. k - 1 \in Int /\ k \in Int /\ k - 1 < k
          BY <2>2, <3>1
        <5> QED BY <2>1, <5>1
      <4> HIDE DEF Done
      <4> QED BY <3>1, <4>1
    <3> DEFINE g == [n \in 0..k |-> IF n = k THEN Step(f, k) ELSE f[n]]
    <3>3. \A n \in 0..k : g[n] = Step(g, n)
      <4> SUFFICES ASSUME NEW n \in 0..k PROVE g[n] = Step(g, n)
        OBVIOUS
      <4>1. n = 0 \/ (n - 1 \in 0..k /\ n - 1 # k)
        BY <2>2
      <4>2. n # 0 => g[n - 1] = f[n - 1]
        BY <4>1
      <4>3. Step(g, n) = Step(f, n)
        <5> HIDE DEF g
        <5> QED BY <4>2
      <4>4. n # k => f[n] = Step(f, n)
        <5>1. n # k => n \in 0..(k - 1)
          BY <2>2
        <5> HIDE DEF Step
        <5> QED BY <3>2, <5>1
      <4>5. g[n] = IF n = k THEN Step(f, k) ELSE f[n]
        OBVIOUS
      <4> HIDE DEF g, Step
      <4> QED BY <4>3, <4>4, <4>5
    <3>4. Done(k, g)
      <4> HIDE DEF Step
      <4>1. g = [n \in 0..k |-> g[n]]
        OBVIOUS
      <4> HIDE DEF g
      <4> QED BY <3>3, <4>1
    <3> HIDE DEF g, Done
    <3> QED BY <2>2, <3>4
  <2> QED BY <2>3, <2>4
<1>3. \E f : Done(N, f)
  <2>1. N \in 0..N
    BY <1>1
  <2> HIDE DEF Done, N
  <2> QED BY <1>2, <2>1
<1> DEFINE merged == CHOOSE f : Done(N, f)
<1>4. Done(N, merged)
  <2> HIDE DEF Done, N
  <2> QED BY <1>3
<1>5. Merge(reported, existing) = merged[N]
  BY DEF Merge
<1>6. \A n \in 0..N : merged[n] = Step(merged, n)
  <2> HIDE DEF Step, merged, N
  <2> QED BY <1>4
<1>7. Loop(merged, reported, existing)
  <2> HIDE DEF merged
  <2> QED BY <1>6 DEF Loop
<1> HIDE DEF merged
<1> QED BY <1>5, <1>7

\* s is in sources, and after it no other with its id.
EndsWith(sources, s) ==
    \E i \in DOMAIN sources :
        sources[i] = s /\ \A j \in DOMAIN sources : sources[j].id = s.id => j <= i

LEMMA PutEnds ==
  ASSUME NEW m \in Seq(Source), NEW s \in Source
  PROVE  /\ Put(m, s) \in Seq(Source)
         /\ EndsWith(Put(m, s), s)
         /\ \A x : x.id # s.id /\ EndsWith(m, x) => EndsWith(Put(m, s), x)
<1> DEFINE p == Put(m, s)
<1>1. /\ p \in Seq(Source)
      /\ \E i \in DOMAIN p : p[i] = s /\ \A j \in DOMAIN p : p[j].id = s.id => j <= i
      /\ \A i \in DOMAIN m : m[i].id # s.id =>
              /\ i \in DOMAIN p /\ p[i] = m[i]
              /\ (\A j \in DOMAIN m : m[j].id = m[i].id => j <= i) =>
                   \A j \in DOMAIN p : p[j].id = m[i].id => j <= i
  BY PutProperties
<1> HIDE DEF p
<1>2. EndsWith(p, s)
  BY <1>1 DEF EndsWith
<1>3. ASSUME NEW x, x.id # s.id, EndsWith(m, x)
      PROVE  EndsWith(p, x)
  <2>1. PICK i \in DOMAIN m : m[i] = x /\ \A j \in DOMAIN m : m[j].id = x.id => j <= i
    BY <1>3 DEF EndsWith
  <2> QED BY <1>1, <1>3, <2>1 DEF EndsWith
<1> QED BY <1>1, <1>2, <1>3 DEF p

LEMMA MergeKeepsRules ==
  ASSUME NEW reported \in Seq(Source), NEW existing \in Seq(Source)
  PROVE  /\ Merge(reported, existing) \in Seq(Source)
         /\ \A s : s.origin = "backend" /\ Rules(existing, s) => Rules(Merge(reported, existing), s)
<1> DEFINE N == Len(existing)
           Operator(i) == existing[i].origin = "backend"
           LastIn(i, n) == \A j \in 1..n : Operator(j) /\ existing[j].id = existing[i].id => j <= i
<1>1. PICK merged : Loop(merged, reported, existing) /\ Merge(reported, existing) = merged[N]
  BY MergeIsALoop
<1> DEFINE Good(n) == /\ merged[n] \in Seq(Source)
                      /\ \A i \in 1..n : Operator(i) /\ LastIn(i, n) => EndsWith(merged[n], existing[i])
           Bad == {n \in 0..N : ~Good(n)}
<1>2. N \in Nat /\ DOMAIN existing = 1..N /\ \A i \in 1..N : existing[i] \in Source
  OBVIOUS
<1>3. \A n \in 0..N :
        merged[n] = IF n = 0 THEN reported
                    ELSE IF Operator(n) THEN Put(merged[n - 1], existing[n])
                    ELSE merged[n - 1]
  BY <1>1 DEF Loop
<1>4. Bad = {}
  <2> SUFFICES ASSUME Bad # {} PROVE FALSE
    OBVIOUS
  <2>1. PICK k \in Bad : \A l \in Bad : k <= l
    <3>1. Bad \subseteq Nat
      BY <1>2
    <3> HIDE DEF Bad
    <3> QED BY <3>1, LeastExists
  <2>2. k \in 0..N /\ ~Good(k)
    OBVIOUS
  <2>3. CASE k = 0
    <3>1. merged[0] = reported
      BY <1>2, <1>3
    <3> QED BY <2>2, <2>3, <3>1
  <2>4. CASE k # 0
    <3>1. k - 1 \in 0..N /\ k - 1 < k /\ k \in 1..N
      BY <1>2, <2>2, <2>4
    <3>2. Good(k - 1)
      <4>1. k - 1 \notin Bad
        <5> HIDE DEF Bad
        <5>1. k - 1 \in Int /\ k \in Int /\ k - 1 < k
          BY <2>2, <3>1
        <5> QED BY <2>1, <5>1
      <4> HIDE DEF Good
      <4> QED BY <3>1, <4>1
    <3>3. CASE Operator(k)
      <4> DEFINE m == merged[k - 1]
                 s == existing[k]
      <4>1. merged[k] = Put(m, s) /\ m \in Seq(Source) /\ s \in Source
        BY <1>2, <1>3, <2>4, <3>1, <3>2, <3>3
      <4>2. /\ Put(m, s) \in Seq(Source)
            /\ EndsWith(Put(m, s), s)
            /\ \A x : x.id # s.id /\ EndsWith(m, x) => EndsWith(Put(m, s), x)
        <5> HIDE DEF m, s
        <5> QED BY <4>1, PutEnds
      <4>3. ASSUME NEW i \in 1..k, Operator(i), LastIn(i, k)
            PROVE  EndsWith(merged[k], existing[i])
        <5>1. CASE i = k
          BY <4>1, <4>2, <5>1
        <5>2. CASE i # k
          <6>1. i \in 1..(k - 1) /\ LastIn(i, k - 1)
            BY <3>1, <4>3, <5>2
          <6>2. EndsWith(m, existing[i])
            BY <3>2, <4>3, <6>1
          <6>3. existing[i].id # s.id
            BY <3>1, <3>3, <4>3, <5>2
          <6> QED BY <4>1, <4>2, <6>2, <6>3
        <5> QED BY <5>1, <5>2
      <4> QED BY <2>2, <4>1, <4>2, <4>3
    <3>4. CASE ~Operator(k)
      <4>1. merged[k] = merged[k - 1]
        BY <1>3, <2>4, <3>1, <3>4
      <4>2. ASSUME NEW i \in 1..k, Operator(i), LastIn(i, k)
            PROVE  EndsWith(merged[k], existing[i])
        <5>1. i # k
          BY <3>4, <4>2
        <5>2. i \in 1..(k - 1) /\ LastIn(i, k - 1)
          BY <3>1, <4>2, <5>1
        <5> QED BY <3>2, <4>1, <4>2, <5>2
      <4> QED BY <2>2, <3>2, <4>1, <4>2
    <3> QED BY <3>3, <3>4
  <2> QED BY <2>3, <2>4
<1>5. Good(N)
  <2>1. N \in 0..N
    BY <1>2
  <2> HIDE DEF Good, N
  <2> QED BY <1>4, <2>1
<1>6. ASSUME NEW s, s.origin = "backend", Rules(existing, s)
      PROVE  Rules(Merge(reported, existing), s)
  <2>1. PICK i \in DOMAIN existing :
          /\ existing[i] = s
          /\ \A j \in DOMAIN existing :
                existing[j].origin = "backend" /\ existing[j].id = s.id => j <= i
    BY <1>6 DEF Rules
  <2>2. i \in 1..N /\ Operator(i) /\ LastIn(i, N)
    BY <1>2, <1>6, <2>1
  <2>3. EndsWith(merged[N], s)
    BY <1>5, <2>1, <2>2
  <2> QED BY <1>1, <2>3 DEF EndsWith, Rules
<1> QED BY <1>1, <1>5, <1>6

----------------------------------------------------------------------------
LEMMA MarkBackendProperties ==
  ASSUME NEW m \in Seq(Source)
  PROVE  /\ MarkBackend(m) \in Seq(Source)
         /\ \A i \in DOMAIN MarkBackend(m) : MarkBackend(m)[i].origin = "backend"
<1>1. DOMAIN m = 1..Len(m) /\ Len(m) \in Nat /\ \A i \in DOMAIN m : m[i] \in Source
  OBVIOUS
<1>2. \A i \in DOMAIN m : [m[i] EXCEPT !.origin = "backend"] \in Source
                        /\ [m[i] EXCEPT !.origin = "backend"].origin = "backend"
  BY <1>1 DEF Source
<1>3. MarkBackend(m) \in [1..Len(m) -> Source]
  BY <1>1, <1>2 DEF MarkBackend
<1>4. MarkBackend(m) \in Seq(Source)
  <2>1. Len(m) \in Nat
    OBVIOUS
  <2> HIDE DEF MarkBackend
  <2> QED BY <1>3, <2>1
<1>5. DOMAIN MarkBackend(m) = DOMAIN m /\ \A i \in DOMAIN m : MarkBackend(m)[i] = [m[i] EXCEPT !.origin = "backend"]
  BY DEF MarkBackend
<1> QED BY <1>2, <1>4, <1>5

LEMMA PolicyInitInv == PolicyInit => PolicyInv
<1> SUFFICES ASSUME PolicyInit PROVE PolicyInv
  OBVIOUS
<1>1. Enrolled \in Device /\ Enrolled.allowed \subseteq Supported
  BY DEF Enrolled, Device
<1> QED BY <1>1, DevicePolicyAssumption DEF PolicyInit, PolicyInv, PolicyTypeOK

LEMMA AuthoriseReportInv ==
  ASSUME PolicyInv, NEW h \in Reporters, NEW kind \in {"config", "heartbeat"},
         NEW s \in ReportedLists, AuthoriseReport(h, kind, s)
  PROVE  PolicyInv'
<1> DEFINE d == IF device = NoDevice THEN Enrolled ELSE device
           r == [kind |-> kind, sources |-> s, base |-> d]
<1>1. /\ report \in [Reporters -> Report \cup {NoReport}]
      /\ device \in Device \cup {NoDevice} /\ policy \in Seq(Source)
      /\ device # NoDevice => device.allowed \subseteq Supported
      /\ device' = d /\ report' = [report EXCEPT ![h] = r]
      /\ policy' = policy /\ patches' = patches
  BY DEF PolicyInv, PolicyTypeOK, AuthoriseReport
<1>2. Enrolled \in Device /\ Enrolled.allowed \subseteq Supported
  BY DEF Enrolled, Device
<1>3. d \in Device /\ d.allowed \subseteq Supported
  BY <1>1, <1>2
<1>4. r \in Report /\ r.base.allowed \subseteq Supported
  BY <1>3 DEF Report
<1> HIDE DEF r
<1>5. report' \in [Reporters -> Report \cup {NoReport}]
  BY <1>1, <1>4
<1>6. \A g \in Reporters : report'[g] # NoReport => report'[g].base.allowed \subseteq Supported
  BY <1>1, <1>4 DEF PolicyInv
<1>7. \A i \in DOMAIN policy : LastSet(i) => Rules(d.sources, policy[i])
  BY DEF PolicyInv
<1>8. d # NoDevice
  BY <1>3, DevicePolicyAssumption
<1> HIDE DEF d
<1>9. PolicyTypeOK'
  BY <1>1, <1>3, <1>5 DEF PolicyInv, PolicyTypeOK
<1>10. \A i \in DOMAIN policy' : LastSet(i)' => Rules(device'.sources, policy'[i])
  BY <1>1, <1>7 DEF LastSet
<1> QED BY <1>1, <1>3, <1>6, <1>8, <1>9, <1>10 DEF PolicyInv

LEMMA StoreReportInv ==
  ASSUME PolicyInv, NEW h \in Reporters, StoreReport(h)
  PROVE  PolicyInv'
<1> DEFINE r == report[h]
           d == IF device = NoDevice THEN r.base ELSE device
           kept == r.kind = "heartbeat" /\ r.sources = <<>>
           new == IF kept THEN d ELSE [d EXCEPT !.sources = Merge(r.sources, @)]
<1>1. /\ report \in [Reporters -> Report \cup {NoReport}]
      /\ device \in Device \cup {NoDevice} /\ policy \in Seq(Source)
      /\ device # NoDevice => device.allowed \subseteq Supported
      /\ r \in Report /\ r.base.allowed \subseteq Supported
      /\ device' = new /\ report' = [report EXCEPT ![h] = NoReport]
      /\ policy' = policy /\ patches' = patches
  BY DEF PolicyInv, PolicyTypeOK, StoreReport
<1>2. r.base \in Device /\ r.sources \in Seq(Source)
  BY <1>1, DevicePolicyAssumption DEF Report
<1>3. d \in Device /\ d.allowed \subseteq Supported
  BY <1>1, <1>2
<1> HIDE DEF d
<1>4. d.sources \in Seq(Source)
  BY <1>3 DEF Device
<1>5. /\ Merge(r.sources, d.sources) \in Seq(Source)
      /\ \A s : s.origin = "backend" /\ Rules(d.sources, s) => Rules(Merge(r.sources, d.sources), s)
  <2> DEFINE rs == r.sources
             ds == d.sources
  <2>1. rs \in Seq(Source) /\ ds \in Seq(Source)
    BY <1>2, <1>4
  <2> HIDE DEF rs, ds
  <2>2. /\ Merge(rs, ds) \in Seq(Source)
        /\ \A s : s.origin = "backend" /\ Rules(ds, s) => Rules(Merge(rs, ds), s)
    BY <2>1, MergeKeepsRules
  <2> QED BY <2>2 DEF rs, ds
<1>6. /\ new \in Device /\ new.allowed = d.allowed
      /\ new.sources = IF kept THEN d.sources ELSE Merge(r.sources, d.sources)
  BY <1>3, <1>5 DEF Device
<1>7. \A i \in DOMAIN policy : LastSet(i) => Rules(d.sources, policy[i])
  BY DEF PolicyInv, d
<1> HIDE DEF r, new, kept
<1>8. \A i \in DOMAIN policy : LastSet(i) => Rules(new.sources, policy[i])
  BY <1>5, <1>6, <1>7 DEF PolicyInv
<1>9. \A i \in DOMAIN policy' : LastSet(i)' => Rules(device'.sources, policy'[i])
  BY <1>1, <1>8 DEF LastSet
<1>10. \A g \in Reporters : report'[g] # NoReport => report'[g].base.allowed \subseteq Supported
  BY <1>1 DEF PolicyInv
<1>11. PolicyTypeOK'
  <2>1. report' \in [Reporters -> Report \cup {NoReport}]
    BY <1>1
  <2> QED BY <1>1, <1>6, <2>1 DEF PolicyInv, PolicyTypeOK
<1>12. new # NoDevice
  BY <1>6, DevicePolicyAssumption
<1> QED BY <1>1, <1>3, <1>6, <1>9, <1>10, <1>11, <1>12 DEF PolicyInv

LEMMA PatchType ==
  ASSUME PolicyInv, NEW next, Patch(next)
  PROVE  /\ device \in Device /\ device # NoDevice /\ device' = next
         /\ report' = report /\ patches' \in 0..MaxPatches
BY DevicePolicyAssumption DEF PolicyInv, PolicyTypeOK, Patch

LEMMA PatchSourcesInv ==
  ASSUME PolicyInv, NEW s \in PolicyLists, PatchSources(s)
  PROVE  PolicyInv'
<1> DEFINE m == MarkBackend(s)
           new == [device EXCEPT !.sources = m]
<1>1. /\ device \in Device /\ device # NoDevice /\ device' = new
      /\ report' = report /\ patches' \in 0..MaxPatches
  BY PatchType DEF PatchSources
<1>2. policy' = m
  BY DEF PatchSources
<1>3. m \in Seq(Source) /\ \A i \in DOMAIN m : m[i].origin = "backend"
  BY MarkBackendProperties, DevicePolicyAssumption
<1> HIDE DEF m
<1>4. new \in Device /\ new.sources = m /\ new.allowed = device.allowed
  BY <1>1, <1>3 DEF Device
<1> HIDE DEF new
<1>5. new # NoDevice
  BY <1>4, DevicePolicyAssumption
<1>6. PolicyTypeOK'
  BY <1>1, <1>2, <1>3, <1>4 DEF PolicyInv, PolicyTypeOK
<1>7. \A i \in DOMAIN policy' : LastSet(i)' => Rules(device'.sources, policy'[i])
  BY <1>1, <1>2, <1>4 DEF LastSet, Rules
<1> QED BY <1>1, <1>2, <1>3, <1>4, <1>5, <1>6, <1>7 DEF PolicyInv

LEMMA PatchAllowedInv ==
  ASSUME PolicyInv, NEW all \in BOOLEAN, NEW systems \in AllowLists, PatchAllowed(all, systems)
  PROVE  PolicyInv'
<1> DEFINE new == [device EXCEPT !.syncAll = all, !.allowed = systems \cap Supported]
<1>1. /\ device \in Device /\ device # NoDevice /\ device' = new
      /\ report' = report /\ patches' \in 0..MaxPatches
  BY PatchType DEF PatchAllowed
<1>2. policy' = policy
  BY DEF PatchAllowed
<1>3. /\ new \in Device /\ new.sources = device.sources
      /\ new.allowed = systems \cap Supported
  BY <1>1, DevicePolicyAssumption DEF Device
<1> HIDE DEF new
<1>4. new # NoDevice
  BY <1>3, DevicePolicyAssumption
<1>5. PolicyTypeOK'
  BY <1>1, <1>2, <1>3 DEF PolicyInv, PolicyTypeOK
<1>6. \A i \in DOMAIN policy' : LastSet(i)' => Rules(device'.sources, policy'[i])
  BY <1>1, <1>2, <1>3 DEF PolicyInv, LastSet
<1> QED BY <1>1, <1>2, <1>3, <1>4, <1>5, <1>6 DEF PolicyInv

LEMMA DeleteDeviceInv == ASSUME PolicyInv, DeleteDevice PROVE PolicyInv'
<1>1. policy' = <<>> /\ <<>> \in Seq(Source) /\ device' = NoDevice /\ report' = report /\ patches' = patches
  BY DEF DeleteDevice
<1> QED BY <1>1 DEF PolicyInv, PolicyTypeOK

LEMMA PolicyNextInv == PolicyInv /\ [PolicyNext]_policyVars => PolicyInv'
<1> SUFFICES ASSUME PolicyInv, [PolicyNext]_policyVars PROVE PolicyInv'
  OBVIOUS
<1>1. ASSUME NEW h \in Reporters, NEW kind \in {"config", "heartbeat"}, NEW s \in ReportedLists,
             AuthoriseReport(h, kind, s)
      PROVE  PolicyInv'
  BY <1>1, AuthoriseReportInv
<1>2. ASSUME NEW h \in Reporters, StoreReport(h) PROVE PolicyInv'
  BY <1>2, StoreReportInv
<1>3. ASSUME NEW s \in PolicyLists, PatchSources(s) PROVE PolicyInv'
  BY <1>3, PatchSourcesInv
<1>4. ASSUME NEW all \in BOOLEAN, NEW systems \in AllowLists, PatchAllowed(all, systems) PROVE PolicyInv'
  BY <1>4, PatchAllowedInv
<1>5. CASE DeleteDevice
  BY <1>5, DeleteDeviceInv
<1>6. CASE UNCHANGED policyVars
  BY <1>6 DEF policyVars, PolicyInv, PolicyTypeOK, LastSet
<1> QED BY <1>1, <1>2, <1>3, <1>4, <1>5, <1>6 DEF PolicyNext

LEMMA PolicyInvSurvives == PolicyInv => PolicySurvivesReports
<1> SUFFICES ASSUME PolicyInv, device # NoDevice, NEW i \in DOMAIN policy, LastSet(i)
             PROVE  /\ Contains(device.sources, policy[i])
                    /\ Told(device, policy[i]) =
                         (policy[i].systems \cap Capability(policy[i]))
                           \cap (IF device.syncAll THEN Supported ELSE device.allowed)
  BY DEF PolicySurvivesReports, LastSet
<1> DEFINE s == policy[i]
           ds == device.sources
<1>1. PICK k \in DOMAIN ds : ds[k] = s
  BY DEF PolicyInv, Rules
<1>2. ds \in Seq(Source) /\ device.allowed \subseteq Supported
  BY DEF PolicyInv, PolicyTypeOK, Device
<1>3. Contains(ds, s)
  <2> HIDE DEF ds, s
  <2>1. k \in 1..Len(ds)
    BY <1>1, <1>2
  <2> QED BY <1>1, <2>1 DEF Contains
<1>4. ds # <<>>
  <2> HIDE DEF ds
  <2> QED BY <1>1
<1>5. EffectiveSource(s) \subseteq UNION {EffectiveSource(ds[j]) : j \in DOMAIN ds}
  BY <1>1
<1>6. EffectiveSource(s) = s.systems \cap Supported \cap Capability(s)
  BY DEF EffectiveSource
<1> DEFINE all == UNION {EffectiveSource(ds[j]) : j \in DOMAIN ds}
<1>7. Effective(device) = IF device.syncAll THEN all ELSE device.allowed \cap all
  BY <1>4 DEF Effective
<1> HIDE DEF all, s, ds
<1>8. Told(device, s) = EffectiveSource(s) \cap Effective(device)
  BY DEF Told
<1>9. EffectiveSource(s) \subseteq all
  BY <1>5 DEF all
<1>10. Told(device, s) = (s.systems \cap Capability(s))
                           \cap (IF device.syncAll THEN Supported ELSE device.allowed)
  BY <1>2, <1>6, <1>7, <1>8, <1>9
<1> QED BY <1>3, <1>10 DEF s, ds

\* The device, the reports and what the operator set keep their types
\* (mergeHelperReportedConfigSources, device_config.go).
THEOREM PolicyTypes == PolicySpec => []PolicyTypeOK
<1>1. PolicyInv => PolicyTypeOK
  BY DEF PolicyInv
<1> QED BY PolicyInitInv, PolicyNextInv, <1>1, PTL DEF PolicySpec

\* Whatever helpers report, and from however old a state of the device, each
\* source the operator set is in the device as he set it, and the helper is told
\* to sync for it exactly what he allows and the device can
\* (mergeHelperReportedConfigSources, effectiveDevicePolicy, sourceCapabilitySet).
THEOREM PolicySurvives == PolicySpec => []PolicySurvivesReports
BY PolicyInitInv, PolicyNextInv, PolicyInvSurvives, PTL DEF PolicySpec

(***************************************************************************)
(* Cheat packs.  What a worker is at keeps what it wants to write within   *)
(* what its request concerns.                                              *)
(***************************************************************************)
JobOK(j, files) ==
    /\ j.step \in {"builtin", "runtime", "module"} =>
         j.named = {j.pack} /\ j.pack \in j.packs
    /\ j.step = "builtin" => j.pack \in Builtins
    /\ j.step = "set" => j.named \subseteq j.packs
    /\ j.step \in {"set", "remove", "install"} =>
         j.module \in j.mods /\ j.brings \subseteq j.packs
    /\ j.step \in {"fetch", "write", "manifest"} => j.files \subseteq j.packs
    /\ j.step \in {"write", "manifest"} => j.pack \in j.packs
    /\ j.step = "manifest" => j.pack \in files
JobsOK == \A w \in Workers : jobs[w] # Nothing => JobOK(jobs[w], packFiles)

\* The types, with jobs that are about what they concern.
LibraryShape == LibraryTypeOK /\ JobsOK

(* The step a worker is at says which fields its job has. *)
LEMMA JobShapes ==
  ASSUME LibraryTypeOK, NEW w \in Workers, jobs[w] # Nothing
  PROVE  /\ jobs[w] \in Job
         /\ jobs[w].step \in {"builtin", "runtime", "module"} => jobs[w] \in PackChange
         /\ jobs[w].step = "set" => jobs[w] \in ModuleChange
         /\ jobs[w].step \in {"remove", "install"} => jobs[w] \in Installation
         /\ jobs[w].step = "fetch" => jobs[w] \in Fetching
         /\ jobs[w].step \in {"write", "manifest"} => jobs[w] \in Writing
         /\ jobs[w].packs \in SUBSET Packs /\ jobs[w].mods \in SUBSET Modules
<1>1. jobs[w] \in Job
  BY DEF LibraryTypeOK
<1> QED
  BY <1>1 DEF Job, PackChange, ModuleChange, Installation, Fetching, Writing

(* A worker goes on with another job, or with none. *)
LEMMA NextJob ==
  ASSUME LibraryShape, NEW w \in Workers, NEW j \in Job \cup {Nothing},
         jobs' = [jobs EXCEPT ![w] = j], packFiles \subseteq packFiles',
         j # Nothing => JobOK(j, packFiles')
  PROVE  jobs' \in [Workers -> Job \cup {Nothing}] /\ JobsOK'
<1>1. jobs' \in [Workers -> Job \cup {Nothing}]
  BY DEF LibraryShape, LibraryTypeOK
<1>2. ASSUME NEW v \in Workers, jobs'[v] # Nothing  PROVE JobOK(jobs'[v], packFiles')
  <2>1. CASE v = w
    BY <1>2, <2>1 DEF LibraryShape, LibraryTypeOK
  <2>2. CASE v # w
    <3>1. jobs'[v] = jobs[v]
      BY <2>2 DEF LibraryShape, LibraryTypeOK
    <3>2. JobOK(jobs[v], packFiles)
      BY <1>2, <3>1 DEF LibraryShape, JobsOK
    <3> QED BY <3>1, <3>2 DEF JobOK
  <2> QED BY <2>1, <2>2
<1> QED BY <1>1, <1>2 DEF JobsOK

(* Only workers with a job are alone. *)
LEMMA NextAlone ==
  ASSUME LibraryShape, NEW w \in Workers, NEW j \in Job \cup {Nothing},
         jobs' = [jobs EXCEPT ![w] = j], alone' \subseteq alone \cup {w},
         j = Nothing => w \notin alone'
  PROVE  alone' \subseteq {v \in Workers : jobs'[v] # Nothing}
BY DEF LibraryShape, LibraryTypeOK

(* The modules that hold a pack have a first. *)
LEMMA FirstExists ==
  ASSUME LibraryTypeOK, NEW p, Holders(p) # {}
  PROVE  /\ \E m \in First(p) : First(p) = {m}
         /\ First(p) \subseteq DOMAIN modules
<1> DEFINE places == {Place[m] : m \in Holders(p)}
<1>1. Holders(p) \subseteq Modules
  BY DEF Holders, LibraryTypeOK
<1>2. places \subseteq Nat /\ places # {}
  BY <1>1, LibraryAssumption
<1> HIDE DEF places
<1>4. PICK x \in places : \A y \in places : x <= y
  BY <1>2, LeastExists
<1>5. PICK m \in Holders(p) : Place[m] = x
  BY <1>4 DEF places
<1>6. \A n \in Holders(p) : Place[m] <= Place[n]
  BY <1>4, <1>5 DEF places
<1>7. m \in First(p)
  BY <1>6 DEF First
<1>8. \A n \in First(p) : n = m
  BY <1>1, <1>6, LibraryAssumption DEF First
<1> QED BY <1>7, <1>8 DEF First, Holders

(* What the listing says of a known pack. *)
LEMMA StatusTypes ==
  ASSUME LibraryTypeOK
  PROVE  /\ Known \subseteq Packs
         /\ \A p \in Known : Kind(p) \in {"builtin", "runtime", "module"} /\ Status(p) \in Statuses
         /\ \A p : Deciding(p) \subseteq DOMAIN modules
         /\ \A p \in Packs : Siblings(p) \in SUBSET Packs
         /\ Listing \in PackStatuses
<1>1. Known \subseteq Packs
  BY LibraryAssumption DEF Known, LibraryTypeOK
<1>2. ASSUME NEW p \in Known
      PROVE Kind(p) \in {"builtin", "runtime", "module"} /\ Status(p) \in Statuses
  <2>1. CASE p \in DOMAIN manifests
    BY <2>1 DEF Kind, Status, LibraryTypeOK
  <2>2. CASE p \notin DOMAIN manifests /\ Holders(p) # {}
    <3>1. Kind(p) = "module"
      BY <2>2 DEF Kind
    <3>2. (CHOOSE m \in First(p) : TRUE) \in DOMAIN modules
      BY <2>2, FirstExists
    <3> QED BY <3>1, <3>2 DEF Status, LibraryTypeOK
  <2>3. CASE p \notin DOMAIN manifests /\ Holders(p) = {}
    BY <2>3 DEF Kind, Status, LibraryTypeOK, Statuses
  <2> QED BY <2>1, <2>2, <2>3
<1>3. \A p : Deciding(p) \subseteq DOMAIN modules
  BY DEF Deciding, First, Holders
<1>4. \A p \in Packs : Siblings(p) \in SUBSET Packs
  BY <1>3 DEF Siblings, LibraryTypeOK
<1>5. Listing \in PackStatuses
  <2>1. Listing \in [Known -> Statuses]
    BY <1>2 DEF Listing
  <2> QED BY <1>1, <2>1 DEF PackStatuses
<1> QED BY <1>1, <1>2, <1>3, <1>4, <1>5

\* The variables a request that looks leaves as they are keep their types.
LEMMA TypeOKSame ==
  ASSUME LibraryTypeOK, UNCHANGED storeVars, NEW w \in Workers,
         jobs' \in [Workers -> Job \cup {Nothing}],
         orders' \in 0..MaxOrders, off' \subseteq Packs,
         alone' \subseteq {v \in Workers : jobs'[v] # Nothing}
  PROVE  LibraryTypeOK'
BY DEF LibraryTypeOK, storeVars

\* A request that begins is served by an idle worker.
LEMMA BeginShape ==
  ASSUME LibraryShape, NEW w \in Workers, NEW j \in Job, Begin(w, j),
         JobOK(j, packFiles), UNCHANGED storeVars, off' \subseteq off
  PROVE  LibraryShape'
<1>1. jobs' = [jobs EXCEPT ![w] = j] /\ j # Nothing
  BY LibraryAssumption DEF Begin, Take
<1>2. jobs' \in [Workers -> Job \cup {Nothing}] /\ JobsOK'
  BY <1>1, NextJob DEF storeVars
<1>3. alone' \subseteq {v \in Workers : jobs'[v] # Nothing}
  <2>1. alone' \subseteq alone \cup {w}
    BY DEF Begin, Take
  <2> QED BY <1>1, <2>1, NextAlone
<1>4. orders' \in 0..MaxOrders /\ off' \subseteq Packs
  BY LibraryAssumption DEF Begin, LibraryShape, LibraryTypeOK
<1> QED BY <1>2, <1>3, <1>4, TypeOKSame DEF LibraryShape

\* A request goes on, or ends, without having written anything.
LEMMA ContinueShape ==
  ASSUME LibraryShape, NEW w \in Workers, NEW j \in Job \cup {Nothing},
         jobs' = [jobs EXCEPT ![w] = j], alone' \subseteq alone,
         j = Nothing => w \notin alone', j # Nothing => JobOK(j, packFiles),
         UNCHANGED <<storeVars, orders>>, off' \subseteq off
  PROVE  LibraryShape'
<1>1. jobs' \in [Workers -> Job \cup {Nothing}] /\ JobsOK'
  BY NextJob DEF storeVars
<1>2. alone' \subseteq {v \in Workers : jobs'[v] # Nothing}
  BY NextAlone
<1>3. orders' \in 0..MaxOrders /\ off' \subseteq Packs
  BY DEF LibraryShape, LibraryTypeOK
<1> QED BY <1>1, <1>2, <1>3, TypeOKSame DEF LibraryShape

\* What a request writes is of the types of the store.
LEMMA WriteShape ==
  ASSUME LibraryShape, NEW w \in Workers, NEW j \in Job \cup {Nothing},
         jobs' = [jobs EXCEPT ![w] = j], alone' \subseteq alone,
         j = Nothing => w \notin alone', j # Nothing => JobOK(j, packFiles'),
         packFiles \subseteq packFiles', packFiles' \subseteq Packs,
         DOMAIN manifests' \subseteq packFiles',
         \A p \in DOMAIN manifests' : manifests'[p] \in Statuses,
         DOMAIN tombstones' \subseteq Builtins,
         \A p \in DOMAIN tombstones' : tombstones'[p] \in Off,
         DOMAIN modules' \subseteq Modules,
         \A m \in DOMAIN modules' : modules'[m] \in [status : Statuses, packs : SUBSET Packs],
         UNCHANGED orders, off' \subseteq Packs
  PROVE  LibraryShape'
<1>1. jobs' \in [Workers -> Job \cup {Nothing}] /\ JobsOK'
  BY NextJob
<1>2. alone' \subseteq {v \in Workers : jobs'[v] # Nothing}
  BY NextAlone
<1> QED BY <1>1, <1>2 DEF LibraryShape, LibraryTypeOK

\* The change of a pack: its status is kept where the listing says.
LEMMA ChangePackJob ==
  ASSUME LibraryShape, NEW w \in Workers, NEW p \in Packs, NEW s \in Statuses,
         ChangePack(w, p, s)
  PROVE  \E j \in PackChange :
           /\ Begin(w, j) /\ JobOK(j, packFiles) /\ j \in Job
           /\ j = [step |-> Kind(p), packs |-> Siblings(p), mods |-> Deciding(p),
                   named |-> {p}, status |-> s, pack |-> p]
<1> DEFINE j == [step |-> Kind(p), packs |-> Siblings(p), mods |-> Deciding(p),
                 named |-> {p}, status |-> s, pack |-> p]
<1>1. Kind(p) \in {"builtin", "runtime", "module"} /\ p \in Known
  BY StatusTypes DEF ChangePack, LibraryShape
<1>2. Siblings(p) \in SUBSET Packs /\ Deciding(p) \in SUBSET Modules /\ p \in Siblings(p)
  BY StatusTypes DEF LibraryShape, LibraryTypeOK, Siblings
<1>3. j \in PackChange
  BY <1>1, <1>2 DEF PackChange
<1>4. Kind(p) = "builtin" => p \in Builtins
  BY <1>1 DEF Kind, Known
<1>5. JobOK(j, packFiles)
  BY <1>1, <1>2, <1>4 DEF JobOK
<1> QED BY <1>3, <1>5 DEF ChangePack, Job

\* The change of a module: its packs as it has them.
LEMMA ChangeModuleJob ==
  ASSUME LibraryShape, NEW w \in Workers, NEW m \in Modules, NEW s \in Statuses,
         ChangeModule(w, m, s)
  PROVE  \E j \in ModuleChange :
           /\ Begin(w, j) /\ JobOK(j, packFiles) /\ j \in Job
           /\ j = [step |-> "set", packs |-> modules[m].packs, mods |-> {m},
                   named |-> {p \in modules[m].packs : m \in Deciding(p)},
                   status |-> s, module |-> m, brings |-> modules[m].packs]
<1> DEFINE j == [step |-> "set", packs |-> modules[m].packs, mods |-> {m},
                 named |-> {p \in modules[m].packs : m \in Deciding(p)},
                 status |-> s, module |-> m, brings |-> modules[m].packs]
<1>1. modules[m].packs \in SUBSET Packs
  BY DEF ChangeModule, LibraryShape, LibraryTypeOK
<1>2. j \in ModuleChange
  BY <1>1 DEF ModuleChange
<1>3. JobOK(j, packFiles)
  BY DEF JobOK
<1> QED BY <1>2, <1>3 DEF ChangeModule, Job

\* The upload of a pack.
LEMMA CreateJob ==
  ASSUME LibraryShape, NEW w \in Workers, NEW p \in Packs, Create(w, p)
  PROVE  \E j \in Writing :
           /\ Begin(w, j) /\ JobOK(j, packFiles) /\ j \in Job
           /\ j.step = "write" /\ j.files = {} /\ j.pack = p /\ j.packs = {p}
<1> DEFINE j == [step |-> "write", packs |-> {p}, mods |-> {}, files |-> {},
                 existing |-> [q \in {} |-> "active"], pack |-> p,
                 status |-> "active"]
<1>1. [q \in {} |-> "active"] \in PackStatuses
  <2>1. [q \in {} |-> "active"] \in [{} -> Statuses]
    OBVIOUS
  <2> QED BY <2>1 DEF PackStatuses
<1>2. j \in Writing
  BY <1>1 DEF Writing, Statuses
<1>3. JobOK(j, packFiles)
  BY DEF JobOK
<1> QED BY <1>2, <1>3 DEF Create, Job

\* A synchronisation, with the listing it looks statuses up in.
LEMMA SyncJob ==
  ASSUME LibraryShape, NEW w \in Workers, Sync(w)
  PROVE  \E j \in Fetching :
           /\ Begin(w, j) /\ JobOK(j, packFiles) /\ j \in Job
           /\ j.step = "fetch" /\ j.files = LibraryPacks /\ j.existing = Listing
<1> DEFINE j == [step |-> "fetch", packs |-> LibraryPacks, mods |-> {},
                 files |-> LibraryPacks, existing |-> Listing]
<1>1. Listing \in PackStatuses
  BY StatusTypes DEF LibraryShape
<1>2. j \in Fetching
  BY <1>1, LibraryAssumption DEF Fetching
<1>3. JobOK(j, packFiles)
  BY DEF JobOK
<1> QED BY <1>2, <1>3 DEF Sync, Job

\* The installation of a module, with the status it keeps.
LEMMA ImportJob ==
  ASSUME LibraryShape, NEW w \in Workers, NEW m \in Modules, NEW b \in SUBSET Packs,
         Import(w, m, b)
  PROVE  \E j \in Installation :
           /\ Begin(w, j) /\ JobOK(j, packFiles) /\ j \in Job
           /\ j = [step |-> "remove", packs |-> b \cup HeldBy(m), mods |-> {m},
                   status |-> Kept(m), module |-> m, brings |-> b]
<1> DEFINE j == [step |-> "remove", packs |-> b \cup HeldBy(m), mods |-> {m},
                 status |-> Kept(m), module |-> m, brings |-> b]
<1>1. HeldBy(m) \in SUBSET Packs /\ Kept(m) \in Statuses
  BY DEF HeldBy, Kept, LibraryShape, LibraryTypeOK, Statuses
<1>2. j \in Installation
  BY <1>1 DEF Installation
<1>3. JobOK(j, packFiles)
  BY DEF JobOK
<1> QED BY <1>2, <1>3 DEF Import, Job

\* The record that is to be written back.
LEMMA ReadModuleJob ==
  ASSUME LibraryShape, NEW w \in Workers, ReadModule(w)
  PROVE  \E m \in First(jobs[w].pack), j \in ModuleChange :
           /\ Take(w, j, alone) /\ JobOK(j, packFiles) /\ j \in Job
           /\ off' = Enabling(modules[m].packs, j.status)
           /\ j = [step |-> "set", packs |-> jobs[w].packs \cup modules[m].packs,
                   mods |-> jobs[w].mods \cup {m}, named |-> jobs[w].named,
                   status |-> jobs[w].status, module |-> m, brings |-> modules[m].packs]
<1>1. PICK m \in First(jobs[w].pack) :
        /\ Take(w, [step |-> "set", packs |-> jobs[w].packs \cup modules[m].packs,
                   mods |-> jobs[w].mods \cup {m}, named |-> jobs[w].named,
                   status |-> jobs[w].status, module |-> m,
                   brings |-> modules[m].packs], alone)
        /\ off' = Enabling(modules[m].packs, jobs[w].status)
  BY DEF ReadModule
<1> DEFINE j == [step |-> "set", packs |-> jobs[w].packs \cup modules[m].packs,
                 mods |-> jobs[w].mods \cup {m}, named |-> jobs[w].named,
                 status |-> jobs[w].status, module |-> m, brings |-> modules[m].packs]
<1>2. jobs[w] \in PackChange /\ JobOK(jobs[w], packFiles) /\ jobs[w].step = "module"
  BY JobShapes DEF ReadModule, At, LibraryShape, JobsOK
<1>3. m \in Modules /\ modules[m].packs \in SUBSET Packs
  BY DEF First, Holders, LibraryShape, LibraryTypeOK
<1>4. j \in ModuleChange
  BY <1>2, <1>3 DEF ModuleChange, PackChange
<1>5. JobOK(j, packFiles)
  BY <1>2 DEF JobOK
<1> QED BY <1>1, <1>4, <1>5 DEF Job

\* What the requests go on with.
LEMMA ModuleIsGoneJob ==
  ASSUME LibraryShape, NEW w \in Workers, ModuleIsGone(w)
  PROVE  \E j \in PackChange :
           /\ Continue(w, j) /\ JobOK(j, packFiles) /\ j \in Job
           /\ j = [jobs[w] EXCEPT !.step = "runtime"]
<1> DEFINE j == [jobs[w] EXCEPT !.step = "runtime"]
<1>1. jobs[w] \in PackChange /\ JobOK(jobs[w], packFiles) /\ jobs[w].step = "module"
  BY JobShapes DEF ModuleIsGone, At, LibraryShape, JobsOK
<1>2. j \in PackChange
  BY <1>1 DEF PackChange
<1>3. JobOK(j, packFiles)
  BY <1>1 DEF JobOK, PackChange
<1> QED BY <1>2, <1>3 DEF ModuleIsGone, Job

\* A file of the library that is written, with the status of its pack.
LEMMA FetchJob ==
  ASSUME LibraryShape, NEW w \in Workers, NEW p \in Packs, Fetch(w, p)
  PROVE  \E j \in Writing :
           /\ Continue(w, j) /\ JobOK(j, packFiles) /\ j \in Job
           /\ jobs[w] \in Fetching /\ p \in jobs[w].files
           /\ j = [step |-> "write", packs |-> jobs[w].packs, mods |-> jobs[w].mods,
                   files |-> jobs[w].files \ {p}, existing |-> jobs[w].existing,
                   pack |-> p, status |-> SyncStatus(jobs[w], p)]
<1> DEFINE j == [step |-> "write", packs |-> jobs[w].packs, mods |-> jobs[w].mods,
                 files |-> jobs[w].files \ {p}, existing |-> jobs[w].existing,
                 pack |-> p, status |-> SyncStatus(jobs[w], p)]
<1>1. jobs[w] \in Fetching /\ JobOK(jobs[w], packFiles) /\ jobs[w].step = "fetch"
  BY JobShapes DEF Fetch, At, LibraryShape, JobsOK
<1>2. SyncStatus(jobs[w], p) \in Statuses
  <2>1. jobs[w].existing \in PackStatuses
    BY <1>1 DEF Fetching
  <2>2. \A q \in DOMAIN jobs[w].existing : jobs[w].existing[q] \in Statuses
    BY <2>1 DEF PackStatuses
  <2> QED BY <2>2 DEF SyncStatus, Statuses
<1>3. j \in Writing
  BY <1>1, <1>2 DEF Writing, Fetching
<1>4. JobOK(j, packFiles)
  BY <1>1 DEF JobOK, Fetch
<1> QED BY <1>1, <1>3, <1>4 DEF Fetch, Job

\* A file of the library that is passed over.
LEMMA SkipJob ==
  ASSUME LibraryShape, NEW w \in Workers, NEW p \in Packs, Skip(w, p)
  PROVE  \E j \in Fetching :
           /\ Continue(w, j) /\ JobOK(j, packFiles) /\ j \in Job
           /\ jobs[w] \in Fetching
           /\ j = [jobs[w] EXCEPT !.files = jobs[w].files \ {p}]
<1> DEFINE j == [jobs[w] EXCEPT !.files = jobs[w].files \ {p}]
<1>1. jobs[w] \in Fetching /\ JobOK(jobs[w], packFiles) /\ jobs[w].step = "fetch"
  BY JobShapes DEF Skip, At, LibraryShape, JobsOK
<1>2. j \in Fetching
  BY <1>1 DEF Fetching
<1>3. JobOK(j, packFiles)
  BY <1>1 DEF JobOK, Fetching
<1>4. Continue(w, j)
  BY DEF Skip
<1> QED BY <1>1, <1>2, <1>3, <1>4 DEF Job

\* The manifest is written for a pack that is there.
LEMMA WritePackFileJob ==
  ASSUME LibraryShape, NEW w \in Workers, WritePackFile(w)
  PROVE  \E j \in Writing :
           /\ Continue(w, j) /\ JobOK(j, packFiles') /\ j \in Job
           /\ jobs[w] \in Writing
           /\ j = [jobs[w] EXCEPT !.step = "manifest"]
<1> DEFINE j == [jobs[w] EXCEPT !.step = "manifest"]
<1>1. jobs[w] \in Writing /\ JobOK(jobs[w], packFiles) /\ jobs[w].step = "write"
  BY JobShapes DEF WritePackFile, At, LibraryShape, JobsOK
<1>2. j \in Writing
  BY <1>1 DEF Writing
<1>3. JobOK(j, packFiles')
  BY <1>1 DEF JobOK, Writing, WritePackFile
<1> QED BY <1>1, <1>2, <1>3 DEF Job, WritePackFile

\* What is left of a synchronisation.
LEMMA RestJob ==
  ASSUME LibraryShape, NEW w \in Workers, At(w, "write") \/ At(w, "manifest")
  PROVE  /\ jobs[w] \in Writing /\ JobOK(jobs[w], packFiles)
         /\ Rest(jobs[w]) \in Fetching /\ Rest(jobs[w]) \in Job
         /\ JobOK(Rest(jobs[w]), packFiles)
<1>1. /\ jobs[w] \in Writing /\ JobOK(jobs[w], packFiles)
      /\ jobs[w].step \in {"write", "manifest"}
  BY JobShapes DEF At, LibraryShape, JobsOK
<1>2. Rest(jobs[w]) \in Fetching
  BY <1>1 DEF Rest, Fetching, Writing
<1>3. JobOK(Rest(jobs[w]), packFiles)
  BY <1>1 DEF JobOK, Rest
<1> QED BY <1>1, <1>2, <1>3 DEF Job

\* What is removed is what is written again.
LEMMA RemoveModuleJob ==
  ASSUME LibraryShape, NEW w \in Workers, RemoveModule(w)
  PROVE  \E j \in Installation :
           /\ Continue(w, j) /\ JobOK(j, packFiles) /\ j \in Job
           /\ jobs[w] \in Installation
           /\ j = [jobs[w] EXCEPT !.step = "install"]
<1> DEFINE j == [jobs[w] EXCEPT !.step = "install"]
<1>1. jobs[w] \in Installation /\ JobOK(jobs[w], packFiles) /\ jobs[w].step = "remove"
  BY JobShapes DEF RemoveModule, At, LibraryShape, JobsOK
<1>2. j \in Installation
  BY <1>1 DEF Installation
<1>3. JobOK(j, packFiles)
  BY <1>1 DEF JobOK, Installation
<1> QED BY <1>1, <1>2, <1>3 DEF Job, RemoveModule

\* What the writing steps write.
LEMMA SwitchedTypes ==
  ASSUME LibraryShape, NEW w \in Workers,
         At(w, "builtin") \/ At(w, "runtime") \/ At(w, "set")
  PROVE  /\ Switched(w) \subseteq Packs
         /\ jobs[w] \in PackChange \/ jobs[w] \in ModuleChange
         /\ jobs[w].status \in Statuses /\ JobOK(jobs[w], packFiles)
<1>1. jobs[w] \in PackChange \/ jobs[w] \in ModuleChange
  BY JobShapes DEF At, LibraryShape
<1>2. jobs[w].named \subseteq Packs /\ jobs[w].status \in Statuses
  BY <1>1 DEF PackChange, ModuleChange
<1> QED
  BY <1>1, <1>2 DEF Switched, At, LibraryShape, LibraryTypeOK, JobsOK

\* Tombstones are of built-in packs.
LEMMA ChangeBuiltinShape ==
  ASSUME LibraryShape, NEW w \in Workers, ChangeBuiltin(w)  PROVE LibraryShape'
<1>1. jobs[w].step = "builtin" /\ JobOK(jobs[w], packFiles) /\ jobs[w].status \in Statuses
  BY SwitchedTypes DEF ChangeBuiltin, At
<1>2. jobs[w].pack \in Builtins
  BY <1>1 DEF JobOK
<1>3. DOMAIN tombstones' \subseteq Builtins /\ \A p \in DOMAIN tombstones' : tombstones'[p] \in Off
  BY <1>1, <1>2 DEF With, Without, ChangeBuiltin, LibraryShape, LibraryTypeOK, Statuses
<1>4. off' \subseteq Packs
  BY SwitchedTypes DEF ChangeBuiltin
<1> QED BY <1>3, <1>4, WriteShape DEF ChangeBuiltin, End, LibraryShape, LibraryTypeOK

\* A manifest is changed where there is one.
LEMMA ChangeRuntimeShape ==
  ASSUME LibraryShape, NEW w \in Workers, ChangeRuntime(w)  PROVE LibraryShape'
<1>1. jobs[w].status \in Statuses
  BY SwitchedTypes DEF ChangeRuntime
<1>2. DOMAIN manifests' = DOMAIN manifests /\ \A p \in DOMAIN manifests' : manifests'[p] \in Statuses
  BY <1>1 DEF With, Without, ChangeRuntime, LibraryShape, LibraryTypeOK
<1>3. off' \subseteq Packs
  BY SwitchedTypes DEF ChangeRuntime
<1> QED BY <1>2, <1>3, WriteShape DEF ChangeRuntime, End, LibraryShape, LibraryTypeOK

\* A module's record is written.
LEMMA PutModuleTypes ==
  ASSUME LibraryTypeOK, NEW m \in Modules, NEW s \in Statuses, NEW S \in SUBSET Packs,
         modules' = With(modules, m, [status |-> s, packs |-> S])
  PROVE  /\ DOMAIN modules' \subseteq Modules
         /\ \A n \in DOMAIN modules' : modules'[n] \in [status : Statuses, packs : SUBSET Packs]
BY DEF With, Without, LibraryTypeOK

\* A record is written back.
LEMMA WriteModuleShape ==
  ASSUME LibraryShape, NEW w \in Workers, WriteModule(w)  PROVE LibraryShape'
<1>1. jobs[w] \in ModuleChange
  BY JobShapes DEF WriteModule, At, LibraryShape
<1>2. /\ DOMAIN modules' \subseteq Modules
      /\ \A n \in DOMAIN modules' : modules'[n] \in [status : Statuses, packs : SUBSET Packs]
  BY <1>1, PutModuleTypes DEF WriteModule, LibraryShape, ModuleChange
<1>3. off' \subseteq Packs
  BY SwitchedTypes DEF WriteModule
<1> QED BY <1>2, <1>3, WriteShape DEF WriteModule, End, LibraryShape, LibraryTypeOK

\* A module has its bundle.
LEMMA InstallModuleShape ==
  ASSUME LibraryShape, NEW w \in Workers, InstallModule(w)  PROVE LibraryShape'
<1>1. jobs[w] \in Installation
  BY JobShapes DEF InstallModule, At, LibraryShape
<1>2. /\ DOMAIN modules' \subseteq Modules
      /\ \A n \in DOMAIN modules' : modules'[n] \in [status : Statuses, packs : SUBSET Packs]
  BY <1>1, PutModuleTypes DEF InstallModule, LibraryShape, Installation
<1> QED BY <1>2, WriteShape DEF InstallModule, End, LibraryShape, LibraryTypeOK

\* A module that is removed has no record.
LEMMA RemoveModuleShape ==
  ASSUME LibraryShape, NEW w \in Workers, RemoveModule(w)  PROVE LibraryShape'
<1>1. PICK j \in Installation : Continue(w, j) /\ JobOK(j, packFiles) /\ j \in Job
  BY RemoveModuleJob
<1>2. /\ DOMAIN modules' \subseteq Modules
      /\ \A n \in DOMAIN modules' : modules'[n] \in [status : Statuses, packs : SUBSET Packs]
  BY DEF With, Without, RemoveModule, LibraryShape, LibraryTypeOK
<1> QED BY <1>1, <1>2, WriteShape, LibraryAssumption
        DEF RemoveModule, Continue, LibraryShape, LibraryTypeOK

\* A pack is written before its manifest.
LEMMA WritePackFileShape ==
  ASSUME LibraryShape, NEW w \in Workers, WritePackFile(w)  PROVE LibraryShape'
<1>1. PICK j \in Writing :
        Continue(w, j) /\ JobOK(j, packFiles') /\ j \in Job /\ jobs[w] \in Writing
  BY WritePackFileJob
<1>2. packFiles \subseteq packFiles' /\ packFiles' \subseteq Packs
  BY <1>1 DEF WritePackFile, LibraryShape, LibraryTypeOK, Writing
<1> QED BY <1>1, <1>2, WriteShape, LibraryAssumption
        DEF WritePackFile, Continue, LibraryShape, LibraryTypeOK

\* So a manifest has its pack.
LEMMA WriteManifestShape ==
  ASSUME LibraryShape, NEW w \in Workers, WriteManifest(w)  PROVE LibraryShape'
<1>1. /\ jobs[w] \in Writing /\ JobOK(jobs[w], packFiles) /\ jobs[w].step = "manifest"
      /\ Rest(jobs[w]) \in Job /\ JobOK(Rest(jobs[w]), packFiles)
  BY RestJob DEF WriteManifest, At
<1>2. jobs[w].pack \in packFiles /\ jobs[w].status \in Statuses
  BY <1>1 DEF JobOK, Writing
<1>3. /\ DOMAIN manifests' \subseteq packFiles'
      /\ \A p \in DOMAIN manifests' : manifests'[p] \in Statuses
  BY <1>2 DEF With, Without, WriteManifest, LibraryShape, LibraryTypeOK
<1>4. CASE jobs[w].files = {}
  BY <1>3, <1>4, WriteShape DEF WriteManifest, End, LibraryShape, LibraryTypeOK
<1>5. CASE jobs[w].files # {}
  BY <1>1, <1>3, <1>5, WriteShape, LibraryAssumption
     DEF WriteManifest, Continue, LibraryShape, LibraryTypeOK
<1> QED BY <1>4, <1>5

\* The files stay as they are.
LEMMA RestartShape ==
  ASSUME LibraryShape, RestartLibrary  PROVE LibraryShape'
BY DEF RestartLibrary, LibraryShape, LibraryTypeOK, JobsOK, storeVars

\* The store is empty at first.
LEMMA LibraryShapeInit == LibraryInit => LibraryShape
<1> SUFFICES ASSUME LibraryInit  PROVE LibraryShape
  OBVIOUS
<1>1. /\ DOMAIN manifests = {} /\ DOMAIN tombstones = {} /\ DOMAIN modules = {}
      /\ orders \in 0..MaxOrders
  BY LibraryAssumption DEF LibraryInit
<1> QED BY <1>1 DEF LibraryInit, LibraryShape, LibraryTypeOK, JobsOK

\* Every step keeps the types.
LEMMA LibraryShapeNext == LibraryShape /\ [LibraryNext]_libraryVars => LibraryShape'
<1> SUFFICES ASSUME LibraryShape, [LibraryNext]_libraryVars  PROVE LibraryShape'
  OBVIOUS
<1>1. CASE UNCHANGED libraryVars
  BY <1>1 DEF libraryVars, LibraryShape, LibraryTypeOK, JobsOK
<1>2. ASSUME NEW w \in Workers, NEW p \in Packs, NEW s \in Statuses, ChangePack(w, p, s)
      PROVE LibraryShape'
  BY <1>2, ChangePackJob, BeginShape DEF ChangePack, Enabling
<1>3. ASSUME NEW w \in Workers, NEW m \in Modules, NEW s \in Statuses, ChangeModule(w, m, s)
      PROVE LibraryShape'
  BY <1>3, ChangeModuleJob, BeginShape DEF ChangeModule, Enabling
<1>4. ASSUME NEW w \in Workers, ReadModule(w)  PROVE LibraryShape'
  <2>1. PICK m \in First(jobs[w].pack), j \in ModuleChange :
          /\ Take(w, j, alone) /\ JobOK(j, packFiles) /\ j \in Job
          /\ off' = Enabling(modules[m].packs, j.status)
    BY <1>4, ReadModuleJob
  <2>2. jobs' = [jobs EXCEPT ![w] = j] /\ alone' \subseteq alone /\ off' \subseteq off
    BY <2>1 DEF Take, Enabling
  <2> QED BY <1>4, <2>1, <2>2, ContinueShape, LibraryAssumption DEF ReadModule
<1>5. ASSUME NEW w \in Workers, NEW j \in Job, Continue(w, j), JobOK(j, packFiles),
              UNCHANGED <<storeVars, off>>
       PROVE  LibraryShape'
  BY <1>5, ContinueShape, LibraryAssumption DEF Continue
<1>6. ASSUME NEW w \in Workers, ModuleIsGone(w)  PROVE LibraryShape'
  BY <1>6, <1>5, ModuleIsGoneJob DEF ModuleIsGone
<1>7. ASSUME NEW w \in Workers, NEW p \in Packs, Create(w, p)  PROVE LibraryShape'
  BY <1>7, CreateJob, BeginShape DEF Create
<1>8. ASSUME NEW w \in Workers, NEW p \in Packs, Fetch(w, p)  PROVE LibraryShape'
  BY <1>8, <1>5, FetchJob DEF Fetch
<1>9. ASSUME NEW w \in Workers, NEW p \in Packs, Skip(w, p)  PROVE LibraryShape'
  BY <1>9, <1>5, SkipJob DEF Skip
<1>10. ASSUME NEW w \in Workers, Sync(w)  PROVE LibraryShape'
  BY <1>10, SyncJob, BeginShape DEF Sync
<1>11. ASSUME NEW w \in Workers, WriteFails(w)  PROVE LibraryShape'
  <2>1. Rest(jobs[w]) \in Job /\ JobOK(Rest(jobs[w]), packFiles)
    BY <1>11, RestJob DEF WriteFails
  <2> QED BY <1>11, <1>5, <2>1 DEF WriteFails
<1>12. ASSUME NEW w \in Workers, SyncEnds(w)  PROVE LibraryShape'
  BY <1>12, ContinueShape DEF SyncEnds, End
<1>13. ASSUME NEW w \in Workers, NEW m \in Modules, NEW b \in SUBSET Packs, Import(w, m, b)
       PROVE LibraryShape'
  BY <1>13, ImportJob, BeginShape DEF Import
<1>14. ASSUME NEW w \in Workers, Fail(w)  PROVE LibraryShape'
  BY <1>14, ContinueShape DEF Fail, End
<1> QED
  BY <1>1, <1>2, <1>3, <1>4, <1>5, <1>6, <1>7, <1>8, <1>9, <1>10, <1>11, <1>12, <1>13, <1>14,
     ChangeBuiltinShape, ChangeRuntimeShape, WriteModuleShape, InstallModuleShape,
     RemoveModuleShape, WritePackFileShape, WriteManifestShape, RestartShape
  DEF LibraryNext

\* A request that met no other concerns nothing any other does.
Apart(i, j) == i.packs \cap j.packs = {} /\ i.mods \cap j.mods = {}
AloneOK ==
    \A w \in alone : \A v \in Workers :
        v # w /\ jobs[v] # Nothing => Apart(jobs[v], jobs[w])

\* Who takes up a job that meets another is alone no more, nor is the other.
LEMMA TakeAlone ==
  ASSUME LibraryShape, AloneOK, NEW w \in Workers, NEW j \in Job, NEW before,
         Take(w, j, before), before \subseteq alone \cup {w}
  PROVE  AloneOK' /\ alone' \subseteq alone \cup {w}
<1>1. \A v \in Workers : jobs'[v] = IF v = w THEN j ELSE jobs[v]
  BY DEF Take, LibraryShape, LibraryTypeOK
<1>2. \A v \in alone : v \in Workers /\ jobs[v] # Nothing
  BY DEF LibraryShape, LibraryTypeOK
<1>3. \A v \in Workers : v # w /\ jobs[v] # Nothing /\ v \notin Meets(w, j) =>
        Apart(jobs[v], j) /\ Apart(j, jobs[v])
  BY DEF Meets, Apart
<1>4. alone' \subseteq before /\ alone' \cap Meets(w, j) = {}
  BY DEF Take
<1>5. w \in alone' => Meets(w, j) = {}
  BY DEF Take
<1>6. ASSUME NEW a \in alone', NEW v \in Workers, v # a, jobs'[v] # Nothing
      PROVE  Apart(jobs'[v], jobs'[a])
  <2>1. a \in alone \cup {w} /\ a \in Workers
    BY <1>2, <1>4, <1>6
  <2>2. CASE a = w
    BY <1>1, <1>3, <1>5, <1>6, <2>2
  <2>3. CASE a # w /\ v = w
    BY <1>1, <1>2, <1>3, <1>4, <1>6, <2>1, <2>3
  <2>4. CASE a # w /\ v # w
    BY <1>1, <1>6, <2>1, <2>4 DEF AloneOK
  <2> QED BY <2>2, <2>3, <2>4
<1> QED BY <1>4, <1>6 DEF AloneOK

\* A job about the same packs and modules meets nobody new.
LEMMA SameConcernsAlone ==
  ASSUME LibraryShape, AloneOK, NEW w \in Workers, NEW j \in Job \cup {Nothing},
         jobs' = [jobs EXCEPT ![w] = j], alone' \subseteq alone,
         j = Nothing => w \notin alone',
         j # Nothing => j.packs = jobs[w].packs /\ j.mods = jobs[w].mods /\ jobs[w] # Nothing
  PROVE  AloneOK'
<1>1. \A v \in Workers : jobs'[v] = IF v = w THEN j ELSE jobs[v]
  BY DEF LibraryShape, LibraryTypeOK
<1>2. \A v \in alone : v \in Workers
  BY DEF LibraryShape, LibraryTypeOK
<1>3. ASSUME NEW a \in alone', NEW v \in Workers, v # a, jobs'[v] # Nothing
      PROVE  Apart(jobs'[v], jobs'[a])
  <2>1. Apart(jobs[v], jobs[a])
    BY <1>1, <1>2, <1>3 DEF AloneOK
  <2> QED BY <1>1, <1>2, <1>3, <2>1 DEF Apart
<1> QED BY <1>3 DEF AloneOK

\* What a request that met no other saw is still so.
Seen(w) ==
    /\ At(w, "builtin") => /\ jobs[w].pack \notin DOMAIN manifests
                           /\ \A n \in Modules : jobs[w].pack \notin HeldBy(n)
    /\ At(w, "module") => jobs[w].pack \notin DOMAIN manifests
    /\ At(w, "set") =>
         \A q \in jobs[w].named :
           /\ q \notin DOMAIN manifests
           /\ q \in jobs[w].brings
           /\ \A n \in Modules : Place[n] < Place[jobs[w].module] => q \notin HeldBy(n)
SeenOK == \A w \in alone : Seen(w)

\* A request at work does not undo what an operator switched off.
Respects(j, O) ==
    /\ j.step \in {"builtin", "runtime", "module", "set"} /\ j.status = "active" =>
         O \cap j.packs = {}
    /\ j.step \in {"write", "manifest"} /\ j.pack \in O => j.status \in Off
    /\ j.step \in {"fetch", "write", "manifest"} =>
         \A q \in j.files \cap O : q \in DOMAIN j.existing /\ j.existing[q] \in Off
RespectsOK == \A w \in Workers : jobs[w] # Nothing => Respects(jobs[w], off)

\* A pack is off where its status is: in its manifest, in the first module that
\* has it or is about to, which then is never without it, or in a tombstone.
OnModule(w, m) ==
    /\ At(w, "set") \/ At(w, "remove") \/ At(w, "install")
    /\ jobs[w].module = m
Unheld(n, q) ==
    /\ q \notin HeldBy(n)
    /\ \A w \in Workers : OnModule(w, n) => q \notin jobs[w].brings
KeptOffBy(m, q) ==
    /\ m \in DOMAIN modules => q \in modules[m].packs /\ modules[m].status \in Off
    /\ m \notin DOMAIN modules =>
         \E w \in Workers : At(w, "install") /\ jobs[w].module = m
    /\ \A w \in Workers : OnModule(w, m) => q \in jobs[w].brings /\ jobs[w].status \in Off
    /\ \A n \in Modules : Place[n] < Place[m] => Unheld(n, q)
KeptOffBuiltin(q) ==
    /\ q \in DOMAIN tombstones
    /\ \A n \in Modules : Unheld(n, q)
KeptOff(q) ==
    IF q \in DOMAIN manifests THEN manifests[q] \in Off
    ELSE KeptOffBuiltin(q) \/ \E m \in Modules : KeptOffBy(m, q)
OffOK == \A q \in off : KeptOff(q)

\* Together they are kept by every step.
LibraryInv ==
    /\ LibraryShape
    /\ AloneOK
    /\ SeenOK
    /\ RespectsOK
    /\ OffOK

\* A pack that is off is seen to be off, unless its module is written again.
LEMMA OffIsOff ==
  ASSUME LibraryShape, NEW q \in off, KeptOff(q), q \notin Rewritten(Modules)
  PROVE  q \in Known /\ Status(q) \in Off
<1>1. CASE q \in DOMAIN manifests
  BY <1>1 DEF KeptOff, Known, Status, Kind
<1>2. CASE q \notin DOMAIN manifests /\ KeptOffBuiltin(q)
  <2>1. Holders(q) = {}
    BY <1>2 DEF KeptOffBuiltin, Unheld, HeldBy, Holders, LibraryShape, LibraryTypeOK
  <2>2. Kind(q) = "builtin" /\ q \in DOMAIN tombstones
    BY <1>2, <2>1 DEF Kind, KeptOffBuiltin
  <2> QED BY <2>2 DEF Status, Known, LibraryShape, LibraryTypeOK
<1>3. ASSUME q \notin DOMAIN manifests, NEW m \in Modules, KeptOffBy(m, q)
      PROVE  q \in Known /\ Status(q) \in Off
  <2>1. m \in DOMAIN modules
    <3>1. SUFFICES ASSUME NEW w \in Workers, At(w, "install"), jobs[w].module = m
                   PROVE  q \in Rewritten(Modules)
      BY <1>3 DEF KeptOffBy
    <3>2. q \in jobs[w].brings
      BY <1>3, <3>1 DEF KeptOffBy, OnModule
    <3>3. q \in jobs[w].packs
      BY <3>1, <3>2 DEF At, LibraryShape, JobsOK, JobOK
    <3> QED BY <3>1, <3>3 DEF Rewritten
  <2>2. m \in Holders(q) /\ modules[m].status \in Off
    BY <1>3, <2>1 DEF KeptOffBy, Holders
  <2>3. \A n \in Holders(q) : n \in Modules /\ ~(Place[n] < Place[m])
    BY <1>3 DEF Holders, KeptOffBy, Unheld, HeldBy, LibraryShape, LibraryTypeOK
  <2>4. m \in First(q)
    BY <2>2, <2>3, LibraryAssumption DEF First
  <2>5. First(q) = {m}
    BY <2>2, <2>4, FirstExists DEF LibraryShape
  <2>6. Kind(q) = "module"
    BY <1>3, <2>2 DEF Kind
  <2>7. q \in Packs
    BY DEF LibraryShape, LibraryTypeOK
  <2> QED BY <2>2, <2>5, <2>6, <2>7 DEF Status, Known
<1> QED BY <1>1, <1>2, <1>3 DEF KeptOff

\* A pack that is off is in no use, unless its module is written again.
LEMMA LibraryInvKeepsOff == LibraryInv => SwitchedOffStaysOff
BY OffIsOff DEF LibraryInv, OffOK, SwitchedOffStaysOff, Usable, Off

\* Every step keeps who is alone.
LEMMA AloneNext == LibraryShape /\ AloneOK /\ [LibraryNext]_libraryVars => AloneOK'
<1> SUFFICES ASSUME LibraryShape, AloneOK, [LibraryNext]_libraryVars  PROVE AloneOK'
  OBVIOUS
<1>1. CASE UNCHANGED libraryVars
  BY <1>1 DEF libraryVars, AloneOK
<1>2. ASSUME NEW w \in Workers, NEW j \in Job, Begin(w, j)  PROVE AloneOK'
  BY <1>2, TakeAlone DEF Begin
<1>3. ASSUME NEW w \in Workers, NEW j \in Job, Continue(w, j), jobs[w] # Nothing,
             j.packs = jobs[w].packs, j.mods = jobs[w].mods
      PROVE  AloneOK'
  BY <1>3, SameConcernsAlone, LibraryAssumption DEF Continue
<1>4. ASSUME NEW w \in Workers, End(w)  PROVE AloneOK'
  BY <1>4, SameConcernsAlone DEF End
<1>5. ASSUME NEW w \in Workers, ReadModule(w)  PROVE AloneOK'
  BY <1>5, ReadModuleJob, TakeAlone
<1>6. ASSUME NEW w \in Workers, ModuleIsGone(w)  PROVE AloneOK'
  <2>1. jobs[w] \in PackChange /\ jobs[w] # Nothing
    BY <1>6, JobShapes DEF ModuleIsGone, At, LibraryShape
  <2> QED BY <1>3, <1>6, <2>1, ModuleIsGoneJob DEF PackChange
<1>7. ASSUME NEW w \in Workers, NEW p \in Packs, Fetch(w, p)  PROVE AloneOK'
  BY <1>3, <1>7, FetchJob DEF Fetch, At
<1>8. ASSUME NEW w \in Workers, NEW p \in Packs, Skip(w, p)  PROVE AloneOK'
  BY <1>3, <1>8, SkipJob DEF Skip, At, Fetching
<1>9. ASSUME NEW w \in Workers, WritePackFile(w)  PROVE AloneOK'
  BY <1>3, <1>9, WritePackFileJob DEF WritePackFile, At, Writing
<1>10. ASSUME NEW w \in Workers, RemoveModule(w)  PROVE AloneOK'
  BY <1>3, <1>10, RemoveModuleJob DEF RemoveModule, At, Installation
<1>11. ASSUME NEW w \in Workers, WriteManifest(w) \/ WriteFails(w)  PROVE AloneOK'
  <2>1. At(w, "write") \/ At(w, "manifest")
    BY <1>11 DEF WriteManifest, WriteFails
  <2>2. End(w) \/ Continue(w, Rest(jobs[w]))
    BY <1>11 DEF WriteManifest, WriteFails
  <2> QED BY <1>3, <1>4, <2>1, <2>2, RestJob DEF At, Rest
<1>12. CASE RestartLibrary
  BY <1>12 DEF RestartLibrary, AloneOK
<1>13. ASSUME NEW w \in Workers, NEW p \in Packs, NEW s \in Statuses, ChangePack(w, p, s)
       PROVE AloneOK'
  BY <1>2, <1>13, ChangePackJob
<1>14. ASSUME NEW w \in Workers, NEW m \in Modules, NEW s \in Statuses, ChangeModule(w, m, s)
       PROVE AloneOK'
  BY <1>2, <1>14, ChangeModuleJob
<1>15. ASSUME NEW w \in Workers, NEW p \in Packs, Create(w, p)  PROVE AloneOK'
  BY <1>2, <1>15, CreateJob
<1>16. ASSUME NEW w \in Workers, Sync(w)  PROVE AloneOK'
  BY <1>2, <1>16, SyncJob
<1>17. ASSUME NEW w \in Workers, NEW m \in Modules, NEW b \in SUBSET Packs, Import(w, m, b)
       PROVE AloneOK'
  BY <1>2, <1>17, ImportJob
<1>18. ASSUME NEW w \in Workers,
              \/ ChangeBuiltin(w) \/ ChangeRuntime(w) \/ WriteModule(w)
              \/ InstallModule(w) \/ SyncEnds(w) \/ Fail(w)
       PROVE AloneOK'
  BY <1>4, <1>18 DEF ChangeBuiltin, ChangeRuntime, WriteModule, InstallModule, SyncEnds, Fail
<1> QED
  BY <1>1, <1>5, <1>6, <1>7, <1>8, <1>9, <1>10, <1>11, <1>12, <1>13, <1>14, <1>15, <1>16,
     <1>17, <1>18
  DEF LibraryNext

\* What another request writes is not what a request alone has seen.
LEMMA SeenNextStep ==
  ASSUME LibraryShape, AloneOK, SeenOK, NEW w \in Workers, NEW j \in Job \cup {Nothing},
         jobs' = [jobs EXCEPT ![w] = j], alone' \subseteq alone \cup {w},
         \A q : q \in DOMAIN manifests' =>
           q \in DOMAIN manifests \/ (jobs[w] # Nothing /\ q \in jobs[w].packs),
         \A q : \A n \in Modules : q \in HeldBy(n)' =>
           q \in HeldBy(n) \/ (jobs[w] # Nothing /\ q \in jobs[w].packs),
         w \in alone' => Seen(w)'
  PROVE  SeenOK'
<1> SUFFICES ASSUME NEW a \in alone', a # w  PROVE Seen(a)'
  BY DEF SeenOK
<1>1. a \in alone /\ a \in Workers /\ jobs[a] # Nothing /\ Seen(a)
  BY DEF LibraryShape, LibraryTypeOK, SeenOK
<1>2. jobs'[a] = jobs[a]
  BY <1>1 DEF LibraryShape, LibraryTypeOK
<1>3. jobs[w] # Nothing => Apart(jobs[w], jobs[a])
  BY <1>1 DEF AloneOK
<1>4. \A q \in jobs[a].packs :
        /\ q \in DOMAIN manifests' => q \in DOMAIN manifests
        /\ \A n \in Modules : q \in HeldBy(n)' => q \in HeldBy(n)
  BY <1>3 DEF Apart
<1>5. JobOK(jobs[a], packFiles)
  BY <1>1 DEF LibraryShape, JobsOK
<1>6. At(a, "builtin") \/ At(a, "module") => jobs[a].pack \in jobs[a].packs
  BY <1>5 DEF JobOK, At
<1>7. At(a, "set") => jobs[a].named \subseteq jobs[a].packs
  BY <1>5 DEF JobOK, At
<1> QED BY <1>1, <1>2, <1>4, <1>6, <1>7 DEF Seen, At

\* Every step keeps what a request alone has seen.
LEMMA SeenNext ==
  LibraryShape /\ AloneOK /\ SeenOK /\ [LibraryNext]_libraryVars => SeenOK'
<1> SUFFICES ASSUME LibraryShape, AloneOK, SeenOK, [LibraryNext]_libraryVars  PROVE SeenOK'
  OBVIOUS
<1>1. CASE UNCHANGED libraryVars
  BY <1>1 DEF libraryVars, SeenOK, Seen, At, HeldBy
<1>2. ASSUME NEW w \in Workers, NEW j \in Job, Begin(w, j), UNCHANGED storeVars,
             w \in alone' => Seen(w)'
      PROVE  SeenOK'
  <2>1. jobs' = [jobs EXCEPT ![w] = j] /\ alone' \subseteq alone \cup {w}
    BY <1>2 DEF Begin, Take
  <2> QED BY <1>2, <2>1, SeenNextStep DEF storeVars, HeldBy
<1>3. ASSUME NEW w \in Workers, NEW j \in Job, jobs' = [jobs EXCEPT ![w] = j]
      PROVE  /\ jobs'[w] = j /\ j # Nothing
             /\ j.step \notin {"builtin", "module", "set"} => Seen(w)'
  BY <1>3, LibraryAssumption DEF Seen, At, LibraryShape, LibraryTypeOK
<1>4. ASSUME NEW w \in Workers, NEW j \in Job, Continue(w, j),
             j.step \notin {"builtin", "module", "set"}, UNCHANGED <<manifests, modules>>
      PROVE  SeenOK'
  BY <1>3, <1>4, SeenNextStep DEF Continue, HeldBy
<1>5. ASSUME NEW w \in Workers, End(w), UNCHANGED modules, DOMAIN manifests' = DOMAIN manifests
      PROVE SeenOK'
  BY <1>5, SeenNextStep DEF End, HeldBy
<1>6. ASSUME NEW w \in Workers, NEW p \in Packs, NEW s \in Statuses, ChangePack(w, p, s)
      PROVE SeenOK'
  <2>1. PICK j \in Job : /\ Begin(w, j) /\ j \in PackChange
                         /\ j.step = Kind(p) /\ j.pack = p
    BY <1>6, ChangePackJob
  <2>2. jobs'[w] = j /\ UNCHANGED storeVars
    BY <1>3, <1>6, <2>1 DEF Begin, Take, ChangePack
  <2>3. Kind(p) = "builtin" => p \notin DOMAIN manifests /\ Holders(p) = {}
    BY DEF Kind
  <2>4. Kind(p) = "module" => p \notin DOMAIN manifests
    BY DEF Kind
  <2>5. Holders(p) = {} => \A n \in Modules : p \notin HeldBy(n)
    BY DEF Holders, HeldBy
  <2>6. \A n \in Modules : HeldBy(n)' = HeldBy(n)
    BY <2>2 DEF storeVars, HeldBy
  <2>7. j.step \in {"builtin", "runtime", "module"}
    BY <2>1 DEF PackChange
  <2>8. Seen(w)'
    BY <2>1, <2>2, <2>3, <2>4, <2>5, <2>6, <2>7 DEF Seen, At, storeVars
  <2> QED BY <1>2, <2>1, <2>2, <2>8
<1>7. ASSUME NEW w \in Workers, NEW m \in Modules, NEW s \in Statuses, ChangeModule(w, m, s)
      PROVE SeenOK'
  <2>1. PICK j \in Job :
          /\ Begin(w, j) /\ j.step = "set" /\ j.module = m /\ j.brings = modules[m].packs
          /\ j.named = {p \in modules[m].packs : m \in Deciding(p)}
    BY <1>7, ChangeModuleJob
  <2>2. jobs'[w] = j /\ UNCHANGED storeVars
    BY <1>3, <1>7, <2>1 DEF Begin, Take, ChangeModule
  <2>3. \A p \in j.named : /\ p \in j.brings /\ Kind(p) = "module" /\ m \in First(p)
    BY <2>1 DEF Deciding
  <2>4. \A p \in j.named : p \notin DOMAIN manifests
    BY <2>3 DEF Kind
  <2>5. \A p \in j.named : \A n \in Modules : Place[n] < Place[m] => p \notin HeldBy(n)
    BY <2>3, LibraryAssumption DEF First, Holders, HeldBy
  <2>6. Seen(w)'
    BY <2>1, <2>2, <2>3, <2>4, <2>5 DEF Seen, At, storeVars, HeldBy
  <2> QED BY <1>2, <2>1, <2>2, <2>6
<1>8. ASSUME NEW w \in Workers, ReadModule(w)  PROVE SeenOK'
  <2>1. PICK m \in First(jobs[w].pack), j \in Job :
          /\ Take(w, j, alone) /\ j.step = "set" /\ j.module = m
          /\ j.brings = modules[m].packs /\ j.named = jobs[w].named
    BY <1>8, ReadModuleJob
  <2>2. jobs'[w] = j /\ UNCHANGED storeVars /\ alone' \subseteq alone
    BY <1>3, <1>8, <2>1 DEF Take, ReadModule
  <2>3. jobs[w].named = {jobs[w].pack} /\ At(w, "module")
    BY <1>8 DEF ReadModule, At, LibraryShape, JobsOK, JobOK
  <2>4. w \in alone' => jobs[w].pack \notin DOMAIN manifests
    BY <2>2, <2>3 DEF SeenOK, Seen
  <2>5. m \in Modules /\ m \in Holders(jobs[w].pack)
    BY DEF First, Holders, LibraryShape, LibraryTypeOK
  <2>6. \A n \in Modules : Place[n] < Place[m] => jobs[w].pack \notin HeldBy(n)
    BY <2>5, LibraryAssumption DEF First, Holders, HeldBy
  <2>7. w \in alone' => Seen(w)'
    BY <2>1, <2>2, <2>3, <2>4, <2>5, <2>6 DEF Seen, At, storeVars, HeldBy, Holders
  <2> QED BY <2>1, <2>2, <2>7, SeenNextStep DEF Take, storeVars, HeldBy
<1>9. ASSUME NEW w \in Workers, NEW m \in Modules, NEW s \in Statuses,
             jobs[w] # Nothing, jobs[w].module = m, jobs[w].brings \subseteq jobs[w].packs,
             modules' = With(modules, m, [status |-> s, packs |-> jobs[w].brings]),
             End(w), UNCHANGED manifests
      PROVE  SeenOK'
  <2>1. \A q : \A n \in Modules : q \in HeldBy(n)' => q \in HeldBy(n) \/ q \in jobs[w].packs
    BY <1>9 DEF HeldBy, With
  <2> QED BY <1>9, <2>1, SeenNextStep DEF End
<1>10. ASSUME NEW w \in Workers, WriteModule(w) \/ InstallModule(w)  PROVE SeenOK'
  <2>1. /\ jobs[w] # Nothing /\ jobs[w].brings \subseteq jobs[w].packs
        /\ jobs[w] \in ModuleChange \/ jobs[w] \in Installation
    BY <1>10, JobShapes DEF WriteModule, InstallModule, At, LibraryShape, JobsOK, JobOK
  <2>2. jobs[w].module \in Modules /\ jobs[w].status \in Statuses
    BY <2>1 DEF ModuleChange, Installation
  <2> QED BY <1>9, <1>10, <2>1, <2>2 DEF WriteModule, InstallModule
<1>11. ASSUME NEW w \in Workers, RemoveModule(w)  PROVE SeenOK'
  <2>1. PICK j \in Job : Continue(w, j) /\ j.step = "install"
    BY <1>11, RemoveModuleJob DEF Installation
  <2>2. \A q : \A n \in Modules : q \in HeldBy(n)' => q \in HeldBy(n)
    BY <1>11 DEF RemoveModule, Without, HeldBy
  <2> QED BY <1>3, <1>11, <2>1, <2>2, SeenNextStep DEF Continue, RemoveModule
<1>12. ASSUME NEW w \in Workers, WriteManifest(w)  PROVE SeenOK'
  <2>1. /\ jobs[w] # Nothing /\ Rest(jobs[w]) \in Job /\ Rest(jobs[w]).step = "fetch"
        /\ jobs[w].pack \in jobs[w].packs
    BY <1>12, RestJob DEF WriteManifest, At, Rest, JobOK
  <2>2. \A q : q \in DOMAIN manifests' => q \in DOMAIN manifests \/ q \in jobs[w].packs
    BY <1>12, <2>1 DEF WriteManifest, With
  <2>3. \A q : \A n \in Modules : q \in HeldBy(n)' => q \in HeldBy(n)
    BY <1>12 DEF WriteManifest, HeldBy
  <2>4. CASE End(w)
    BY <2>1, <2>2, <2>3, <2>4, SeenNextStep DEF End
  <2>5. CASE Continue(w, Rest(jobs[w]))
    BY <1>3, <2>1, <2>2, <2>3, <2>5, SeenNextStep DEF Continue
  <2> QED BY <1>12, <2>4, <2>5 DEF WriteManifest
<1>13. ASSUME NEW w \in Workers, WriteFails(w)  PROVE SeenOK'
  BY <1>4, <1>13, RestJob DEF WriteFails, Rest, storeVars
<1>14. CASE RestartLibrary
  BY <1>14 DEF RestartLibrary, SeenOK
<1>15. ASSUME NEW w \in Workers, ModuleIsGone(w)  PROVE SeenOK'
  <2>1. PICK j \in Job : Continue(w, j) /\ j.step = "runtime"
    <3>1. jobs[w] \in PackChange
      BY <1>15, JobShapes DEF ModuleIsGone, At, LibraryShape
    <3> QED BY <1>15, <3>1, ModuleIsGoneJob DEF PackChange
  <2> QED BY <1>4, <1>15, <2>1 DEF ModuleIsGone, storeVars
<1>16. ASSUME NEW w \in Workers, NEW p \in Packs, Create(w, p)  PROVE SeenOK'
  <2>1. PICK j \in Job : Begin(w, j) /\ j.step = "write"
    BY <1>16, CreateJob
  <2> QED BY <1>2, <1>3, <1>16, <2>1 DEF Create, Begin, Take
<1>17. ASSUME NEW w \in Workers, Sync(w)  PROVE SeenOK'
  <2>1. PICK j \in Job : Begin(w, j) /\ j.step = "fetch"
    BY <1>17, SyncJob
  <2> QED BY <1>2, <1>3, <1>17, <2>1 DEF Sync, Begin, Take
<1>18. ASSUME NEW w \in Workers, NEW m \in Modules, NEW b \in SUBSET Packs, Import(w, m, b)
       PROVE SeenOK'
  <2>1. PICK j \in Job : Begin(w, j) /\ j.step = "remove"
    BY <1>18, ImportJob
  <2> QED BY <1>2, <1>3, <1>18, <2>1 DEF Import, Begin, Take
<1>19. ASSUME NEW w \in Workers, NEW p \in Packs, Fetch(w, p) \/ Skip(w, p)  PROVE SeenOK'
  <2>1. PICK j \in Job : Continue(w, j) /\ j.step \in {"write", "fetch"}
    BY <1>19, FetchJob, SkipJob DEF Fetching
  <2> QED BY <1>4, <1>19, <2>1 DEF Fetch, Skip, storeVars
<1>20. ASSUME NEW w \in Workers, WritePackFile(w)  PROVE SeenOK'
  <2>1. PICK j \in Job : Continue(w, j) /\ j.step = "manifest"
    BY <1>20, WritePackFileJob DEF Writing
  <2> QED BY <1>4, <1>20, <2>1 DEF WritePackFile
<1>21. ASSUME NEW w \in Workers, ChangeRuntime(w)  PROVE SeenOK'
  <2>1. DOMAIN manifests' = DOMAIN manifests
    BY <1>21 DEF ChangeRuntime, With
  <2> QED BY <1>5, <1>21, <2>1 DEF ChangeRuntime
<1> QED
  BY <1>1, <1>5, <1>6, <1>7, <1>8, <1>10, <1>11, <1>12, <1>13, <1>14, <1>15, <1>16,
     <1>17, <1>18, <1>19, <1>20, <1>21
  DEF LibraryNext, ChangeBuiltin, SyncEnds, Fail, storeVars

\* What a request wants to write concerns only its packs.
LEMMA RespectsLess ==
  ASSUME NEW j, NEW F, JobOK(j, F), NEW O, NEW P, Respects(j, O),
         P \cap j.packs \subseteq O
  PROVE  Respects(j, P)
BY DEF Respects, JobOK

\* The others respect what is off if it is no more of theirs than it was.
LEMMA RespectsNextStep ==
  ASSUME LibraryShape, RespectsOK, NEW w \in Workers, NEW j \in Job \cup {Nothing},
         jobs' = [jobs EXCEPT ![w] = j], j # Nothing => Respects(j, off'),
         \A v \in Workers : v # w /\ jobs[v] # Nothing => off' \cap jobs[v].packs \subseteq off
  PROVE  RespectsOK'
<1> SUFFICES ASSUME NEW v \in Workers, v # w, jobs'[v] # Nothing
             PROVE  Respects(jobs'[v], off')
  BY DEF RespectsOK, LibraryShape, LibraryTypeOK
<1>1. jobs'[v] = jobs[v]
  BY DEF LibraryShape, LibraryTypeOK
<1>2. JobOK(jobs[v], packFiles) /\ Respects(jobs[v], off)
  BY <1>1 DEF LibraryShape, JobsOK, RespectsOK
<1> QED BY <1>1, <1>2, RespectsLess

\* What a request alone switches off concerns no other.
LEMMA SwitchedApart ==
  ASSUME LibraryShape, AloneOK, NEW w \in Workers,
         At(w, "builtin") \/ At(w, "runtime") \/ At(w, "set")
  PROVE  \A v \in Workers : v # w /\ jobs[v] # Nothing =>
           Switched(w) \cap jobs[v].packs \subseteq off
<1>1. jobs[w].named \subseteq jobs[w].packs
  BY DEF At, LibraryShape, JobsOK, JobOK
<1> QED BY <1>1 DEF Switched, AloneOK, Apart

\* Every step respects what is off.
LEMMA RespectsNext == LibraryInv /\ [LibraryNext]_libraryVars => RespectsOK'
<1> SUFFICES ASSUME LibraryInv, [LibraryNext]_libraryVars  PROVE RespectsOK'
  OBVIOUS
<1> USE DEF LibraryInv
<1>1. CASE UNCHANGED libraryVars
  BY <1>1 DEF libraryVars, RespectsOK
<1>2. ASSUME NEW w \in Workers, NEW j \in Job, jobs' = [jobs EXCEPT ![w] = j],
             Respects(j, off'), off' \subseteq off
      PROVE  RespectsOK'
  BY <1>2, RespectsNextStep
<1>3. ASSUME NEW w \in Workers, End(w),
             \A v \in Workers : v # w /\ jobs[v] # Nothing => off' \cap jobs[v].packs \subseteq off
      PROVE  RespectsOK'
  BY <1>3, RespectsNextStep DEF End
<1>4. ASSUME NEW w \in Workers, NEW p \in Packs, NEW s \in Statuses, ChangePack(w, p, s)
      PROVE RespectsOK'
  <2>1. PICK j \in Job : /\ Begin(w, j) /\ j \in PackChange
                         /\ j.packs = Siblings(p) /\ j.status = s
    BY <1>4, ChangePackJob
  <2>2. off' = Enabling(Siblings(p), s)
    BY <1>4 DEF ChangePack
  <2>3. Respects(j, off')
    BY <2>1, <2>2 DEF Respects, Enabling, PackChange
  <2> QED BY <1>2, <2>1, <2>2, <2>3 DEF Begin, Take, Enabling
<1>5. ASSUME NEW w \in Workers, NEW m \in Modules, NEW s \in Statuses, ChangeModule(w, m, s)
      PROVE RespectsOK'
  <2>1. PICK j \in Job : /\ Begin(w, j) /\ j.step = "set"
                         /\ j.packs = modules[m].packs /\ j.status = s
    BY <1>5, ChangeModuleJob
  <2>2. off' = Enabling(modules[m].packs, s)
    BY <1>5 DEF ChangeModule
  <2>3. Respects(j, off')
    BY <2>1, <2>2 DEF Respects, Enabling
  <2> QED BY <1>2, <2>1, <2>2, <2>3 DEF Begin, Take, Enabling
<1>6. ASSUME NEW w \in Workers, ReadModule(w)  PROVE RespectsOK'
  <2>1. PICK m \in First(jobs[w].pack), j \in Job :
          /\ Take(w, j, alone) /\ j.step = "set"
          /\ j.packs = jobs[w].packs \cup modules[m].packs /\ j.status = jobs[w].status
          /\ off' = Enabling(modules[m].packs, j.status)
    BY <1>6, ReadModuleJob
  <2>2. jobs[w].status = "active" => off \cap jobs[w].packs = {}
    BY <1>6 DEF ReadModule, At, RespectsOK, Respects
  <2>3. Respects(j, off')
    BY <2>1, <2>2 DEF Respects, Enabling
  <2> QED BY <1>2, <2>1, <2>3 DEF Take, Enabling
<1>7. ASSUME NEW w \in Workers, ModuleIsGone(w)  PROVE RespectsOK'
  <2>1. jobs[w] \in PackChange /\ jobs[w].step = "module" /\ Respects(jobs[w], off)
    BY <1>7, JobShapes DEF ModuleIsGone, At, LibraryShape, RespectsOK
  <2>2. PICK j \in Job : Continue(w, j) /\ j = [jobs[w] EXCEPT !.step = "runtime"]
    BY <1>7, ModuleIsGoneJob
  <2>3. Respects(j, off')
    BY <1>7, <2>1, <2>2 DEF ModuleIsGone, Respects, PackChange
  <2> QED BY <1>2, <1>7, <2>2, <2>3 DEF ModuleIsGone, Continue
<1>8. ASSUME NEW w \in Workers, NEW p \in Packs, Create(w, p)  PROVE RespectsOK'
  <2>1. PICK j \in Job : /\ Begin(w, j) /\ j.step = "write" /\ j.files = {} /\ j.pack = p
    BY <1>8, CreateJob
  <2>2. Respects(j, off') /\ off' \subseteq off
    BY <1>8, <2>1 DEF Create, Respects
  <2> QED BY <1>2, <2>1, <2>2 DEF Begin, Take
<1>9. ASSUME NEW w \in Workers, Sync(w)  PROVE RespectsOK'
  <2>1. PICK j \in Job : /\ Begin(w, j) /\ j.step = "fetch" /\ j.existing = Listing
    BY <1>9, SyncJob
  <2>2. off' = off \ Rewritten(Modules)
    BY <1>9 DEF Sync
  <2>3. \A q \in off' : q \in Known /\ Status(q) \in Off
    BY <2>2, OffIsOff DEF OffOK
  <2>4. \A q \in off' : q \in DOMAIN Listing /\ Listing[q] \in Off
    BY <2>3 DEF Listing
  <2>5. Respects(j, off')
    BY <2>1, <2>4 DEF Respects
  <2> QED BY <1>2, <2>1, <2>2, <2>5 DEF Begin, Take
<1>10. ASSUME NEW w \in Workers, NEW p \in Packs, Fetch(w, p)  PROVE RespectsOK'
  <2>1. PICK j \in Job :
          /\ Continue(w, j) /\ jobs[w] \in Fetching /\ p \in jobs[w].files
          /\ j = [step |-> "write", packs |-> jobs[w].packs, mods |-> jobs[w].mods,
                   files |-> jobs[w].files \ {p}, existing |-> jobs[w].existing,
                   pack |-> p, status |-> SyncStatus(jobs[w], p)]
    BY <1>10, FetchJob
  <2>2. \A q \in jobs[w].files \cap off :
          q \in DOMAIN jobs[w].existing /\ jobs[w].existing[q] \in Off
    BY <1>10 DEF Fetch, At, RespectsOK, Respects
  <2>3. p \in off => SyncStatus(jobs[w], p) \in Off
    BY <2>1, <2>2 DEF SyncStatus
  <2>4. Respects(j, off)
    BY <2>1, <2>2, <2>3 DEF Respects
  <2> QED BY <1>2, <1>10, <2>1, <2>4 DEF Fetch, Continue
<1>11. ASSUME NEW w \in Workers, NEW p \in Packs, Skip(w, p)  PROVE RespectsOK'
  <2>1. PICK j \in Job : /\ Continue(w, j) /\ jobs[w] \in Fetching
                         /\ j = [jobs[w] EXCEPT !.files = jobs[w].files \ {p}]
    BY <1>11, SkipJob
  <2>2. Respects(jobs[w], off) /\ jobs[w].step = "fetch"
    BY <1>11 DEF Skip, At, RespectsOK
  <2>3. Respects(j, off)
    BY <2>1, <2>2 DEF Respects, Fetching
  <2> QED BY <1>2, <1>11, <2>1, <2>3 DEF Skip, Continue
<1>12. ASSUME NEW w \in Workers, WritePackFile(w)  PROVE RespectsOK'
  <2>1. PICK j \in Job : /\ Continue(w, j) /\ jobs[w] \in Writing
                         /\ j = [jobs[w] EXCEPT !.step = "manifest"]
    BY <1>12, WritePackFileJob
  <2>2. Respects(jobs[w], off) /\ jobs[w].step = "write"
    BY <1>12 DEF WritePackFile, At, RespectsOK
  <2>3. Respects(j, off)
    BY <2>1, <2>2 DEF Respects, Writing
  <2> QED BY <1>2, <1>12, <2>1, <2>3 DEF WritePackFile, Continue
<1>13. ASSUME NEW w \in Workers, WriteManifest(w) \/ WriteFails(w)  PROVE RespectsOK'
  <2>1. At(w, "write") \/ At(w, "manifest")
    BY <1>13 DEF WriteManifest, WriteFails
  <2>2. (End(w) \/ Continue(w, Rest(jobs[w]))) /\ off' = off
    BY <1>13 DEF WriteManifest, WriteFails
  <2>3. Respects(jobs[w], off) /\ Rest(jobs[w]) \in Job
    BY <2>1, RestJob DEF At, RespectsOK
  <2>4. Respects(Rest(jobs[w]), off)
    BY <2>1, <2>3 DEF Respects, Rest, At
  <2> QED BY <1>2, <1>3, <2>2, <2>3, <2>4 DEF Continue
<1>14. ASSUME NEW w \in Workers, NEW m \in Modules, NEW b \in SUBSET Packs, Import(w, m, b)
       PROVE RespectsOK'
  <2>1. PICK j \in Job : Begin(w, j) /\ j.step = "remove"
    BY <1>14, ImportJob
  <2>2. Respects(j, off') /\ off' \subseteq off
    BY <1>14, <2>1 DEF Import, Respects
  <2> QED BY <1>2, <2>1, <2>2 DEF Begin, Take
<1>15. ASSUME NEW w \in Workers, RemoveModule(w)  PROVE RespectsOK'
  <2>1. PICK j \in Job : Continue(w, j) /\ j.step = "install"
    BY <1>15, RemoveModuleJob DEF Installation
  <2>2. Respects(j, off') /\ off' \subseteq off
    BY <1>15, <2>1 DEF RemoveModule, Respects
  <2> QED BY <1>2, <2>1, <2>2 DEF Continue
<1>16. ASSUME NEW w \in Workers, ChangeBuiltin(w) \/ ChangeRuntime(w) \/ WriteModule(w)
       PROVE RespectsOK'
  BY <1>3, <1>16, SwitchedApart DEF ChangeBuiltin, ChangeRuntime, WriteModule
<1>17. ASSUME NEW w \in Workers, InstallModule(w) \/ SyncEnds(w) \/ Fail(w)
       PROVE RespectsOK'
  BY <1>3, <1>17 DEF InstallModule, SyncEnds, Fail
<1>18. CASE RestartLibrary
  BY <1>18 DEF RestartLibrary, RespectsOK
<1> QED
  BY <1>1, <1>4, <1>5, <1>6, <1>7, <1>8, <1>9, <1>10, <1>11, <1>12, <1>13, <1>14, <1>15,
     <1>16, <1>17, <1>18
  DEF LibraryNext

\* The other workers' requests are at the modules they were at.
On(j, m) == j # Nothing /\ j.step \in {"set", "remove", "install"} /\ j.module = m

\* A step of one worker leaves the others at their modules.
LEMMA OnModuleNext ==
  ASSUME LibraryShape, NEW w \in Workers, NEW j \in Job \cup {Nothing},
         jobs' = [jobs EXCEPT ![w] = j]
  PROVE  /\ jobs'[w] = j
         /\ \A v \in Workers \ {w} : jobs'[v] = jobs[v]
         /\ \A m \in Modules : OnModule(w, m)' <=> On(j, m)
         /\ \A v \in Workers \ {w} : \A m \in Modules : OnModule(v, m)' <=> OnModule(v, m)
BY DEF OnModule, On, At, LibraryShape, LibraryTypeOK

\* A pack that no one brings to a module stays out of it.
LEMMA UnheldNext ==
  ASSUME LibraryShape, NEW w \in Workers, NEW j \in Job \cup {Nothing},
         jobs' = [jobs EXCEPT ![w] = j], NEW q, NEW n \in Modules,
         Unheld(n, q), q \notin HeldBy(n)', On(j, n) => q \notin j.brings
  PROVE  Unheld(n, q)'
<1>1. ASSUME NEW v \in Workers, OnModule(v, n)'  PROVE q \notin jobs'[v].brings
  <2>1. CASE v = w
    BY <1>1, <2>1, OnModuleNext
  <2>2. CASE v # w
    BY <1>1, <2>2, OnModuleNext DEF Unheld
  <2> QED BY <2>1, <2>2
<1> QED BY <1>1 DEF Unheld

\* What a step must leave of a module for it to keep a pack off.
LEMMA KeptOffByNext ==
  ASSUME LibraryShape, NEW w \in Workers, NEW j \in Job \cup {Nothing},
         jobs' = [jobs EXCEPT ![w] = j], NEW q, NEW m \in Modules, KeptOffBy(m, q),
         m \in DOMAIN modules' => q \in modules'[m].packs /\ modules'[m].status \in Off,
         m \notin DOMAIN modules' =>
           \/ m \notin DOMAIN modules /\ ~(At(w, "install") /\ jobs[w].module = m)
           \/ On(j, m) /\ j.step = "install",
         On(j, m) => q \in j.brings /\ j.status \in Off,
         \A n \in Modules : Place[n] < Place[m] =>
           q \notin HeldBy(n)' /\ (On(j, n) => q \notin j.brings)
  PROVE  KeptOffBy(m, q)'
<1>1. ASSUME NEW v \in Workers, OnModule(v, m)'
      PROVE  q \in jobs'[v].brings /\ jobs'[v].status \in Off
  <2>1. CASE v = w
    BY <1>1, <2>1, OnModuleNext
  <2>2. CASE v # w
    BY <1>1, <2>2, OnModuleNext DEF KeptOffBy
  <2> QED BY <2>1, <2>2
<1>2. \A n \in Modules : Place[n] < Place[m] => Unheld(n, q)'
  BY UnheldNext DEF KeptOffBy
<1>3. ASSUME m \notin DOMAIN modules'
      PROVE  \E v \in Workers : At(v, "install")' /\ jobs'[v].module = m
  <2>1. CASE On(j, m) /\ j.step = "install"
    <3>1. jobs'[w] = j
      BY OnModuleNext
    <3> QED BY <2>1, <3>1 DEF At, On
  <2>2. CASE m \notin DOMAIN modules /\ ~(At(w, "install") /\ jobs[w].module = m)
    <3>1. PICK v \in Workers : At(v, "install") /\ jobs[v].module = m
      BY <2>2 DEF KeptOffBy
    <3>2. jobs'[v] = jobs[v]
      BY <2>2, <3>1, OnModuleNext
    <3> QED BY <3>1, <3>2 DEF At
  <2> QED BY <1>3, <2>1, <2>2
<1> QED BY <1>1, <1>2, <1>3 DEF KeptOffBy

\* A request that only looks. When it is for a module, it has seen its packs.
LEMMA LookKeepsOff ==
  ASSUME LibraryShape, NEW w \in Workers, NEW j \in Job \cup {Nothing},
         jobs' = [jobs EXCEPT ![w] = j], NEW q, KeptOff(q),
         UNCHANGED <<manifests, tombstones, modules>>,
         At(w, "install") => q \notin jobs[w].brings,
         \A m \in Modules : On(j, m) =>
           /\ q \notin HeldBy(m) => q \notin j.brings
           /\ q \in HeldBy(m) /\ modules[m].status \in Off =>
                q \in j.brings /\ j.status \in Off
           /\ m \notin DOMAIN modules => \A v \in Workers :
                At(v, "install") /\ jobs[v].module = m => q \notin jobs[v].brings
  PROVE  KeptOff(q)'
<1>1. \A n : HeldBy(n)' = HeldBy(n)
  BY DEF HeldBy
<1>2. ASSUME NEW n \in Modules, Unheld(n, q)
      PROVE  Unheld(n, q)' /\ q \notin HeldBy(n)' /\ (On(j, n) => q \notin j.brings)
  <2>1. q \notin HeldBy(n)' /\ (On(j, n) => q \notin j.brings)
    BY <1>1, <1>2 DEF Unheld
  <2> QED BY <1>2, <2>1, UnheldNext
<1>3. ASSUME NEW m \in Modules, KeptOffBy(m, q)  PROVE KeptOffBy(m, q)'
  <2>1. m \notin DOMAIN modules => ~(At(w, "install") /\ jobs[w].module = m)
    BY <1>3 DEF KeptOffBy, OnModule
  <2>2. On(j, m) => q \in j.brings /\ j.status \in Off
    BY <1>3 DEF KeptOffBy, OnModule, HeldBy
  <2>3. \A n \in Modules : Place[n] < Place[m] =>
          q \notin HeldBy(n)' /\ (On(j, n) => q \notin j.brings)
    BY <1>2, <1>3 DEF KeptOffBy
  <2>4. /\ m \in DOMAIN modules' => q \in modules'[m].packs /\ modules'[m].status \in Off
        /\ m \notin DOMAIN modules' =>
             m \notin DOMAIN modules /\ ~(At(w, "install") /\ jobs[w].module = m)
    BY <1>3, <2>1 DEF KeptOffBy
  <2> QED BY <1>3, <2>2, <2>3, <2>4, KeptOffByNext
<1>4. KeptOffBuiltin(q) => KeptOffBuiltin(q)'
  BY <1>2 DEF KeptOffBuiltin
<1> QED BY <1>3, <1>4 DEF KeptOff

\* The record of a module is written.
LEMMA PutKeepsOff ==
  ASSUME LibraryShape, NEW w \in Workers, NEW m \in Modules, OnModule(w, m),
         jobs' = [jobs EXCEPT ![w] = Nothing], UNCHANGED <<manifests, tombstones>>,
         modules' = With(modules, m, [status |-> jobs[w].status, packs |-> jobs[w].brings]),
         NEW q, KeptOff(q)
  PROVE  KeptOff(q)'
<1>1. /\ DOMAIN modules' = DOMAIN modules \cup {m}
      /\ \A n \in DOMAIN modules \ {m} : modules'[n] = modules[n]
      /\ modules'[m] = [status |-> jobs[w].status, packs |-> jobs[w].brings]
  BY DEF With
<1>2. \A n \in Modules : Unheld(n, q) => q \notin HeldBy(n)'
  BY <1>1 DEF Unheld, HeldBy
<1>3. \A n \in Modules : Unheld(n, q) => Unheld(n, q)'
  BY <1>2, UnheldNext DEF On
<1>4. ASSUME NEW n \in Modules, KeptOffBy(n, q)  PROVE KeptOffBy(n, q)'
  <2>1. n \in DOMAIN modules' => q \in modules'[n].packs /\ modules'[n].status \in Off
    BY <1>1, <1>4 DEF KeptOffBy
  <2>2. n \notin DOMAIN modules' =>
          n \notin DOMAIN modules /\ ~(At(w, "install") /\ jobs[w].module = n)
    BY <1>1 DEF OnModule
  <2> QED BY <1>2, <1>4, <2>1, <2>2, KeptOffByNext DEF KeptOffBy, On
<1>5. KeptOffBuiltin(q) => KeptOffBuiltin(q)'
  BY <1>3 DEF KeptOffBuiltin
<1> QED BY <1>4, <1>5 DEF KeptOff

\* A module is removed to be written again.
LEMMA RemoveKeepsOff ==
  ASSUME LibraryShape, NEW w \in Workers, RemoveModule(w), NEW q, KeptOff(q)
  PROVE  KeptOff(q)'
<1>1. PICK j \in Job : /\ Continue(w, j) /\ jobs[w] \in Installation
                       /\ j = [jobs[w] EXCEPT !.step = "install"]
  BY RemoveModuleJob
<1> DEFINE m == jobs[w].module
<1>2. /\ j.step = "install" /\ j.module = m /\ j.brings = jobs[w].brings
      /\ j.status = jobs[w].status /\ m \in Modules /\ OnModule(w, m) /\ j # Nothing
  BY <1>1, LibraryAssumption DEF Installation, OnModule, RemoveModule
<1>3. /\ DOMAIN modules' = DOMAIN modules \ {m}
      /\ \A n \in DOMAIN modules' : modules'[n] = modules[n]
  BY DEF RemoveModule, Without
<1>4. jobs' = [jobs EXCEPT ![w] = j] /\ UNCHANGED <<manifests, tombstones>>
  BY <1>1 DEF Continue, RemoveModule
<1>5. \A n \in Modules : Unheld(n, q) => q \notin HeldBy(n)' /\ (On(j, n) => q \notin j.brings)
  BY <1>2, <1>3 DEF Unheld, HeldBy, On
<1>6. \A n \in Modules : Unheld(n, q) => Unheld(n, q)'
  BY <1>4, <1>5, UnheldNext
<1>7. ASSUME NEW n \in Modules, KeptOffBy(n, q)  PROVE KeptOffBy(n, q)'
  <2>1. n \in DOMAIN modules' => q \in modules'[n].packs /\ modules'[n].status \in Off
    BY <1>3, <1>7 DEF KeptOffBy
  <2>2. CASE n = m
    <3>1. On(j, n) /\ j.step = "install" /\ q \in j.brings /\ j.status \in Off
      BY <1>2, <1>7, <2>2 DEF KeptOffBy, On
    <3>2. \A k \in Modules : Place[k] < Place[n] =>
            q \notin HeldBy(k)' /\ (On(j, k) => q \notin j.brings)
      BY <1>5, <1>7 DEF KeptOffBy
    <3> QED BY <1>4, <1>7, <2>1, <3>1, <3>2, KeptOffByNext
  <2>3. CASE n # m
    <3>1. n \notin DOMAIN modules' => n \notin DOMAIN modules
      BY <1>3, <2>3
    <3>2. ~At(w, "install")
      BY DEF RemoveModule, At
    <3> QED BY <1>2, <1>4, <1>5, <1>7, <2>1, <2>3, <3>1, <3>2, KeptOffByNext DEF KeptOffBy, On
  <2> QED BY <2>2, <2>3
<1>8. KeptOffBuiltin(q) => KeptOffBuiltin(q)'
  BY <1>4, <1>6 DEF KeptOffBuiltin
<1> QED BY <1>4, <1>7, <1>8 DEF KeptOff

\* The manifest of a pack is written with a status that keeps q off.
LEMMA ManifestKeepsOff ==
  ASSUME LibraryShape, NEW w \in Workers, NEW j \in Job \cup {Nothing},
         jobs' = [jobs EXCEPT ![w] = j], \A m \in Modules : ~On(j, m), ~At(w, "install"),
         UNCHANGED <<tombstones, modules>>, NEW p, NEW s,
         manifests' = With(manifests, p, s), NEW q, KeptOff(q), q = p => s \in Off
  PROVE  KeptOff(q)'
<1>1. /\ DOMAIN manifests' = DOMAIN manifests \cup {p}
      /\ manifests'[p] = s
      /\ \A r \in DOMAIN manifests \ {p} : manifests'[r] = manifests[r]
  BY DEF With
<1>2. CASE q \in DOMAIN manifests'
  BY <1>1, <1>2 DEF KeptOff
<1>3. CASE q \notin DOMAIN manifests'
  <2>1. \A n \in Modules : HeldBy(n)' = HeldBy(n)
    BY DEF HeldBy
  <2>2. \A n \in Modules : Unheld(n, q) => Unheld(n, q)'
    BY <2>1, UnheldNext DEF Unheld
  <2>3. ASSUME NEW m \in Modules, KeptOffBy(m, q)  PROVE KeptOffBy(m, q)'
    <3>1. \A n \in Modules : Place[n] < Place[m] =>
            q \notin HeldBy(n)' /\ (On(j, n) => q \notin j.brings)
      BY <2>1, <2>3 DEF KeptOffBy, Unheld
    <3>2. m \in DOMAIN modules' => q \in modules'[m].packs /\ modules'[m].status \in Off
      BY <2>3 DEF KeptOffBy
    <3> QED BY <2>3, <3>1, <3>2, KeptOffByNext
  <2>4. KeptOffBuiltin(q) => KeptOffBuiltin(q)'
    BY <2>2 DEF KeptOffBuiltin
  <2> QED BY <1>1, <1>3, <2>3, <2>4 DEF KeptOff
<1> QED BY <1>2, <1>3

\* The tombstone of another pack is removed, or one is written.
LEMMA TombstoneKeepsOff ==
  ASSUME LibraryShape, NEW w \in Workers, At(w, "builtin"),
         jobs' = [jobs EXCEPT ![w] = Nothing], UNCHANGED <<manifests, modules>>,
         NEW q, KeptOff(q), q \in DOMAIN tombstones => q \in DOMAIN tombstones'
  PROVE  KeptOff(q)'
<1>1. \A n \in Modules : HeldBy(n)' = HeldBy(n)
  BY DEF HeldBy
<1>2. \A n \in Modules : Unheld(n, q) => Unheld(n, q)'
  BY <1>1, UnheldNext DEF Unheld, On
<1>3. ~At(w, "install")
  BY DEF At
<1>4. ASSUME NEW m \in Modules, KeptOffBy(m, q)  PROVE KeptOffBy(m, q)'
  <2>1. \A n \in Modules : ~On(Nothing, n)
    BY DEF On
  <2>2. \A n \in Modules : Place[n] < Place[m] => q \notin HeldBy(n)'
    BY <1>1, <1>4 DEF KeptOffBy, Unheld
  <2>3. m \in DOMAIN modules' => q \in modules'[m].packs /\ modules'[m].status \in Off
    BY <1>4 DEF KeptOffBy
  <2> QED BY <1>3, <1>4, <2>1, <2>2, <2>3, KeptOffByNext
<1>5. KeptOffBuiltin(q) => KeptOffBuiltin(q)'
  BY <1>2 DEF KeptOffBuiltin
<1> QED BY <1>4, <1>5 DEF KeptOff

\* A request that met no other switches off what it was asked to.
LEMMA ElsewhereUnheld ==
  ASSUME LibraryShape, AloneOK, NEW w \in alone, NEW q \in jobs[w].packs,
         jobs' = [jobs EXCEPT ![w] = Nothing], NEW n \in Modules, q \notin HeldBy(n)'
  PROVE  Unheld(n, q)'
<1>1. w \in Workers
  BY DEF LibraryShape, LibraryTypeOK
<1>2. ASSUME NEW v \in Workers, OnModule(v, n)'  PROVE q \notin jobs'[v].brings
  <2>1. v # w /\ jobs'[v] = jobs[v] /\ jobs[v] # Nothing
        /\ jobs[v].step \in {"set", "remove", "install"}
    BY <1>1, <1>2 DEF OnModule, At, LibraryShape, LibraryTypeOK
  <2>2. jobs[v].brings \subseteq jobs[v].packs
    BY <2>1 DEF LibraryShape, JobsOK, JobOK
  <2> QED BY <1>1, <2>1, <2>2 DEF AloneOK, Apart
<1> QED BY <1>2 DEF Unheld

\* A tombstone is written for a pack no module has or brings.
LEMMA SwitchBuiltinOff ==
  ASSUME LibraryInv, NEW w \in alone, ChangeBuiltin(w), jobs[w].status \in Off,
         NEW q \in jobs[w].named
  PROVE  KeptOff(q)'
<1> USE DEF LibraryInv
<1>1. w \in Workers /\ At(w, "builtin") /\ jobs[w] # Nothing
  BY DEF ChangeBuiltin, At, LibraryShape, LibraryTypeOK
<1>2. q = jobs[w].pack /\ q \in jobs[w].packs
  BY <1>1 DEF At, LibraryShape, JobsOK, JobOK
<1>3. q \notin DOMAIN manifests' /\ \A n \in Modules : q \notin HeldBy(n)
  BY <1>1, <1>2 DEF SeenOK, Seen, ChangeBuiltin
<1>4. \A n \in Modules : q \notin HeldBy(n)'
  BY <1>3 DEF ChangeBuiltin, HeldBy
<1>5. \A n \in Modules : Unheld(n, q)'
  BY <1>2, <1>4, ElsewhereUnheld DEF ChangeBuiltin, End
<1>6. q \in DOMAIN tombstones'
  BY <1>2 DEF ChangeBuiltin, With, Off
<1> QED BY <1>3, <1>5, <1>6 DEF KeptOff, KeptOffBuiltin

\* A record is written for the first module that has the packs.
LEMMA SwitchModuleOff ==
  ASSUME LibraryInv, NEW w \in alone, WriteModule(w), jobs[w].status \in Off,
         NEW q \in jobs[w].named
  PROVE  KeptOff(q)'
<1> USE DEF LibraryInv
<1>1. w \in Workers /\ At(w, "set") /\ jobs[w] # Nothing /\ jobs[w] \in ModuleChange
  BY JobShapes DEF WriteModule, At, LibraryShape, LibraryTypeOK
<1>2. PICK m \in Modules : m = jobs[w].module /\ m \in jobs[w].mods /\ q \in jobs[w].packs
  BY <1>1 DEF ModuleChange, At, LibraryShape, JobsOK, JobOK
<1>3. /\ q \notin DOMAIN manifests' /\ q \in jobs[w].brings
      /\ \A n \in Modules : Place[n] < Place[m] => q \notin HeldBy(n)
  BY <1>1, <1>2 DEF SeenOK, Seen, WriteModule
<1>4. /\ DOMAIN modules' = DOMAIN modules \cup {m}
      /\ \A n \in DOMAIN modules \ {m} : modules'[n] = modules[n]
      /\ modules'[m] = [status |-> jobs[w].status, packs |-> jobs[w].brings]
  BY <1>2 DEF WriteModule, With
<1>5. \A n \in Modules : Place[n] < Place[m] => q \notin HeldBy(n)'
  BY <1>2, <1>3, <1>4, LibraryAssumption DEF HeldBy
<1>6. jobs' = [jobs EXCEPT ![w] = Nothing]
  BY DEF WriteModule, End
<1>7. \A n \in Modules : Place[n] < Place[m] => Unheld(n, q)'
  BY <1>2, <1>5, <1>6, ElsewhereUnheld
<1>8. \A v \in Workers : ~OnModule(v, m)'
  <2> SUFFICES ASSUME NEW v \in Workers, OnModule(v, m)'  PROVE FALSE
    OBVIOUS
  <2>1. v # w /\ OnModule(v, m)
    BY <1>1, <1>6, OnModuleNext DEF On
  <2>2. jobs[v] # Nothing /\ m \in jobs[v].mods
    BY <2>1 DEF OnModule, At, LibraryShape, JobsOK, JobOK
  <2> QED BY <1>2, <2>1, <2>2 DEF AloneOK, Apart
<1>9. KeptOffBy(m, q)'
  BY <1>3, <1>4, <1>7, <1>8 DEF KeptOffBy
<1> QED BY <1>2, <1>3, <1>9 DEF KeptOff

\* Every step keeps what is off.
LEMMA OffNext == LibraryInv /\ [LibraryNext]_libraryVars => OffOK'
<1> SUFFICES ASSUME LibraryInv, [LibraryNext]_libraryVars, NEW q \in off'
             PROVE  KeptOff(q)'
  BY DEF OffOK
<1> USE DEF LibraryInv
<1>1. CASE UNCHANGED libraryVars
  BY <1>1 DEF libraryVars, OffOK, KeptOff, KeptOffBuiltin, KeptOffBy, Unheld, OnModule, At,
              HeldBy
<1>2. q \in off => KeptOff(q)
  BY DEF OffOK
<1>3. ASSUME NEW w \in Workers, NEW j \in Job \cup {Nothing}, q \in off,
             jobs' = [jobs EXCEPT ![w] = j], ~At(w, "install"),
             \A m \in Modules : ~On(j, m), UNCHANGED <<manifests, tombstones, modules>>
      PROVE  KeptOff(q)'
  BY <1>2, <1>3, LookKeepsOff
<1>4. ASSUME NEW w \in Workers, NEW j \in Job, Begin(w, j), q \in off,
             j.step \notin {"set", "remove", "install"},
             UNCHANGED <<manifests, tombstones, modules>>
      PROVE  KeptOff(q)'
  BY <1>3, <1>4 DEF Begin, Take, At, On
<1>5. ASSUME NEW w \in Workers, NEW j \in Job, Continue(w, j), q \in off,
             j.step \notin {"set", "remove", "install"}, ~At(w, "install"),
             UNCHANGED <<manifests, tombstones, modules>>
      PROVE  KeptOff(q)'
  BY <1>3, <1>5 DEF Continue, On
<1>6. ASSUME NEW w \in Workers, NEW p \in Packs, NEW s \in Statuses, ChangePack(w, p, s)
      PROVE KeptOff(q)'
  <2>1. PICK j \in PackChange : Begin(w, j) /\ j \in Job
    BY <1>6, ChangePackJob
  <2> QED BY <1>4, <1>6, <2>1 DEF ChangePack, Enabling, storeVars, PackChange
<1>7. ASSUME NEW w \in Workers, ~At(w, "install"), NEW m \in DOMAIN modules, NEW j \in Job,
             jobs' = [jobs EXCEPT ![w] = j], j.step = "set", j.module = m,
             j.brings = modules[m].packs, j.status \in Statuses,
             off' = Enabling(modules[m].packs, j.status), UNCHANGED storeVars
      PROVE  KeptOff(q)'
  <2>1. q \in off /\ (q \in modules[m].packs => j.status \in Off)
    BY <1>7 DEF Enabling, Statuses
  <2>2. \A n \in Modules : On(j, n) =>
          /\ n \in DOMAIN modules
          /\ q \notin HeldBy(n) => q \notin j.brings
          /\ q \in HeldBy(n) => q \in j.brings /\ j.status \in Off
    BY <1>7, <2>1 DEF On, HeldBy
  <2> QED BY <1>2, <1>7, <2>1, <2>2, LookKeepsOff DEF storeVars
<1>8. ASSUME NEW w \in Workers, NEW m \in Modules, NEW s \in Statuses, ChangeModule(w, m, s)
      PROVE KeptOff(q)'
  <2>1. PICK j \in Job : /\ Begin(w, j) /\ j.step = "set" /\ j.module = m
                         /\ j.brings = modules[m].packs /\ j.status = s
    BY <1>8, ChangeModuleJob
  <2> QED BY <1>7, <1>8, <2>1 DEF ChangeModule, Begin, Take, At
<1>9. ASSUME NEW w \in Workers, ReadModule(w)  PROVE KeptOff(q)'
  <2>1. PICK m \in First(jobs[w].pack), j \in ModuleChange :
          /\ Take(w, j, alone) /\ j \in Job /\ j.step = "set" /\ j.module = m
          /\ j.brings = modules[m].packs
          /\ off' = Enabling(modules[m].packs, j.status)
    BY <1>9, ReadModuleJob
  <2>2. m \in DOMAIN modules /\ ~At(w, "install") /\ j.status \in Statuses
    BY <1>9 DEF First, Holders, ReadModule, At, ModuleChange
  <2> QED BY <1>7, <1>9, <2>1, <2>2 DEF ReadModule, Take
<1>10. ASSUME NEW w \in Workers, NEW m \in Modules, NEW b \in SUBSET Packs, Import(w, m, b)
       PROVE KeptOff(q)'
  <2>1. PICK j \in Job : /\ Begin(w, j) /\ j.step = "remove" /\ j.module = m
                         /\ j.brings = b /\ j.status = Kept(m)
    BY <1>10, ImportJob
  <2>2. q \in off /\ q \notin (b \ HeldBy(m)) \cup (HeldBy(m) \ b) \cup Rewritten({m})
    BY <1>10 DEF Import
  <2>3. \A v \in Workers : At(v, "install") /\ jobs[v].module = m => q \notin jobs[v].brings
    <3> SUFFICES ASSUME NEW v \in Workers, At(v, "install"), jobs[v].module = m,
                        q \in jobs[v].brings
                 PROVE  q \in Rewritten({m})
      BY <2>2
    <3>1. q \in jobs[v].packs
      BY DEF At, LibraryShape, JobsOK, JobOK
    <3> QED BY <3>1 DEF Rewritten
  <2>4. \A n \in Modules : On(j, n) =>
          /\ q \notin HeldBy(n) => q \notin j.brings
          /\ q \in HeldBy(n) /\ modules[n].status \in Off => q \in j.brings /\ j.status \in Off
          /\ n \notin DOMAIN modules => \A v \in Workers :
               At(v, "install") /\ jobs[v].module = n => q \notin jobs[v].brings
    BY <2>1, <2>2, <2>3 DEF On, Kept, HeldBy
  <2>5. jobs' = [jobs EXCEPT ![w] = j] /\ ~At(w, "install")
    BY <2>1 DEF Begin, Take, At
  <2>6. UNCHANGED <<manifests, tombstones, modules>>
    BY <1>10 DEF Import, storeVars
  <2> QED BY <1>2, <2>2, <2>4, <2>5, <2>6, LookKeepsOff
<1>11. ASSUME NEW w \in Workers, Fail(w)  PROVE KeptOff(q)'
  <2>1. At(w, "install") => q \notin jobs[w].brings
    <3> SUFFICES ASSUME At(w, "install"), q \in jobs[w].brings  PROVE FALSE
      OBVIOUS
    <3>1. q \in jobs[w].packs
      BY DEF At, LibraryShape, JobsOK, JobOK
    <3> QED BY <1>11, <3>1 DEF Fail, LostStatuses
  <2> QED BY <1>2, <1>11, <2>1, LookKeepsOff DEF Fail, End, On, storeVars
<1>12. CASE RestartLibrary
  <2>1. q \in off /\ KeptOff(q)
    BY <1>2, <1>12 DEF RestartLibrary
  <2>2. \A w \in Workers : At(w, "install") => q \notin jobs[w].brings
    <3> SUFFICES ASSUME NEW w \in Workers, At(w, "install"), q \in jobs[w].brings  PROVE FALSE
      OBVIOUS
    <3>1. q \in jobs[w].packs
      BY DEF At, LibraryShape, JobsOK, JobOK
    <3> QED BY <1>12, <3>1 DEF RestartLibrary, LostStatuses
  <2>3. \A m : \A w \in Workers : ~OnModule(w, m)'
    BY <1>12 DEF RestartLibrary, OnModule, At
  <2>4. \A n \in Modules : Unheld(n, q) => Unheld(n, q)'
    BY <1>12, <2>3 DEF RestartLibrary, Unheld, HeldBy, storeVars
  <2>5. ASSUME NEW m \in Modules, KeptOffBy(m, q)  PROVE KeptOffBy(m, q)'
    <3>1. m \in DOMAIN modules
      BY <2>2, <2>5 DEF KeptOffBy, OnModule
    <3> QED BY <1>12, <2>3, <2>4, <2>5, <3>1 DEF RestartLibrary, KeptOffBy, storeVars
  <2>6. KeptOffBuiltin(q) => KeptOffBuiltin(q)'
    BY <1>12, <2>4 DEF RestartLibrary, KeptOffBuiltin, storeVars
  <2> QED BY <1>12, <2>1, <2>5, <2>6 DEF RestartLibrary, KeptOff, storeVars
<1>13. ASSUME NEW w \in Workers, ModuleIsGone(w)  PROVE KeptOff(q)'
  <2>1. PICK j \in Job : Continue(w, j) /\ j.step = "runtime"
    <3>1. jobs[w] \in PackChange
      BY <1>13, JobShapes DEF ModuleIsGone, At, LibraryShape
    <3> QED BY <1>13, <3>1, ModuleIsGoneJob DEF PackChange
  <2> QED BY <1>5, <1>13, <2>1 DEF ModuleIsGone, storeVars, At
<1>14. ASSUME NEW w \in Workers, NEW p \in Packs, Create(w, p)  PROVE KeptOff(q)'
  <2>1. PICK j \in Job : Begin(w, j) /\ j.step = "write"
    BY <1>14, CreateJob
  <2> QED BY <1>4, <1>14, <2>1 DEF Create, storeVars
<1>15. ASSUME NEW w \in Workers, Sync(w)  PROVE KeptOff(q)'
  <2>1. PICK j \in Job : Begin(w, j) /\ j.step = "fetch"
    BY <1>15, SyncJob
  <2> QED BY <1>4, <1>15, <2>1 DEF Sync, storeVars
<1>16. ASSUME NEW w \in Workers, NEW p \in Packs, Fetch(w, p) \/ Skip(w, p)  PROVE KeptOff(q)'
  <2>1. PICK j \in Job : Continue(w, j) /\ j.step \in {"write", "fetch"}
    BY <1>16, FetchJob, SkipJob DEF Fetching
  <2> QED BY <1>5, <1>16, <2>1 DEF Fetch, Skip, storeVars, At
<1>17. ASSUME NEW w \in Workers, WritePackFile(w)  PROVE KeptOff(q)'
  <2>1. PICK j \in Job : Continue(w, j) /\ j.step = "manifest"
    BY <1>17, WritePackFileJob DEF Writing
  <2> QED BY <1>5, <1>17, <2>1 DEF WritePackFile, At
<1>18. ASSUME NEW w \in Workers, WriteFails(w)  PROVE KeptOff(q)'
  BY <1>5, <1>18, RestJob DEF WriteFails, Rest, storeVars, At
<1>19. ASSUME NEW w \in Workers, SyncEnds(w)  PROVE KeptOff(q)'
  BY <1>3, <1>19 DEF SyncEnds, End, On, At, storeVars
<1>20. ASSUME NEW w \in Workers, WriteManifest(w)  PROVE KeptOff(q)'
  <2>1. /\ Rest(jobs[w]) \in Job /\ Rest(jobs[w]).step = "fetch" /\ ~At(w, "install")
        /\ jobs[w].step = "manifest" /\ jobs[w] # Nothing
    BY <1>20, RestJob DEF WriteManifest, At, Rest
  <2>2. q = jobs[w].pack => jobs[w].status \in Off
    BY <1>20, <2>1 DEF WriteManifest, RespectsOK, Respects
  <2>3. PICK j \in Job \cup {Nothing} : /\ jobs' = [jobs EXCEPT ![w] = j]
                                        /\ j = Nothing \/ j.step = "fetch"
    BY <1>20, <2>1 DEF WriteManifest, End, Continue
  <2>4. \A m \in Modules : ~On(j, m)
    BY <2>3 DEF On
  <2> QED BY <1>2, <1>20, <2>1, <2>2, <2>3, <2>4, ManifestKeepsOff DEF WriteManifest
<1>21. ASSUME NEW w \in Workers, InstallModule(w)  PROVE KeptOff(q)'
  <2>1. jobs[w] \in Installation
    BY <1>21, JobShapes DEF InstallModule, At, LibraryShape
  <2> QED BY <1>2, <1>21, <2>1, PutKeepsOff DEF InstallModule, End, Installation, OnModule
<1>22. ASSUME NEW w \in Workers, WriteModule(w)  PROVE KeptOff(q)'
  <2>1. jobs[w] \in ModuleChange
    BY <1>22, JobShapes DEF WriteModule, At, LibraryShape
  <2>2. CASE q \in off
    BY <1>2, <1>22, <2>1, <2>2, PutKeepsOff DEF WriteModule, End, ModuleChange, OnModule
  <2>3. CASE q \notin off
    BY <1>22, <2>3, SwitchModuleOff DEF WriteModule, Switched
  <2> QED BY <2>2, <2>3
<1>23. ASSUME NEW w \in Workers, ChangeBuiltin(w)  PROVE KeptOff(q)'
  <2>1. CASE q \in off
    <3>1. jobs[w].status = "active" => q # jobs[w].pack
      BY <1>23, <2>1 DEF ChangeBuiltin, At, LibraryShape, JobsOK, JobOK, RespectsOK, Respects
    <3>2. q \in DOMAIN tombstones => q \in DOMAIN tombstones'
      BY <1>23, <3>1 DEF ChangeBuiltin, With, Without
    <3> QED BY <1>2, <1>23, <2>1, <3>2, TombstoneKeepsOff DEF ChangeBuiltin, End
  <2>2. CASE q \notin off
    BY <1>23, <2>2, SwitchBuiltinOff DEF ChangeBuiltin, Switched
  <2> QED BY <2>1, <2>2
<1>24. ASSUME NEW w \in Workers, ChangeRuntime(w)  PROVE KeptOff(q)'
  <2>1. jobs[w].status \in Statuses /\ jobs[w].named = {jobs[w].pack} /\ jobs[w].pack \in jobs[w].packs
    BY <1>24, SwitchedTypes DEF ChangeRuntime, At, JobOK
  <2>2. CASE q \in off
    <3>1. jobs[w].status = "active" => q # jobs[w].pack
      BY <1>24, <2>1, <2>2 DEF ChangeRuntime, At, RespectsOK, Respects
    <3>2. q = jobs[w].pack => jobs[w].status \in Off
      BY <2>1, <3>1 DEF Statuses
    <3> QED BY <1>2, <1>24, <2>2, <3>2, ManifestKeepsOff DEF ChangeRuntime, End, On, At
  <2>3. CASE q \notin off
    <3>1. q = jobs[w].pack /\ jobs[w].status \in Off
      BY <1>24, <2>1, <2>3 DEF ChangeRuntime, Switched
    <3> QED BY <1>24, <3>1 DEF ChangeRuntime, With, KeptOff
  <2> QED BY <2>2, <2>3
<1>25. ASSUME NEW w \in Workers, RemoveModule(w)  PROVE KeptOff(q)'
  BY <1>2, <1>25, RemoveKeepsOff DEF RemoveModule
<1> HIDE DEF LibraryInv
<1> QED
  BY <1>1, <1>6, <1>8, <1>9, <1>10, <1>11, <1>12, <1>13, <1>14, <1>15, <1>16, <1>17,
     <1>18, <1>19, <1>20, <1>21, <1>22, <1>23, <1>24, <1>25
  DEF LibraryNext

\* Nothing is at work at first, and nothing off.
LEMMA LibraryInvInit == LibraryInit => LibraryInv
<1> SUFFICES ASSUME LibraryInit  PROVE LibraryInv
  OBVIOUS
<1>1. LibraryShape
  BY LibraryShapeInit
<1>2. alone = {} /\ off = {} /\ \A w \in Workers : jobs[w] = Nothing
  BY DEF LibraryInit
<1> QED BY <1>1, <1>2 DEF LibraryInv, AloneOK, SeenOK, RespectsOK, OffOK

\* Every step keeps the invariant.
LEMMA LibraryInvNext == LibraryInv /\ [LibraryNext]_libraryVars => LibraryInv'
BY LibraryShapeNext, AloneNext, SeenNext, RespectsNext, OffNext DEF LibraryInv

\* The files of the runtime store and what is written in them are of their types, and
\* each manifest has its pack beside it, whatever fails and whenever the server
\* restarts: so the listing can be read (listRuntimePacks).
THEOREM LibraryIsTyped == LibrarySpec => []LibraryTypeOK
<1>1. LibraryInv => LibraryTypeOK
  BY DEF LibraryInv, LibraryShape
<1> QED BY LibraryInvInit, LibraryInvNext, <1>1, PTL DEF LibrarySpec

\* A pack that was disabled or deleted by a request that met no other stays out of use,
\* whatever is uploaded, synchronised or imported, by however many requests at once,
\* whatever fails, until it or its module is enabled or a bundle brings or drops it
\* (syncLibrary, importZip, setStatus).
THEOREM PacksStayOff == LibrarySpec => []SwitchedOffStaysOff
BY LibraryInvInit, LibraryInvNext, LibraryInvKeepsOff, PTL DEF LibrarySpec
====
