---- MODULE Notifications ----
(***************************************************************************)
(* What the server tells connected helpers: the open conflicts, kept in    *)
(* memory only, and the events about them and about everything else, sent  *)
(* to the streams of GET /events.                                          *)
(*                                                                         *)
(* A handler changes the state under app.mu, releases it and then tells    *)
(* the streams: it copies the list of their channels under the lock and    *)
(* sends to each without it.  A send never waits: a full channel misses    *)
(* the event.  A stream that ends only leaves the list, so its channel may *)
(* be in a copy a handler is still sending to.                             *)
(***************************************************************************)
EXTENDS Naturals, Sequences

CONSTANTS Handlers,      \* goroutines that serve requests
          Streams,       \* requests of GET /events
          Keys,          \* ROM and slot of a conflict
          BufferSize,    \* events a channel holds: 16 in the code
          NotSending,    \* no list of channels has been copied yet
          MaxRequests    \* bound on the requests served

ASSUME NotificationsAssumption ==
    /\ BufferSize \in Nat /\ MaxRequests \in Nat
    /\ \A S \in SUBSET Streams : NotSending # S

VARIABLES conflicts,     \* app.conflicts: the keys with an open conflict
          subscribers,   \* app.eventSubscribers
          calls,         \* per handler: what it has left to do, in order
          targets,       \* per handler: channels it still has to send to
          stream,        \* per stream: new, open or gone
          channel,       \* per stream: the events waiting in its channel
          known,         \* per stream and key: what its client was told
          missed,        \* history: streams a full channel kept an event from
          crossed,       \* history: keys whose events were not sent in order
          requests       \* requests served so far

notificationVars == <<conflicts, subscribers, calls, targets, stream, channel, known,
          missed, crossed, requests>>

Created(k)  == [type |-> "conflict_created", key |-> k]
Resolved(k) == [type |-> "conflict_resolved", key |-> k]
\* save_created, sync_log, config.changed and helper commands: events that say
\* nothing of a conflict.
Other(k)    == [type |-> "other", key |-> k]
\* A call of resolveConflictForSave that is still to come.
ForSave(k)  == [type |-> "resolve", key |-> k]

Call == {Created(k) : k \in Keys} \cup {Resolved(k) : k \in Keys}
          \cup {Other(k) : k \in Keys} \cup {ForSave(k) : k \in Keys}
Event == {c \in Call : c.type # "resolve"}
About(k) == {Created(k), Resolved(k)}

NotificationsTypeOK ==
    /\ conflicts \subseteq Keys
    /\ subscribers \subseteq Streams
    /\ calls \in [Handlers -> Seq(Call)]
    /\ targets \in [Handlers -> (SUBSET Streams) \cup {NotSending}]
    /\ stream \in [Streams -> {"new", "open", "gone"}]
    /\ channel \in [Streams -> Seq(Event)]
    /\ \A s \in Streams : Len(channel[s]) <= BufferSize
    /\ known \in [Streams -> [Keys -> {"unknown", "open", "resolved"}]]
    /\ missed \subseteq Streams
    /\ crossed \subseteq Keys
    /\ requests \in 0..MaxRequests

NotificationsInit ==
    /\ conflicts = {}
    /\ subscribers = {}
    /\ calls = [h \in Handlers |-> <<>>]
    /\ targets = [h \in Handlers |-> NotSending]
    /\ stream = [s \in Streams |-> "new"]
    /\ channel = [s \in Streams |-> <<>>]
    /\ known = [s \in Streams |-> [k \in Keys |-> "unknown"]]
    /\ missed = {}
    /\ crossed = {}
    /\ requests = 0

Idle(h) == calls[h] = <<>>

\* Some handler changed k and has not told every stream of it.
Unsent(k) == \E h \in Handlers :
                \E i \in 1..Len(calls[h]) : calls[h][i] \in About(k)

\* Bookkeeping of a change of k: crossed when an earlier one is unsent.
Changes(k) == crossed' = IF Unsent(k) THEN crossed \cup {k} ELSE crossed

----------------------------------------------------------------------------
(* The requests that tell the streams something. *)

Serve(h, todo) ==
    /\ Idle(h)
    /\ requests < MaxRequests
    /\ requests' = requests + 1
    /\ calls' = [calls EXCEPT ![h] = todo]
    /\ UNCHANGED <<subscribers, targets, stream, channel, known, missed>>

\* A helper reports a conflict: it replaces the open one of its key, if any.
ReportConflict(h, k) ==
    /\ Serve(h, <<Created(k), Other(k)>>)
    /\ conflicts' = conflicts \cup {k}
    /\ Changes(k)

\* An operator resolves a conflict; one that is not open is answered 404.
ResolveConflictByID(h, k) ==
    /\ k \in conflicts
    /\ Serve(h, <<Resolved(k), Other(k)>>)
    /\ conflicts' = conflicts \ {k}
    /\ Changes(k)

\* An upload was stored: save_created, then the conflict of its slot, then
\* the sync log.
Upload(h, k) ==
    /\ Serve(h, <<Other(k), ForSave(k), Other(k)>>)
    /\ UNCHANGED <<conflicts, crossed>>

\* A command to a helper, and a changed policy, say nothing of conflicts.
HandleDeviceCommand(h, k) ==
    /\ Serve(h, <<Other(k), Other(k)>>)
    /\ UNCHANGED <<conflicts, crossed>>

HandleDevicesPatch(h, k) ==
    /\ Serve(h, <<Other(k)>>)
    /\ UNCHANGED <<conflicts, crossed>>

\* Mutant: resolving for a save without saying so.
ResolveQuietly(h) ==
    \E k \in Keys :
        /\ ~Idle(h)
        /\ Head(calls[h]) = ForSave(k)
        /\ conflicts' = conflicts \ {k}
        /\ calls' = [calls EXCEPT ![h] = Tail(calls[h])]
        /\ UNCHANGED <<subscribers, targets, stream, channel, known, missed,
                       crossed, requests>>

ResolveConflictForSave(h) ==
    \E k \in Keys :
        /\ ~Idle(h)
        /\ Head(calls[h]) = ForSave(k)
        /\ IF k \in conflicts
              THEN /\ conflicts' = conflicts \ {k}
                   /\ calls' = [calls EXCEPT ![h] =
                                  <<Resolved(k), Other(k)>> \o Tail(calls[h])]
                   /\ Changes(k)
              ELSE /\ calls' = [calls EXCEPT ![h] = Tail(calls[h])]
                   /\ UNCHANGED <<conflicts, crossed>>
        /\ UNCHANGED <<subscribers, targets, stream, channel, known, missed,
                       requests>>

----------------------------------------------------------------------------
(* publishEvent. *)

CopySubscribers(h) ==
    /\ ~Idle(h)
    /\ Head(calls[h]) \in Event
    /\ targets[h] = NotSending
    /\ targets' = [targets EXCEPT ![h] = subscribers]
    /\ UNCHANGED <<conflicts, subscribers, calls, stream, channel, known,
                   missed, crossed, requests>>

\* Mutant: a send that waits until what was sent before is read.
SendWaiting(h, s) ==
    /\ targets[h] # NotSending
    /\ s \in targets[h]
    /\ channel[s] = <<>>
    /\ targets' = [targets EXCEPT ![h] = @ \ {s}]
    /\ channel' = [channel EXCEPT ![s] = Append(@, Head(calls[h]))]
    /\ UNCHANGED <<conflicts, subscribers, calls, stream, known, missed,
                   crossed, requests>>
\* A send that does not wait, to the channels in any order.
Send(h, s) ==
    /\ targets[h] # NotSending
    /\ s \in targets[h]
    /\ targets' = [targets EXCEPT ![h] = @ \ {s}]
    /\ IF Len(channel[s]) < BufferSize
          THEN /\ channel' = [channel EXCEPT ![s] = Append(@, Head(calls[h]))]
               /\ UNCHANGED missed
          ELSE /\ missed' = missed \cup {s}
               /\ UNCHANGED channel
    /\ UNCHANGED <<conflicts, subscribers, calls, stream, known, crossed,
                   requests>>

Published(h) ==
    /\ targets[h] = {}
    /\ targets' = [targets EXCEPT ![h] = NotSending]
    /\ calls' = [calls EXCEPT ![h] = Tail(@)]
    /\ UNCHANGED <<conflicts, subscribers, stream, channel, known, missed,
                   crossed, requests>>

----------------------------------------------------------------------------
(* handleEvents. *)

SubscribeEvents(s) ==
    /\ stream[s] = "new"
    /\ stream' = [stream EXCEPT ![s] = "open"]
    /\ subscribers' = subscribers \cup {s}
    /\ UNCHANGED <<conflicts, calls, targets, channel, known, missed, crossed,
                   requests>>

WriteEvent(s) ==
    /\ stream[s] = "open"
    /\ channel[s] # <<>>
    /\ channel' = [channel EXCEPT ![s] = Tail(@)]
    /\ LET e == Head(channel[s]) IN
          known' = CASE e.type = "conflict_created" ->
                          [known EXCEPT ![s][e.key] = "open"]
                     [] e.type = "conflict_resolved" ->
                          [known EXCEPT ![s][e.key] = "resolved"]
                     [] OTHER -> known
    /\ UNCHANGED <<conflicts, subscribers, calls, targets, stream, missed,
                   crossed, requests>>

\* The client went away.  The channel is not closed: see Send.
DetachEventSubscriber(s) ==
    /\ stream[s] = "open"
    /\ stream' = [stream EXCEPT ![s] = "gone"]
    /\ subscribers' = subscribers \ {s}
    /\ UNCHANGED <<conflicts, calls, targets, channel, known, missed, crossed,
                   requests>>

\* Conflicts are not persisted: a restart forgets them and ends the streams.
RestartNotifications ==
    /\ conflicts # {}
    /\ conflicts' = {}
    /\ subscribers' = {}
    /\ calls' = [h \in Handlers |-> <<>>]
    /\ targets' = [h \in Handlers |-> NotSending]
    /\ stream' = [s \in Streams |-> IF stream[s] = "open" THEN "gone"
                                                          ELSE stream[s]]
    /\ UNCHANGED <<channel, known, missed, crossed, requests>>

----------------------------------------------------------------------------
HandlerStep(h) ==
    \/ ResolveConflictForSave(h)
    \/ CopySubscribers(h)
    \/ \E s \in Streams : Send(h, s)
    \/ Published(h)

NotificationsNext ==
    \/ \E h \in Handlers, k \in Keys :
          \/ ReportConflict(h, k)
          \/ ResolveConflictByID(h, k)
          \/ Upload(h, k)
          \/ HandleDeviceCommand(h, k)
          \/ HandleDevicesPatch(h, k)
    \/ \E h \in Handlers : HandlerStep(h)
    \/ \E s \in Streams : \/ SubscribeEvents(s)
                          \/ WriteEvent(s)
                          \/ DetachEventSubscriber(s)
    \/ RestartNotifications

\* A goroutine that can run runs: of the handlers only, since a client may
\* stop reading its stream for as long as it likes.
Fairness == \A h \in Handlers : WF_notificationVars(HandlerStep(h))

NotificationsSpec == NotificationsInit /\ [][NotificationsNext]_notificationVars /\ Fairness

----------------------------------------------------------------------------
(* What is claimed. *)

\* A stream whose client has read all there is, and missed nothing, was told
\* the truth of each conflict it heard of, once no change of it is still being
\* published -- unless two requests changed it at once (crossed).
ClientsAgree ==
    \A s \in Streams, k \in Keys :
        (/\ stream[s] = "open"
         /\ channel[s] = <<>>
         /\ s \notin missed
         /\ ~Unsent(k)
         /\ k \notin crossed
         /\ known[s][k] # "unknown")
        => (known[s][k] = "open" <=> k \in conflicts)

\* A handler that publishes gets done, whatever its streams do: no client that
\* stops reading, or has gone, holds up the request of another.
PublishersFinish == \A h \in Handlers : ~Idle(h) ~> Idle(h)

====
