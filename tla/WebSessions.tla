---- MODULE WebSessions ----
(***************************************************************************)
(* The sessions of the web page.  They live in a file only; every use of   *)
(* it is one read-modify-write under webSessionStateMu.  A handler reads   *)
(* the clock before it takes the lock, so its time may be old by then.    *)
(***************************************************************************)
EXTENDS Naturals, FiniteSets

CONSTANTS Browsers,        \* handlers that serve requests of the web page
          MaxSessions,     \* sessions kept: 64
          Lifetime,        \* of a session: 7 days
          MaxDays, MaxTokens, MaxSessionFaults

VARIABLES day,             \* the clock
          sessions,        \* web_sessions.json
          request,         \* per browser: its request in progress
          issued,          \* history: the sessions answered to a login
          revoked,         \* history: tokens of the logouts answered 200
          validated,       \* history: the last verdict on a session
          sessionFaults    \* writes that failed

webVars == <<day, sessions, request, issued, revoked, validated, sessionFaults>>

ASSUME WebSessionsAssumption ==
    /\ MaxSessions \in Nat /\ Lifetime \in Nat /\ MaxDays \in Nat \ {0}
    /\ MaxTokens \in Nat /\ MaxSessionFaults \in Nat

Tokens == 1..MaxTokens
Session == [token : Tokens, created : 0..MaxDays]
NoRequest == [op |-> "idle"]
NoVerdict == [ok |-> FALSE]

WebTypeOK ==
    /\ day \in 0..MaxDays
    /\ sessions \subseteq Session
    /\ Cardinality(sessions) <= MaxSessions
    /\ issued \subseteq Session
    /\ revoked \subseteq Tokens
    /\ sessionFaults \in 0..MaxSessionFaults

WebInit ==
    /\ day = 1
    /\ sessions = {}
    /\ request = [b \in Browsers |-> NoRequest]
    /\ issued = {}
    /\ revoked = {}
    /\ validated = NoVerdict
    /\ sessionFaults = 0

Answer(b) == request' = [request EXCEPT ![b] = NoRequest]
Go(b, r) == request' = [request EXCEPT ![b] = r]

Alive(s, now) == now < s.created + Lifetime

\* loadWebSessionStateLocked leaves out what has expired.
Loaded(now) == {s \in sessions : Alive(s, now)}

\* Mutant: a cap that drops the newest.
NewestDropped(all) ==
    {kept \in SUBSET all :
       /\ Cardinality(kept) = IF Cardinality(all) > MaxSessions
                              THEN MaxSessions ELSE Cardinality(all)
       /\ \A s \in kept, d \in all \ kept : s.created <= d.created}

\* The newest MaxSessions, in every order sort.Slice may leave equal times in.
Capped(all) ==
    {kept \in SUBSET all :
       /\ Cardinality(kept) = IF Cardinality(all) > MaxSessions
                              THEN MaxSessions ELSE Cardinality(all)
       /\ \A s \in kept, d \in all \ kept : s.created >= d.created}

\* The write of the file, which may fail.
Persist(next) == sessions' = next /\ UNCHANGED sessionFaults
PersistFails == /\ sessionFaults < MaxSessionFaults
                /\ sessionFaults' = sessionFaults + 1
                /\ UNCHANGED sessions

\* The password was right; the time is that of the login.
StartSession(b) ==
    /\ request[b] = NoRequest
    /\ Go(b, [op |-> "session", now |-> day])
    /\ UNCHANGED <<day, sessions, issued, revoked, validated, sessionFaults>>

\* A login whose session cannot be written is answered 500, without a token.
CreateWebSession(b) ==
    LET r == request[b]
        s == [token |-> Cardinality(issued) + 1, created |-> r.now]
    IN  /\ r.op = "session"
        /\ Cardinality(issued) < MaxTokens
        /\ \/ /\ \E kept \in Capped(Loaded(r.now) \cup {s}) : Persist(kept)
              /\ issued' = issued \cup {s}
           \/ PersistFails /\ UNCHANGED issued
        /\ Answer(b)
        /\ UNCHANGED <<day, revoked, validated>>

\* A request with a session reads the clock, then asks whether it is valid.
StartRequest(b, s) ==
    /\ request[b] = NoRequest
    /\ Go(b, [op |-> "validate", session |-> s, now |-> day,
              out |-> s.token \in revoked])
    /\ UNCHANGED <<day, sessions, issued, revoked, validated,
                   sessionFaults>>

\* What has expired is also removed from the file, if that can be written.
ValidateWebSession(b) ==
    LET r == request[b] IN
    /\ r.op = "validate"
    /\ validated' = [session |-> r.session, now |-> r.now, out |-> r.out,
                     ok |-> r.session \in Loaded(r.now)]
    /\ \/ Persist(Loaded(r.now))
       \/ Loaded(r.now) # sessions /\ PersistFails
    /\ Answer(b)
    /\ UNCHANGED <<day, issued, revoked>>

StartLogout(b, s) ==
    /\ request[b] = NoRequest
    /\ Go(b, [op |-> "logout", session |-> s, now |-> day])
    /\ UNCHANGED <<day, sessions, issued, revoked, validated,
                   sessionFaults>>

\* Mutant: logging out drops the error of the write.
RevokeAnyway(b) ==
    LET r == request[b] IN
    /\ r.op = "logout"
    /\ Persist(Loaded(r.now) \ {r.session}) \/ PersistFails
    /\ revoked' = revoked \cup {r.session.token}
    /\ Answer(b)
    /\ UNCHANGED <<day, issued, validated>>

\* A logout that cannot be written is answered 500.
RevokeWebSession(b) ==
    LET r == request[b]
        kept == Loaded(r.now) \ {r.session}
    IN  /\ r.op = "logout"
        /\ \/ Persist(kept) /\ revoked' = revoked \cup {r.session.token}
           \/ kept # sessions /\ PersistFails /\ UNCHANGED revoked
        /\ Answer(b)
        /\ UNCHANGED <<day, issued, validated>>

----------------------------------------------------------------------------
\* Only the requests in progress are lost.
RestartServer ==
    /\ \E b \in Browsers : request[b] # NoRequest
    /\ request' = [b \in Browsers |-> NoRequest]
    /\ UNCHANGED <<day, sessions, issued, revoked, validated, sessionFaults>>

TimePasses ==
    /\ day < MaxDays
    /\ day' = day + 1
    /\ UNCHANGED <<sessions, request, issued, revoked, validated,
                   sessionFaults>>

WebNext ==
    \/ \E b \in Browsers :
          \/ StartSession(b)
          \/ CreateWebSession(b)
          \/ \E s \in issued : StartRequest(b, s) \/ StartLogout(b, s)
          \/ ValidateWebSession(b)
          \/ RevokeWebSession(b)
    \/ RestartServer
    \/ TimePasses

WebSpec == WebInit /\ [][WebNext]_webVars

----------------------------------------------------------------------------
\* A session that was answered opens the page until it expires, is logged out
\* or MaxSessions others were created no earlier; one that has expired, or
\* whose logout was answered before the request began, never does.
SessionsLast ==
    "session" \in DOMAIN validated =>
        LET s == validated.session
            rivals == {t \in issued \ {s} : t.created >= s.created}
        IN  /\ validated.ok => Alive(s, validated.now) /\ ~validated.out
            /\ ~validated.ok =>
                  \/ ~Alive(s, day)
                  \/ s.token \in revoked
                  \/ Cardinality(rivals) >= MaxSessions

====
