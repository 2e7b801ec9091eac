---- MODULE LoginThrottle ----
(***************************************************************************)
(* The throttle on failed logins: per client (address and email) the       *)
(* failures of a window and the end of a block, in memory.  A login reads  *)
(* the clock first, asks the throttle under its lock, releases it, checks  *)
(* the password and then records the outcome under the lock again, with    *)
(* the time it read at the beginning.                                      *)
(***************************************************************************)
EXTENDS Naturals, FiniteSets

CONSTANTS Logins,          \* handlers of POST /auth/login
          Clients,         \* address and email
          FailureLimit,    \* failures before a block: 5
          FailureWindow,   \* their window: 5 minutes
          BlockTime,       \* length of a block: 1 minute
          MaxClients,      \* clients remembered: 1024
          MaxDelay,        \* longest a login takes, well under a block
          MaxTime, MaxGuesses

ASSUME ThrottleAssumption ==
    /\ IsFiniteSet(Logins) /\ Logins # {}
    /\ FailureLimit \in Nat \ {0, 1}
    /\ BlockTime \in Nat /\ MaxDelay \in Nat /\ 2 * MaxDelay < BlockTime
    /\ FailureWindow \in Nat /\ BlockTime <= FailureWindow
    /\ MaxTime \in Nat \ {0} /\ MaxGuesses \in Nat

VARIABLES time,
          attempts,        \* loginThrottleState.attempts
          login,           \* per handler: how far its login is
          guesses          \* history: the wrong passwords since a client was
                           \* last right, forgotten or restarted

throttleVars == <<time, attempts, login, guesses>>

\* Zero is the zero time of Go: never.
NoAttempts == [failures |-> 0, started |-> 0, blocked |-> 0, last |-> 0]
Waiting == [at |-> "waiting"]
Guess == [client : Clients, time : 1..MaxTime, nth : 0..(MaxGuesses - 1)]

ThrottleTypeOK ==
    /\ time \in 1..MaxTime
    /\ attempts \in [Clients -> [failures : 0..MaxGuesses, started : 0..MaxTime,
                                 blocked : 0..(MaxTime + BlockTime),
                                 last : 0..MaxTime]]
    /\ login \in [Logins -> {Waiting} \cup [at : {"throttle", "password"},
                                           client : Clients, now : 1..MaxTime]]
    /\ guesses \subseteq Guess

ThrottleInit == /\ time = 1
                /\ attempts = [c \in Clients |-> NoAttempts]
                /\ login = [h \in Logins |-> Waiting]
                /\ guesses = {}

Remembered(a) == {c \in Clients : a[c] # NoAttempts}

\* pruneLoginThrottleLocked: what is stale goes, then the oldest until no more
\* than MaxClients are left; of several as old, whichever the map yields.
Pruned(now) ==
    LET a == [c \in Clients |->
                IF attempts[c].last + FailureWindow + BlockTime >= now
                   \/ attempts[c].blocked >= now
                  THEN attempts[c] ELSE NoAttempts]
    IN  {[c \in Clients |-> IF c \in kept THEN a[c] ELSE NoAttempts] :
           kept \in {k \in SUBSET Remembered(a) :
             /\ \/ k = Remembered(a) /\ Cardinality(k) <= MaxClients
                \/ k # Remembered(a) /\ Cardinality(k) = MaxClients
             /\ \A c \in k, d \in Remembered(a) \ k : a[c].last >= a[d].last}}

\* The guesses of a client that is forgotten before its time start anew.
Forget(a) ==
    {g \in guesses :
        a[g.client] # NoAttempts \/ attempts[g.client] = NoAttempts}

StartLogin(h, c) ==
    /\ login[h] = Waiting
    /\ login' = [login EXCEPT ![h] =
                   [at |-> "throttle", client |-> c, now |-> time]]
    /\ UNCHANGED <<time, attempts, guesses>>

LoginRetryAfter(h) ==
    LET l == login[h] IN
    /\ l.at = "throttle"
    /\ attempts' \in Pruned(l.now)
    /\ login' = [login EXCEPT ![h] =
                   IF l.now < attempts'[l.client].blocked
                     THEN Waiting ELSE [l EXCEPT !.at = "password"]]
    /\ guesses' = Forget(attempts')
    /\ UNCHANGED time

\* Mutant: a failure does not count those before it.
CountedAlone(s, now) ==
    [failures |-> 1, started |-> now, last |-> now,
     blocked |-> IF FailureLimit = 1 THEN now + BlockTime ELSE 0]

\* One more failure: in a window of its own when the last one is over, or
\* when its block has passed.
Counted(s, now) ==
    LET fresh == \/ s.started = 0
                 \/ now >= s.started + FailureWindow
                 \/ s.blocked # 0 /\ now >= s.blocked
        n == IF fresh THEN 1 ELSE s.failures + 1
    IN  [failures |-> n,
         started  |-> IF fresh THEN now ELSE s.started,
         last     |-> now,
         blocked  |-> IF n >= FailureLimit THEN now + BlockTime
                      ELSE IF fresh THEN 0 ELSE s.blocked]

RecordFailedLogin(h) ==
    LET l == login[h] IN
    /\ l.at = "password"
    /\ Cardinality(guesses) < MaxGuesses
    /\ \E a \in Pruned(l.now) :
          /\ attempts' = [a EXCEPT ![l.client] = Counted(@, l.now)]
          /\ guesses' = Forget(a) \cup
                {[client |-> l.client, time |-> l.now,
                  nth |-> CHOOSE n \in 0..(MaxGuesses - 1) :
                            \A g \in guesses : g.nth # n]}
    /\ login' = [login EXCEPT ![h] = Waiting]
    /\ UNCHANGED time

\* The right password.
ClearFailedLogins(h) ==
    LET l == login[h] IN
    /\ l.at = "password"
    /\ attempts' = [attempts EXCEPT ![l.client] = NoAttempts]
    /\ guesses' = {g \in guesses : g.client # l.client}
    /\ login' = [login EXCEPT ![h] = Waiting]
    /\ UNCHANGED time

RestartThrottle ==
    /\ Remembered(attempts) # {}
    /\ attempts' = [c \in Clients |-> NoAttempts]
    /\ login' = [h \in Logins |-> Waiting]
    /\ guesses' = {}
    /\ UNCHANGED time

ThrottleTick == /\ time < MaxTime
                /\ \A h \in Logins :
                      login[h] # Waiting => time < login[h].now + MaxDelay
                /\ time' = time + 1
                /\ UNCHANGED <<attempts, login, guesses>>

ThrottleNext == \/ \E h \in Logins : \/ \E c \in Clients : StartLogin(h, c)
                                     \/ LoginRetryAfter(h)
                                     \/ RecordFailedLogin(h)
                                     \/ ClearFailedLogins(h)
                \/ RestartThrottle
                \/ ThrottleTick

ThrottleSpec == ThrottleInit /\ [][ThrottleNext]_throttleVars

----------------------------------------------------------------------------
\* The failures of a client are counted in series: one begins when the window
\* of the last is over, or its block.  In a stretch as long as a block less
\* twice the time a login takes (a failure recorded late sets the end of the
\* block back, and a login may ask the throttle late) fall the end of one series
\* and the beginning of the next at most.  Each is cut off at the limit, and by
\* one for each other login that was past the throttle by then; of the first,
\* the failure it began with is too old, and one such login begins the second.
Stretch(t) == {g \in guesses :
                 g.time >= t /\ g.time < t + BlockTime - 2 * MaxDelay}

GuessesAreLimited ==
    \A c \in Clients, t \in 1..MaxTime :
        Cardinality({g \in Stretch(t) : g.client = c})
          <= 2 * (FailureLimit + Cardinality(Logins) - 2)
====
