---------------------------- MODULE LoginThrottle ----------------------------
(***************************************************************************)
(* The limiter of refused logins (internal/api/throttle.go).  An entry per  *)
(* profile and client counts failures in a window, locks out, and admits   *)
(* one attempt at a time; the table is bounded as a whole and per client.  *)
(* loginHandler begins an attempt, compares the PIN without the mutex,     *)
(* records one result or none, and releases.  Time is a clock.             *)
(***************************************************************************)
EXTENDS Naturals, Sequences, FiniteSets

CONSTANTS
    Keys,     \* profile-and-client pairs
    Clients,
    ClientOf, \* the client of a key
    Logins,   \* requests at work
    MaxFailures, MaxEntries, MaxPerClient, Window, Lockout,   \* the code's limits
    MaxTime   \* bound: the clock

ASSUME ThrottleAssumption ==
    /\ {MaxFailures, MaxEntries, MaxPerClient} \subseteq Nat \ {0}
    /\ {Window, Lockout, MaxTime} \subseteq Nat
    /\ ClientOf \in [Keys -> Clients]
    /\ Lockout <= Window

VARIABLES
    clock,
    entries,       \* throttleEntry by key
    clientEntries, \* entries by client
    at,            \* where each login is, and for which key
    refused        \* history: times of the latest failures by key

throttleVars == <<clock, entries, clientEntries, at, refused>>

-----------------------------------------------------------------------------
NoThrottle == [known |-> FALSE, failures |-> 0, windowStart |-> 0, lockedUntil |-> 0,
               lastSeen |-> 0, inFlight |-> FALSE]

NewEntry == [NoThrottle EXCEPT !.known = TRUE, !.windowStart = clock]

Known(es) == {k \in Keys : es[k].known}

(* The history GuessesLimited needs.                                       *)
Latest(times) == IF Len(times) > 2 * MaxFailures THEN Tail(times) ELSE times

TableFull(es, cs, k) ==
    Cardinality(Known(es)) >= MaxEntries \/ cs[ClientOf[k]] >= MaxPerClient

NoAttempt == [pc |-> "idle", key |-> CHOOSE k \in Keys : TRUE]

ThrottleInit ==
    /\ clock = 0
    /\ entries = [k \in Keys |-> NoThrottle]
    /\ clientEntries = [c \in Clients |-> 0]
    /\ at = [l \in Logins |-> NoAttempt]
    /\ refused = [k \in Keys |-> << >>]

(* pruneLocked: what it may forget.                                        *)
StaleEntry(k) ==
    LET e == entries[k] IN
    e.known /\ ~e.inFlight /\ clock >= e.lockedUntil /\ clock >= e.lastSeen + Window

(* deleteEntryLocked on a set of keys.                                     *)
WithoutEntries(gone) == [k \in Keys |-> IF k \in gone THEN NoThrottle ELSE entries[k]]

CountsWithout(gone) ==
    [c \in Clients |-> clientEntries[c] - Cardinality({k \in gone : ClientOf[k] = c})]

-----------------------------------------------------------------------------
(* Faulty Fail: locks out one failure late.                                *)
FailLate(l) ==
    LET k == at[l].key
        e == entries[k]
        over == clock >= e.windowStart + Window
        n == IF over THEN 1 ELSE e.failures + 1 IN
    /\ at[l].pc = "comparing" /\ e.known
    /\ entries' = [entries EXCEPT ![k].failures = n,
                                  ![k].windowStart = IF over THEN clock ELSE @,
                                  ![k].lastSeen = clock,
                                  ![k].lockedUntil = IF n > MaxFailures
                                                        THEN clock + Lockout ELSE @]
    /\ at' = [at EXCEPT ![l].pc = "recorded"]
    /\ refused' = [refused EXCEPT ![k] = Latest(Append(@, clock))]
    /\ UNCHANGED <<clock, clientEntries>>

-----------------------------------------------------------------------------
(* beginAttempt on a key that has an entry.                                *)
BeginAgain(l, k) ==
    LET e == entries[k] IN
    /\ at[l] = NoAttempt /\ e.known /\ clock >= e.lockedUntil /\ ~e.inFlight
    /\ entries' = [entries EXCEPT ![k].inFlight = TRUE, ![k].lastSeen = clock]
    /\ at' = [at EXCEPT ![l] = [pc |-> "comparing", key |-> k]]
    /\ UNCHANGED <<clock, clientEntries, refused>>

(* On a new key; a full table is pruned first, and may stay full.          *)
BeginNew(l, k) ==
    LET gone == IF TableFull(entries, clientEntries, k) THEN {j \in Keys : StaleEntry(j)} ELSE {}
        es == WithoutEntries(gone)
        cs == CountsWithout(gone) IN
    /\ at[l] = NoAttempt /\ ~entries[k].known
    /\ IF TableFull(es, cs, k)
          THEN entries' = es /\ clientEntries' = cs /\ UNCHANGED at
          ELSE /\ entries' = [es EXCEPT ![k] = [NewEntry EXCEPT !.inFlight = TRUE,
                                                             !.lastSeen = clock]]
               /\ clientEntries' = [cs EXCEPT ![ClientOf[k]] = @ + 1]
               /\ at' = [at EXCEPT ![l] = [pc |-> "comparing", key |-> k]]
    /\ UNCHANGED <<clock, refused>>

(* recordFailure.                                                          *)
Fail(l) ==
    LET k == at[l].key
        e == entries[k]
        over == clock >= e.windowStart + Window
        n == IF over THEN 1 ELSE e.failures + 1 IN
    /\ at[l].pc = "comparing" /\ e.known
    /\ entries' = [entries EXCEPT ![k].failures = n,
                                  ![k].windowStart = IF over THEN clock ELSE @,
                                  ![k].lastSeen = clock,
                                  ![k].lockedUntil = IF n >= MaxFailures
                                                        THEN clock + Lockout ELSE @]
    /\ at' = [at EXCEPT ![l].pc = "recorded"]
    /\ refused' = [refused EXCEPT ![k] = Latest(Append(@, clock))]
    /\ UNCHANGED <<clock, clientEntries>>

(* recordSuccess: the history goes, the reservation stays.                 *)
Succeed(l) ==
    LET k == at[l].key IN
    /\ at[l].pc = "comparing"
    /\ entries' = IF entries[k].known
                     THEN [entries EXCEPT ![k].failures = 0, ![k].lockedUntil = 0]
                     ELSE entries
    /\ at' = [at EXCEPT ![l].pc = "recorded"]
    /\ refused' = [refused EXCEPT ![k] = << >>]
    /\ UNCHANGED <<clock, clientEntries>>

(* releaseAttempt, deferred: also after an error that recorded nothing.    *)
Release(l) ==
    LET k == at[l].key
        e == entries[k]
        gone == IF e.known /\ e.failures = 0 /\ e.lockedUntil = 0 THEN {k} ELSE {} IN
    /\ at[l].pc # "idle"
    /\ entries' = [WithoutEntries(gone) EXCEPT ![k].inFlight = FALSE]
    /\ clientEntries' = CountsWithout(gone)
    /\ at' = [at EXCEPT ![l] = NoAttempt]
    /\ UNCHANGED <<clock, refused>>

Sweep ==
    LET gone == {k \in Keys : StaleEntry(k)} IN
    /\ gone # {}
    /\ entries' = WithoutEntries(gone) /\ clientEntries' = CountsWithout(gone)
    /\ UNCHANGED <<clock, at, refused>>

Tick ==
    /\ clock < MaxTime
    /\ clock' = clock + 1
    /\ UNCHANGED <<entries, clientEntries, at, refused>>

ThrottleNext == \/ \E l \in Logins : \/ Fail(l) \/ Succeed(l) \/ Release(l)
                             \/ \E k \in Keys : BeginAgain(l, k) \/ BeginNew(l, k)
        \/ Sweep \/ Tick

ThrottleSpec == ThrottleInit /\ [][ThrottleNext]_throttleVars

-----------------------------------------------------------------------------
Comparing(k) == {l \in Logins : at[l].pc # "idle" /\ at[l].key = k}

(* The two counts of the table agree and keep their limits; an entry that  *)
(* goes because of a success, a sweep or an overflow is counted out once   *)
(* (deleteEntryLocked).                                                    *)
TableCounted ==
    /\ \A c \in Clients :
          clientEntries[c] = Cardinality({k \in Known(entries) : ClientOf[k] = c})
    /\ \A c \in Clients : clientEntries[c] <= MaxPerClient
    /\ Cardinality(Known(entries)) <= MaxEntries

(* One attempt at a time per profile and client, from its admission to its *)
(* release, and its entry is there all the while: the deferred release of  *)
(* one attempt never ends another's reservation (beginAttempt).            *)
OneAttempt ==
    \A k \in Keys :
        /\ Cardinality(Comparing(k)) <= 1
        /\ Comparing(k) # {} <=> entries[k].inFlight

(* However attempts, sweeps and windows fall together, any stretch of time *)
(* as long as a lockout sees fewer failures of one key than two thresholds *)
(* (one before a window ends and one after), unless one succeeded between. *)
GuessesLimited ==
    \A k \in Keys : LET times == refused[k] IN
        \A i \in DOMAIN times :
            i + 2 * MaxFailures - 1 \in DOMAIN times =>
                times[i + 2 * MaxFailures - 1] >= times[i] + Lockout
=============================================================================
