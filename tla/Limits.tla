------------------------------- MODULE Limits -------------------------------
(***************************************************************************)
(* The two limiters in front of the daemon's handlers                      *)
(* (backend/internal/api/api.go throttle, rateLimiter): a back-off per     *)
(* address after rejected credentials, and a sliding window per account.   *)
(* Both are maps in memory under a lock of their own that are swept when   *)
(* they grow, and read one clock, which only moves forward here.  The      *)
(* throttle reads it under its lock; the rate limiter before it takes its  *)
(* lock, so that a request may enter with a reading older than the one     *)
(* before it.                                                              *)
(***************************************************************************)
EXTENDS Integers, Sequences, FiniteSets, Functions

CONSTANTS
    Addrs,      \* client addresses, the keys of the throttle
    Users,      \* accounts, the keys of the rate limiter
    FreeFails,  \* the rejection that earns the first lockout (5)
    MaxBackoff, \* the longest lockout (30 times the first)
    Window,     \* length of the rate limiter's window
    RateMax,    \* requests admitted in one window
    FailsLimit, \* the throttle sweeps a map with more keys (4096)
    HitsLimit   \* and so does the rate limiter (4096)

ASSUME LimitsAssumption ==
    /\ FreeFails \in Nat \ {0}
    /\ MaxBackoff \in Nat \ {0}
    /\ Window \in Nat \ {0}
    /\ RateMax \in Nat \ {0}
    /\ FailsLimit \in Nat
    /\ HitsLimit \in Nat

VARIABLES
    clock,      \* the time
    fails,      \* throttle.fails; until is 0 as long as no lockout was earned
    hits        \* rateLimiter.hits: per account timestamps, by the number of the admission

limits == <<clock, fails, hits>>

FailRec == [count : Nat \ {0}, until : Nat]

LimitsTypeOK ==
    /\ clock \in Nat \ {0}
    /\ DOMAIN fails \subseteq Addrs
    /\ \A a \in DOMAIN fails : fails[a] \in FailRec
    /\ DOMAIN hits \subseteq Users
    /\ \A u \in DOMAIN hits :
           /\ DOMAIN hits[u] \subseteq Nat \ {0}
           /\ \A n \in DOMAIN hits[u] : hits[u][n] \in Nat
           /\ Cardinality(DOMAIN hits[u]) \in 1 .. RateMax

LimitsInit ==
    /\ clock = 1
    /\ fails = <<>>
    /\ hits = <<>>
-----------------------------------------------------------------------------
(* throttle *)

\* An assignment to a map.
Put(map, key, val) == [k \in DOMAIN map \cup {key} |-> IF k = key THEN val ELSE map[k]]

Blocked(a) == a \in DOMAIN fails /\ clock < fails[a].until

\* The lockout grows by one unit with every rejection, up to its maximum.
Backoff(n) == IF n - FreeFails + 1 > MaxBackoff THEN MaxBackoff ELSE n - FreeFails + 1

\* fail.  A map that has grown large first forgets who is not locked out.
Failed(a) ==
    LET kept == IF Cardinality(DOMAIN fails) > FailsLimit
                THEN RestrictValues(fails, LAMBDA r : clock <= r.until)
                ELSE fails
        n    == IF a \in DOMAIN kept THEN kept[a].count + 1 ELSE 1
    IN  Put(kept, a, [count |-> n, until |-> IF n >= FreeFails THEN clock + Backoff(n) ELSE 0])

\* MUTANT of Passed: the rejections before it stay on the count.
PassedKeeps(a) == fails

\* ok
Passed(a) == Restrict(fails, DOMAIN fails \ {a})

-----------------------------------------------------------------------------
(* rateLimiter *)

\* Whether a timestamp counts for a request that read the clock at now.
Recent(t, now) == t > now - Window

\* MUTANT of Idle: the first admission is looked at.
IdleByFirst(ts, now) == \E n \in DOMAIN ts : ~Recent(ts[n], now) /\ \A m \in DOMAIN ts : n <= m

\* The account's last admission is too old to count.
Idle(ts, now) == \E n \in DOMAIN ts : ~Recent(ts[n], now) /\ \A m \in DOMAIN ts : m <= n

\* A map that has grown large first forgets the accounts that are idle.
Active(now) ==
    IF Cardinality(DOMAIN hits) > HitsLimit
    THEN RestrictValues(hits, LAMBDA ts : ~Idle(ts, now))
    ELSE hits

\* Of the account's timestamps, the ones that count.
Kept(u, now) ==
    IF u \in DOMAIN Active(now)
    THEN RestrictValues(Active(now)[u], LAMBDA t : Recent(t, now))
    ELSE <<>>

\* MUTANT of Allowed: one too many.
AllowedOneMore(u, now) == Cardinality(DOMAIN Kept(u, now)) <= RateMax

Allowed(u, now) == Cardinality(DOMAIN Kept(u, now)) < RateMax

\* allow: what it leaves in the map, where n numbers what it may let through.
Counted(u, now, n) ==
    Put(Active(now), u, IF Allowed(u, now) THEN Put(Kept(u, now), n, now) ELSE Kept(u, now))
=============================================================================
