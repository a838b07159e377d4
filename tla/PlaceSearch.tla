---------------------------- MODULE PlaceSearch ----------------------------
(***************************************************************************)
(* The place search proxy (backend/internal/geocode/geocode.go Service)    *)
(* behind its handlers and their rate limiter (api.go geocodeSuggest,      *)
(* geocodeResolve): two caches and a budget of upstream calls per UTC day  *)
(* under one lock, and the upstream call outside it, so that lookups       *)
(* overlap, of one input and of one account too.  Suggest and Resolve      *)
(* differ in their cache.                                                  *)
(***************************************************************************)
EXTENDS Limits

CONSTANTS
    Searches,   \* lookups that can be under way at once
    Queries,    \* inputs of Suggest
    PlaceIds,   \* inputs of Resolve
    DailyCap,   \* upstream calls per day, 0 for no limit
    DayLength,  \* of the UTC day
    CacheTtl,   \* an entry younger than this is served (1 h)
    CacheCap,   \* entries after which a cache is emptied (2048)
    MaxTime     \* bound on the clock

ASSUME PlaceSearchAssumption ==
    /\ Queries \cap PlaceIds = {}
    /\ DailyCap \in Nat
    /\ DayLength \in Nat \ {0}
    /\ CacheTtl \in Nat
    /\ CacheCap \in Nat \ {0}
    /\ MaxTime \in Nat \ {0}

VARIABLES
    cache,      \* Service.sugg and Service.place: when each input's answer came
    day, spent, \* the budget's current day and what was spent on it
    lookup,     \* the lookups under way
    newest,     \* history: the latest reading of the clock the rate limiter was entered with
    admitted,   \* history: per account, the readings its lookups were let through with,
                \* and whether a later reading had entered first
    called,     \* history: upstream calls charged per day
    lives       \* history: how many lives of the daemon saw each day

placeSearch == <<cache, day, spent, lookup, newest, admitted, called, lives>>

Inputs == Queries \cup PlaceIds
Days   == 0 .. MaxTime \div DayLength
Today  == clock \div DayLength

Lookup == {[pc |-> "idle"]}
          \cup [pc : {"read"}, user : Users, input : Inputs, now : Nat]
          \cup [pc : {"missed", "asking"}, input : Inputs]
Admission == [at : Nat, late : BOOLEAN]

PlaceSearchTypeOK ==
    /\ DOMAIN cache \subseteq Inputs
    /\ \A i \in DOMAIN cache : cache[i] \in Nat
    /\ \A K \in {Queries, PlaceIds} : Cardinality(K \cap DOMAIN cache) <= CacheCap
    /\ day \in Days
    /\ spent \in Nat
    /\ lookup \in [Searches -> Lookup]
    /\ newest \in Nat
    /\ admitted \in [Users -> Seq(Admission)]
    /\ called \in [Days -> Nat]
    /\ lives \in [Days -> Nat]

PlaceSearchInit ==
    /\ cache = <<>>
    /\ day = 0
    /\ spent = 0
    /\ lookup = [s \in Searches |-> [pc |-> "idle"]]
    /\ newest = 0
    /\ admitted = [u \in Users |-> <<>>]
    /\ called = [d \in Days |-> 0]
    /\ lives = [d \in Days |-> 1]

-----------------------------------------------------------------------------
Fresh(i) == i \in DOMAIN cache /\ clock - cache[i] < CacheTtl

\* geocodeSuggest and geocodeResolve: the rate limiter reads the clock ...
Ask(s, u, i) ==
    /\ lookup[s].pc = "idle"
    /\ lookup' = [lookup EXCEPT ![s] = [pc |-> "read", user |-> u, input |-> i, now |-> clock]]
    /\ UNCHANGED <<limits, cache, day, spent, newest, admitted, called, lives>>

\* ... and takes its lock, whoever took it in between; then the cache.
Enter(s) ==
    LET u == lookup[s].user
        t == lookup[s].now
    IN  /\ lookup[s].pc = "read"
        /\ hits' = Counted(u, t, Len(admitted[u]) + 1)
        /\ newest' = IF t < newest THEN newest ELSE t
        /\ admitted' = IF Allowed(u, t)
               THEN [admitted EXCEPT ![u] = Append(@, [at |-> t, late |-> t < newest])]
               ELSE admitted
        /\ lookup' = [lookup EXCEPT ![s] =
               IF Allowed(u, t) /\ ~Fresh(@.input) THEN [pc |-> "missed", input |-> @.input]
               ELSE [pc |-> "idle"]]
        /\ UNCHANGED <<clock, fails, cache, day, spent, called, lives>>

\* charge: a new day starts at nothing.
SpentToday == IF day # Today THEN 0 ELSE spent

\* MUTANT of Affordable: what was spent is looked at before the day is.
AffordableNow == DailyCap = 0 \/ day # Today \/ spent <= DailyCap

Affordable == DailyCap = 0 \/ SpentToday < DailyCap

Charge(s) ==
    /\ lookup[s].pc = "missed"
    /\ IF DailyCap = 0 THEN UNCHANGED <<day, spent>>
       ELSE /\ day' = Today
            /\ spent' = SpentToday + IF Affordable THEN 1 ELSE 0
    /\ lookup' = [lookup EXCEPT ![s] =
                     IF Affordable THEN [@ EXCEPT !.pc = "asking"] ELSE [pc |-> "idle"]]
    /\ called' = [called EXCEPT ![Today] = @ + IF Affordable THEN 1 ELSE 0]
    /\ UNCHANGED <<limits, cache, newest, admitted, lives>>

\* A cache that is full is emptied, be the entry new or not.
Stored(i) ==
    LET kind == IF i \in Queries THEN Queries ELSE PlaceIds
        full == Cardinality(kind \cap DOMAIN cache) >= CacheCap
    IN  Put(IF full THEN Restrict(cache, DOMAIN cache \ kind) ELSE cache, i, clock)

Answer(s) ==
    /\ lookup[s].pc = "asking"
    /\ cache' = Stored(lookup[s].input)
    /\ lookup' = [lookup EXCEPT ![s] = [pc |-> "idle"]]
    /\ UNCHANGED <<limits, day, spent, newest, admitted, called, lives>>

\* An error or a timeout: nothing is kept, and nothing is given back.
Fail(s) ==
    /\ lookup[s].pc = "asking"
    /\ lookup' = [lookup EXCEPT ![s] = [pc |-> "idle"]]
    /\ UNCHANGED <<limits, cache, day, spent, newest, admitted, called, lives>>
=============================================================================
