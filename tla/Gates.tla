-------------------------------- MODULE Gates --------------------------------
(***************************************************************************)
(* The gates of the daemon in one process: authentication with app         *)
(* passwords behind the throttle, and place search behind the rate limiter *)
(* and the daily budget.  They share the clock and the daemon's life: all  *)
(* of it is in memory, but for the password file.                          *)
(***************************************************************************)
EXTENDS AppPasswords, PlaceSearch

CONSTANTS
    MaxRequests,    \* bound on what users and clients begin
    MaxFaults       \* bound on restarts, failed reads and failed writes

ASSUME GatesAssumption == MaxRequests \in Nat /\ MaxFaults \in Nat

VARIABLES
    requests, faults

vars == <<limits, appPasswords, placeSearch, requests, faults>>

TypeOK ==
    /\ LimitsTypeOK
    /\ AppPasswordsTypeOK
    /\ PlaceSearchTypeOK
    /\ requests \in 0 .. MaxRequests
    /\ faults \in 0 .. MaxFaults

Init ==
    /\ LimitsInit
    /\ AppPasswordsInit
    /\ PlaceSearchInit
    /\ requests = 0
    /\ faults = 0

-----------------------------------------------------------------------------
Tick ==
    /\ clock < MaxTime
    /\ clock' = clock + 1
    /\ UNCHANGED <<fails, hits, appPasswords, placeSearch, requests, faults>>

\* The process ends and is started again: maps, caches and requests are gone.
Restart ==
    /\ faults < MaxFaults
    /\ faults' = faults + 1
    /\ fails' = <<>>
    /\ hits' = <<>>
    /\ change' = Free
    /\ attempt' = [c \in Clients |-> [pc |-> "idle"]]
    /\ streak' = [a \in Addrs |-> 0]
    /\ cache' = <<>>
    /\ day' = 0
    /\ spent' = 0
    /\ lookup' = [s \in Searches |-> [pc |-> "idle"]]
    /\ newest' = 0
    /\ admitted' = [u \in Users |-> <<>>]
    /\ lives' = [lives EXCEPT ![Today] = @ + 1]
    /\ UNCHANGED <<clock, file, account, life, called, requests>>

Begin ==
    /\ requests < MaxRequests
    /\ requests' = requests + 1
    /\ UNCHANGED faults
    /\ \/ /\ UNCHANGED placeSearch
          /\ \/ \E t \in Tokens : Lock("create", t) \/ Lock("delete", t)
             \/ \E c \in Clients, a \in Addrs, t \in Tokens \cup {Bogus} : Challenge(c, a, t)
             \/ \E a \in Addrs : Session(a)
             \/ SetAccount
       \/ /\ UNCHANGED appPasswords
          /\ \E s \in Searches, u \in Users, i \in Inputs : Ask(s, u, i)

GoOn ==
    /\ UNCHANGED requests
    /\ \/ /\ UNCHANGED placeSearch
          /\ \/ Save /\ UNCHANGED faults
             \/ SaveFails /\ faults < MaxFaults /\ faults' = faults + 1
             \/ \E c \in Clients :
                   \/ Verify(c) /\ \/ ~attempt'[c].ev.io /\ UNCHANGED faults
                                   \/ attempt'[c].ev.io /\ faults < MaxFaults /\ faults' = faults + 1
                   \/ Settle(c) /\ UNCHANGED faults
       \/ /\ UNCHANGED <<appPasswords, faults>>
          /\ \E s \in Searches : Enter(s) \/ Charge(s) \/ Answer(s) \/ Fail(s)

Next == Tick \/ Restart \/ Begin \/ GoOn

Spec == Init /\ [][Next]_vars

-----------------------------------------------------------------------------
(* Properties *)

\* What a native client is told was true while it asked: it is accepted only if its
\* password was one and its account existed, each at some moment of the request; it is
\* refused only if one of them did not hold at some moment, or the file could not be
\* read; and it is told to come back later only if its address has had enough
\* rejections in a row.  A password that was handed out is never lost with another
\* one's creation or deletion, nor one that was deleted brought back.
VerdictsAreHonest ==
    \A c \in Clients :
        /\ attempt[c].pc = "accepted" =>
               TRUE \in attempt[c].ev.valid /\ TRUE \in attempt[c].ev.exists
        /\ attempt[c].pc = "refused" =>
               \/ FALSE \in attempt[c].ev.valid
               \/ FALSE \in attempt[c].ev.exists
               \/ attempt[c].ev.io
        /\ attempt[c].pc = "later" => attempt[c].earned

\* The daily budget is a ceiling whatever overlaps: parallel misses, days that end with
\* lookups under way, failures.  Only a restart, which forgets what was spent, grants
\* it again.
BudgetHolds ==
    DailyCap > 0 => \A d \in Days : called[d] <= DailyCap * lives[d]

\* From one admission of an account to the one RateMax later a window passes, wherever
\* it begins and though the map is trimmed on every request and swept when it grows;
\* unless one of the admissions after the first was late: it had read the clock before
\* a request that entered ahead of it.
RateHolds ==
    \A u \in Users : \A i, j \in DOMAIN admitted[u] :
        /\ i + RateMax <= j
        /\ \A k \in i + 1 .. j : ~admitted[u][k].late
        => admitted[u][i].at + Window <= admitted[u][j].at

\* The two ceilings of place search hold together: the budget of the instance per day,
\* counted when a call is charged, and the rate of each account in every window in
\* which its requests entered the limiter in the order of their readings.
CeilingsHold == BudgetHolds /\ RateHolds

-----------------------------------------------------------------------------
(* What makes them inductive *)

\* The file is the history of its tokens, and who holds the lock has read it as it is.
FileInv ==
    /\ file = {t \in Tokens : life[t] = "valid"}
    /\ change # Free =>
           /\ change.list = file
           /\ life[change.tok] = IF change.op = "create" THEN "unborn" ELSE "valid"

\* A request under way has witnessed the present, and its match is one it witnessed.
AttemptInv ==
    \A c \in Clients :
        /\ attempt[c].pc \in {"verify", "settle"} =>
               /\ IsValid(life, attempt[c].ev.tok) \in attempt[c].ev.valid
               /\ account \in attempt[c].ev.exists
        /\ attempt[c].pc = "settle" =>
               \/ attempt[c].match \in attempt[c].ev.valid
               \/ ~attempt[c].match /\ attempt[c].ev.io

\* The throttle holds nothing against an address that did not happen: sweeping and
\* acceptances may make it forget, never invent.
ThrottleInv ==
    \A a \in DOMAIN fails :
        /\ fails[a].count <= streak[a]
        /\ fails[a].until > 0 => fails[a].count >= FreeFails

\* What is charged today is on the budget of this life or of an earlier one.
BudgetInv ==
    /\ day <= Today
    /\ \A d \in Days : lives[d] > 0 /\ (d > Today => called[d] = 0)
    /\ BudgetHolds
    /\ DailyCap > 0 => /\ SpentToday <= DailyCap
                       /\ called[Today] <= DailyCap * (lives[Today] - 1) + SpentToday

\* What the rate limiter remembers was admitted, and what it has forgotten is a window
\* old, unless a late admission came after it; an admission that was not late has the
\* latest reading so far.
Remembers(all, kept) ==
    /\ DOMAIN kept \subseteq DOMAIN all
    /\ \A i \in DOMAIN kept : kept[i] = all[i].at
    /\ \A i \in DOMAIN all :
           /\ all[i].at <= newest
           /\ ~all[i].late => \A h \in 1 .. i : all[h].at <= all[i].at
           /\ i \notin DOMAIN kept /\ (\A k \in i + 1 .. Len(all) : ~all[k].late)
                  => all[i].at + Window <= newest

Remembered(u) == IF u \in DOMAIN hits THEN hits[u] ELSE <<>>

RateInv ==
    /\ \A u \in Users : Remembers(admitted[u], Remembered(u))
    /\ RateHolds

GatesInv ==
    /\ TypeOK
    /\ clock <= MaxTime
    /\ IsFiniteSet(DOMAIN cache)
    /\ FileInv
    /\ AttemptInv
    /\ ThrottleInv
    /\ BudgetInv
    /\ RateInv
    /\ VerdictsAreHonest
==============================================================================
