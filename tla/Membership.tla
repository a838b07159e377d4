----------------------------- MODULE Membership -----------------------------
(***************************************************************************)
(* The client that resolves contax personal groups                         *)
(* (backend/internal/contax/contax.go): membership is owned by another     *)
(* service and asked for over HTTP; an answer is cached for a while, the   *)
(* cache is looked at under a lock and the fetch runs outside it, so that  *)
(* lookups overlap and answers arrive out of order.  Groups do not affect  *)
(* each other: one group stands for all.                                   *)
(***************************************************************************)
EXTENDS Integers

CONSTANTS
    Users,      \* account names, each with at most one lookup under way
    None,       \* no cache entry
    Ttl,        \* an entry younger than this is served (90 s)
    Timeout,    \* the HTTP client gives up after this long (8 s)
    MaxTime     \* bound on the clock

ASSUME MembershipAssumption ==
    /\ Ttl \in Nat \ {0}
    /\ Timeout \in Nat
    /\ MaxTime \in Nat

VARIABLES
    clock,      \* the time
    group,      \* who is in the group, as contax knows it
    entry,      \* Client.cache[grpID]
    call,       \* per user, the lookup a request of theirs is waiting for
    lastIn      \* history: when each user was last in the group, -1 for never

membership == <<clock, group, entry, call, lastIn>>

Entry   == [members : SUBSET Users, at : Nat]
Waiting == [pc |-> "idle"]
Call    == {Waiting}
           \cup [pc : {"asking"}, since : Nat, old : Entry \cup {None}]
           \cup [pc : {"answered"}, since : Nat, old : Entry \cup {None}, got : SUBSET Users]
           \cup [pc : {"told"}, members : SUBSET Users, stale : BOOLEAN]

MembershipTypeOK ==
    /\ clock \in Nat
    /\ group \subseteq Users
    /\ entry \in Entry \cup {None}
    /\ call \in [Users -> Call]
    /\ lastIn \in [Users -> Nat \cup {-1}]

MembershipInit ==
    /\ clock = 0
    /\ group = {}
    /\ entry = None
    /\ call = [u \in Users |-> Waiting]
    /\ lastIn = [u \in Users |-> -1]

-----------------------------------------------------------------------------
\* contax's side: somebody joins or leaves the group.
SetMembers(u) ==
    /\ group' = IF u \in group THEN group \ {u} ELSE group \cup {u}
    /\ lastIn' = [lastIn EXCEPT ![u] = clock]
    /\ UNCHANGED <<clock, entry, call>>

\* MUTANT of Pass: the HTTP client has no deadline.
PassNoDeadline ==
    /\ clock < MaxTime
    /\ clock' = clock + 1
    /\ lastIn' = [u \in Users |-> IF u \in group THEN clock + 1 ELSE lastIn[u]]
    /\ UNCHANGED <<group, entry, call>>

\* Time passes, but not beyond the deadline of a fetch under way.
Pass ==
    /\ clock < MaxTime
    /\ \A u \in Users : call[u].pc \in {"asking", "answered"} => clock < call[u].since + Timeout
    /\ clock' = clock + 1
    /\ lastIn' = [u \in Users |-> IF u \in group THEN clock + 1 ELSE lastIn[u]]
    /\ UNCHANGED <<group, entry, call>>

Fresh == entry # None /\ clock - entry.at < Ttl

Told(u, members, stale) ==
    call' = [call EXCEPT ![u] = [pc |-> "told", members |-> members, stale |-> stale]]

\* membersOf: a fresh entry is the answer; otherwise it is kept aside and contax asked.
Ask(u) ==
    /\ call[u] = Waiting
    /\ IF Fresh THEN Told(u, entry.members, FALSE)
       ELSE call' = [call EXCEPT ![u] = [pc |-> "asking", since |-> clock, old |-> entry]]
    /\ UNCHANGED <<clock, group, entry, lastIn>>

\* contax answers with the members of that moment; the response is under way.
Answer(u) ==
    /\ call[u].pc = "asking"
    /\ call' = [call EXCEPT ![u] = [pc |-> "answered", since |-> @.since, old |-> @.old,
                                    got |-> group]]
    /\ UNCHANGED <<clock, group, entry, lastIn>>

\* MUTANT of Fetched: the entry is stamped as if it had already expired.
FetchedExpired(u) ==
    /\ call[u].pc = "answered"
    /\ entry' = [members |-> call[u].got, at |-> clock - Ttl]
    /\ Told(u, call[u].got, FALSE)
    /\ UNCHANGED <<clock, group, lastIn>>

\* The answer replaces the entry, whatever another lookup stored meanwhile.
Fetched(u) ==
    /\ call[u].pc = "answered"
    /\ entry' = [members |-> call[u].got, at |-> clock]
    /\ Told(u, call[u].got, FALSE)
    /\ UNCHANGED <<clock, group, lastIn>>

\* No answer, a timeout or an error status: the expired entry if there was one,
\* else nobody is a member.
FetchFails(u) ==
    /\ call[u].pc \in {"asking", "answered"}
    /\ IF call[u].old = None THEN Told(u, {}, FALSE) ELSE Told(u, call[u].old.members, TRUE)
    /\ UNCHANGED <<clock, group, entry, lastIn>>

MembershipStep ==
    \/ Pass
    \/ \E u \in Users : Answer(u) \/ Fetched(u) \/ FetchFails(u)

-----------------------------------------------------------------------------
\* u is in the group, or left it no longer ago than a cached answer can be old.
RecentMember(u) == lastIn[u] >= 0 /\ clock - lastIn[u] < Ttl + Timeout

\* What the ttl's comment promises: someone removed from a group loses access within
\* the window on the next check (and nobody gains any who was never in the group),
\* however fetches overlap.  A lookup that falls back on an expired entry because
\* contax does not answer is outside it.
StaleAnswersAreRecent ==
    [][\A u \in Users :
          LET answer == call'[u] IN
          /\ answer.pc = "told" /\ answer # call[u]
          /\ ~answer.stale
          /\ u \in answer.members
          => RecentMember(u)]_membership

\* What makes it true: a fetch ends before its deadline; those it brings were in the
\* group when it began or later, those of an entry when the fetch that stored it began.
RecencyInv ==
    /\ \A u \in Users : lastIn[u] <= clock /\ (u \in group => lastIn[u] = clock)
    /\ \A u \in Users : call[u].pc \in {"asking", "answered"} =>
                          call[u].since <= clock /\ clock <= call[u].since + Timeout
    /\ \A u \in Users : call[u].pc = "answered" =>
                          \A v \in call[u].got : lastIn[v] >= call[u].since
    /\ entry # None => \A v \in entry.members : lastIn[v] >= 0 /\ lastIn[v] >= entry.at - Timeout
=============================================================================
