------------------------------- MODULE Stream -------------------------------
(***************************************************************************)
(* The live channel: the store emits every committed change to the push    *)
(* hub (backend/internal/push/push.go), which sends it without blocking to *)
(* the buffered channel of each subscriber; one Server-Sent-Events handler *)
(* (api.go stream) per subscriber says hello, replays from the change-log  *)
(* and then forwards its channel; the browser's EventSource remembers the  *)
(* id of the last frame and reconnects with it.                            *)
(*                                                                         *)
(* One user's client, one connection at a time: subscribers do not affect  *)
(* each other.  A change is its seq; log[s] is the calendar of change s.   *)
(***************************************************************************)
EXTENDS Naturals, Sequences, FiniteSets

CONSTANTS
    Cals,       \* the calendars of all users
    Owner,      \* Owner[c] is the user who owns calendar c
    Me,         \* the user whose client this is
    Cap,        \* capacity of a subscriber's channel (64)
    MaxSeq,     \* bound on the number of changes
    MaxConnects,\* bound on the number of connections
    MaxFails    \* bound on the handler's queries that fail

ASSUME StreamAssumption ==
    /\ Cap \in Nat \ {0}
    /\ MaxSeq \in Nat
    /\ MaxConnects \in Nat
    /\ MaxFails \in Nat

Own == {c \in Cals : Owner[c] = Me}

VARIABLES
    log,        \* the change-log: the calendar of each committed change, by seq
    trimmed,    \* the seqs whose change-log rows are gone
    pub,        \* the change committed but not yet emitted (the writer holds Store.mu), or 0
    granted,    \* the calendars of others the user can see now
    phase,      \* the handler: "closed", "access", "subscribed", "replaying", "live"
    access,     \* sub.access: the shared calendars as of the connect
    since,      \* the request's Last-Event-ID, 0 for none
    hello,      \* the position the handler announced
    joined,     \* history: the position of the change-log when it did
    replayed,   \* history: a replay was asked for and its query succeeded
    replay,     \* changes read from the change-log and not yet written
    ch,         \* sub.ch
    wire,       \* frames written and not yet received, in order
    lastId,     \* the client's last event id
    seen,       \* the changes the client has been told of
    dropped,    \* history: changes of this connection the full channel dropped
    connects,   \* connections so far, bounded by MaxConnects
    fails       \* failed queries so far, bounded by MaxFails

position == <<since, hello, joined, replayed>>
vars == <<log, trimmed, pub, granted, phase, access, position, replay, ch, wire, lastId, seen,
          dropped, connects, fails>>

Seqs  == 1 .. Len(log)
Frame == [id : Nat, change : BOOLEAN]
Ids(frames) == {frames[i].id : i \in {j \in DOMAIN frames : frames[j].change}}
Members(q)  == {q[i] : i \in DOMAIN q}

TypeOK ==
    /\ log \in Seq(Cals)
    /\ trimmed \subseteq Seqs
    /\ pub \in 0 .. Len(log)
    /\ granted \subseteq Cals \ Own
    /\ phase \in {"closed", "access", "subscribed", "replaying", "live"}
    /\ access \subseteq Cals \ Own
    /\ since \in Nat /\ hello \in Nat /\ joined \in Nat /\ lastId \in Nat
    /\ connects \in Nat /\ fails \in Nat
    /\ replayed \in BOOLEAN
    /\ replay \in Seq(Seqs)
    /\ ch \in Seq(Seqs) /\ Len(ch) <= Cap
    /\ wire \in Seq(Frame)
    /\ seen \subseteq Seqs /\ dropped \subseteq Seqs

Init ==
    /\ log = <<>> /\ trimmed = {} /\ pub = 0
    /\ granted \in SUBSET (Cals \ Own)
    /\ phase = "closed" /\ access = {}
    /\ since = 0 /\ hello = 0 /\ joined = 0 /\ replayed = FALSE
    /\ replay = <<>> /\ ch = <<>> /\ wire = <<>>
    /\ lastId = 0 /\ seen = {} /\ dropped = {} /\ connects = 0 /\ fails = 0

-----------------------------------------------------------------------------
(* The store and the hub *)

\* indexUpsert / indexDelete commit under Store.mu ...
Commit(c) ==
    /\ pub = 0
    /\ Len(log) < MaxSeq
    /\ log' = Append(log, c)
    /\ pub' = Len(log) + 1
    /\ UNCHANGED <<trimmed, granted, phase, access, position, replay, ch, wire, lastId, seen,
                   dropped, connects, fails>>

\* MUTANT of Registered: the subscription only starts when the replay is done.
RegisteredLate == phase = "live"

\* The subscriber is in the hub from Subscribe until its handler returns.
Registered == phase \in {"subscribed", "replaying", "live"}

\* MUTANT of Wanted: no filter, any calendar of an owner it is registered under.
WantedByOwner(c) == Owner[c] \in {Me} \cup {Owner[k] : k \in access}

\* It is registered under its own name and the owner of every shared calendar,
\* and of another owner's changes it gets those of the calendars it may see.
Wanted(c) ==
    /\ Owner[c] \in {Me} \cup {Owner[k] : k \in access}
    /\ Owner[c] # Me => c \in access

\* MUTANT of Publish: the send does not look at the channel's capacity.
PublishUnbounded ==
    /\ pub # 0
    /\ pub' = 0
    /\ ch' = IF Registered /\ Wanted(log[pub]) THEN Append(ch, pub) ELSE ch
    /\ UNCHANGED <<log, trimmed, granted, phase, access, position, replay, wire, lastId, seen,
                   dropped, connects, fails>>

\* ... and emit calls the hub before the lock is released; a full channel drops.
Publish ==
    /\ pub # 0
    /\ pub' = 0
    /\ IF Registered /\ Wanted(log[pub])
       THEN IF Len(ch) < Cap
            THEN ch' = Append(ch, pub) /\ UNCHANGED dropped
            ELSE dropped' = dropped \cup {pub} /\ UNCHANGED ch
       ELSE UNCHANGED <<ch, dropped>>
    /\ UNCHANGED <<log, trimmed, granted, phase, access, position, replay, wire, lastId, seen,
                   connects, fails>>

\* compactCalendar: the older rows of a calendar go (DeleteCalendar: all of them).
\* No frame tells of it and, unlike a sync-token, a Last-Event-ID has no floor.
Trim(c, upTo) ==
    /\ pub = 0
    /\ trimmed' = trimmed \cup {s \in 1 .. upTo : log[s] = c}
    /\ trimmed' # trimmed
    /\ UNCHANGED <<log, pub, granted, phase, access, position, replay, ch, wire, lastId, seen,
                   dropped, connects, fails>>

SetGrant(c) ==
    /\ granted' \in {granted \cup {c}, granted \ {c}}
    /\ granted' # granted
    /\ UNCHANGED <<log, trimmed, pub, phase, access, position, replay, ch, wire, lastId, seen,
                   dropped, connects, fails>>

-----------------------------------------------------------------------------
(* The handler *)

\* A query fails.
ReadFails == fails < MaxFails /\ fails' = fails + 1

\* (Re)connect: stream reads the shared calendars (CalendarsFor), then subscribes.
\* When that query fails it goes on without them.
Connect ==
    /\ phase = "closed"
    /\ connects < MaxConnects
    /\ connects' = connects + 1
    /\ phase' = "access"
    /\ \/ access' = granted /\ UNCHANGED fails
       \/ access' = {} /\ ReadFails
    /\ since' = lastId
    /\ UNCHANGED <<log, trimmed, pub, granted, hello, joined, replayed, replay, ch, wire, lastId,
                   seen, dropped>>

Subscribe ==
    /\ phase = "access"
    /\ phase' = "subscribed"
    /\ ch' = <<>>
    /\ dropped' = {}
    /\ UNCHANGED <<log, trimmed, pub, granted, access, position, replay, wire, lastId, seen,
                   connects, fails>>

\* The rows MaxSeq and ChangesSince select from: the user's own calendars only.
OwnSeqs == {s \in Seqs \ trimmed : log[s] \in Own}

\* MaxSeq, the id of the hello frame.
MaxOwnSeq == IF OwnSeqs = {} THEN 0 ELSE CHOOSE s \in OwnSeqs : \A t \in OwnSeqs : t <= s

\* The error of MaxSeq is ignored: the position announced is then 0.
Hello ==
    /\ phase = "subscribed"
    /\ phase' = "replaying"
    /\ \/ hello' = MaxOwnSeq /\ UNCHANGED fails
       \/ hello' = 0 /\ ReadFails
    /\ joined' = MaxOwnSeq
    /\ wire' = Append(wire, [id |-> hello', change |-> FALSE])
    /\ replay' = <<>>
    /\ UNCHANGED <<log, trimmed, pub, granted, access, since, replayed, ch, lastId, seen, dropped,
                   connects>>

\* ChangesSince: the rows after a position, oldest first.
ChangesSince(pos) ==
    LET rows == {s \in OwnSeqs : s > pos} IN
    {q \in [1 .. Cardinality(rows) -> rows] :
        Members(q) = rows /\ \A i, j \in DOMAIN q : i < j => q[i] < q[j]}

\* One query, then the loop writes its rows; without a Last-Event-ID there is none.  When
\* the query fails the replay is skipped, and the client is not told.
Replay ==
    /\ phase = "replaying"
    /\ phase' = "live"
    /\ \/ since > 0 /\ replay' \in ChangesSince(since) /\ replayed' = TRUE /\ UNCHANGED fails
       \/ since > 0 /\ ReadFails /\ replay' = <<>> /\ replayed' = FALSE
       \/ since = 0 /\ replay' = <<>> /\ replayed' = FALSE /\ UNCHANGED fails
    /\ UNCHANGED <<log, trimmed, pub, granted, access, since, hello, joined, ch, wire, lastId,
                   seen, dropped, connects>>

WriteReplay ==
    /\ phase = "live"
    /\ replay # <<>>
    /\ wire' = Append(wire, [id |-> Head(replay), change |-> TRUE])
    /\ replay' = Tail(replay)
    /\ UNCHANGED <<log, trimmed, pub, granted, phase, access, position, ch, lastId, seen, dropped,
                   connects, fails>>

\* MUTANT of Forward: frames the hello already covers are skipped as duplicates.
ForwardNew ==
    /\ phase = "live"
    /\ replay = <<>>
    /\ ch # <<>>
    /\ wire' = IF Head(ch) > hello THEN Append(wire, [id |-> Head(ch), change |-> TRUE])
               ELSE wire
    /\ ch' = Tail(ch)
    /\ UNCHANGED <<log, trimmed, pub, granted, phase, access, position, replay, lastId, seen,
                   dropped, connects, fails>>

Forward ==
    /\ phase = "live"
    /\ replay = <<>>
    /\ ch # <<>>
    /\ wire' = Append(wire, [id |-> Head(ch), change |-> TRUE])
    /\ ch' = Tail(ch)
    /\ UNCHANGED <<log, trimmed, pub, granted, phase, access, position, replay, lastId, seen,
                   dropped, connects, fails>>

-----------------------------------------------------------------------------
(* The client and the network *)

\* EventSource: a frame with an id (writeSSE writes none for 0) sets lastEventId.
Receive ==
    /\ wire # <<>>
    /\ LET f == Head(wire) IN
       /\ lastId' = IF f.id > 0 THEN f.id ELSE lastId
       /\ seen' = IF f.change THEN seen \cup {f.id} ELSE seen
    /\ wire' = Tail(wire)
    /\ UNCHANGED <<log, trimmed, pub, granted, phase, access, position, replay, ch, dropped,
                   connects, fails>>

\* The connection breaks (or the daemon restarts): frames under way are lost, the
\* handler returns with all it held and its deferred cancel takes it out of the hub.
Disconnect ==
    /\ phase # "closed"
    /\ phase' = "closed"
    /\ wire' = <<>> /\ ch' = <<>> /\ replay' = <<>> /\ dropped' = {}
    /\ access' = {} /\ since' = 0 /\ hello' = 0 /\ joined' = 0 /\ replayed' = FALSE
    /\ UNCHANGED <<log, trimmed, pub, granted, lastId, seen, connects, fails>>

Handler == Subscribe \/ Hello \/ Replay \/ WriteReplay \/ Forward

Next ==
    \/ \E c \in Cals : Commit(c)
    \/ Publish
    \/ \E c \in Cals, n \in Seqs : Trim(c, n)
    \/ \E c \in Cals \ Own : SetGrant(c)
    \/ Connect
    \/ Handler
    \/ Receive
    \/ Disconnect

\* A running handler and writer go on, and a connection that stands delivers.
\* Nothing is assumed of commits, connections or disconnections.
Spec     == Init /\ [][Next]_vars
FairSpec == Spec /\ WF_vars(Publish) /\ WF_vars(Handler) /\ WF_vars(Receive)

-----------------------------------------------------------------------------
(* Properties *)

Pending == Ids(wire) \cup Members(replay) \cup Members(ch)

\* Every change of the user's own calendars after a position, as far as the change-log
\* still has it, has reached the client, is on its way, or was dropped by the full channel.
Accounted(pos) == \A s \in OwnSeqs : s # pub /\ s > pos => s \in seen \cup Pending \cup dropped

\* From the moment the handler is live nothing is missing after the position it resumed
\* from: subscribing before reading the log leaves no window between replay and live
\* frames.  On a first connect, or when the replay's query failed, nothing is missing after
\* the position of the log at the hello.  What lies before that is lost by a failed query
\* (api.go:982 skips the replay), and only the client's own calendars are spoken of: a
\* change of a shared one is sent live or not at all.
NoGapBetweenReplayAndLive ==
    phase = "live" => Accounted(IF replayed THEN since ELSE joined)

\* No frame tells of a calendar the user could not see when it connected, though
\* the hub registers a subscriber under the owner, for all the owner's calendars.
OnlyAccessible ==
    \A s \in Pending : log[s] \in Own \cup access

\* Whatever is in the channel reaches the client, unless the connection ends.
ChannelDrains ==
    \A s \in 1 .. MaxSeq : s \in Members(ch) ~> (s \in seen \/ phase = "closed")

\* What makes the two inductive: a connection begins with nothing on its way, and what
\* goes out are changes that were committed ...
WireInv ==
    /\ Ids(wire) \subseteq Seqs
    /\ phase \in {"closed", "access"} => wire = <<>> /\ ch = <<>>
    /\ phase # "live" => replay = <<>>

\* ... and nothing after the log's position at the hello is missing from the hello on, nor
\* after the position resumed from, from the replay on.
ReplayInv ==
    /\ phase \in {"replaying", "live"} => Accounted(joined)
    /\ phase = "live" /\ replayed => Accounted(since)

StreamInv ==
    /\ TypeOK
    /\ WireInv
    /\ OnlyAccessible
    /\ ReplayInv
=============================================================================
