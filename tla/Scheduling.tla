----------------------------- MODULE Scheduling -----------------------------
(***************************************************************************)
(* iTIP scheduling (backend/internal/scheduling/scheduling.go, driven by   *)
(* putEvent, deleteEvent, rsvp and imipInbound of api.go) for one event,   *)
(* single or recurring.  Every participant with an account holds a copy of *)
(* the event in a calendar of their own, and may edit and delete it; it is *)
(* the ORGANIZER stored in the copy that says whose edits go out to the    *)
(* others.  A handler reads and writes copies one at a time and holds no   *)
(* lock between a read and the write that follows from it, and one account *)
(* may have two requests under way (two tabs, or a retry).  Participants   *)
(* elsewhere are reached by mail, which may be lost, delayed, reordered or *)
(* delivered twice.                                                        *)
(*                                                                         *)
(* Of an event's body a copy keeps its organizer, the version they gave it *)
(* (0 for a participant's own), the participation status per attendee, the *)
(* occurrences that were deleted and those that were customised.  PutEvent *)
(* encodes the master only, so it leaves no customised occurrence;         *)
(* Override, Exclude and ReplaceMaster are atomic edits of the current     *)
(* copy (see Series).                                                      *)
(***************************************************************************)
EXTENDS Naturals, FiniteSets

CONSTANTS
    Organizer,  \* the user who creates the event; only they may invite by mail
    Internal,   \* attendees with an account here
    External,   \* attendees reached by mail
    Rids,       \* the occurrences of the series
    None,       \* no copy
    MaxActs,    \* bound on edits, answers in their payloads, replies, failed writes,
                \* crashes and second requests of one participant, together
    MaxClaims   \* bound on the answers in payloads alone

ASSUME SchedulingAssumption ==
    /\ Organizer \notin Internal \cup External
    /\ Internal \cap External = {}
    /\ IsFiniteSet(Internal \cup External)
    /\ MaxActs \in Nat /\ MaxClaims \in Nat

Accounts  == {Organizer} \cup Internal
Attendees == Internal \cup External
PartStat  == {"NEEDS-ACTION", "ACCEPTED", "DECLINED"}
Reply     == PartStat \ {"NEEDS-ACTION"}
Mailed    == {"", "DECLINED"}   \* ACCEPTED in a mail does what no status does
Copy      == [org : Accounts, ver : Nat, ps : UNION {[A -> PartStat] : A \in SUBSET Attendees},
              gone : SUBSET Rids, over : SUBSET Rids]

\* A missing copy is not a copy.
ASSUME NoneAssumption == None \notin Copy

VARIABLES
    recurring,  \* whether the event is a series
    cal,        \* per account, its copy of the event
    req,        \* per actor, the request in progress, ...
    parked,     \* ... and another one of theirs that takes no step meanwhile
    mail,       \* REPLY mails under way
    invited,    \* external attendees an invitation was mailed to
    edits,      \* edits begun, ...
    replies,    \* ... replies given, ...
    faults,     \* ... faults ...
    overlaps,   \* ... second requests ...
    claims,     \* ... and answers in payloads so far: none follows when they are MaxActs
    lost,       \* history: a copy was written back although it had changed since it
                \* was read, or a write was lost to a fault
    left,       \* history: attendees the organizer dropped, or who deleted their copy
    apart,      \* history: attendees who changed their copy themselves since the
                \* event was last delivered to them
    revived,    \* history: an attendee saved an event that was no longer there, or could
                \* not be read
    overlapped, \* history: an account had two requests under way at once
    said,       \* history: the answers each attendee has given, ...
    asserted,   \* history: ... and those that an account's payloads gave for them
    last        \* history: the last answer of each attendee the organizer asked

bounds  == <<edits, replies, faults, claims>>
history == <<left, apart, revived, said, asserted, last>>
waiting == <<parked, overlaps, overlapped>>
vars    == <<recurring, cal, req, mail, invited, bounds, lost, history, waiting>>

Idle == [pc |-> "idle"]
Requests ==
    {Idle}
    \cup [pc : {"open"}, att : SUBSET Attendees]
    \cup [pc : {"put", "replace"}, ev : Copy, base : Copy \cup {None}]
    \cup [pc : {"deliver"}, ev : Copy, todo : SUBSET Internal]
    \cup [pc : {"hand"}, ev : Copy, todo : SUBSET Internal, to : Internal,
          base : Copy \cup {None}]
    \cup [pc : {"override"}, ev : Copy, rid : Rids, todo : SUBSET Internal]
    \cup [pc : {"exclude"}, rid : Rids, todo : SUBSET Internal]
    \cup [pc : {"cancel"}, todo : SUBSET Internal]
    \cup [pc : {"own"}, ps : PartStat, base : Copy]
    \cup [pc : {"find"}, ps : PartStat, org : Accounts]
    \cup [pc : {"org"}, ps : PartStat, org : Accounts, base : Copy]

TypeOK ==
    /\ recurring \in BOOLEAN
    /\ cal \in [Accounts -> Copy \cup {None}]
    /\ req \in [Accounts \cup External -> Requests]
    /\ parked \in [Accounts \cup External -> Requests]
    /\ mail \subseteq [from : External, ps : Mailed]
    /\ invited \subseteq External
    /\ edits \in Nat /\ replies \in Nat /\ faults \in Nat /\ overlaps \in Nat /\ claims \in Nat
    /\ lost \in BOOLEAN /\ overlapped \in BOOLEAN
    /\ left \subseteq Internal /\ apart \subseteq Internal /\ revived \in BOOLEAN
    /\ said \in [Attendees -> SUBSET PartStat]
    /\ asserted \in [Accounts -> [Attendees -> SUBSET PartStat]]
    /\ last \in [Attendees -> PartStat]

Init ==
    /\ recurring \in BOOLEAN
    /\ cal = [u \in Accounts |-> None]
    /\ req = [p \in Accounts \cup External |-> Idle]
    /\ parked = [p \in Accounts \cup External |-> Idle]
    /\ mail = {} /\ invited = {}
    /\ edits = 0 /\ replies = 0 /\ faults = 0 /\ overlaps = 0 /\ claims = 0
    /\ lost = FALSE /\ left = {} /\ apart = {} /\ revived = FALSE /\ overlapped = FALSE
    /\ said = [a \in Attendees |-> {}]
    /\ asserted = [u \in Accounts |-> [a \in Attendees |-> {}]]
    /\ last = [a \in Attendees |-> "NEEDS-ACTION"]

-----------------------------------------------------------------------------
(* Participation status *)

\* MUTANT of SetPartStat: the address is not compared.
SetPartStatAll(ev, p, ps) == [ev EXCEPT !.ps = [a \in DOMAIN @ |-> ps]]

\* setPartStat: only an attendee of the event has a status to set.
SetPartStat(ev, p, ps) ==
    [ev EXCEPT !.ps = [a \in DOMAIN @ |-> IF a = p THEN ps ELSE @[a]]]

\* The attendees a payload has an answer for.
Answered(payload) == {a \in DOMAIN payload : payload[a] # "NEEDS-ACTION"}

\* MUTANT of MergePartStats: the editor's NEEDS-ACTION stands.
MergePartStatsNot(payload, prev) == payload

\* mergePartStats: where the payload has an answer it stands, whoever's it is; where it
\* has NEEDS-ACTION, the answer stored is kept.
MergePartStats(payload, prev) ==
    [a \in DOMAIN payload |->
        IF a \notin Answered(payload) /\ prev # None /\ a \in DOMAIN prev.ps THEN prev.ps[a]
        ELSE payload[a]]

\* MUTANT of InboundStatus: an empty status is stored as it is.
InboundStatusRaw(ps) == ps

\* A REPLY with no status for its sender counts as accepted.
InboundStatus(ps) == IF ps = "" THEN "ACCEPTED" ELSE ps

\* PutEvent encodes the event model: the master with its exclusions.
Encoded(ev) == [ev EXCEPT !.over = {}]

PutEvent(u, ev, base) ==
    /\ cal' = [cal EXCEPT ![u] = Encoded(ev)]
    /\ lost' = (lost \/ cal[u] # base)

Become(p, request) == req' = [req EXCEPT ![p] = request]
Here(ev)  == DOMAIN ev.ps \cap Internal
Bounded   == edits + claims + replies + faults + overlaps < MaxActs
Edit      == Bounded /\ edits' = edits + 1

\* A save, with the statuses u's client submits for the attendees.
Payloads(att) ==
    {payload \in [att -> PartStat] : claims + Cardinality(Answered(payload)) <= MaxClaims}

Submit(u, payload) ==
    /\ Edit
    /\ claims' = claims + Cardinality(Answered(payload))
    /\ asserted' = [asserted EXCEPT ![u] =
          [a \in Attendees |-> @[a] \cup IF a \in Answered(payload) THEN {payload[a]} ELSE {}]]

\* What it makes of the stored event.
Saved(u, payload, prev) ==
    IF prev = None
    THEN [org |-> u, ver |-> edits + 1, ps |-> MergePartStats(payload, None),
          gone |-> {}, over |-> {}]
    ELSE [org |-> prev.org, ver |-> IF prev.org = u THEN edits + 1 ELSE 0,
          ps |-> MergePartStats(payload, prev), gone |-> prev.gone, over |-> {}]

\* MUTANT of IsOrganizer: the payload is believed.
IsOrganizerOfPayload(u, prev) == TRUE

\* putEvent, deleteEvent: authority comes from the stored event; one that is not
\* stored is the editor's own.
IsOrganizer(u, prev) == prev = None \/ prev.org = u

\* Afterwards the organizer's request goes on to the others; an attendee's is over.
GoOn(u, prev, request) == Become(u, IF IsOrganizer(u, prev) THEN request ELSE Idle)

\* The stored event as putEvent and deleteEvent get it: an error is taken for none.
ReadStored(u, prev) ==
    /\ UNCHANGED replies
    /\ \/ prev = cal[u] /\ UNCHANGED faults
       \/ /\ prev = None /\ cal[u] # None
          /\ Bounded
          /\ faults' = faults + 1

OnOwn(u, prev) == IF IsOrganizer(u, prev) THEN apart ELSE apart \cup {u}

-----------------------------------------------------------------------------
(* Edits, by whoever holds a copy *)

\* A single event stands open in an editor; only the organizer's lets change the
\* attendees to any purpose.
OpenEditor(u) ==
    /\ ~recurring
    /\ req[u] = Idle
    /\ cal[u] # None
    /\ Bounded
    /\ Become(u, [pc |-> "open", att |-> DOMAIN cal[u].ps])
    /\ UNCHANGED <<recurring, cal, mail, invited, bounds, lost, history>>

\* A new event, or a single one that was open: putEvent reads the stored event, which
\* need not be there any more ...
SaveEvent(u, payload, prev) ==
    /\ \/ u = Organizer /\ req[u] = Idle /\ edits = 0
       \/ req[u].pc = "open" /\ (u = Organizer \/ DOMAIN payload = req[u].att)
    /\ Submit(u, payload)
    /\ ReadStored(u, prev)
    /\ Become(u, [pc |-> "put", base |-> prev, ev |-> Saved(u, payload, prev)])
    /\ revived' = (revived \/ (u # Organizer /\ prev = None))
    /\ UNCHANGED <<recurring, cal, mail, invited, lost, left, apart, said, last>>

\* What the organizer's write of the master changes about who takes part.
Invite(u, ev, base) ==
    /\ IF u = Organizer
       THEN /\ invited' = invited \cup (DOMAIN ev.ps \cap External)
            /\ left' = left \cup IF base = None THEN {} ELSE Here(base) \ Here(ev)
            /\ last' = [a \in Attendees |-> IF a \in DOMAIN ev.ps THEN last[a] ELSE "NEEDS-ACTION"]
       ELSE UNCHANGED <<invited, left, last>>
    /\ apart' = OnOwn(u, base)
    /\ GoOn(u, base, [pc |-> "deliver", ev |-> ev, todo |-> Here(ev) \ {u}])

\* ... and writes the event.
PutOwn(u) ==
    LET r == req[u] IN
    /\ r.pc = "put"
    /\ PutEvent(u, r.ev, r.base)
    /\ Invite(u, r.ev, r.base)
    /\ UNCHANGED <<recurring, mail, bounds, revived, said, asserted>>

\* "All events" of a series, possibly with other attendees: the stored event is read ...
SaveAll(u, payload) ==
    LET prev == cal[u] IN
    /\ recurring
    /\ req[u] = Idle
    /\ prev # None
    /\ u = Organizer \/ DOMAIN payload = DOMAIN prev.ps
    /\ Submit(u, payload)
    /\ ReadStored(u, prev)
    /\ Become(u, [pc |-> "replace", base |-> prev, ev |-> Saved(u, payload, prev)])
    /\ UNCHANGED <<recurring, cal, mail, invited, lost, left, apart, revived, said, last>>

\* ... and its master rewritten; the overrides of this copy stay.
ReplaceMaster(u) ==
    LET r == req[u]
        now == cal[u] IN
    /\ r.pc = "replace"
    /\ now # None
    /\ cal' = [cal EXCEPT ![u] = [r.ev EXCEPT !.over = now.over]]
    /\ lost' = (lost \/ now.ps # r.base.ps \/ now.gone # r.base.gone \/ now.ver # r.base.ver)
    /\ Invite(u, r.ev, r.base)
    /\ UNCHANGED <<recurring, mail, bounds, revived, said, asserted>>

\* "This event only": an override, here and in every copy.
SaveThis(u, r, payload, prev) ==
    LET ev == cal[u] IN
    /\ recurring
    /\ req[u] = Idle
    /\ ev # None
    /\ r \notin ev.gone
    /\ DOMAIN payload = DOMAIN ev.ps
    /\ Submit(u, payload)
    /\ ReadStored(u, prev)
    /\ cal' = [cal EXCEPT ![u].over = @ \cup {r}]
    /\ apart' = OnOwn(u, ev)
    /\ revived' = (revived \/ (u # Organizer /\ prev = None))
    /\ GoOn(u, prev, [pc |-> "override", rid |-> r, todo |-> Here(ev) \ {u},
                      ev |-> IF prev = None THEN Saved(u, payload, None)
                             ELSE [ev EXCEPT !.ps = MergePartStats(payload, ev)]])
    /\ UNCHANGED <<recurring, mail, invited, lost, left, said, last>>

\* A deletion is passed on only if the event could be read: there is nobody to tell
\* otherwise.
PassOn(u, prev, request) ==
    IF prev = None THEN Become(u, Idle) /\ lost' = TRUE
                   ELSE GoOn(u, prev, request) /\ UNCHANGED lost

Excluded(ev, r) == [ev EXCEPT !.gone = @ \cup {r}, !.over = @ \ {r}]

\* "This event only", deleted: an EXDATE, here and in every copy.
DeleteThis(u, r, prev) ==
    LET ev == cal[u] IN
    /\ recurring
    /\ req[u] = Idle
    /\ ev # None
    /\ r \notin ev.gone
    /\ Edit
    /\ UNCHANGED claims
    /\ ReadStored(u, prev)
    /\ cal' = [cal EXCEPT ![u] = Excluded(ev, r)]
    /\ apart' = OnOwn(u, ev)
    /\ PassOn(u, prev, [pc |-> "exclude", rid |-> r, todo |-> Here(ev) \ {u}])
    /\ UNCHANGED <<recurring, mail, invited, left, revived, said, asserted, last>>

\* MUTANT of Told: the attendees are read from the event after it is gone.
ToldAfter(u, ev) == {}

\* The attendees are captured before the event is deleted.
Told(u, ev) == Here(ev) \ {u}

\* The whole event.  An attendee's delete removes their own copy and notifies nobody.
DeleteAll(u, prev) ==
    LET ev == cal[u] IN
    /\ req[u] = Idle
    /\ ev # None
    /\ ReadStored(u, prev)
    /\ cal' = [cal EXCEPT ![u] = None]
    /\ apart' = OnOwn(u, ev)
    /\ left' = IF IsOrganizer(u, ev) THEN left ELSE left \cup {u}
    /\ PassOn(u, prev, [pc |-> "cancel", todo |-> Told(u, ev)])
    /\ UNCHANGED <<recurring, mail, invited, edits, claims, revived, said, asserted, last>>

-----------------------------------------------------------------------------
(* What follows an organizer's edit *)

\* deliverInternal reads the recipient's copy, for its RSVP ...
DeliverRead(u, a) ==
    LET r == req[u] IN
    /\ r.pc = "deliver"
    /\ a \in r.todo
    /\ Become(u, [pc |-> "hand", ev |-> r.ev, todo |-> r.todo \ {a}, to |-> a,
                  base |-> cal[a]])
    /\ UNCHANGED <<recurring, cal, mail, invited, bounds, lost, history>>

\* ... and writes the organizer's event with that RSVP in its place.
DeliverPut(u) ==
    LET r == req[u] IN
    /\ r.pc = "hand"
    /\ PutEvent(r.to,
                IF r.base # None /\ r.to \in DOMAIN r.base.ps
                THEN SetPartStat(r.ev, r.to, r.base.ps[r.to]) ELSE r.ev,
                r.base)
    /\ apart' = apart \ {r.to}
    /\ Become(u, [pc |-> "deliver", ev |-> r.ev, todo |-> r.todo])
    /\ UNCHANGED <<recurring, mail, invited, bounds, left, revived, said, asserted, last>>

\* Who does not hold the series gets the occurrence as an event of its own.
DeliverOverride(u, a) ==
    LET r == req[u] IN
    /\ r.pc = "override"
    /\ a \in r.todo
    /\ cal' = [cal EXCEPT ![a] =
                  IF cal[a] # None THEN [cal[a] EXCEPT !.over = @ \cup {r.rid}]
                  ELSE Encoded([r.ev EXCEPT !.gone = Rids \ {r.rid}])]
    /\ Become(u, [r EXCEPT !.todo = @ \ {a}])
    /\ UNCHANGED <<recurring, mail, invited, bounds, lost, history>>

CancelOccurrence(u, a) ==
    LET r == req[u] IN
    /\ r.pc = "exclude"
    /\ a \in r.todo
    /\ cal' = [cal EXCEPT ![a] = IF @ # None THEN Excluded(@, r.rid) ELSE None]
    /\ Become(u, [r EXCEPT !.todo = @ \ {a}])
    /\ UNCHANGED <<recurring, mail, invited, bounds, lost, history>>

CancelCopy(u, a) ==
    LET r == req[u] IN
    /\ r.pc = "cancel"
    /\ a \in r.todo
    /\ cal' = [cal EXCEPT ![a] = None]
    /\ Become(u, [r EXCEPT !.todo = @ \ {a}])
    /\ UNCHANGED <<recurring, mail, invited, bounds, lost, history>>

\* Every attendee is served, or the event to rewrite is gone (404).
Finish(u) ==
    LET r == req[u] IN
    /\ \/ r.pc \in {"deliver", "override", "exclude", "cancel"} /\ r.todo = {}
       \/ r.pc = "replace" /\ cal[u] = None
    /\ Become(u, Idle)
    /\ UNCHANGED <<recurring, cal, mail, invited, bounds, lost, history>>

-----------------------------------------------------------------------------
(* Answers *)

Answer(p, ps) ==
    /\ Bounded
    /\ replies' = replies + 1
    /\ said' = [said EXCEPT ![p] = @ \cup {ps}]
    /\ UNCHANGED <<edits, faults, claims>>

\* OnAttendeeReply reads the attendee's own copy ...
ReplyRead(a, ps) ==
    LET org == cal[cal[a].org] IN
    /\ req[a] = Idle
    /\ cal[a] # None
    /\ Answer(a, ps)
    /\ last' = IF org # None /\ a \in DOMAIN org.ps THEN [last EXCEPT ![a] = ps] ELSE last
    /\ Become(a, [pc |-> "own", ps |-> ps, base |-> cal[a]])
    /\ UNCHANGED <<recurring, cal, mail, invited, lost, left, apart, revived, asserted>>

\* ... writes it back with the status ...
ReplyOwn(a) ==
    LET r == req[a] IN
    /\ r.pc = "own"
    /\ PutEvent(a, SetPartStat(r.base, a, r.ps), r.base)
    /\ Become(a, IF r.base.org = a THEN Idle ELSE [pc |-> "find", ps |-> r.ps, org |-> r.base.org])
    /\ UNCHANGED <<recurring, mail, invited, bounds, history>>

\* ... finds the copy of the organizer it names, if there still is one ...
ReplyFind(a) ==
    LET r == req[a] IN
    /\ r.pc = "find"
    /\ Become(a, IF cal[r.org] = None THEN Idle
                 ELSE [pc |-> "org", ps |-> r.ps, org |-> r.org, base |-> cal[r.org]])
    /\ UNCHANGED <<recurring, cal, mail, invited, bounds, lost, history>>

\* ... and writes that back too.  An inbound REPLY ends the same way.
ReplyOrganizer(p) ==
    LET r == req[p] IN
    /\ r.pc = "org"
    /\ PutEvent(r.org, SetPartStat(r.base, p, r.ps), r.base)
    /\ Become(p, Idle)
    /\ UNCHANGED <<recurring, mail, invited, bounds, history>>

\* An external attendee answers by mail, maybe with no PARTSTAT.
MailReply(x, ps) ==
    /\ x \in invited
    /\ Answer(x, InboundStatus(ps))
    /\ mail' = mail \cup {[from |-> x, ps |-> ps]}
    /\ UNCHANGED <<recurring, cal, req, invited, lost, left, apart, revived, asserted, last>>

\* OnInbound REPLY: the sender must be an attendee.  The mail may come again.
InboundReply(m) ==
    LET ev == cal[Organizer] IN
    /\ req[m.from] = Idle
    /\ ev # None
    /\ m.from \in DOMAIN ev.ps
    /\ mail' \in {mail, mail \ {m}}
    /\ Become(m.from, [pc |-> "org", ps |-> InboundStatus(m.ps), org |-> Organizer, base |-> ev])
    /\ UNCHANGED <<recurring, cal, invited, bounds, lost, history>>

LoseMail(m) ==
    /\ mail' = mail \ {m}
    /\ UNCHANGED <<recurring, cal, req, invited, bounds, lost, history>>

-----------------------------------------------------------------------------
(* Faults *)

Fault ==
    /\ Bounded
    /\ faults' = faults + 1
    /\ UNCHANGED <<edits, replies, claims>>

\* A write fails: OnOrganizerSave skips the recipient, a reply drops its error, an
\* edit ends with one.
WriteFails(p) ==
    /\ Fault
    /\ lost' = TRUE
    /\ \/ /\ req[p].pc = "hand"
          /\ Become(p, [pc |-> "deliver", ev |-> req[p].ev, todo |-> req[p].todo])
       \/ /\ req[p].pc \in {"put", "replace", "own", "org"}
          /\ Become(p, Idle)
    /\ UNCHANGED <<recurring, cal, mail, invited, history>>

Crash ==
    /\ Fault
    /\ lost' = TRUE
    /\ req' = [p \in Accounts \cup External |-> Idle]
    /\ parked' = [p \in Accounts \cup External |-> Idle]
    /\ UNCHANGED <<recurring, cal, mail, invited, history, overlaps, overlapped>>

-----------------------------------------------------------------------------
(* Two requests of one participant *)

\* p's other request goes on, or a second one may begin: nothing orders the two.
Switch(p) ==
    /\ req[p] # Idle \/ parked[p] # Idle
    /\ IF parked[p] = Idle THEN Bounded /\ overlaps' = overlaps + 1 ELSE UNCHANGED overlaps
    /\ req' = [req EXCEPT ![p] = parked[p]]
    /\ parked' = [parked EXCEPT ![p] = req[p]]
    /\ overlapped' = (overlapped \/ p \in Accounts)
    /\ UNCHANGED <<recurring, cal, mail, invited, bounds, lost, history>>

-----------------------------------------------------------------------------
Organize ==
    \E u \in Accounts :
        \/ OpenEditor(u)
        \/ \E prev \in {cal[u], None} :
              \/ DeleteAll(u, prev)
              \/ \E r \in Rids : DeleteThis(u, r, prev)
        \/ /\ Bounded /\ req[u].pc \in {"idle", "open"}
           /\ \E att \in SUBSET Attendees : \E payload \in Payloads(att) :
                 \/ SaveAll(u, payload)
                 \/ \E prev \in {cal[u], None} :
                       \/ SaveEvent(u, payload, prev)
                       \/ \E r \in Rids : SaveThis(u, r, payload, prev)

Dispatch ==
    \E u \in Accounts :
        \/ PutOwn(u) \/ ReplaceMaster(u) \/ DeliverPut(u) \/ Finish(u)
        \/ \E a \in Internal :
              DeliverRead(u, a) \/ DeliverOverride(u, a) \/ CancelOccurrence(u, a)
                  \/ CancelCopy(u, a)

Attend ==
    \/ \E a \in Internal, ps \in Reply : ReplyRead(a, ps)
    \/ \E a \in Internal : ReplyOwn(a) \/ ReplyFind(a)
    \/ \E p \in Attendees : ReplyOrganizer(p)

Mail ==
    \/ \E x \in External, ps \in Mailed : MailReply(x, ps)
    \/ \E m \in mail : InboundReply(m) \/ LoseMail(m)

Next ==
    \/ /\ \/ Organize
          \/ Dispatch
          \/ Attend
          \/ Mail
          \/ \E p \in Accounts \cup External : WriteFails(p)
       /\ UNCHANGED waiting
    \/ Crash
    \/ \E p \in Accounts \cup External : Switch(p)

Spec == Init /\ [][Next]_vars

-----------------------------------------------------------------------------
(* Properties *)

Quiet == \A p \in Accounts \cup External : req[p] = Idle /\ parked[p] = Idle

\* The answers of each attendee that an account's copy may show: those they gave, and
\* those that the payloads of that account or of the organizer had for them.  Others'
\* payloads reach it only once somebody revived the event and was its organizer.
Shown ==
    [u \in Accounts |-> [a \in Attendees |-> {"NEEDS-ACTION"} \cup said[a] \cup
        UNION {asserted[w][a] : w \in {v \in Accounts : revived \/ v \in {u, Organizer}}}]]

\* In no copy does an attendee show an answer that neither they, nor the organizer's
\* client, nor the client of the copy's owner gave, whatever copies are merged, written
\* back stale, redelivered or lost on the way: one attendee's client never answers for
\* another in a third one's copy.
NobodyAnswersForAnother ==
    LET shown == Shown IN
    \A u \in Accounts : cal[u] # None =>
        \A a \in DOMAIN cal[u].ps : cal[u].ps[a] \in shown[u][a]

\* An event that was delivered to somebody as an attendee never makes an organizer of
\* them: every copy names who created the event, and no request of an attendee goes on
\* to other people's copies, whatever its user edits and deletes, unless the event had
\* gone, or could not be read, when they saved it.
AuthorityHolds ==
    ~revived =>
        /\ \A u \in Accounts : cal[u] # None => cal[u].org = Organizer
        /\ \A a \in Internal : {req[a].pc, parked[a].pc} \cap
              {"deliver", "hand", "override", "exclude", "cancel"} = {}

\* When no request is under way, every attendee who stayed holds the organizer's
\* version with the organizer's deletions, or nothing once it was cancelled.  Requests
\* of different accounts may overlap, so long as no copy is written back that changed
\* meanwhile; two of one account may not: nothing in putEvent orders the deliveries of
\* two saves, and the older event may arrive last.
CopiesConverge ==
    Quiet /\ ~lost /\ ~revived /\ ~overlapped =>
        IF cal[Organizer] = None THEN \A a \in Internal \ left : cal[a] = None
        ELSE \A a \in Here(cal[Organizer]) \ apart :
                /\ cal[a] # None
                /\ cal[a].ver = cal[Organizer].ver
                /\ cal[a].gone = cal[Organizer].gone

\* The attendees some payload answered for.
SpokenFor == {a \in Attendees : \E u \in Accounts : asserted[u][a] # {}}

\* Under the same condition the last answer of an attendee for whom no payload answered
\* stands in both copies, across the organizer's edits and the deliveries they cause.  A
\* payload's answer (mergePartStats respects it) replaces the one given, in one of them.
RepliesKept ==
    Quiet /\ ~lost /\ ~revived /\ ~overlapped /\ cal[Organizer] # None =>
        \A a \in Here(cal[Organizer]) \ (left \cup SpokenFor) :
            cal[Organizer].ps[a] = last[a] /\ cal[a].ps[a] = last[a]

\* deliverInternal's comment: a per-occurrence update "must be merged into the
\* recipient's existing series as an override", or there is "attendee-side data
\* loss".  But a later "all" edit, or an RSVP, writes the copy with PutEvent.
OverridesDelivered ==
    Quiet /\ ~lost /\ ~revived /\ ~overlapped /\ cal[Organizer] # None =>
        \A a \in Here(cal[Organizer]) \ (left \cup apart) : cal[a].over = cal[Organizer].over

\* What makes the first two inductive.  A copy that a calendar or a request holds for
\* somebody, given the answers their copy may show and whether an event was revived,
\* shows no other answers and, as long as none was, names who created the event ...
Rightful(ev, answers, any) ==
    /\ \A a \in DOMAIN ev.ps : ev.ps[a] \in answers[a]
    /\ ~any => ev.org = Organizer

\* ... a reply under way carries an answer of its sender to that organizer, and an
\* attendee's request saves what was stored and goes to nobody else; shown[u] are the
\* answers that u's copy may show.
RightfulRequest(p, r, shown, any) ==
    /\ r.pc \in {"put", "replace", "deliver", "hand", "override"} => Rightful(r.ev, shown[p], any)
    /\ r.pc \in {"put", "replace"} /\ r.base # None => Rightful(r.base, shown[p], any)
    /\ r.pc = "hand" /\ r.base # None => Rightful(r.base, shown[r.to], any)
    /\ r.pc = "own" => Rightful(r.base, shown[p], any)
    /\ r.pc = "org" => Rightful(r.base, shown[r.org], any)
    /\ r.pc \in {"own", "find", "org"} =>
          p \in Attendees /\ r.ps \in PartStat /\ \A u \in Accounts : r.ps \in shown[u][p]
    /\ r.pc \in {"find", "org"} /\ ~any => r.org = Organizer
    /\ r.pc \in {"put", "replace", "deliver", "hand", "override", "own"} => p \in Accounts
    /\ p \in Internal /\ ~any =>
          /\ r.pc \notin {"deliver", "hand", "override", "exclude", "cancel"}
          /\ r.pc \in {"put", "replace"} => r.base # None
    /\ p = Organizer /\ r.pc \in {"put", "replace"} =>
          r.ev.org = p /\ (r.base # None => r.base.org = p)
    /\ r.pc = "org" /\ r.org = Organizer => r.base.org = Organizer

\* The organizer's calendar holds nobody else's event, whatever others revive.
RightfulInv ==
    /\ cal[Organizer] # None => cal[Organizer].org = Organizer
    /\ \A u \in Accounts : cal[u] # None => Rightful(cal[u], Shown[u], revived)
    /\ \A p \in Accounts \cup External : \A r \in {req[p], parked[p]} :
          RightfulRequest(p, r, Shown, revived)
    /\ \A m \in mail : InboundStatus(m.ps) \in said[m.from]

SchedulingInv == TypeOK /\ RightfulInv

\* What makes CopiesConverge and RepliesKept inductive.  The organizer's request still
\* has to bring an attendee the event it wrote ...
Awaits(a) ==
    LET r == req[Organizer] IN
    \/ r.pc \in {"deliver", "hand"} /\ a \in r.todo
    \/ r.pc = "hand" /\ a = r.to

\* ... or an occurrence it deleted.
Excluding(a) == req[Organizer].pc = "exclude" /\ a \in req[Organizer].todo

\* The organizer's side: what the organizer's copy says of those it does not name, and
\* how the request that changed it goes with it.
OrganizerInv ==
    LET r   == req[Organizer]
        own == cal[Organizer] IN
    /\ edits = 0 => own = None /\ r = Idle /\ \A a \in Attendees : last[a] = "NEEDS-ACTION"
    /\ own # None => \A a \in Attendees \ DOMAIN own.ps : last[a] = "NEEDS-ACTION"
    /\ r.pc \in {"open", "replace", "deliver", "hand", "override", "exclude"} => own # None
    /\ r.pc = "cancel" => own = None
    /\ r.pc = "replace" => r.base # None
    /\ r.pc = "put" /\ r.base = None =>
          own # None \/ \A a \in Attendees : last[a] = "NEEDS-ACTION"
    /\ r.pc \in {"put", "replace"} =>
          \A a \in DOMAIN r.ev.ps \ SpokenFor :
              r.ev.ps[a] = IF r.base # None /\ a \in DOMAIN r.base.ps THEN r.base.ps[a]
                           ELSE "NEEDS-ACTION"
    /\ r.pc \in {"deliver", "hand"} =>
          r.ev.ver = own.ver /\ r.ev.gone = own.gone /\ DOMAIN r.ev.ps = DOMAIN own.ps
    /\ r.pc \in {"deliver", "hand", "override"} => r.todo \subseteq DOMAIN own.ps
    /\ r.pc = "hand" => r.to \in DOMAIN own.ps

\* An attendee's copy: who holds one is named by the organizer's, will be told that it
\* was cancelled, or left; it names its holder.
HeldInv(a) ==
    LET own == cal[Organizer] IN
    a \notin left =>
        /\ cal[a] # None =>
              /\ a \in DOMAIN cal[a].ps
              /\ IF own = None THEN req[Organizer].pc = "cancel" /\ a \in req[Organizer].todo
                               ELSE a \in DOMAIN own.ps
        /\ req[a].pc = "open" => a \in req[a].att
        /\ req[a].pc \in {"put", "replace"} =>
              /\ a \in DOMAIN req[a].ev.ps
              /\ a \in DOMAIN req[a].base.ps \ SpokenFor => req[a].ev.ps[a] = req[a].base.ps[a]

\* It is the organizer's event as it is now, or is still to be brought up to date ...
VersionInv(a) ==
    LET own == cal[Organizer] IN
    own # None /\ a \in DOMAIN own.ps \ apart =>
        \/ Awaits(a)
        \/ /\ cal[a] # None
           /\ cal[a].ver = own.ver
           /\ own.gone = IF Excluding(a) THEN cal[a].gone \cup {req[Organizer].rid}
                         ELSE cal[a].gone

\* A reply under way carries the last answer; after the event was deleted it leads nowhere.
ReplyInv(a) ==
    LET own == cal[Organizer] IN
    a \notin left /\ req[a].pc \in {"own", "find", "org"} =>
        IF own = None THEN edits > 0 /\ req[Organizer].pc # "put"
        ELSE a \in DOMAIN own.ps /\ req[a].ps = last[a]

\* ... and the last answer stands in both copies, or the reply is on its way there.
AnswerInv(a) ==
    LET own == cal[Organizer] IN
    own # None /\ a \in DOMAIN own.ps \ left =>
        /\ cal[a] = None => Awaits(a)
        /\ a \notin SpokenFor =>
              /\ own.ps[a] = last[a] \/ req[a].pc \in {"own", "find", "org"}
              /\ IF cal[a] = None THEN req[Organizer].ev.ps[a] = last[a]
                 ELSE cal[a].ps[a] = last[a] \/ req[a].pc = "own"

AttendeeInv(a) == HeldInv(a) /\ VersionInv(a) /\ ReplyInv(a) /\ AnswerInv(a)

ConvergeInv ==
    ~lost /\ ~revived /\ ~overlapped => OrganizerInv /\ \A a \in Internal : AttendeeInv(a)
=============================================================================
