-------------------------- MODULE SchedulingProofs --------------------------
(***************************************************************************)
(* Proofs about Scheduling.  Copies travel: a request reads one, holds it  *)
(* while others are written, and puts it into another calendar, merged or  *)
(* stale.  Whose answers a copy shows and whom it names are therefore      *)
(* facts about every copy, wherever it is held (Rightful), and about what  *)
(* each kind of request may hold (RightfulRequest); with the types they    *)
(* are inductive.  That copies converge rests on them and on what the      *)
(* organizer's request still has to do (ConvergeInv), in the second half.  *)
(***************************************************************************)
EXTENDS Scheduling, FiniteSetTheorems, TLAPS

Actors == Accounts \cup External

\* Answers are only added, and that an event was revived is not forgotten.
Grows ==
    /\ said' \in [Attendees -> SUBSET PartStat]
    /\ asserted' \in [Accounts -> [Attendees -> SUBSET PartStat]]
    /\ \A a \in Attendees : said[a] \subseteq said'[a]
    /\ \A u \in Accounts, a \in Attendees : asserted[u][a] \subseteq asserted'[u][a]
    /\ revived' \in BOOLEAN /\ (revived => revived')

\* What is left of TypeOK besides the copies and the requests.
RestOK ==
    /\ recurring \in BOOLEAN
    /\ mail \subseteq [from : External, ps : Mailed]
    /\ invited \subseteq External
    /\ edits \in Nat /\ replies \in Nat /\ faults \in Nat /\ claims \in Nat
    /\ lost \in BOOLEAN
    /\ left \subseteq Internal /\ apart \subseteq Internal /\ revived \in BOOLEAN
    /\ said \in [Attendees -> SUBSET PartStat]
    /\ asserted \in [Accounts -> [Attendees -> SUBSET PartStat]]
    /\ last \in [Attendees -> PartStat]

-----------------------------------------------------------------------------
(* Copies *)

LEMMA CopyFields ==
    ASSUME NEW ev \in Copy
    PROVE  /\ ev.org \in Accounts /\ ev.ver \in Nat
           /\ DOMAIN ev.ps \subseteq Attendees /\ ev.ps \in [DOMAIN ev.ps -> PartStat]
           /\ ev.gone \subseteq Rids /\ ev.over \subseteq Rids
           /\ ev = [org |-> ev.org, ver |-> ev.ver, ps |-> ev.ps,
                    gone |-> ev.gone, over |-> ev.over]
  <1>1. PICK A \in SUBSET Attendees : ev.ps \in [A -> PartStat]
    BY DEF Copy
  <1>2. DOMAIN ev.ps = A
    BY <1>1
  <1> QED
    BY <1>1, <1>2 DEF Copy

LEMMA CopyMade ==
    ASSUME NEW org \in Accounts, NEW ver \in Nat, NEW A \in SUBSET Attendees,
           NEW ps \in [A -> PartStat], NEW gone \in SUBSET Rids, NEW over \in SUBSET Rids
    PROVE  [org |-> org, ver |-> ver, ps |-> ps, gone |-> gone, over |-> over] \in Copy
  <1>1. ps \in UNION {[B -> PartStat] : B \in SUBSET Attendees}
    OBVIOUS
  <1> QED
    BY <1>1 DEF Copy

\* Setting a status keeps a copy a copy and touches one attendee at most.
LEMMA SetPartStatCopy ==
    ASSUME NEW ev \in Copy, NEW p, NEW ps \in PartStat
    PROVE  /\ SetPartStat(ev, p, ps) \in Copy
           /\ SetPartStat(ev, p, ps).org = ev.org
           /\ DOMAIN SetPartStat(ev, p, ps).ps = DOMAIN ev.ps
           /\ \A a \in DOMAIN ev.ps :
                 SetPartStat(ev, p, ps).ps[a] = IF a = p THEN ps ELSE ev.ps[a]
  <1> DEFINE stats == [a \in DOMAIN ev.ps |-> IF a = p THEN ps ELSE ev.ps[a]]
             new   == [org |-> ev.org, ver |-> ev.ver, ps |-> stats,
                       gone |-> ev.gone, over |-> ev.over]
  <1>1. stats \in [DOMAIN ev.ps -> PartStat]
    BY CopyFields
  <1>2. SetPartStat(ev, p, ps) = new
    BY CopyFields DEF SetPartStat
  <1>3. new \in Copy
    BY <1>1, CopyFields, CopyMade
  <1> QED
    BY <1>2, <1>3

LEMMA EncodedCopy ==
    ASSUME NEW ev \in Copy
    PROVE  Encoded(ev) \in Copy /\ Encoded(ev).org = ev.org /\ Encoded(ev).ps = ev.ps
  <1>1. Encoded(ev) = [org |-> ev.org, ver |-> ev.ver, ps |-> ev.ps,
                       gone |-> ev.gone, over |-> {}]
    BY DEF Copy, Encoded
  <1> QED
    BY <1>1, CopyFields, CopyMade

\* Deletions and overrides of occurrences leave organizer and answers alone.
LEMMA DeletionsCopy ==
    ASSUME NEW ev \in Copy, NEW gone \in SUBSET Rids
    PROVE  LET new == [ev EXCEPT !.gone = gone]
           IN  new \in Copy /\ new.org = ev.org /\ new.ps = ev.ps
  <1> DEFINE new == [org |-> ev.org, ver |-> ev.ver, ps |-> ev.ps, gone |-> gone, over |-> ev.over]
  <1>1. [ev EXCEPT !.gone = gone] = new
    BY DEF Copy
  <1>2. new \in Copy
    BY CopyFields, CopyMade
  <1> QED
    BY <1>1, <1>2

LEMMA OverridesCopy ==
    ASSUME NEW ev \in Copy, NEW over \in SUBSET Rids
    PROVE  LET new == [ev EXCEPT !.over = over]
           IN  new \in Copy /\ new.org = ev.org /\ new.ps = ev.ps
  <1> DEFINE new == [org |-> ev.org, ver |-> ev.ver, ps |-> ev.ps, gone |-> ev.gone, over |-> over]
  <1>1. [ev EXCEPT !.over = over] = new
    BY DEF Copy
  <1>2. new \in Copy
    BY CopyFields, CopyMade
  <1> QED
    BY <1>1, <1>2

LEMMA OccurrencesCopy ==
    ASSUME NEW ev \in Copy, NEW gone \in SUBSET Rids, NEW over \in SUBSET Rids
    PROVE  LET new == [ev EXCEPT !.gone = gone, !.over = over]
           IN  new \in Copy /\ new.org = ev.org /\ new.ps = ev.ps
  <1> DEFINE new == [org |-> ev.org, ver |-> ev.ver, ps |-> ev.ps, gone |-> gone, over |-> over]
             mid == [org |-> ev.org, ver |-> ev.ver, ps |-> ev.ps, gone |-> gone, over |-> ev.over]
  <1>1. [ev EXCEPT !.gone = gone] = mid
    BY DEF Copy
  <1>2. [mid EXCEPT !.over = over] = new
    OBVIOUS
  <1>3. [ev EXCEPT !.gone = gone, !.over = over] = new
    BY <1>1, <1>2
  <1>4. new \in Copy
    BY CopyFields, CopyMade
  <1> QED
    BY <1>3, <1>4

\* A payload's answers, and what mergePartStats makes of them.
LEMMA MergedAnswers ==
    ASSUME NEW att \in SUBSET Attendees, NEW payload \in [att -> PartStat],
           NEW prev \in Copy \cup {None}
    PROVE  LET new == MergePartStats(payload, prev) IN
           /\ new \in [att -> PartStat] /\ Answered(payload) \subseteq att
           /\ \A a \in att :
                 \/ new[a] = "NEEDS-ACTION"
                 \/ a \in Answered(payload) /\ new[a] = payload[a]
                 \/ prev # None /\ a \in DOMAIN prev.ps /\ new[a] = prev.ps[a]
           /\ \A a \in att \ Answered(payload) :
                 new[a] = IF prev # None /\ a \in DOMAIN prev.ps THEN prev.ps[a]
                          ELSE "NEEDS-ACTION"
  <1>1. \A a \in att : prev # None /\ a \in DOMAIN prev.ps => prev.ps[a] \in PartStat
    BY CopyFields
  <1>2. DOMAIN payload = att /\ \A a \in att : payload[a] \in PartStat
    OBVIOUS
  <1> QED
    BY <1>1, <1>2 DEF MergePartStats, Answered

\* A save keeps the stored organizer, or makes the editor one, and the answers it had.
LEMMA SavedCopy ==
    ASSUME edits \in Nat, NEW u \in Accounts, NEW att \in SUBSET Attendees,
           NEW payload \in [att -> PartStat], NEW prev \in Copy \cup {None}
    PROVE  LET new == Saved(u, payload, prev) IN
           /\ new \in Copy
           /\ new.org = IF prev = None THEN u ELSE prev.org
           /\ new.ps = MergePartStats(payload, prev)
  <1> DEFINE stats == MergePartStats(payload, prev)
             ver   == IF prev = None \/ prev.org = u THEN edits + 1 ELSE 0
             org   == IF prev = None THEN u ELSE prev.org
             gone  == IF prev = None THEN {} ELSE prev.gone
             new   == [org |-> org, ver |-> ver, ps |-> stats, gone |-> gone, over |-> {}]
  <1>1. org \in Accounts /\ ver \in Nat /\ gone \in SUBSET Rids
    BY CopyFields
  <1>2. stats \in [att -> PartStat]
    BY MergedAnswers
  <1>3. Saved(u, payload, prev) = new
    BY DEF Saved
  <1>4. new \in Copy
    <2> HIDE DEF org, ver, gone, stats
    <2> QED
      BY <1>1, <1>2, CopyMade
  <1> HIDE DEF stats, gone
  <1>5. new.org = org /\ new.ps = stats
    OBVIOUS
  <1> QED
    BY <1>3, <1>4, <1>5 DEF stats

-----------------------------------------------------------------------------
(* Rightful copies *)

\* What the answers shown are made of, and how they grow: everything said, what the
\* copy's owner asserted, and what may come from the organizer's copy, or from anybody's
\* once the event was revived.
ShownBy(given, claimed, any) ==
    [u \in Accounts |-> [a \in Attendees |-> {"NEEDS-ACTION"} \cup given[a] \cup
        UNION {claimed[w][a] : w \in {v \in Accounts : any \/ v \in {u, Organizer}}}]]

LEMMA ShownParts ==
    ASSUME NEW given, NEW claimed, NEW any, NEW u \in Accounts, NEW a \in Attendees
    PROVE  LET shown == ShownBy(given, claimed, any) IN
           /\ "NEEDS-ACTION" \in shown[u][a] /\ given[a] \subseteq shown[u][a]
           /\ claimed[u][a] \subseteq shown[u][a]
           /\ \A v \in Accounts : any \/ u = Organizer => shown[u][a] \subseteq shown[v][a]
  <1> DEFINE shown == ShownBy(given, claimed, any)
  <1>1. ASSUME NEW v \in Accounts
        PROVE  shown[v][a] = {"NEEDS-ACTION"} \cup given[a] \cup
                  UNION {claimed[w][a] : w \in {x \in Accounts : any \/ x \in {v, Organizer}}}
    BY DEF ShownBy
  <1> HIDE DEF shown
  <1>2. claimed[u][a] \subseteq shown[u][a]
    <2>1. u \in {x \in Accounts : any \/ x \in {u, Organizer}}
      OBVIOUS
    <2> QED
      BY <1>1, <2>1
  <1>3. ASSUME NEW v \in Accounts, any \/ u = Organizer PROVE shown[u][a] \subseteq shown[v][a]
    <2>1. {x \in Accounts : any \/ x \in {u, Organizer}}
             \subseteq {x \in Accounts : any \/ x \in {v, Organizer}}
      BY <1>3
    <2> QED
      BY <1>1, <2>1
  <1> QED
    BY <1>1, <1>2, <1>3 DEF shown

LEMMA ShownNext ==
    /\ Shown = ShownBy(said, asserted, revived)
    /\ Shown' = ShownBy(said', asserted', revived')
  BY DEF Shown, ShownBy

LEMMA ShownGrows ==
    ASSUME Grows, NEW u \in Accounts, NEW a \in Attendees
    PROVE  Shown[u][a] \subseteq Shown'[u][a]
  <1> DEFINE some(any) == {v \in Accounts : any \/ v \in {u, Organizer}}
  <1>1. /\ Shown[u][a] = {"NEEDS-ACTION"} \cup said[a] \cup
                             UNION {asserted[w][a] : w \in some(revived)}
        /\ Shown'[u][a] = {"NEEDS-ACTION"} \cup said'[a] \cup
                             UNION {asserted'[w][a] : w \in some(revived')}
    BY ShownNext DEF ShownBy
  <1>2. some(revived) \subseteq some(revived')
    BY DEF Grows
  <1>3. said[a] \subseteq said'[a] /\ \A w \in Accounts : asserted[w][a] \subseteq asserted'[w][a]
    BY DEF Grows
  <1>4. some(revived) \subseteq Accounts
    OBVIOUS
  <1> HIDE DEF some
  <1> QED
    BY <1>1, <1>2, <1>3, <1>4

\* What the next state shows: what was said, what a client asserted for its own copy,
\* and whatever the organizer's copy, or after a revival anybody's, may show.
LEMMA ShownHas ==
    ASSUME NEW u \in Accounts, NEW a \in Attendees
    PROVE  /\ "NEEDS-ACTION" \in Shown'[u][a] /\ said'[a] \subseteq Shown'[u][a]
           /\ asserted'[u][a] \subseteq Shown'[u][a]
           /\ \A v \in Accounts :
                 revived' \/ u = Organizer => Shown'[u][a] \subseteq Shown'[v][a]
  BY ShownNext, ShownParts

\* Answers only add up, so that a rightful copy stays one.
LEMMA StaysRightful ==
    ASSUME Grows, NEW u \in Accounts, NEW ev \in Copy, Rightful(ev, Shown[u], revived)
    PROVE  Rightful(ev, Shown'[u], revived')
  BY CopyFields, ShownGrows DEF Grows, Rightful

\* What the organizer may show everybody may, and anybody once the event was revived.
LEMMA Reaches ==
    ASSUME NEW u \in Accounts, NEW v \in Accounts, NEW ev \in Copy,
           Rightful(ev, Shown'[u], revived'), revived' \/ u = Organizer
    PROVE  Rightful(ev, Shown'[v], revived')
  BY CopyFields, ShownHas DEF Rightful

LEMMA RightfulWithAnswer ==
    ASSUME NEW ev \in Copy, NEW p \in Attendees, NEW ps \in PartStat, NEW answers, NEW any,
           Rightful(ev, answers, any), ps \in answers[p]
    PROVE  Rightful(SetPartStat(ev, p, ps), answers, any)
  BY SetPartStatCopy DEF Rightful

\* Whoever saves what is stored saves a rightful copy; without one, the organizer does.
LEMMA RightfulSaved ==
    ASSUME edits \in Nat, NEW u \in Accounts, NEW att \in SUBSET Attendees,
           NEW payload \in [att -> PartStat],
           NEW prev \in Copy \cup {None}, NEW answers, NEW any,
           \A a \in Attendees : "NEEDS-ACTION" \in answers[a],
           \A a \in Answered(payload) : payload[a] \in answers[a],
           prev # None => Rightful(prev, answers, any),
           prev = None /\ ~any => u = Organizer
    PROVE  Rightful(Saved(u, payload, prev), answers, any)
  <1>1. DOMAIN Saved(u, payload, prev).ps = att
    BY SavedCopy, MergedAnswers
  <1>2. ASSUME NEW a \in att PROVE Saved(u, payload, prev).ps[a] \in answers[a]
    <2> DEFINE new == MergePartStats(payload, prev)
    <2>1. Saved(u, payload, prev).ps = new
      BY SavedCopy
    <2>2. \/ new[a] = "NEEDS-ACTION"
          \/ a \in Answered(payload) /\ new[a] = payload[a]
          \/ prev # None /\ a \in DOMAIN prev.ps /\ new[a] = prev.ps[a]
      BY MergedAnswers
    <2> HIDE DEF new
    <2> QED
      BY <2>1, <2>2 DEF Rightful
  <1>3. ~any => Saved(u, payload, prev).org = Organizer
    BY SavedCopy DEF Rightful
  <1> QED
    BY <1>1, <1>2, <1>3 DEF Rightful

-----------------------------------------------------------------------------
(* Requests *)

LEMMA RequestFields ==
    ASSUME NEW r \in Requests
    PROVE  /\ r.pc = "open" => r.att \subseteq Attendees
           /\ r.pc \in {"put", "replace"} => r.ev \in Copy /\ r.base \in Copy \cup {None}
           /\ r.pc = "deliver" => r.ev \in Copy /\ r.todo \subseteq Internal
           /\ r.pc = "hand" => /\ r.ev \in Copy /\ r.todo \subseteq Internal
                               /\ r.to \in Internal /\ r.base \in Copy \cup {None}
           /\ r.pc = "override" => r.ev \in Copy /\ r.rid \in Rids /\ r.todo \subseteq Internal
           /\ r.pc = "exclude" => r.rid \in Rids /\ r.todo \subseteq Internal
           /\ r.pc = "cancel" => r.todo \subseteq Internal
           /\ r.pc = "own" => r.ps \in PartStat /\ r.base \in Copy
           /\ r.pc = "find" => r.ps \in PartStat /\ r.org \in Accounts
           /\ r.pc = "org" => r.ps \in PartStat /\ r.org \in Accounts /\ r.base \in Copy
  BY DEF Requests, Idle

\* A copy in a request stays rightful while others go on.
LEMMA StaysRightfulRequest ==
    ASSUME Grows, NEW p, NEW r \in Requests, RightfulRequest(p, r, Shown, revived)
    PROVE  RightfulRequest(p, r, Shown', revived')
  <1>1. r.pc \in {"put", "replace", "deliver", "hand", "override"} =>
            p \in Accounts /\ Rightful(r.ev, Shown'[p], revived')
    BY RequestFields, StaysRightful DEF RightfulRequest
  <1>2. r.pc \in {"put", "replace"} /\ r.base # None => Rightful(r.base, Shown'[p], revived')
    BY RequestFields, StaysRightful DEF RightfulRequest
  <1>3. r.pc = "hand" /\ r.base # None => Rightful(r.base, Shown'[r.to], revived')
    BY RequestFields, StaysRightful DEF RightfulRequest, Accounts
  <1>4. r.pc = "own" => p \in Accounts /\ Rightful(r.base, Shown'[p], revived')
    BY RequestFields, StaysRightful DEF RightfulRequest
  <1>5. r.pc = "org" => Rightful(r.base, Shown'[r.org], revived')
    BY RequestFields, StaysRightful DEF RightfulRequest
  <1>6. r.pc \in {"own", "find", "org"} =>
            p \in Attendees /\ r.ps \in PartStat /\ \A u \in Accounts : r.ps \in Shown'[u][p]
    BY ShownGrows DEF RightfulRequest
  <1> QED
    BY <1>1, <1>2, <1>3, <1>4, <1>5, <1>6 DEF RightfulRequest, Grows

LEMMA IdleRequest ==
    ASSUME NEW p, NEW answers, NEW any
    PROVE  Idle \in Requests /\ RightfulRequest(p, Idle, answers, any)
  BY DEF Idle, Requests, RightfulRequest

\* What a step leaves of copies, requests and mail, and the frame of every step: one
\* calendar and one request at most, while answers only add up.
CopiesOK ==
    /\ cal \in [Accounts -> Copy \cup {None}]
    /\ \A u \in Accounts : cal[u] # None => Rightful(cal[u], Shown[u], revived)
    /\ cal[Organizer] # None => cal[Organizer].org = Organizer

RequestsOK ==
    /\ req \in [Actors -> Requests]
    /\ \A p \in Actors : RightfulRequest(p, req[p], Shown, revived)

MailOK ==
    /\ mail \subseteq [from : External, ps : Mailed]
    /\ \A m \in mail : InboundStatus(m.ps) \in said[m.from]

\* The invariant but for the requests that are parked, which only Switch and Crash touch.
RunningInv == RestOK /\ CopiesOK /\ RequestsOK /\ MailOK

ParkedOK ==
    /\ parked \in [Actors -> Requests] /\ overlaps \in Nat /\ overlapped \in BOOLEAN
    /\ \A p \in Actors : RightfulRequest(p, parked[p], Shown, revived)

LEMMA Parts == RunningInv <=> RestOK /\ CopiesOK /\ RequestsOK /\ MailOK
  BY DEF RunningInv

LEMMA PartsNext ==
    ASSUME RestOK', CopiesOK', RequestsOK', MailOK' PROVE RunningInv'
  BY DEF RunningInv

LEMMA AllParts == SchedulingInv <=> RunningInv /\ ParkedOK
  BY DEF SchedulingInv, TypeOK, RightfulInv, RunningInv, RestOK, CopiesOK, RequestsOK, MailOK,
         ParkedOK, Actors

LEMMA SameAnswers ==
    ASSUME RestOK, UNCHANGED <<said, asserted, revived>> PROVE Grows
  BY DEF RestOK, Grows

LEMMA OneCopy ==
    ASSUME CopiesOK, Grows, NEW u \in Accounts, NEW ev \in Copy \cup {None},
           cal' = [cal EXCEPT ![u] = ev],
           ev # None => Rightful(ev, Shown'[u], revived') /\ (u = Organizer => ev.org = Organizer)
    PROVE  CopiesOK'
  BY StaysRightful DEF CopiesOK, Accounts

LEMMA SameCopies == ASSUME CopiesOK, Grows, UNCHANGED cal PROVE CopiesOK'
  BY StaysRightful DEF CopiesOK

LEMMA OneRequest ==
    ASSUME RestOK, RequestsOK, Grows, NEW p \in Actors, NEW r \in Requests, Become(p, r),
           RightfulRequest(p, r, Shown', revived')
    PROVE  RequestsOK'
  BY StaysRightfulRequest DEF RestOK, RequestsOK, Become

LEMMA SameRequests == ASSUME RestOK, RequestsOK, Grows, UNCHANGED req PROVE RequestsOK'
  BY StaysRightfulRequest DEF RestOK, RequestsOK

LEMMA NoMoreMail ==
    ASSUME MailOK, Grows, NEW less \in SUBSET mail, mail' = less PROVE MailOK'
  BY DEF MailOK, Grows, Attendees

-----------------------------------------------------------------------------
(* Edits *)

\* What the organizer's edit goes on to: an attendee's ends here.
LEMMA GoesOn ==
    ASSUME RestOK, RequestsOK, Grows, NEW u \in Accounts, NEW prev \in Copy \cup {None},
           NEW request \in Requests,
           request.pc \in {"deliver", "override", "exclude", "cancel"},
           request.pc \in {"deliver", "override"} => Rightful(request.ev, Shown'[u], revived'),
           prev # None => Rightful(prev, Shown'[u], revived'),
           u \in Internal /\ ~revived' => prev # None,
           GoOn(u, prev, request)
    PROVE  RequestsOK'
  <1> DEFINE r == IF IsOrganizer(u, prev) THEN request ELSE Idle
  <1>1. r \in Requests /\ u \in Actors
    BY IdleRequest DEF Actors
  <1>2. RightfulRequest(u, r, Shown', revived')
    <2>1. CASE IsOrganizer(u, prev)
      <3>1. u \in Internal => revived'
        BY <2>1, SchedulingAssumption DEF IsOrganizer, Rightful
      <3> QED
        BY <2>1, <3>1 DEF RightfulRequest
    <2>2. CASE ~IsOrganizer(u, prev)
      BY <2>2, IdleRequest
    <2> QED
      BY <2>1, <2>2
  <1> QED
    BY <1>1, <1>2, OneRequest DEF GoOn

\* A stored copy that is read is rightful, and the organizer's own if it is theirs.
LEMMA StoredCopy ==
    ASSUME CopiesOK, Grows, NEW u \in Accounts, NEW prev, prev \in {cal[u], None}
    PROVE  /\ prev \in Copy \cup {None}
           /\ prev # None => /\ Rightful(prev, Shown[u], revived) /\ Rightful(prev, Shown'[u], revived')
                             /\ u = Organizer => prev.org = Organizer
  BY StaysRightful DEF CopiesOK

LEMMA OpenEditorInv ==
    ASSUME RunningInv, NEW u \in Accounts, OpenEditor(u) PROVE RunningInv'
  <1>1. RestOK /\ CopiesOK /\ RequestsOK /\ MailOK /\ Grows
    BY Parts, SameAnswers DEF OpenEditor, history
  <1>2. RestOK' /\ UNCHANGED <<cal, mail>>
    BY <1>1 DEF OpenEditor, RestOK, bounds, history
  <1>3. RequestsOK'
    <2> DEFINE r == [pc |-> "open", att |-> DOMAIN cal[u].ps]
    <2>1. cal[u] \in Copy /\ u \in Actors /\ Become(u, r)
      BY <1>1 DEF OpenEditor, CopiesOK, Actors
    <2>2. r \in Requests
      BY <2>1, CopyFields DEF Requests
    <2>3. RightfulRequest(u, r, Shown', revived')
      BY DEF RightfulRequest
    <2> QED
      BY <1>1, <2>1, <2>2, <2>3, OneRequest
  <1> QED
    BY <1>1, <1>2, <1>3, SameCopies, NoMoreMail, PartsNext

\* Both saves read what is stored and hold what they will write.
LEMMA SaveRequest ==
    ASSUME RestOK, CopiesOK, RequestsOK, Grows, NEW u \in Accounts, NEW att \in SUBSET Attendees,
           NEW payload \in [att -> PartStat],
           \A a \in Answered(payload) : payload[a] \in asserted'[u][a],
           NEW prev, prev \in {cal[u], None}, NEW pc \in {"put", "replace"},
           u \in Internal /\ prev = None => revived',
           Become(u, [pc |-> pc, base |-> prev, ev |-> Saved(u, payload, prev)])
    PROVE  RequestsOK'
  <1> DEFINE ev == Saved(u, payload, prev)
             r  == [pc |-> pc, base |-> prev, ev |-> ev]
  <1>1. /\ prev \in Copy \cup {None} /\ u \in Actors /\ edits \in Nat
        /\ prev # None => Rightful(prev, Shown'[u], revived')
        /\ prev # None /\ u = Organizer => prev.org = Organizer
    BY StoredCopy DEF Actors, RestOK
  <1>2. ev \in Copy /\ ev.org = IF prev = None THEN u ELSE prev.org
    BY <1>1, SavedCopy
  <1>3. Rightful(ev, Shown'[u], revived')
    <2>1. \A a \in Attendees : "NEEDS-ACTION" \in Shown'[u][a]
      BY ShownHas
    <2>2. \A a \in Answered(payload) : payload[a] \in Shown'[u][a]
      BY ShownHas, MergedAnswers
    <2>3. prev = None /\ ~revived' => u = Organizer
      BY DEF Accounts
    <2> QED
      BY <1>1, <2>1, <2>2, <2>3, RightfulSaved
  <1> HIDE DEF ev
  <1>4. r \in Requests
    BY <1>1, <1>2 DEF Requests
  <1>5. RightfulRequest(u, r, Shown', revived')
    BY <1>1, <1>2, <1>3 DEF RightfulRequest
  <1> QED
    BY <1>1, <1>4, <1>5, OneRequest DEF ev

\* What a payload adds to the answers.
LEMMA Submits ==
    ASSUME RestOK, NEW u \in Accounts, NEW att \in SUBSET Attendees,
           NEW payload \in [att -> PartStat], Submit(u, payload)
    PROVE  /\ asserted' \in [Accounts -> [Attendees -> SUBSET PartStat]]
           /\ \A w \in Accounts, a \in Attendees : asserted[w][a] \subseteq asserted'[w][a]
           /\ \A a \in Answered(payload) : payload[a] \in asserted'[u][a]
           /\ \A w \in Accounts, a \in Attendees \ Answered(payload) :
                 asserted'[w][a] = asserted[w][a]
           /\ edits' = edits + 1 /\ edits' \in Nat /\ claims' \in Nat
  <1> DEFINE row == [a \in Attendees |->
                        asserted[u][a] \cup IF a \in Answered(payload) THEN {payload[a]} ELSE {}]
  <1>1. asserted \in [Accounts -> [Attendees -> SUBSET PartStat]]
        /\ asserted' = [asserted EXCEPT ![u] = row]
    BY DEF RestOK, Submit
  <1>2. Answered(payload) \subseteq Attendees /\ \A a \in Answered(payload) : payload[a] \in PartStat
    BY MergedAnswers, NoneAssumption DEF Answered
  <1>3. row \in [Attendees -> SUBSET PartStat]
    BY <1>1, <1>2
  <1>4. /\ \A a \in Attendees : asserted[u][a] \subseteq row[a]
        /\ \A a \in Answered(payload) : payload[a] \in row[a]
        /\ \A a \in Attendees \ Answered(payload) : row[a] = asserted[u][a]
    BY <1>2
  <1>5. Cardinality(Answered(payload)) \in Nat
    <2>1. IsFiniteSet(Attendees)
      BY SchedulingAssumption DEF Attendees
    <2> QED
      BY <1>2, <2>1, FS_Subset, FS_CardinalityType
  <1>6. edits' = edits + 1 /\ edits' \in Nat /\ claims' \in Nat
    BY <1>5 DEF Submit, Edit, RestOK
  <1> HIDE DEF row
  <1> QED
    BY <1>1, <1>3, <1>4, <1>6

\* Reading what is stored counts a fault at most.
LEMMA Reads ==
    ASSUME RestOK, NEW u, NEW prev, ReadStored(u, prev)
    PROVE  replies' \in Nat /\ faults' \in Nat
  BY DEF ReadStored, RestOK

LEMMA SaveEventInv ==
    ASSUME RunningInv, NEW u \in Accounts, NEW att \in SUBSET Attendees,
           NEW payload \in [att -> PartStat], NEW prev \in {cal[u], None},
           SaveEvent(u, payload, prev)
    PROVE  RunningInv'
  <1>1. RestOK /\ CopiesOK /\ RequestsOK /\ MailOK
    BY Parts
  <1>2. revived' = (revived \/ (u # Organizer /\ prev = None)) /\ UNCHANGED <<cal, mail, said>>
        /\ Submit(u, payload)
    BY DEF SaveEvent
  <1>3. Grows
    BY <1>1, <1>2, Submits DEF Grows, RestOK
  <1>4. RestOK'
    <2>1. /\ edits' \in Nat /\ claims' \in Nat /\ replies' \in Nat /\ faults' \in Nat
          /\ asserted' \in [Accounts -> [Attendees -> SUBSET PartStat]]
      BY <1>1, <1>2, Submits, Reads DEF SaveEvent
    <2>2. revived' \in BOOLEAN
      BY <1>3 DEF Grows
    <2>3. UNCHANGED <<recurring, mail, invited, lost, left, apart, said, last>>
      BY DEF SaveEvent
    <2> QED
      BY <1>1, <2>1, <2>2, <2>3 DEF RestOK
  <1>5. RequestsOK'
    <2>1. \A a \in Answered(payload) : payload[a] \in asserted'[u][a]
      BY <1>1, <1>2, Submits
    <2>2. u \in Internal /\ prev = None => revived'
      BY <1>2, SchedulingAssumption
    <2>3. Become(u, [pc |-> "put", base |-> prev, ev |-> Saved(u, payload, prev)])
      BY DEF SaveEvent
    <2> QED
      BY <1>1, <1>3, <2>1, <2>2, <2>3, SaveRequest
  <1> QED
    BY <1>1, <1>2, <1>3, <1>4, <1>5, SameCopies, NoMoreMail, PartsNext

LEMMA SaveAllInv ==
    ASSUME RunningInv, NEW u \in Accounts, NEW att \in SUBSET Attendees,
           NEW payload \in [att -> PartStat], SaveAll(u, payload)
    PROVE  RunningInv'
  <1>0. UNCHANGED <<cal, mail, said, revived>> /\ Submit(u, payload)
    BY DEF SaveAll
  <1>1. RestOK /\ CopiesOK /\ RequestsOK /\ MailOK /\ Grows
    BY <1>0, Parts, Submits DEF Grows, RestOK
  <1>2. RestOK' /\ UNCHANGED <<cal, mail>>
    <2>1. /\ edits' \in Nat /\ claims' \in Nat /\ replies' \in Nat /\ faults' \in Nat
          /\ asserted' \in [Accounts -> [Attendees -> SUBSET PartStat]]
      BY <1>0, <1>1, Submits, Reads DEF SaveAll
    <2>2. UNCHANGED <<recurring, mail, invited, lost, left, apart, revived, said, last>>
      BY DEF SaveAll
    <2> QED
      BY <1>0, <1>1, <2>1, <2>2 DEF RestOK
  <1>3. RequestsOK'
    <2>1. \A a \in Answered(payload) : payload[a] \in asserted'[u][a]
      BY <1>0, <1>1, Submits
    <2>2. Become(u, [pc |-> "replace", base |-> cal[u], ev |-> Saved(u, payload, cal[u])])
          /\ cal[u] # None
      BY DEF SaveAll
    <2> QED
      BY <1>1, <2>1, <2>2, SaveRequest
  <1> QED
    BY <1>1, <1>2, <1>3, SameCopies, NoMoreMail, PartsNext

\* What a write of the master changes about who takes part has its types, and the
\* request goes on to those who are here.
LEMMA Invites ==
    ASSUME RestOK, RequestsOK, Grows, NEW u \in Accounts, NEW ev \in Copy,
           NEW base \in Copy \cup {None}, Invite(u, ev, base),
           Rightful(ev, Shown'[u], revived'),
           base # None => /\ Rightful(base, Shown'[u], revived')
                          /\ u = Organizer => base.org = Organizer,
           u \in Internal /\ ~revived' => base # None
    PROVE  /\ RequestsOK'
           /\ invited' \subseteq External /\ left' \subseteq Internal /\ apart' \subseteq Internal
           /\ last' \in [Attendees -> PartStat]
  <1> DEFINE r == [pc |-> "deliver", ev |-> ev, todo |-> Here(ev) \ {u}]
  <1>1. r \in Requests /\ r.pc = "deliver" /\ r.ev = ev
    BY DEF Requests, Here
  <1>2. GoOn(u, base, r)
    BY DEF Invite
  <1> HIDE DEF r
  <1>3. RequestsOK'
    BY <1>1, <1>2, GoesOn
  <1>4. invited' \subseteq External /\ left' \subseteq Internal /\ last' \in [Attendees -> PartStat]
    BY DEF Invite, RestOK, Here, PartStat
  <1>5. apart' \subseteq Internal
    BY DEF Invite, OnOwn, IsOrganizer, RestOK, Accounts
  <1> QED
    BY <1>3, <1>4, <1>5

LEMMA PutOwnInv ==
    ASSUME RunningInv, NEW u \in Accounts, PutOwn(u) PROVE RunningInv'
  <1> DEFINE r == req[u]
  <1>1. RestOK /\ CopiesOK /\ RequestsOK /\ MailOK /\ Grows
    BY Parts, SameAnswers DEF PutOwn
  <1>2. r \in Requests /\ r.pc = "put" /\ RightfulRequest(u, r, Shown, revived)
    BY <1>1 DEF PutOwn, RequestsOK, Actors
  <1>3. r.ev \in Copy /\ r.base \in Copy \cup {None}
    BY <1>2, RequestFields
  <1>4. /\ Rightful(r.ev, Shown'[u], revived')
        /\ r.base # None => Rightful(r.base, Shown'[u], revived')
    BY <1>1, <1>2, <1>3, StaysRightfulRequest DEF RightfulRequest, RestOK
  <1>5. /\ u = Organizer => r.ev.org = u /\ (r.base # None => r.base.org = u)
        /\ u \in Internal /\ ~revived' => r.base # None
    BY <1>2 DEF RightfulRequest, PutOwn
  <1>6. Invite(u, r.ev, r.base) /\ PutEvent(u, r.ev, r.base)
        /\ UNCHANGED <<recurring, mail, bounds, revived, said, asserted>>
    BY DEF PutOwn
  <1>7. /\ RequestsOK' /\ invited' \subseteq External /\ left' \subseteq Internal
        /\ apart' \subseteq Internal /\ last' \in [Attendees -> PartStat]
    BY <1>1, <1>3, <1>4, <1>5, <1>6, Invites
  <1>8. CopiesOK'
    <2>1. Encoded(r.ev) \in Copy /\ Rightful(Encoded(r.ev), Shown'[u], revived')
          /\ Encoded(r.ev).org = r.ev.org
      BY <1>3, <1>4, EncodedCopy DEF Rightful
    <2> QED
      BY <1>1, <1>5, <1>6, <2>1, OneCopy DEF PutEvent
  <1>9. RestOK'
    BY <1>1, <1>6, <1>7 DEF RestOK, PutEvent, bounds
  <1> QED
    BY <1>1, <1>6, <1>7, <1>8, <1>9, NoMoreMail, PartsNext

LEMMA ReplaceMasterInv ==
    ASSUME RunningInv, NEW u \in Accounts, ReplaceMaster(u) PROVE RunningInv'
  <1> DEFINE r == req[u]
  <1>1. RestOK /\ CopiesOK /\ RequestsOK /\ MailOK /\ Grows
    BY Parts, SameAnswers DEF ReplaceMaster
  <1>2. r \in Requests /\ r.pc = "replace" /\ RightfulRequest(u, r, Shown, revived)
    BY <1>1 DEF ReplaceMaster, RequestsOK, Actors
  <1>3. r.ev \in Copy /\ r.base \in Copy \cup {None} /\ cal[u] \in Copy
    BY <1>1, <1>2, RequestFields DEF ReplaceMaster, CopiesOK
  <1>4. /\ Rightful(r.ev, Shown'[u], revived')
        /\ r.base # None => Rightful(r.base, Shown'[u], revived')
    BY <1>1, <1>2, <1>3, StaysRightfulRequest DEF RightfulRequest, RestOK
  <1>5. /\ u = Organizer => r.ev.org = u /\ (r.base # None => r.base.org = u)
        /\ u \in Internal /\ ~revived' => r.base # None
    BY <1>2 DEF RightfulRequest, ReplaceMaster
  <1> DEFINE new == [r.ev EXCEPT !.over = cal[u].over]
  <1>6. Invite(u, r.ev, r.base) /\ cal' = [cal EXCEPT ![u] = new] /\ lost' \in BOOLEAN
        /\ UNCHANGED <<recurring, mail, bounds, revived, said, asserted>>
    BY <1>1 DEF ReplaceMaster, RestOK
  <1>7. /\ RequestsOK' /\ invited' \subseteq External /\ left' \subseteq Internal
        /\ apart' \subseteq Internal /\ last' \in [Attendees -> PartStat]
    BY <1>1, <1>3, <1>4, <1>5, <1>6, Invites
  <1>8. CopiesOK'
    <2>1. new \in Copy /\ new.org = r.ev.org /\ new.ps = r.ev.ps
      <3>1. cal[u].over \in SUBSET Rids /\ r.ev.gone \in SUBSET Rids
        BY <1>3, CopyFields
      <3> QED
        BY <1>3, <3>1, OverridesCopy
    <2>2. Rightful(new, Shown'[u], revived')
      BY <1>4, <2>1 DEF Rightful
    <2> HIDE DEF new
    <2> QED
      BY <1>1, <1>5, <1>6, <2>1, <2>2, OneCopy
  <1>9. RestOK'
    BY <1>1, <1>6, <1>7 DEF RestOK, bounds
  <1> QED
    BY <1>1, <1>6, <1>7, <1>8, <1>9, NoMoreMail, PartsNext

\* An occurrence customised or deleted leaves a rightful copy.
LEMMA RightfulOccurrences ==
    ASSUME NEW ev \in Copy, NEW answers, NEW any, Rightful(ev, answers, any), NEW x \in Rids
    PROVE  \A new \in {[ev EXCEPT !.over = @ \cup {x}], Excluded(ev, x)} :
              new \in Copy /\ new.org = ev.org /\ Rightful(new, answers, any)
  <1>1. /\ ev.over \cup {x} \in SUBSET Rids /\ ev.gone \cup {x} \in SUBSET Rids
        /\ ev.over \ {x} \in SUBSET Rids
    BY CopyFields
  <1>2. \A new \in {[ev EXCEPT !.over = @ \cup {x}], Excluded(ev, x)} :
           new \in Copy /\ new.org = ev.org /\ new.ps = ev.ps
    <2> DEFINE both == [ev EXCEPT !.gone = ev.gone \cup {x}, !.over = ev.over \ {x}]
               one  == [ev EXCEPT !.over = ev.over \cup {x}]
    <2>1. both \in Copy /\ both.org = ev.org /\ both.ps = ev.ps
      <3> DEFINE g == ev.gone \cup {x}
                 o == ev.over \ {x}
      <3>1. g \in SUBSET Rids /\ o \in SUBSET Rids
        BY <1>1
      <3>2. both = [ev EXCEPT !.gone = g, !.over = o]
        OBVIOUS
      <3> HIDE DEF g, o
      <3> HIDE DEF both
      <3> QED
        BY <3>1, <3>2, OccurrencesCopy
    <2>2. one \in Copy /\ one.org = ev.org /\ one.ps = ev.ps
      <3> DEFINE o == ev.over \cup {x}
      <3>1. o \in SUBSET Rids
        BY <1>1
      <3>2. one = [ev EXCEPT !.over = o]
        OBVIOUS
      <3> HIDE DEF o, one
      <3> QED
        BY <3>1, <3>2, OverridesCopy
    <2>3. Excluded(ev, x) = both
      BY DEF Copy, Excluded
    <2> QED
      BY <2>1, <2>2, <2>3
  <1> QED
    BY <1>2 DEF Rightful

LEMMA SaveThisInv ==
    ASSUME RunningInv, NEW u \in Accounts, NEW x \in Rids, NEW att \in SUBSET Attendees,
           NEW payload \in [att -> PartStat], NEW prev \in {cal[u], None},
           SaveThis(u, x, payload, prev)
    PROVE  RunningInv'
  <1> DEFINE ev   == cal[u]
             sent == IF prev = None THEN Saved(u, payload, None)
                     ELSE [ev EXCEPT !.ps = MergePartStats(payload, ev)]
             r    == [pc |-> "override", rid |-> x, todo |-> Here(ev) \ {u}, ev |-> sent]
             new  == [ev EXCEPT !.over = @ \cup {x}]
  <1>1. RestOK /\ CopiesOK /\ RequestsOK /\ MailOK
    BY Parts
  <1>2. /\ revived' = (revived \/ (u # Organizer /\ prev = None))
        /\ UNCHANGED <<recurring, mail, invited, lost, left, said, last>>
        /\ ev # None /\ cal' = [cal EXCEPT ![u] = new] /\ GoOn(u, prev, r)
        /\ apart' = OnOwn(u, ev) /\ Submit(u, payload)
    BY DEF SaveThis
  <1>3. Grows
    BY <1>1, <1>2, Submits DEF Grows, RestOK
  <1>4. /\ ev \in Copy /\ Rightful(ev, Shown'[u], revived') /\ (u = Organizer => ev.org = Organizer)
        /\ prev \in Copy \cup {None} /\ (prev # None => Rightful(prev, Shown'[u], revived'))
    BY <1>1, <1>2, <1>3, StoredCopy
  <1>5. CopiesOK'
    <2>1. new \in Copy /\ new.org = ev.org /\ Rightful(new, Shown'[u], revived')
      BY <1>4, RightfulOccurrences
    <2> QED
      BY <1>1, <1>2, <1>3, <1>4, <2>1, OneCopy
  <1>6. RequestsOK'
    <2>1. /\ \A a \in Attendees : "NEEDS-ACTION" \in Shown'[u][a]
          /\ \A a \in Answered(payload) : payload[a] \in Shown'[u][a]
      BY <1>1, <1>2, Submits, MergedAnswers, ShownHas
    <2>2. sent \in Copy /\ Rightful(sent, Shown'[u], revived')
      <3>1. CASE prev = None
        <4>1. Saved(u, payload, None) \in Copy
          BY <1>1, SavedCopy DEF RestOK
        <4>2. ~revived' => u = Organizer
          BY <1>2, <3>1
        <4>3. Rightful(Saved(u, payload, None), Shown'[u], revived')
          BY <1>1, <2>1, <4>2, RightfulSaved DEF RestOK
        <4> QED
          BY <3>1, <4>1, <4>3
      <3>2. CASE prev # None
        <4> DEFINE stats == MergePartStats(payload, ev)
                   new2  == [org |-> ev.org, ver |-> ev.ver, ps |-> stats,
                             gone |-> ev.gone, over |-> ev.over]
        <4>1. /\ stats \in [att -> PartStat]
              /\ \A a \in att :
                    \/ stats[a] = "NEEDS-ACTION"
                    \/ a \in Answered(payload) /\ stats[a] = payload[a]
                    \/ a \in DOMAIN ev.ps /\ stats[a] = ev.ps[a]
          BY <1>4, MergedAnswers
        <4> HIDE DEF stats
        <4>2. sent = new2
          BY <1>4, <3>2 DEF stats, Copy
        <4>3. new2 \in Copy
          BY <1>4, <4>1, CopyFields, CopyMade
        <4>4. Rightful(new2, Shown'[u], revived')
          BY <1>4, <2>1, <4>1 DEF Rightful
        <4> HIDE DEF new2, sent
        <4> QED
          BY <4>2, <4>3, <4>4
      <3> QED
        BY <3>1, <3>2
    <2> HIDE DEF sent
    <2>3. r \in Requests /\ r.pc = "override" /\ r.ev = sent
      BY <2>2 DEF Requests, Here
    <2>4. u \in Internal /\ ~revived' => prev # None
      BY <1>2, SchedulingAssumption
    <2> HIDE DEF r
    <2> QED
      BY <1>1, <1>2, <1>3, <1>4, <2>2, <2>3, <2>4, GoesOn
  <1>7. RestOK'
    <2>1. /\ edits' \in Nat /\ claims' \in Nat /\ replies' \in Nat /\ faults' \in Nat
          /\ asserted' \in [Accounts -> [Attendees -> SUBSET PartStat]]
      BY <1>1, <1>2, Submits, Reads DEF SaveThis
    <2>2. apart' \subseteq Internal
      BY <1>1, <1>2, <1>4 DEF OnOwn, IsOrganizer, RestOK, Accounts
    <2>3. revived' \in BOOLEAN
      BY <1>3 DEF Grows
    <2> QED
      BY <1>1, <1>2, <2>1, <2>2, <2>3 DEF RestOK
  <1> QED
    BY <1>1, <1>2, <1>3, <1>5, <1>6, <1>7, NoMoreMail, PartsNext

\* A deletion is passed on, or its request is over.
LEMMA PassesOn ==
    ASSUME RestOK, CopiesOK, RequestsOK, Grows, NEW u \in Accounts, NEW prev,
           prev \in {cal[u], None}, NEW request \in Requests, request.pc \in {"exclude", "cancel"},
           PassOn(u, prev, request)
    PROVE  RequestsOK' /\ lost' \in BOOLEAN
  <1>1. /\ prev \in Copy \cup {None} /\ u \in Actors
        /\ prev # None => Rightful(prev, Shown'[u], revived')
    BY StoredCopy DEF Actors
  <1>2. CASE prev = None
    BY <1>1, <1>2, IdleRequest, OneRequest DEF PassOn
  <1>3. CASE prev # None
    BY <1>1, <1>3, GoesOn DEF PassOn, RestOK
  <1> QED
    BY <1>2, <1>3

LEMMA DeleteThisInv ==
    ASSUME RunningInv, NEW u \in Accounts, NEW x \in Rids, NEW prev \in {cal[u], None},
           DeleteThis(u, x, prev)
    PROVE  RunningInv'
  <1> DEFINE ev == cal[u]
             r  == [pc |-> "exclude", rid |-> x, todo |-> Here(ev) \ {u}]
  <1>1. RestOK /\ CopiesOK /\ RequestsOK /\ MailOK /\ Grows
    BY Parts, SameAnswers DEF DeleteThis
  <1>2. /\ UNCHANGED <<recurring, mail, invited, claims, left, revived, said, asserted, last>>
        /\ ev # None /\ cal' = [cal EXCEPT ![u] = Excluded(ev, x)] /\ PassOn(u, prev, r)
        /\ apart' = OnOwn(u, ev)
    BY DEF DeleteThis
  <1>3. ev \in Copy /\ Rightful(ev, Shown'[u], revived') /\ (u = Organizer => ev.org = Organizer)
    BY <1>1, <1>2, StoredCopy
  <1>4. CopiesOK'
    <2>1. Excluded(ev, x) \in Copy /\ Excluded(ev, x).org = ev.org
          /\ Rightful(Excluded(ev, x), Shown'[u], revived')
      BY <1>3, RightfulOccurrences
    <2> QED
      BY <1>1, <1>2, <1>3, <2>1, OneCopy
  <1>5. RequestsOK' /\ lost' \in BOOLEAN
    <2>1. r \in Requests /\ r.pc = "exclude"
      BY DEF Requests, Here
    <2> HIDE DEF r
    <2> QED
      BY <1>1, <1>2, <2>1, PassesOn
  <1>6. RestOK'
    <2>1. edits' \in Nat /\ replies' \in Nat /\ faults' \in Nat
      BY <1>1 DEF DeleteThis, Edit, ReadStored, RestOK
    <2>2. apart' \subseteq Internal
      BY <1>1, <1>2, <1>3 DEF OnOwn, IsOrganizer, RestOK, Accounts
    <2> QED
      BY <1>1, <1>2, <1>5, <2>1, <2>2 DEF RestOK
  <1> QED
    BY <1>1, <1>2, <1>4, <1>5, <1>6, NoMoreMail, PartsNext

LEMMA DeleteAllInv ==
    ASSUME RunningInv, NEW u \in Accounts, NEW prev \in {cal[u], None}, DeleteAll(u, prev)
    PROVE  RunningInv'
  <1> DEFINE ev == cal[u]
             r  == [pc |-> "cancel", todo |-> Told(u, ev)]
  <1>1. RestOK /\ CopiesOK /\ RequestsOK /\ MailOK /\ Grows
    BY Parts, SameAnswers DEF DeleteAll
  <1>2. /\ UNCHANGED <<recurring, mail, invited, edits, claims, revived, said, asserted, last>>
        /\ ev # None /\ cal' = [cal EXCEPT ![u] = None] /\ PassOn(u, prev, r)
        /\ apart' = OnOwn(u, ev)
        /\ left' = IF IsOrganizer(u, ev) THEN left ELSE left \cup {u}
    BY DEF DeleteAll
  <1>3. u = Organizer => ev.org = Organizer
    BY <1>1, <1>2, StoredCopy
  <1>4. CopiesOK'
    BY <1>1, <1>2, OneCopy
  <1>5. RequestsOK' /\ lost' \in BOOLEAN
    <2>1. r \in Requests /\ r.pc = "cancel"
      BY DEF Requests, Here, Told
    <2> HIDE DEF r
    <2> QED
      BY <1>1, <1>2, <2>1, PassesOn
  <1>6. RestOK'
    <2>1. replies' \in Nat /\ faults' \in Nat
      BY <1>1 DEF DeleteAll, ReadStored, RestOK
    <2>2. apart' \subseteq Internal /\ left' \subseteq Internal
      BY <1>1, <1>2, <1>3 DEF OnOwn, IsOrganizer, RestOK, Accounts
    <2> QED
      BY <1>1, <1>2, <1>5, <2>1, <2>2 DEF RestOK
  <1> QED
    BY <1>1, <1>2, <1>4, <1>5, <1>6, NoMoreMail, PartsNext

-----------------------------------------------------------------------------
(* What follows an organizer's edit *)

\* What a step that begins from u's request may use: nobody's answers change in it.
LEMMA Under ==
    ASSUME RunningInv, UNCHANGED <<said, asserted, revived>>, NEW p \in Actors
    PROVE  /\ RestOK /\ CopiesOK /\ RequestsOK /\ MailOK /\ Grows
           /\ req[p] \in Requests /\ RightfulRequest(p, req[p], Shown', revived')
  BY Parts, SameAnswers, StaysRightfulRequest DEF RequestsOK, RestOK

\* While nothing was revived only the organizer's requests, and those of participants
\* elsewhere, go out to others.
LEMMA FansOut ==
    ASSUME NEW u \in Accounts, NEW r, NEW answers, NEW any, RightfulRequest(u, r, answers, any),
           r.pc \in {"deliver", "hand", "override", "exclude", "cancel"}
    PROVE  u \in Internal => any
  BY DEF RightfulRequest

LEMMA DeliverReadInv ==
    ASSUME RunningInv, NEW u \in Accounts, NEW a \in Internal, DeliverRead(u, a)
    PROVE  RunningInv'
  <1> DEFINE r   == req[u]
             new == [pc |-> "hand", ev |-> r.ev, todo |-> r.todo \ {a}, to |-> a, base |-> cal[a]]
  <1>1. /\ RestOK /\ CopiesOK /\ RequestsOK /\ MailOK /\ Grows
        /\ r \in Requests /\ RightfulRequest(u, r, Shown', revived')
    BY Under DEF DeliverRead, history, Actors
  <1>2. RestOK' /\ UNCHANGED <<cal, mail>>
    BY <1>1 DEF DeliverRead, RestOK, bounds, history
  <1>3. RequestsOK'
    <2>1. r.pc = "deliver" /\ r.ev \in Copy /\ r.todo \subseteq Internal /\ Become(u, new)
      BY <1>1, RequestFields DEF DeliverRead
    <2>2. cal[a] \in Copy \cup {None} /\ (cal[a] # None => Rightful(cal[a], Shown'[a], revived'))
      BY <1>1, StoredCopy DEF Accounts
    <2>3. new \in Requests
      BY <2>1, <2>2 DEF Requests
    <2>4. RightfulRequest(u, new, Shown', revived')
      BY <1>1, <2>1, <2>2 DEF RightfulRequest
    <2> HIDE DEF new
    <2> QED
      BY <1>1, <2>1, <2>3, <2>4, OneRequest DEF Actors
  <1> QED
    BY <1>1, <1>2, <1>3, SameCopies, NoMoreMail, PartsNext

\* A fan-out that has one recipient less to serve, or a delivery that is over.
LEMMA GoesOnFan ==
    ASSUME RestOK, RequestsOK, Grows, NEW u \in Accounts, NEW r \in Requests,
           r.pc \in {"deliver", "hand", "override", "exclude", "cancel"},
           RightfulRequest(u, r, Shown', revived'), NEW new \in Requests,
           new.pc = r.pc \/ (new.pc = "deliver" /\ r.pc = "hand"), new.pc # "hand",
           new.pc \in {"deliver", "override"} => new.ev = r.ev,
           Become(u, new)
    PROVE  RequestsOK'
  <1>1. RightfulRequest(u, new, Shown', revived')
    BY DEF RightfulRequest
  <1> QED
    BY <1>1, OneRequest DEF Actors

LEMMA DeliverPutInv ==
    ASSUME RunningInv, NEW u \in Accounts, DeliverPut(u) PROVE RunningInv'
  <1> DEFINE r   == req[u]
             new == [pc |-> "deliver", ev |-> r.ev, todo |-> r.todo]
             ev  == IF r.base # None /\ r.to \in DOMAIN r.base.ps
                    THEN SetPartStat(r.ev, r.to, r.base.ps[r.to]) ELSE r.ev
  <1>1. /\ RestOK /\ CopiesOK /\ RequestsOK /\ MailOK /\ Grows
        /\ r \in Requests /\ RightfulRequest(u, r, Shown', revived')
    BY Under DEF DeliverPut, Actors
  <1>2. /\ r.pc = "hand" /\ r.ev \in Copy /\ r.todo \subseteq Internal
        /\ r.to \in Internal /\ r.base \in Copy \cup {None}
    BY <1>1, RequestFields DEF DeliverPut
  <1>3. /\ PutEvent(r.to, ev, r.base) /\ Become(u, new) /\ apart' = apart \ {r.to}
        /\ UNCHANGED <<recurring, mail, invited, bounds, left, revived, said, asserted, last>>
    BY DEF DeliverPut
  <1>4. ev \in Copy /\ Rightful(ev, Shown'[r.to], revived')
    <2>1. Rightful(r.ev, Shown'[r.to], revived')
      <3>1. Rightful(r.ev, Shown'[u], revived')
        BY <1>1, <1>2 DEF RightfulRequest
      <3>2. revived' \/ u = Organizer
        BY <1>1, <1>2, FansOut DEF Accounts
      <3> QED
        BY <1>2, <3>1, <3>2, Reaches DEF Accounts
    <2>2. CASE r.base # None /\ r.to \in DOMAIN r.base.ps
      <3>1. r.base.ps[r.to] \in PartStat
        BY <1>2, <2>2, CopyFields
      <3>2. r.base.ps[r.to] \in Shown'[r.to][r.to]
        BY <1>1, <1>2, <2>2 DEF RightfulRequest, Rightful
      <3> QED
        BY <1>2, <2>1, <2>2, <3>1, <3>2, SetPartStatCopy, RightfulWithAnswer DEF Attendees
    <2> QED
      BY <1>2, <2>1, <2>2
  <1> HIDE DEF ev
  <1>5. CopiesOK'
    <2>1. Encoded(ev) \in Copy /\ Rightful(Encoded(ev), Shown'[r.to], revived')
      BY <1>4, EncodedCopy DEF Rightful
    <2>2. r.to \in Accounts /\ r.to # Organizer
      BY <1>2, SchedulingAssumption DEF Accounts
    <2> QED
      BY <1>1, <1>3, <2>1, <2>2, OneCopy DEF PutEvent
  <1>6. RequestsOK'
    <2>1. new \in Requests /\ new.pc = "deliver" /\ new.ev = r.ev
      BY <1>2 DEF Requests
    <2> HIDE DEF new
    <2> QED
      BY <1>1, <1>2, <1>3, <2>1, GoesOnFan
  <1>7. RestOK'
    BY <1>1, <1>3 DEF RestOK, PutEvent, bounds
  <1> QED
    BY <1>1, <1>3, <1>5, <1>6, <1>7, NoMoreMail, PartsNext

\* One attendee's copy of an occurrence changes, and the fan-out goes on to the rest.
LEMMA FanStep ==
    ASSUME RunningInv, NEW u \in Accounts, NEW a \in Internal, NEW ev \in Copy \cup {None},
           req[u].pc \in {"override", "exclude", "cancel"},
           Become(u, [req[u] EXCEPT !.todo = @ \ {a}]),
           cal' = [cal EXCEPT ![a] = ev],
           ev # None => Rightful(ev, Shown'[a], revived'),
           UNCHANGED <<recurring, mail, invited, bounds, lost, history>>
    PROVE  RunningInv'
  <1> DEFINE r   == req[u]
             new == [r EXCEPT !.todo = @ \ {a}]
  <1>1. /\ RestOK /\ CopiesOK /\ RequestsOK /\ MailOK /\ Grows
        /\ r \in Requests /\ RightfulRequest(u, r, Shown', revived')
    BY Under DEF history, Actors
  <1>2. CopiesOK'
    <2>1. a \in Accounts /\ a # Organizer
      BY SchedulingAssumption DEF Accounts
    <2> QED
      BY <1>1, <2>1, OneCopy
  <1>3. RequestsOK'
    <2>1. new \in Requests /\ new.pc = r.pc /\ (r.pc = "override" => new.ev = r.ev)
      <3>1. CASE r.pc = "override"
        BY <1>1, <3>1 DEF Requests, Idle
      <3>2. CASE r.pc = "exclude"
        BY <1>1, <3>2 DEF Requests, Idle
      <3>3. CASE r.pc = "cancel"
        BY <1>1, <3>3 DEF Requests, Idle
      <3> QED
        BY <3>1, <3>2, <3>3
    <2> HIDE DEF new
    <2>2. Become(u, new)
      BY DEF new
    <2> QED
      BY <1>1, <2>1, <2>2, GoesOnFan
  <1>4. RestOK'
    BY <1>1 DEF RestOK, bounds, history
  <1> QED
    BY <1>1, <1>2, <1>3, <1>4, NoMoreMail, PartsNext

LEMMA DeliverOverrideInv ==
    ASSUME RunningInv, NEW u \in Accounts, NEW a \in Internal, DeliverOverride(u, a)
    PROVE  RunningInv'
  <1> DEFINE r    == req[u]
             only == [r.ev EXCEPT !.gone = Rids \ {r.rid}]
             ev   == IF cal[a] # None THEN [cal[a] EXCEPT !.over = @ \cup {r.rid}]
                     ELSE Encoded(only)
  <1>1. /\ RestOK /\ CopiesOK /\ RequestsOK /\ MailOK /\ Grows
        /\ r \in Requests /\ RightfulRequest(u, r, Shown', revived')
    BY Under DEF DeliverOverride, history, Actors
  <1>2. r.pc = "override" /\ r.ev \in Copy /\ r.rid \in Rids /\ Rightful(r.ev, Shown'[a], revived')
    <2>1. r.pc = "override" /\ r.ev \in Copy /\ r.rid \in Rids
      BY <1>1, RequestFields DEF DeliverOverride
    <2>2. Rightful(r.ev, Shown'[u], revived') /\ (revived' \/ u = Organizer)
      BY <1>1, <2>1, FansOut DEF RightfulRequest, Accounts
    <2> QED
      BY <2>1, <2>2, Reaches DEF Accounts
  <1>3. ev \in Copy /\ Rightful(ev, Shown'[a], revived')
    <2>1. CASE cal[a] # None
      <3>1. cal[a] \in Copy /\ Rightful(cal[a], Shown'[a], revived')
        BY <1>1, <2>1, StoredCopy DEF Accounts
      <3> QED
        BY <1>2, <2>1, <3>1, RightfulOccurrences
    <2>2. CASE cal[a] = None
      <3>1. Rids \ {r.rid} \in SUBSET Rids
        OBVIOUS
      <3>2. only \in Copy /\ only.org = r.ev.org /\ only.ps = r.ev.ps
        BY <1>2, <3>1, DeletionsCopy
      <3> HIDE DEF only
      <3>3. Encoded(only) \in Copy /\ Rightful(Encoded(only), Shown'[a], revived')
        BY <1>2, <3>2, EncodedCopy DEF Rightful
      <3> QED
        BY <2>2, <3>3
    <2> QED
      BY <2>1, <2>2
  <1>4. cal' = [cal EXCEPT ![a] = ev]
    BY DEF DeliverOverride
  <1> HIDE DEF ev
  <1> QED
    BY <1>2, <1>3, <1>4, FanStep DEF DeliverOverride

LEMMA CancelOccurrenceInv ==
    ASSUME RunningInv, NEW u \in Accounts, NEW a \in Internal, CancelOccurrence(u, a)
    PROVE  RunningInv'
  <1> DEFINE r  == req[u]
             ev == IF cal[a] # None THEN Excluded(cal[a], r.rid) ELSE None
  <1>1. /\ CopiesOK /\ Grows /\ r \in Requests
    BY Under DEF CancelOccurrence, history, Actors
  <1>2. r.pc = "exclude" /\ r.rid \in Rids
    BY <1>1, RequestFields DEF CancelOccurrence
  <1>3. ev \in Copy \cup {None} /\ (ev # None => Rightful(ev, Shown'[a], revived'))
    <2>1. CASE cal[a] # None
      <3>1. cal[a] \in Copy /\ Rightful(cal[a], Shown'[a], revived')
        BY <1>1, <2>1, StoredCopy DEF Accounts
      <3> QED
        BY <1>2, <2>1, <3>1, RightfulOccurrences
    <2> QED
      BY <2>1
  <1>4. cal' = [cal EXCEPT ![a] = ev]
    BY DEF CancelOccurrence
  <1> HIDE DEF ev
  <1> QED
    BY <1>2, <1>3, <1>4, FanStep DEF CancelOccurrence

LEMMA FinishInv ==
    ASSUME RunningInv, NEW u \in Accounts, Finish(u) PROVE RunningInv'
  <1>1. RestOK /\ CopiesOK /\ RequestsOK /\ MailOK /\ Grows /\ u \in Actors
    BY Under DEF Finish, history, Actors
  <1>2. RequestsOK'
    BY <1>1, IdleRequest, OneRequest DEF Finish
  <1> QED
    BY <1>1, <1>2, SameCopies, NoMoreMail, PartsNext DEF Finish, RestOK, bounds, history

LEMMA CancelCopyInv ==
    ASSUME RunningInv, NEW u \in Accounts, NEW a \in Internal, CancelCopy(u, a)
    PROVE  RunningInv'
  BY FanStep DEF CancelCopy

-----------------------------------------------------------------------------
(* Answers *)

LEMMA ReplyReadInv ==
    ASSUME RunningInv, NEW a \in Internal, NEW ps \in Reply, ReplyRead(a, ps)
    PROVE  RunningInv'
  <1> DEFINE new == [pc |-> "own", ps |-> ps, base |-> cal[a]]
  <1>1. RestOK /\ CopiesOK /\ RequestsOK /\ MailOK
    BY Parts
  <1>2. /\ said' = [said EXCEPT ![a] = @ \cup {ps}]
        /\ UNCHANGED <<recurring, cal, mail, invited, lost, left, apart, revived, asserted>>
        /\ cal[a] # None /\ Become(a, new)
    BY DEF ReplyRead, Answer
  <1>3. a \in Accounts /\ a \in Attendees /\ a \in Actors /\ ps \in PartStat
        /\ a # Organizer
    BY SchedulingAssumption DEF Accounts, Attendees, Actors, Reply
  <1>4. Grows /\ ps \in said'[a]
    BY <1>1, <1>2, <1>3 DEF Grows, RestOK
  <1>40. \A u \in Accounts : ps \in Shown'[u][a]
    BY <1>3, <1>4, ShownHas
  <1>5. RequestsOK'
    <2>1. cal[a] \in Copy /\ Rightful(cal[a], Shown'[a], revived')
      BY <1>1, <1>2, <1>3, <1>4, StoredCopy
    <2>2. new \in Requests
      BY <1>3, <2>1 DEF Requests
    <2>3. RightfulRequest(a, new, Shown', revived')
      BY <1>3, <1>40, <2>1 DEF RightfulRequest
    <2> QED
      BY <1>1, <1>2, <1>3, <1>4, <2>2, <2>3, OneRequest
  <1>6. RestOK'
    <2>1. edits' \in Nat /\ claims' \in Nat /\ replies' \in Nat /\ faults' \in Nat
      BY <1>1 DEF ReplyRead, Answer, RestOK
    <2>2. last' \in [Attendees -> PartStat]
      BY <1>1, <1>3 DEF ReplyRead, RestOK
    <2> QED
      BY <1>1, <1>2, <1>4, <2>1, <2>2 DEF RestOK, Grows
  <1> QED
    BY <1>1, <1>2, <1>4, <1>5, <1>6, SameCopies, NoMoreMail, PartsNext

LEMMA ReplyOwnInv ==
    ASSUME RunningInv, NEW a \in Internal, ReplyOwn(a) PROVE RunningInv'
  <1> DEFINE r   == req[a]
             ev  == SetPartStat(r.base, a, r.ps)
             new == IF r.base.org = a THEN Idle
                    ELSE [pc |-> "find", ps |-> r.ps, org |-> r.base.org]
  <1>1. /\ RestOK /\ CopiesOK /\ RequestsOK /\ MailOK /\ Grows
        /\ r \in Requests /\ RightfulRequest(a, r, Shown', revived')
    BY Under DEF ReplyOwn, history, Actors, Accounts
  <1>2. a \in Accounts /\ a \in Attendees /\ a \in Actors /\ a # Organizer
    BY SchedulingAssumption DEF Accounts, Attendees, Actors
  <1>3. /\ PutEvent(a, ev, r.base) /\ Become(a, new) /\ r.pc = "own"
        /\ UNCHANGED <<recurring, mail, invited, bounds, history>>
    BY DEF ReplyOwn
  <1>4. r.ps \in PartStat /\ r.base \in Copy /\ \A u \in Accounts : r.ps \in Shown'[u][a]
    BY <1>1, <1>3, RequestFields DEF RightfulRequest
  <1>5. Rightful(r.base, Shown'[a], revived')
    BY <1>1, <1>3 DEF RightfulRequest
  <1>6. CopiesOK'
    <2>1. ev \in Copy /\ Rightful(ev, Shown'[a], revived')
      BY <1>2, <1>4, <1>5, SetPartStatCopy, RightfulWithAnswer
    <2> HIDE DEF ev
    <2>2. Encoded(ev) \in Copy /\ Rightful(Encoded(ev), Shown'[a], revived')
      BY <2>1, EncodedCopy DEF Rightful
    <2> QED
      BY <1>1, <1>2, <1>3, <2>2, OneCopy DEF PutEvent
  <1>7. RequestsOK'
    <2>1. CASE r.base.org = a
      BY <1>1, <1>2, <1>3, <2>1, IdleRequest, OneRequest
    <2>2. CASE r.base.org # a
      <3>1. new = [pc |-> "find", ps |-> r.ps, org |-> r.base.org]
        BY <2>2
      <3>2. r.base.org \in Accounts /\ (~revived' => r.base.org = Organizer)
        BY <1>4, <1>5, CopyFields DEF Rightful
      <3>3. new \in Requests
        BY <1>4, <3>1, <3>2 DEF Requests
      <3>4. RightfulRequest(a, new, Shown', revived')
        BY <1>2, <1>4, <3>1, <3>2 DEF RightfulRequest
      <3> HIDE DEF new
      <3> QED
        BY <1>1, <1>2, <1>3, <3>3, <3>4, OneRequest
    <2> QED
      BY <2>1, <2>2
  <1>8. RestOK'
    BY <1>1, <1>3 DEF RestOK, PutEvent, bounds, history
  <1> QED
    BY <1>1, <1>3, <1>6, <1>7, <1>8, NoMoreMail, PartsNext DEF history

LEMMA ReplyFindInv ==
    ASSUME RunningInv, NEW a \in Internal, ReplyFind(a) PROVE RunningInv'
  <1> DEFINE r   == req[a]
             new == [pc |-> "org", ps |-> r.ps, org |-> r.org, base |-> cal[r.org]]
  <1>1. /\ RestOK /\ CopiesOK /\ RequestsOK /\ MailOK /\ Grows /\ a \in Actors
        /\ r \in Requests /\ RightfulRequest(a, r, Shown', revived')
    BY Under DEF ReplyFind, history, Actors, Accounts
  <1>2. /\ r.pc = "find" /\ UNCHANGED <<recurring, cal, mail, invited, bounds, lost, history>>
        /\ Become(a, IF cal[r.org] = None THEN Idle ELSE new)
    BY DEF ReplyFind
  <1>3. r.ps \in PartStat /\ r.org \in Accounts
    BY <1>1, <1>2, RequestFields
  <1>4. RequestsOK'
    <2>1. CASE cal[r.org] = None
      BY <1>1, <1>2, <2>1, IdleRequest, OneRequest
    <2>2. CASE cal[r.org] # None
      <3>1. /\ cal[r.org] \in Copy /\ Rightful(cal[r.org], Shown'[r.org], revived')
            /\ r.org = Organizer => cal[r.org].org = Organizer
        BY <1>1, <1>3, <2>2, StoredCopy
      <3>2. new \in Requests
        BY <1>3, <3>1 DEF Requests
      <3>3. RightfulRequest(a, new, Shown', revived')
        BY <1>1, <1>2, <3>1, SchedulingAssumption DEF RightfulRequest
      <3>4. Become(a, new)
        BY <1>2, <2>2
      <3> HIDE DEF new
      <3> QED
        BY <1>1, <3>2, <3>3, <3>4, OneRequest
    <2> QED
      BY <2>1, <2>2
  <1> QED
    BY <1>1, <1>2, <1>4, SameCopies, NoMoreMail, PartsNext DEF RestOK, bounds, history

LEMMA ReplyOrganizerInv ==
    ASSUME RunningInv, NEW p \in Attendees, ReplyOrganizer(p) PROVE RunningInv'
  <1> DEFINE r  == req[p]
             ev == SetPartStat(r.base, p, r.ps)
  <1>1. /\ RestOK /\ CopiesOK /\ RequestsOK /\ MailOK /\ Grows /\ p \in Actors
        /\ r \in Requests /\ RightfulRequest(p, r, Shown', revived')
    BY Under DEF ReplyOrganizer, history, Actors, Accounts, Attendees
  <1>2. /\ r.pc = "org" /\ PutEvent(r.org, ev, r.base) /\ Become(p, Idle)
        /\ UNCHANGED <<recurring, mail, invited, bounds, history>>
    BY DEF ReplyOrganizer
  <1>3. r.ps \in PartStat /\ r.org \in Accounts /\ r.base \in Copy
    BY <1>1, <1>2, RequestFields
  <1>4. /\ r.ps \in Shown'[r.org][p] /\ Rightful(r.base, Shown'[r.org], revived')
        /\ r.org = Organizer => r.base.org = Organizer
    BY <1>1, <1>2, <1>3 DEF RightfulRequest
  <1>5. CopiesOK'
    <2>1. ev \in Copy /\ ev.org = r.base.org /\ Rightful(ev, Shown'[r.org], revived')
      BY <1>3, <1>4, SetPartStatCopy, RightfulWithAnswer
    <2> HIDE DEF ev
    <2>2. Encoded(ev) \in Copy /\ Encoded(ev).org = ev.org /\ Rightful(Encoded(ev), Shown'[r.org], revived')
      BY <2>1, EncodedCopy DEF Rightful
    <2> QED
      BY <1>1, <1>2, <1>3, <1>4, <2>1, <2>2, OneCopy DEF PutEvent
  <1>6. RequestsOK'
    BY <1>1, <1>2, IdleRequest, OneRequest
  <1>7. RestOK'
    BY <1>1, <1>2 DEF RestOK, PutEvent, bounds, history
  <1> QED
    BY <1>1, <1>2, <1>5, <1>6, <1>7, NoMoreMail, PartsNext DEF history

-----------------------------------------------------------------------------
(* Mail and faults *)

LEMMA MailReplyInv ==
    ASSUME RunningInv, NEW x \in External, NEW ps \in Mailed, MailReply(x, ps)
    PROVE  RunningInv'
  <1> DEFINE answer == InboundStatus(ps)
             m      == [from |-> x, ps |-> ps]
  <1>1. RestOK /\ CopiesOK /\ RequestsOK /\ MailOK
    BY Parts
  <1>2. /\ said' = [said EXCEPT ![x] = @ \cup {answer}] /\ mail' = mail \cup {m}
        /\ UNCHANGED <<recurring, cal, req, invited, lost, left, apart, revived, asserted, last>>
    BY DEF MailReply, Answer
  <1>3. x \in Attendees /\ answer \in PartStat
    BY DEF Attendees, InboundStatus, Mailed, PartStat
  <1> HIDE DEF answer
  <1>4. Grows /\ answer \in said'[x]
    BY <1>1, <1>2, <1>3 DEF Grows, RestOK
  <1>5. MailOK'
    <2>1. mail' \subseteq [from : External, ps : Mailed]
      BY <1>1, <1>2 DEF MailOK
    <2>2. ASSUME NEW n \in mail PROVE InboundStatus(n.ps) \in said'[n.from]
      <3>1. n.from \in Attendees /\ InboundStatus(n.ps) \in said[n.from]
        BY <1>1 DEF MailOK, Attendees
      <3> QED
        BY <1>4, <3>1 DEF Grows
    <2>3. InboundStatus(m.ps) \in said'[m.from]
      BY <1>4 DEF answer
    <2> QED
      BY <1>2, <2>1, <2>2, <2>3 DEF MailOK
  <1>6. RestOK'
    <2>1. edits' \in Nat /\ claims' \in Nat /\ replies' \in Nat /\ faults' \in Nat
      BY <1>1 DEF MailReply, Answer, RestOK
    <2> QED
      BY <1>1, <1>2, <1>4, <1>5, <2>1 DEF RestOK, Grows, MailOK
  <1> QED
    BY <1>1, <1>2, <1>4, <1>5, <1>6, SameCopies, SameRequests, PartsNext

LEMMA InboundReplyInv ==
    ASSUME RunningInv, NEW m \in mail, InboundReply(m) PROVE RunningInv'
  <1> DEFINE ev  == cal[Organizer]
             new == [pc |-> "org", ps |-> InboundStatus(m.ps), org |-> Organizer, base |-> ev]
  <1>1. RestOK /\ CopiesOK /\ RequestsOK /\ MailOK /\ Grows
    BY Parts, SameAnswers DEF InboundReply, history
  <1>2. /\ mail' \in {mail, mail \ {m}} /\ ev # None /\ Become(m.from, new)
        /\ UNCHANGED <<recurring, cal, invited, bounds, lost, history>>
    BY DEF InboundReply
  <1>3. /\ m.from \in External /\ m.from \in Actors /\ m.from \in Attendees /\ m.ps \in Mailed
        /\ m.from \notin Internal
    BY <1>1, SchedulingAssumption DEF MailOK, Actors, Attendees
  <1>4. RequestsOK'
    <2>1. ev \in Copy /\ Rightful(ev, Shown'[Organizer], revived') /\ ev.org = Organizer
      BY <1>1, <1>2, StoredCopy DEF Accounts
    <2>2. /\ InboundStatus(m.ps) \in PartStat
          /\ \A u \in Accounts : InboundStatus(m.ps) \in Shown'[u][m.from]
      <3>1. InboundStatus(m.ps) \in PartStat /\ InboundStatus(m.ps) \in said'[m.from]
        BY <1>1, <1>2, <1>3 DEF MailOK, InboundStatus, Mailed, PartStat, history
      <3> QED
        BY <1>3, <3>1, ShownHas
    <2>3. new \in Requests
      BY <2>1, <2>2 DEF Requests, Accounts
    <2>4. RightfulRequest(m.from, new, Shown', revived')
      BY <1>3, <2>1, <2>2 DEF RightfulRequest
    <2> HIDE DEF new
    <2> QED
      BY <1>1, <1>2, <1>3, <2>3, <2>4, OneRequest
  <1>5. RestOK'
    BY <1>1, <1>2 DEF RestOK, bounds, history
  <1> QED
    BY <1>1, <1>2, <1>4, <1>5, SameCopies, NoMoreMail, PartsNext

LEMMA LoseMailInv ==
    ASSUME RunningInv, NEW m \in mail, LoseMail(m) PROVE RunningInv'
  <1>1. RestOK /\ CopiesOK /\ RequestsOK /\ MailOK /\ Grows
    BY Parts, SameAnswers DEF LoseMail, history
  <1> QED
    BY <1>1, SameCopies, SameRequests, NoMoreMail, PartsNext DEF LoseMail, RestOK, bounds, history

LEMMA WriteFailsInv ==
    ASSUME RunningInv, NEW p \in Actors, WriteFails(p) PROVE RunningInv'
  <1> DEFINE r   == req[p]
             new == [pc |-> "deliver", ev |-> r.ev, todo |-> r.todo]
  <1>1. /\ RestOK /\ CopiesOK /\ RequestsOK /\ MailOK /\ Grows
        /\ r \in Requests /\ RightfulRequest(p, r, Shown', revived')
    BY Under DEF WriteFails, history
  <1>2. RequestsOK'
    <2>1. CASE r.pc = "hand" /\ Become(p, new)
      <3>1. new \in Requests
        BY <1>1, <2>1, RequestFields DEF Requests
      <3>2. RightfulRequest(p, new, Shown', revived')
        BY <1>1, <2>1 DEF RightfulRequest
      <3> HIDE DEF new
      <3> QED
        BY <1>1, <2>1, <3>1, <3>2, OneRequest
    <2>2. CASE Become(p, Idle)
      BY <1>1, <2>2, IdleRequest, OneRequest
    <2> QED
      BY <2>1, <2>2 DEF WriteFails
  <1>3. RestOK'
    BY <1>1 DEF WriteFails, Fault, RestOK, history
  <1> QED
    BY <1>1, <1>2, <1>3, SameCopies, NoMoreMail, PartsNext DEF WriteFails

LEMMA CrashInv == ASSUME RunningInv, Crash PROVE RunningInv'
  <1>1. RestOK /\ CopiesOK /\ RequestsOK /\ MailOK /\ Grows
    BY Parts, SameAnswers DEF Crash, history
  <1>2. RequestsOK'
    BY IdleRequest DEF Crash, RequestsOK, Actors
  <1>3. RestOK'
    BY <1>1 DEF Crash, Fault, RestOK, history
  <1> QED
    BY <1>1, <1>2, <1>3, SameCopies, NoMoreMail, PartsNext DEF Crash

-----------------------------------------------------------------------------
\* Every step of a request leaves the running part in order ...
LEMMA RunningStep ==
    ASSUME RunningInv, Next, ~\E p \in Actors : Switch(p)
    PROVE  RunningInv'
  <1>1. CASE Organize
    <2>1. PICK u \in Accounts :
             \/ OpenEditor(u)
             \/ \E prev \in {cal[u], None} :
                   DeleteAll(u, prev) \/ \E r \in Rids : DeleteThis(u, r, prev)
             \/ \E att \in SUBSET Attendees : \E payload \in Payloads(att) :
                   \/ SaveAll(u, payload)
                   \/ \E prev \in {cal[u], None} :
                         \/ SaveEvent(u, payload, prev)
                         \/ \E r \in Rids : SaveThis(u, r, payload, prev)
      BY <1>1 DEF Organize
    <2>2. ASSUME NEW att \in SUBSET Attendees PROVE Payloads(att) \subseteq [att -> PartStat]
      BY DEF Payloads
    <2>3. CASE OpenEditor(u)
      BY <2>3, OpenEditorInv
    <2>4. CASE \E prev \in {cal[u], None} :
                  DeleteAll(u, prev) \/ \E r \in Rids : DeleteThis(u, r, prev)
      BY <2>4, DeleteAllInv, DeleteThisInv
    <2>5. ASSUME NEW att \in SUBSET Attendees, NEW payload \in Payloads(att),
                 \/ SaveAll(u, payload)
                 \/ \E prev \in {cal[u], None} :
                       \/ SaveEvent(u, payload, prev)
                       \/ \E r \in Rids : SaveThis(u, r, payload, prev)
          PROVE  RunningInv'
      <3>1. payload \in [att -> PartStat]
        BY <2>2
      <3> QED
        BY <2>5, <3>1, SaveAllInv, SaveEventInv, SaveThisInv
    <2> QED
      BY <2>1, <2>3, <2>4, <2>5
  <1>2. CASE Dispatch
    BY <1>2, PutOwnInv, ReplaceMasterInv, DeliverPutInv, FinishInv, DeliverReadInv,
       DeliverOverrideInv, CancelOccurrenceInv, CancelCopyInv
    DEF Dispatch
  <1>3. CASE Attend
    BY <1>3, ReplyReadInv, ReplyOwnInv, ReplyFindInv, ReplyOrganizerInv DEF Attend
  <1>4. CASE Mail
    BY <1>4, MailReplyInv, InboundReplyInv, LoseMailInv DEF Mail
  <1>5. CASE Crash
    BY <1>5, CrashInv
  <1>6. CASE \E p \in Actors : WriteFails(p)
    BY <1>6, WriteFailsInv
  <1> QED
    BY <1>1, <1>2, <1>3, <1>4, <1>5, <1>6 DEF Next, Actors

\* ... and no step takes an answer back.
LEMMA StepGrows == ASSUME RunningInv, [Next]_vars PROVE Grows
  <1>1. RestOK
    BY Parts
  <1>2. CASE UNCHANGED <<said, asserted, revived>>
    BY <1>1, <1>2, SameAnswers
  <1>3. ASSUME NEW u \in Accounts, NEW att \in SUBSET Attendees, NEW payload \in Payloads(att),
               Submit(u, payload), UNCHANGED said, revived' \in BOOLEAN, revived => revived'
        PROVE  Grows
    <2>1. payload \in [att -> PartStat]
      BY DEF Payloads
    <2> QED
      BY <1>1, <1>3, <2>1, Submits DEF Grows, RestOK
  <1>4. ASSUME NEW a \in Attendees, NEW ps \in PartStat, said' = [said EXCEPT ![a] = @ \cup {ps}],
               UNCHANGED <<asserted, revived>>
        PROVE  Grows
    BY <1>1, <1>4 DEF Grows, RestOK
  <1>5. CASE Organize
    <2>1. ASSUME NEW u \in Accounts, NEW att \in SUBSET Attendees, NEW payload \in Payloads(att),
                 SaveAll(u, payload)
          PROVE  Grows
      <3>1. Submit(u, payload) /\ UNCHANGED <<said, revived>>
        BY <2>1 DEF SaveAll
      <3> QED
        BY <1>1, <1>3, <3>1 DEF RestOK
    <2>2. ASSUME NEW u \in Accounts, NEW att \in SUBSET Attendees, NEW payload \in Payloads(att),
                 NEW prev, NEW r, SaveEvent(u, payload, prev) \/ SaveThis(u, r, payload, prev)
          PROVE  Grows
      <3>1. Submit(u, payload) /\ UNCHANGED said
            /\ revived' = (revived \/ (u # Organizer /\ prev = None))
        BY <2>2 DEF SaveEvent, SaveThis
      <3> QED
        BY <1>1, <1>3, <3>1 DEF RestOK
    <2>3. ASSUME NEW u \in Accounts, NEW prev, NEW r,
                 OpenEditor(u) \/ DeleteAll(u, prev) \/ DeleteThis(u, r, prev)
          PROVE  Grows
      BY <1>2, <2>3 DEF OpenEditor, DeleteAll, DeleteThis, history
    <2> QED
      BY <1>5, <2>1, <2>2, <2>3 DEF Organize
  <1>6. CASE Dispatch
    BY <1>2, <1>6 DEF Dispatch, PutOwn, ReplaceMaster, DeliverPut, Finish, DeliverRead,
       DeliverOverride, CancelOccurrence, CancelCopy, history
  <1>7. CASE Attend
    <2>1. ASSUME NEW a \in Internal, NEW ps \in Reply, ReplyRead(a, ps) PROVE Grows
      BY <1>4, <2>1 DEF ReplyRead, Answer, Reply, Attendees
    <2> QED
      BY <1>2, <1>7, <2>1 DEF Attend, ReplyOwn, ReplyFind, ReplyOrganizer, history
  <1>8. CASE Mail
    <2>1. ASSUME NEW x \in External, NEW ps \in Mailed, MailReply(x, ps) PROVE Grows
      <3>1. InboundStatus(ps) \in PartStat /\ x \in Attendees
        BY DEF InboundStatus, Mailed, PartStat, Attendees
      <3> QED
        BY <1>4, <2>1, <3>1 DEF MailReply, Answer
    <2> QED
      BY <1>2, <1>8, <2>1 DEF Mail, InboundReply, LoseMail, history
  <1>9. CASE Crash \/ \E p \in Actors : Switch(p) \/ WriteFails(p)
    BY <1>2, <1>9 DEF Crash, Switch, WriteFails, history
  <1>10. CASE UNCHANGED vars
    BY <1>2, <1>10 DEF vars, history
  <1> QED
    BY <1>5, <1>6, <1>7, <1>8, <1>9, <1>10 DEF Next, Actors

\* The requests that wait stay as they are.
LEMMA StillParked ==
    ASSUME RunningInv, ParkedOK, Grows, UNCHANGED waiting PROVE ParkedOK'
  BY StaysRightfulRequest DEF ParkedOK, waiting

LEMMA SchedulingStep == SchedulingInv /\ [Next]_vars => SchedulingInv'
  <1> SUFFICES ASSUME SchedulingInv, [Next]_vars PROVE SchedulingInv'
    OBVIOUS
  <1>0. RunningInv /\ ParkedOK /\ Grows /\ (RunningInv' /\ ParkedOK' => SchedulingInv')
    BY AllParts, StepGrows, PTL
  <1>1. CASE Next /\ UNCHANGED waiting /\ ~\E p \in Actors : Switch(p)
    BY <1>0, <1>1, RunningStep, StillParked
  <1>2. CASE Crash
    <2>1. RunningInv'
      BY <1>0, <1>2, CrashInv
    <2>2. ParkedOK'
      BY <1>0, <1>2, IdleRequest DEF Crash, ParkedOK, Actors
    <2> QED
      BY <1>0, <2>1, <2>2
  <1>3. ASSUME NEW p \in Actors, Switch(p) PROVE SchedulingInv'
    <2>1. RestOK /\ CopiesOK /\ RequestsOK /\ MailOK
      BY <1>0, Parts
    <2>2. /\ req' = [req EXCEPT ![p] = parked[p]] /\ parked' = [parked EXCEPT ![p] = req[p]]
          /\ overlapped' = (overlapped \/ p \in Accounts)
          /\ UNCHANGED <<recurring, cal, mail, invited, bounds, lost, history>>
      BY <1>3 DEF Switch
    <2>3. overlaps' \in Nat
      BY <1>0, <1>3 DEF Switch, ParkedOK
    <2>4. ASSUME NEW q \in Actors
          PROVE  /\ req[q] \in Requests /\ RightfulRequest(q, req[q], Shown', revived')
                 /\ parked[q] \in Requests /\ RightfulRequest(q, parked[q], Shown', revived')
      BY <1>0, <2>1, StaysRightfulRequest DEF RequestsOK, ParkedOK
    <2>5. RequestsOK'
      BY <2>1, <2>2, <2>4 DEF RequestsOK
    <2>6. ParkedOK'
      BY <1>0, <2>2, <2>3, <2>4 DEF ParkedOK
    <2>7. RestOK'
      BY <2>1, <2>2 DEF RestOK, bounds, history
    <2> QED
      BY <1>0, <2>1, <2>2, <2>5, <2>6, <2>7, SameCopies, NoMoreMail, PartsNext
  <1>4. CASE UNCHANGED vars
    <2>1. RestOK /\ CopiesOK /\ RequestsOK /\ MailOK
      BY <1>0, Parts
    <2>2. RunningInv'
      BY <1>0, <1>4, <2>1, SameCopies, SameRequests, NoMoreMail, PartsNext
      DEF RestOK, vars, bounds, history
    <2> QED
      BY <1>0, <1>4, <2>2, StillParked DEF vars
  <1> QED
    BY <1>1, <1>2, <1>3, <1>4 DEF Next, Actors

LEMMA SchedulingStart == Init => SchedulingInv
  <1> SUFFICES ASSUME Init PROVE SchedulingInv
    OBVIOUS
  <1>1. RestOK
    BY DEF Init, RestOK, PartStat
  <1>2. CopiesOK
    BY DEF Init, CopiesOK, Accounts
  <1>3. RequestsOK
    BY IdleRequest DEF Init, RequestsOK, Actors
  <1>4. MailOK
    BY DEF Init, MailOK
  <1>5. ParkedOK
    BY IdleRequest DEF Init, ParkedOK, Actors
  <1> QED
    BY <1>1, <1>2, <1>3, <1>4, <1>5, Parts, AllParts

\* The inductive invariant holds in every behaviour: the copies in calendars and those
\* that requests of putEvent, deleteEvent, rsvp and imipInbound hold are rightful.
THEOREM SchedulingSafe == Spec => []SchedulingInv
  BY SchedulingStart, SchedulingStep, PTL DEF Spec

\* Types, for any attendees, occurrences and number of edits: in particular nobody
\* leaves, or is apart from, an event they organize.
THEOREM SchedulingTypeOK == Spec => []TypeOK
  <1>1. SchedulingInv => TypeOK
    BY DEF SchedulingInv
  <1> QED
    BY <1>1, SchedulingSafe, PTL

\* An answer that a copy shows for an attendee is one they gave, or one that a payload of
\* the copy's owner, or of the organizer, had for them (after a revival: of anyone):
\* setPartStat, mergePartStats and deliverInternal carry no other from copy to copy.
THEOREM SchedulingNobodyAnswersForAnother == Spec => []NobodyAnswersForAnother
  <1>1. SchedulingInv => NobodyAnswersForAnother
    BY DEF SchedulingInv, RightfulInv, Rightful, NobodyAnswersForAnother
  <1> QED
    BY <1>1, SchedulingSafe, PTL

\* isOrganizer of putEvent and deleteEvent: unless an attendee saves an event that is
\* gone, every copy names who created it and no attendee's request goes out to others.
THEOREM SchedulingAuthorityHolds == Spec => []AuthorityHolds
  <1>1. SchedulingInv => AuthorityHolds
    BY DEF SchedulingInv, RightfulInv, RightfulRequest, Rightful, AuthorityHolds, Accounts
  <1> QED
    BY <1>1, SchedulingSafe, PTL

-----------------------------------------------------------------------------
(* Copies converge and answers are kept                                      *)
(*                                                                           *)
(* Both speak of states at rest; on the way there a copy is behind because   *)
(* the organizer's request has not reached it, or shows an older answer      *)
(* because the reply has not.  ConvergeInv says so of every state in which   *)
(* no copy was written back stale, and a step that makes lost, revived or    *)
(* overlapped true has nothing to show.  Each lemma below assumes that it    *)
(* does not, and that the attendees some payload answered for are only added *)
(* to, which is so of every step (SpokenGrows).                              *)

Converging == OrganizerInv /\ \A a \in Internal : AttendeeInv(a)
Settled    == SchedulingInv /\ Converging /\ ~lost /\ ~revived

LEMMA SpokenGrows == ASSUME Grows PROVE SpokenFor \subseteq SpokenFor'
  BY DEF Grows, SpokenFor

LEMMA People ==
    /\ Organizer \in Accounts /\ Organizer \in Actors /\ Organizer \notin Attendees
    /\ \A a \in Internal : /\ a \in Accounts /\ a \in Actors /\ a \in Attendees
                           /\ a # Organizer /\ a \notin External
    /\ \A x \in External : x \in Actors /\ x \in Attendees /\ x # Organizer
  BY SchedulingAssumption DEF Accounts, Actors, Attendees

LEMMA CopiesHeld ==
    ASSUME SchedulingInv, ~revived
    PROVE  /\ cal \in [Accounts -> Copy \cup {None}] /\ edits \in Nat
           /\ last \in [Attendees -> PartStat] /\ left \subseteq Internal
           /\ \A u \in Accounts : cal[u] # None => cal[u] \in Copy /\ cal[u].org = Organizer
  BY AllParts, Parts DEF CopiesOK, Rightful, RestOK

LEMMA RequestsHeld ==
    ASSUME SchedulingInv
    PROVE  /\ req \in [Actors -> Requests]
           /\ \A p \in Actors : RightfulRequest(p, req[p], Shown, revived)
  BY AllParts, Parts DEF RequestsOK

\* While nothing was revived, an attendee's request writes their own copy, or the
\* organizer's as a reply.
LEMMA AttendeeRequest ==
    ASSUME SchedulingInv, ~revived, NEW a \in Internal
    PROVE  /\ req[a].pc \notin {"deliver", "hand", "override", "exclude", "cancel"}
           /\ req[a].pc \in {"put", "replace"} =>
                 /\ req[a].ev \in Copy /\ req[a].base \in Copy /\ req[a].base # None
                 /\ req[a].base.org = Organizer
           /\ req[a].pc = "own" => req[a].base \in Copy /\ req[a].base.org = Organizer
           /\ req[a].pc \in {"find", "org"} => req[a].org = Organizer
           /\ req[a].pc = "org" => req[a].base \in Copy
           /\ req[a].pc \in {"own", "find", "org"} => req[a].ps \in PartStat
  <1>1. req[a] \in Requests /\ RightfulRequest(a, req[a], Shown, revived)
    BY RequestsHeld, People
  <1> QED
    BY <1>1, RequestFields DEF RightfulRequest, Rightful

\* The organizer's side is unaffected while the organizer's copy and request are.
LEMMA SameOrganizer ==
    ASSUME OrganizerInv, SpokenFor \subseteq SpokenFor', cal'[Organizer] = cal[Organizer], req'[Organizer] = req[Organizer],
           edits' = 0 => edits = 0,
           \A b \in Attendees : last'[b] = last[b]
                                \/ (cal[Organizer] # None /\ b \in DOMAIN cal[Organizer].ps)
    PROVE  OrganizerInv'
  BY DEF OrganizerInv

\* So is an attendee whose copy, request and last answer stay as well.
LEMMA SameAttendee ==
    ASSUME SpokenFor \subseteq SpokenFor',
           NEW a \in Internal, AttendeeInv(a), edits \in Nat, edits' \in {edits, edits + 1},
           cal'[Organizer] = cal[Organizer], req'[Organizer] = req[Organizer],
           cal'[a] = cal[a], req'[a] = req[a], last'[a] = last[a],
           left \subseteq left', a \in apart => a \in apart'
    PROVE  AttendeeInv(a)'
  <1>1. HeldInv(a)'
    BY DEF AttendeeInv, HeldInv
  <1>2. VersionInv(a)'
    BY DEF AttendeeInv, VersionInv, Awaits, Excluding
  <1>3. ReplyInv(a)'
    BY DEF AttendeeInv, ReplyInv
  <1>4. AnswerInv(a)'
    BY DEF AttendeeInv, AnswerInv, Awaits
  <1> QED
    BY <1>1, <1>2, <1>3, <1>4 DEF AttendeeInv

\* A step of one attendee in their own calendar concerns nobody else.
LEMMA AttendeeStep ==
    ASSUME Settled, SpokenFor \subseteq SpokenFor',
           NEW a \in Internal, NEW request, Become(a, request),
           \A u \in Accounts \ {a} : cal'[u] = cal[u],
           \A b \in Attendees \ {a} : last'[b] = last[b],
           last'[a] = last[a] \/ (cal[Organizer] # None /\ a \in DOMAIN cal[Organizer].ps),
           edits' \in {edits, edits + 1}, left \subseteq left', apart \subseteq apart',
           AttendeeInv(a)'
    PROVE  Converging'
  <1>1. edits \in Nat /\ \A p \in Actors \ {a} : req'[p] = req[p]
    BY CopiesHeld, RequestsHeld DEF Settled, Become
  <1>2. cal'[Organizer] = cal[Organizer] /\ req'[Organizer] = req[Organizer]
    BY <1>1, People
  <1>3. OrganizerInv'
    <2>1. edits' = 0 => edits = 0
      BY <1>1
    <2>2. \A b \in Attendees : last'[b] = last[b]
                                \/ (cal[Organizer] # None /\ b \in DOMAIN cal[Organizer].ps)
      OBVIOUS
    <2>3. OrganizerInv
      BY DEF Settled, Converging
    <2> QED
      BY <1>2, <2>1, <2>2, <2>3, SameOrganizer
  <1>4. ASSUME NEW b \in Internal, b # a PROVE AttendeeInv(b)'
    BY <1>1, <1>2, <1>4, People, SameAttendee DEF Settled, Converging
  <1> QED
    BY <1>3, <1>4 DEF Converging

\* What a step of attendee a begins from.
LEMMA AttendeeNow ==
    ASSUME Settled, SpokenFor \subseteq SpokenFor',
           NEW a \in Internal, NEW request, Become(a, request)
    PROVE  /\ req'[a] = request /\ req'[Organizer] = req[Organizer]
           /\ HeldInv(a) /\ VersionInv(a) /\ ReplyInv(a) /\ AnswerInv(a)
           /\ OrganizerInv /\ edits \in Nat /\ a # Organizer /\ a \in Accounts /\ a \in Attendees
           /\ cal \in [Accounts -> Copy \cup {None}] /\ last \in [Attendees -> PartStat]
           /\ cal[a] # None => cal[a] \in Copy /\ cal[a].org = Organizer
  BY CopiesHeld, RequestsHeld, People DEF Settled, Converging, AttendeeInv, Become

\* An attendee's request that reads or is over, outside a reply.
LEMMA AttendeeReads ==
    ASSUME Settled, SpokenFor \subseteq SpokenFor',
           NEW a \in Internal, NEW request, Become(a, request),
           req[a].pc \notin {"own", "find", "org"}, request.pc \notin {"own", "find", "org"},
           a \notin left /\ request.pc = "open" => a \in request.att,
           a \notin left /\ request.pc \in {"put", "replace"} =>
              /\ a \in DOMAIN request.ev.ps
              /\ a \in DOMAIN request.base.ps \ SpokenFor' =>
                    request.ev.ps[a] = request.base.ps[a],
           UNCHANGED <<cal, left, apart, last>>, edits' \in {edits, edits + 1}
    PROVE  Converging'
  <1>1. /\ req'[a] = request /\ req'[Organizer] = req[Organizer]
        /\ HeldInv(a) /\ VersionInv(a) /\ ReplyInv(a) /\ AnswerInv(a)
    BY AttendeeNow
  <1>2. HeldInv(a)'
    BY <1>1 DEF HeldInv
  <1>3. VersionInv(a)'
    BY <1>1 DEF VersionInv, Awaits, Excluding
  <1>4. ReplyInv(a)'
    BY <1>1 DEF ReplyInv
  <1>5. AnswerInv(a)'
    BY <1>1 DEF AnswerInv, Awaits
  <1>6. AttendeeInv(a)'
    BY <1>2, <1>3, <1>4, <1>5 DEF AttendeeInv
  <1> QED
    BY <1>6, AttendeeStep

LEMMA OpenEditorAttendee ==
    ASSUME Settled, SpokenFor \subseteq SpokenFor',
           NEW a \in Internal, OpenEditor(a) PROVE Converging'
  <1> DEFINE request == [pc |-> "open", att |-> DOMAIN cal[a].ps]
  <1>1. /\ Become(a, request) /\ req[a].pc = "idle" /\ cal[a] # None
        /\ UNCHANGED <<cal, left, apart, last, edits>>
    BY DEF OpenEditor, Idle, history, bounds
  <1>2. a \notin left => a \in DOMAIN cal[a].ps
    BY <1>1, AttendeeNow DEF HeldInv
  <1> QED
    BY <1>1, <1>2, AttendeeReads

\* What is saved has the answers that were stored, but for those the payload gives.
LEMMA SavedAnswers ==
    ASSUME SchedulingInv, NEW u \in Accounts, NEW att \in SUBSET Attendees,
           NEW payload \in [att -> PartStat], Submit(u, payload), NEW prev \in {cal[u], None}
    PROVE  /\ DOMAIN Saved(u, payload, prev).ps = att
           /\ \A b \in att \ SpokenFor' :
                 Saved(u, payload, prev).ps[b] =
                     IF prev # None /\ b \in DOMAIN prev.ps THEN prev.ps[b] ELSE "NEEDS-ACTION"
  <1>1. RestOK /\ prev \in Copy \cup {None} /\ edits \in Nat
    BY AllParts, Parts DEF CopiesOK, RestOK
  <1>2. Saved(u, payload, prev).ps = MergePartStats(payload, prev)
    BY <1>1, SavedCopy
  <1>3. Answered(payload) \subseteq SpokenFor'
    <2>1. Answered(payload) \subseteq Attendees
          /\ \A b \in Answered(payload) : payload[b] \in asserted'[u][b]
      BY <1>1, Submits, MergedAnswers
    <2> QED
      BY <2>1 DEF SpokenFor
  <1> QED
    BY <1>1, <1>2, <1>3, MergedAnswers

LEMMA SaveEventAttendee ==
    ASSUME Settled, SpokenFor \subseteq SpokenFor',
           NEW a \in Internal, NEW att \in SUBSET Attendees, NEW payload \in [att -> PartStat],
           NEW prev \in {cal[a], None}, SaveEvent(a, payload, prev), ~revived'
    PROVE  Converging'
  <1> DEFINE ev      == Saved(a, payload, prev)
             request == [pc |-> "put", base |-> prev, ev |-> ev]
  <1>1. /\ Become(a, request) /\ req[a].pc = "open" /\ att = req[a].att
        /\ prev # None /\ prev = cal[a] /\ Submit(a, payload)
        /\ UNCHANGED <<cal, left, apart, last>> /\ edits' = edits + 1
    BY People DEF SaveEvent, Submit, Edit
  <1>2. a \notin left => a \in att
    BY <1>1, AttendeeNow DEF HeldInv
  <1>3. a \notin left => /\ a \in DOMAIN ev.ps
                         /\ a \in DOMAIN prev.ps \ SpokenFor' => ev.ps[a] = prev.ps[a]
    <2>1. a \in Accounts /\ SchedulingInv /\ Submit(a, payload)
      BY <1>1, People DEF Settled
    <2>2. /\ DOMAIN ev.ps = att
          /\ \A b \in att \ SpokenFor' :
                ev.ps[b] = IF prev # None /\ b \in DOMAIN prev.ps THEN prev.ps[b]
                           ELSE "NEEDS-ACTION"
      BY <2>1, SavedAnswers
    <2> HIDE DEF ev
    <2> QED
      BY <1>1, <1>2, <2>2
  <1> HIDE DEF ev
  <1> QED
    BY <1>1, <1>3, AttendeeReads

LEMMA SaveAllAttendee ==
    ASSUME Settled, SpokenFor \subseteq SpokenFor',
           NEW a \in Internal, NEW att \in SUBSET Attendees, NEW payload \in [att -> PartStat],
           SaveAll(a, payload)
    PROVE  Converging'
  <1> DEFINE ev      == Saved(a, payload, cal[a])
             request == [pc |-> "replace", base |-> cal[a], ev |-> ev]
  <1>1. /\ Become(a, request) /\ req[a].pc = "idle" /\ att = DOMAIN cal[a].ps
        /\ cal[a] # None /\ Submit(a, payload)
        /\ UNCHANGED <<cal, left, apart, last>> /\ edits' = edits + 1
    BY People DEF SaveAll, Submit, Edit, Idle
  <1>2. a \notin left => a \in att
    BY <1>1, AttendeeNow DEF HeldInv
  <1>3. a \notin left => /\ a \in DOMAIN ev.ps
                         /\ a \in DOMAIN cal[a].ps \ SpokenFor' => ev.ps[a] = cal[a].ps[a]
    <2>1. a \in Accounts /\ SchedulingInv /\ Submit(a, payload)
      BY <1>1, People DEF Settled
    <2>2. ASSUME NEW prev \in {cal[a], None}
          PROVE  /\ DOMAIN Saved(a, payload, prev).ps = att
                 /\ \A b \in att \ SpokenFor' :
                       Saved(a, payload, prev).ps[b] =
                           IF prev # None /\ b \in DOMAIN prev.ps THEN prev.ps[b]
                           ELSE "NEEDS-ACTION"
      BY <2>1, SavedAnswers
    <2> QED
      BY <1>1, <1>2, <2>2
  <1> HIDE DEF ev
  <1> QED
    BY <1>1, <1>3, AttendeeReads


\* An attendee who changes their copy keeps the answer it shows, and is apart from then on.
LEMMA AttendeeWrites ==
    ASSUME Settled, SpokenFor \subseteq SpokenFor',
           NEW a \in Internal, NEW copy \in Copy, Become(a, Idle),
           cal[a] # None, cal' = [cal EXCEPT ![a] = copy],
           req[a].pc \notin {"own", "find", "org"},
           a \notin left => /\ a \in DOMAIN copy.ps
                            /\ a \notin SpokenFor' => copy.ps[a] = cal[a].ps[a],
           apart' = apart \cup {a}, UNCHANGED <<left, last>>, edits' \in {edits, edits + 1}
    PROVE  Converging'
  <1>1. /\ req'[a] = Idle /\ req'[Organizer] = req[Organizer] /\ a # Organizer
        /\ HeldInv(a) /\ VersionInv(a) /\ ReplyInv(a) /\ AnswerInv(a) /\ a \in Accounts
        /\ cal \in [Accounts -> Copy \cup {None}] /\ Idle.pc = "idle"
    BY AttendeeNow DEF Idle
  <1>2. cal'[a] = copy /\ copy # None /\ \A u \in Accounts \ {a} : cal'[u] = cal[u]
    BY <1>1, NoneAssumption
  <1>3. cal'[Organizer] = cal[Organizer]
    BY <1>1, <1>2, People
  <1>4. HeldInv(a)'
    BY <1>1, <1>2, <1>3 DEF HeldInv
  <1>5. VersionInv(a)'
    BY DEF VersionInv
  <1>6. ReplyInv(a)'
    BY <1>1 DEF ReplyInv
  <1>7. AnswerInv(a)'
    BY <1>1, <1>2, <1>3 DEF AnswerInv, Awaits
  <1>8. AttendeeInv(a)'
    BY <1>4, <1>5, <1>6, <1>7 DEF AttendeeInv
  <1> QED
    BY <1>2, <1>8, AttendeeStep

\* An attendee's edit goes no further, and counts as one of their own.
LEMMA NotOrganizer ==
    ASSUME NEW a \in Internal, NEW base, base # None, base.org = Organizer
    PROVE  /\ ~IsOrganizer(a, base) /\ OnOwn(a, base) = apart \cup {a}
           /\ \A request : GoOn(a, base, request) => Become(a, Idle)
  BY People DEF IsOrganizer, OnOwn, GoOn

\* The fields of a copy as it is stored.
LEMMA EncodedFields ==
    ASSUME NEW ev \in Copy
    PROVE  /\ Encoded(ev) \in Copy /\ Encoded(ev).ps = ev.ps /\ Encoded(ev).ver = ev.ver
           /\ Encoded(ev).gone = ev.gone
  <1>1. Encoded(ev).ver = ev.ver /\ Encoded(ev).gone = ev.gone
    BY DEF Copy, Encoded
  <1> QED
    BY <1>1, EncodedCopy

LEMMA PutOwnAttendee ==
    ASSUME Settled, SpokenFor \subseteq SpokenFor',
           NEW a \in Internal, PutOwn(a), ~lost' PROVE Converging'
  <1> DEFINE r == req[a]
  <1>1. /\ r.pc = "put" /\ cal[a] = r.base /\ cal' = [cal EXCEPT ![a] = Encoded(r.ev)]
        /\ apart' = OnOwn(a, r.base) /\ UNCHANGED <<left, last>>
        /\ GoOn(a, r.base, [pc |-> "deliver", ev |-> r.ev, todo |-> Here(r.ev) \ {a}])
        /\ UNCHANGED edits
    BY People DEF PutOwn, PutEvent, Invite, bounds
  <1>2. r.ev \in Copy /\ r.base \in Copy /\ r.base # None /\ r.base.org = Organizer
    BY <1>1, AttendeeRequest DEF Settled
  <1>3. Become(a, Idle) /\ apart' = apart \cup {a}
    BY <1>1, <1>2, NotOrganizer
  <1>4. a \notin left => /\ a \in DOMAIN r.ev.ps
                         /\ a \notin SpokenFor' => r.ev.ps[a] = cal[a].ps[a]
    BY <1>1, <1>2, <1>3, AttendeeNow DEF HeldInv
  <1>5. Encoded(r.ev) \in Copy /\ Encoded(r.ev).ps = r.ev.ps
    BY <1>2, EncodedFields
  <1> QED
    BY <1>1, <1>2, <1>3, <1>4, <1>5, AttendeeWrites

LEMMA ReplaceMasterAttendee ==
    ASSUME Settled, SpokenFor \subseteq SpokenFor',
           NEW a \in Internal, ReplaceMaster(a), ~lost' PROVE Converging'
  <1> DEFINE r    == req[a]
             copy == [r.ev EXCEPT !.over = cal[a].over]
  <1>1. /\ r.pc = "replace" /\ cal[a] # None /\ cal[a].ps = r.base.ps
        /\ cal' = [cal EXCEPT ![a] = copy]
        /\ apart' = OnOwn(a, r.base) /\ UNCHANGED <<left, last>>
        /\ GoOn(a, r.base, [pc |-> "deliver", ev |-> r.ev, todo |-> Here(r.ev) \ {a}])
        /\ UNCHANGED edits
    BY People DEF ReplaceMaster, Invite, bounds
  <1>2. r.ev \in Copy /\ r.base \in Copy /\ r.base # None /\ r.base.org = Organizer
    BY <1>1, AttendeeRequest DEF Settled
  <1>3. Become(a, Idle) /\ apart' = apart \cup {a}
    BY <1>1, <1>2, NotOrganizer
  <1>4. a \notin left => /\ a \in DOMAIN r.ev.ps
                         /\ a \notin SpokenFor' => r.ev.ps[a] = cal[a].ps[a]
    BY <1>1, <1>2, <1>3, AttendeeNow DEF HeldInv
  <1>5. copy \in Copy /\ copy.ps = r.ev.ps
    <2>1. cal[a] \in Copy
      BY <1>1, <1>3, AttendeeNow
    <2>2. cal[a].over \in SUBSET Rids
      BY <2>1, CopyFields
    <2> QED
      BY <1>2, <2>2, OverridesCopy
  <1> HIDE DEF copy
  <1> QED
    BY <1>1, <1>2, <1>3, <1>4, <1>5, AttendeeWrites

\* An occurrence customised or deleted: the fields of the copy that result.
LEMMA OccurrenceFields ==
    ASSUME NEW ev \in Copy, NEW x \in Rids
    PROVE  LET one  == [ev EXCEPT !.over = @ \cup {x}]
               less == Excluded(ev, x) IN
           /\ one \in Copy /\ one.ps = ev.ps /\ one.ver = ev.ver /\ one.gone = ev.gone
           /\ less \in Copy /\ less.ps = ev.ps /\ less.ver = ev.ver
           /\ less.gone = ev.gone \cup {x}
  <1>1. ev.gone \cup {x} \in SUBSET Rids /\ ev.over \cup {x} \in SUBSET Rids
        /\ ev.over \ {x} \in SUBSET Rids
    BY CopyFields
  <1>2. [ev EXCEPT !.over = @ \cup {x}] =
            [org |-> ev.org, ver |-> ev.ver, ps |-> ev.ps,
             gone |-> ev.gone, over |-> ev.over \cup {x}]
    BY DEF Copy
  <1>3. Excluded(ev, x) = [org |-> ev.org, ver |-> ev.ver, ps |-> ev.ps,
                           gone |-> ev.gone \cup {x}, over |-> ev.over \ {x}]
    <2> DEFINE mid == [org |-> ev.org, ver |-> ev.ver, ps |-> ev.ps,
                       gone |-> ev.gone \cup {x}, over |-> ev.over]
               end == [org |-> ev.org, ver |-> ev.ver, ps |-> ev.ps,
                       gone |-> ev.gone \cup {x}, over |-> ev.over \ {x}]
    <2>1. [ev EXCEPT !.gone = ev.gone \cup {x}] = mid
      BY DEF Copy
    <2>2. [mid EXCEPT !.over = ev.over \ {x}] = end
      OBVIOUS
    <2>3. [ev EXCEPT !.gone = ev.gone \cup {x}, !.over = ev.over \ {x}] = end
      BY <2>1, <2>2
    <2> QED
      BY <2>3 DEF Excluded
  <1>4. ev.org \in Accounts /\ ev.ver \in Nat /\ ev.ps \in [DOMAIN ev.ps -> PartStat]
        /\ DOMAIN ev.ps \in SUBSET Attendees /\ ev.gone \in SUBSET Rids
    BY CopyFields
  <1>5. [org |-> ev.org, ver |-> ev.ver, ps |-> ev.ps,
         gone |-> ev.gone, over |-> ev.over \cup {x}] \in Copy
    BY <1>1, <1>4, CopyMade
  <1>6. [org |-> ev.org, ver |-> ev.ver, ps |-> ev.ps,
         gone |-> ev.gone \cup {x}, over |-> ev.over \ {x}] \in Copy
    BY <1>1, <1>4, CopyMade
  <1> QED
    BY <1>2, <1>3, <1>5, <1>6

LEMMA SaveThisAttendee ==
    ASSUME Settled, SpokenFor \subseteq SpokenFor',
           NEW a \in Internal, NEW x \in Rids, NEW payload, NEW prev \in {cal[a], None},
           SaveThis(a, x, payload, prev), ~revived'
    PROVE  Converging'
  <1> DEFINE copy == [cal[a] EXCEPT !.over = @ \cup {x}]
  <1>1. /\ req[a].pc = "idle" /\ cal[a] # None /\ prev # None
        /\ cal' = [cal EXCEPT ![a] = copy]
        /\ apart' = OnOwn(a, cal[a]) /\ UNCHANGED <<left, last>> /\ edits' = edits + 1
        /\ \E request : GoOn(a, cal[a], request)
    <2>1. prev # None
      BY People DEF SaveThis
    <2>2. \E request : GoOn(a, cal[a], request)
      <3>1. \E request : GoOn(a, prev, request)
        BY ZenonT(30) DEF SaveThis
      <3> QED
        BY <2>1, <3>1
    <2> QED
      BY <2>1, <2>2 DEF SaveThis, Submit, Edit, Idle
  <1>2. cal[a] \in Copy /\ cal[a].org = Organizer
    BY <1>1, CopiesHeld, People DEF Settled
  <1>3. Become(a, Idle) /\ apart' = apart \cup {a}
    BY <1>1, <1>2, NotOrganizer
  <1>4. copy \in Copy /\ copy.ps = cal[a].ps
    BY <1>2, OccurrenceFields
  <1>5. a \notin left => a \in DOMAIN cal[a].ps
    BY <1>1, <1>3, AttendeeNow DEF HeldInv
  <1> HIDE DEF copy
  <1> QED
    BY <1>1, <1>3, <1>4, <1>5, AttendeeWrites

LEMMA DeleteThisAttendee ==
    ASSUME Settled, SpokenFor \subseteq SpokenFor',
           NEW a \in Internal, NEW x \in Rids, NEW prev \in {cal[a], None},
           DeleteThis(a, x, prev), ~lost'
    PROVE  Converging'
  <1> DEFINE copy == Excluded(cal[a], x)
  <1>1. /\ req[a].pc = "idle" /\ cal[a] # None /\ prev # None
        /\ cal' = [cal EXCEPT ![a] = copy]
        /\ apart' = OnOwn(a, cal[a]) /\ UNCHANGED <<left, last>> /\ edits' = edits + 1
        /\ \E request : GoOn(a, cal[a], request)
    BY DEF DeleteThis, PassOn, Edit, Idle
  <1>2. cal[a] \in Copy /\ cal[a].org = Organizer
    BY <1>1, CopiesHeld, People DEF Settled
  <1>3. Become(a, Idle) /\ apart' = apart \cup {a}
    BY <1>1, <1>2, NotOrganizer
  <1>4. copy \in Copy /\ copy.ps = cal[a].ps
    BY <1>2, OccurrenceFields
  <1>5. a \notin left => a \in DOMAIN cal[a].ps
    BY <1>1, <1>3, AttendeeNow DEF HeldInv
  <1> HIDE DEF copy
  <1> QED
    BY <1>1, <1>3, <1>4, <1>5, AttendeeWrites

\* Who deletes their copy has left: nothing more is said of it.
LEMMA DeleteAllAttendee ==
    ASSUME Settled, SpokenFor \subseteq SpokenFor',
           NEW a \in Internal, NEW prev \in {cal[a], None},
           DeleteAll(a, prev), ~lost'
    PROVE  Converging'
  <1>1. /\ cal[a] # None /\ prev # None /\ cal' = [cal EXCEPT ![a] = None]
        /\ apart' = OnOwn(a, cal[a]) /\ UNCHANGED <<last, edits>>
        /\ left' = IF IsOrganizer(a, cal[a]) THEN left ELSE left \cup {a}
        /\ \E request : GoOn(a, cal[a], request)
    BY DEF DeleteAll, PassOn
  <1>2. cal[a] \in Copy /\ cal[a].org = Organizer
    BY <1>1, CopiesHeld, People DEF Settled
  <1>3. Become(a, Idle) /\ apart' = apart \cup {a} /\ left' = left \cup {a}
    BY <1>1, <1>2, NotOrganizer
  <1>4. AttendeeInv(a)'
    BY <1>3 DEF AttendeeInv, HeldInv, VersionInv, ReplyInv, AnswerInv
  <1>5. \A u \in Accounts \ {a} : cal'[u] = cal[u]
    BY <1>1, CopiesHeld DEF Settled
  <1> QED
    BY <1>1, <1>3, <1>4, <1>5, AttendeeStep


\* The reply's own stages.
LEMMA ReplyReadConverges ==
    ASSUME Settled, SpokenFor \subseteq SpokenFor',
           NEW a \in Internal, NEW ps \in Reply, ReplyRead(a, ps) PROVE Converging'
  <1> DEFINE request == [pc |-> "own", ps |-> ps, base |-> cal[a]]
             own     == cal[Organizer]
  <1>1. /\ Become(a, request) /\ req[a] = Idle /\ cal[a] # None
        /\ last' = IF cal[cal[a].org] # None /\ a \in DOMAIN cal[cal[a].org].ps
                   THEN [last EXCEPT ![a] = ps] ELSE last
        /\ UNCHANGED <<cal, left, apart, edits>>
    BY DEF ReplyRead, Answer
  <1>2. /\ req'[a] = request /\ req'[Organizer] = req[Organizer] /\ req[a].pc = "idle"
        /\ HeldInv(a) /\ VersionInv(a) /\ ReplyInv(a) /\ AnswerInv(a)
        /\ OrganizerInv /\ edits \in Nat /\ a \in Attendees
        /\ last \in [Attendees -> PartStat] /\ cal[a].org = Organizer
    BY <1>1, AttendeeNow DEF Idle
  <1>3. \/ own # None /\ a \in DOMAIN own.ps /\ last' = [last EXCEPT ![a] = ps]
        \/ ~(own # None /\ a \in DOMAIN own.ps) /\ last' = last
    BY <1>1, <1>2
  <1>4. a \notin left /\ own = None => req[Organizer].pc = "cancel"
    BY <1>1, <1>2 DEF HeldInv
  <1>5. a \notin left /\ own # None => a \in DOMAIN own.ps
    BY <1>1, <1>2 DEF HeldInv
  <1>6. req[Organizer].pc = "cancel" => edits > 0
    <2>1. edits = 0 => req[Organizer].pc = "idle"
      BY <1>2 DEF OrganizerInv, Idle
    <2> QED
      BY <1>2, <2>1
  <1>7. own # None /\ a \in DOMAIN own.ps => last'[a] = ps
    BY <1>2, <1>3
  <1>8. HeldInv(a)'
    BY <1>1, <1>2 DEF HeldInv
  <1>9. VersionInv(a)'
    BY <1>1, <1>2 DEF VersionInv, Awaits, Excluding
  <1>10. ReplyInv(a)'
    BY <1>1, <1>2, <1>4, <1>5, <1>6, <1>7 DEF ReplyInv
  <1>11. AnswerInv(a)'
    BY <1>1, <1>2 DEF AnswerInv
  <1>12. AttendeeInv(a)'
    BY <1>8, <1>9, <1>10, <1>11 DEF AttendeeInv
  <1>13. last'[a] = last[a] \/ (cal[Organizer] # None /\ a \in DOMAIN cal[Organizer].ps)
    BY <1>3
  <1>14. \A b \in Attendees \ {a} : last'[b] = last[b]
    BY <1>2, <1>3
  <1> QED
    BY <1>1, <1>12, <1>13, <1>14, AttendeeStep

\* What setting a status leaves of a copy that is then stored.
LEMMA AnsweredFields ==
    ASSUME NEW ev \in Copy, NEW p, NEW ps \in PartStat
    PROVE  LET new == Encoded(SetPartStat(ev, p, ps)) IN
           /\ new \in Copy /\ new.ver = ev.ver /\ new.gone = ev.gone
           /\ DOMAIN new.ps = DOMAIN ev.ps
           /\ \A a \in DOMAIN ev.ps : new.ps[a] = IF a = p THEN ps ELSE ev.ps[a]
  <1> DEFINE set == SetPartStat(ev, p, ps)
  <1>1. set \in Copy /\ DOMAIN set.ps = DOMAIN ev.ps
        /\ \A a \in DOMAIN ev.ps : set.ps[a] = IF a = p THEN ps ELSE ev.ps[a]
    BY SetPartStatCopy
  <1>2. set.ver = ev.ver /\ set.gone = ev.gone
    BY DEF SetPartStat, Copy
  <1> HIDE DEF set
  <1>3. Encoded(set) \in Copy /\ Encoded(set).ps = set.ps /\ Encoded(set).ver = set.ver
        /\ Encoded(set).gone = set.gone
    BY <1>1, EncodedFields
  <1> QED
    BY <1>1, <1>2, <1>3 DEF set

LEMMA ReplyOwnConverges ==
    ASSUME Settled, SpokenFor \subseteq SpokenFor',
           NEW a \in Internal, ReplyOwn(a), ~lost' PROVE Converging'
  <1> DEFINE r       == req[a]
             request == [pc |-> "find", ps |-> r.ps, org |-> r.base.org]
             copy    == Encoded(SetPartStat(r.base, a, r.ps))
             own     == cal[Organizer]
  <1>1. r.pc = "own" /\ cal[a] = r.base /\ cal' = [cal EXCEPT ![a] = copy]
        /\ Become(a, IF r.base.org = a THEN Idle ELSE request)
        /\ UNCHANGED <<left, apart, last, edits>>
    BY DEF ReplyOwn, PutEvent, bounds, history
  <1>2. r.base \in Copy /\ r.base.org = Organizer /\ r.ps \in PartStat
    BY <1>1, AttendeeRequest DEF Settled
  <1>3. Become(a, request)
    BY <1>1, <1>2, People
  <1>4. /\ req'[a] = request /\ req'[Organizer] = req[Organizer]
        /\ HeldInv(a) /\ VersionInv(a) /\ ReplyInv(a) /\ AnswerInv(a)
        /\ a \in Accounts /\ a # Organizer /\ cal \in [Accounts -> Copy \cup {None}]
    BY <1>3, AttendeeNow
  <1>5. /\ copy \in Copy /\ copy.ver = cal[a].ver /\ copy.gone = cal[a].gone
        /\ DOMAIN copy.ps = DOMAIN cal[a].ps
        /\ a \in DOMAIN cal[a].ps => copy.ps[a] = r.ps
    BY <1>1, <1>2, AnsweredFields
  <1> HIDE DEF copy
  <1>6. cal[a] # None /\ copy # None
    BY <1>1, <1>2, <1>5, NoneAssumption
  <1>7. cal'[a] = copy /\ cal'[Organizer] = own /\ \A u \in Accounts \ {a} : cal'[u] = cal[u]
    BY <1>1, <1>4, People
  <1>8. HeldInv(a)'
    BY <1>1, <1>4, <1>5, <1>6, <1>7 DEF HeldInv
  <1>9. VersionInv(a)'
    BY <1>1, <1>4, <1>5, <1>6, <1>7 DEF VersionInv, Awaits, Excluding
  <1>10. ReplyInv(a)'
    BY <1>1, <1>4, <1>7 DEF ReplyInv
  <1>11. AnswerInv(a)'
    <2>1. own # None /\ a \in DOMAIN own.ps \ left => copy.ps[a] = last[a]
      BY <1>1, <1>4, <1>5, <1>6 DEF HeldInv, ReplyInv
    <2> QED
      BY <1>1, <1>4, <1>6, <1>7, <2>1 DEF AnswerInv
  <1>12. AttendeeInv(a)'
    BY <1>8, <1>9, <1>10, <1>11 DEF AttendeeInv
  <1> QED
    BY <1>1, <1>3, <1>7, <1>12, AttendeeStep

LEMMA ReplyFindConverges ==
    ASSUME Settled, SpokenFor \subseteq SpokenFor',
           NEW a \in Internal, ReplyFind(a) PROVE Converging'
  <1> DEFINE r       == req[a]
             own     == cal[Organizer]
             request == IF own = None THEN Idle
                        ELSE [pc |-> "org", ps |-> r.ps, org |-> r.org, base |-> own]
  <1>1. r.pc = "find" /\ UNCHANGED <<cal, left, apart, last, edits>>
    BY DEF ReplyFind, bounds, history
  <1>2. r.org = Organizer
    BY <1>1, AttendeeRequest DEF Settled
  <1>3. Become(a, request)
    BY <1>2 DEF ReplyFind
  <1>4. /\ req'[a] = request /\ req'[Organizer] = req[Organizer]
        /\ HeldInv(a) /\ VersionInv(a) /\ ReplyInv(a) /\ AnswerInv(a)
    BY <1>3, AttendeeNow
  <1>5. /\ own = None => request.pc = "idle"
        /\ own # None => request.pc = "org" /\ request.ps = r.ps
    BY DEF Idle
  <1> HIDE DEF request
  <1>6. HeldInv(a)'
    BY <1>1, <1>4, <1>5 DEF HeldInv
  <1>7. VersionInv(a)'
    BY <1>1, <1>4 DEF VersionInv, Awaits, Excluding
  <1>8. ReplyInv(a)'
    BY <1>1, <1>4, <1>5 DEF ReplyInv
  <1>9. AnswerInv(a)'
    BY <1>1, <1>4, <1>5 DEF AnswerInv, Awaits
  <1>10. AttendeeInv(a)'
    BY <1>6, <1>7, <1>8, <1>9 DEF AttendeeInv
  <1> QED
    BY <1>1, <1>3, <1>10, AttendeeStep

\* A reply that reaches the organizer's copy sets one answer in it, and is the last one.
LEMMA ReplyOrganizerConverges ==
    ASSUME Settled, SpokenFor \subseteq SpokenFor',
           NEW p \in Attendees, ReplyOrganizer(p), ~lost' PROVE Converging'
  <1> DEFINE r    == req[p]
             own  == cal[Organizer]
             copy == Encoded(SetPartStat(r.base, p, r.ps))
  <1>1. /\ r.pc = "org" /\ cal[r.org] = r.base /\ cal' = [cal EXCEPT ![r.org] = copy]
        /\ Become(p, Idle) /\ UNCHANGED <<left, apart, last, edits>>
    BY DEF ReplyOrganizer, PutEvent, bounds, history
  <1>2. p \in Actors /\ p # Organizer
    BY People DEF Attendees
  <1>3. r.ps \in PartStat /\ r.base \in Copy /\ r.org = Organizer
    <2>1. r \in Requests /\ RightfulRequest(p, r, Shown, revived)
      BY <1>2, RequestsHeld DEF Settled
    <2> QED
      BY <1>1, <2>1, RequestFields DEF RightfulRequest, Settled
  <1>4. r.base = own /\ own \in Copy /\ own # None
    BY <1>1, <1>3, NoneAssumption
  <1>5. /\ copy \in Copy /\ copy.ver = own.ver /\ copy.gone = own.gone
        /\ DOMAIN copy.ps = DOMAIN own.ps
        /\ \A a \in DOMAIN own.ps : copy.ps[a] = IF a = p THEN r.ps ELSE own.ps[a]
    BY <1>3, <1>4, AnsweredFields
  <1> HIDE DEF copy
  <1>6. /\ cal'[Organizer] = copy /\ copy # None /\ \A a \in Internal : cal'[a] = cal[a]
        /\ req'[Organizer] = req[Organizer] /\ req'[p] = Idle
        /\ \A a \in Internal \ {p} : req'[a] = req[a]
    BY <1>1, <1>2, <1>3, <1>5, CopiesHeld, RequestsHeld, People, NoneAssumption DEF Settled, Become
  <1>7. OrganizerInv'
    <2>1. OrganizerInv
      BY DEF Settled, Converging
    <2> QED
      BY <1>1, <1>4, <1>5, <1>6, <2>1 DEF OrganizerInv
  <1>8. ASSUME NEW a \in Internal PROVE AttendeeInv(a)'
    <2>1. HeldInv(a) /\ VersionInv(a) /\ ReplyInv(a) /\ AnswerInv(a)
      BY DEF Settled, Converging, AttendeeInv
    <2>2. cal'[a] = cal[a] /\ (a # p => req'[a] = req[a]) /\ (a = p => req'[a].pc = "idle")
      BY <1>6 DEF Idle
    <2>3. HeldInv(a)'
      BY <1>1, <1>4, <1>5, <1>6, <2>1, <2>2 DEF HeldInv
    <2>4. VersionInv(a)'
      BY <1>1, <1>4, <1>5, <1>6, <2>1, <2>2 DEF VersionInv, Awaits, Excluding
    <2>5. ReplyInv(a)'
      BY <1>1, <1>4, <1>5, <1>6, <2>1, <2>2 DEF ReplyInv
    <2>6. AnswerInv(a)'
      <3>1. a = p /\ a \notin left /\ a \in DOMAIN own.ps => r.ps = last[a]
        BY <1>1, <1>4, <2>1 DEF ReplyInv
      <3> QED
        BY <1>1, <1>4, <1>5, <1>6, <2>1, <2>2, <3>1 DEF AnswerInv, Awaits
    <2> QED
      BY <2>3, <2>4, <2>5, <2>6 DEF AttendeeInv
  <1> QED
    BY <1>7, <1>8 DEF Converging

\* Mail concerns participants elsewhere.
LEMMA ElsewhereConverges ==
    ASSUME Settled, SpokenFor \subseteq SpokenFor',
           UNCHANGED <<cal, left, apart, last, edits>>,
           req'[Organizer] = req[Organizer], \A a \in Internal : req'[a] = req[a]
    PROVE  Converging'
  <1>1. OrganizerInv'
    BY SameOrganizer DEF Settled, Converging
  <1>2. ASSUME NEW a \in Internal PROVE AttendeeInv(a)'
    BY CopiesHeld, SameAttendee DEF Settled, Converging
  <1> QED
    BY <1>1, <1>2 DEF Converging

LEMMA MailConverges ==
    ASSUME Settled, SpokenFor \subseteq SpokenFor', Mail
    PROVE Converging'
  <1>1. UNCHANGED <<cal, left, apart, last, edits>>
    BY DEF Mail, MailReply, InboundReply, LoseMail, Answer, bounds, history
  <1>2. req' = req \/ \E x \in External : \E request : Become(x, request)
    <2>1. ASSUME NEW m \in mail, InboundReply(m)
          PROVE  \E x \in External : \E request : Become(x, request)
      <3>1. m.from \in External
        BY AllParts, Parts DEF Settled, MailOK
      <3> QED
        BY <2>1, <3>1, ZenonT(30) DEF InboundReply
    <2> QED
      BY <2>1 DEF Mail, MailReply, LoseMail
  <1>3. req'[Organizer] = req[Organizer] /\ \A a \in Internal : req'[a] = req[a]
    BY <1>2, RequestsHeld, People DEF Settled, Become
  <1> QED
    BY <1>1, <1>3, ElsewhereConverges


\* What a step of the organizer begins from.
LEMMA OrganizerNow ==
    ASSUME Settled, SpokenFor \subseteq SpokenFor',
           NEW request, Become(Organizer, request)
    PROVE  /\ req'[Organizer] = request /\ \A a \in Internal : req'[a] = req[a]
           /\ OrganizerInv /\ edits \in Nat /\ last \in [Attendees -> PartStat]
           /\ \A a \in Internal : HeldInv(a) /\ VersionInv(a) /\ ReplyInv(a) /\ AnswerInv(a)
           /\ cal \in [Accounts -> Copy \cup {None}]
           /\ \A u \in Accounts : cal[u] # None => cal[u] \in Copy /\ cal[u].org = Organizer
  BY CopiesHeld, RequestsHeld, People DEF Settled, Converging, AttendeeInv, Become

\* While the organizer's request, before a step and after it, brings nobody anything, the
\* step leaves what is true of the attendees as it is, if the copies stay.
LEMMA CalmAttendee ==
    ASSUME SpokenFor \subseteq SpokenFor',
           NEW a \in Internal, AttendeeInv(a), edits \in Nat, edits' \in {edits, edits + 1},
           req[Organizer].pc \notin {"deliver", "hand", "exclude", "cancel"},
           req'[Organizer].pc \notin {"deliver", "hand", "exclude", "cancel"},
           cal'[a] = cal[a], req'[a] = req[a], last'[a] = last[a],
           left' = left, apart' = apart,
           \/ cal'[Organizer] = cal[Organizer]
           \/ /\ cal[Organizer] # None /\ cal'[Organizer] # None
              /\ cal'[Organizer].ps = cal[Organizer].ps
              /\ cal'[Organizer].ver = cal[Organizer].ver
              /\ cal'[Organizer].gone = cal[Organizer].gone,
           cal[Organizer] = None => edits = 0 \/ req'[Organizer].pc # "put",
           req[a].pc \in {"own", "find", "org"} /\ cal[Organizer] = None /\ a \notin left
               => edits > 0
    PROVE  AttendeeInv(a)'
  <1>1. HeldInv(a) /\ VersionInv(a) /\ ReplyInv(a) /\ AnswerInv(a)
    BY DEF AttendeeInv
  <1>2. HeldInv(a)'
    BY <1>1 DEF HeldInv
  <1>3. VersionInv(a)'
    BY <1>1 DEF VersionInv, Awaits, Excluding
  <1>4. ReplyInv(a)'
    BY <1>1 DEF ReplyInv
  <1>5. AnswerInv(a)'
    BY <1>1 DEF AnswerInv, Awaits
  <1> QED
    BY <1>2, <1>3, <1>4, <1>5 DEF AttendeeInv

\* The organizer's request changes, its calendar at most as to customised occurrences.
LEMMA CalmStep ==
    ASSUME Settled, SpokenFor \subseteq SpokenFor',
           NEW request, Become(Organizer, request),
           req[Organizer].pc \notin {"deliver", "hand", "exclude", "cancel"},
           request.pc \notin {"deliver", "hand", "exclude", "cancel"},
           \A a \in Internal : cal'[a] = cal[a],
           UNCHANGED <<left, apart, last>>, edits' \in {edits, edits + 1},
           \/ cal'[Organizer] = cal[Organizer]
           \/ /\ cal[Organizer] # None /\ cal'[Organizer] # None
              /\ cal'[Organizer].ps = cal[Organizer].ps
              /\ cal'[Organizer].ver = cal[Organizer].ver
              /\ cal'[Organizer].gone = cal[Organizer].gone,
           cal[Organizer] = None => edits = 0 \/ request.pc # "put",
           OrganizerInv'
    PROVE  Converging'
  <1>1. /\ req'[Organizer] = request /\ \A a \in Internal : req'[a] = req[a]
        /\ edits \in Nat /\ \A a \in Internal : ReplyInv(a)
    BY OrganizerNow
  <1>2. ASSUME NEW a \in Internal PROVE AttendeeInv(a)'
    <2>1. AttendeeInv(a) /\ last'[a] = last[a] /\ left' = left /\ apart' = apart
      BY DEF Settled, Converging
    <2>2. req[a].pc \in {"own", "find", "org"} /\ cal[Organizer] = None /\ a \notin left
              => edits > 0
      BY <1>1 DEF ReplyInv
    <2> QED
      BY <1>1, <2>1, <2>2, CalmAttendee
  <1> QED
    BY <1>2 DEF Converging

LEMMA OpenEditorOrganizer ==
    ASSUME Settled, SpokenFor \subseteq SpokenFor', OpenEditor(Organizer)
    PROVE Converging'
  <1> DEFINE request == [pc |-> "open", att |-> DOMAIN cal[Organizer].ps]
  <1>1. /\ Become(Organizer, request) /\ req[Organizer].pc = "idle" /\ cal[Organizer] # None
        /\ UNCHANGED <<cal, left, apart, last, edits>>
    BY DEF OpenEditor, Idle, bounds, history
  <1>2. OrganizerInv'
    BY <1>1, OrganizerNow DEF OrganizerInv
  <1> QED
    BY <1>1, <1>2, CalmStep

LEMMA SaveEventOrganizer ==
    ASSUME Settled, SpokenFor \subseteq SpokenFor',
           NEW att \in SUBSET Attendees, NEW payload \in [att -> PartStat],
           NEW prev \in {cal[Organizer], None}, SaveEvent(Organizer, payload, prev)
    PROVE  Converging'
  <1> DEFINE ev      == Saved(Organizer, payload, prev)
             request == [pc |-> "put", base |-> prev, ev |-> ev]
             own     == cal[Organizer]
  <1>1. /\ Become(Organizer, request) /\ UNCHANGED <<cal, left, apart, last>>
        /\ edits' = edits + 1 /\ Submit(Organizer, payload)
        /\ \/ req[Organizer].pc = "idle" /\ edits = 0
           \/ req[Organizer].pc = "open"
    BY DEF SaveEvent, Submit, Edit, Idle
  <1>2. /\ req'[Organizer] = request /\ OrganizerInv /\ edits \in Nat
    BY <1>1, OrganizerNow
  <1>3. own = None => edits = 0 /\ \A a \in Attendees : last[a] = "NEEDS-ACTION"
    BY <1>1, <1>2 DEF OrganizerInv
  <1>4. \A a \in DOMAIN ev.ps \ SpokenFor' :
           ev.ps[a] = IF prev # None /\ a \in DOMAIN prev.ps THEN prev.ps[a] ELSE "NEEDS-ACTION"
    <2>1. Organizer \in Accounts /\ SchedulingInv
      BY People DEF Settled
    <2>2. /\ DOMAIN ev.ps = att
          /\ \A a \in att \ SpokenFor' :
                ev.ps[a] = IF prev # None /\ a \in DOMAIN prev.ps THEN prev.ps[a]
                           ELSE "NEEDS-ACTION"
      BY <1>1, <2>1, SavedAnswers
    <2> HIDE DEF ev
    <2> QED
      BY <2>2
  <1> HIDE DEF ev
  <1>5. OrganizerInv'
    BY <1>1, <1>2, <1>3, <1>4 DEF OrganizerInv
  <1> QED
    BY <1>1, <1>3, <1>5, CalmStep

LEMMA SaveAllOrganizer ==
    ASSUME Settled, SpokenFor \subseteq SpokenFor',
           NEW att \in SUBSET Attendees, NEW payload \in [att -> PartStat],
           SaveAll(Organizer, payload)
    PROVE  Converging'
  <1> DEFINE own     == cal[Organizer]
             ev      == Saved(Organizer, payload, own)
             request == [pc |-> "replace", base |-> own, ev |-> ev]
  <1>1. /\ Become(Organizer, request) /\ UNCHANGED <<cal, left, apart, last>>
        /\ edits' = edits + 1 /\ req[Organizer].pc = "idle" /\ own # None
        /\ Submit(Organizer, payload)
    BY DEF SaveAll, Submit, Edit, Idle
  <1>2. /\ req'[Organizer] = request /\ OrganizerInv /\ edits \in Nat
    BY <1>1, OrganizerNow
  <1>3. \A a \in DOMAIN ev.ps \ SpokenFor' :
           ev.ps[a] = IF own # None /\ a \in DOMAIN own.ps THEN own.ps[a] ELSE "NEEDS-ACTION"
    <2>1. Organizer \in Accounts /\ SchedulingInv /\ Submit(Organizer, payload)
      BY <1>1, People DEF Settled
    <2>2. ASSUME NEW prev \in {cal[Organizer], None}
          PROVE  /\ DOMAIN Saved(Organizer, payload, prev).ps = att
                 /\ \A a \in att \ SpokenFor' :
                       Saved(Organizer, payload, prev).ps[a] =
                           IF prev # None /\ a \in DOMAIN prev.ps THEN prev.ps[a]
                           ELSE "NEEDS-ACTION"
      BY <2>1, SavedAnswers
    <2> QED
      BY <2>2
  <1> HIDE DEF ev
  <1>4. OrganizerInv'
    BY <1>1, <1>2, <1>3 DEF OrganizerInv
  <1> QED
    BY <1>1, <1>4, CalmStep

\* The organizer writes the master: every attendee it names is to be served, whoever it
\* no longer names has left, and the answers it shows are those that were stored.
LEMMA OrganizerWrites ==
    ASSUME Settled, SpokenFor \subseteq SpokenFor',
           NEW new \in Copy, cal' = [cal EXCEPT ![Organizer] = new],
           req[Organizer].pc \in {"put", "replace"},
           new.ps = req[Organizer].ev.ps, new.ver = req[Organizer].ev.ver,
           new.gone = req[Organizer].ev.gone,
           req[Organizer].ev \in Copy,
           req[Organizer].base = None => cal[Organizer] = None,
           req[Organizer].base # None => /\ cal[Organizer] # None
                                         /\ cal[Organizer].ps = req[Organizer].base.ps
                                         /\ req[Organizer].base.org = Organizer,
           Invite(Organizer, req[Organizer].ev, req[Organizer].base), UNCHANGED edits
    PROVE  Converging'
  <1> DEFINE r       == req[Organizer]
             own     == cal[Organizer]
             request == [pc |-> "deliver", ev |-> r.ev, todo |-> Here(r.ev) \ {Organizer}]
  <1>1. /\ left' = left \cup IF r.base = None THEN {} ELSE Here(r.base) \ Here(r.ev)
        /\ last' = [a \in Attendees |-> IF a \in DOMAIN r.ev.ps THEN last[a] ELSE "NEEDS-ACTION"]
        /\ GoOn(Organizer, r.base, request) /\ apart' = OnOwn(Organizer, r.base)
    BY DEF Invite
  <1>2. IsOrganizer(Organizer, r.base)
    BY DEF IsOrganizer
  <1>3. Become(Organizer, request) /\ apart' = apart
    BY <1>1, <1>2 DEF GoOn, OnOwn
  <1>4. /\ req'[Organizer] = request /\ \A a \in Internal : req'[a] = req[a]
        /\ OrganizerInv /\ edits \in Nat /\ last \in [Attendees -> PartStat]
        /\ \A a \in Internal : HeldInv(a) /\ VersionInv(a) /\ ReplyInv(a) /\ AnswerInv(a)
        /\ cal \in [Accounts -> Copy \cup {None}]
    BY <1>3, OrganizerNow
  <1>5. cal'[Organizer] = new /\ new # None /\ \A a \in Internal : cal'[a] = cal[a]
    BY <1>4, People, NoneAssumption
  <1>6. edits # 0
    BY <1>4 DEF OrganizerInv, Idle
  <1>7. /\ request.pc = "deliver" /\ request.ev = r.ev
        /\ \A a \in Internal : a \in request.todo <=> a \in DOMAIN r.ev.ps
        /\ request.todo \subseteq DOMAIN r.ev.ps
    BY People DEF Here
  <1> HIDE DEF request
  <1>8. OrganizerInv'
    BY <1>1, <1>4, <1>5, <1>6, <1>7 DEF OrganizerInv
  <1>9. ASSUME NEW a \in Internal PROVE AttendeeInv(a)'
    <2>1. a \in Attendees /\ HeldInv(a) /\ VersionInv(a) /\ ReplyInv(a) /\ AnswerInv(a)
      BY <1>4, People
    <2>2. a \notin left' =>
             /\ a \notin left
             /\ (r.base # None /\ a \in DOMAIN r.base.ps => a \in DOMAIN r.ev.ps)
      BY <1>1 DEF Here
    <2>3. a \notin left' /\ own # None /\ a \in DOMAIN own.ps => a \in DOMAIN r.ev.ps
      BY <2>2
    <2>4. a \in DOMAIN r.ev.ps => last'[a] = last[a]
      BY <1>1, <2>1
    <2>5. HeldInv(a)'
      BY <1>4, <1>5, <2>1, <2>2, <2>3 DEF HeldInv
    <2>6. VersionInv(a)'
      BY <1>4, <1>5, <1>7 DEF VersionInv, Awaits
    <2>7. ReplyInv(a)'
      <3>1. a \notin left' /\ req[a].pc \in {"own", "find", "org"} =>
               own # None /\ a \in DOMAIN own.ps /\ req[a].ps = last[a]
        <4>1. own = None => r.pc = "put"
          BY <1>4 DEF OrganizerInv
        <4> QED
          BY <2>1, <2>2, <4>1 DEF ReplyInv
      <3> QED
        BY <1>4, <1>5, <2>3, <2>4, <3>1 DEF ReplyInv
    <2>8. AnswerInv(a)'
      <3>1. ASSUME own # None, a \in DOMAIN own.ps, a \notin left, a \in DOMAIN r.ev.ps
            PROVE  /\ cal[a] # None
                   /\ a \notin SpokenFor' =>
                         /\ r.ev.ps[a] = own.ps[a]
                         /\ own.ps[a] = last[a] \/ req[a].pc \in {"own", "find", "org"}
                         /\ cal[a].ps[a] = last[a] \/ req[a].pc = "own"
        BY <1>4, <2>1, <3>1 DEF AnswerInv, Awaits, OrganizerInv
      <3>2. ASSUME ~(own # None /\ a \in DOMAIN own.ps), a \notin left, a \in DOMAIN r.ev.ps
            PROVE  /\ last[a] = "NEEDS-ACTION" /\ cal[a] = None
                   /\ a \notin SpokenFor' => r.ev.ps[a] = "NEEDS-ACTION"
        <4>1. a \notin SpokenFor' => r.ev.ps[a] = "NEEDS-ACTION"
          BY <1>4, <3>2 DEF OrganizerInv
        <4>2. last[a] = "NEEDS-ACTION"
          BY <1>4, <2>1, <3>2 DEF OrganizerInv
        <4>3. cal[a] = None
          BY <2>1, <3>2 DEF HeldInv
        <4> QED
          BY <4>1, <4>2, <4>3
      <3>3. ASSUME a \in DOMAIN r.ev.ps, a \notin left, a \notin SpokenFor'
            PROVE  /\ new.ps[a] = last[a] \/ req[a].pc \in {"own", "find", "org"}
                   /\ cal[a] = None => r.ev.ps[a] = last[a]
                   /\ cal[a] # None => cal[a].ps[a] = last[a] \/ req[a].pc = "own"
        BY <3>1, <3>2, <3>3
      <3>4. Awaits(a)' <=> a \in DOMAIN r.ev.ps
        BY <1>4, <1>7 DEF Awaits
      <3>5. a \notin left' => a \notin left
        BY <2>2
      <3> QED
        BY <1>4, <1>5, <1>7, <2>4, <3>3, <3>4, <3>5 DEF AnswerInv
    <2> QED
      BY <2>5, <2>6, <2>7, <2>8 DEF AttendeeInv
  <1> QED
    BY <1>8, <1>9 DEF Converging


LEMMA OrganizerRequest ==
    ASSUME SchedulingInv, req[Organizer].pc \in {"put", "replace"}
    PROVE  /\ req[Organizer].ev \in Copy
           /\ req[Organizer].base # None => req[Organizer].base.org = Organizer
  <1>1. req[Organizer] \in Requests
        /\ RightfulRequest(Organizer, req[Organizer], Shown, revived)
    BY RequestsHeld, People
  <1> QED
    BY <1>1, RequestFields DEF RightfulRequest

LEMMA PutOwnOrganizer ==
    ASSUME Settled, SpokenFor \subseteq SpokenFor', PutOwn(Organizer), ~lost'
    PROVE Converging'
  <1> DEFINE r == req[Organizer]
  <1>1. /\ r.pc = "put" /\ cal[Organizer] = r.base
        /\ cal' = [cal EXCEPT ![Organizer] = Encoded(r.ev)]
        /\ Invite(Organizer, r.ev, r.base) /\ UNCHANGED edits
    BY DEF PutOwn, PutEvent, bounds
  <1>2. r.ev \in Copy /\ (r.base # None => r.base.org = Organizer)
    BY <1>1, OrganizerRequest DEF Settled
  <1>3. /\ Encoded(r.ev) \in Copy /\ Encoded(r.ev).ps = r.ev.ps
        /\ Encoded(r.ev).ver = r.ev.ver /\ Encoded(r.ev).gone = r.ev.gone
    BY <1>2, EncodedFields
  <1> QED
    BY <1>1, <1>2, <1>3, OrganizerWrites

LEMMA ReplaceMasterOrganizer ==
    ASSUME Settled, SpokenFor \subseteq SpokenFor',
           ReplaceMaster(Organizer), ~lost' PROVE Converging'
  <1> DEFINE r   == req[Organizer]
             own == cal[Organizer]
             new == [r.ev EXCEPT !.over = own.over]
  <1>1. /\ r.pc = "replace" /\ own # None /\ own.ps = r.base.ps
        /\ cal' = [cal EXCEPT ![Organizer] = new]
        /\ Invite(Organizer, r.ev, r.base) /\ UNCHANGED edits
    BY DEF ReplaceMaster, bounds
  <1>2. r.ev \in Copy /\ (r.base # None => r.base.org = Organizer)
    BY <1>1, OrganizerRequest DEF Settled
  <1>3. r.base # None
    BY <1>1 DEF Settled, Converging, OrganizerInv
  <1>4. own \in Copy
    BY <1>1, CopiesHeld, People DEF Settled
  <1>5. new \in Copy /\ new.ps = r.ev.ps
    <2>1. own.over \in SUBSET Rids
      BY <1>4, CopyFields
    <2> QED
      BY <1>2, <2>1, OverridesCopy
  <1>6. new.ver = r.ev.ver /\ new.gone = r.ev.gone
    BY <1>2 DEF Copy
  <1> HIDE DEF new
  <1> QED
    BY <1>1, <1>2, <1>3, <1>5, <1>6, OrganizerWrites

LEMMA SaveThisOrganizer ==
    ASSUME Settled, SpokenFor \subseteq SpokenFor',
           NEW x \in Rids, NEW payload, NEW prev \in {cal[Organizer], None},
           SaveThis(Organizer, x, payload, prev)
    PROVE  Converging'
  <1> DEFINE own     == cal[Organizer]
             sent    == IF prev = None THEN Saved(Organizer, payload, None)
                        ELSE [own EXCEPT !.ps = MergePartStats(payload, own)]
             request == [pc |-> "override", rid |-> x, todo |-> Here(own) \ {Organizer}, ev |-> sent]
             new     == [own EXCEPT !.over = @ \cup {x}]
  <1>1. /\ req[Organizer].pc = "idle" /\ own # None
        /\ cal' = [cal EXCEPT ![Organizer] = new]
        /\ apart' = OnOwn(Organizer, own) /\ UNCHANGED <<left, last>> /\ edits' = edits + 1
        /\ GoOn(Organizer, prev, request)
    BY DEF SaveThis, Submit, Edit, Idle
  <1>2. own \in Copy /\ own.org = Organizer
    BY <1>1, CopiesHeld, People DEF Settled
  <1>3. Become(Organizer, request) /\ apart' = apart
    BY <1>1, <1>2 DEF GoOn, OnOwn, IsOrganizer
  <1>4. /\ new \in Copy /\ new.ps = own.ps /\ new.ver = own.ver /\ new.gone = own.gone
    BY <1>2, OccurrenceFields
  <1>5. /\ req'[Organizer] = request /\ OrganizerInv /\ edits \in Nat
        /\ cal \in [Accounts -> Copy \cup {None}]
    BY <1>3, OrganizerNow
  <1>6. request.pc = "override" /\ request.todo \subseteq DOMAIN own.ps
    BY DEF Here
  <1> HIDE DEF new, request
  <1>7. cal'[Organizer] = new /\ new # None /\ \A a \in Internal : cal'[a] = cal[a]
    BY <1>1, <1>4, <1>5, People, NoneAssumption
  <1>8. OrganizerInv'
    BY <1>1, <1>4, <1>5, <1>6, <1>7 DEF OrganizerInv
  <1> QED
    BY <1>1, <1>3, <1>4, <1>6, <1>7, <1>8, CalmStep

\* A deleted occurrence is gone from the organizer's copy, and from those of the others
\* once the request has been there.
LEMMA DeleteThisOrganizer ==
    ASSUME Settled, SpokenFor \subseteq SpokenFor',
           NEW x \in Rids, NEW prev \in {cal[Organizer], None},
           DeleteThis(Organizer, x, prev), ~lost'
    PROVE  Converging'
  <1> DEFINE own     == cal[Organizer]
             request == [pc |-> "exclude", rid |-> x, todo |-> Here(own) \ {Organizer}]
             new     == Excluded(own, x)
  <1>1. /\ req[Organizer].pc = "idle" /\ own # None /\ prev # None
        /\ cal' = [cal EXCEPT ![Organizer] = new]
        /\ apart' = OnOwn(Organizer, own) /\ UNCHANGED <<left, last>> /\ edits' = edits + 1
        /\ GoOn(Organizer, own, request)
    BY DEF DeleteThis, PassOn, Edit, Idle
  <1>2. own \in Copy /\ own.org = Organizer
    BY <1>1, CopiesHeld, People DEF Settled
  <1>3. Become(Organizer, request) /\ apart' = apart
    BY <1>1, <1>2 DEF GoOn, OnOwn, IsOrganizer
  <1>4. /\ new \in Copy /\ new.ps = own.ps /\ new.ver = own.ver /\ new.gone = own.gone \cup {x}
    BY <1>2, OccurrenceFields
  <1>5. /\ req'[Organizer] = request /\ OrganizerInv /\ edits \in Nat
        /\ \A a \in Internal : req'[a] = req[a]
        /\ \A a \in Internal : HeldInv(a) /\ VersionInv(a) /\ ReplyInv(a) /\ AnswerInv(a)
        /\ cal \in [Accounts -> Copy \cup {None}]
    BY <1>3, OrganizerNow
  <1>6. /\ request.pc = "exclude" /\ request.rid = x
        /\ \A a \in Internal \cap DOMAIN own.ps : a \in request.todo
    BY People DEF Here
  <1> HIDE DEF new, request
  <1>7. cal'[Organizer] = new /\ new # None /\ \A a \in Internal : cal'[a] = cal[a]
    BY <1>1, <1>4, <1>5, People, NoneAssumption
  <1>8. OrganizerInv'
    BY <1>1, <1>4, <1>5, <1>6, <1>7 DEF OrganizerInv
  <1>9. ASSUME NEW a \in Internal PROVE AttendeeInv(a)'
    <2>1. HeldInv(a) /\ VersionInv(a) /\ ReplyInv(a) /\ AnswerInv(a)
      BY <1>5
    <2>2. HeldInv(a)'
      BY <1>1, <1>4, <1>5, <1>7, <2>1 DEF HeldInv
    <2>3. VersionInv(a)'
      BY <1>1, <1>3, <1>4, <1>5, <1>6, <1>7, <2>1 DEF VersionInv, Awaits, Excluding
    <2>4. ReplyInv(a)'
      BY <1>1, <1>4, <1>5, <1>7, <2>1 DEF ReplyInv
    <2>5. AnswerInv(a)'
      BY <1>1, <1>4, <1>5, <1>7, <2>1 DEF AnswerInv, Awaits
    <2> QED
      BY <2>2, <2>3, <2>4, <2>5 DEF AttendeeInv
  <1> QED
    BY <1>8, <1>9 DEF Converging

\* Everyone who holds a copy of a cancelled event is to be told.
LEMMA DeleteAllOrganizer ==
    ASSUME Settled, SpokenFor \subseteq SpokenFor',
           NEW prev \in {cal[Organizer], None}, DeleteAll(Organizer, prev), ~lost'
    PROVE  Converging'
  <1> DEFINE own     == cal[Organizer]
             request == [pc |-> "cancel", todo |-> Told(Organizer, own)]
  <1>1. /\ req[Organizer].pc = "idle" /\ own # None /\ prev # None
        /\ cal' = [cal EXCEPT ![Organizer] = None]
        /\ left' = IF IsOrganizer(Organizer, own) THEN left ELSE left \cup {Organizer}
        /\ UNCHANGED <<last, edits>> /\ GoOn(Organizer, own, request)
    BY DEF DeleteAll, PassOn, Idle
  <1>2. own.org = Organizer
    BY <1>1, CopiesHeld, People DEF Settled
  <1>3. Become(Organizer, request) /\ left' = left
    BY <1>1, <1>2 DEF GoOn, IsOrganizer
  <1>4. /\ req'[Organizer] = request /\ OrganizerInv /\ edits \in Nat
        /\ \A a \in Internal : req'[a] = req[a]
        /\ \A a \in Internal : HeldInv(a) /\ VersionInv(a) /\ ReplyInv(a) /\ AnswerInv(a)
        /\ cal \in [Accounts -> Copy \cup {None}]
    BY <1>3, OrganizerNow
  <1>5. request.pc = "cancel" /\ \A a \in Internal \cap DOMAIN own.ps : a \in request.todo
    BY People DEF Told, Here
  <1> HIDE DEF request
  <1>6. cal'[Organizer] = None /\ \A a \in Internal : cal'[a] = cal[a]
    BY <1>1, <1>4, People
  <1>7. edits # 0
    BY <1>1, <1>4 DEF OrganizerInv
  <1>8. OrganizerInv'
    BY <1>1, <1>4, <1>5, <1>6, <1>7 DEF OrganizerInv
  <1>9. ASSUME NEW a \in Internal PROVE AttendeeInv(a)'
    <2>1. HeldInv(a) /\ VersionInv(a) /\ ReplyInv(a) /\ AnswerInv(a)
      BY <1>4
    <2>2. HeldInv(a)'
      BY <1>1, <1>3, <1>4, <1>5, <1>6, <2>1 DEF HeldInv
    <2>3. VersionInv(a)' /\ AnswerInv(a)'
      BY <1>6 DEF VersionInv, AnswerInv
    <2>4. ReplyInv(a)'
      BY <1>1, <1>4, <1>5, <1>6, <1>7 DEF ReplyInv
    <2> QED
      BY <2>2, <2>3, <2>4 DEF AttendeeInv
  <1> QED
    BY <1>8, <1>9 DEF Converging


-----------------------------------------------------------------------------
(* The fan-out, as it serves one attendee after the other *)

\* A step of the organizer's request that leaves the organizer's own copy alone.
LEMMA FanNow ==
    ASSUME Settled, SpokenFor \subseteq SpokenFor',
           NEW request, Become(Organizer, request), UNCHANGED <<left, last, edits>>,
           cal'[Organizer] = cal[Organizer],
           request.pc \in {"deliver", "hand", "override", "exclude", "cancel"},
           request.pc = req[Organizer].pc
               \/ {request.pc, req[Organizer].pc} = {"deliver", "hand"},
           request.pc # "cancel" => request.todo \subseteq req[Organizer].todo,
           request.pc \in {"deliver", "hand"} => request.ev = req[Organizer].ev,
           request.pc = "hand" => request.to \in req[Organizer].todo
    PROVE  OrganizerInv'
  <1>1. OrganizerInv /\ req'[Organizer] = request
    BY OrganizerNow
  <1>2. edits # 0
    BY <1>1 DEF OrganizerInv, Idle
  <1> QED
    BY <1>1, <1>2 DEF OrganizerInv

LEMMA DeliverReadConverges ==
    ASSUME Settled, SpokenFor \subseteq SpokenFor',
           NEW a \in Internal, DeliverRead(Organizer, a) PROVE Converging'
  <1> DEFINE r       == req[Organizer]
             request == [pc |-> "hand", ev |-> r.ev, todo |-> r.todo \ {a}, to |-> a,
                         base |-> cal[a]]
  <1>1. /\ r.pc = "deliver" /\ a \in r.todo /\ Become(Organizer, request)
        /\ UNCHANGED <<cal, left, apart, last, edits>>
    BY DEF DeliverRead, bounds, history
  <1>2. OrganizerInv'
    BY <1>1, FanNow
  <1>3. /\ req'[Organizer] = request /\ \A b \in Internal : req'[b] = req[b]
        /\ \A b \in Internal : HeldInv(b) /\ VersionInv(b) /\ ReplyInv(b) /\ AnswerInv(b)
    BY <1>1, OrganizerNow
  <1>4. /\ request.pc = "hand" /\ request.ev = r.ev
        /\ \A b \in Internal : b \in r.todo <=> b \in request.todo \/ b = request.to
    BY <1>1
  <1> HIDE DEF request
  <1>5. ASSUME NEW b \in Internal PROVE AttendeeInv(b)'
    <2>1. Awaits(b)' <=> Awaits(b)
      BY <1>1, <1>3, <1>4 DEF Awaits
    <2>2. HeldInv(b)'
      BY <1>1, <1>3, <1>4 DEF HeldInv
    <2>3. VersionInv(b)'
      BY <1>1, <1>3, <1>4, <2>1 DEF VersionInv, Excluding
    <2>4. ReplyInv(b)'
      BY <1>1, <1>3, <1>4 DEF ReplyInv
    <2>5. AnswerInv(b)'
      BY <1>1, <1>3, <1>4, <2>1 DEF AnswerInv
    <2> QED
      BY <2>2, <2>3, <2>4, <2>5 DEF AttendeeInv
  <1> QED
    BY <1>2, <1>5 DEF Converging

\* The delivery itself: the organizer's event with the answer that was there.
LEMMA DeliverPutConverges ==
    ASSUME Settled, SpokenFor \subseteq SpokenFor',
           NEW a \in Internal, a = req[Organizer].to, DeliverPut(Organizer), ~lost'
    PROVE  Converging'
  <1> DEFINE r       == req[Organizer]
             own     == cal[Organizer]
             request == [pc |-> "deliver", ev |-> r.ev, todo |-> r.todo]
             sent    == IF r.base # None /\ a \in DOMAIN r.base.ps
                        THEN SetPartStat(r.ev, a, r.base.ps[a]) ELSE r.ev
             new     == Encoded(sent)
  <1>1. /\ r.pc = "hand" /\ cal[a] = r.base /\ cal' = [cal EXCEPT ![a] = new]
        /\ apart' = apart \ {a} /\ Become(Organizer, request)
        /\ UNCHANGED <<left, last, edits>>
    BY DEF DeliverPut, PutEvent, bounds
  <1>2. r.ev \in Copy /\ r.base \in Copy \cup {None}
    <2>1. r \in Requests
      BY RequestsHeld, People DEF Settled
    <2> QED
      BY <1>1, <2>1, RequestFields
  <1>3. /\ req'[Organizer] = request /\ \A b \in Internal : req'[b] = req[b]
        /\ \A b \in Internal : HeldInv(b) /\ VersionInv(b) /\ ReplyInv(b) /\ AnswerInv(b)
        /\ OrganizerInv /\ cal \in [Accounts -> Copy \cup {None}]
    BY <1>1, OrganizerNow
  <1>4. /\ own # None /\ a \in DOMAIN own.ps /\ r.ev.ver = own.ver /\ r.ev.gone = own.gone
        /\ DOMAIN r.ev.ps = DOMAIN own.ps
    BY <1>1, <1>3 DEF OrganizerInv
  <1>5. /\ new \in Copy /\ new.ver = own.ver /\ new.gone = own.gone
        /\ DOMAIN new.ps = DOMAIN own.ps
        /\ new.ps[a] = IF r.base # None /\ a \in DOMAIN r.base.ps THEN r.base.ps[a]
                       ELSE r.ev.ps[a]
    <2>1. CASE r.base # None /\ a \in DOMAIN r.base.ps
      <3> DEFINE answer == r.base.ps[a]
      <3>1. answer \in PartStat
        BY <1>2, <2>1, CopyFields
      <3>2. new = Encoded(SetPartStat(r.ev, a, answer))
        BY <2>1
      <3> HIDE DEF new, answer
      <3>3. /\ new \in Copy /\ new.ver = r.ev.ver /\ new.gone = r.ev.gone
            /\ DOMAIN new.ps = DOMAIN r.ev.ps
            /\ \A b \in DOMAIN r.ev.ps : new.ps[b] = IF b = a THEN answer ELSE r.ev.ps[b]
        <4> DEFINE ev == r.ev
        <4>1. ev \in Copy
          BY <1>2
        <4> HIDE DEF ev
        <4>2. LET set == Encoded(SetPartStat(ev, a, answer)) IN
              /\ set \in Copy /\ set.ver = ev.ver /\ set.gone = ev.gone
              /\ DOMAIN set.ps = DOMAIN ev.ps
              /\ \A b \in DOMAIN ev.ps : set.ps[b] = IF b = a THEN answer ELSE ev.ps[b]
          BY <3>1, <4>1, AnsweredFields
        <4> QED
          BY <3>2, <4>2 DEF ev
      <3> QED
        BY <1>4, <2>1, <3>3 DEF answer
    <2>2. CASE ~(r.base # None /\ a \in DOMAIN r.base.ps)
      <3>1. new = Encoded(r.ev)
        BY <2>2
      <3> HIDE DEF new
      <3> QED
        BY <1>2, <1>4, <2>2, <3>1, EncodedFields
    <2> QED
      BY <2>1, <2>2
  <1> HIDE DEF new
  <1>6. /\ cal'[a] = new /\ new # None /\ cal'[Organizer] = own
        /\ \A b \in Internal \ {a} : cal'[b] = cal[b]
    BY <1>1, <1>2, <1>3, <1>5, People, NoneAssumption
  <1>7. OrganizerInv'
    BY <1>1, <1>6, FanNow
  <1>8. AttendeeInv(a)'
    <2>0. HeldInv(a) /\ ReplyInv(a) /\ AnswerInv(a) /\ req'[a] = req[a]
      BY <1>3
    <2>1. HeldInv(a)'
      <3>1. a \in DOMAIN cal'[a].ps /\ cal'[Organizer] # None /\ a \in DOMAIN cal'[Organizer].ps
        BY <1>4, <1>5, <1>6
      <3> QED
        BY <1>1, <2>0, <3>1 DEF HeldInv
    <2>2. VersionInv(a)'
      <3>1. ~Excluding(a)'
        BY <1>3 DEF Excluding
      <3> QED
        BY <1>4, <1>5, <1>6, <3>1 DEF VersionInv
    <2>3. ReplyInv(a)'
      BY <1>1, <1>4, <1>6, <2>0 DEF ReplyInv
    <2>4. AnswerInv(a)'
      <3>1. ASSUME a \notin left, a \notin SpokenFor
            PROVE  new.ps[a] = last[a] \/ req[a].pc = "own"
        <4>1. CASE r.base = None
          <5>1. r.ev.ps[a] = last[a]
            BY <1>1, <1>4, <2>0, <3>1, <4>1 DEF AnswerInv
          <5> QED
            BY <1>5, <4>1, <5>1
        <4>2. CASE r.base # None
          <5>1. a \in DOMAIN r.base.ps
            BY <1>1, <2>0, <3>1, <4>2 DEF HeldInv
          <5>2. cal[a].ps[a] = last[a] \/ req[a].pc = "own"
            BY <1>1, <1>4, <2>0, <3>1, <4>2 DEF AnswerInv
          <5> QED
            BY <1>1, <1>5, <4>2, <5>1, <5>2
        <4> QED
          BY <4>1, <4>2
      <3>2. \/ own.ps[a] = last[a] \/ req[a].pc \in {"own", "find", "org"}
            \/ a \in left \cup SpokenFor
        BY <1>4, <2>0 DEF AnswerInv
      <3> QED
        BY <1>1, <1>6, <2>0, <3>1, <3>2 DEF AnswerInv
    <2> QED
      BY <2>1, <2>2, <2>3, <2>4 DEF AttendeeInv
  <1>9. ASSUME NEW b \in Internal, b # a PROVE AttendeeInv(b)'
    <2>1. cal'[b] = cal[b] /\ req'[b] = req[b] /\ (b \in apart' <=> b \in apart)
      BY <1>1, <1>3, <1>6, <1>9
    <2>2. Awaits(b)' <=> Awaits(b)
      BY <1>1, <1>3, <1>9 DEF Awaits
    <2>3. HeldInv(b)'
      BY <1>1, <1>3, <1>4, <1>6, <2>1 DEF HeldInv
    <2>4. VersionInv(b)'
      BY <1>1, <1>3, <1>6, <2>1, <2>2 DEF VersionInv, Excluding
    <2>5. ReplyInv(b)'
      BY <1>1, <1>3, <1>6, <2>1 DEF ReplyInv
    <2>6. AnswerInv(b)'
      BY <1>1, <1>3, <1>6, <2>1, <2>2 DEF AnswerInv
    <2> QED
      BY <2>3, <2>4, <2>5, <2>6 DEF AttendeeInv
  <1> QED
    BY <1>7, <1>8, <1>9 DEF Converging

\* What the fan-outs of one occurrence and of a cancellation have in common: one copy
\* changes, and the others stay as they are.
LEMMA FanOthers ==
    ASSUME Settled, SpokenFor \subseteq SpokenFor',
           NEW a \in Internal, NEW copy, cal' = [cal EXCEPT ![a] = copy],
           NEW request, Become(Organizer, request),
           req[Organizer].pc \in {"override", "exclude", "cancel"},
           request.pc = req[Organizer].pc, request.todo = req[Organizer].todo \ {a},
           request.pc = "exclude" => request.rid = req[Organizer].rid,
           UNCHANGED <<left, apart, last, edits>>
    PROVE  \A b \in Internal \ {a} : AttendeeInv(b)'
  <1>1. /\ req'[Organizer] = request /\ \A b \in Internal : req'[b] = req[b]
        /\ \A b \in Internal : HeldInv(b) /\ VersionInv(b) /\ ReplyInv(b) /\ AnswerInv(b)
        /\ cal \in [Accounts -> Copy \cup {None}]
    BY OrganizerNow
  <1>2. cal'[Organizer] = cal[Organizer] /\ \A b \in Internal \ {a} : cal'[b] = cal[b]
    BY <1>1, People
  <1> SUFFICES ASSUME NEW b \in Internal \ {a} PROVE AttendeeInv(b)'
    OBVIOUS
  <1>3. HeldInv(b)'
    BY <1>1, <1>2 DEF HeldInv
  <1>4. VersionInv(b)'
    <2>1. ~Awaits(b) /\ ~Awaits(b)'
      BY <1>1 DEF Awaits
    <2>2. /\ Excluding(b)' <=> Excluding(b)
          /\ Excluding(b) => req'[Organizer].rid = req[Organizer].rid
      BY <1>1 DEF Excluding
    <2>3. cal'[b] = cal[b] /\ VersionInv(b)
      BY <1>1, <1>2
    <2> QED
      BY <1>2, <2>1, <2>2, <2>3 DEF VersionInv
  <1>5. ReplyInv(b)'
    BY <1>1, <1>2 DEF ReplyInv
  <1>6. AnswerInv(b)'
    BY <1>1, <1>2 DEF AnswerInv, Awaits
  <1> QED
    BY <1>3, <1>4, <1>5, <1>6 DEF AttendeeInv

LEMMA LessToDo ==
    ASSUME SchedulingInv, NEW a, req[Organizer].pc \in {"override", "exclude", "cancel"}
    PROVE  LET request == [req[Organizer] EXCEPT !.todo = @ \ {a}] IN
           /\ request.pc = req[Organizer].pc /\ request.todo = req[Organizer].todo \ {a}
           /\ request.pc = "exclude" =>
                 request.rid = req[Organizer].rid /\ request.rid \in Rids
  <1> DEFINE r == req[Organizer]
  <1>1. r \in Requests
    BY RequestsHeld, People
  <1>2. CASE r.pc = "override"
    BY <1>1, <1>2 DEF Requests, Idle
  <1>3. CASE r.pc = "exclude"
    BY <1>1, <1>3 DEF Requests, Idle
  <1>4. CASE r.pc = "cancel"
    BY <1>1, <1>4 DEF Requests, Idle
  <1> QED
    BY <1>2, <1>3, <1>4

\* Only who left, and is apart, can be without the series: nothing is said of the
\* occurrence they get as an event of its own.
LEMMA DeliverOverrideConverges ==
    ASSUME Settled, SpokenFor \subseteq SpokenFor',
           NEW a \in Internal, DeliverOverride(Organizer, a) PROVE Converging'
  <1> DEFINE r       == req[Organizer]
             own     == cal[Organizer]
             request == [r EXCEPT !.todo = @ \ {a}]
             only    == [r.ev EXCEPT !.gone = Rids \ {r.rid}]
             copy    == IF cal[a] # None THEN [cal[a] EXCEPT !.over = @ \cup {r.rid}]
                        ELSE Encoded(only)
  <1>1. /\ r.pc = "override" /\ a \in r.todo /\ cal' = [cal EXCEPT ![a] = copy]
        /\ Become(Organizer, request) /\ UNCHANGED <<left, apart, last, edits>>
    BY DEF DeliverOverride, bounds, history
  <1>2. request.pc = "override" /\ request.todo = r.todo \ {a}
    BY <1>1, LessToDo DEF Settled
  <1>3. r.rid \in Rids
    <2>1. r \in Requests
      BY RequestsHeld, People DEF Settled
    <2> QED
      BY <1>1, <2>1, RequestFields
  <1> HIDE DEF request
  <1>4. cal[a] # None => /\ copy \in Copy /\ copy.ps = cal[a].ps /\ copy.ver = cal[a].ver
                         /\ copy.gone = cal[a].gone
    <2>1. cal[a] # None => cal[a] \in Copy
      BY CopiesHeld, People DEF Settled
    <2> QED
      BY <1>3, <2>1, OccurrenceFields
  <1> HIDE DEF copy
  <1>5. /\ req'[Organizer] = request /\ \A b \in Internal : req'[b] = req[b]
        /\ HeldInv(a) /\ VersionInv(a) /\ ReplyInv(a) /\ AnswerInv(a)
        /\ OrganizerInv /\ cal \in [Accounts -> Copy \cup {None}]
    BY <1>1, OrganizerNow
  <1>6. cal'[a] = copy /\ cal'[Organizer] = own
    BY <1>1, <1>5, People
  <1>7. OrganizerInv'
    BY <1>1, <1>2, <1>6, FanNow
  <1>8. own # None /\ a \in DOMAIN own.ps /\ ~Awaits(a) /\ ~Excluding(a)
    BY <1>1, <1>5 DEF OrganizerInv, Awaits, Excluding
  <1>9. ~Awaits(a)' /\ ~Excluding(a)'
    BY <1>2, <1>5 DEF Awaits, Excluding
  <1>10. AttendeeInv(a)'
    <2>1. CASE cal[a] = None
      <3>1. a \in left /\ a \in apart
        BY <1>5, <1>8, <2>1 DEF AnswerInv, VersionInv
      <3> QED
        BY <1>1, <3>1 DEF AttendeeInv, HeldInv, VersionInv, ReplyInv, AnswerInv
    <2>2. CASE cal[a] # None
      <3>1. copy # None /\ copy.ps = cal[a].ps /\ copy.ver = cal[a].ver /\ copy.gone = cal[a].gone
        BY <1>4, <2>2, NoneAssumption
      <3>2. HeldInv(a)'
        BY <1>1, <1>5, <1>6, <1>8, <2>2, <3>1 DEF HeldInv
      <3>3. VersionInv(a)'
        BY <1>1, <1>5, <1>6, <1>8, <1>9, <3>1 DEF VersionInv
      <3>4. ReplyInv(a)'
        BY <1>1, <1>5, <1>6, <1>8 DEF ReplyInv
      <3>5. AnswerInv(a)'
        BY <1>1, <1>5, <1>6, <1>8, <1>9, <2>2, <3>1 DEF AnswerInv
      <3> QED
        BY <3>2, <3>3, <3>4, <3>5 DEF AttendeeInv
    <2> QED
      BY <2>1, <2>2
  <1>11. \A b \in Internal \ {a} : AttendeeInv(b)'
    BY <1>1, <1>2, FanOthers
  <1> QED
    BY <1>7, <1>10, <1>11 DEF Converging

LEMMA CancelOccurrenceConverges ==
    ASSUME Settled, SpokenFor \subseteq SpokenFor',
           NEW a \in Internal, CancelOccurrence(Organizer, a) PROVE Converging'
  <1> DEFINE r       == req[Organizer]
             own     == cal[Organizer]
             request == [r EXCEPT !.todo = @ \ {a}]
             copy    == IF cal[a] # None THEN Excluded(cal[a], r.rid) ELSE None
  <1>1. /\ r.pc = "exclude" /\ a \in r.todo /\ cal' = [cal EXCEPT ![a] = copy]
        /\ Become(Organizer, request) /\ UNCHANGED <<left, apart, last, edits>>
    BY DEF CancelOccurrence, bounds, history
  <1>2. request.pc = "exclude" /\ request.todo = r.todo \ {a} /\ request.rid = r.rid
        /\ r.rid \in Rids
    BY <1>1, LessToDo DEF Settled
  <1> HIDE DEF request
  <1>3. /\ cal[a] # None => /\ copy \in Copy /\ copy.ps = cal[a].ps /\ copy.ver = cal[a].ver
                            /\ copy.gone = cal[a].gone \cup {r.rid}
        /\ cal[a] = None => copy = None
    <2>1. cal[a] # None => cal[a] \in Copy
      BY CopiesHeld, People DEF Settled
    <2> QED
      BY <1>2, <2>1, OccurrenceFields
  <1> HIDE DEF copy
  <1>4. cal[a] = None <=> copy = None
    BY <1>3, NoneAssumption
  <1>5. /\ req'[Organizer] = request /\ \A b \in Internal : req'[b] = req[b]
        /\ HeldInv(a) /\ VersionInv(a) /\ ReplyInv(a) /\ AnswerInv(a)
        /\ OrganizerInv /\ cal \in [Accounts -> Copy \cup {None}]
    BY <1>1, OrganizerNow
  <1>6. cal'[a] = copy /\ cal'[Organizer] = own
    BY <1>1, <1>5, People
  <1>7. OrganizerInv'
    BY <1>1, <1>2, <1>6, FanNow
  <1>8. own # None /\ ~Awaits(a) /\ Excluding(a) /\ ~Awaits(a)' /\ ~Excluding(a)'
    BY <1>1, <1>2, <1>5 DEF OrganizerInv, Awaits, Excluding
  <1>9. AttendeeInv(a)'
    <2>1. HeldInv(a)'
      BY <1>1, <1>3, <1>4, <1>5, <1>6, <1>8 DEF HeldInv
    <2>2. VersionInv(a)'
      BY <1>1, <1>3, <1>4, <1>5, <1>6, <1>8 DEF VersionInv
    <2>3. ReplyInv(a)'
      BY <1>1, <1>5, <1>6, <1>8 DEF ReplyInv
    <2>4. AnswerInv(a)'
      BY <1>1, <1>3, <1>4, <1>5, <1>6, <1>8 DEF AnswerInv
    <2> QED
      BY <2>1, <2>2, <2>3, <2>4 DEF AttendeeInv
  <1>10. \A b \in Internal \ {a} : AttendeeInv(b)'
    BY <1>1, <1>2, FanOthers
  <1> QED
    BY <1>7, <1>9, <1>10 DEF Converging

LEMMA CancelCopyConverges ==
    ASSUME Settled, SpokenFor \subseteq SpokenFor',
           NEW a \in Internal, CancelCopy(Organizer, a) PROVE Converging'
  <1> DEFINE r       == req[Organizer]
             request == [r EXCEPT !.todo = @ \ {a}]
  <1>1. /\ r.pc = "cancel" /\ a \in r.todo /\ cal' = [cal EXCEPT ![a] = None]
        /\ Become(Organizer, request) /\ UNCHANGED <<left, apart, last, edits>>
    BY DEF CancelCopy, bounds, history
  <1>2. request.pc = "cancel" /\ request.todo = r.todo \ {a}
    BY <1>1, LessToDo DEF Settled
  <1> HIDE DEF request
  <1>3. /\ req'[Organizer] = request /\ \A b \in Internal : req'[b] = req[b]
        /\ HeldInv(a) /\ VersionInv(a) /\ ReplyInv(a) /\ AnswerInv(a)
        /\ OrganizerInv /\ cal \in [Accounts -> Copy \cup {None}]
    BY <1>1, OrganizerNow
  <1>4. cal[Organizer] = None /\ cal'[a] = None /\ cal'[Organizer] = None
    BY <1>1, <1>3, People DEF OrganizerInv
  <1>5. OrganizerInv'
    BY <1>1, <1>2, <1>4, FanNow
  <1>6. AttendeeInv(a)'
    BY <1>1, <1>2, <1>3, <1>4 DEF AttendeeInv, HeldInv, VersionInv, ReplyInv, AnswerInv
  <1>7. \A b \in Internal \ {a} : AttendeeInv(b)'
    BY <1>1, <1>2, FanOthers
  <1> QED
    BY <1>5, <1>6, <1>7 DEF Converging

\* At the end of a fan-out nobody is left to be served.
LEMMA FinishOrganizer ==
    ASSUME Settled, SpokenFor \subseteq SpokenFor', Finish(Organizer)
    PROVE Converging'
  <1> DEFINE r   == req[Organizer]
             own == cal[Organizer]
  <1>1. /\ Become(Organizer, Idle) /\ UNCHANGED <<cal, left, apart, last, edits>>
        /\ \/ r.pc \in {"deliver", "override", "exclude", "cancel"} /\ r.todo = {}
           \/ r.pc = "replace" /\ own = None
    BY DEF Finish, bounds, history
  <1>2. /\ req'[Organizer] = Idle /\ \A b \in Internal : req'[b] = req[b]
        /\ OrganizerInv
        /\ \A b \in Internal : HeldInv(b) /\ VersionInv(b) /\ ReplyInv(b) /\ AnswerInv(b)
        /\ Idle.pc = "idle"
    BY <1>1, OrganizerNow DEF Idle
  <1>3. r.pc \in {"deliver", "override", "exclude", "cancel"} /\ r.todo = {}
    BY <1>1, <1>2 DEF OrganizerInv
  <1>4. OrganizerInv'
    BY <1>1, <1>2 DEF OrganizerInv
  <1>5. ASSUME NEW b \in Internal PROVE AttendeeInv(b)'
    <2>1. ~Awaits(b) /\ ~Excluding(b) /\ ~Awaits(b)' /\ ~Excluding(b)'
      BY <1>2, <1>3 DEF Awaits, Excluding
    <2>2. HeldInv(b)'
      BY <1>1, <1>2, <1>3 DEF HeldInv
    <2>3. VersionInv(b)'
      BY <1>1, <1>2, <2>1 DEF VersionInv
    <2>4. ReplyInv(b)'
      BY <1>1, <1>2 DEF ReplyInv
    <2>5. AnswerInv(b)'
      BY <1>1, <1>2, <2>1 DEF AnswerInv
    <2> QED
      BY <2>2, <2>3, <2>4, <2>5 DEF AttendeeInv
  <1> QED
    BY <1>4, <1>5 DEF Converging

LEMMA FinishAttendee ==
    ASSUME Settled, SpokenFor \subseteq SpokenFor', NEW a \in Internal, Finish(a)
    PROVE Converging'
  <1>1. Become(a, Idle) /\ UNCHANGED <<cal, left, apart, last, edits>> /\ Idle.pc = "idle"
        /\ req[a].pc \notin {"own", "find", "org"}
    BY DEF Finish, bounds, history, Idle
  <1> QED
    BY <1>1, AttendeeReads

-----------------------------------------------------------------------------
\* Only the organizer's requests go out to others while nothing was revived.
LEMMA OnlyOrganizerDelivers ==
    ASSUME Settled, SpokenFor \subseteq SpokenFor',
           NEW u \in Accounts,
           req[u].pc \in {"deliver", "hand", "override", "exclude", "cancel"}
    PROVE  u = Organizer
  BY AttendeeRequest DEF Settled, Accounts

LEMMA OrganizeConverges ==
    ASSUME Settled, SpokenFor \subseteq SpokenFor', Organize, ~lost', ~revived'
    PROVE  Converging'
  <1>1. PICK u \in Accounts :
            \/ OpenEditor(u)
            \/ \E prev \in {cal[u], None} :
                  DeleteAll(u, prev) \/ \E x \in Rids : DeleteThis(u, x, prev)
            \/ \E att \in SUBSET Attendees : \E payload \in Payloads(att) :
                  \/ SaveAll(u, payload)
                  \/ \E prev \in {cal[u], None} :
                        \/ SaveEvent(u, payload, prev)
                        \/ \E x \in Rids : SaveThis(u, x, payload, prev)
    BY DEF Organize
  <1>2. CASE OpenEditor(u)
    BY <1>2, OpenEditorOrganizer, OpenEditorAttendee DEF Accounts
  <1>3. CASE \E prev \in {cal[u], None} :
                DeleteAll(u, prev) \/ \E x \in Rids : DeleteThis(u, x, prev)
    BY <1>3, DeleteAllOrganizer, DeleteAllAttendee, DeleteThisOrganizer, DeleteThisAttendee
    DEF Accounts
  <1>4. ASSUME NEW att \in SUBSET Attendees, NEW payload \in Payloads(att),
               \/ SaveAll(u, payload)
               \/ \E prev \in {cal[u], None} :
                     \/ SaveEvent(u, payload, prev)
                     \/ \E x \in Rids : SaveThis(u, x, payload, prev)
        PROVE  Converging'
    <2>1. payload \in [att -> PartStat]
      BY DEF Payloads
    <2>2. CASE u = Organizer
      BY <1>4, <2>1, <2>2, SaveAllOrganizer, SaveEventOrganizer, SaveThisOrganizer
    <2>3. CASE u \in Internal
      BY <1>4, <2>1, <2>3, SaveAllAttendee, SaveEventAttendee, SaveThisAttendee
    <2> QED
      BY <2>2, <2>3 DEF Accounts
  <1> QED
    BY <1>1, <1>2, <1>3, <1>4

LEMMA DispatchConverges ==
    ASSUME Settled, SpokenFor \subseteq SpokenFor', Dispatch, ~lost'
    PROVE Converging'
  <1>1. PICK u \in Accounts :
            \/ PutOwn(u) \/ ReplaceMaster(u) \/ DeliverPut(u) \/ Finish(u)
            \/ \E a \in Internal :
                  DeliverRead(u, a) \/ DeliverOverride(u, a) \/ CancelOccurrence(u, a)
                      \/ CancelCopy(u, a)
    BY DEF Dispatch
  <1>2. u = Organizer \/ u \in Internal
    BY DEF Accounts
  <1>3. CASE PutOwn(u)
    BY <1>2, <1>3, PutOwnOrganizer, PutOwnAttendee
  <1>4. CASE ReplaceMaster(u)
    BY <1>2, <1>4, ReplaceMasterOrganizer, ReplaceMasterAttendee
  <1>5. CASE Finish(u)
    BY <1>2, <1>5, FinishOrganizer, FinishAttendee
  <1>6. CASE DeliverPut(u)
    <2>1. u = Organizer
      BY <1>6, OnlyOrganizerDelivers DEF DeliverPut
    <2>2. req[Organizer] \in Requests /\ req[Organizer].pc = "hand"
      BY <1>6, <2>1, RequestsHeld, People DEF DeliverPut, Settled
    <2>3. req[Organizer].to \in Internal
      BY <2>2, RequestFields
    <2> QED
      BY <1>6, <2>1, <2>3, DeliverPutConverges
  <1>7. ASSUME NEW a \in Internal,
               DeliverRead(u, a) \/ DeliverOverride(u, a) \/ CancelOccurrence(u, a)
                   \/ CancelCopy(u, a)
        PROVE  Converging'
    <2>1. u = Organizer
      BY <1>7, OnlyOrganizerDelivers
      DEF DeliverRead, DeliverOverride, CancelOccurrence, CancelCopy
    <2> QED
      BY <1>7, <2>1, DeliverReadConverges, DeliverOverrideConverges,
         CancelOccurrenceConverges, CancelCopyConverges
  <1> QED
    BY <1>1, <1>3, <1>4, <1>5, <1>6, <1>7

LEMMA AttendConverges ==
    ASSUME Settled, SpokenFor \subseteq SpokenFor', Attend, ~lost'
    PROVE Converging'
  BY ReplyReadConverges, ReplyOwnConverges, ReplyFindConverges, ReplyOrganizerConverges
  DEF Attend

\* What was lost, revived or overlapped is not forgotten.
LEMMA HistoryKept ==
    ASSUME SchedulingInv, [Next]_vars
    PROVE  (lost => lost') /\ (revived => revived') /\ (overlapped => overlapped')
  <1>0. /\ lost \in BOOLEAN /\ lost' \in BOOLEAN /\ Grows
        /\ overlapped \in BOOLEAN /\ overlapped' \in BOOLEAN
    <2>1. SchedulingInv' /\ RunningInv
      BY SchedulingStep, AllParts
    <2> QED
      BY <2>1, StepGrows DEF SchedulingInv, TypeOK
  <1>1. overlapped => overlapped'
    BY <1>0 DEF Next, Crash, Switch, waiting, vars
  <1>2. lost => lost'
    <2>1. CASE Organize
      <3>1. ASSUME NEW u, NEW payload, NEW prev, NEW x,
                   \/ OpenEditor(u) \/ SaveAll(u, payload) \/ SaveEvent(u, payload, prev)
                   \/ SaveThis(u, x, payload, prev)
            PROVE  lost' = lost
        BY <3>1 DEF OpenEditor, SaveAll, SaveEvent, SaveThis
      <3>2. ASSUME NEW u, NEW prev, NEW x, DeleteThis(u, x, prev) \/ DeleteAll(u, prev)
            PROVE  lost => lost'
        BY <1>0, <3>2 DEF DeleteThis, DeleteAll, PassOn
      <3> QED
        BY <1>0, <2>1, <3>1, <3>2 DEF Organize
    <2>2. CASE Dispatch
      <3>1. ASSUME NEW u, PutOwn(u) \/ ReplaceMaster(u) \/ DeliverPut(u) PROVE lost => lost'
        BY <1>0, <3>1 DEF PutOwn, ReplaceMaster, DeliverPut, PutEvent
      <3>2. ASSUME NEW u, NEW a,
                   \/ Finish(u) \/ DeliverRead(u, a) \/ DeliverOverride(u, a)
                   \/ CancelOccurrence(u, a) \/ CancelCopy(u, a)
            PROVE  lost' = lost
        BY <3>2 DEF Finish, DeliverRead, DeliverOverride, CancelOccurrence, CancelCopy
      <3> QED
        BY <1>0, <2>2, <3>1, <3>2 DEF Dispatch
    <2>3. CASE Attend
      BY <1>0, <2>3 DEF Attend, ReplyRead, ReplyOwn, ReplyFind, ReplyOrganizer, PutEvent
    <2>4. CASE Mail
      BY <1>0, <2>4 DEF Mail, MailReply, InboundReply, LoseMail
    <2>5. CASE Crash \/ \E p \in Accounts \cup External : WriteFails(p) \/ Switch(p)
      BY <1>0, <2>5 DEF Crash, WriteFails, Switch
    <2>6. CASE UNCHANGED vars
      BY <1>0, <2>6 DEF vars
    <2> QED
      BY <2>1, <2>2, <2>3, <2>4, <2>5, <2>6 DEF Next
  <1> QED
    BY <1>0, <1>1, <1>2 DEF Grows

LEMMA ConvergeStep == SchedulingInv /\ ConvergeInv /\ [Next]_vars => ConvergeInv'
  <1> SUFFICES ASSUME SchedulingInv, ConvergeInv, [Next]_vars, ~lost', ~revived', ~overlapped'
               PROVE  Converging'
    BY DEF ConvergeInv, Converging
  <1>1. Settled
    BY HistoryKept DEF Settled, ConvergeInv, Converging
  <1>2. SpokenFor \subseteq SpokenFor'
    BY AllParts, StepGrows, SpokenGrows
  <1>3. CASE Organize
    BY <1>1, <1>2, <1>3, OrganizeConverges
  <1>4. CASE Dispatch
    BY <1>1, <1>2, <1>4, DispatchConverges
  <1>5. CASE Attend
    BY <1>1, <1>2, <1>5, AttendConverges
  <1>6. CASE Mail
    BY <1>1, <1>2, <1>6, MailConverges
  <1>7. CASE Crash \/ \E p \in Accounts \cup External : WriteFails(p)
    BY <1>7 DEF Crash, WriteFails
  <1>8. ASSUME NEW p \in Accounts \cup External, Switch(p) PROVE Converging'
    <2>1. p \in External /\ p \notin Accounts
      BY <1>8 DEF Switch
    <2>2. req'[Organizer] = req[Organizer] /\ \A a \in Internal : req'[a] = req[a]
      BY <1>1, <1>8, <2>1, RequestsHeld, People DEF Switch, Settled
    <2>3. UNCHANGED <<cal, left, apart, last, edits>>
      BY <1>8 DEF Switch, bounds, history
    <2> QED
      BY <1>1, <1>2, <2>2, <2>3, ElsewhereConverges
  <1>9. CASE UNCHANGED vars
    BY <1>1, <1>2, <1>9, ElsewhereConverges DEF vars, bounds, history
  <1> QED
    BY <1>3, <1>4, <1>5, <1>6, <1>7, <1>8, <1>9 DEF Next

LEMMA ConvergeStart == Init => ConvergeInv
  <1> SUFFICES ASSUME Init PROVE Converging
    BY DEF ConvergeInv, Converging
  <1>1. /\ \A u \in Accounts : cal[u] = None
        /\ \A p \in Accounts : req[p] = Idle
        /\ Idle.pc = "idle"
    BY DEF Init, Idle
  <1>2. OrganizerInv
    BY <1>1, People DEF Init, OrganizerInv
  <1>3. ASSUME NEW a \in Internal PROVE AttendeeInv(a)
    BY <1>1, People DEF AttendeeInv, HeldInv, VersionInv, ReplyInv, AnswerInv
  <1> QED
    BY <1>2, <1>3 DEF Converging

\* While no copy was written back stale, nobody revived the event and no account had two
\* requests at once, a copy that differs from the organizer's is one that a request, or a
\* reply, is still on its way to: the stages of OnOrganizerSave, OnOrganizerCancel and
\* OnAttendeeReply, whichever of them overlap.
THEOREM SchedulingConverges == Spec => []ConvergeInv
  BY SchedulingStart, SchedulingStep, ConvergeStart, ConvergeStep, PTL DEF Spec

\* OnOrganizerSave, OnOrganizerCancel and their per-occurrence forms: under the same
\* three conditions, when all requests are over, the copies of those who stayed are the
\* organizer's version with the organizer's deletions, or gone with it; for any
\* attendees, occurrences and edits.
THEOREM SchedulingCopiesConverge == Spec => []CopiesConverge
  <1>1. ConvergeInv => CopiesConverge
    <2> SUFFICES ASSUME ConvergeInv, Quiet, ~lost, ~revived, ~overlapped
                 PROVE  IF cal[Organizer] = None THEN \A a \in Internal \ left : cal[a] = None
                        ELSE \A a \in Here(cal[Organizer]) \ apart :
                                /\ cal[a] # None
                                /\ cal[a].ver = cal[Organizer].ver
                                /\ cal[a].gone = cal[Organizer].gone
      BY DEF CopiesConverge
    <2>1. req[Organizer].pc = "idle" /\ \A a \in Internal : HeldInv(a) /\ VersionInv(a)
      BY People DEF Quiet, Idle, ConvergeInv, AttendeeInv
    <2>2. CASE cal[Organizer] = None
      BY <2>1, <2>2 DEF HeldInv
    <2>3. CASE cal[Organizer] # None
      BY <2>1, <2>3 DEF VersionInv, Awaits, Excluding, Here
    <2> QED
      BY <2>2, <2>3
  <1> QED
    BY <1>1, SchedulingConverges, PTL

\* OnAttendeeReply, mergePartStats and deliverInternal: under the same conditions, when
\* all requests are over, the last answer of every attendee who stayed, and for whom no
\* client's payload answered, stands in the organizer's copy and in their own.
THEOREM SchedulingRepliesKept == Spec => []RepliesKept
  <1>1. ConvergeInv => RepliesKept
    <2> SUFFICES ASSUME ConvergeInv, Quiet, ~lost, ~revived, ~overlapped, cal[Organizer] # None,
                        NEW a \in Here(cal[Organizer]) \ (left \cup SpokenFor)
                 PROVE  cal[Organizer].ps[a] = last[a] /\ cal[a].ps[a] = last[a]
      BY DEF RepliesKept
    <2>1. req[Organizer].pc = "idle" /\ req[a].pc = "idle" /\ AnswerInv(a)
      BY People DEF Quiet, Idle, ConvergeInv, AttendeeInv, Here, Accounts
    <2> QED
      BY <2>1 DEF AnswerInv, Awaits, Here
  <1> QED
    BY <1>1, SchedulingConverges, PTL

=============================================================================
