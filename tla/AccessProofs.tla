----------------------------- MODULE AccessProofs -----------------------------
(***************************************************************************)
(* Proofs about shared calendars, for any users, calendars, groups and     *)
(* grants, any ttl and deadline, and any number of requests and changes:   *)
(* what the tables say agrees, a cached membership is never older than its *)
(* window, and a request acts only by a grant it may rest on.              *)
(***************************************************************************)
EXTENDS Access, TLAPS

(* The membership client *)

\* What a lookup carries, by how far it has come.
LEMMA CallCases ==
    ASSUME MembershipTypeOK, NEW u \in Users
    PROVE  /\ call[u].pc = "idle" <=> call[u] = Waiting
           /\ call[u].pc = "asking" => call[u].since \in Nat /\ call[u].old \in Entry \cup {None}
           /\ call[u].pc = "answered" => /\ call[u].since \in Nat
                                         /\ call[u].old \in Entry \cup {None}
                                         /\ call[u].got \subseteq Users
           /\ call[u].pc = "told" => /\ call[u].members \subseteq Users
                                     /\ call[u].stale \in BOOLEAN
           /\ call[u].pc \in {"idle", "asking", "answered", "told"}
  <1>1. call[u] \in Call
    BY DEF MembershipTypeOK
  <1> QED
    BY <1>1 DEF Call, Waiting

\* An answer is one lookup's last state and touches no other's.
LEMMA ToldOne ==
    ASSUME MembershipTypeOK, NEW u \in Users, NEW m \in SUBSET Users, NEW s \in BOOLEAN,
           Told(u, m, s)
    PROVE  /\ call' \in [Users -> Call]
           /\ call'[u] = [pc |-> "told", members |-> m, stale |-> s]
           /\ \A v \in Users \ {u} : call'[v] = call[v]
  <1>1. [pc |-> "told", members |-> m, stale |-> s] \in Call
    BY DEF Call
  <1> QED
    BY <1>1 DEF Told, MembershipTypeOK

\* A change of the group or the passing of time.
LEMMA GroupStep ==
    ASSUME MembershipTypeOK, RecencyInv, Pass \/ \E u \in Users : SetMembers(u)
    PROVE  MembershipTypeOK' /\ RecencyInv'
  <1> USE MembershipAssumption
  <1>1. clock \in Nat /\ lastIn \in [Users -> Nat \cup {-1}] /\ group \subseteq Users
    BY DEF MembershipTypeOK
  <1>2. /\ clock' \in Nat /\ clock' >= clock /\ UNCHANGED <<entry, call>>
        /\ lastIn' \in [Users -> Nat \cup {-1}]
        /\ group' \subseteq Users
    BY <1>1 DEF Pass, SetMembers
  <1>3. \A v \in Users : /\ lastIn'[v] >= lastIn[v] /\ lastIn'[v] <= clock'
                         /\ v \in group' => lastIn'[v] = clock'
    <2>1. \A v \in Users : lastIn[v] <= clock /\ (v \in group => lastIn[v] = clock)
      BY DEF RecencyInv
    <2>2. CASE Pass
      BY <1>1, <2>1, <2>2 DEF Pass
    <2>3. ASSUME NEW u \in Users, SetMembers(u)
          PROVE  \A v \in Users : /\ lastIn'[v] >= lastIn[v] /\ lastIn'[v] <= clock'
                                  /\ v \in group' => lastIn'[v] = clock'
      BY <1>1, <2>1, <2>3 DEF SetMembers
    <2> QED
      BY <2>2, <2>3
  <1>4. MembershipTypeOK'
    BY <1>2 DEF MembershipTypeOK
  <1>5. \A u \in Users : call[u].pc \in {"asking", "answered"} =>
            call[u].since <= clock' /\ clock' <= call[u].since + Timeout
    <2> SUFFICES ASSUME NEW u \in Users, call[u].pc \in {"asking", "answered"}
                 PROVE  call[u].since <= clock' /\ clock' <= call[u].since + Timeout
      OBVIOUS
    <2>1. call[u].since \in Nat
      BY CallCases
    <2>2. call[u].since <= clock /\ clock <= call[u].since + Timeout
      BY DEF RecencyInv
    <2>3. clock' = clock \/ (clock' = clock + 1 /\ clock < call[u].since + Timeout)
      BY DEF Pass, SetMembers
    <2> QED
      BY <1>1, <2>1, <2>2, <2>3
  <1>6. \A u \in Users : call[u].pc = "answered" =>
            \A v \in call[u].got : lastIn'[v] >= call[u].since
    <2> SUFFICES ASSUME NEW u \in Users, call[u].pc = "answered", NEW v \in call[u].got
                 PROVE  lastIn'[v] >= call[u].since
      OBVIOUS
    <2>1. call[u].since \in Nat /\ v \in Users
      BY CallCases
    <2>2. lastIn[v] >= call[u].since
      BY DEF RecencyInv
    <2> QED
      BY <1>1, <1>2, <1>3, <2>1, <2>2
  <1>7. entry # None => \A v \in entry.members : lastIn'[v] >= 0 /\ lastIn'[v] >= entry.at - Timeout
    <2> SUFFICES ASSUME entry # None, NEW v \in entry.members
                 PROVE  lastIn'[v] >= 0 /\ lastIn'[v] >= entry.at - Timeout
      OBVIOUS
    <2>1. v \in Users /\ entry.at \in Nat
      BY DEF MembershipTypeOK, Entry
    <2>2. lastIn[v] >= 0 /\ lastIn[v] >= entry.at - Timeout
      BY DEF RecencyInv
    <2> QED
      BY <1>1, <1>2, <1>3, <2>1, <2>2
  <1> QED
    BY <1>2, <1>3, <1>4, <1>5, <1>6, <1>7 DEF RecencyInv

\* A step of one lookup; the members it tells of, unless it falls back on an expired
\* entry, were in the group recently.
LEMMA LookupStep ==
    ASSUME MembershipTypeOK, RecencyInv, NEW u \in Users,
           Ask(u) \/ Answer(u) \/ Fetched(u) \/ FetchFails(u)
    PROVE  /\ MembershipTypeOK' /\ RecencyInv'
           /\ UNCHANGED <<clock, group, lastIn>>
           /\ \A v \in Users \ {u} : call'[v] = call[v]
           /\ call'[u] # Waiting
           /\ call'[u].pc = "told" /\ u \in call'[u].members => RecentMember(u) \/ call'[u].stale
           /\ \/ call[u] = Waiting
              \/ call[u].pc \in {"asking", "answered"}
  <1> USE MembershipAssumption
  <1>1. /\ clock \in Nat /\ lastIn \in [Users -> Nat \cup {-1}] /\ group \subseteq Users
        /\ entry \in Entry \cup {None} /\ call \in [Users -> Call]
    BY DEF MembershipTypeOK
  <1>2. UNCHANGED <<clock, group, lastIn>>
    BY DEF Ask, Answer, Fetched, FetchFails
  <1>3. entry # None => /\ entry.members \subseteq Users /\ entry.at \in Nat
                        /\ \A v \in entry.members : lastIn[v] >= 0
                                                    /\ lastIn[v] >= entry.at - Timeout
    BY <1>1 DEF Entry, RecencyInv
  <1>4. \A v \in Users : lastIn[v] <= clock /\ (v \in group => lastIn[v] = clock)
    BY DEF RecencyInv
  <1>5. CASE Ask(u) /\ Fresh
    <2>1. Told(u, entry.members, FALSE) /\ entry' = entry /\ call[u] = Waiting /\ entry # None
      BY <1>5 DEF Ask, Fresh
    <2>2. /\ call' \in [Users -> Call]
          /\ call'[u] = [pc |-> "told", members |-> entry.members, stale |-> FALSE]
          /\ \A v \in Users \ {u} : call'[v] = call[v]
      BY <1>3, <2>1, ToldOne
    <2>3. u \in entry.members => RecentMember(u)
      <3>1. clock - entry.at < Ttl
        BY <1>5 DEF Fresh
      <3> QED
        BY <1>1, <1>3, <2>1, <3>1 DEF RecentMember
    <2>4. RecencyInv'
      BY <1>2, <2>1, <2>2 DEF RecencyInv
    <2> QED
      BY <1>1, <1>2, <2>1, <2>2, <2>3, <2>4 DEF MembershipTypeOK, Waiting
  <1>6. CASE Ask(u) /\ ~Fresh
    <2> DEFINE new == [pc |-> "asking", since |-> clock, old |-> entry]
    <2>1. call' = [call EXCEPT ![u] = new] /\ entry' = entry /\ call[u] = Waiting
      BY <1>6 DEF Ask
    <2>2. new \in Call
      BY <1>1 DEF Call
    <2>3. /\ call' \in [Users -> Call] /\ call'[u] = new
          /\ \A v \in Users \ {u} : call'[v] = call[v]
      BY <1>1, <2>1, <2>2
    <2>4. RecencyInv'
      BY <1>1, <1>2, <2>1, <2>3 DEF RecencyInv
    <2> QED
      BY <1>1, <1>2, <2>1, <2>3, <2>4 DEF MembershipTypeOK, Waiting
  <1>7. CASE Answer(u)
    <2> DEFINE new == [pc |-> "answered", since |-> call[u].since, old |-> call[u].old,
                       got |-> group]
    <2>1. call' = [call EXCEPT ![u] = new] /\ entry' = entry /\ call[u].pc = "asking"
      BY <1>1, <1>7 DEF Answer
    <2>2. new \in Call /\ call[u].since \in Nat
      BY <1>1, <2>1, CallCases DEF Call
    <2>3. /\ call' \in [Users -> Call] /\ call'[u] = new
          /\ \A v \in Users \ {u} : call'[v] = call[v]
      BY <1>1, <2>1, <2>2
    <2>4. call[u].since <= clock /\ clock <= call[u].since + Timeout
      BY <2>1 DEF RecencyInv
    <2>5. \A v \in group : lastIn[v] >= call[u].since
      BY <1>1, <1>4, <2>2, <2>4
    <2>6. RecencyInv'
      BY <1>2, <2>1, <2>3, <2>4, <2>5 DEF RecencyInv
    <2> QED
      BY <1>1, <1>2, <2>1, <2>3, <2>6 DEF MembershipTypeOK, Waiting
  <1>8. CASE Fetched(u)
    <2>1. /\ call[u].pc = "answered" /\ Told(u, call[u].got, FALSE)
          /\ entry' = [members |-> call[u].got, at |-> clock]
      BY <1>8 DEF Fetched
    <2>2. call[u].got \subseteq Users /\ call[u].since \in Nat
      BY <2>1, CallCases
    <2>3. /\ call' \in [Users -> Call]
          /\ call'[u] = [pc |-> "told", members |-> call[u].got, stale |-> FALSE]
          /\ \A v \in Users \ {u} : call'[v] = call[v]
      BY <2>1, <2>2, ToldOne
    <2>4. call[u].since <= clock /\ clock <= call[u].since + Timeout
      BY <2>1 DEF RecencyInv
    <2>5. \A v \in call[u].got : lastIn[v] >= call[u].since
      BY <2>1 DEF RecencyInv
    <2>6. \A v \in call[u].got : lastIn[v] >= 0 /\ lastIn[v] >= clock - Timeout
      BY <1>1, <2>2, <2>4, <2>5
    <2>7. RecencyInv'
      BY <1>2, <2>1, <2>3, <2>6 DEF RecencyInv
    <2>8. u \in call[u].got => RecentMember(u)
      BY <1>1, <2>6 DEF RecentMember
    <2>9. entry' \in Entry
      BY <1>1, <2>1, <2>2 DEF Entry
    <2> QED
      BY <1>1, <1>2, <2>1, <2>3, <2>7, <2>8, <2>9 DEF MembershipTypeOK, Waiting
  <1>9. CASE FetchFails(u)
    <2>1. call[u].pc \in {"asking", "answered"} /\ entry' = entry
      BY <1>9 DEF FetchFails
    <2>2. call[u].old # None => call[u].old.members \subseteq Users
      BY <2>1, CallCases DEF Entry
    <2>3. \/ Told(u, {}, FALSE)
          \/ call[u].old # None /\ Told(u, call[u].old.members, TRUE)
      BY <1>9 DEF FetchFails
    <2>4. /\ call' \in [Users -> Call]
          /\ call'[u].pc = "told" /\ (call'[u].members = {} \/ call'[u].stale)
          /\ \A v \in Users \ {u} : call'[v] = call[v]
      <3>1. CASE Told(u, {}, FALSE)
        <4>1. /\ call' \in [Users -> Call]
              /\ call'[u] = [pc |-> "told", members |-> {}, stale |-> FALSE]
              /\ \A v \in Users \ {u} : call'[v] = call[v]
          BY <3>1, ToldOne, {} \in SUBSET Users
        <4> QED
          BY <4>1
      <3>2. CASE call[u].old # None /\ Told(u, call[u].old.members, TRUE)
        <4>1. /\ call' \in [Users -> Call]
              /\ call'[u] = [pc |-> "told", members |-> call[u].old.members, stale |-> TRUE]
              /\ \A v \in Users \ {u} : call'[v] = call[v]
          BY <2>2, <3>2, ToldOne
        <4> QED
          BY <4>1
      <3> QED
        BY <2>3, <3>1, <3>2
    <2>5. RecencyInv'
      BY <1>2, <2>1, <2>4 DEF RecencyInv
    <2> QED
      BY <1>1, <1>2, <2>1, <2>4, <2>5 DEF MembershipTypeOK, Waiting
  <1> QED
    BY <1>5, <1>6, <1>7, <1>8, <1>9


-----------------------------------------------------------------------------
(* The tables of grants *)

\* What the tables promise of each other.
Consent == PublicMatchesConsent /\ NothingOutlivesCalendar

LEMMA AddGrantTables ==
    ASSUME TypeOK, Consent, NEW o \in Offers, NEW id \in GrantIds, NEW names \in SUBSET Users,
           AddGrant(id, o, names)
    PROVE  /\ cals' \subseteq Cals /\ public' \subseteq Cals
           /\ grants' \subseteq Grant /\ members' \subseteq GrantIds \X Users
           /\ used' \subseteq GrantIds
           /\ Consent'
  <1> DEFINE new == [id |-> id, of |-> o]
  <1>1. /\ o.cal \in cals /\ cals' = cals
        /\ grants' = grants \cup {new}
        /\ used' = used \cup {id}
        /\ public' = IF \E g \in grants' : g.of.cal = o.cal /\ g.of.ext
                     THEN public \cup {o.cal} ELSE public \ {o.cal}
    BY DEF AddGrant, RefreshPublic
  <1>2. new \in Grant /\ o.cal \in Cals
    BY AccessAssumption DEF Grant, Offer
  <1>3. members' \subseteq GrantIds \X Users
    BY DEF TypeOK, AddGrant
  <1>4. \A m \in members' : m \in members \/ m[1] = id
    BY DEF AddGrant
  <1>5. NothingOutlivesCalendar'
    <2>1. \A g \in grants' : g.of.cal \in cals'
      BY <1>1 DEF Consent, NothingOutlivesCalendar
    <2>2. new \in grants' /\ new.id = id
      BY <1>1
    <2>3. \A m \in members' : \E g \in grants' : g.id = m[1]
      BY <1>1, <1>4, <2>2 DEF Consent, NothingOutlivesCalendar
    <2> QED
      BY <2>1, <2>3 DEF NothingOutlivesCalendar
  <1>6. PublicMatchesConsent'
    BY <1>1 DEF Consent, PublicMatchesConsent, GrantsOf
  <1> QED
    BY <1>1, <1>2, <1>3, <1>5, <1>6 DEF TypeOK, Consent

LEMMA SetGrantTables ==
    ASSUME TypeOK, Consent, NEW c \in Cals, NEW id \in used, NEW level \in Levels,
           NEW ext \in BOOLEAN, NEW names \in SUBSET SUBSET Users,
           SetGrant(c, id, level, ext, names)
    PROVE  /\ cals' \subseteq Cals /\ public' \subseteq Cals
           /\ grants' \subseteq Grant /\ members' \subseteq GrantIds \X Users
           /\ used' \subseteq GrantIds
           /\ Consent'
  <1>1. PICK g \in GrantsOf(c) :
            /\ g.id = id
            /\ grants' = (grants \ {g}) \cup {[g EXCEPT !.of.level = level, !.of.ext = ext]}
    BY DEF SetGrant
  <1> DEFINE new == [g EXCEPT !.of.level = level, !.of.ext = ext]
  <1>2. g \in grants /\ g.of.cal = c /\ g \in Grant
    BY <1>1 DEF GrantsOf, TypeOK
  <1>3. new \in Grant /\ new.id = id /\ new.of.cal = c
    BY <1>1, <1>2 DEF Grant, Offer
  <1>4. /\ cals' = cals /\ used' = used
        /\ public' = IF \E h \in grants' : h.of.cal = c /\ h.of.ext
                     THEN public \cup {c} ELSE public \ {c}
    BY DEF SetGrant, RefreshPublic
  <1>5. members' \subseteq GrantIds \X Users
    BY DEF TypeOK, SetGrant
  <1>6. \A m \in members' : m \in members \/ m[1] = id
    BY DEF SetGrant
  <1>7. c \in cals
    BY <1>2 DEF Consent, NothingOutlivesCalendar
  <1> HIDE DEF new
  <1>8. grants' = (grants \ {g}) \cup {new}
    BY <1>1 DEF new
  <1>9. NothingOutlivesCalendar'
    BY <1>1, <1>2, <1>3, <1>4, <1>6, <1>7, <1>8 DEF Consent, NothingOutlivesCalendar
  <1>10. PublicMatchesConsent'
    BY <1>2, <1>3, <1>4, <1>7, <1>8 DEF Consent, PublicMatchesConsent, GrantsOf
  <1> QED
    BY <1>3, <1>4, <1>5, <1>8, <1>9, <1>10 DEF TypeOK, Consent

LEMMA RemoveGrantTables ==
    ASSUME TypeOK, Consent, NEW c \in Cals, NEW id \in used, RemoveGrant(c, id)
    PROVE  /\ cals' \subseteq Cals /\ public' \subseteq Cals
           /\ grants' \subseteq Grant /\ members' \subseteq GrantIds \X Users
           /\ used' \subseteq GrantIds
           /\ Consent'
  <1>1. /\ cals' = cals /\ used' = used
        /\ members' = {m \in members : m[1] # id}
        /\ grants' = {g \in grants : ~(g.of.cal = c /\ g.id = id)}
        /\ public' = IF \E g \in grants' : g.of.cal = c /\ g.of.ext
                     THEN public \cup {c} ELSE public \ {c}
    BY DEF RemoveGrant, RefreshPublic
  <1>2. c \in cals
    BY DEF RemoveGrant, GrantsOf, Consent, NothingOutlivesCalendar
  <1>3. NothingOutlivesCalendar'
    BY <1>1 DEF Consent, NothingOutlivesCalendar
  <1>4. PublicMatchesConsent'
    BY <1>1, <1>2 DEF Consent, PublicMatchesConsent, GrantsOf
  <1> QED
    BY <1>1, <1>3, <1>4 DEF TypeOK, Consent

LEMMA CalendarTables ==
    ASSUME TypeOK, Consent, NEW c \in Cals, DeleteCalendar(c) \/ CreateCalendar(c)
    PROVE  /\ cals' \subseteq Cals /\ public' \subseteq Cals
           /\ grants' \subseteq Grant /\ members' \subseteq GrantIds \X Users
           /\ used' \subseteq GrantIds
           /\ Consent'
  <1>1. CASE DeleteCalendar(c)
    <2>1. /\ cals' = cals \ {c} /\ public' = public \ {c} /\ used' = used
          /\ grants' = grants \ GrantsOf(c)
          /\ members' = {m \in members : \A g \in GrantsOf(c) : m[1] # g.id}
      BY <1>1 DEF DeleteCalendar
    <2>2. NothingOutlivesCalendar'
      BY <2>1 DEF Consent, NothingOutlivesCalendar, GrantsOf
    <2>3. PublicMatchesConsent'
      BY <2>1 DEF Consent, PublicMatchesConsent, GrantsOf
    <2> QED
      BY <2>1, <2>2, <2>3 DEF TypeOK, Consent
  <1>2. CASE CreateCalendar(c)
    <2>1. /\ c \notin cals /\ cals' = cals \cup {c}
          /\ UNCHANGED <<public, grants, members, used>>
      BY <1>2 DEF CreateCalendar
    <2>2. NothingOutlivesCalendar'
      BY <2>1 DEF Consent, NothingOutlivesCalendar
    <2>3. PublicMatchesConsent'
      BY <2>1 DEF Consent, PublicMatchesConsent, NothingOutlivesCalendar, GrantsOf
    <2> QED
      BY <2>1, <2>2, <2>3 DEF TypeOK, Consent
  <1> QED
    BY <1>1, <1>2

\* Whatever an owner does: the flag, the grants and their members stay in agreement,
\* and no request or lookup is touched.
LEMMA ManageTables ==
    ASSUME TypeOK, Consent, NEW c \in Cals, Manage(c)
    PROVE  /\ cals' \subseteq Cals /\ public' \subseteq Cals
           /\ grants' \subseteq Grant /\ members' \subseteq GrantIds \X Users
           /\ used' \subseteq GrantIds
           /\ Consent'
           /\ changes' \in Nat
           /\ UNCHANGED <<membership, osGroups, req, requests>>
  <1>1. Manage(c) => Change
    BY DEF Manage, AddGrant, SetGrant, RemoveGrant, DeleteCalendar, CreateCalendar
  <1>2. changes' \in Nat /\ UNCHANGED <<membership, osGroups, req, requests>>
    BY <1>1 DEF Change, TypeOK
  <1> DEFINE G == /\ cals' \subseteq Cals /\ public' \subseteq Cals
                  /\ grants' \subseteq Grant /\ members' \subseteq GrantIds \X Users
                  /\ used' \subseteq GrantIds
                  /\ Consent'
  <1>3. ASSUME NEW o \in Offers, NEW id \in GrantIds, NEW names \in SUBSET Users,
               AddGrant(id, o, names)
        PROVE  G
    BY <1>3, AddGrantTables
  <1>4. ASSUME NEW id \in used, NEW level \in Levels, NEW ext \in BOOLEAN,
               NEW names \in SUBSET SUBSET Users, SetGrant(c, id, level, ext, names)
        PROVE  G
    BY <1>4, SetGrantTables
  <1>5. ASSUME NEW id \in used, RemoveGrant(c, id) PROVE G
    BY <1>5, RemoveGrantTables
  <1>6. DeleteCalendar(c) \/ CreateCalendar(c) => G
    BY CalendarTables
  <1> HIDE DEF G
  <1>7. {} \in SUBSET SUBSET Users /\ \A names \in SUBSET Users : {names} \in SUBSET SUBSET Users
    OBVIOUS
  <1>8. G
    BY <1>3, <1>4, <1>5, <1>6, <1>7 DEF Manage
  <1> QED
    BY <1>2, <1>8 DEF G


-----------------------------------------------------------------------------
(* Requests *)

\* What a request under way carries.
LEMMA RequestCases ==
    ASSUME TypeOK, NEW u \in Users
    PROVE  /\ req[u] \in Request
           /\ req[u].pc = "check" <=> req[u] # Idle
           /\ req[u] # Idle => /\ req[u].cal \in Cals /\ req[u].groups \subseteq Groups
                               /\ req[u].rows \subseteq Grant
                               /\ req[u].best \in Levels \cup {"none"}
           /\ Rows(u) \subseteq Grant
  <1>1. req[u] \in Request
    BY DEF TypeOK
  <1>2. CASE req[u] = Idle
    BY <1>1, <1>2 DEF Idle, Rows
  <1>3. CASE req[u] # Idle
    <2>1. req[u] \in [pc : {"check"}, cal : Cals, groups : SUBSET Groups, rows : SUBSET Grant,
                      best : Levels \cup {"none"}]
      BY <1>1, <1>3 DEF Request
    <2> QED
      BY <1>1, <1>3, <2>1 DEF Rows
  <1> QED
    BY <1>2, <1>3

\* History only grows while a request is under way, and covers the present.
LEMMA Observed ==
    ASSUME TypeOK, grants' \subseteq Grant, Observe, NEW u \in Users
    PROVE  /\ held' \in [Users -> SUBSET Grant]
           /\ matched' \in [Users -> SUBSET GrantIds]
           /\ req'[u] # Idle => /\ held[u] \subseteq held'[u]
                                /\ matched[u] \subseteq matched'[u]
                                /\ GrantsOf(req[u].cal)' \subseteq held'[u]
                                /\ Matching(u)' \subseteq matched'[u]
  <1>1. /\ held' = [v \in Users |-> IF req'[v] = Idle THEN {}
                                    ELSE held[v] \cup GrantsOf(req[v].cal)']
        /\ matched' = [v \in Users |-> IF req'[v] = Idle THEN {}
                                       ELSE matched[v] \cup Matching(v)']
    BY DEF Observe
  <1>2. \A v \in Users : GrantsOf(req[v].cal)' \subseteq Grant
    BY DEF GrantsOf
  <1>3. held' \in [Users -> SUBSET Grant]
    BY <1>1, <1>2 DEF TypeOK
  <1>4. \A v \in Users : Holding(v)' \subseteq Grant
    BY <1>2, <1>3 DEF Holding
  <1>5. \A v \in Users : Matching(v)' \subseteq GrantIds
    BY <1>4 DEF Matching, Grant
  <1>6. matched' \in [Users -> SUBSET GrantIds]
    BY <1>1, <1>5 DEF TypeOK
  <1> QED
    BY <1>1, <1>3, <1>6

\* A request that does not move: what it has found stands.
LEMMA KeptRequest ==
    ASSUME TypeOK, grants' \subseteq Grant, Observe, NEW u \in Users, RequestOf(u),
           req'[u] = req[u],
           call'[u] # Waiting => \E g \in Rows(u) : g.of.kind = "contax",
           call'[u].pc = "told" /\ u \in call'[u].members =>
               call'[u] = call[u] \/ RecentMember(u)' \/ call'[u].stale
    PROVE  RequestOf(u)'
  <1>1. Rows(u)' = Rows(u)
    BY DEF Rows
  <1> SUFFICES ASSUME req[u] # Idle
               PROVE  /\ req[u].rows \subseteq held'[u]
                      /\ Matching(u)' \subseteq matched'[u]
                      /\ AdminGroup \notin req[u].groups /\ req[u].best # "none" =>
                            \E h \in held'[u] : h.id \in matched'[u] /\ h.of.level = req[u].best
                      /\ call'[u].pc = "told" /\ u \in call'[u].members =>
                            \A g \in req[u].rows : g.of.kind = "contax" => g.id \in matched'[u]
    BY <1>1 DEF RequestOf
  <1>2. /\ held[u] \subseteq held'[u] /\ matched[u] \subseteq matched'[u]
        /\ Matching(u)' \subseteq matched'[u]
    BY Observed
  <1>3. req[u].rows \subseteq held'[u]
    BY <1>2 DEF RequestOf
  <1>4. AdminGroup \notin req[u].groups /\ req[u].best # "none" =>
            \E h \in held'[u] : h.id \in matched'[u] /\ h.of.level = req[u].best
    BY <1>2 DEF RequestOf
  <1>5. ASSUME call'[u].pc = "told", u \in call'[u].members,
               NEW g \in req[u].rows, g.of.kind = "contax"
        PROVE  g.id \in matched'[u]
    <2>1. CASE call'[u] = call[u]
      BY <1>2, <1>5, <2>1 DEF RequestOf
    <2>2. CASE RecentMember(u)' \/ call'[u].stale
      <3>1. MayMatch(g, u)'
        BY <1>5, <2>2 DEF MayMatch
      <3>2. g.id \in Matching(u)'
        BY <1>3, <3>1 DEF Matching, Holding
      <3> QED
        BY <1>2, <3>2
    <2> QED
      BY <1>5, <2>1, <2>2
  <1> QED
    BY <1>2, <1>3, <1>4, <1>5

\* The level reached is the old one or that of the row that matched.
LEMMA HighestOfTwo ==
    ASSUME NEW b \in Levels \cup {"none"}, NEW l \in Levels
    PROVE  /\ Highest({b, l}) \in {b, l}
           /\ Highest({b, l}) \in Levels
  BY DEF Highest, Levels

\* One row is done; if it counted, it is one that has matched.
LEMMA CheckedRequest ==
    ASSUME TypeOK, grants' \subseteq Grant, Observe, NEW u \in Users, RequestOf(u),
           NEW g \in Rows(u), NEW granted \in BOOLEAN, Checked(u, g, granted),
           granted => g.id \in matched[u],
           call'[u] = Waiting
    PROVE  RequestOf(u)' /\ req' \in [Users -> Request]
  <1>1. req[u] # Idle /\ g \in req[u].rows /\ g \in Grant
    BY RequestCases DEF Rows
  <1> DEFINE best == IF granted THEN Highest({req[u].best, g.of.level}) ELSE req[u].best
             new  == [req[u] EXCEPT !.rows = @ \ {g}, !.best = best]
  <1>2. req[u] \in [pc : {"check"}, cal : Cals, groups : SUBSET Groups, rows : SUBSET Grant,
                    best : Levels \cup {"none"}]
    BY <1>1, RequestCases DEF Request
  <1>3. g.of.level \in Levels
    BY <1>1 DEF Grant, Offer
  <1>4. best \in Levels \cup {"none"} /\ (best = req[u].best \/ (granted /\ best = g.of.level))
    BY <1>2, <1>3, HighestOfTwo
  <1>5. req' = [req EXCEPT ![u] = new]
    BY DEF Checked, Become
  <1> HIDE DEF best
  <1>6. /\ new \in Request /\ new # Idle
        /\ new.rows = req[u].rows \ {g} /\ new.groups = req[u].groups /\ new.best = best
    BY <1>2, <1>4 DEF Request, Idle
  <1> HIDE DEF new
  <1>7. req' \in [Users -> Request] /\ req'[u] = new
    BY <1>5, <1>6 DEF TypeOK
  <1>8. /\ held[u] \subseteq held'[u] /\ matched[u] \subseteq matched'[u]
        /\ Matching(u)' \subseteq matched'[u]
    BY <1>6, <1>7, Observed
  <1>9. AdminGroup \notin new.groups /\ new.best # "none" =>
            \E h \in held'[u] : h.id \in matched'[u] /\ h.of.level = new.best
    BY <1>1, <1>4, <1>6, <1>8 DEF RequestOf
  <1>10. new.rows \subseteq held'[u]
    BY <1>1, <1>6, <1>8 DEF RequestOf
  <1> QED
    BY <1>7, <1>8, <1>9, <1>10 DEF RequestOf, Waiting

\* The rows a request starts with are its calendar's of that moment.
LEMMA BeginRequest ==
    ASSUME TypeOK, grants' \subseteq Grant, Observe, NEW u \in Users, RequestOf(u),
           NEW c \in Cals, Begin(u, c)
    PROVE  RequestOf(u)' /\ req' \in [Users -> Request]
  <1> DEFINE new == [pc |-> "check", cal |-> c, groups |-> osGroups[u],
                     rows |-> IF IsAdmin(u) THEN {} ELSE GrantsOf(c),
                     best |-> IF IsAdmin(u) /\ c \in cals THEN "edit" ELSE "none"]
  <1>1. /\ req[u] = Idle /\ req' = [req EXCEPT ![u] = new]
        /\ call' = call /\ grants' = grants
    BY DEF Begin, Become, membership, tables
  <1>2. new \in Request /\ new # Idle
    BY DEF TypeOK, Request, Idle, Levels, GrantsOf
  <1>3. /\ new.cal = c /\ new.rows \subseteq GrantsOf(c)
        /\ AdminGroup \notin new.groups => new.best = "none"
    BY DEF IsAdmin
  <1> HIDE DEF new
  <1>4. req' \in [Users -> Request] /\ req'[u] = new
    BY <1>1, <1>2 DEF TypeOK
  <1>5. call'[u] = Waiting
    BY <1>1 DEF RequestOf, Rows
  <1>6. GrantsOf(req[u].cal)' = GrantsOf(c)
    BY <1>1, <1>3, <1>4 DEF GrantsOf
  <1>7. new.rows \subseteq held'[u] /\ Matching(u)' \subseteq matched'[u]
    BY <1>2, <1>3, <1>4, <1>6, Observed
  <1> QED
    BY <1>3, <1>4, <1>5, <1>7 DEF RequestOf, Waiting

\* A request that is over leaves no lookup behind.
LEMMA EndRequest ==
    ASSUME TypeOK, NEW u \in Users, RequestOf(u), req[u].rows = {}, req[u].pc = "check",
           Become(u, Idle), UNCHANGED call
    PROVE  RequestOf(u)' /\ req' \in [Users -> Request]
  <1>1. req' \in [Users -> Request] /\ req'[u] = Idle
    BY DEF Become, TypeOK, Request
  <1>2. call'[u] = Waiting
    BY DEF RequestOf, Rows
  <1> QED
    BY <1>1, <1>2 DEF RequestOf


-----------------------------------------------------------------------------
(* The steps *)

\* The parts of the state other than the history, after a step.
After ==
    /\ MembershipTypeOK /\ RecencyInv
    /\ cals \subseteq Cals /\ public \subseteq Cals
    /\ grants \subseteq Grant /\ members \subseteq GrantIds \X Users
    /\ used \subseteq GrantIds
    /\ osGroups \in [Users -> SUBSET Groups]
    /\ req \in [Users -> Request]
    /\ changes \in Nat /\ requests \in Nat
    /\ Consent

LEMMA AfterInv ==
    ASSUME TypeOK, After', Observe, RequestInv'
    PROVE  AccessInv'
  <1>1. \A u \in Users : /\ held' \in [Users -> SUBSET Grant]
                         /\ matched' \in [Users -> SUBSET GrantIds]
    BY Observed DEF After
  <1>2. held' \in [Users -> SUBSET Grant] /\ matched' \in [Users -> SUBSET GrantIds]
    BY <1>1 DEF Observe
  <1> QED
    BY <1>2 DEF AccessInv, After, TypeOK, Consent

LEMMA NowAfter == AccessInv => After
  BY DEF AccessInv, After, TypeOK, Consent

\* A step of the requests of one user, and of nothing else but their lookup.
LEMMA OneRequest ==
    ASSUME AccessInv, Observe, NEW u \in Users, After', RequestOf(u)',
           \A v \in Users \ {u} : req'[v] = req[v] /\ call'[v] = call[v]
    PROVE  AccessInv'
  <1>1. TypeOK /\ grants' \subseteq Grant
    BY DEF AccessInv, After
  <1>2. ASSUME NEW v \in Users \ {u} PROVE RequestOf(v)'
    <2>1. RequestOf(v) /\ req'[v] = req[v] /\ call'[v] = call[v]
      BY <1>2 DEF AccessInv, RequestInv
    <2> QED
      BY <1>1, <2>1, KeptRequest DEF RequestOf
  <1>3. RequestInv'
    BY <1>2 DEF RequestInv
  <1> QED
    BY <1>1, <1>3, AfterInv

\* A step of no request and no lookup.
LEMMA NoRequest ==
    ASSUME AccessInv, Observe, After', UNCHANGED <<req, call>>
    PROVE  AccessInv'
  <1>1. TypeOK /\ grants' \subseteq Grant
    BY DEF AccessInv, After
  <1>2. ASSUME NEW v \in Users PROVE RequestOf(v)'
    <2>1. RequestOf(v) /\ req'[v] = req[v] /\ call'[v] = call[v]
      BY DEF AccessInv, RequestInv
    <2> QED
      BY <1>1, <2>1, KeptRequest DEF RequestOf
  <1>3. RequestInv'
    BY <1>2 DEF RequestInv
  <1> QED
    BY <1>1, <1>3, AfterInv

LEMMA ManageInv ==
    ASSUME AccessInv, Observe, NEW c \in Cals, Manage(c)
    PROVE  AccessInv'
  <1>1. TypeOK /\ Consent /\ RecencyInv
    BY DEF AccessInv, Consent
  <1>2. After' /\ UNCHANGED <<req, call>>
    BY <1>1, ManageTables DEF After, TypeOK, membership, MembershipTypeOK, RecencyInv
  <1> QED
    BY <1>2, NoRequest

LEMMA ChangeGroupsInv ==
    ASSUME AccessInv, Observe, NEW u \in Users, ChangeGroups(u)
    PROVE  AccessInv'
  <1>1. /\ UNCHANGED <<tables, req, requests>> /\ changes' = changes + 1
        /\ \/ /\ \E g \in Groups :
                    osGroups' = [osGroups EXCEPT ![u] = IF g \in @ THEN @ \ {g} ELSE @ \cup {g}]
              /\ UNCHANGED membership
           \/ SetMembers(u) /\ UNCHANGED osGroups
    BY DEF ChangeGroups
  <1>2. osGroups' \in [Users -> SUBSET Groups] /\ changes' \in Nat
    BY <1>1 DEF AccessInv, TypeOK
  <1>3. call' = call /\ MembershipTypeOK' /\ RecencyInv'
    BY <1>1, GroupStep
    DEF SetMembers, membership, AccessInv, TypeOK, MembershipTypeOK, RecencyInv
  <1>4. Consent'
    BY <1>1 DEF tables, AccessInv, Consent, PublicMatchesConsent, NothingOutlivesCalendar,
                GrantsOf
  <1>5. After'
    BY <1>1, <1>2, <1>3, <1>4 DEF After, AccessInv, TypeOK, tables
  <1> QED
    BY <1>1, <1>3, <1>5, NoRequest

\* A step that leaves the tables and groups alone keeps what they promise.
LEMMA TablesStay ==
    ASSUME AccessInv, UNCHANGED <<tables, osGroups>>, changes' \in Nat, requests' \in Nat,
           req' \in [Users -> Request], MembershipTypeOK', RecencyInv'
    PROVE  After'
  <1>1. Consent'
    BY DEF tables, AccessInv, Consent, PublicMatchesConsent, NothingOutlivesCalendar, GrantsOf
  <1> QED
    BY <1>1 DEF After, AccessInv, TypeOK, tables

LEMMA MembershipInv ==
    ASSUME AccessInv, Observe, MembershipStep,
           UNCHANGED <<tables, osGroups, req, changes, requests>>
    PROVE  AccessInv'
  <1> USE DEF AccessInv
  <1>1. MembershipTypeOK /\ RecencyInv /\ TypeOK
    BY DEF TypeOK
  <1>2. CASE Pass
    <2>1. MembershipTypeOK' /\ RecencyInv' /\ call' = call
      BY <1>1, <1>2, GroupStep DEF Pass
    <2>2. After'
      BY <1>1, <2>1, TablesStay DEF TypeOK
    <2> QED
      BY <2>1, <2>2, NoRequest
  <1>3. ASSUME NEW u \in Users, Answer(u) \/ Fetched(u) \/ FetchFails(u) PROVE AccessInv'
    <2>1. /\ MembershipTypeOK' /\ RecencyInv'
          /\ UNCHANGED <<clock, group, lastIn>>
          /\ \A v \in Users \ {u} : call'[v] = call[v]
          /\ call'[u].pc = "told" /\ u \in call'[u].members => RecentMember(u) \/ call'[u].stale
          /\ call[u] = Waiting \/ call[u].pc \in {"asking", "answered"}
      BY <1>1, <1>3, LookupStep
    <2>2. After'
      BY <1>1, <2>1, TablesStay DEF TypeOK
    <2>3. call[u] # Waiting
      <3>1. call[u].pc \in {"asking", "answered"}
        BY <1>3 DEF Answer, Fetched, FetchFails
      <3> QED
        BY <3>1 DEF Waiting
    <2>4. RecentMember(u)' = RecentMember(u)
      BY <2>1 DEF RecentMember
    <2>5. RequestOf(u)
      BY DEF RequestInv
    <2>6. \E g \in Rows(u) : g.of.kind = "contax"
      BY <2>3, <2>5 DEF RequestOf
    <2>7. RequestOf(u)'
      BY <1>1, <2>1, <2>2, <2>4, <2>5, <2>6, KeptRequest DEF After
    <2> QED
      BY <2>1, <2>2, <2>7, OneRequest
  <1> QED
    BY <1>2, <1>3 DEF MembershipStep

LEMMA ServeInv ==
    ASSUME AccessInv, Observe, NEW u \in Users, Serve(u)
    PROVE  AccessInv'
  <1>1. MembershipTypeOK /\ RecencyInv /\ TypeOK /\ RequestOf(u)
    BY DEF AccessInv, TypeOK, RequestInv
  <1>2. \A r : Become(u, r) => \A v \in Users \ {u} : req'[v] = req[v]
    BY <1>1 DEF Become, TypeOK
  <1>3. UNCHANGED membership => MembershipTypeOK' /\ RecencyInv' /\ call' = call
    BY <1>1 DEF membership, MembershipTypeOK, RecencyInv
  <1>4. ASSUME NEW c \in Cals, Begin(u, c) PROVE AccessInv'
    <2>1. /\ UNCHANGED <<membership, tables, osGroups, changes>> /\ requests' = requests + 1
          /\ \A v \in Users \ {u} : req'[v] = req[v]
      BY <1>2, <1>4 DEF Begin
    <2>2. grants' \subseteq Grant
      BY <1>1, <2>1 DEF tables, TypeOK
    <2>3. RequestOf(u)' /\ req' \in [Users -> Request]
      BY <1>1, <1>4, <2>2, BeginRequest
    <2>4. After'
      BY <1>1, <1>3, <2>1, <2>3, TablesStay DEF TypeOK
    <2> QED
      BY <1>3, <2>1, <2>3, <2>4, OneRequest
  <1>5. ASSUME NEW g \in Rows(u), CheckRow(u, g) PROVE AccessInv'
    <2> DEFINE granted == Matches(g, u, req[u].groups)
    <2>1. /\ UNCHANGED <<membership, tables, osGroups, changes, requests>>
          /\ call[u] = Waiting /\ g.of.kind # "contax" /\ Checked(u, g, granted)
      BY <1>5 DEF CheckRow
    <2>2. /\ grants' \subseteq Grant /\ call' = call
          /\ \A v \in Users \ {u} : req'[v] = req[v]
      BY <1>1, <1>2, <1>3, <2>1 DEF tables, TypeOK, Checked
    <2>3. req[u] # Idle /\ g \in req[u].rows /\ g \in Grant
      BY <1>1, RequestCases DEF Rows
    <2>4. g.of.kind \in {"holistic", "adhoc"}
      BY <2>1, <2>3 DEF Grant, Offer, Kinds
    <2>5. granted \in BOOLEAN
      <3>1. CASE g.of.kind = "holistic"
        <4>1. granted = (g.of.ref \in req[u].groups)
          BY <3>1 DEF Matches
        <4> QED
          BY <4>1
      <3>2. CASE g.of.kind = "adhoc"
        <4>1. granted = (<<g.id, u>> \in members)
          BY <3>2 DEF Matches
        <4> QED
          BY <4>1
      <3> QED
        BY <2>4, <3>1, <3>2
    <2>6. granted => g.id \in matched[u]
      <3> SUFFICES ASSUME granted PROVE g.id \in matched[u]
        OBVIOUS
      <3>1. MayMatch(g, u)
        BY <2>3, <2>4 DEF MayMatch, Matches
      <3>2. g \in held[u] /\ Matching(u) \subseteq matched[u]
        BY <1>1, <2>3 DEF RequestOf
      <3> QED
        BY <3>1, <3>2 DEF Matching, Holding
    <2> HIDE DEF granted
    <2>7. RequestOf(u)' /\ req' \in [Users -> Request]
      BY <1>1, <2>1, <2>2, <2>5, <2>6, CheckedRequest
    <2>8. After'
      BY <1>1, <1>3, <2>1, <2>7, TablesStay DEF TypeOK
    <2> QED
      BY <2>2, <2>7, <2>8, OneRequest
  <1>6. ASSUME NEW g \in Rows(u), AskContax(u, g) PROVE AccessInv'
    <2>1. /\ UNCHANGED <<tables, osGroups, req, changes, requests>>
          /\ g.of.kind = "contax" /\ Ask(u)
      BY <1>6 DEF AskContax
    <2>2. /\ MembershipTypeOK' /\ RecencyInv'
          /\ UNCHANGED <<clock, group, lastIn>>
          /\ \A v \in Users \ {u} : call'[v] = call[v]
          /\ call'[u].pc = "told" /\ u \in call'[u].members => RecentMember(u) \/ call'[u].stale
      BY <1>1, <2>1, LookupStep
    <2>3. RecentMember(u)' = RecentMember(u)
      BY <2>2 DEF RecentMember
    <2>4. After'
      BY <1>1, <2>1, <2>2, TablesStay DEF TypeOK
    <2>5. RequestOf(u)'
      BY <1>1, <2>1, <2>2, <2>3, <2>4, KeptRequest DEF After
    <2> QED
      BY <2>1, <2>2, <2>4, <2>5, OneRequest
  <1>7. ASSUME NEW g \in Rows(u), HearContax(u, g) PROVE AccessInv'
    <2> DEFINE granted == u \in call[u].members
    <2>1. /\ UNCHANGED <<clock, group, entry, lastIn, tables, osGroups, changes, requests>>
          /\ g.of.kind = "contax" /\ call[u].pc = "told"
          /\ Checked(u, g, granted)
          /\ call' = [call EXCEPT ![u] = Waiting]
      BY <1>7 DEF HearContax
    <2>2. /\ call' \in [Users -> Call] /\ call'[u] = Waiting
          /\ \A v \in Users \ {u} : call'[v] = call[v]
      BY <1>1, <2>1 DEF MembershipTypeOK, Call
    <2>3. MembershipTypeOK' /\ RecencyInv'
      BY <1>1, <2>1, <2>2 DEF MembershipTypeOK, RecencyInv, Waiting
    <2>4. /\ grants' \subseteq Grant
          /\ \A v \in Users \ {u} : req'[v] = req[v]
      BY <1>1, <1>2, <2>1 DEF tables, TypeOK, Checked
    <2>5. (granted => g.id \in matched[u]) /\ granted \in BOOLEAN
      BY <1>1, <2>1 DEF RequestOf, Rows
    <2> HIDE DEF granted
    <2>6. RequestOf(u)' /\ req' \in [Users -> Request]
      BY <1>1, <2>1, <2>2, <2>4, <2>5, CheckedRequest
    <2>7. After'
      BY <1>1, <2>1, <2>3, <2>6, TablesStay DEF TypeOK
    <2> QED
      BY <2>2, <2>4, <2>6, <2>7, OneRequest
  <1>8. ASSUME NEW need \in Levels, Act(u, need) \/ Refuse(u, need) PROVE AccessInv'
    <2>1. /\ UNCHANGED <<membership, tables, osGroups, changes, requests>>
          /\ req[u].pc = "check" /\ req[u].rows = {} /\ Become(u, Idle)
      BY <1>8 DEF Act, Refuse
    <2>2. RequestOf(u)' /\ req' \in [Users -> Request]
      BY <1>1, <1>3, <2>1, EndRequest
    <2>3. After'
      BY <1>1, <1>3, <2>1, <2>2, TablesStay DEF TypeOK
    <2> QED
      BY <1>2, <1>3, <2>1, <2>2, <2>3, OneRequest
  <1> QED
    BY <1>4, <1>5, <1>6, <1>7, <1>8 DEF Serve

-----------------------------------------------------------------------------
LEMMA AccessInit == Init => AccessInv
  <1> SUFFICES ASSUME Init PROVE AccessInv
    OBVIOUS
  <1>1. TypeOK
    <2>1. MembershipTypeOK
      BY DEF Init, MembershipInit, MembershipTypeOK, Call
    <2> QED
      BY <2>1 DEF Init, TypeOK, Request
  <1>2. RecencyInv
    BY DEF Init, MembershipInit, RecencyInv, Waiting
  <1>3. PublicMatchesConsent /\ NothingOutlivesCalendar
    BY DEF Init, PublicMatchesConsent, NothingOutlivesCalendar, GrantsOf
  <1>4. RequestInv
    BY DEF Init, MembershipInit, RequestInv, RequestOf
  <1> QED
    BY <1>1, <1>2, <1>3, <1>4 DEF AccessInv

\* The inductive invariant of grants, lookups and requests.
THEOREM AccessSafe == Spec => []AccessInv
  <1>1. AccessInv /\ [Next]_vars => AccessInv'
    <2>1. AccessInv /\ Next => AccessInv'
      BY ManageInv, ChangeGroupsInv, ServeInv, MembershipInv DEF Next
    <2>2. ASSUME AccessInv, UNCHANGED vars PROVE AccessInv'
      <3>1. TypeOK' /\ PublicMatchesConsent' /\ NothingOutlivesCalendar' /\ RecencyInv'
        BY <2>2 DEF AccessInv, TypeOK, MembershipTypeOK, PublicMatchesConsent, GrantsOf,
                    NothingOutlivesCalendar, RecencyInv, vars, membership, tables, history
      <3>2. UNCHANGED <<clock, group, call, lastIn, grants, members, osGroups, req, held, matched>>
        BY <2>2 DEF vars, membership, tables, history
      <3>3. ASSUME NEW u \in Users PROVE Rows(u)' = Rows(u) /\ Matching(u)' = Matching(u)
        <4>1. Rows(u)' = Rows(u) /\ Holding(u)' = Holding(u) /\ RecentMember(u)' = RecentMember(u)
          BY <3>2 DEF Rows, Holding, GrantsOf, RecentMember
        <4>2. \A g : MayMatch(g, u)' = MayMatch(g, u)
          BY <3>2, <4>1 DEF MayMatch, Matches
        <4> QED
          BY <4>1, <4>2 DEF Matching
      <3>4. RequestInv'
        BY <2>2, <3>2, <3>3 DEF AccessInv, RequestInv, RequestOf
      <3> QED
        BY <3>1, <3>4 DEF AccessInv
    <2> QED
      BY <2>1, <2>2
  <1> QED
    BY <1>1, AccessInit, PTL DEF Spec

\* Grants, requests, lookups and their history are what their types say.
THEOREM AccessTypeOK == Spec => []TypeOK
  <1>1. AccessInv => TypeOK
    BY DEF AccessInv
  <1> QED
    BY <1>1, AccessSafe, PTL

\* A calendar is public in its own row iff one of its grants consents to externals
\* (refreshPublicTx), over every way a grant comes, changes or goes.
THEOREM AccessPublicMatchesConsent == Spec => []PublicMatchesConsent
  <1>1. AccessInv => PublicMatchesConsent
    BY DEF AccessInv
  <1> QED
    BY <1>1, AccessSafe, PTL

\* A deleted calendar leaves no grant, a removed grant no member (DeleteCalendar,
\* RemoveGrant): an id that is used again starts out private.
THEOREM AccessNothingOutlivesCalendar == Spec => []NothingOutlivesCalendar
  <1>1. AccessInv => NothingOutlivesCalendar
    BY DEF AccessInv
  <1> QED
    BY <1>1, AccessSafe, PTL

\* CalendarsFor and AccessLevel find the same level.
THEOREM AccessListingAgrees == Spec => []ListingAgrees
  <1>1. TypeOK => ListingAgrees
    <2> SUFFICES ASSUME TypeOK, NEW u \in Users, NEW c \in cals
                 PROVE  Listed(u, c) =
                            Highest({g.of.level : g \in {h \in GrantsOf(c) :
                                                            Matches(h, u, osGroups[u])}})
      BY DEF ListingAgrees
    <2> DEFINE match(g) == \/ g.of.kind = "holistic" /\ g.of.ref \in osGroups[u]
                           \/ g.of.kind = "adhoc" /\ <<g.id, u>> \in members
                           \/ g.of.kind = "contax" /\ u \in group
               scans == {g.of.level : g \in {h \in grants : h.of.cal = c /\ h.of.kind = "holistic"
                                                            /\ h.of.ref \in osGroups[u]}}
                        \cup {g.of.level : g \in {h \in grants : h.of.cal = c
                                                     /\ h.of.kind = "adhoc"
                                                     /\ <<h.id, u>> \in members}}
                        \cup {g.of.level : g \in {h \in grants : h.of.cal = c
                                                     /\ h.of.kind = "contax" /\ u \in group}}
    <2>1. \A g \in grants : g.of.kind \in Kinds
      BY DEF TypeOK, Grant, Offer
    <2>2. \A g \in grants : Matches(g, u, osGroups[u]) <=> match(g)
      BY <2>1 DEF Matches, Kinds
    <2>3. {h \in GrantsOf(c) : Matches(h, u, osGroups[u])} = {h \in GrantsOf(c) : match(h)}
      BY <2>2 DEF GrantsOf
    <2>4. scans = {g.of.level : g \in {h \in GrantsOf(c) : match(h)}}
      BY DEF GrantsOf
    <2> QED
      BY <2>3, <2>4 DEF Listed
  <1> QED
    BY <1>1, AccessTypeOK, PTL

\* No lookup that was answered, by contax or from a fresh entry, has in the group
\* someone who left it longer ago than ttl and deadline together (membersOf).
THEOREM AccessStaleAnswersAreRecent == Spec => StaleAnswersAreRecent
  <1> DEFINE A == \A u \in Users :
                      LET answer == call'[u] IN
                      /\ answer.pc = "told" /\ answer # call[u]
                      /\ ~answer.stale
                      /\ u \in answer.members
                      => RecentMember(u)
  <1>1. ASSUME AccessInv, Next PROVE A
    <2> SUFFICES ASSUME NEW u \in Users, call'[u].pc = "told", call'[u] # call[u],
                        ~call'[u].stale, u \in call'[u].members
                 PROVE  RecentMember(u)
      OBVIOUS
    <2>1. MembershipTypeOK /\ RecencyInv
      BY <1>1 DEF AccessInv, TypeOK
    <2>2. ASSUME NEW v \in Users, Ask(v) \/ Answer(v) \/ Fetched(v) \/ FetchFails(v)
          PROVE  RecentMember(u)
      <3>1. u = v
        BY <2>1, <2>2, LookupStep
      <3> QED
        BY <2>1, <2>2, <3>1, LookupStep
    <2>3. ASSUME NEW c \in Cals, Manage(c) PROVE FALSE
      BY <1>1, <2>3, ManageTables DEF AccessInv, Consent, membership
    <2>4. ASSUME NEW v \in Users, ChangeGroups(v) PROVE FALSE
      BY <2>4 DEF ChangeGroups, SetMembers, membership
    <2>5. ASSUME NEW v \in Users, Serve(v) PROVE RecentMember(u)
      <3>1. CASE \E c \in Cals : Begin(v, c)
        BY <3>1 DEF Begin, membership
      <3>2. ASSUME NEW g \in Rows(v), CheckRow(v, g) PROVE FALSE
        BY <3>2 DEF CheckRow, membership
      <3>3. ASSUME NEW g \in Rows(v), AskContax(v, g) PROVE RecentMember(u)
        BY <2>2, <3>3 DEF AskContax
      <3>4. ASSUME NEW g \in Rows(v), HearContax(v, g) PROVE FALSE
        BY <2>1, <3>4 DEF HearContax, MembershipTypeOK, Waiting
      <3>5. CASE \E need \in Levels : Act(v, need) \/ Refuse(v, need)
        BY <3>5 DEF Act, Refuse, membership
      <3> QED
        BY <2>5, <3>1, <3>2, <3>3, <3>4, <3>5 DEF Serve
    <2>6. CASE MembershipStep
      BY <2>2, <2>6 DEF MembershipStep, Pass
    <2> QED
      BY <1>1, <2>3, <2>4, <2>5, <2>6 DEF Next
  <1>2. AccessInv /\ [Next]_vars => [A]_membership
    BY <1>1 DEF vars, membership
  <1> QED
    BY <1>2, AccessSafe, PTL DEF Spec, StaleAnswersAreRecent

\* However its grants change under way, a request acts by one that had the level and
\* matched the user since the request began (resolveOwner, AccessLevel).
THEOREM AccessActsAreGranted == Spec => ActsAreGranted
  <1> DEFINE A == \A u \in Users, need \in Levels :
                      Act(u, need) /\ AdminGroup \notin req[u].groups =>
                          \E h \in held[u] : h.id \in matched[u] /\ Enough(h.of.level, need)
  <1>1. AccessInv => A
    <2> SUFFICES ASSUME AccessInv, NEW u \in Users, NEW need \in Levels, Act(u, need),
                        AdminGroup \notin req[u].groups
                 PROVE  \E h \in held[u] : h.id \in matched[u] /\ Enough(h.of.level, need)
      OBVIOUS
    <2>1. req[u] # Idle /\ Enough(req[u].best, need)
      BY DEF Act, Idle
    <2>2. req[u].best # "none"
      BY <2>1 DEF Enough, Levels
    <2>3. \E h \in held[u] : h.id \in matched[u] /\ h.of.level = req[u].best
      BY <2>1, <2>2 DEF AccessInv, RequestInv, RequestOf
    <2> QED
      BY <2>1, <2>3
  <1>2. AccessInv /\ [Next]_vars => [A]_vars
    BY <1>1
  <1> QED
    BY <1>2, AccessSafe, PTL DEF Spec, ActsAreGranted

=============================================================================
