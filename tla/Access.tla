------------------------------- MODULE Access -------------------------------
(***************************************************************************)
(* Shared calendars: the grants an owner gives (backend/internal/store/    *)
(* grants.go), the two ways the store resolves them (access.go: AccessLevel*)
(* for one calendar, CalendarsFor for the list), and a request of another  *)
(* user, which reads the grants of a calendar, checks them one by one      *)
(* -- asking contax for some, see Membership -- and then acts (resolveOwner*)
(* and its callers in api.go, Serve in caldav.go).  Nothing is locked      *)
(* between those steps.                                                    *)
(***************************************************************************)
EXTENDS Membership, FiniteSets

CONSTANTS
    Cals,           \* calendars of other users, not their "personal" ones
    Groups,         \* OS groups
    AdminGroup,     \* membership in it makes an admin
    GrantIds,       \* the random ids of the grants, one each
    Offers,         \* the grants an owner may make, without their ids
    MaxActs         \* bound on requests and changes of grants, calendars and groups

Levels == {"view", "edit"}
Kinds  == {"holistic", "contax", "adhoc"}

\* ref is an OS group for a holistic grant; None stands for the one contax group.
Offer == {o \in [cal : Cals, kind : Kinds, ref : Groups \cup {None}, level : Levels,
                 ext : BOOLEAN] : (o.ref = None) = (o.kind # "holistic")}
Grant == [id : GrantIds, of : Offer]

ASSUME AccessAssumption ==
    /\ AdminGroup \in Groups
    /\ Offers \subseteq Offer
    /\ MaxActs \in Nat

VARIABLES
    cals,       \* the calendars that exist
    public,     \* those whose row has public set
    grants,     \* table cal_grants
    members,    \* table cal_grant_members
    osGroups,   \* per user, their OS groups
    used,       \* ids of all grants ever made
    req,        \* per user, the request under way
    held,       \* history: per user, the grants the requested calendar has had, as they
                \* were, since the request began
    matched,    \* history: the ids of those that matched the user at some moment since
    changes,    \* changes so far, and ...
    requests    \* ... requests so far: at most MaxActs in all

tables  == <<cals, public, grants, members, used>>
history == <<held, matched>>
vars    == <<membership, tables, osGroups, req, history, changes, requests>>

Idle    == [pc |-> "idle"]
Request == {Idle} \cup [pc : {"check"}, cal : Cals, groups : SUBSET Groups, rows : SUBSET Grant,
                        best : Levels \cup {"none"}]

TypeOK ==
    /\ MembershipTypeOK
    /\ cals \subseteq Cals /\ public \subseteq Cals
    /\ grants \subseteq Grant
    /\ members \subseteq GrantIds \X Users
    /\ osGroups \in [Users -> SUBSET Groups]
    /\ used \subseteq GrantIds
    /\ req \in [Users -> Request]
    /\ held \in [Users -> SUBSET Grant]
    /\ matched \in [Users -> SUBSET GrantIds]
    /\ changes \in Nat /\ requests \in Nat

Init ==
    /\ MembershipInit
    /\ cals = Cals /\ public = {}
    /\ grants = {} /\ members = {} /\ used = {}
    /\ osGroups = [u \in Users |-> {}]
    /\ req = [u \in Users |-> Idle]
    /\ held = [u \in Users |-> {}]
    /\ matched = [u \in Users |-> {}]
    /\ changes = 0 /\ requests = 0

-----------------------------------------------------------------------------
(* Grants: one transaction each, under Store.mu *)

Change ==
    /\ changes + requests < MaxActs
    /\ changes' = changes + 1
    /\ UNCHANGED <<membership, osGroups, req, requests>>

GrantsOf(c) == {g \in grants : g.of.cal = c}

\* MUTANT of RefreshPublic: the flag is only ever raised.
RefreshPublicUp(c) ==
    public' = IF \E g \in grants' : g.of.cal = c /\ g.of.ext THEN public \cup {c} ELSE public

\* refreshPublicTx: the calendar is public iff a grant of it consents to externals.
RefreshPublic(c) ==
    public' = IF \E g \in grants' : g.of.cal = c /\ g.of.ext
              THEN public \cup {c} ELSE public \ {c}

\* Member rows are only written here for an ad-hoc grant.
AddGrant(id, o, names) ==
    /\ Change
    /\ o.cal \in cals
    /\ id \notin used
    /\ grants' = grants \cup {[id |-> id, of |-> o]}
    /\ members' = IF o.kind = "adhoc" THEN members \cup ({id} \X names) ELSE members
    /\ used' = used \cup {id}
    /\ RefreshPublic(o.cal)
    /\ UNCHANGED cals

\* names holds the set that replaces the members, or nothing (no members in the
\* request).  The grant's kind is not looked at.
SetGrant(c, id, level, ext, names) ==
    /\ Change
    /\ \E g \in GrantsOf(c) :
          /\ g.id = id
          /\ grants' = (grants \ {g}) \cup {[g EXCEPT !.of.level = level, !.of.ext = ext]}
    /\ members' = IF names = {} THEN members
                  ELSE {m \in members : m[1] # id} \cup ({id} \X UNION names)
    /\ RefreshPublic(c)
    /\ UNCHANGED <<cals, used>>

\* The members go first; a grant that is not the calendar's rolls all of it back.
RemoveGrant(c, id) ==
    /\ Change
    /\ \E g \in GrantsOf(c) : g.id = id
    /\ members' = {m \in members : m[1] # id}
    /\ grants' = {g \in grants : ~(g.of.cal = c /\ g.id = id)}
    /\ RefreshPublic(c)
    /\ UNCHANGED <<cals, used>>

\* MUTANT of DeleteCalendar: the grants stay.
DeleteCalendarKeepsGrants(c) ==
    /\ Change
    /\ c \in cals
    /\ cals' = cals \ {c}
    /\ public' = public \ {c}
    /\ UNCHANGED <<grants, members, used>>

\* One transaction removes the row, its grants and their members.
DeleteCalendar(c) ==
    /\ Change
    /\ c \in cals
    /\ cals' = cals \ {c}
    /\ public' = public \ {c}
    /\ grants' = grants \ GrantsOf(c)
    /\ members' = {m \in members : \A g \in GrantsOf(c) : m[1] # g.id}
    /\ UNCHANGED used

\* MKCALENDAR with the id of an earlier calendar: a fresh row, not public.
CreateCalendar(c) ==
    /\ Change
    /\ c \notin cals
    /\ cals' = cals \cup {c}
    /\ UNCHANGED <<public, grants, members, used>>

\* Everything an owner can do to the sharing of calendar c.
Manage(c) ==
    \/ \E o \in Offers, id \in GrantIds, names \in SUBSET Users :
          o.cal = c /\ AddGrant(id, o, names)
    \/ \E id \in used, level \in Levels, ext \in BOOLEAN :
          \/ SetGrant(c, id, level, ext, {})
          \/ \E names \in SUBSET Users : SetGrant(c, id, level, ext, {names})
    \/ \E id \in used : RemoveGrant(c, id)
    \/ DeleteCalendar(c)
    \/ CreateCalendar(c)

\* An OS group, or the contax group, gains or loses a member.
ChangeGroups(u) ==
    /\ changes + requests < MaxActs
    /\ changes' = changes + 1
    /\ \/ /\ \E g \in Groups :
                osGroups' = [osGroups EXCEPT ![u] = IF g \in @ THEN @ \ {g} ELSE @ \cup {g}]
          /\ UNCHANGED membership
       \/ SetMembers(u) /\ UNCHANGED osGroups
    /\ UNCHANGED <<tables, req, requests>>

-----------------------------------------------------------------------------
(* What access a user has, in one state *)

IsAdmin(u) == AdminGroup \in osGroups[u]

Highest(levels) == IF "edit" \in levels THEN "edit" ELSE IF "view" \in levels THEN "view" ELSE "none"

Enough(best, need) == best = "edit" \/ best = need

\* A grant's match, by kind; the groups are those of the request's authentication.
Matches(g, u, groups) ==
    CASE g.of.kind = "holistic" -> g.of.ref \in groups
      [] g.of.kind = "adhoc"    -> <<g.id, u>> \in members
      [] g.of.kind = "contax"   -> u \in group

\* MUTANT of Listed: member rows are joined with grants of every kind.
ListedAnyKind(u, c) ==
    Highest({g.of.level : g \in
        {h \in grants : h.of.cal = c /\ \/ h.of.kind = "holistic" /\ h.of.ref \in osGroups[u]
                                        \/ <<h.id, u>> \in members
                                        \/ h.of.kind = "contax" /\ u \in group}})

\* CalendarsFor: three scans by who the user is, the highest level of each calendar.
Listed(u, c) ==
    Highest(
        {g.of.level : g \in {h \in grants : h.of.cal = c /\ h.of.kind = "holistic"
                                            /\ h.of.ref \in osGroups[u]}}
        \cup {g.of.level : g \in {h \in grants : h.of.cal = c /\ h.of.kind = "adhoc"
                                                 /\ <<h.id, u>> \in members}}
        \cup {g.of.level : g \in {h \in grants : h.of.cal = c /\ h.of.kind = "contax"
                                                 /\ u \in group}})

-----------------------------------------------------------------------------
(* A request, which resolves its access step by step *)

Become(u, r) == req' = [req EXCEPT ![u] = r]

\* The grants a request still has to check.
Rows(u) == IF req[u] = Idle THEN {} ELSE req[u].rows

\* Authentication reads the user's OS groups; then AccessLevel reads the grants of
\* the calendar, unless the user is an admin.
Begin(u, c) ==
    /\ req[u] = Idle
    /\ changes + requests < MaxActs
    /\ requests' = requests + 1
    /\ Become(u, [pc |-> "check", cal |-> c, groups |-> osGroups[u],
                  rows |-> IF IsAdmin(u) THEN {} ELSE GrantsOf(c),
                  best |-> IF IsAdmin(u) /\ c \in cals THEN "edit" ELSE "none"])
    /\ UNCHANGED <<membership, tables, osGroups, changes>>

\* One row is done: it counts if it matched.
Checked(u, g, granted) ==
    Become(u, [req[u] EXCEPT !.rows = @ \ {g},
                             !.best = IF granted THEN Highest({@, g.of.level}) ELSE @])

CheckRow(u, g) ==
    /\ g \in Rows(u)
    /\ g.of.kind # "contax"
    /\ call[u] = Waiting
    /\ Checked(u, g, Matches(g, u, req[u].groups))
    /\ UNCHANGED <<membership, tables, osGroups, changes, requests>>

AskContax(u, g) ==
    /\ g \in Rows(u)
    /\ g.of.kind = "contax"
    /\ Ask(u)
    /\ UNCHANGED <<tables, osGroups, req, changes, requests>>

HearContax(u, g) ==
    /\ g \in Rows(u)
    /\ g.of.kind = "contax"
    /\ call[u].pc = "told"
    /\ Checked(u, g, u \in call[u].members)
    /\ call' = [call EXCEPT ![u] = Waiting]
    /\ UNCHANGED <<clock, group, entry, lastIn, tables, osGroups, changes, requests>>

\* MUTANT of Act: a view grant is enough to edit.
ActOnView(u, need) ==
    /\ req[u].pc = "check"
    /\ req[u].rows = {}
    /\ req[u].best # "none"
    /\ Become(u, Idle)
    /\ UNCHANGED <<membership, tables, osGroups, changes, requests>>

\* The handler goes on to what was asked for ...
Act(u, need) ==
    /\ req[u].pc = "check"
    /\ req[u].rows = {}
    /\ Enough(req[u].best, need)
    /\ Become(u, Idle)
    /\ UNCHANGED <<membership, tables, osGroups, changes, requests>>

\* ... or answers 403 or 404.
Refuse(u, need) ==
    /\ req[u].pc = "check"
    /\ req[u].rows = {}
    /\ ~Enough(req[u].best, need)
    /\ Become(u, Idle)
    /\ UNCHANGED <<membership, tables, osGroups, changes, requests>>

Serve(u) ==
    \/ \E c \in Cals : Begin(u, c)
    \/ \E g \in Rows(u) : CheckRow(u, g) \/ AskContax(u, g) \/ HearContax(u, g)
    \/ \E need \in Levels : Act(u, need) \/ Refuse(u, need)

-----------------------------------------------------------------------------
\* A grant that gives u something now, or could by an answer the cache may still hold;
\* after a fetch that failed the ttl bounds nothing.
MayMatch(g, u) ==
    \/ Matches(g, u, osGroups[u] \cup (IF req[u] = Idle THEN {} ELSE req[u].groups))
    \/ g.of.kind = "contax" /\ (RecentMember(u) \/ (call[u].pc = "told" /\ call[u].stale))

\* What a request may rest on: the grants its calendar has had since it began, and
\* those of them that match its user.
Holding(u)  == held[u] \cup GrantsOf(req[u].cal)
Matching(u) == {h.id : h \in {g \in Holding(u) : MayMatch(g, u)}}

\* History, kept from the beginning of a request to its end.
Observe ==
    /\ held' = [u \in Users |-> IF req'[u] = Idle THEN {} ELSE held[u] \cup GrantsOf(req[u].cal)']
    /\ matched' = [u \in Users |-> IF req'[u] = Idle THEN {} ELSE matched[u] \cup Matching(u)']

Next ==
    /\ \/ \E c \in Cals : Manage(c)
       \/ \E u \in Users : ChangeGroups(u) \/ Serve(u)
       \/ MembershipStep /\ UNCHANGED <<tables, osGroups, req, changes, requests>>
    /\ Observe

Spec == Init /\ [][Next]_vars

-----------------------------------------------------------------------------
(* Properties *)

\* refreshPublicTx's comment: "there is no committed state in which a grant exists but
\* the flag disagrees", over every way a grant comes, changes or goes.
PublicMatchesConsent ==
    public = {c \in cals : \E g \in GrantsOf(c) : g.of.ext}

\* No grant is left of a deleted calendar and no member of a removed grant, so that a
\* calendar created again under the same id starts out private.
NothingOutlivesCalendar ==
    /\ \A g \in grants : g.of.cal \in cals
    /\ \A m \in members : \E g \in grants : g.id = m[1]

\* The list of shared calendars and the check of a single one, two separate pieces of
\* code, agree for everyone but admins (who may open what they are not shown).
ListingAgrees ==
    \A u \in Users, c \in cals :
        Listed(u, c) = Highest({g.of.level : g \in {h \in GrantsOf(c) : Matches(h, u, osGroups[u])}})

\* Whatever changes while a request resolves its access, it only acts by a grant that
\* had the level, and that matched the user, at some moment since the request began
\* (or, for a contax group, as recently as a cached answer can tell).
ActsAreGranted ==
    [][\A u \in Users, need \in Levels :
          Act(u, need) /\ AdminGroup \notin req[u].groups =>
              \E h \in held[u] : h.id \in matched[u] /\ Enough(h.of.level, need)]_vars

\* What makes it inductive: the rows left to check were the calendar's since the
\* request began, the level reached so far is that of one that matched, and a lookup
\* under way is for a row left to check; when its answer has the user in the group, all
\* contax rows have matched.
RequestOf(u) ==
    /\ call[u] # Waiting => \E g \in Rows(u) : g.of.kind = "contax"
    /\ req[u] # Idle =>
          /\ req[u].rows \subseteq held[u]
          /\ Matching(u) \subseteq matched[u]
          /\ AdminGroup \notin req[u].groups /\ req[u].best # "none" =>
                \E h \in held[u] : h.id \in matched[u] /\ h.of.level = req[u].best
          /\ call[u].pc = "told" /\ u \in call[u].members =>
                \A g \in req[u].rows : g.of.kind = "contax" => g.id \in matched[u]

RequestInv == \A u \in Users : RequestOf(u)

AccessInv ==
    /\ TypeOK
    /\ PublicMatchesConsent
    /\ NothingOutlivesCalendar
    /\ RecencyInv
    /\ RequestInv
=============================================================================
