# icaly in TLA+

This directory models icaly, the calendar daemon in `../src/backend` (Go), in TLA+. It
holds the specifications, TLC configurations that check them on small instances, and
proofs, checked by TLAPS, that hold for every value of the constants. `PROJECT.json` maps
each definition to the source lines it models and lists the runs, mutants, hazards and
findings.

    tlasany Store.tla                                  # parse
    tlc -workers 2 -config StoreCrash.cfg Store.tla    # model-check
    tlapm StoreProofs.tla                              # check the proofs of a module

## 1. The system

| Component | State | Operations | Interacts with |
|---|---|---|---|
| Store (`store/store.go`) | `.ics` files (the truth), SQLite index (`calendars`, `events`, `changelog`), one mutex | PutEvent, PutRaw, DeleteEvent, DeleteRaw, create and delete a calendar, Compact, reconcile at start | emits each committed change to the hub; everything reads and writes through it |
| WebDAV-Sync (`caldav/caldav.go`) | sync token = ctag, floor `min_valid_seq` | sync-collection, PUT, DELETE, MKCALENDAR, PROPFIND, reports | store; access |
| Push hub and SSE stream (`push/push.go`, `api.go` stream) | a set of subscribers, a channel of 64 each | Publish, Subscribe, hello, replay, forward | store's change log; the browser's EventSource |
| Recurrence (`ical/ical.go`) | none: functions of one `.ics` body | expand, override, exclude, truncate, replace the master, rebase a tail's rule | scoped edits, listing, reminders |
| Scoped edits (`api.go`, `editSeries`) | requests under way | edit or delete this / this and following / all | store, recurrence, scheduling |
| Scheduling (`scheduling/scheduling.go`) | a copy of the event per participant; mail under way | organizer save, cancel, RSVP, inbound iMIP | store, once per copy, with no lock over two of them; maild |
| Sharing (`store/grants.go`, `store/access.go`) | `cal_grants`, `cal_grant_members`, `calendars.public` | add, change, remove a grant; AccessLevel; CalendarsFor | contax, OS groups; every request and the stream's snapshot |
| Contax client (`contax/contax.go`) | a cache of group members | ContaxMember | contax over HTTP |
| Reminder loop (`reminder/reminder.go`) | the window `(last, now]` | scan, emit, retry | store; notify service |
| App passwords, throttle, rate limit (`apppass`, `api.go`) | a JSON file per user; two in-memory maps | create, verify, delete; fail, ok, allow | DAV authentication |
| Place search (`geocode/geocode.go`) | two caches, a daily budget | Suggest, Resolve | Photon, Google |
| iMIP, notify, auth, instance, rights, event | none | conversions and checks | |
| UI (`../src/ui`), service script | views; installation | | HTTP, EventSource |

What is hard about each, and what makes it correct:

* **Store.** A mutation changes a file and then the index; a crash or a failed transaction
  falls between. Correct: after any restart the index says what the readable files say,
  nothing that was published is undone, and the log with its floor never describes
  anything but the index. Compaction works by wall-clock time, the log by sequence
  number, and the clock may step back.
* **WebDAV-Sync.** A token that is too old must be refused, one that is not must yield the
  exact collection.
* **Stream.** Replay and live frames come from two sources; a change must not fall between
  them. Access is a snapshot. Channels are bounded and drop. Clients reconnect with the id
  of the last frame they saw.
* **Recurrence and scoped edits.** Read, transform, write back with If-Match, four times
  at most; several editors; edits made on a view that is no longer true.
* **Scheduling.** Several copies, no transaction over them, each written from an earlier
  read; mail that is lost, repeated and reordered.
* **Sharing.** Grants change while a request resolves them; part of the answer comes from a
  cache of another service's data, whose lookups overlap.
* **Reminders.** A scan that fails must be repeated, what is not repeated must not fall into
  two windows, and windows must join without a gap through missed ticks and clock changes.
* **Gates.** A file read outside the lock, an upstream call outside the lock, a clock read
  outside the lock; maps that are swept when they grow.

## 2. The modules

    Store ── DavSync ──INSTANCE── Replica          Recurrence ── Series ─┬─ MCSeries ── SeriesClaims
      │         └── DavObjects ── DavProofs                              └─ SeriesProofs
      └── StoreProofs                              Scheduling ─┬─ MCScheduling
                                                               └─ SchedulingProofs
                                                   Membership ── Access ─┬─ MCAccess
                                                                         └─ AccessProofs
    Limits ─┬─ AppPasswords ─┬─ Gates ─┬─ MCGates  Stream ─┬─ MCStream ── StreamHello
            └─ PlaceSearch ──┘         └─ GatesProofs      └─ StreamProofs
                                                   Reminder ─┬─ MCReminder
                                                             └─ ReminderProofs

`DavProofs` is about DavSync and DavObjects and uses the lemmas of `StoreProofs`.

**Store.** One variable per table column that matters (`cals`, `ctag`, `minValid`,
`events`, `changelog`, `lastSeq`), the files (`disk`, `dirs`), the mutation that holds
the mutex between its file step and its transaction (`busy`), and the daemon's phase. A
body is a model value and its ETag is itself. `PutEvent`, `PutRaw`, `DeleteEvent`,
`DeleteRaw` and `DeleteCalendar` take the lock and do the first of their two steps;
`IndexUpsert`, `IndexDelete`, `IndexDeleteNothing`, `RemoveAll` do the second; `IndexFails`
and `RemoveAllFails` are the error paths. `Open`, `ReconcileFile`, `ReconcileRow`, `Serve`
are a start; `OpenBlind` is one that finds directories it cannot list and files it cannot
read (`blind`): the former are passed over with the rows they have, the latter are listed,
skipped and tombstoned, as `reconcile` does (`Listed`, `Unread`). Provisioning is two steps:
`EnsureHome` is the look without the lock, `lookers` the users with a request between it and
the lock, and `EnsureHomeLocked` the second look and the insert. `Crash`, `EditFile`,
`RemoveDir` come from outside; a clean stop is a `Crash` with no mutation half way. Two
history variables: `dirty`, where a fault or a blind start left row and file apart, and
`promised`, what clients may expect a file to hold.

**DavSync** adds a client (`token`, `view`) to it. `SyncCollection` is one step because the
code holds the mutex throughout. A history variable names the copies that outlived their
calendar. **Replica** is the promise with no log: a copy is replaced by the exact
collection, or dropped. `ReplicaSpec` is the refinement, by the mapping
`members <- cals, collection <- events`.

**DavObjects** adds what a report reads after the snapshot: the bodies, file by file and
without the lock (`RawEvent`), while the store goes on. A report under way is `fetch`; the
bodies a client holds are `body`, beside the tags in `view`. Reports that do not arrive
leave both sides as they were and are left out, and with them the daemon's crash during
one. A history variable, `torn`, holds the resources a fault left with a file that is not
what their row says, as `dirty` does in Store, but not longer than until the next row: a
resource in it may show a body that no row will ever announce.

**Stream.** The change log as a sequence of calendars, the hub's registration, the
handler's phases (`access`, `subscribed`, `replaying`, `live`), the channel, the frames on
the wire and the client's `lastId`. Commit and publish are two steps, as the writer emits
after its commit. The handler's three queries may fail: without the list of calendars nothing
shared is told, `MaxSeq`'s error leaves the hello without a position, `ChangesSince`'s skips
the replay. Two history variables, `joined` and
`replayed`, say where the log was at the hello and whether the replay took place. What a replay reads, the rows after a position in their order, is given
as the sequences of that length that ascend and have those members: there is one. **StreamHello** adds where the client started.

**Recurrence** is operators only: a rule is a start, a period, and at most one COUNT and
UNTIL; `Generated` stands for rrule-go. **Series** is the requests of several editors over
`editSeries`: what a client saw, what the handler read, what it writes back. The row and
the file are kept apart since PutRaw checks its If-Match against the row. `SaveFollowing`
reads the series for `SeriesTailRule`; `SaveUnread` is the same save when that read fails,
whose new series keeps the payload's rule.
**SeriesClaims** states what comments claim of the deletions of two clients.

**Scheduling.** One copy per account, reduced to organizer, version, part-stats, deleted
and customised occurrences; the event is single or a series, which the initial state
chooses. Every handler is its reads and its writes as separate steps. Everybody may edit
and delete their copy; `IsOrganizer` decides, by the stored copy, whether the others hear
of it. `ReadStored` is GetEvent with its error dropped (`prev, _, _ :=`), so that an
unreadable event is one that is not there. A save of a single event begins with an editor
that was opened on a copy, which may be gone when the save arrives; a save of an
occurrence of a series that is gone ends with an error. A save carries the client's
statuses for the attendees (`Payloads`); `MergePartStats` keeps an answer it finds there and
takes the stored one otherwise. Nothing in the handlers orders the requests of one account:
besides the one that takes steps (`req`) an account may have another that waits (`parked`),
and `Switch` lets them take turns at any point. History variables: `lost` (a copy
was written back that had changed since it was read, or a fault swallowed a write), `left`
and `apart` (who no longer holds what was delivered), `revived` (an attendee saved an
event that was not found), `overlapped` (an account had two requests at once), `said` and
`last` (the answers attendees gave), `asserted` (those that payloads gave for them).

**Membership** is the contax client: clock, the true group, the cache entry, a lookup per
user. **Access** extends it with the grant tables and the requests, which read the grants
of a calendar at once and check them one by one, as AccessLevel does. The owner of a
calendar and its grants are not modelled as users: an owner's own requests pass
unchecked. Two history variables record what a request may rest on.

**Limits** is the throttle and the rate limiter of `api.go` as functions of their maps and
the clock. **AppPasswords** is the password file, Create and Delete as load and save under
the lock, and the requests in authDav: blocked or not, Verify's unlocked read, then the
look at the account and the throttle's verdict. What a request may rest on is collected
while it runs (`ev`). **PlaceSearch** is the two caches, the daily budget and the lookups,
whose upstream calls overlap. A lookup reads the clock when it asks (`Ask`) and enters the
limiter with that reading later (`Enter`), since `allow` takes its lock after
`time.Now()`; so timestamps need not ascend, and the sweep, which looks at the last one,
may forget newer ones. **Gates** composes the two in one process: one clock, and a
restart that empties everything but the file. `admitted` is the history of admissions, with
the reading each was made with and whether it was `late`.

**Reminder.** Time in ticks, with a wall and a monotonic reading, since windows are
compared by one and retries timed by the other (Go's `Sub` uses the monotonic reading).
`Dedupe` is the key of a notification, with the trigger's text and the action but without
what the trigger is related to; `sent` is what the notify service remembers of the keys,
and `Forget` the end of its retention. `timely`, `excused`, `raised`, `again`, `reached`,
`handled` are history.

## 3. The runs

| Run | Shows | Bounds |
|---|---|---|
| `store_crash` | index, log, floor, ctag and files stay consistent through crashes, failures and compaction; every restart heals | 1 user, 2 calendars (one provisioned, one that comes and goes), 1 resource, 2 readable bodies and an unreadable one, 2 sequence numbers, 3 faults, a clock of two readings further apart than the retention |
| `dav_sync` | no silent gap; refinement of Replica; stale bodies are reported again | 2 calendars, 2 resources, 1 body, 2 sequence numbers, 2 faults |
| `stream` | no gap between replay and live; access filter; delivery | 3 calendars (own, shared, not shared, the last two of one owner), channel of 1, 2 changes, 3 connections, 1 failed query |
| `series` | edits atomic, splits exact, expansion complete, overrides survive, requests end | 2 editors, 3 edits, 2 attempts, 1 fault, times 0..5, period 2, moves to one other start |
| `scheduling` | answers stay with who gave them; only the organizer's edits go out; copies and answers converge | 2 internal attendees, 1 external, a single event or a series with 1 occurrence told apart, 3 edits, replies, faults, second requests or answers in payloads together (1 of the last), by anybody |
| `access` | public flag, deletion, the two resolvers, check-then-act, cache staleness | 2 calendars, 2 users, 2 grant ids, 3 offers (one of each kind), 4 changes or requests, clock 0..2, ttl and timeout 1 |
| `reminder` | none missed, none in two windows, retries bounded | 3 alarms in 2 calendars, two of them with one key, 2 starts, 4 ticks, 2 edits, 2 faults, a retry limit of 1 tick |
| `gates` | verdicts on app passwords are honest; budget and rate hold | 2 clients, 2 addresses, 2 app passwords, 2 accounts, a query and a place id, 2 lookups at a time, 4 requests, 1 fault, lockout from the second rejection, a rate of 2 in 2 ticks, budget 1 per 2 ticks, 3 ticks; the throttle sweeps a map of more than one key, the limiter sweeps on every use |
| `dav_stale_token`, `stream_hello`, `series_deletions`, `scheduling_overrides` | a counterexample to one documented claim each, see section 6 | |

The bounds are the smallest in which every mechanism meets its opponent: a sequence
number to trim, one to keep and one to come; a fault to break something and a fault to
break its recovery; a channel that is full with one frame; two editors and one edit more;
a lookup that starts before and ends after another. Each property has a mutant: a
plausible bug in a modelled definition that violates it under the run's own bounds, so
the bounds do reach the cases that matter. Symmetry is used only in runs without liveness,
over attendees (`scheduling`), users and grant ids (`access`), accounts, addresses,
clients, passwords and lookups (`gates`), which no definition orders. `DavObjects` needs
two resources, since the last body of a report is always read after the others; it has one
body to give them, and has been checked with one resource, two bodies, three sequence
numbers and two faults as well. The throttle sweeps beyond one key because a sweep at every
rejection would forget every count below the lockout. Three faults in `store_crash` are enough
for a start that cannot read a file between two crashes. The bounds keep each run to a minute or two (the largest, `scheduling`, has 2.9 million distinct
states, `dav_sync` 1.9 million, `store_crash` 0.7 million).
The inductive invariants of section 5 were checked by TLC on these instances before they
were proved.

**Deadlock.** Store, DavSync and Stream never stop, and TLC checks that they do not. In
Series, Scheduling, Access, Reminder and Gates everything that can happen is bounded, so they do
stop when the bounds are used up, and Series when the series is deleted:
`CHECK_DEADLOCK FALSE` there.

**Fairness.** `FairSpec` of Store assumes that a daemon that is down is started again and
that a start goes on: systemd's `Restart=on-failure` (`../src/service:144`) and a
sequential `Open`. Faults are bounded, so some start is not interrupted. Stream assumes
that a running handler, the publishing writer and a standing connection go on; not that
clients connect or that connections last. Series assumes that a running request goes on.
All are weak: nothing here waits for a lock that could be taken away over and over, since
a step that is enabled stays enabled until taken or its request ends. Users are never
assumed to do anything.

## 4. The properties

Store: `LogDescribesIndex`, `TagCoversLog`, `IndexTracksDisk`, `PublishedIsDurable` (the
order "file first, then index" on writes and on deletes is what makes it true),
`CTagTracksIndex`, `RestartHeals`. Sync: `NoSilentGap`, `ReplicaSpec`.
Objects: `StaleBodiesAreFlagged`. Stream: `NoGapBetweenReplayAndLive`, `OnlyAccessible`, `ChannelDrains`. Series:
`EditsAreAtomic`, `OverridesSurvive`, `SplitIsExact`, `ExpandIsComplete`, `EditEnds`.
Scheduling: `NobodyAnswersForAnother`, `AuthorityHolds`, `CopiesConverge`, `RepliesKept`;
under conditions that follow below. Access:
`PublicMatchesConsent`, `NothingOutlivesCalendar`, `ListingAgrees`, `ActsAreGranted`,
`StaleAnswersAreRecent`. Reminder: `NoneMissed`, `RaisedOnce`, `RetriesAreBounded`. Gates: `VerdictsAreHonest`,
`CeilingsHold`. Each is
stated in prose above its definition.

`IndexTracksDisk` excepts what a fault or a start left apart: a slot whose transaction failed,
files of a calendar whose directory was not removed, and what the last start could not list,
read or decode. `PublishedIsDurable` has one way back from a published tombstone: a start
that cannot read a file publishes it as deleted and leaves it, and a later start publishes
it again (section 6). `RestartHeals` says that a start ends, with the index equal to the
files that could be read, and with no row for those that are not there or could not be.

`NoGapBetweenReplayAndLive` is about the user's own calendars and the rows the change-log
still has; changes of shared calendars are not replayed at all. After a replay nothing is
missing from the position resumed from; on a first connect, or when the replay's query
failed, nothing from the log's position at the hello. It does not ask for an order of frames
beyond that: a change committed between subscription and replay is sent by both.

`SplitIsExact` is about splits whose tail was read from the series that is then cut and
whose start was not moved. It counts repetitions of the rule, and says by how much the new
series is too long when EXDATEs had hidden some before the cut. `ExpandIsComplete` bounds
what a window shows from both sides: at least the instances that start in it, at most those
and the ones that were moved out of it or start at its end.

The four properties of Scheduling rest on different conditions, each a thing the code does
not prevent. `NobodyAnswersForAnother` holds always: a copy shows an attendee's answer only
if they gave it, or if a payload of the copy's owner or of the organizer had it; once
somebody revived the event, any payload counts. `AuthorityHolds` and the other two hold
unless an attendee saved an event that was not found (`revived`): the code then takes them
for the organizer of a new one. `CopiesConverge` and `RepliesKept` also ask that no copy was
written back that had changed since it was read and no write failed (`lost`), and that no
account had two requests under way at once (`overlapped`). Without the last, TLC finds
`CopiesConverge` violated: of two saves of the organizer the older may be delivered last,
or a cancellation overtaken by a delivery. `RepliesKept` leaves out the attendees that some
payload answered for (`SpokenFor`): the payload's answer replaces the one they gave.
Requests of different accounts overlap in all four.

`NoneMissed` asks that a notification was raised under the alarm's key, not for the alarm's
own: of two alarms with one key the service drops the second. `RaisedOnce` is about the
loop: an alarm whose key the service has forgotten is raised again only by a window that
reaches back behind an earlier one, which is a second try or follows a clock that was set
back. Elsewhere the windows alone keep an alarm from firing twice.

`StaleBodiesAreFlagged` says why sending a newer body with an older tag is harmless as far
as it is: whatever made the body differ has a log row after the token the report handed
out, or is about to. It would not be if the token were taken when the report ends. Excepted
is a file that differs from its row for a fault (`torn`): nobody is told of it until the
row is written again.

`VerdictsAreHonest` allows a request whatever was true at some moment of it. That is what
the unlocked read needs: it relies on the file being replaced by rename, and on Create and
Delete never starting from a list they could not read. `CeilingsHold` counts a call on the
day it was charged; an upstream call may begin after midnight on the budget of the day
before. Its other half, the rate, is about stretches of admissions of which none but the
first was late, that is, had read the clock before a request that entered ahead of it. The
wall clock only moves forward in Limits: set back over midnight it would grant
the budget of a day again, as a restart does, which the property admits.

`ActsAreGranted` is the strongest that holds: a request may act by a grant that has been
taken back since it began. It may even combine a level from before a change with a
membership from after it, as AccessLevel reads the grants at one moment and the members
at later ones; the property therefore asks that the grant had the level and that it
matched, each at some moment since the request began.

## 5. The proofs

Eight modules of proofs, one per specification with state (DavSync and DavObjects share
theirs); every safety property that a passing run checks is proved. Every theorem holds
for any values of the constants that satisfy the module's assumption: any users, calendars
and bodies, any clock readings, capacities, limits and bounds. Each module proves the
inductive invariant that ends its specification (`...Safe`) by one lemma per action or group
of actions, with a step per conjunct, and takes the properties from it. Why each
invariant is more than the properties it is for:

**StoreProofs** (`StoreInv`). `LogDescribesIndex` alone is not inductive: a transaction
appends a row with the next sequence number, so every row of the log has to be below it
and of a calendar that exists (`TagCoversLog`); and what it appends has to be what the
file holds (`MutationInv`: a mutation half way has done its file step in a calendar that
exists, and no mutation is half way when the daemon is not up). `IndexTracksDisk` is about
moments with no mutation half way; `ApartInv` is the same for all moments.
`PublishedIsDurable` is about calendars that exist; `PromiseInv` adds the directories that
deleted ones left behind, which a new calendar may adopt. All invariants of the run and
the action property `CTagTracksIndex` are proved. A start that cannot read everything
puts what it leaves apart into `dirty` and the files it leaves behind into `promised`, and
those two are what the invariants allow for. The assumption that matters is
`None \notin Contents`.

**DavProofs** (`SyncInv`, `ObjInv`). A copy's token is not above the ctag, a copy without a token
is empty, and a resource with no log row after an admitted token is in the copy as in the
index. Compaction keeps this because the floor rises to the highest row it removes; the
clock's direction does not matter. `NoSilentGap` follows, and `SyncImplementsReplica`: every
step of store and client is a step of Replica or a stutter. For DavObjects: a body may be stale for three reasons, and each must leave a
trace: the row came after the tag (`BodyInv`: the resource is pending), the file came
before its row (half way), a fault came between (`torn`). `TornInv` is the step from
"file and row differ" to one of the three, `FetchInv` what a report may still read.

**AccessProofs** (`RecencyInv`, `RequestInv`). `StaleAnswersAreRecent` speaks of the step that
stores an answer; what makes it true is a bound on how old the content of the cache, of an
answer that has not been stored, and of a lookup under way can be, in that order
(`RecencyInv`). `ActsAreGranted` speaks of the last step of a request; `RequestInv` ties the
level it has reached and the rows it has left to what the history has seen granted and
matched since it began. One lookup serves all contax rows of a request, so an answer that
has the user in the group has to mean that all of them matched.

**SchedulingProofs** (`RightfulInv`). Copies are read, merged with older ones and written
later. What holds of the calendars must therefore hold of whatever a request
holds in every phase, of the base it merges with, and of mail. What a copy may show
(`Shown`) grows with every answer given and every payload, so an old copy remains rightful.
A request that is parked changes nothing and is changed by nothing but `Switch` and `Crash`:
the invariant is split into the part about running requests and the part about parked ones
(`RunningInv`, `ParkedOK`), and only the former is looked at action by action. `NobodyAnswersForAnother` and
`AuthorityHolds` are both of this form, but the second needs more: an attendee's request
holds a stored base as long as nothing was revived, and the organizer's own calendar never
holds anybody else's event, even after somebody revived it.

`CopiesConverge` and `RepliesKept` speak of states at rest, and say nothing of how they are
reached. Their invariant, `ConvergeInv`, accounts for the difference in every other state,
under the properties' own conditions: no copy written back stale, no event revived, no two
requests of one account at once. `OrganizerInv` ties the organizer's request to the copy it wrote: what is
delivered has that copy's version, deletions and attendees. `HeldInv` says who can hold a
copy: somebody the organizer's copy names, or the cancellation under way will still reach,
or somebody who left. `VersionInv` is the convergence itself: an attendee's copy is the
organizer's version, or a delivery or a deletion is still on its way to it. `AnswerInv`
does the same for answers, which lie in two copies: one that a copy does not show is carried
by a reply that has not been there, unless a payload answered (`SpokenFor`, which only
grows), and `ReplyInv`, without which this is not inductive,
says that every reply under way carries the last answer. The steps
that matter are the organizer's write of the master (whoever it names is to be
served; whoever it drops has left; the answers are those that were stored), the delivery (the
answer found in the recipient's copy takes the place of the organizer's), and a
reply's two writes. The first half is used for one fact: while nothing was revived, only
the organizer's requests go out to others. `NoneAssumption` says that a missing copy is not
a copy.

**SeriesProofs** (`SeriesInv`). Types, and for `SplitIsExact` one thing more (`SplitDrawn`):
the second series of a split keeps the rule drawn from the series the handler saw, also when
the cut is tried again on another; a split whose tail was not read is no part of it. The rest of `SplitIsExact` is arithmetic on what a rule
generates. The occurrences before the cut are numbered by a bijection with `1 .. k`, where
`k` is their number and `k` periods lie between start and cut (`Repetition`,
`OccurrencesBefore`); so a COUNT of `n` leaves `n - k` for the new series, `TailRule`'s count,
and the UNTIL of the first excludes what the second begins with (`CutHead`, `CutTail`,
`CutIsExact`). `ExpandIsComplete` is a fact about every series (`Expansion`), so it holds
whatever edits made of them. `EditsAreAtomic` and `OverridesSurvive` are proved per step: only
a write whose If-Match names what the index holds changes the row to something that is not
the file's, and of the transformations only an edit of the occurrence or a cut before it
removes an override (`LostOverrides`).

**StreamProofs** (`WireInv`, `ReplayInv`). `NoGapBetweenReplayAndLive` is about the live
phase; before it, nothing after the position announced in the hello may be missing from
what was sent, is in the channel, or was dropped, and from a successful replay on nothing
after the position resumed from. That is what registering before reading the log is for.

**ReminderProofs** (`LoopInv`). The window of a scan, `(last, until]`: what the windows have
passed was raised under its key or is excused in every phase, and what the present one covers is so too, or
found, calendar by calendar as the scan proceeds. An edit during a scan may put an alarm
into the part of the window that was already scanned, but then it was not set in time.
For `RaisedOnce`: whatever was raised fires no later than the windows have reached, so a
window that begins there cannot find it again.

**GatesProofs** (`FileInv`, `AttemptInv`, `ThrottleInv`, `BudgetInv`, `RateInv`). The two
gates are proved apart and joined by frame lemmas. A match is honest because the file is at
every moment what the history calls valid: Create and Delete hold the lock from the list
they loaded to the list they write, so that list is still the file's. The budget of a day
is split into what this life has spent and one cap for each earlier life; nothing is
charged to days to come. What the rate limiter remembers was admitted, and what it has
forgotten, by trimming or by a sweep, is a window old, unless a late admission came after
it; an admission that was not late has the latest reading so far (`Remembers`). Hence from
each admission to the one `RateMax` later a window passes, if none of those after the first
was late: were the earlier one less than a window old, it would still be among the
timestamps that count, with all between, and the later one would have been refused.

What stays with TLC:

* `RestartHeals`, `ChannelDrains`, `EditEnds`: liveness under fairness, which needs ENABLED.
* The four runs that expect a violation.

## 6. What the code does that its comments do not say

With a run whose counterexample shows it:

* `dav_stale_token`: sync tokens of a deleted calendar are accepted by one created later
  under the same id (`store.go:1071`, `1090`).
* `stream_hello`: a stream that drops between hello and replay loses the replayed changes
  for good (`store.go:829`, `api.go:980`).
* `series_deletions`: an "all" edit restores an occurrence that another client deleted
  while the edit was handled: it brings the EXDATEs it read before `editSeries`, whose
  If-Match and retries guard only what is read inside it (`store.go:739`, `ical.go:428`,
  `api.go:672`).
* `scheduling_overrides`: a customised occurrence delivered to an attendee is lost with the
  next whole delivery or with the attendee's own answer (`scheduling.go:238`, `257`).

Seen in modelling, and taken into the models as the code has them:

* A deleted calendar's files, if a crash or an error left them, come back as events of a
  calendar created later under the same id (`store.go:437`, `465`).
* A start tombstones, and so publishes as deleted, a file that is there and could not be read
  (`store.go:163`, `213`). An index that is "wiped and rebuilt" (`store.go:163`) finds no
  file, since the calendars it walks come from that index (`175`).
* If-Match is compared with the row and not with the bytes, which differ after a failed
  transaction (`store.go:957`, `989`, `1026`).
* The tag of a report need not be that of the body beside it (`caldav.go:331`, `340`, `1073`).
* A stream whose replay fails goes live without it (`store.go:829`, `api.go:982`).
* The new series of a split does not have "exactly the occurrences from occ onward" once
  occurrences were deleted (`ical.go:438`, `468`), and when the old one's rule cannot be read
  the split takes place all the same and COUNT starts over (`api.go:631`, `634`).
* ListEvents leaves out occurrences of a series that began before the window
  (`store.go:653`, `ical.go:279`).
* The editor submits some attendees with the status it had loaded, and `mergePartStats`,
  whose comment says that it never does, keeps it (`api.go:1411`, `1420`,
  `EventEditor.tsx:239`).
* Reminders whose emit failed are not retried (`reminder.go:105`); two alarms that differ only
  in what they are related to share a key, and the second is dropped (`reminder.go:103`).
* The rate limiter's sweep looks at the last timestamp, which need not be the latest, as the
  clock is read outside the lock (`api.go:1248`, `1256`).
* An expired membership is served without limit while contax answers with errors
  (`contax.go:98`), and otherwise for up to the ttl and the deadline of a call, where the
  comment promises the ttl (`contax.go:20`, `103`).

An attendee who saves a single event that was cancelled while their editor was open
becomes its organizer and invites everybody again, and so does one whose copy could not be
read (`api.go:594-600`); an organizer's delete whose read fails tells nobody
(`api.go:739`, `754`, `772`). No comment excludes it, so it is not listed as a divergence;
`AuthorityHolds` is stated for everything else.

## 7. What is not modelled

Text: encoding and decoding of iCalendar, XML and JSON, time zones, formatting. Rule
generation (rrule-go, external): Recurrence takes one family of rules. The verification of
session tokens and the CSRF header are stateless. UpdateCalendar, feeds, export and
import, PROPFIND, calendar-query and free-busy-query read or loop over what is modelled.
Scheduling leaves out invitations from outside (an inbound REQUEST or CANCEL writes or
deletes one copy whose organizer has no account, and nothing here follows from it),
delegates (whose saves are never passed on, and who write the owner as ORGANIZER), and
"following" on attendees' copies. Nor does it have copies that are put or deleted over
CalDAV, where the client's ORGANIZER is stored as it is and nobody is told; further calendars
of one account, among which `FindEventByUID` takes any that has the event; TENTATIVE,
which behaves as the other answers do; or attendees of an override other than the series'.
At most two requests of one account are under way at a time. In
`SaveThis`, `DeleteThis` and `DeleteAll` the read for authority and the edit are one step.
What Photon and Google answer is data. The UI's views, the service script and the wiring
of `main.go` have no state of their own.

## 8. Plan

In the order of weight; the first fifteen are done.

1. Store, its invariant and its proof.
2. DavSync, Replica, the refinement and its proof.
3. Stream.
4. Recurrence and Series.
5. Scheduling.
6. Membership and Access.
7. Reminder.
8. DavObjects: bodies and tags of a report read at different moments.
9. AppPasswords, PlaceSearch, Limits and their composition Gates.
10. Scheduling: attendees' edits of their own copy and the organizer's authority.
11. Proofs for DavObjects and Access.
12. Proofs for Stream and Reminder.
13. Proofs for Scheduling (types, answers, authority) and for Gates.
14. `CopiesConverge` and `RepliesKept`: an invariant that follows each answer from where it was
    given to the copies it has to reach, where nothing was written back stale.
15. Proofs for Series: types, the atomicity of edits, the exactness of a split.
16. Scheduling: invitations from outside, delegates, copies written over CalDAV, "following"
    on attendees' copies.
