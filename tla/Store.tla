------------------------------- MODULE Store -------------------------------
(***************************************************************************)
(* The calendar store (backend/internal/store/store.go): .ics files are    *)
(* the source of truth, a SQLite index is derived from them, and a         *)
(* change-log with a retention floor backs synchronisation.                *)
(*                                                                         *)
(* Every mutation runs under Store.mu and touches two media in order: the  *)
(* file first, then one index transaction.  A mutation is therefore two    *)
(* actions: the first takes the lock and changes the file, the second      *)
(* commits (or fails) the transaction and releases the lock; `busy' is the *)
(* mutation that holds the lock in between.  A crash may fall anywhere,    *)
(* and the next start reconciles index and files one transaction at a time,*)
(* as far as it can read the files.                                        *)
(*                                                                         *)
(* An event body is a member of Contents.  Its ETag, the hash of the bytes,*)
(* is the body itself; None is "no file", "no row" and the empty ETag of a *)
(* tombstone.                                                              *)
(***************************************************************************)
EXTENDS Integers, FiniteSets

CONSTANTS
    Users,          \* account names
    Ids,            \* calendar ids a user's calendars may have
    Personal,       \* the id of the calendar ensureHome provisions
    Uids,           \* event UIDs
    Contents,       \* .ics bodies
    Undecodable,    \* bodies ical.Decode rejects (only an out-of-band edit writes one)
    None,           \* no body
    Times,          \* readings of the wall clock, which may step backwards
    Retention,      \* main.go compactionLoop keeps rows this long (90 days)
    MaxSeq,         \* bound: no mutation starts once this many seqs were issued
    MaxFaults       \* bound on crashes, failed steps and out-of-band edits

ASSUME StoreAssumption ==
    /\ Personal \in Ids
    /\ Undecodable \subseteq Contents
    /\ None \notin Contents
    /\ Times \subseteq Int
    /\ Retention \in Nat
    /\ MaxSeq \in Nat
    /\ MaxFaults \in Nat

Cals  == Users \X Ids
Slots == Cals \X Uids
Value == Contents \cup {None}

VARIABLES
    cals,       \* table calendars: the (owner, id) of every row
    ctag,       \* calendars.ctag, 0 for a calendar with no row
    minValid,   \* calendars.min_valid_seq, 0 for a calendar with no row
    events,     \* table events: the etag of each row, None for no row
    changelog,  \* table changelog; a tombstone is a row with etag None
    lastSeq,    \* changelog's AUTOINCREMENT high-water mark
    disk,       \* calendars/<owner>/<id>/<uid>.ics, None for no file
    dirs,       \* the calendar directories that exist
    busy,       \* the mutation holding Store.mu between its file and index steps
    phase,      \* the daemon: "up", "opening" (inside store.Open) or "down"
    blind,      \* the directories and files the last start could not read
    lookers,    \* users with a reader that saw no calendar and waits for Store.mu
    now,        \* the wall clock
    faults,     \* faults so far, bounded by MaxFaults
    dirty,      \* history: slots whose file and row were left apart
    promised    \* history: per slot, the bodies a client may still expect there

index == <<cals, ctag, minValid, events, changelog, lastSeq>>
files == <<disk, dirs>>
life  == <<phase, blind, lookers>>
vars  == <<index, files, busy, life, now, faults, dirty, promised>>

-----------------------------------------------------------------------------
NoEvents == [u \in Uids |-> None]
AllRead  == [dirs |-> {}, files |-> {}]
Idle     == [op |-> "idle"]
Row      == [seq : Nat, cal : Cals, uid : Uids, etag : Value, at : Times]
Mutation == {Idle}
            \cup [op : {"put", "delete"}, cal : Cals, uid : Uids, etag : Value]
            \cup [op : {"rmdir"}, cal : Cals]

\* Change-log rows of resource u of calendar c with seq > since.
Since(c, u, since) ==
    {r \in changelog : r.cal = c /\ r.uid = u /\ r.seq > since}

IsLast(r, S) == r \in S /\ \A s \in S : s.seq <= r.seq

TypeOK ==
    /\ cals \subseteq Cals
    /\ ctag \in [Cals -> Nat]
    /\ minValid \in [Cals -> Nat]
    /\ events \in [Cals -> [Uids -> Value]]
    /\ changelog \subseteq Row
    /\ lastSeq \in Nat
    /\ disk \in [Cals -> [Uids -> Value]]
    /\ dirs \subseteq Cals
    /\ busy \in Mutation
    /\ phase \in {"up", "opening", "down"}
    /\ blind \in [dirs : SUBSET Cals, files : SUBSET Slots]
    /\ lookers \subseteq Users
    /\ now \in Times
    /\ faults \in Nat
    /\ dirty \subseteq Slots
    /\ promised \in [Cals -> [Uids -> SUBSET Value]]

Init ==
    /\ cals = {}
    /\ ctag = [c \in Cals |-> 0]
    /\ minValid = [c \in Cals |-> 0]
    /\ events = [c \in Cals |-> NoEvents]
    /\ changelog = {}
    /\ lastSeq = 0
    /\ disk = [c \in Cals |-> NoEvents]
    /\ dirs = {}
    /\ busy = Idle
    /\ phase = "up"
    /\ blind = AllRead
    /\ lookers = {}
    /\ now \in Times
    /\ faults = 0
    /\ dirty = {}
    /\ promised = [c \in Cals |-> [u \in Uids |-> {None}]]

-----------------------------------------------------------------------------
(* Calendars *)

Unlocked == phase = "up" /\ busy = Idle

\* ensureHomeLocked: what a mutation (or a first listing) provisions for o.
Home(o) == IF \E c \in cals : c[1] = o THEN {} ELSE {<<o, Personal>>}

\* ensureHome of a first Calendars or ListEvents call: a COUNT, without the lock.
EnsureHome(o) ==
    /\ phase = "up"
    /\ Home(o) # {}
    /\ lookers' = lookers \cup {o}
    /\ UNCHANGED <<index, files, busy, phase, blind, now, faults, dirty, promised>>

\* MUTANT of EnsureHomeLocked: no second look, and the row is inserted anew.
EnsureHomeAgain(o) ==
    /\ Unlocked
    /\ o \in lookers
    /\ cals' = cals \cup {<<o, Personal>>}
    /\ dirs' = dirs \cup {<<o, Personal>>}
    /\ ctag' = [ctag EXCEPT ![<<o, Personal>>] = 0]
    /\ lookers' \in {lookers, lookers \ {o}}
    /\ UNCHANGED <<minValid, events, changelog, lastSeq, disk, busy, phase, blind,
                   now, faults, dirty, promised>>

\* Under the lock it looks again; other readers of o may still be waiting.  A mutation
\* refused after it provisioned leaves the same, without having looked before.
EnsureHomeLocked(o) ==
    /\ Unlocked
    /\ o \in lookers \/ Home(o) # {}
    /\ cals' = cals \cup Home(o)
    /\ dirs' = dirs \cup Home(o)
    /\ lookers' \in {lookers, lookers \ {o}}
    /\ UNCHANGED <<ctag, minValid, events, changelog, lastSeq, disk, busy, phase, blind,
                   now, faults, dirty, promised>>

\* The directory is made (or found, with whatever a past calendar left in it)
\* before the row; CreateCalendar is the same step with a fresh random id.
CreateCalendarID(c) ==
    /\ Unlocked
    /\ c \notin cals \cup Home(c[1])
    /\ cals' = cals \cup Home(c[1]) \cup {c}
    /\ dirs' = dirs \cup Home(c[1]) \cup {c}
    /\ UNCHANGED <<ctag, minValid, events, changelog, lastSeq, disk, busy, life,
                   now, faults, dirty, promised>>

\* MUTANT of DeleteCalendar: the calendar's change-log rows are not deleted.
DeleteCalendarKeepsLog(c) ==
    /\ Unlocked
    /\ c \in cals
    /\ c[2] # Personal
    /\ cals' = cals \ {c}
    /\ ctag' = [ctag EXCEPT ![c] = 0]
    /\ minValid' = [minValid EXCEPT ![c] = 0]
    /\ events' = [events EXCEPT ![c] = NoEvents]
    /\ busy' = [op |-> "rmdir", cal |-> c]
    /\ dirty' = dirty \cup {<<c, u>> : u \in {v \in Uids : disk[c][v] # None}}
    /\ promised' = [promised EXCEPT ![c] = [u \in Uids |-> {None, disk[c][u]}]]
    /\ UNCHANGED <<changelog, lastSeq, files, life, now, faults>>

\* The transaction of DeleteCalendar; api.deleteCalendar refuses "personal".
DeleteCalendar(c) ==
    /\ Unlocked
    /\ c \in cals
    /\ c[2] # Personal
    /\ cals' = cals \ {c}
    /\ ctag' = [ctag EXCEPT ![c] = 0]
    /\ minValid' = [minValid EXCEPT ![c] = 0]
    /\ events' = [events EXCEPT ![c] = NoEvents]
    /\ changelog' = {r \in changelog : r.cal # c}
    /\ busy' = [op |-> "rmdir", cal |-> c]
    /\ dirty' = dirty \cup {<<c, u>> : u \in {v \in Uids : disk[c][v] # None}}
    /\ promised' = [promised EXCEPT ![c] = [u \in Uids |-> {None, disk[c][u]}]]
    /\ UNCHANGED <<lastSeq, files, life, now, faults>>

\* os.RemoveAll(calDir): its last act under the lock.
RemoveAll ==
    /\ phase = "up"
    /\ busy.op = "rmdir"
    /\ disk' = [disk EXCEPT ![busy.cal] = NoEvents]
    /\ dirs' = dirs \ {busy.cal}
    /\ dirty' = {s \in dirty : s[1] # busy.cal}
    /\ promised' = [promised EXCEPT ![busy.cal] = [u \in Uids |-> {None}]]
    /\ busy' = Idle
    /\ UNCHANGED <<index, life, now, faults>>

\* os.RemoveAll fails part way and its error is dropped: only `gone' was removed.
RemoveAllFails(gone) ==
    /\ phase = "up"
    /\ busy.op = "rmdir"
    /\ faults < MaxFaults
    /\ faults' = faults + 1
    /\ disk' = [disk EXCEPT ![busy.cal] =
                   [u \in Uids |-> IF u \in gone THEN None ELSE @[u]]]
    /\ busy' = Idle
    /\ UNCHANGED <<index, dirs, life, now, dirty, promised>>

-----------------------------------------------------------------------------
(* Mutations: the file step *)

\* writeFileAtomic, under the lock: temporary file, fsync, rename.
WriteFile(c, u, b) ==
    /\ lastSeq < MaxSeq
    /\ cals' = cals \cup Home(c[1])
    /\ c \in cals'
    /\ disk' = [disk EXCEPT ![c][u] = b]
    /\ dirs' = dirs \cup Home(c[1]) \cup {c}
    /\ busy' = [op |-> "put", cal |-> c, uid |-> u, etag |-> b]
    /\ promised' = [promised EXCEPT ![c][u] = @ \cup {b}]
    /\ UNCHANGED <<ctag, minValid, events, changelog, lastSeq, life, now, faults, dirty>>

\* PutEvent has no precondition; a new event's genID is any unused uid.
PutEvent(c, u, b) ==
    /\ Unlocked
    /\ WriteFile(c, u, b)

\* The ETag preconditions, checked against the index row.  ifMatch is the set of
\* tags the header lists ("*" lists them all), {} when there is no header.
Precondition(c, u, ifMatch, ifNoneMatch) ==
    /\ ifNoneMatch => events[c][u] = None
    /\ ifMatch # {} => events[c][u] \in ifMatch

PutRaw(c, u, b, ifMatch, ifNoneMatch) ==
    /\ Unlocked
    /\ b \notin Undecodable
    /\ Precondition(c, u, ifMatch, ifNoneMatch)
    /\ WriteFile(c, u, b)

\* MUTANT of RemoveFile: a failed removal does not abort the delete.
RemoveFileUnchecked(c, u) ==
    disk' \in {disk, [disk EXCEPT ![c][u] = None]}

\* removeFile; a missing file is no error, any other failure aborts the delete.
RemoveFile(c, u) ==
    disk' = [disk EXCEPT ![c][u] = None]

BeginDelete(c, u) ==
    /\ lastSeq < MaxSeq
    /\ c \in cals
    /\ RemoveFile(c, u)
    /\ busy' = [op |-> "delete", cal |-> c, uid |-> u, etag |-> None]
    /\ promised' = [promised EXCEPT ![c][u] = @ \cup {None}]
    /\ UNCHANGED <<index, dirs, life, now, faults, dirty>>

\* DeleteEvent does not look at the index row before it removes the file.
DeleteEvent(c, u) ==
    /\ Unlocked
    /\ BeginDelete(c, u)

DeleteRaw(c, u, ifMatch) ==
    /\ Unlocked
    /\ events[c][u] # None
    /\ Precondition(c, u, ifMatch, FALSE)
    /\ BeginDelete(c, u)

-----------------------------------------------------------------------------
(* Mutations: the index transaction *)

\* The start under way could not read this file.
Unread(c, u) == phase = "opening" /\ <<c, u>> \in blind.files

\* What clients expect of a slot that is logged as e.  Of a file a start could not
\* read they may be told that it is gone, though it stays and will be back.
Told(c, u, e) == {e} \cup {b \in {disk[c][u]} : Unread(c, u)}

\* MUTANT of IndexRow: a tombstone does not advance the ctag.
IndexRowQuietDelete(c, u, e) ==
    /\ lastSeq' = lastSeq + 1
    /\ events' = [events EXCEPT ![c][u] = e]
    /\ changelog' = changelog \cup
           {[seq |-> lastSeq + 1, cal |-> c, uid |-> u, etag |-> e, at |-> now]}
    /\ ctag' = IF e = None THEN ctag ELSE [ctag EXCEPT ![c] = lastSeq + 1]
    /\ dirty' = dirty \ {<<c, u>>}
    /\ promised' = [promised EXCEPT ![c][u] = Told(c, u, e)]
    /\ UNCHANGED <<cals, minValid>>

\* One transaction: the row, its change-log entry and the calendar's ctag.
\* What the log says is published: clients expect it from now on.
IndexRow(c, u, e) ==
    /\ lastSeq' = lastSeq + 1
    /\ events' = [events EXCEPT ![c][u] = e]
    /\ changelog' = changelog \cup
           {[seq |-> lastSeq + 1, cal |-> c, uid |-> u, etag |-> e, at |-> now]}
    /\ ctag' = [ctag EXCEPT ![c] = lastSeq + 1]
    /\ dirty' = dirty \ {<<c, u>>}
    /\ promised' = [promised EXCEPT ![c][u] = Told(c, u, e)]
    /\ UNCHANGED <<cals, minValid>>

IndexUpsert ==
    /\ phase = "up"
    /\ busy.op = "put"
    /\ IndexRow(busy.cal, busy.uid, busy.etag)
    /\ busy' = Idle
    /\ UNCHANGED <<files, life, now, faults>>

IndexDelete ==
    /\ phase = "up"
    /\ busy.op = "delete"
    /\ events[busy.cal][busy.uid] # None
    /\ IndexRow(busy.cal, busy.uid, None)
    /\ busy' = Idle
    /\ UNCHANGED <<files, life, now, faults>>

\* No row matched: rolled back, the caller gets ErrNotFound.
IndexDeleteNothing ==
    /\ phase = "up"
    /\ busy.op = "delete"
    /\ events[busy.cal][busy.uid] = None
    /\ busy' = Idle
    /\ UNCHANGED <<index, files, life, now, faults, dirty, promised>>

\* The transaction fails and rolls back; the file step stands.
IndexFails ==
    /\ phase = "up"
    /\ busy.op \in {"put", "delete"}
    /\ faults < MaxFaults
    /\ faults' = faults + 1
    /\ busy' = Idle
    /\ dirty' = dirty \cup {<<busy.cal, busy.uid>>}
    /\ UNCHANGED <<index, files, life, now, promised>>

-----------------------------------------------------------------------------
(* Compaction and time *)

\* MUTANTS of CompactCalendar.  The floor is derived from the order of the
\* timestamps: everything before the first row kept is taken to be gone.
CompactByTimestamp(c) ==
    LET trimmed == {r \in changelog : r.cal = c /\ r.at < now - Retention}
        kept    == {r \in changelog : r.cal = c} \ trimmed IN
    /\ Unlocked
    /\ c \in cals
    /\ trimmed # {}
    /\ \/ kept = {} /\ minValid' = [minValid EXCEPT ![c] = ctag[c]]
       \/ \E m \in kept : /\ \A r \in kept : m.seq <= r.seq
                          /\ minValid' = [minValid EXCEPT ![c] = m.seq - 1]
    /\ changelog' = changelog \ trimmed
    /\ UNCHANGED <<cals, ctag, events, lastSeq, files, busy, life, now, faults,
                   dirty, promised>>

\* MAX(seq) over no rows, a NULL, is written as the floor.
CompactNothing(c) ==
    /\ Unlocked
    /\ c \in cals
    /\ {r \in changelog : r.cal = c /\ r.at < now - Retention} = {}
    /\ minValid' = [minValid EXCEPT ![c] = None]
    /\ UNCHANGED <<cals, ctag, events, changelog, lastSeq, files, busy, life, now, faults,
                   dirty, promised>>

\* One calendar's step of Compact: rows older than the retention go and the
\* floor rises to the highest seq that went, in one transaction.
CompactCalendar(c) ==
    LET trimmed == {r \in changelog : r.cal = c /\ r.at < now - Retention} IN
    /\ Unlocked
    /\ c \in cals
    /\ \E m \in trimmed :
          /\ IsLast(m, trimmed)
          /\ minValid' = [minValid EXCEPT ![c] = IF m.seq > @ THEN m.seq ELSE @]
    /\ changelog' = changelog \ trimmed
    /\ UNCHANGED <<cals, ctag, events, lastSeq, files, busy, life, now, faults,
                   dirty, promised>>

Tick(t) ==
    /\ t # now
    /\ now' = t
    /\ UNCHANGED <<index, files, busy, life, faults, dirty, promised>>

-----------------------------------------------------------------------------
(* Crash, out-of-band edits, restart *)

Crash ==
    /\ phase # "down"
    /\ faults < MaxFaults
    /\ faults' = faults + 1
    /\ phase' = "down"
    /\ blind' = AllRead
    /\ lookers' = {}
    /\ busy' = Idle
    /\ UNCHANGED <<index, files, now, dirty, promised>>

\* Someone edits, adds (b in Contents) or removes (b = None) a file while the
\* daemon is down.  A readable body becomes the truth; garbage does not.
EditFile(c, u, b) ==
    /\ phase = "down"
    /\ faults < MaxFaults
    /\ faults' = faults + 1
    /\ c \in cals \cap dirs
    /\ disk' = [disk EXCEPT ![c][u] = b]
    /\ promised' = [promised EXCEPT ![c][u] =
                       IF b \in Undecodable THEN @ \cup {b} ELSE {b}]
    /\ UNCHANGED <<index, dirs, busy, life, now, dirty>>

RemoveDir(c) ==
    /\ phase = "down"
    /\ faults < MaxFaults
    /\ faults' = faults + 1
    /\ c \in cals \cap dirs
    /\ disk' = [disk EXCEPT ![c] = NoEvents]
    /\ dirs' = dirs \ {c}
    /\ promised' = [promised EXCEPT ![c] = [u \in Uids |-> @[u] \cup {None}]]
    /\ UNCHANGED <<index, busy, life, now, dirty>>

Open ==
    /\ phase = "down"
    /\ phase' = "opening"
    /\ UNCHANGED <<index, files, busy, blind, lookers, now, faults, dirty, promised>>

\* A start in which os.ReadDir or os.ReadFile fails for what `b' names.
OpenBlind(b) ==
    /\ phase = "down"
    /\ faults < MaxFaults
    /\ faults' = faults + 1
    /\ b # AllRead
    /\ b.dirs \subseteq cals \cap dirs
    /\ \A s \in b.files : s[1] \in (cals \cap dirs) \ b.dirs /\ disk[s[1]][s[2]] # None
    /\ phase' = "opening"
    /\ blind' = b
    /\ UNCHANGED <<index, files, busy, lookers, now, dirty, promised>>

\* MUTANT of Vanished: no row is ever tombstoned.
VanishedNever(c) == {}

\* A calendar with no directory, or one that cannot be read, is passed over.
Listed(c) == c \in dirs \ blind.dirs

\* What reconcile finds to do in a calendar.  A file it cannot read does not count
\* as being there: it is not indexed, and its row is tombstoned like one with no file.
Unindexed(c) == {u \in Uids : /\ Listed(c)
                              /\ <<c, u>> \notin blind.files
                              /\ disk[c][u] \notin Undecodable \cup {None}
                              /\ disk[c][u] # events[c][u]}
Vanished(c) == {u \in Uids : /\ Listed(c)
                             /\ disk[c][u] = None \/ <<c, u>> \in blind.files
                             /\ events[c][u] # None}

ReconcileFile(c, u) ==
    /\ phase = "opening"
    /\ c \in cals
    /\ u \in Unindexed(c)
    /\ IndexRow(c, u, disk[c][u])
    /\ UNCHANGED <<files, busy, life, now, faults>>

ReconcileRow(c, u) ==
    /\ phase = "opening"
    /\ c \in cals
    /\ Unindexed(c) = {}
    /\ u \in Vanished(c)
    /\ IndexRow(c, u, None)
    /\ UNCHANGED <<files, busy, life, now, faults>>

\* What is still apart once reconcile has nothing left to do: what it did not list
\* or could not read, and files of calendars that are gone.
LeftApart == {s \in Slots :
                 /\ disk[s[1]][s[2]] # events[s[1]][s[2]]
                 /\ s[1] \notin cals \/ ~Listed(s[1]) \/ s \in blind.files}

Serve ==
    /\ phase = "opening"
    /\ \A c \in cals : Unindexed(c) = {} /\ Vanished(c) = {}
    /\ phase' = "up"
    /\ dirty' = LeftApart
    /\ UNCHANGED <<index, files, busy, blind, lookers, now, faults, promised>>

-----------------------------------------------------------------------------
Request ==
    \/ \E o \in Users : EnsureHome(o) \/ EnsureHomeLocked(o)
    \/ \E c \in Cals : CreateCalendarID(c) \/ DeleteCalendar(c) \/ CompactCalendar(c)
    \/ \E c \in Cals, u \in Uids :
          \/ \E b \in Contents \ Undecodable : PutEvent(c, u, b)
          \/ \E b \in Contents, m \in SUBSET Contents, n \in BOOLEAN : PutRaw(c, u, b, m, n)
          \/ DeleteEvent(c, u)
          \/ \E m \in SUBSET Contents : DeleteRaw(c, u, m)

Release == RemoveAll \/ IndexUpsert \/ IndexDelete \/ IndexDeleteNothing

Restart ==
    \/ Open
    \/ \E c \in Cals, u \in Uids : ReconcileFile(c, u) \/ ReconcileRow(c, u)
    \/ Serve

Fault ==
    \/ Crash
    \/ IndexFails
    \/ \E gone \in SUBSET Uids : RemoveAllFails(gone)
    \/ \E c \in Cals, u \in Uids, b \in Value : EditFile(c, u, b)
    \/ \E c \in Cals : RemoveDir(c)
    \/ \E unlisted \in SUBSET Cals, unread \in SUBSET Slots :
          OpenBlind([dirs |-> unlisted, files |-> unread])

Next ==
    \/ Request
    \/ Release
    \/ Restart
    \/ Fault
    \/ \E t \in Times : Tick(t)

Spec == Init /\ [][Next]_vars

\* The supervisor restarts the daemon (service: Restart=on-failure) and a starting
\* daemon keeps working; nothing is assumed of requests.
FairSpec == Spec /\ WF_vars(Restart)

-----------------------------------------------------------------------------
(* Properties *)

\* Above the floor the log is trustworthy: the last row of a resource says what
\* the index holds, so a delta can be answered from the log alone -- across
\* upserts, tombstones, calendar deletion and compaction under any clock.
LogDescribesIndex ==
    \A c \in cals, u \in Uids :
        LET rows == Since(c, u, minValid[c]) IN
        rows # {} => \E r \in rows : IsLast(r, rows) /\ r.etag = events[c][u]

\* A seq names one row; the ctag covers every row of its calendar's log and the
\* floor never passes it; before the first change a calendar's index is empty, and
\* nothing of a calendar with no row in the table is left.
TagCoversLog ==
    /\ \A r \in changelog : r.cal \in cals /\ r.seq <= ctag[r.cal]
    /\ \A r, s \in changelog : r.seq = s.seq => r = s
    /\ \A c \in Cals : minValid[c] <= ctag[c] /\ ctag[c] <= lastSeq
    /\ \A c \in Cals : ctag[c] = 0 => events[c] = NoEvents
    /\ \A c \in Cals \ cals : ctag[c] = 0

\* While the daemon serves and no mutation is half way, index and files agree on
\* every slot, save where a mutation's transaction failed, or where a calendar or
\* a start could not remove, list or read the files (see LeftApart).
IndexTracksDisk ==
    Unlocked =>
        \A c \in Cals, u \in Uids :
            disk[c][u] # events[c][u] => \/ <<c, u>> \in dirty
                                         \/ disk[c][u] \in Undecodable

\* What clients were told is not undone: a file holds the last body published for
\* it, or the body of a mutation begun since (whose outcome is unknown after a
\* crash).  Above all a published tombstone is not followed by the old file, with
\* one exception: a start that cannot read a file publishes a tombstone for it
\* (reconcile), and the next one that can brings it back.
PublishedIsDurable ==
    \A c \in cals, u \in Uids : disk[c][u] \in promised[c][u]

\* What makes these inductive: the lock is free unless the daemon serves; a file
\* step has been done when its index step comes, in a calendar that exists (and
\* a directory is unlinked only for one that does not); no directory, no files.
MutationInv ==
    /\ phase # "up" => busy = Idle
    /\ busy.op \in {"put", "delete"} => /\ busy.cal \in cals
                                        /\ disk[busy.cal][busy.uid] = busy.etag
    /\ busy.op = "delete" => busy.etag = None
    /\ busy.op = "rmdir" => /\ busy.cal \notin cals
                            /\ \A u \in Uids : None \in promised[busy.cal][u]
    /\ \A c \in Cals \ dirs : disk[c] = NoEvents

\* IndexTracksDisk, also while a mutation is between its two steps.
ApartInv ==
    phase = "up" =>
        \A c \in Cals, u \in Uids :
            disk[c][u] # events[c][u] =>
                \/ <<c, u>> \in dirty
                \/ disk[c][u] \in Undecodable
                \/ busy.op \in {"put", "delete"} /\ busy.cal = c /\ busy.uid = u

\* PublishedIsDurable, also for the directories deleted calendars left behind.
PromiseInv ==
    \A c \in Cals, u \in Uids : disk[c][u] \in promised[c][u]

StoreInv ==
    /\ TypeOK
    /\ TagCoversLog
    /\ LogDescribesIndex
    /\ MutationInv
    /\ ApartInv
    /\ PromiseInv

\* Any change of a calendar's index rows raises its ctag, within one life of the
\* calendar; this is what lets clients poll the ctag and feeds answer 304.
CTagTracksIndex ==
    [][\A c \in cals \cap cals' :
          /\ ctag'[c] >= ctag[c]
          /\ events'[c] # events[c] => ctag'[c] > ctag[c]]_vars

\* Every restart ends with the index rebuilt to the files: equal to those that could
\* be read and decoded, and with no row for one that is not there.
Healed ==
    /\ phase = "up"
    /\ \A c \in cals, u \in Uids : Listed(c) =>
          \/ disk[c][u] = events[c][u]
          \/ disk[c][u] \in Undecodable
          \/ <<c, u>> \in blind.files /\ events[c][u] = None

RestartHeals == (phase = "down") ~> Healed

=============================================================================
