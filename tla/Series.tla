------------------------------- MODULE Series -------------------------------
(***************************************************************************)
(* Scoped edits of one recurring series by several clients: the handlers   *)
(* putEvent and deleteEvent of api.go over Store.editSeries, which reads   *)
(* the .ics, transforms it and writes it back with If-Match, and tries     *)
(* four times.  Clients see an instance some time before they edit it.     *)
(*                                                                         *)
(* The ETag of a body is the body.  RawEvent reads the file, PutRaw checks *)
(* If-Match against the index row: the two are apart after a failed index  *)
(* transaction, until the daemon restarts (see Store).                     *)
(***************************************************************************)
EXTENDS Recurrence

CONSTANTS
    Editors,    \* clients editing the series: its owner and delegates
    Starts,     \* starts an edit may ask for
    Given,      \* the series as it may have been created
    None,       \* no series
    MaxTries,   \* attempts of editSeries (4)
    MaxEdits,   \* bound on the edits begun
    MaxFaults   \* bound on failed transactions and crashes

ASSUME SeriesAssumption ==
    /\ Starts \subseteq Time
    /\ Given \subseteq Series
    /\ None \notin Series
    /\ MaxTries \in Nat \ {0}
    /\ MaxEdits \in Nat
    /\ MaxFaults \in Nat

VARIABLES
    file,       \* the bytes on disk
    row,        \* the bytes the index row describes
    created,    \* new series "this and following" edits have made
    ed,         \* per editor, its request
    edits,      \* edits begun, bounded by MaxEdits
    faults      \* faults so far, bounded by MaxFaults

vars == <<file, row, created, ed, edits, faults>>

Edit ==
    [kind : {"override"}, to : Instance]
    \cup [kind : {"exclude", "truncate"}, occ : Time]
    \cup [kind : {"split"}, occ : Time, seen : Series \cup {None}, next : Series]
    \cup [kind : {"replace"}, master : Series]

\* The transformation editSeries is given.
Apply(op, s) ==
    CASE op.kind = "override" -> Override(s, op.to)
      [] op.kind = "exclude"  -> Exclude(s, op.occ)
      [] op.kind \in {"truncate", "split"} -> Truncate(s, op.occ - 1)
      [] op.kind = "replace"  -> ReplaceMaster(s, op.master)

\* The RRULE an instance is shown with.
Rule == [count : SUBSET (Nat \ {0}), until : SUBSET Int]
RuleOf(s) == [count |-> s.count, until |-> s.until]

Idle == [pc |-> "idle"]
Request ==
    {Idle}
    \cup [pc : {"viewing"}, of : Instance, rule : Rule]
    \cup [pc : {"read"}, op : Edit, tries : 0 .. MaxTries - 1]
    \cup [pc : {"write"}, op : Edit, tries : 0 .. MaxTries - 1, base : Series]
    \cup [pc : {"create"}, next : Series]

TypeOK ==
    /\ file \in Series \cup {None}
    /\ row \in Series \cup {None}
    /\ created \subseteq Series
    /\ ed \in [Editors -> Request]
    /\ edits \in Nat
    /\ faults \in Nat

Init ==
    /\ file \in Given
    /\ row = file
    /\ created = {}
    /\ ed = [e \in Editors |-> Idle]
    /\ edits = 0
    /\ faults = 0

-----------------------------------------------------------------------------
(* The client's side of an edit *)

Become(e, request) == ed' = [ed EXCEPT ![e] = request]

\* The client lists the series and its user picks an instance.
View(e, i) ==
    /\ ed[e] = Idle
    /\ edits < MaxEdits
    /\ row # None /\ file # None
    /\ i \in ExpandSeries(file, 0, Horizon)
    /\ Become(e, [pc |-> "viewing", of |-> i, rule |-> RuleOf(file)])
    /\ edits' = edits + 1
    /\ UNCHANGED <<file, row, created, faults>>

Submit(e, op) ==
    /\ Become(e, [pc |-> "read", op |-> op, tries |-> 0])
    /\ UNCHANGED <<file, row, created, edits, faults>>

SaveThis(e, at) ==
    /\ ed[e].pc = "viewing"
    /\ Submit(e, [kind |-> "override", to |-> [rid |-> ed[e].of.rid, at |-> at]])

DeleteThis(e) ==
    /\ ed[e].pc = "viewing"
    /\ Submit(e, [kind |-> "exclude", occ |-> ed[e].of.rid])

DeleteFollowing(e) ==
    /\ ed[e].pc = "viewing"
    /\ Submit(e, [kind |-> "truncate", occ |-> ed[e].of.rid])

\* "This and following": the tail's rule is read before the series is cut.  The
\* new series has the payload's start and none of the EXDATEs (ExpandSeries
\* clears them from the instances it hands out).
Split(e, at, seen, rule) ==
    [kind |-> "split", occ |-> ed[e].of.rid, seen |-> seen,
     next |-> [start |-> at, count |-> rule.count, until |-> rule.until, ex |-> {}, over |-> {}]]

SaveFollowing(e, at) ==
    /\ ed[e].pc = "viewing"
    /\ row # None /\ file # None
    /\ Submit(e, Split(e, at, file, [count |-> TailCount(file, ed[e].of.rid), until |-> file.until]))

\* SeriesTailRule's error is dropped: the series is cut all the same, and the new one
\* has the rule the client saw, its COUNT from the start.
SaveUnread(e, at) ==
    /\ ed[e].pc = "viewing"
    /\ faults < MaxFaults
    /\ faults' = faults + 1
    /\ Become(e, [pc |-> "read", op |-> Split(e, at, None, ed[e].rule), tries |-> 0])
    /\ UNCHANGED <<file, row, created, edits>>

\* "All": the master moves by the shift of the occurrence.  Start and EXDATEs come
\* from the index row as it is now, the rule from what the client saw.
SaveAll(e, at) ==
    /\ ed[e].pc = "viewing"
    /\ row # None
    /\ row.start + (at - ed[e].of.rid) \in Time
    /\ Submit(e, [kind |-> "replace",
                  master |-> [start |-> row.start + (at - ed[e].of.rid),
                              count |-> ed[e].rule.count, until |-> ed[e].rule.until,
                              ex |-> row.ex, over |-> {}]])

DeleteAll(e) ==
    /\ ed[e].pc = "viewing"
    /\ file' = None
    /\ row' = None
    /\ Become(e, Idle)
    /\ UNCHANGED <<created, edits, faults>>

\* The user closes the editor, or the request is answered 404.
Cancel(e) ==
    /\ ed[e].pc = "viewing"
    /\ Become(e, Idle)
    /\ UNCHANGED <<file, row, created, edits, faults>>

-----------------------------------------------------------------------------
(* editSeries *)

ReadFile(e) ==
    /\ ed[e].pc = "read"
    /\ Become(e, IF row # None /\ file # None
                 THEN [pc |-> "write", op |-> ed[e].op, tries |-> ed[e].tries, base |-> file]
                 ELSE Idle)
    /\ UNCHANGED <<file, row, created, edits, faults>>

\* MUTANT of Matches: the write back carries no If-Match.
MatchesAny(e) == row # None

\* PutRaw's If-Match: the row describes the bytes that were read.
Matches(e) == row = ed[e].base

WriteBack(e) ==
    /\ ed[e].pc = "write"
    /\ Matches(e)
    /\ file' = Apply(ed[e].op, ed[e].base)
    /\ row' = file'
    /\ Become(e, IF ed[e].op.kind = "split"
                 THEN [pc |-> "create", next |-> ed[e].op.next] ELSE Idle)
    /\ UNCHANGED <<created, edits, faults>>

\* MUTANT of Retry: it tries for ever.
RetryForever(e) ==
    /\ ed[e].pc = "write"
    /\ ~Matches(e)
    /\ Become(e, [pc |-> "read", op |-> ed[e].op, tries |-> ed[e].tries])
    /\ UNCHANGED <<file, row, created, edits, faults>>

\* ErrPreconditionFailed: read again, or give up after the last attempt.
Retry(e) ==
    /\ ed[e].pc = "write"
    /\ ~Matches(e)
    /\ Become(e, IF ed[e].tries + 1 < MaxTries
                 THEN [pc |-> "read", op |-> ed[e].op, tries |-> ed[e].tries + 1] ELSE Idle)
    /\ UNCHANGED <<file, row, created, edits, faults>>

\* The second half of a split: the new series is stored under a fresh UID.
Create(e) ==
    /\ ed[e].pc = "create"
    /\ created' = created \cup {ed[e].next}
    /\ Become(e, Idle)
    /\ UNCHANGED <<file, row, edits, faults>>

Step(e) == ReadFile(e) \/ WriteBack(e) \/ Retry(e) \/ Create(e)

-----------------------------------------------------------------------------
(* Faults *)

\* The bytes are written and the index transaction fails: the request ends in a
\* 500, and a split ends without its second half.
IndexFails(e) ==
    /\ ed[e].pc = "write"
    /\ Matches(e)
    /\ faults < MaxFaults
    /\ faults' = faults + 1
    /\ file' = Apply(ed[e].op, ed[e].base)
    /\ Become(e, Idle)
    /\ UNCHANGED <<row, created, edits>>

\* Every request is lost and the restart reconciles the row with the file.
Crash ==
    /\ faults < MaxFaults
    /\ faults' = faults + 1
    /\ row' = file
    /\ ed' = [e \in Editors |-> Idle]
    /\ UNCHANGED <<file, created, edits>>

-----------------------------------------------------------------------------
Client(e) ==
    \/ \E i \in Instance : View(e, i)
    \/ \E at \in Starts : SaveThis(e, at) \/ SaveAll(e, at)
    \/ \E at \in Starts : SaveFollowing(e, at) \/ SaveUnread(e, at)
    \/ DeleteThis(e) \/ DeleteFollowing(e) \/ DeleteAll(e) \/ Cancel(e)

Next ==
    \/ \E e \in Editors : Client(e) \/ Step(e) \/ IndexFails(e)
    \/ Crash

Spec == Init /\ [][Next]_vars

\* A request handler that has started goes on; clients need do nothing.
FairSpec == Spec /\ \A e \in Editors : WF_vars(Step(e))

-----------------------------------------------------------------------------
(* Properties *)

\* editSeries's comment: "two simultaneous scoped edits cannot silently lose one
\* another".  Every edit the index acknowledges is its transformation of what the
\* index held at that moment, whatever was read and computed before.
EditsAreAtomic ==
    [][row' \notin {row, None, file} =>
          \E e \in Editors : ed[e].pc = "write" /\ row' = Apply(ed[e].op, row)]_vars

\* A customised occurrence is only lost to an edit of that occurrence or a cut
\* before it: not to an "all" edit, nor to an edit of another occurrence.
OverridesSurvive ==
    [][row # None /\ row' \notin {None, file} =>
          \A v \in row.over \ row'.over :
              \E e \in Editors :
                  /\ ed[e].pc = "write"
                  /\ CASE ed[e].op.kind = "override" -> ed[e].op.to.rid = v.rid
                       [] ed[e].op.kind = "exclude"  -> ed[e].op.occ = v.rid
                       [] ed[e].op.kind = "replace"  -> FALSE
                       [] OTHER -> ed[e].op.occ <= v.rid]_vars

\* What a rule generates before an occurrence and deletions hide, and a series of so
\* many more repetitions.
Hidden(s, occ) == {t \in Generated(s) \cap s.ex : t < occ}
Longer(s, n)   == [s EXCEPT !.count = {c + n : c \in @}]

\* A split puts every repetition of the rule into exactly one of the two series: what
\* the cut takes away is what TailRule's COUNT gives back, but for the deletions before
\* the cut, which TailRule does not count: by so many the new series is too long.  When
\* TailRule read the series that is then cut, and the new one begins where it ends.
SplitIsExact ==
    \A e \in Editors :
        ed[e].pc = "write" /\ ed[e].op.kind = "split" =>
            LET op   == ed[e].op
                head == Generated(Apply(op, ed[e].base))
                tail == Generated(op.next) IN
            op.seen = ed[e].base /\ op.next.start = op.occ /\ op.occ \in Generated(op.seen)
            => /\ head \cup tail = Generated(Longer(op.seen, Cardinality(Hidden(op.seen, op.occ))))
               /\ head \cap tail = {}

\* Any window shows every instance that starts in it, where it takes place now, never
\* one that was deleted, and besides only those whose original start lies in it (its end
\* included) though they were moved out; adjacent views of a calendar miss nothing.
ExpandIsComplete ==
    file # None =>
        \A from, to \in Time :
            LET shown == ExpandSeries(file, from, to) IN
            /\ {i \in Instances(file) : from <= i.at /\ i.at < to} \subseteq shown
            /\ shown \subseteq {i \in Instances(file) :
                                  (from <= i.at /\ i.at < to) \/ (from <= i.rid /\ i.rid <= to)}

\* What makes SplitIsExact inductive: the new series of a split keeps the rule that
\* TailRule made of the series the handler saw, if it could read it.
Drawn(op) ==
    op.kind = "split" /\ op.seen # None =>
        op.next.count = TailCount(op.seen, op.occ) /\ op.next.until = op.seen.until

SplitDrawn == \A e \in Editors : ed[e].pc \in {"read", "write"} => Drawn(ed[e].op)

SeriesInv == TypeOK /\ SplitDrawn

\* Every request ends, also when index and file are apart and no attempt can match.
EditEnds ==
    \A e \in Editors : (ed[e].pc \in {"read", "write", "create"}) ~> (ed[e] = Idle)
=============================================================================
