----------------------------- MODULE Recurrence -----------------------------
(***************************************************************************)
(* The recurrence algebra of backend/internal/ical/ical.go: a series is    *)
(* one .ics resource, its master VEVENT and the RECURRENCE-ID overrides of *)
(* single occurrences.  Time is counted in units of the smallest step the  *)
(* code takes (the second TruncateSeries and TailRule go back); a rule     *)
(* repeats every Period units.  A series' times are its starts; its length *)
(* is the constant Length.                                                 *)
(***************************************************************************)
EXTENDS Integers, FiniteSets

CONSTANTS
    Period,     \* distance of two occurrences of a rule
    Length,     \* duration of an occurrence
    Horizon     \* bound: no time beyond it is looked at

ASSUME RecurrenceAssumption ==
    /\ Period \in Nat \ {0, 1}
    /\ Length \in Nat \ {0}
    /\ Horizon \in Nat

Time == 0 .. Horizon

\* An instance is named by the start its rule gives it and takes place at `at'.
Instance == [rid : Time, at : Time]

\* count and until hold at most one element: RRULE's COUNT and UNTIL.
Series == [start : Time, count : SUBSET (Nat \ {0}), until : SUBSET Int,
           ex : SUBSET Time, over : SUBSET Instance]

-----------------------------------------------------------------------------
(* Reading *)

\* What the RRULE generates.
Generated(s) ==
    {t \in Time : /\ t >= s.start
                  /\ (t - s.start) % Period = 0
                  /\ \A n \in s.count : t < s.start + n * Period
                  /\ \A u \in s.until : t <= u}

\* RecurrenceSet.Between(from, to, inclusive): it honours EXDATE.
Between(s, from, to) == {t \in Generated(s) \ s.ex : from <= t /\ t <= to}

Overridden(s) == {v.rid : v \in s.over}

\* MUTANT of MovedIn: an override shows only where its original start is.
MovedInNot(s, from, to) == {}

\* Overrides whose occurrence is not in the window but which take place there.
MovedIn(s, from, to) ==
    {v \in s.over : v.rid \notin Between(s, from, to) /\ from <= v.at /\ v.at < to}

\* ExpandSeries: what ListEvents (and the free/busy report) shows of a series.
ExpandSeries(s, from, to) ==
    {[rid |-> t, at |-> t] : t \in Between(s, from, to) \ Overridden(s)}
    \cup {v \in s.over : v.rid \in Between(s, from, to)}
    \cup MovedIn(s, from, to)

-----------------------------------------------------------------------------
(* Editing *)

\* "This event only": an override replaces the occurrence's earlier override.
Override(s, i) == [s EXCEPT !.over = {v \in @ : v.rid # i.rid} \cup {i}]

\* Deletes one occurrence: an EXDATE, and no override is left for it.
Exclude(s, occ) == [s EXCEPT !.ex = @ \cup {occ}, !.over = {v \in @ : v.rid # occ}]

\* MUTANT of Truncate: the rule is cut at the occurrence itself.
TruncateLate(s, until) ==
    [s EXCEPT !.count = {}, !.until = {until + 1}, !.over = {v \in @ : v.rid <= until}]

\* UNTIL takes the place of COUNT and of any earlier UNTIL; later overrides go.
Truncate(s, until) ==
    [s EXCEPT !.count = {}, !.until = {until}, !.over = {v \in @ : v.rid <= until}]

\* MUTANT of ReplaceMaster: the overrides are those of the new model, which has none.
ReplaceMasterOnly(s, master) == master

\* The "all events" edit: a new master, the same overrides.
ReplaceMaster(s, master) == [master EXCEPT !.over = s.over]

\* MUTANT of Remaining: the clamp to one occurrence is missing.
RemainingUnclamped(n, before) == n - before

Remaining(n, before) == IF n - before < 1 THEN 1 ELSE n - before

\* TailRule's COUNT for a series split at occ; UNTIL carries over unchanged.
TailCount(s, occ) ==
    {Remaining(n, Cardinality(Between(s, s.start, occ - 1))) : n \in s.count}

-----------------------------------------------------------------------------
(* The reference: which instances a series has. *)

Instances(s) ==
    s.over \cup {[rid |-> t, at |-> t] : t \in (Generated(s) \ s.ex) \ Overridden(s)}
=============================================================================
