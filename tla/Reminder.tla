------------------------------ MODULE Reminder ------------------------------
(***************************************************************************)
(* The reminder loop (backend/internal/reminder/reminder.go): on every     *)
(* tick it scans all calendars for alarms due since the last window and    *)
(* raises each through the notify service, which keeps one notification    *)
(* per dedupe key, for as long as it remembers the key.  A scan that fails *)
(* is repeated over a longer window.  Events are edited while it runs,     *)
(* ticks are missed while a scan takes long, the wall clock is set, the    *)
(* daemon restarts.                                                        *)
(*                                                                         *)
(* An alarm is one VALARM of one occurrence of the event [cal, uid]; the   *)
(* ticker's period is the unit of time.  Alarms are compared by the wall   *)
(* clock, retries are timed by the monotonic one: an instant has both      *)
(* readings.                                                               *)
(***************************************************************************)
EXTENDS Integers

CONSTANTS
    Alarms,     \* the alarms: see Alarm
    Starts,     \* when an occurrence may start
    None,       \* no event, an empty ticker
    LookAhead,  \* lookAhead (40 days)
    BackWindow, \* backWindow (25 hours)
    MaxRetry,   \* maxRetryWindow (1 hour)
    MaxTime,    \* bound on the monotonic clock
    MaxEdits,   \* bound on edits of events
    MaxFaults   \* bound on failures, clock changes and restarts

\* off is the trigger, relative to the start or the end of an occurrence of length len.
Alarm == [cal : STRING, uid : STRING, action : {"DISPLAY", "EMAIL"}, off : Int,
          related : {"START", "END"}, len : Nat, recurring : BOOLEAN]

ASSUME ReminderAssumption ==
    /\ Alarms \subseteq Alarm
    /\ Starts \subseteq Int /\ None \notin Starts
    /\ LookAhead \in Nat /\ BackWindow \in Nat /\ MaxRetry \in Nat
    /\ MaxTime \in Nat /\ MaxEdits \in Nat /\ MaxFaults \in Nat

VARIABLES
    now,        \* the present
    slot,       \* the ticker's channel: one tick, or None
    last,       \* the end of the last window that is done with
    phase,      \* the loop: "wait", "scan" or "emit"
    until,      \* the end of the window under way
    todo,       \* calendars still to scan
    failed,     \* calendars whose scan failed
    due,        \* alarms found, with their occurrence's start
    start,      \* per alarm, the start of its occurrence, None when there is none
    sent,       \* the dedupe keys the notify service remembers
    raised,     \* history: alarms a notification was raised for
    again,      \* history: alarms raised a second time, by windows that do not overlap
    reached,    \* history: the latest wall time that a window has reached
    timely,     \* history: alarms set before their time came
    excused,    \* history: alarms lost to a failure, see NoneMissed
    handled,    \* history: the monotonic time of the tick before this one
    edits,      \* edits so far, bounded by MaxEdits
    faults      \* faults so far, bounded by MaxFaults

loop    == <<last, phase, until, todo, failed, due>>
history == <<raised, again, reached, timely, excused, handled>>
vars    == <<now, slot, loop, start, sent, history, edits, faults>>

Instant == [wall : Int, mono : Nat]
Cals    == {a.cal : a \in Alarms}
Found   == [alarm : Alarms, start : Starts]

TypeOK ==
    /\ now \in Instant /\ last \in Instant /\ until \in Instant
    /\ slot \in Instant \cup {None}
    /\ phase \in {"wait", "scan", "emit"}
    /\ todo \subseteq Cals /\ failed \subseteq Cals
    /\ due \subseteq Found
    /\ start \in [Alarms -> Starts \cup {None}]
    /\ raised \subseteq Found /\ again \subseteq Found /\ excused \subseteq Found
    /\ timely \subseteq Alarms
    /\ reached \in Int /\ handled \in Nat /\ edits \in Nat /\ faults \in Nat

Init ==
    /\ now = [wall |-> 0, mono |-> 0]
    /\ slot = None /\ last = now /\ until = now
    /\ phase = "wait" /\ todo = {} /\ failed = {} /\ due = {}
    /\ start = [a \in Alarms |-> None]
    /\ sent = {} /\ raised = {} /\ again = {} /\ timely = {} /\ excused = {}
    /\ reached = 0 /\ handled = 0 /\ edits = 0 /\ faults = 0

-----------------------------------------------------------------------------
\* From the start of the occurrence to the moment the alarm fires.
Offset(a) == a.off + IF a.related = "END" THEN a.len ELSE 0

FireTime(f) == f.start + Offset(f.alarm)

\* MUTANT of Fires: the window has both its ends, [last, until].
FiresAtBothEnds(f) == last.wall <= FireTime(f) /\ FireTime(f) <= until.wall

\* appendDue: does the alarm fire in (last, until]?
Fires(f) == last.wall < FireTime(f) /\ FireTime(f) <= until.wall

\* ListEvents over [last - backWindow, until + lookAhead): an occurrence of a series is
\* looked up by its start, any other event by its span.
Listed(f) ==
    LET from == last.wall - BackWindow
        to   == until.wall + LookAhead IN
    IF f.alarm.recurring THEN from <= f.start /\ f.start <= to
    ELSE f.start < to /\ f.start + f.alarm.len > from

Standing == {[alarm |-> a, start |-> start[a]] : a \in {b \in Alarms : start[b] # None}}

\* The dedupe key: user and calendar, UID, start, trigger and action.  What the trigger is
\* related to is not in it: two alarms of an event may share a key.
Dedupe(f) == <<f.alarm.cal, f.alarm.uid, f.start, f.alarm.off, f.alarm.action>>

\* A notification with this alarm's key was raised.
Told(f) == \E g \in raised : Dedupe(g) = Dedupe(f)

-----------------------------------------------------------------------------
(* Time *)

\* A tick is sent every unit of time; it is dropped when one is waiting.
Pass ==
    /\ now.mono < MaxTime
    /\ now' = [wall |-> now.wall + 1, mono |-> now.mono + 1]
    /\ slot' = IF slot = None THEN now' ELSE slot
    /\ UNCHANGED <<loop, start, sent, history, edits, faults>>

Fault == faults < MaxFaults /\ faults' = faults + 1 /\ UNCHANGED edits

\* The wall clock is set.
SetClock(t) ==
    /\ Fault
    /\ t # now.wall
    /\ now' = [now EXCEPT !.wall = t]
    /\ UNCHANGED <<slot, loop, start, sent, history>>

\* The notify service forgets a key when its retention is over.
Forget(k) ==
    /\ Fault
    /\ k \in sent
    /\ sent' = sent \ {k}
    /\ UNCHANGED <<now, slot, loop, start, history>>

SameEvent(a, b) == a.cal = b.cal /\ a.uid = b.uid

\* The alarm is still to come, by the clock and by the windows begun.
StillToCome(f) == \A i \in {now, last, until} : i.wall < FireTime(f)

\* The event of alarm b is put at s, with the alarms kept; it is deleted when there are
\* none.  An alarm that is new or moved is timely when it is still to come.
Edit(b, kept, s) ==
    /\ edits < MaxEdits
    /\ edits' = edits + 1
    /\ start' = [a \in Alarms |-> CASE ~SameEvent(a, b) -> start[a]
                                   [] a \in kept -> s
                                   [] OTHER -> None]
    /\ start' # start
    /\ timely' = {a \in Alarms : IF start'[a] = start[a] THEN a \in timely
                                 ELSE a \in kept /\ StillToCome([alarm |-> a, start |-> s])}
    /\ UNCHANGED <<now, slot, loop, sent, raised, again, reached, excused, handled, faults>>

-----------------------------------------------------------------------------
(* The loop *)

Tick ==
    /\ phase = "wait"
    /\ slot # None
    /\ slot' = None
    /\ until' = slot
    /\ phase' = "scan"
    /\ todo' = Cals
    /\ failed' = {} /\ due' = {}
    /\ UNCHANGED <<now, last, start, sent, history, edits, faults>>

Scan(c) ==
    /\ phase = "scan"
    /\ c \in todo
    /\ todo' = todo \ {c}
    /\ due' = due \cup {f \in Standing : f.alarm.cal = c /\ Listed(f) /\ Fires(f)}
    /\ UNCHANGED <<now, slot, last, phase, until, failed, start, sent, history, edits, faults>>

\* The error is remembered and the other calendars are scanned all the same.
ScanFails(c) ==
    /\ phase = "scan"
    /\ c \in todo
    /\ Fault
    /\ todo' = todo \ {c}
    /\ failed' = failed \cup {c}
    /\ UNCHANGED <<now, slot, last, phase, until, due, start, sent, history>>

Scanned ==
    /\ phase = "scan"
    /\ todo = {}
    /\ phase' = "emit"
    /\ UNCHANGED <<now, slot, last, until, todo, failed, due, start, sent, history, edits, faults>>

\* The window reaches back behind the end of an earlier one: it is a second try, or the
\* wall clock was set back.
Overlaps == last.wall < reached

\* notify drops a key it remembers.
Emit(f) ==
    /\ phase = "emit"
    /\ f \in due
    /\ due' = due \ {f}
    /\ sent' = sent \cup {Dedupe(f)}
    /\ raised' = IF Dedupe(f) \in sent THEN raised ELSE raised \cup {f}
    /\ again' = IF Dedupe(f) \notin sent /\ f \in raised /\ ~Overlaps
                THEN again \cup {f} ELSE again
    /\ UNCHANGED <<now, slot, last, phase, until, todo, failed, start, reached, timely, excused,
                   handled, edits, faults>>

\* The notify service does not answer: logged, and the window counts as done.
EmitFails(f) ==
    /\ phase = "emit"
    /\ f \in due
    /\ Fault
    /\ due' = due \ {f}
    /\ excused' = excused \cup {f}
    /\ UNCHANGED <<now, slot, last, phase, until, todo, failed, start, sent, raised, again, reached,
                   timely, handled>>

\* A window that was repeated for longer than maxRetryWindow is given up.
TooLong == until.mono - last.mono > MaxRetry

\* MUTANTS of Over: every window is done with; a failing window is never given up.
OverAlways == TRUE
OverNoLimit == failed = {}

Later(t, u) == IF t < u THEN u ELSE t

\* The window is done with when every calendar was scanned, or it has become too long.
Over == failed = {} \/ TooLong

\* Every notification was tried: the window is closed, or kept for the next tick.
Finish ==
    /\ phase = "emit"
    /\ due = {}
    /\ phase' = "wait"
    /\ last' = IF Over THEN until ELSE last
    /\ excused' = IF TooLong THEN excused \cup {f \in Standing : f.alarm.cal \in failed /\ Fires(f)}
                  ELSE excused
    /\ reached' = Later(reached, until.wall)
    /\ handled' = until.mono
    /\ UNCHANGED <<now, slot, until, todo, failed, due, start, sent, raised, again, timely, edits,
                   faults>>

\* MUTANT of Restart: the window has no beginning.
RestartUnset ==
    /\ Fault
    /\ last' = None
    /\ UNCHANGED <<now, slot, phase, until, todo, failed, due, start, sent, history>>

\* The daemon restarts: "reminders already past at startup are not back-fired".
Restart ==
    /\ Fault
    /\ last' = now /\ until' = now
    /\ slot' = None
    /\ phase' = "wait" /\ todo' = {} /\ failed' = {} /\ due' = {}
    /\ excused' = excused \cup {f \in Standing : FireTime(f) <= now.wall}
    /\ reached' = Later(reached, until.wall)
    /\ handled' = now.mono
    /\ UNCHANGED <<now, start, sent, raised, again, timely>>

-----------------------------------------------------------------------------
Loop ==
    \/ Tick
    \/ \E c \in Cals : Scan(c)
    \/ Scanned
    \/ \E f \in due : Emit(f)
    \/ Finish

Next ==
    \/ Pass
    \/ Loop
    \/ \E b \in Alarms, s \in Starts :
          \E kept \in SUBSET {a \in Alarms : SameEvent(a, b)} : Edit(b, kept, s)
    \/ \E c \in Cals : ScanFails(c)
    \/ \E f \in due : EmitFails(f)
    \/ \E t \in 0 .. MaxTime : SetClock(t)
    \/ \E k \in sent : Forget(k)
    \/ Restart

Spec == Init /\ [][Next]_vars

-----------------------------------------------------------------------------
(* Properties *)

\* What the two window constants are for: the alarm fires no earlier before its
\* occurrence, and no later after it, than the scan looks.  backWindow counts from the
\* end of a single event, but from the start of a series' occurrence.
Supported(a) ==
    /\ -Offset(a) < LookAhead
    /\ Offset(a) <= BackWindow + IF a.recurring THEN 0 ELSE a.len

\* Between two ticks, no alarm that was set in good time and whose time the windows have
\* passed is missing: every window begins where the last finished one ended, through
\* failing scans, missed ticks, clock changes and events moved during a scan.  Excused is
\* what was lost to a fault: an emit that failed, a restart, a window given up.  That the
\* alarm's key was raised is all that holds: of two alarms of an event that differ only in
\* what they are related to, the service drops the second (reminder.go:103).
NoneMissed ==
    phase = "wait" =>
        \A f \in Standing :
            /\ f.alarm \in timely
            /\ Supported(f.alarm)
            /\ FireTime(f) <= last.wall
            => Told(f) \/ f \in excused

\* The service's memory of keys is needed for second tries and for a clock set back, and
\* for nothing else: without it, no alarm falls into two windows, at their ends or around
\* a restart, however the event is moved to and fro.
RaisedOnce == again = {}

\* A window that keeps failing is not repeated for longer than maxRetryWindow.
RetriesAreBounded ==
    phase = "scan" => handled - last.mono <= MaxRetry

\* What makes them inductive.  The keys the service remembers are those of alarms that
\* were raised.  Of the alarms NoneMissed is about, those the finished windows have passed
\* are settled in every phase, and those of the window under way whose calendar was scanned
\* are so too, or found.  What was found fires in the window under way; what was raised lies
\* within what windows have reached, or is done with in the one under way.  No window that
\* is tried again is too long.
Promised == {f \in Standing : f.alarm \in timely /\ Supported(f.alarm)}
Passed(f) == FireTime(f) <= last.wall
Settled(f) == Told(f) \/ f \in excused

LoopInv ==
    /\ \A k \in sent : \E f \in raised : k = Dedupe(f)
    /\ \A f \in Promised : Passed(f) => Settled(f)
    /\ phase # "wait" =>
          /\ \A f \in Promised : Fires(f) /\ f.alarm.cal \notin todo \cup failed =>
                f \in due \/ Settled(f)
          /\ \A f \in due : Fires(f)
    /\ \A f \in raised : \/ FireTime(f) <= reached
                          \/ /\ phase = "emit"
                             /\ FireTime(f) <= until.wall /\ f \notin due
    /\ phase = "emit" => todo = {}
    /\ handled - last.mono <= MaxRetry

ReminderInv ==
    /\ TypeOK
    /\ LoopInv
    /\ RaisedOnce
=============================================================================
