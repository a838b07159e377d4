--------------------------- MODULE ReminderProofs ---------------------------
(***************************************************************************)
(* Proofs about Reminder, for any alarms, starts, constants of the loop    *)
(* and number of edits, faults and ticks.  At the centre is the window of  *)
(* a scan, (last, until]: what it has passed is settled, what it covers is *)
(* settled calendar by calendar, and an edit never puts an alarm that was  *)
(* set in time inside it.                                                  *)
(***************************************************************************)
EXTENDS Reminder, TLAPS

-----------------------------------------------------------------------------
(* Alarms and occurrences *)

LEMMA OffsetType == ASSUME NEW a \in Alarms PROVE Offset(a) \in Int
  BY ReminderAssumption DEF Alarm, Offset

LEMMA FoundFields ==
    ASSUME NEW f \in Found
    PROVE  /\ f.alarm \in Alarms /\ f.start \in Int /\ f.alarm.cal \in Cals
           /\ Offset(f.alarm) \in Int /\ FireTime(f) \in Int
           /\ f = [alarm |-> f.alarm, start |-> f.start]
  <1>1. f.alarm \in Alarms /\ f.start \in Int /\ f = [alarm |-> f.alarm, start |-> f.start]
    BY ReminderAssumption DEF Found
  <1>2. f.alarm.cal \in Cals
    BY <1>1 DEF Cals
  <1>3. Offset(f.alarm) \in Int
    BY <1>1, OffsetType
  <1> QED
    BY <1>1, <1>2, <1>3 DEF FireTime

LEMMA StandingFound ==
    ASSUME TypeOK, NEW f \in Standing
    PROVE  f \in Found /\ f.start = start[f.alarm] /\ start[f.alarm] # None
  BY DEF TypeOK, Standing, Found

\* What the scan looks at is enough for every alarm the two constants support.
LEMMA SupportedIsListed ==
    ASSUME TypeOK, NEW f \in Found, Supported(f.alarm), Fires(f) PROVE Listed(f)
  <1>1. /\ f.start \in Int /\ Offset(f.alarm) \in Int /\ f.alarm.len \in Nat
        /\ last.wall \in Int /\ until.wall \in Int
        /\ LookAhead \in Nat /\ BackWindow \in Nat
    BY FoundFields, ReminderAssumption DEF TypeOK, Instant, Alarm
  <1>2. last.wall < f.start + Offset(f.alarm) /\ f.start + Offset(f.alarm) <= until.wall
    BY DEF Fires, FireTime
  <1>3. CASE f.alarm.recurring
    BY <1>1, <1>2, <1>3 DEF Supported, Listed
  <1>4. CASE ~f.alarm.recurring
    BY <1>1, <1>2, <1>4 DEF Supported, Listed
  <1> QED
    BY <1>3, <1>4

-----------------------------------------------------------------------------
(* Time and edits *)

\* As long as no event is edited the same alarms are promised.
LEMMA SamePromises ==
    ASSUME UNCHANGED <<start, timely>> PROVE Standing' = Standing /\ Promised' = Promised
  BY DEF Standing, Promised

\* A step that only lets time pass, or waits in the same window, keeps the invariant.
LEMMA SameWindow ==
    ASSUME ReminderInv, TypeOK', sent' \subseteq sent,
           UNCHANGED <<last, phase, until, todo, failed, due, start, history>>
    PROVE  ReminderInv'
  <1>1. Promised' = Promised
    BY SamePromises DEF history
  <1>2. ASSUME NEW f
        PROVE  /\ Passed(f)' <=> Passed(f)
               /\ Fires(f)' <=> Fires(f)
               /\ Settled(f)' <=> Settled(f)
    BY DEF Passed, Fires, Settled, Told, history
  <1>3. LoopInv'
    BY <1>1, <1>2 DEF ReminderInv, LoopInv, history
  <1> QED
    BY <1>3 DEF ReminderInv, RaisedOnce, history

LEMMA PassInv == ASSUME ReminderInv, Pass PROVE ReminderInv'
  <1>1. TypeOK'
    BY DEF ReminderInv, TypeOK, Pass, Instant, loop, history
  <1> QED
    BY <1>1, SameWindow DEF Pass, loop

LEMMA SetClockInv == ASSUME ReminderInv, NEW t \in Int, SetClock(t) PROVE ReminderInv'
  <1>1. TypeOK'
    BY DEF ReminderInv, TypeOK, SetClock, Fault, Instant, loop, history
  <1> QED
    BY <1>1, SameWindow DEF SetClock, loop

LEMMA ForgetInv == ASSUME ReminderInv, NEW k \in sent, Forget(k) PROVE ReminderInv'
  <1>1. TypeOK'
    BY DEF ReminderInv, TypeOK, Forget, Fault, loop, history
  <1> QED
    BY <1>1, SameWindow DEF Forget, loop

LEMMA EditInv ==
    ASSUME ReminderInv, NEW b \in Alarms, NEW s \in Starts,
           NEW kept \in SUBSET {a \in Alarms : SameEvent(a, b)}, Edit(b, kept, s)
    PROVE  ReminderInv'
  <1>1. /\ TypeOK /\ LoopInv /\ RaisedOnce
        /\ UNCHANGED <<now, slot, loop, sent, raised, again, reached, excused, handled, faults>>
        /\ edits' = edits + 1
    BY DEF ReminderInv, Edit
  <1>2. /\ start' = [a \in Alarms |-> CASE ~SameEvent(a, b) -> start[a]
                                       [] a \in kept -> s
                                       [] OTHER -> None]
        /\ timely' = {a \in Alarms : IF start'[a] = start[a] THEN a \in timely
                                     ELSE a \in kept /\ StillToCome([alarm |-> a, start |-> s])}
    BY DEF Edit
  <1>3. TypeOK'
    BY <1>1, <1>2 DEF TypeOK, loop
  <1>4. ASSUME NEW f \in Promised' PROVE f \in Promised \/ ~ (Passed(f)' \/ Fires(f)')
    <2>1. /\ f \in Standing' /\ f.alarm \in timely' /\ Supported(f.alarm)
          /\ f \in Found /\ f.start = start'[f.alarm] /\ start'[f.alarm] # None
      BY <1>3, StandingFound DEF Promised, Standing, TypeOK, Found
    <2>2. CASE start'[f.alarm] # start[f.alarm]
      <3>1. f.alarm \in kept /\ StillToCome([alarm |-> f.alarm, start |-> s])
        BY <1>2, <2>1, <2>2
      <3>2. f.start = s
        BY <1>2, <2>1, <3>1, FoundFields
      <3>3. last.wall < FireTime(f) /\ until.wall < FireTime(f)
        BY <2>1, <3>1, <3>2, FoundFields DEF StillToCome
      <3>4. FireTime(f) \in Int /\ last.wall \in Int /\ until.wall \in Int
        BY <1>1, <2>1, FoundFields DEF TypeOK, Instant
      <3> QED
        BY <1>1, <3>3, <3>4 DEF Passed, Fires, loop
    <2>3. CASE start'[f.alarm] = start[f.alarm]
      <3>1. f.alarm \in Alarms /\ f.alarm \in timely
            /\ start[f.alarm] # None /\ f = [alarm |-> f.alarm, start |-> start[f.alarm]]
        BY <1>2, <2>1, <2>3, FoundFields
      <3>2. f \in Standing
        BY <3>1 DEF Standing
      <3> QED
        BY <2>1, <3>1, <3>2 DEF Promised
    <2> QED
      BY <2>2, <2>3
  <1>5. ASSUME NEW f
        PROVE  /\ Passed(f)' <=> Passed(f)
               /\ Fires(f)' <=> Fires(f)
               /\ Settled(f)' <=> Settled(f)
    BY <1>1 DEF Passed, Fires, Settled, Told, loop
  <1>6. LoopInv'
    BY <1>1, <1>4, <1>5 DEF LoopInv, loop
  <1> QED
    BY <1>1, <1>3, <1>6 DEF ReminderInv, RaisedOnce

-----------------------------------------------------------------------------
(* The loop *)

LEMMA TickInv == ASSUME ReminderInv, Tick PROVE ReminderInv'
  <1>1. /\ TypeOK /\ LoopInv /\ RaisedOnce
        /\ slot \in Instant /\ until' = slot /\ phase = "wait" /\ phase' = "scan" /\ todo' = Cals
        /\ due' = {}
        /\ UNCHANGED <<now, last, start, sent, history, edits, faults>>
    BY DEF ReminderInv, Tick, TypeOK
  <1>2. TypeOK'
    BY <1>1 DEF TypeOK, Tick, history
  <1>3. Promised' = Promised /\ \A f \in Promised : f.alarm.cal \in todo'
    BY <1>1, SamePromises, StandingFound, FoundFields DEF Promised, history
  <1>4. ASSUME NEW f PROVE (Passed(f)' <=> Passed(f)) /\ (Settled(f)' <=> Settled(f))
    BY <1>1 DEF Passed, Settled, Told, history
  <1>5. LoopInv'
    BY <1>1, <1>3, <1>4 DEF LoopInv, history
  <1> QED
    BY <1>1, <1>2, <1>5 DEF ReminderInv, RaisedOnce, history

\* A scan, or its failure, settles one calendar of the window; the rest is left alone.
LEMMA ScanInv ==
    ASSUME ReminderInv, NEW c \in Cals, Scan(c) \/ ScanFails(c) PROVE ReminderInv'
  <1>1. /\ TypeOK /\ LoopInv /\ RaisedOnce /\ phase = "scan"
        /\ todo' = todo \ {c} /\ failed \subseteq failed' /\ due \subseteq due'
        /\ \A f \in due' \ due : f \in Standing /\ Fires(f)
        /\ UNCHANGED <<now, slot, last, phase, until, start, sent, history>>
    BY DEF ReminderInv, Scan, ScanFails
  <1>2. TypeOK'
    <2>1. failed' \subseteq Cals /\ edits' \in Nat /\ faults' \in Nat
      BY <1>1 DEF Scan, ScanFails, Fault, TypeOK
    <2>2. due' \subseteq Found
      BY <1>1, StandingFound DEF TypeOK
    <2> QED
      BY <1>1, <2>1, <2>2 DEF TypeOK, history
  <1>3. Promised' = Promised
    BY <1>1, SamePromises DEF history
  <1>4. ASSUME NEW f
        PROVE  /\ Passed(f)' <=> Passed(f)
               /\ Fires(f)' <=> Fires(f)
               /\ Settled(f)' <=> Settled(f)
    BY <1>1 DEF Passed, Fires, Settled, Told, history
  <1>5. ASSUME NEW f \in Promised, Fires(f), f.alarm.cal \notin todo' \cup failed'
        PROVE  f \in due' \/ Settled(f)
    <2>1. f \in Standing /\ f \in Found /\ Supported(f.alarm)
      BY <1>1, StandingFound DEF Promised
    <2>2. CASE f.alarm.cal = c
      <3>1. Scan(c)
        BY <1>5, <2>2 DEF ScanFails
      <3>2. Listed(f)
        BY <1>1, <1>5, <2>1, SupportedIsListed
      <3> QED
        BY <1>5, <2>1, <2>2, <3>1, <3>2 DEF Scan
    <2>3. CASE f.alarm.cal # c
      BY <1>1, <1>5, <2>3 DEF LoopInv
    <2> QED
      BY <2>2, <2>3
  <1>6. \A f \in due' : Fires(f)
    BY <1>1 DEF LoopInv
  <1>7. LoopInv'
    BY <1>1, <1>3, <1>4, <1>5, <1>6 DEF LoopInv, history
  <1> QED
    BY <1>1, <1>2, <1>7 DEF ReminderInv, RaisedOnce, history

LEMMA ScannedInv == ASSUME ReminderInv, Scanned PROVE ReminderInv'
  <1>1. /\ TypeOK /\ LoopInv /\ RaisedOnce /\ phase = "scan" /\ phase' = "emit" /\ todo = {}
        /\ UNCHANGED <<now, slot, last, until, todo, failed, due, start, sent, history, edits, faults>>
    BY DEF ReminderInv, Scanned
  <1>2. Promised' = Promised
    BY <1>1, SamePromises DEF history
  <1>3. ASSUME NEW f
        PROVE  /\ Passed(f)' <=> Passed(f)
               /\ Fires(f)' <=> Fires(f)
               /\ Settled(f)' <=> Settled(f)
    BY <1>1 DEF Passed, Fires, Settled, Told, history
  <1>4. TypeOK' /\ LoopInv'
    BY <1>1, <1>2, <1>3 DEF TypeOK, LoopInv, history
  <1> QED
    BY <1>1, <1>4 DEF ReminderInv, RaisedOnce, history

\* An alarm that is emitted is settled.  When it is raised, and not for the first time,
\* the window it fires in overlaps an earlier one.
LEMMA EmitInv ==
    ASSUME ReminderInv, NEW f \in due, Emit(f) \/ EmitFails(f) PROVE ReminderInv'
  <1>1. /\ TypeOK /\ LoopInv /\ RaisedOnce /\ phase = "emit" /\ due' = due \ {f} /\ f \in Found
        /\ Fires(f)
        /\ UNCHANGED <<now, slot, last, phase, until, todo, failed, start, timely, reached, handled>>
    BY DEF ReminderInv, Emit, EmitFails, TypeOK, LoopInv
  <1>2. /\ raised' \subseteq raised \cup {f} /\ raised \subseteq raised'
        /\ excused \subseteq excused' /\ excused' \subseteq excused \cup {f}
        /\ edits' \in Nat /\ faults' \in Nat
    BY <1>1 DEF Emit, EmitFails, Fault, TypeOK
  <1>3. \A k \in sent' : \E g \in raised' : k = Dedupe(g)
    BY <1>1, <1>2 DEF Emit, EmitFails, LoopInv
  <1>4. Settled(f)'
    <2>1. CASE Emit(f) /\ Dedupe(f) \in sent
      BY <1>1, <2>1 DEF Emit, LoopInv, Settled, Told
    <2>2. CASE Emit(f) /\ Dedupe(f) \notin sent
      BY <2>2 DEF Emit, Settled, Told
    <2>3. CASE EmitFails(f)
      BY <2>3 DEF EmitFails, Settled
    <2> QED
      BY <2>1, <2>2, <2>3
  <1>5. again' = {}
    <2>1. ASSUME f \in raised PROVE Overlaps
      <3>1. FireTime(f) <= reached
        BY <1>1, <2>1 DEF LoopInv
      <3>2. FireTime(f) \in Int /\ last.wall \in Int /\ reached \in Int
        BY <1>1, FoundFields DEF TypeOK, Instant
      <3> QED
        BY <1>1, <3>1, <3>2 DEF Fires, Overlaps
    <2> QED
      BY <1>1, <2>1 DEF Emit, EmitFails, RaisedOnce
  <1>6. Promised' = Promised
    BY <1>1, SamePromises
  <1>7. ASSUME NEW g PROVE (Passed(g)' <=> Passed(g)) /\ (Fires(g)' <=> Fires(g))
    BY <1>1 DEF Passed, Fires
  <1>8. ASSUME NEW g, Settled(g) PROVE Settled(g)'
    BY <1>2, <1>8 DEF Settled, Told
  <1>9. \A g \in raised' : \/ FireTime(g) <= reached
                            \/ /\ FireTime(g) <= until.wall
                               /\ g \notin due'
    BY <1>1, <1>2 DEF LoopInv, Fires
  <1>10. TypeOK'
    BY <1>1, <1>2, <1>5 DEF TypeOK
  <1>11. LoopInv'
    BY <1>1, <1>3, <1>4, <1>6, <1>7, <1>8, <1>9 DEF LoopInv
  <1> QED
    BY <1>5, <1>10, <1>11 DEF ReminderInv, RaisedOnce

\* The windows have reached as far as the latest of them.
LEMMA LaterType ==
    ASSUME NEW t \in Int, NEW u \in Int
    PROVE  Later(t, u) \in Int /\ t <= Later(t, u) /\ u <= Later(t, u)
  BY DEF Later

\* When a window ends, finished or not, what was raised is within reach.
LEMMA RaisedReached ==
    ASSUME ReminderInv PROVE \A f \in raised : FireTime(f) <= Later(reached, until.wall)
  <1>1. reached \in Int /\ until.wall \in Int /\ raised \subseteq Found
    BY DEF ReminderInv, TypeOK, Instant
  <1> QED
    BY <1>1, LaterType, FoundFields DEF ReminderInv, LoopInv

\* The window moves on only past alarms that are settled: raised, or excused.
LEMMA FinishInv == ASSUME ReminderInv, Finish PROVE ReminderInv'
  <1>1. /\ TypeOK /\ LoopInv /\ RaisedOnce /\ phase = "emit" /\ phase' = "wait" /\ due = {}
        /\ last' = IF Over THEN until ELSE last
        /\ excused' = IF TooLong
                      THEN excused \cup {f \in Standing : f.alarm.cal \in failed /\ Fires(f)}
                      ELSE excused
        /\ reached' = Later(reached, until.wall)
        /\ handled' = until.mono
        /\ UNCHANGED <<now, slot, until, todo, failed, due, start, sent, raised, again, timely, edits,
                       faults>>
    BY DEF ReminderInv, Finish
  <1>2. TypeOK'
    <2>1. excused' \subseteq Found
      BY <1>1, StandingFound DEF TypeOK
    <2> QED
      BY <1>1, <2>1, LaterType DEF TypeOK, Instant
  <1>3. Promised' = Promised /\ excused \subseteq excused'
    BY <1>1, SamePromises
  <1>4. ASSUME NEW f \in Promised, Passed(f)' PROVE Settled(f)'
    <2>1. f \in Standing /\ f \in Found
      BY <1>1, StandingFound DEF Promised
    <2>2. FireTime(f) \in Int /\ last.wall \in Int /\ until.wall \in Int
      BY <1>1, <2>1, FoundFields DEF TypeOK, Instant
    <2>3. Settled(f) => Settled(f)'
      BY <1>1, <1>3 DEF Settled, Told
    <2>4. CASE Passed(f)
      BY <1>1, <2>3, <2>4 DEF LoopInv
    <2>5. CASE ~Passed(f)
      <3>1. Over /\ Fires(f)
        BY <1>1, <1>4, <2>2, <2>5 DEF Passed, Fires
      <3>2. CASE f.alarm.cal \in failed
        BY <1>1, <2>1, <3>1, <3>2 DEF Over, Settled
      <3>3. CASE f.alarm.cal \notin failed
        BY <1>1, <2>3, <3>1, <3>3 DEF LoopInv
      <3> QED
        BY <3>2, <3>3
    <2> QED
      BY <2>4, <2>5
  <1>5. handled' - last'.mono <= MaxRetry
    <2>1. until.mono \in Nat /\ last.mono \in Nat /\ MaxRetry \in Nat
      BY <1>1, ReminderAssumption DEF TypeOK, Instant
    <2> QED
      BY <1>1, <2>1 DEF Over, TooLong
  <1>6. LoopInv'
    BY <1>1, <1>3, <1>4, <1>5, RaisedReached DEF LoopInv
  <1> QED
    BY <1>1, <1>2, <1>6 DEF ReminderInv, RaisedOnce

LEMMA RestartInv == ASSUME ReminderInv, Restart PROVE ReminderInv'
  <1>1. /\ TypeOK /\ LoopInv /\ RaisedOnce /\ phase' = "wait" /\ last' = now
        /\ todo' = {} /\ due' = {}
        /\ excused' = excused \cup {f \in Standing : FireTime(f) <= now.wall}
        /\ reached' = Later(reached, until.wall)
        /\ handled' = now.mono
        /\ UNCHANGED <<now, start, sent, raised, again, timely>>
    BY DEF ReminderInv, Restart
  <1>2. TypeOK'
    <2>1. excused' \subseteq Found
      BY <1>1, StandingFound DEF TypeOK
    <2>2. reached' \in Int
      BY <1>1, LaterType DEF TypeOK, Instant
    <2> QED
      BY <1>1, <2>1, <2>2 DEF Restart, Fault, TypeOK, Instant
  <1>3. Promised' = Promised
    BY <1>1, SamePromises
  <1>4. ASSUME NEW f \in Promised, Passed(f)' PROVE f \in excused'
    BY <1>1, <1>4 DEF Passed, Promised
  <1>5. handled' - last'.mono <= MaxRetry
    BY <1>1, ReminderAssumption DEF TypeOK, Instant
  <1>6. LoopInv'
    BY <1>1, <1>3, <1>4, <1>5, RaisedReached DEF LoopInv, Settled
  <1> QED
    BY <1>1, <1>2, <1>6 DEF ReminderInv, RaisedOnce

-----------------------------------------------------------------------------
LEMMA ReminderStart == Init => ReminderInv
  <1> SUFFICES ASSUME Init PROVE ReminderInv
    OBVIOUS
  <1>1. Standing = {}
    BY DEF Init, Standing
  <1>2. TypeOK
    BY DEF Init, TypeOK, Instant
  <1> QED
    BY <1>1, <1>2, ReminderAssumption DEF Init, ReminderInv, LoopInv, RaisedOnce, Promised

LEMMA ReminderStep == ReminderInv /\ [Next]_vars => ReminderInv'
  <1> SUFFICES ASSUME ReminderInv, [Next]_vars PROVE ReminderInv'
    OBVIOUS
  <1>1. CASE Loop
    BY <1>1, TickInv, ScanInv, ScannedInv, EmitInv, FinishInv DEF Loop
  <1>2. CASE \E t \in 0 .. MaxTime : SetClock(t)
    BY <1>2, SetClockInv, ReminderAssumption
  <1>3. CASE UNCHANGED vars
    <2>1. TypeOK'
      BY <1>3 DEF ReminderInv, TypeOK, vars, loop, history
    <2> QED
      BY <1>3, <2>1, SameWindow DEF vars, loop
  <1> QED
    BY <1>1, <1>2, <1>3, PassInv, EditInv, ForgetInv, ScanInv, EmitInv, RestartInv DEF Next

\* The inductive invariant of the reminder loop holds in every behaviour.
THEOREM ReminderSafe == Spec => []ReminderInv
  BY ReminderStart, ReminderStep, PTL DEF Spec

\* Types of the reminder loop.
THEOREM ReminderTypeOK == Spec => []TypeOK
  <1>1. ReminderInv => TypeOK
    BY DEF ReminderInv
  <1> QED
    BY <1>1, ReminderSafe, PTL

\* Between two ticks of Run, an alarm that was set in good time and whose time has passed
\* had a notification raised under its dedupe key, but for the faults that NoneMissed
\* names: windows follow each other without a gap, and backWindow and lookAhead are wide
\* enough for every offset they are meant to support.  Of two alarms that share a key the
\* second is not raised (reminder.go:103).
THEOREM ReminderNoneMissed == Spec => []NoneMissed
  <1>1. ReminderInv => NoneMissed
    BY DEF ReminderInv, LoopInv, NoneMissed, Promised, Passed, Settled
  <1> QED
    BY <1>1, ReminderSafe, PTL

\* An alarm that the notify service has forgotten is raised a second time only by a window
\* that overlaps an earlier one: one tried again, or begun after the clock was set back.
THEOREM ReminderRaisedOnce == Spec => []RaisedOnce
  <1>1. ReminderInv => RaisedOnce
    BY DEF ReminderInv
  <1> QED
    BY <1>1, ReminderSafe, PTL

\* maxRetryWindow bounds how long one window is tried again, whatever the wall clock does.
THEOREM ReminderRetriesAreBounded == Spec => []RetriesAreBounded
  <1>1. ReminderInv => RetriesAreBounded
    BY DEF ReminderInv, LoopInv, RetriesAreBounded
  <1> QED
    BY <1>1, ReminderSafe, PTL
=============================================================================
