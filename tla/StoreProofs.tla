---------------------------- MODULE StoreProofs ----------------------------
(***************************************************************************)
(* Proofs about the store, for every set of users, calendars, events,      *)
(* bodies and clock readings, any retention and any bounds.                *)
(***************************************************************************)
EXTENDS Store, TLAPS

LEMMA HomeType ==
    ASSUME NEW o \in Users
    PROVE  Home(o) \subseteq Cals
  BY StoreAssumption DEF Home, Cals

LEMMA OwnerType ==
    ASSUME NEW c \in Cals
    PROVE  c[1] \in Users
  BY DEF Cals

LEMMA EmptyType == NoEvents \in [Uids -> Value]
  BY DEF NoEvents, Value

\* A transaction on one slot keeps the types of the index.
LEMMA IndexRowType ==
    ASSUME TypeOK, NEW c \in Cals, NEW u \in Uids, NEW e \in Value, IndexRow(c, u, e)
    PROVE  /\ cals' \subseteq Cals
           /\ ctag' \in [Cals -> Nat]
           /\ minValid' \in [Cals -> Nat]
           /\ events' \in [Cals -> [Uids -> Value]]
           /\ changelog' \subseteq Row
           /\ lastSeq' \in Nat
           /\ dirty' \subseteq Slots
           /\ promised' \in [Cals -> [Uids -> SUBSET Value]]
  <1>1. [seq |-> lastSeq + 1, cal |-> c, uid |-> u, etag |-> e, at |-> now] \in Row
    BY DEF TypeOK, Row
  <1>2. changelog' \subseteq Row
    BY <1>1 DEF TypeOK, IndexRow
  <1>3. events' \in [Cals -> [Uids -> Value]]
    BY DEF TypeOK, IndexRow
  <1>4. promised' \in [Cals -> [Uids -> SUBSET Value]]
    <2>1. Told(c, u, e) \subseteq Value
      BY DEF TypeOK, Told
    <2> QED
      BY <2>1 DEF TypeOK, IndexRow
  <1> QED
    BY <1>2, <1>3, <1>4 DEF TypeOK, IndexRow

LEMMA WriteFileType ==
    ASSUME TypeOK, NEW c \in Cals, NEW u \in Uids, NEW b \in Contents, WriteFile(c, u, b)
    PROVE  TypeOK'
  <1>1. Home(c[1]) \subseteq Cals
    BY HomeType, OwnerType
  <1>2. b \in Value
    BY DEF Value
  <1>3. disk' \in [Cals -> [Uids -> Value]]
    BY <1>2 DEF TypeOK, WriteFile
  <1>4. promised' \in [Cals -> [Uids -> SUBSET Value]]
    BY <1>2 DEF TypeOK, WriteFile
  <1>5. busy' \in Mutation
    BY <1>2 DEF TypeOK, WriteFile, Mutation
  <1> QED
    BY <1>1, <1>3, <1>4, <1>5 DEF TypeOK, WriteFile, life

LEMMA BeginDeleteType ==
    ASSUME TypeOK, NEW c \in Cals, NEW u \in Uids, BeginDelete(c, u)
    PROVE  TypeOK'
  <1>1. None \in Value
    BY DEF Value
  <1>2. disk' \in [Cals -> [Uids -> Value]]
    BY <1>1 DEF TypeOK, BeginDelete, RemoveFile
  <1>3. promised' \in [Cals -> [Uids -> SUBSET Value]]
    BY <1>1 DEF TypeOK, BeginDelete
  <1>4. busy' \in Mutation
    BY <1>1 DEF BeginDelete, Mutation
  <1> QED
    BY <1>2, <1>3, <1>4 DEF TypeOK, BeginDelete, life, index

\* The mutation in progress names a slot (put, delete) or a calendar (rmdir).
LEMMA BusyType ==
    ASSUME TypeOK
    PROVE  /\ busy.op \in {"put", "delete"} =>
                  busy.cal \in Cals /\ busy.uid \in Uids /\ busy.etag \in Value
           /\ busy.op = "rmdir" => busy.cal \in Cals
           /\ busy.op \in {"idle", "put", "delete", "rmdir"}
  BY DEF TypeOK, Mutation, Idle

\* The type invariant is inductive.
THEOREM StoreTypeOK == Spec => []TypeOK
  <1>1. Init => TypeOK
    BY DEF Init, TypeOK, NoEvents, AllRead, Value, Mutation, Slots
  <1>2. TypeOK /\ [Next]_vars => TypeOK'
    <2> SUFFICES ASSUME TypeOK, [Next]_vars PROVE TypeOK'
      OBVIOUS
    <2>1. ASSUME NEW o \in Users, EnsureHome(o) PROVE TypeOK'
      BY <2>1 DEF TypeOK, EnsureHome, index, files
    <2>24. ASSUME NEW o \in Users, EnsureHomeLocked(o) PROVE TypeOK'
      BY <2>24, HomeType DEF TypeOK, EnsureHomeLocked
    <2>25. ASSUME NEW unlisted \in SUBSET Cals, NEW unread \in SUBSET Slots,
                  OpenBlind([dirs |-> unlisted, files |-> unread])
           PROVE TypeOK'
      BY <2>25 DEF TypeOK, OpenBlind, index, files
    <2>2. ASSUME NEW c \in Cals, CreateCalendarID(c) PROVE TypeOK'
      BY <2>2, HomeType, OwnerType DEF TypeOK, CreateCalendarID, life
    <2>3. ASSUME NEW c \in Cals, DeleteCalendar(c) PROVE TypeOK'
      <3>1. promised' \in [Cals -> [Uids -> SUBSET Value]]
        BY <2>3 DEF TypeOK, DeleteCalendar, Value
      <3>2. dirty' \subseteq Slots
        BY <2>3 DEF TypeOK, DeleteCalendar, Slots
      <3>3. busy' \in Mutation
        BY <2>3 DEF DeleteCalendar, Mutation
      <3> QED
        BY <2>3, <3>1, <3>2, <3>3, EmptyType DEF TypeOK, DeleteCalendar, files, life
    <2>4. ASSUME NEW c \in Cals, CompactCalendar(c) PROVE TypeOK'
      <3> DEFINE trimmed == {r \in changelog : r.cal = c /\ r.at < now - Retention}
      <3>1. PICK m \in trimmed :
                minValid' = [minValid EXCEPT ![c] = IF m.seq > @ THEN m.seq ELSE @]
        BY <2>4 DEF CompactCalendar
      <3>2. m.seq \in Nat
        BY <3>1 DEF TypeOK, Row
      <3>3. minValid' \in [Cals -> Nat]
        BY <3>1, <3>2 DEF TypeOK
      <3> QED
        BY <2>4, <3>3 DEF TypeOK, CompactCalendar, files, life
    <2>5. ASSUME NEW c \in Cals, NEW u \in Uids, NEW b \in Contents, PutEvent(c, u, b)
          PROVE TypeOK'
      BY <2>5, WriteFileType DEF PutEvent
    <2>6. ASSUME NEW c \in Cals, NEW u \in Uids, NEW b \in Contents,
                 NEW m \in SUBSET Contents, NEW n \in BOOLEAN, PutRaw(c, u, b, m, n)
          PROVE TypeOK'
      BY <2>6, WriteFileType DEF PutRaw
    <2>7. ASSUME NEW c \in Cals, NEW u \in Uids, DeleteEvent(c, u) PROVE TypeOK'
      BY <2>7, BeginDeleteType DEF DeleteEvent
    <2>8. ASSUME NEW c \in Cals, NEW u \in Uids, NEW m \in SUBSET Contents, DeleteRaw(c, u, m)
          PROVE TypeOK'
      BY <2>8, BeginDeleteType DEF DeleteRaw
    <2>9. CASE RemoveAll
      <3>1. busy.cal \in Cals
        BY <2>9, BusyType DEF RemoveAll
      <3>2. disk' \in [Cals -> [Uids -> Value]] /\ promised' \in [Cals -> [Uids -> SUBSET Value]]
        BY <2>9, <3>1, EmptyType DEF TypeOK, RemoveAll, Value
      <3> QED
        BY <2>9, <3>1, <3>2 DEF TypeOK, RemoveAll, life, index, Mutation
    <2>10. CASE IndexUpsert
      <3>1. busy.cal \in Cals /\ busy.uid \in Uids /\ busy.etag \in Value
        BY <2>10, BusyType DEF IndexUpsert
      <3>2. IndexRow(busy.cal, busy.uid, busy.etag)
        BY <2>10 DEF IndexUpsert
      <3> QED
        BY <2>10, <3>1, <3>2, IndexRowType DEF TypeOK, IndexUpsert, files, life, Mutation
    <2>11. CASE IndexDelete
      <3>1. busy.cal \in Cals /\ busy.uid \in Uids
        BY <2>11, BusyType DEF IndexDelete
      <3>2. IndexRow(busy.cal, busy.uid, None) /\ None \in Value
        BY <2>11 DEF IndexDelete, Value
      <3> QED
        BY <2>11, <3>1, <3>2, IndexRowType DEF TypeOK, IndexDelete, files, life, Mutation
    <2>12. CASE IndexDeleteNothing
      BY <2>12 DEF TypeOK, IndexDeleteNothing, index, files, life, Mutation
    <2>13. CASE IndexFails
      <3>1. busy.cal \in Cals /\ busy.uid \in Uids
        BY <2>13, BusyType DEF IndexFails
      <3> QED
        BY <2>13, <3>1 DEF TypeOK, IndexFails, index, files, life, Mutation, Slots
    <2>14. ASSUME NEW gone \in SUBSET Uids, RemoveAllFails(gone) PROVE TypeOK'
      <3>1. busy.cal \in Cals
        BY <2>14, BusyType DEF RemoveAllFails
      <3>2. disk' \in [Cals -> [Uids -> Value]]
        BY <2>14, <3>1 DEF TypeOK, RemoveAllFails, Value
      <3> QED
        BY <2>14, <3>2 DEF TypeOK, RemoveAllFails, life, index, Mutation
    <2>15. ASSUME NEW t \in Times, Tick(t) PROVE TypeOK'
      BY <2>15 DEF TypeOK, Tick, index, files, life
    <2>16. CASE Crash
      BY <2>16 DEF TypeOK, Crash, AllRead, index, files, Mutation
    <2>17. ASSUME NEW c \in Cals, NEW u \in Uids, NEW b \in Value, EditFile(c, u, b)
           PROVE TypeOK'
      <3>1. disk' \in [Cals -> [Uids -> Value]]
        BY <2>17 DEF TypeOK, EditFile
      <3>2. promised' \in [Cals -> [Uids -> SUBSET Value]]
        BY <2>17 DEF TypeOK, EditFile
      <3> QED
        BY <2>17, <3>1, <3>2 DEF TypeOK, EditFile, life, index
    <2>18. ASSUME NEW c \in Cals, RemoveDir(c) PROVE TypeOK'
      <3>1. promised' \in [Cals -> [Uids -> SUBSET Value]]
        BY <2>18 DEF TypeOK, RemoveDir, Value
      <3> QED
        BY <2>18, <3>1, EmptyType DEF TypeOK, RemoveDir, life, index
    <2>19. CASE Open
      BY <2>19 DEF TypeOK, Open, index, files
    <2>20. ASSUME NEW c \in Cals, NEW u \in Uids, ReconcileFile(c, u) PROVE TypeOK'
      <3>1. IndexRow(c, u, disk[c][u]) /\ disk[c][u] \in Value
        BY <2>20 DEF ReconcileFile, TypeOK
      <3> QED
        BY <2>20, <3>1, IndexRowType DEF TypeOK, ReconcileFile, files, life
    <2>21. ASSUME NEW c \in Cals, NEW u \in Uids, ReconcileRow(c, u) PROVE TypeOK'
      <3>1. IndexRow(c, u, None) /\ None \in Value
        BY <2>21 DEF ReconcileRow, Value
      <3> QED
        BY <2>21, <3>1, IndexRowType DEF TypeOK, ReconcileRow, files, life
    <2>22. CASE Serve
      BY <2>22 DEF TypeOK, Serve, LeftApart, index, files
    <2>23. CASE UNCHANGED vars
      BY <2>23 DEF TypeOK, vars, index, files, life
    <2> QED
      BY <2>1, <2>2, <2>3, <2>4, <2>5, <2>6, <2>7, <2>8, <2>9, <2>10, <2>11, <2>12,
         <2>13, <2>14, <2>15, <2>16, <2>17, <2>18, <2>19, <2>20, <2>21, <2>22, <2>23,
         <2>24, <2>25
      DEF Next, Request, Release, Restart, Fault
  <1> QED
    BY <1>1, <1>2, PTL DEF Spec

-----------------------------------------------------------------------------
(* The change-log *)

\* One logged change of an existing calendar keeps the log trustworthy: the new
\* row is the last of its resource, and of no other.
LEMMA IndexRowLog ==
    ASSUME TypeOK, TagCoversLog, LogDescribesIndex,
           NEW c \in Cals, c \in cals, NEW u \in Uids, NEW e \in Value, IndexRow(c, u, e)
    PROVE  TagCoversLog' /\ LogDescribesIndex'
  <1> DEFINE new == [seq |-> lastSeq + 1, cal |-> c, uid |-> u, etag |-> e, at |-> now]
  <1>1. /\ changelog' = changelog \cup {new}
        /\ new.seq = lastSeq + 1 /\ new.cal = c /\ new.uid = u /\ new.etag = e
    BY DEF IndexRow
  <1>2. \A r \in changelog : r.seq \in Nat /\ r.cal \in cals /\ r.seq <= ctag[r.cal]
    BY DEF TypeOK, TagCoversLog, Row
  <1>3. \A d \in Cals : /\ minValid[d] \in Nat /\ ctag[d] \in Nat
                        /\ minValid[d] <= ctag[d] /\ ctag[d] <= lastSeq
    BY DEF TypeOK, TagCoversLog
  <1>4. \A r \in changelog : r.seq <= lastSeq
    BY <1>2, <1>3 DEF TypeOK
  <1>5. lastSeq \in Nat /\ lastSeq' = lastSeq + 1 /\ cals' = cals /\ minValid' = minValid
    BY DEF TypeOK, IndexRow
  <1>6. \A d \in Cals : ctag'[d] = IF d = c THEN lastSeq + 1 ELSE ctag[d]
    BY DEF TypeOK, IndexRow
  <1>7. TagCoversLog'
    <2>1. \A r \in changelog' : r.cal \in cals' /\ r.seq <= ctag'[r.cal]
      BY <1>1, <1>2, <1>4, <1>5, <1>6 DEF TypeOK
    <2>2. \A d \in Cals : minValid'[d] <= ctag'[d] /\ ctag'[d] <= lastSeq'
      BY <1>3, <1>5, <1>6
    <2>3. \A d \in Cals \ cals' : ctag'[d] = 0
      BY <1>5, <1>6 DEF TypeOK, TagCoversLog
    <2>4. \A d \in Cals : ctag'[d] = 0 => events'[d] = NoEvents
      BY <1>5, <1>6 DEF TypeOK, TagCoversLog, IndexRow
    <2>5. \A r, s \in changelog' : r.seq = s.seq => r = s
      BY <1>1, <1>2, <1>4, <1>5 DEF TagCoversLog
    <2> QED
      BY <2>1, <2>2, <2>3, <2>4, <2>5 DEF TagCoversLog
  <1>8. LogDescribesIndex'
    <2> SUFFICES ASSUME NEW d \in cals', NEW v \in Uids,
                        Since(d, v, minValid[d])' # {}
                 PROVE  \E r \in Since(d, v, minValid[d])' :
                            /\ \A s \in Since(d, v, minValid[d])' : s.seq <= r.seq
                            /\ r.etag = events'[d][v]
      BY DEF LogDescribesIndex, IsLast
    <2>1. d \in Cals
      BY <1>5 DEF TypeOK
    <2>2. CASE d = c /\ v = u
      <3>1. new \in Since(d, v, minValid[d])'
        BY <1>1, <1>3, <1>5, <2>1, <2>2 DEF Since
      <3>2. \A s \in Since(d, v, minValid[d])' : s.seq <= new.seq
        BY <1>1, <1>2, <1>4, <1>5 DEF Since
      <3>3. events'[d][v] = e
        BY <2>2 DEF IndexRow, TypeOK
      <3> QED
        BY <1>1, <3>1, <3>2, <3>3
    <2>3. CASE ~(d = c /\ v = u)
      <3>1. Since(d, v, minValid[d])' = Since(d, v, minValid[d])
        BY <1>1, <1>5, <2>3 DEF Since
      <3>2. events'[d][v] = events[d][v]
        BY <2>1, <2>3 DEF IndexRow, TypeOK
      <3> QED
        BY <1>5, <3>1, <3>2 DEF LogDescribesIndex, IsLast
    <2> QED
      BY <2>2, <2>3
  <1> QED
    BY <1>7, <1>8

\* Trimming by clock, in whatever order the clock stamped the rows, keeps the log
\* trustworthy above the new floor: if any row above it remains, the last one does.
LEMMA CompactLog ==
    ASSUME TypeOK, TagCoversLog, LogDescribesIndex, NEW c \in Cals, CompactCalendar(c)
    PROVE  TagCoversLog' /\ LogDescribesIndex'
  <1> DEFINE trimmed == {r \in changelog : r.cal = c /\ r.at < now - Retention}
  <1>1. PICK m \in trimmed :
            /\ IsLast(m, trimmed)
            /\ minValid' = [minValid EXCEPT ![c] = IF m.seq > @ THEN m.seq ELSE @]
    BY DEF CompactCalendar
  <1>2. /\ changelog' = changelog \ trimmed
        /\ UNCHANGED <<cals, ctag, events, lastSeq>>
    BY DEF CompactCalendar
  <1>3. \A r \in changelog : r.seq \in Nat
    BY DEF TypeOK, Row
  <1>4. /\ m \in changelog /\ m.cal = c /\ m.seq \in Nat
        /\ \A r \in trimmed : r.seq <= m.seq
    BY <1>1, <1>3 DEF IsLast
  <1>5. minValid \in [Cals -> Nat] /\ ctag \in [Cals -> Nat]
    BY DEF TypeOK
  <1>6. /\ \A d \in Cals : d # c => minValid'[d] = minValid[d]
        /\ minValid'[c] >= minValid[c] /\ minValid'[c] >= m.seq
        /\ minValid'[c] \in {minValid[c], m.seq}
    BY <1>1, <1>4, <1>5
  <1>7. TagCoversLog'
    <2>1. m.seq <= ctag[c]
      BY <1>4 DEF TagCoversLog
    <2>2. \A d \in Cals : minValid'[d] <= ctag[d]
      BY <1>6, <2>1 DEF TagCoversLog
    <2> QED
      BY <1>2, <2>2 DEF TagCoversLog
  <1>8. LogDescribesIndex'
    <2> SUFFICES ASSUME NEW d \in cals', NEW v \in Uids,
                        Since(d, v, minValid[d])' # {}
                 PROVE  \E r \in Since(d, v, minValid[d])' :
                            /\ \A s \in Since(d, v, minValid[d])' : s.seq <= r.seq
                            /\ r.etag = events'[d][v]
      BY DEF LogDescribesIndex, IsLast
    <2>1. d \in Cals /\ d \in cals /\ minValid[d] \in Nat /\ minValid'[d] \in Nat
      BY <1>2, <1>4, <1>5, <1>6 DEF TypeOK
    <2>2. Since(d, v, minValid[d])' \subseteq Since(d, v, minValid[d])
      BY <1>2, <1>3, <1>6, <2>1 DEF Since
    <2>3. PICK x : x \in Since(d, v, minValid[d])'
      OBVIOUS
    <2>4. PICK r \in Since(d, v, minValid[d]) :
              /\ \A s \in Since(d, v, minValid[d]) : s.seq <= r.seq
              /\ r.etag = events[d][v]
      BY <2>1, <2>2, <2>3 DEF LogDescribesIndex, IsLast
    <2>5. r \in changelog /\ r.cal = d /\ r.uid = v /\ r.seq \in Nat
      BY <1>3, <2>4 DEF Since
    <2>6. x.seq <= r.seq /\ x.seq > minValid'[d] /\ x.seq \in Nat
      BY <1>2, <1>3, <2>2, <2>3, <2>4 DEF Since
    <2>7. r.seq > minValid'[d]
      BY <2>1, <2>5, <2>6
    <2>8. r \notin trimmed
      BY <1>4, <1>6, <2>1, <2>5, <2>7
    <2>9. r \in Since(d, v, minValid[d])'
      BY <1>2, <2>5, <2>7, <2>8 DEF Since
    <2> QED
      BY <1>2, <2>2, <2>4, <2>9
  <1> QED
    BY <1>7, <1>8

\* New calendars start with no rows and no log.
LEMMA NewCalendarsLog ==
    ASSUME TypeOK, TagCoversLog, LogDescribesIndex,
           cals \subseteq cals', cals' \subseteq Cals,
           UNCHANGED <<ctag, minValid, events, changelog, lastSeq>>
    PROVE  TagCoversLog' /\ LogDescribesIndex'
  <1>1. TagCoversLog'
    BY DEF TagCoversLog
  <1>2. \A d \in cals' \ cals, v \in Uids : Since(d, v, minValid[d])' = {}
    BY DEF TagCoversLog, Since
  <1>3. \A d \in cals, v \in Uids : Since(d, v, minValid[d])' = Since(d, v, minValid[d])
    BY DEF Since
  <1>4. LogDescribesIndex'
    BY <1>2, <1>3 DEF LogDescribesIndex, IsLast
  <1> QED
    BY <1>1, <1>4

LEMMA SameIndexLog ==
    ASSUME TagCoversLog, LogDescribesIndex, UNCHANGED index
    PROVE  TagCoversLog' /\ LogDescribesIndex'
  BY DEF TagCoversLog, LogDescribesIndex, Since, IsLast, index

LEMMA DeleteCalendarLog ==
    ASSUME TypeOK, TagCoversLog, LogDescribesIndex, NEW c \in Cals, DeleteCalendar(c)
    PROVE  TagCoversLog' /\ LogDescribesIndex'
  <1>1. /\ cals' = cals \ {c}
        /\ changelog' = {r \in changelog : r.cal # c}
        /\ lastSeq' = lastSeq
    BY DEF DeleteCalendar
  <1>2. \A d \in Cals : /\ d # c => /\ ctag'[d] = ctag[d]
                                    /\ minValid'[d] = minValid[d]
                                    /\ events'[d] = events[d]
                        /\ d = c => /\ ctag'[d] = 0
                                    /\ minValid'[d] = 0
                                    /\ events'[d] = NoEvents
    BY DEF TypeOK, DeleteCalendar
  <1>3. TagCoversLog'
    <2>1. \A r \in changelog' : r.cal \in cals' /\ r.seq <= ctag'[r.cal]
      <3> SUFFICES ASSUME NEW r \in changelog' PROVE r.cal \in cals' /\ r.seq <= ctag'[r.cal]
        OBVIOUS
      <3>1. r \in changelog /\ r.cal # c
        BY <1>1
      <3>2. r.cal \in cals /\ r.seq <= ctag[r.cal] /\ r.cal \in Cals
        BY <3>1 DEF TagCoversLog, TypeOK
      <3> QED
        BY <1>1, <1>2, <3>1, <3>2
    <2>2. \A d \in Cals : minValid'[d] <= ctag'[d] /\ ctag'[d] <= lastSeq'
      BY <1>1, <1>2 DEF TagCoversLog, TypeOK
    <2>3. \A d \in Cals : /\ ctag'[d] = 0 => events'[d] = NoEvents
                          /\ d \notin cals' => ctag'[d] = 0
      BY <1>1, <1>2 DEF TagCoversLog
    <2>4. \A r, s \in changelog' : r.seq = s.seq => r = s
      BY <1>1 DEF TagCoversLog
    <2> QED
      BY <2>1, <2>2, <2>3, <2>4 DEF TagCoversLog
  <1>4. \A d \in cals', v \in Uids :
            /\ Since(d, v, minValid[d])' = Since(d, v, minValid[d])
            /\ events'[d][v] = events[d][v]
    BY <1>1, <1>2 DEF Since, TypeOK
  <1>5. LogDescribesIndex'
    BY <1>1, <1>4 DEF LogDescribesIndex, IsLast
  <1> QED
    BY <1>3, <1>5

-----------------------------------------------------------------------------
(* Files, index rows and promises *)

FileInv == MutationInv /\ ApartInv /\ PromiseInv

\* A transaction that brings a row to its file's state brings the two together; the
\* tombstone of a file that could not be read is no promise that it is gone.
LEMMA IndexRowFile ==
    ASSUME TypeOK, FileInv, NEW c \in Cals, c \in cals, NEW u \in Uids, NEW e \in Value,
           IndexRow(c, u, e), UNCHANGED <<files, phase>>, busy' = Idle,
           disk[c][u] = e \/ (e = None /\ Unread(c, u)),
           \/ phase # "up"
           \/ busy.op \in {"put", "delete"} /\ busy.cal = c /\ busy.uid = u
    PROVE  FileInv'
  <1>1. /\ cals' = cals /\ disk' = disk /\ dirs' = dirs /\ phase' = phase
        /\ dirty' = dirty \ {<<c, u>>}
    BY DEF IndexRow, files
  <1>2. \A d \in Cals, v \in Uids :
            /\ d = c /\ v = u => /\ events'[d][v] = e
                                 /\ disk[c][u] \in promised'[d][v]
            /\ ~(d = c /\ v = u) => /\ events'[d][v] = events[d][v]
                                    /\ promised'[d][v] = promised[d][v]
    BY DEF TypeOK, IndexRow, Told
  <1>3. MutationInv'
    BY <1>1 DEF FileInv, MutationInv, Idle
  <1>4. ApartInv'
    <2> SUFFICES ASSUME phase = "up", NEW d \in Cals, NEW v \in Uids,
                        disk[d][v] # events'[d][v]
                 PROVE  <<d, v>> \in dirty' \/ disk[d][v] \in Undecodable
      BY <1>1 DEF ApartInv
    <2>1. ~(d = c /\ v = u)
      BY <1>2 DEF Unread
    <2>2. disk[d][v] # events[d][v]
      BY <1>2, <2>1
    <2>3. <<d, v>> \in dirty \/ disk[d][v] \in Undecodable
      BY <2>1, <2>2 DEF FileInv, ApartInv
    <2> QED
      BY <1>1, <2>1, <2>3
  <1>5. PromiseInv'
    BY <1>1, <1>2 DEF FileInv, PromiseInv
  <1> QED
    BY <1>3, <1>4, <1>5 DEF FileInv

LEMMA WriteFileFile ==
    ASSUME TypeOK, FileInv, NEW c \in Cals, NEW u \in Uids, NEW b \in Contents,
           Unlocked, WriteFile(c, u, b)
    PROVE  FileInv'
  <1>1. /\ cals' = cals \cup Home(c[1]) /\ c \in cals'
        /\ dirs' = dirs \cup Home(c[1]) \cup {c}
        /\ events' = events /\ phase' = phase /\ dirty' = dirty
        /\ busy' = [op |-> "put", cal |-> c, uid |-> u, etag |-> b]
        /\ phase = "up" /\ busy = Idle
    BY DEF WriteFile, life, Unlocked
  <1>2. \A d \in Cals, v \in Uids :
            /\ d = c /\ v = u => disk'[d][v] = b /\ b \in promised'[d][v]
            /\ ~(d = c /\ v = u) => /\ disk'[d][v] = disk[d][v]
                                    /\ promised'[d][v] = promised[d][v]
    BY DEF TypeOK, WriteFile
  <1>3. \A d \in Cals : d # c => disk'[d] = disk[d]
    BY DEF TypeOK, WriteFile
  <1>4. MutationInv'
    BY <1>1, <1>2, <1>3 DEF FileInv, MutationInv
  <1>5. ApartInv'
    BY <1>1, <1>2 DEF FileInv, ApartInv, Idle
  <1>6. PromiseInv'
    BY <1>2 DEF FileInv, PromiseInv
  <1> QED
    BY <1>4, <1>5, <1>6 DEF FileInv

LEMMA BeginDeleteFile ==
    ASSUME TypeOK, FileInv, NEW c \in Cals, NEW u \in Uids, Unlocked, BeginDelete(c, u)
    PROVE  FileInv'
  <1>1. /\ c \in cals /\ cals' = cals /\ dirs' = dirs
        /\ events' = events /\ phase' = phase /\ dirty' = dirty
        /\ busy' = [op |-> "delete", cal |-> c, uid |-> u, etag |-> None]
        /\ phase = "up" /\ busy = Idle
    BY DEF BeginDelete, life, Unlocked, index
  <1>2. \A d \in Cals, v \in Uids :
            /\ d = c /\ v = u => disk'[d][v] = None /\ None \in promised'[d][v]
            /\ ~(d = c /\ v = u) => /\ disk'[d][v] = disk[d][v]
                                    /\ promised'[d][v] = promised[d][v]
    BY DEF TypeOK, BeginDelete, RemoveFile
  <1>3. \A d \in Cals : /\ disk'[d] \in [Uids -> Value]
                        /\ disk[d] = NoEvents => disk'[d] = NoEvents
    <2> SUFFICES ASSUME NEW d \in Cals
                 PROVE  /\ disk'[d] \in [Uids -> Value]
                        /\ disk[d] = NoEvents => disk'[d] = NoEvents
      OBVIOUS
    <2>1. disk'[d] \in [Uids -> Value]
      BY DEF TypeOK, BeginDelete, RemoveFile, Value
    <2> QED
      BY <1>2, <2>1 DEF NoEvents
  <1>4. MutationInv'
    BY <1>1, <1>2, <1>3 DEF FileInv, MutationInv
  <1>5. ApartInv'
    BY <1>1, <1>2 DEF FileInv, ApartInv, Idle
  <1>6. PromiseInv'
    BY <1>2 DEF FileInv, PromiseInv
  <1> QED
    BY <1>4, <1>5, <1>6 DEF FileInv

\* Steps that create calendars or tell the time leave files and rows alone.
LEMMA UntouchedFile ==
    ASSUME FileInv, cals \subseteq cals', dirs \subseteq dirs',
           UNCHANGED <<disk, events, phase, dirty, promised>>,
           \/ busy' = busy /\ busy.op # "rmdir"
           \/ busy' = busy /\ cals' = cals
           \/ busy' = Idle /\ ~(busy.op \in {"put", "delete"})
    PROVE  FileInv'
  <1>1. MutationInv'
    BY DEF FileInv, MutationInv, Idle
  <1>2. ApartInv'
    BY DEF FileInv, ApartInv, Idle
  <1>3. PromiseInv'
    BY DEF FileInv, PromiseInv
  <1> QED
    BY <1>1, <1>2, <1>3 DEF FileInv

LEMMA DeleteCalendarFile ==
    ASSUME TypeOK, FileInv, NEW c \in Cals, DeleteCalendar(c)
    PROVE  FileInv'
  <1>1. /\ cals' = cals \ {c} /\ disk' = disk /\ dirs' = dirs /\ phase' = phase
        /\ busy' = [op |-> "rmdir", cal |-> c]
        /\ dirty' = dirty \cup {<<c, u>> : u \in {v \in Uids : disk[c][v] # None}}
        /\ phase = "up" /\ busy = Idle
    BY DEF DeleteCalendar, Unlocked, files, life
  <1>2. \A d \in Cals, u \in Uids :
            /\ d = c => /\ events'[d][u] = None
                        /\ promised'[d][u] = {None, disk[d][u]}
            /\ d # c => /\ events'[d][u] = events[d][u]
                        /\ promised'[d][u] = promised[d][u]
    BY DEF TypeOK, DeleteCalendar, NoEvents
  <1>3. MutationInv'
    BY <1>1, <1>2 DEF FileInv, MutationInv
  <1>4. ApartInv'
    BY <1>1, <1>2 DEF FileInv, ApartInv, Idle
  <1>5. PromiseInv'
    BY <1>1, <1>2 DEF FileInv, PromiseInv
  <1> QED
    BY <1>3, <1>4, <1>5 DEF FileInv

LEMMA RemoveAllFile ==
    ASSUME TypeOK, TagCoversLog, FileInv,
           RemoveAll \/ \E gone \in SUBSET Uids : RemoveAllFails(gone)
    PROVE  FileInv'
  <1>1. busy.op = "rmdir" /\ busy.cal \in Cals /\ busy.cal \notin cals
    BY BusyType DEF RemoveAll, RemoveAllFails, FileInv, MutationInv
  <1>2. events[busy.cal] = NoEvents
    BY <1>1 DEF TagCoversLog
  <1>3. CASE RemoveAll
    <2>1. /\ disk' = [disk EXCEPT ![busy.cal] = NoEvents]
          /\ dirs' = dirs \ {busy.cal}
          /\ dirty' = {s \in dirty : s[1] # busy.cal}
          /\ promised' = [promised EXCEPT ![busy.cal] = [u \in Uids |-> {None}]]
          /\ busy' = Idle /\ events' = events /\ phase' = phase /\ phase = "up"
      BY <1>3 DEF RemoveAll, life, index
    <2>2. \A d \in Cals : disk'[d] = IF d = busy.cal THEN NoEvents ELSE disk[d]
      BY <1>1, <2>1 DEF TypeOK
    <2>3. MutationInv'
      BY <2>1, <2>2 DEF FileInv, MutationInv, Idle
    <2>4. ApartInv'
      BY <1>1, <1>2, <2>1, <2>2 DEF FileInv, ApartInv, NoEvents
    <2>5. PromiseInv'
      BY <1>1, <2>1, <2>2 DEF FileInv, PromiseInv, TypeOK, NoEvents
    <2> QED
      BY <2>3, <2>4, <2>5 DEF FileInv
  <1>4. ASSUME NEW gone \in SUBSET Uids, RemoveAllFails(gone) PROVE FileInv'
    <2>1. /\ disk' = [disk EXCEPT ![busy.cal] =
                         [u \in Uids |-> IF u \in gone THEN None ELSE @[u]]]
          /\ dirs' = dirs /\ dirty' = dirty /\ promised' = promised
          /\ busy' = Idle /\ events' = events /\ phase' = phase /\ phase = "up"
      BY <1>4 DEF RemoveAllFails, life, index
    <2>2. \A d \in Cals : /\ d # busy.cal => disk'[d] = disk[d]
                          /\ disk[d] = NoEvents => disk'[d] = NoEvents
      BY <1>1, <2>1 DEF TypeOK, NoEvents
    <2>3. \A u \in Uids : disk'[busy.cal][u] \in {None, disk[busy.cal][u]}
      BY <1>1, <2>1 DEF TypeOK
    <2>4. MutationInv'
      BY <2>1, <2>2 DEF FileInv, MutationInv, Idle
    <2>5. ApartInv'
      <3> SUFFICES ASSUME NEW d \in Cals, NEW v \in Uids, disk'[d][v] # events[d][v]
                   PROVE  <<d, v>> \in dirty \/ disk'[d][v] \in Undecodable
        BY <2>1 DEF ApartInv
      <3>1. disk'[d][v] = disk[d][v]
        BY <1>2, <2>2, <2>3 DEF NoEvents
      <3> QED
        BY <1>1, <2>1, <3>1 DEF FileInv, ApartInv
    <2>6. PromiseInv'
      BY <1>1, <2>1, <2>2, <2>3 DEF FileInv, PromiseInv, MutationInv
    <2> QED
      BY <2>4, <2>5, <2>6 DEF FileInv
  <1> QED
    BY <1>3, <1>4

\* A restart leaves nothing apart that LeftApart does not name.
LEMMA ServeFile ==
    ASSUME TypeOK, TagCoversLog, FileInv, Serve
    PROVE  FileInv'
  <1>1. /\ UNCHANGED <<index, files, busy, promised>>
        /\ dirty' = LeftApart
        /\ busy = Idle
        /\ \A c \in cals : Unindexed(c) = {} /\ Vanished(c) = {}
    BY DEF Serve, FileInv, MutationInv
  <1>2. MutationInv'
    BY <1>1 DEF FileInv, MutationInv, index, files, Idle
  <1>3. ApartInv'
    <2> SUFFICES ASSUME NEW c \in Cals, NEW u \in Uids, disk[c][u] # events[c][u],
                        disk[c][u] \notin Undecodable
                 PROVE  <<c, u>> \in LeftApart
      BY <1>1 DEF ApartInv, index, files
    <2>1. <<c, u>> \in Slots
      BY DEF Slots
    <2>2. CASE c \notin cals
      BY <2>1, <2>2 DEF LeftApart
    <2>3. CASE c \in cals
      <3>1. ~Listed(c) \/ <<c, u>> \in blind.files
        BY <1>1, <2>3 DEF Unindexed, Vanished
      <3> QED
        BY <2>1, <3>1 DEF LeftApart
    <2> QED
      BY <2>2, <2>3
  <1>4. PromiseInv'
    BY <1>1 DEF FileInv, PromiseInv, files
  <1> QED
    BY <1>2, <1>3, <1>4 DEF FileInv

\* While the daemon is down files may be edited: the edit is the new promise.
LEMMA DownFile ==
    ASSUME TypeOK, FileInv,
           \/ \E c \in Cals, u \in Uids, b \in Value : EditFile(c, u, b)
           \/ \E c \in Cals : RemoveDir(c)
    PROVE  FileInv'
  <1>1. ASSUME NEW c \in Cals, NEW u \in Uids, NEW b \in Value, EditFile(c, u, b)
        PROVE  FileInv'
    <2>1. /\ phase = "down" /\ phase' = phase /\ busy' = busy /\ busy = Idle
          /\ c \in dirs /\ dirs' = dirs
      BY <1>1 DEF EditFile, life, FileInv, MutationInv
    <2>2. \A d \in Cals : d # c => disk'[d] = disk[d]
      BY <1>1 DEF EditFile, TypeOK
    <2>3. MutationInv'
      BY <2>1, <2>2 DEF FileInv, MutationInv, Idle
    <2>4. ApartInv'
      BY <2>1 DEF ApartInv
    <2>5. PromiseInv'
      BY <1>1 DEF FileInv, PromiseInv, EditFile, TypeOK
    <2> QED
      BY <2>3, <2>4, <2>5 DEF FileInv
  <1>2. ASSUME NEW c \in Cals, RemoveDir(c)
        PROVE  FileInv'
    <2>1. /\ phase = "down" /\ phase' = phase /\ busy' = busy /\ busy = Idle
          /\ dirs' = dirs \ {c}
      BY <1>2 DEF RemoveDir, life, FileInv, MutationInv
    <2>2. \A d \in Cals : disk'[d] = IF d = c THEN NoEvents ELSE disk[d]
      BY <1>2 DEF RemoveDir, TypeOK
    <2>3. MutationInv'
      BY <2>1, <2>2 DEF FileInv, MutationInv, Idle
    <2>4. ApartInv'
      BY <2>1 DEF ApartInv
    <2>5. PromiseInv'
      BY <1>2, <2>2 DEF FileInv, PromiseInv, RemoveDir, TypeOK, NoEvents
    <2> QED
      BY <2>3, <2>4, <2>5 DEF FileInv
  <1> QED
    BY <1>1, <1>2

-----------------------------------------------------------------------------
(* The inductive invariant and what follows from it *)

LEMMA StoreInvInit == Init => StoreInv
  <1> SUFFICES ASSUME Init PROVE StoreInv
    OBVIOUS
  <1>1. TypeOK
    BY DEF Init, TypeOK, NoEvents, AllRead, Value, Mutation, Slots
  <1>2. TagCoversLog /\ LogDescribesIndex
    BY DEF Init, TagCoversLog, LogDescribesIndex
  <1>3. MutationInv /\ ApartInv /\ PromiseInv
    BY DEF Init, MutationInv, ApartInv, PromiseInv, Idle, NoEvents
  <1> QED
    BY <1>1, <1>2, <1>3 DEF StoreInv

\* The actions of Next, one disjunct each.
LEMMA StoreActions ==
    ASSUME NEW P,
           \A o \in Users : EnsureHome(o) => P,
           \A o \in Users : EnsureHomeLocked(o) => P,
           \A c \in Cals : CreateCalendarID(c) => P,
           \A c \in Cals : DeleteCalendar(c) => P,
           \A c \in Cals : CompactCalendar(c) => P,
           \A c \in Cals, u \in Uids, b \in Contents : Unlocked /\ WriteFile(c, u, b) => P,
           \A c \in Cals, u \in Uids : Unlocked /\ BeginDelete(c, u) => P,
           RemoveAll \/ (\E gone \in SUBSET Uids : RemoveAllFails(gone)) => P,
           IndexUpsert => P,
           IndexDelete => P,
           IndexDeleteNothing => P,
           IndexFails => P,
           (\E t \in Times : Tick(t)) => P,
           Crash => P,
           \/ \E c \in Cals, u \in Uids, b \in Value : EditFile(c, u, b)
           \/ \E c \in Cals : RemoveDir(c)
           => P,
           Open => P,
           \A b \in [dirs : SUBSET Cals, files : SUBSET Slots] : OpenBlind(b) => P,
           \A c \in Cals, u \in Uids : ReconcileFile(c, u) => P,
           \A c \in Cals, u \in Uids : ReconcileRow(c, u) => P,
           Serve => P
    PROVE  Next => P
  <1>1. \A c \in Cals, u \in Uids, b \in Contents : PutEvent(c, u, b) => P
    BY DEF PutEvent
  <1>2. \A c \in Cals, u \in Uids, b \in Contents, m \in SUBSET Contents, n \in BOOLEAN :
            PutRaw(c, u, b, m, n) => P
    BY DEF PutRaw
  <1>3. \A c \in Cals, u \in Uids : DeleteEvent(c, u) => P
    BY DEF DeleteEvent
  <1>4. \A c \in Cals, u \in Uids, m \in SUBSET Contents : DeleteRaw(c, u, m) => P
    BY DEF DeleteRaw
  <1>5. Request => P
    BY <1>1, <1>2, <1>3, <1>4 DEF Request
  <1>6. Release => P
    BY DEF Release
  <1>7. Restart => P
    BY DEF Restart
  <1>8. Fault => P
    <2>1. \A unlisted \in SUBSET Cals, unread \in SUBSET Slots :
              OpenBlind([dirs |-> unlisted, files |-> unread]) => P
      OBVIOUS
    <2> QED
      BY <2>1 DEF Fault
  <1> QED
    BY <1>5, <1>6, <1>7, <1>8 DEF Next

\* Every logged change of the store is one IndexRow on an existing calendar whose
\* row is brought to the state of its file, if that could be read.
LEMMA Logged ==
    ASSUME StoreInv, NEW P,
           \A c \in Cals, u \in Uids, e \in Value :
               /\ c \in cals
               /\ IndexRow(c, u, e)
               /\ disk[c][u] = e \/ (e = None /\ Unread(c, u))
               /\ UNCHANGED <<files, phase, now, faults>>
               /\ busy' = Idle
               /\ phase # "up" \/ (busy.op \in {"put", "delete"} /\ busy.cal = c /\ busy.uid = u)
               => P
    PROVE  /\ IndexUpsert => P
           /\ IndexDelete => P
           /\ \A c \in Cals, u \in Uids : ReconcileFile(c, u) => P
           /\ \A c \in Cals, u \in Uids : ReconcileRow(c, u) => P
  <1>1. ASSUME IndexUpsert PROVE P
    <2>1. busy.cal \in Cals /\ busy.uid \in Uids /\ busy.op \in {"put", "delete"}
      BY <1>1, BusyType DEF IndexUpsert, StoreInv
    <2>2. /\ busy.cal \in cals /\ disk[busy.cal][busy.uid] = busy.etag
          /\ busy.etag \in Value
      BY <2>1, BusyType DEF StoreInv, MutationInv
    <2>3. /\ IndexRow(busy.cal, busy.uid, busy.etag)
          /\ UNCHANGED <<files, phase, now, faults>> /\ busy' = Idle
      BY <1>1 DEF IndexUpsert, life
    <2> QED
      BY <2>1, <2>2, <2>3
  <1>2. ASSUME IndexDelete PROVE P
    <2>1. busy.cal \in Cals /\ busy.uid \in Uids /\ busy.op \in {"put", "delete"}
      BY <1>2, BusyType DEF IndexDelete, StoreInv
    <2>2. busy.cal \in cals /\ disk[busy.cal][busy.uid] = None
      BY <1>2, <2>1 DEF StoreInv, MutationInv, IndexDelete
    <2>3. /\ IndexRow(busy.cal, busy.uid, None) /\ None \in Value
          /\ UNCHANGED <<files, phase, now, faults>> /\ busy' = Idle
      BY <1>2 DEF IndexDelete, life, Value
    <2> QED
      BY <2>1, <2>2, <2>3
  <1>3. ASSUME NEW c \in Cals, NEW u \in Uids, ReconcileFile(c, u) PROVE P
    <2>1. /\ c \in cals /\ IndexRow(c, u, disk[c][u]) /\ disk[c][u] \in Value
          /\ UNCHANGED <<files, phase, now, faults>> /\ busy' = Idle /\ phase # "up"
      BY <1>3 DEF ReconcileFile, life, StoreInv, TypeOK, MutationInv
    <2> QED
      BY <2>1
  <1>4. ASSUME NEW c \in Cals, NEW u \in Uids, ReconcileRow(c, u) PROVE P
    <2>1. disk[c][u] = None \/ Unread(c, u)
      BY <1>4 DEF ReconcileRow, Vanished, Unread
    <2>2. /\ c \in cals /\ IndexRow(c, u, None) /\ None \in Value
          /\ UNCHANGED <<files, phase, now, faults>> /\ busy' = Idle /\ phase # "up"
      BY <1>4 DEF ReconcileRow, life, StoreInv, MutationInv, Value
    <2> QED
      BY <2>1, <2>2
  <1> QED
    BY <1>1, <1>2, <1>3, <1>4

LEMMA StoreInvLog == StoreInv /\ Next => (TagCoversLog /\ LogDescribesIndex)'
  <1> SUFFICES ASSUME StoreInv PROVE Next => (TagCoversLog /\ LogDescribesIndex)'
    OBVIOUS
  <1> DEFINE Goal == (TagCoversLog /\ LogDescribesIndex)'
  <1> USE DEF StoreInv
  <1>1. \A o \in Users : EnsureHomeLocked(o) => Goal
    BY NewCalendarsLog, HomeType DEF EnsureHomeLocked, TypeOK
  <1>2. \A c \in Cals : CreateCalendarID(c) => Goal
    BY NewCalendarsLog, HomeType, OwnerType DEF CreateCalendarID, TypeOK
  <1>3. \A c \in Cals : DeleteCalendar(c) => Goal
    BY DeleteCalendarLog
  <1>4. \A c \in Cals : CompactCalendar(c) => Goal
    BY CompactLog
  <1>5. \A c \in Cals, u \in Uids, b \in Contents : Unlocked /\ WriteFile(c, u, b) => Goal
    BY NewCalendarsLog, HomeType, OwnerType DEF WriteFile, TypeOK
  <1>6. /\ IndexUpsert => Goal
        /\ IndexDelete => Goal
        /\ \A c \in Cals, u \in Uids : ReconcileFile(c, u) => Goal
        /\ \A c \in Cals, u \in Uids : ReconcileRow(c, u) => Goal
    <2>1. \A c \in Cals, u \in Uids, e \in Value : c \in cals /\ IndexRow(c, u, e) => Goal
      BY IndexRowLog
    <2> HIDE DEF Goal, StoreInv
    <2> QED
      BY <2>1, Logged
  <1>7. UNCHANGED index => Goal
    BY SameIndexLog
  <1> HIDE DEF Goal
  <1>8. \A c \in Cals, u \in Uids : Unlocked /\ BeginDelete(c, u) => Goal
    BY <1>7 DEF BeginDelete
  <1>9. /\ RemoveAll \/ (\E gone \in SUBSET Uids : RemoveAllFails(gone)) => Goal
        /\ IndexDeleteNothing => Goal
        /\ IndexFails => Goal
    BY <1>7 DEF RemoveAll, RemoveAllFails, IndexDeleteNothing, IndexFails
  <1>10. /\ (\E t \in Times : Tick(t)) => Goal
         /\ Crash => Goal
         /\ Open => Goal
         /\ \A b \in [dirs : SUBSET Cals, files : SUBSET Slots] : OpenBlind(b) => Goal
         /\ \A o \in Users : EnsureHome(o) => Goal
         /\ Serve => Goal
    BY <1>7 DEF Tick, Crash, Open, OpenBlind, EnsureHome, Serve
  <1>11. \/ \E c \in Cals, u \in Uids, b \in Value : EditFile(c, u, b)
         \/ \E c \in Cals : RemoveDir(c)
         => Goal
    BY <1>7 DEF EditFile, RemoveDir
  <1>12. Next => Goal
    BY <1>1, <1>2, <1>3, <1>4, <1>5, <1>6, <1>8, <1>9, <1>10, <1>11, StoreActions
  <1> QED
    BY <1>12 DEF Goal

LEMMA StoreInvFile == StoreInv /\ Next => FileInv'
  <1> SUFFICES ASSUME StoreInv PROVE Next => FileInv'
    OBVIOUS
  <1> DEFINE Goal == FileInv'
  <1>0. TypeOK /\ TagCoversLog /\ FileInv
    BY DEF StoreInv, FileInv
  <1>1. \A o \in Users : EnsureHomeLocked(o) => Goal
    BY <1>0, UntouchedFile DEF EnsureHomeLocked, Unlocked, Idle
  <1>17. \A o \in Users : EnsureHome(o) => Goal
    BY <1>0, UntouchedFile DEF EnsureHome, index, files
  <1>18. \A b \in [dirs : SUBSET Cals, files : SUBSET Slots] : OpenBlind(b) => Goal
    BY <1>0 DEF OpenBlind, index, files, FileInv, MutationInv, ApartInv, PromiseInv, Idle
  <1>2. \A c \in Cals : CreateCalendarID(c) => Goal
    BY <1>0, UntouchedFile DEF CreateCalendarID, life, Unlocked, Idle
  <1>3. \A c \in Cals : DeleteCalendar(c) => Goal
    BY <1>0, DeleteCalendarFile
  <1>4. \A c \in Cals : CompactCalendar(c) => Goal
    BY <1>0, UntouchedFile DEF CompactCalendar, files, life
  <1>5. \A c \in Cals, u \in Uids, b \in Contents : Unlocked /\ WriteFile(c, u, b) => Goal
    BY <1>0, WriteFileFile
  <1>6. /\ IndexUpsert => Goal
        /\ IndexDelete => Goal
        /\ \A c \in Cals, u \in Uids : ReconcileFile(c, u) => Goal
        /\ \A c \in Cals, u \in Uids : ReconcileRow(c, u) => Goal
    <2>1. \A c \in Cals, u \in Uids, e \in Value :
               /\ c \in cals
               /\ IndexRow(c, u, e)
               /\ disk[c][u] = e \/ (e = None /\ Unread(c, u))
               /\ UNCHANGED <<files, phase, now, faults>>
               /\ busy' = Idle
               /\ phase # "up" \/ (busy.op \in {"put", "delete"} /\ busy.cal = c /\ busy.uid = u)
               => Goal
      BY <1>0, IndexRowFile
    <2> HIDE DEF Goal
    <2> QED
      BY <2>1, Logged
  <1>7. \A c \in Cals, u \in Uids : Unlocked /\ BeginDelete(c, u) => Goal
    BY <1>0, BeginDeleteFile
  <1>8. RemoveAll \/ (\E gone \in SUBSET Uids : RemoveAllFails(gone)) => Goal
    BY <1>0, RemoveAllFile
  <1>9. IndexDeleteNothing => Goal
    <2> SUFFICES ASSUME IndexDeleteNothing PROVE Goal
      OBVIOUS
    <2>1. /\ UNCHANGED <<cals, dirs, disk, events, phase, dirty, promised>>
          /\ busy' = Idle
      BY DEF IndexDeleteNothing, index, files, life
    <2>2. disk[busy.cal][busy.uid] = events[busy.cal][busy.uid]
      BY <1>0 DEF IndexDeleteNothing, FileInv, MutationInv
    <2>3. MutationInv'
      BY <1>0, <2>1 DEF FileInv, MutationInv, Idle
    <2>4. ApartInv'
      BY <1>0, <2>1, <2>2 DEF FileInv, ApartInv, Idle
    <2>5. PromiseInv'
      BY <1>0, <2>1 DEF FileInv, PromiseInv
    <2> QED
      BY <2>3, <2>4, <2>5 DEF FileInv
  <1>10. IndexFails => Goal
    <2> SUFFICES ASSUME IndexFails PROVE Goal
      OBVIOUS
    <2>1. /\ UNCHANGED <<cals, dirs, disk, events, phase, promised>>
          /\ busy' = Idle
          /\ dirty' = dirty \cup {<<busy.cal, busy.uid>>}
      BY DEF IndexFails, index, files, life
    <2>2. MutationInv'
      BY <1>0, <2>1 DEF FileInv, MutationInv, Idle
    <2>3. ApartInv'
      BY <1>0, <2>1 DEF FileInv, ApartInv
    <2>4. PromiseInv'
      BY <1>0, <2>1 DEF FileInv, PromiseInv
    <2> QED
      BY <2>2, <2>3, <2>4 DEF FileInv
  <1>11. (\E t \in Times : Tick(t)) => Goal
    BY <1>0, UntouchedFile DEF Tick, index, files, life
  <1>12. Crash => Goal
    <2> SUFFICES ASSUME Crash PROVE Goal
      OBVIOUS
    <2>1. /\ UNCHANGED <<cals, dirs, disk, events, promised>>
          /\ busy' = Idle /\ phase' = "down"
      BY DEF Crash, index, files
    <2> QED
      BY <1>0, <2>1 DEF FileInv, MutationInv, ApartInv, PromiseInv, Idle
  <1>13. \/ \E c \in Cals, u \in Uids, b \in Value : EditFile(c, u, b)
         \/ \E c \in Cals : RemoveDir(c)
         => Goal
    BY <1>0, DownFile
  <1>14. Open => Goal
    BY <1>0 DEF Open, index, files, FileInv, MutationInv, ApartInv, PromiseInv, Idle
  <1>15. Serve => Goal
    BY <1>0, ServeFile
  <1> HIDE DEF Goal
  <1>16. Next => Goal
    BY <1>1, <1>2, <1>3, <1>4, <1>5, <1>6, <1>7, <1>8, <1>9, <1>10, <1>11, <1>12,
       <1>13, <1>14, <1>15, <1>17, <1>18, StoreActions
  <1> QED
    BY <1>16 DEF Goal

\* The inductive invariant of the store.
THEOREM StoreSafe == Spec => []StoreInv
  <1>1. StoreInv /\ [Next]_vars /\ TypeOK' => StoreInv'
    <2>1. StoreInv /\ Next /\ TypeOK' => StoreInv'
      BY StoreInvLog, StoreInvFile DEF StoreInv, FileInv
    <2>2. ASSUME StoreInv, TypeOK', UNCHANGED vars PROVE StoreInv'
      <3>1. (TagCoversLog /\ LogDescribesIndex)'
        BY <2>2, SameIndexLog DEF StoreInv, vars
      <3>2. (MutationInv /\ ApartInv /\ PromiseInv)'
        BY <2>2 DEF StoreInv, vars, index, files, life, MutationInv, ApartInv, PromiseInv
      <3> QED
        BY <2>2, <3>1, <3>2 DEF StoreInv
    <2> QED
      BY <2>1, <2>2
  <1> QED
    BY <1>1, StoreInvInit, StoreTypeOK, PTL DEF Spec

\* The change-log above the floor always describes the index (SyncCollection
\* answers from it), whatever the clock does to compaction.
THEOREM StoreLogDescribesIndex == Spec => [](TagCoversLog /\ LogDescribesIndex)
  <1>1. StoreInv => TagCoversLog /\ LogDescribesIndex
    BY DEF StoreInv
  <1> QED
    BY <1>1, StoreSafe, PTL

\* No log row or floor is ahead of its calendar's ctag, no two rows share a sequence
\* number, and a deleted calendar leaves nothing (indexUpsert, indexDelete, DeleteCalendar,
\* compactCalendar).
THEOREM StoreTagCoversLog == Spec => []TagCoversLog
  <1>1. StoreInv => TagCoversLog
    BY DEF StoreInv
  <1> QED
    BY <1>1, StoreSafe, PTL

\* Index rows and files agree when the store is at rest, save where a fault was
\* reported (PutEvent, PutRaw, DeleteEvent, DeleteRaw, reconcile).
THEOREM StoreIndexTracksDisk == Spec => []IndexTracksDisk
  <1>1. StoreInv => IndexTracksDisk
    BY DEF StoreInv, ApartInv, IndexTracksDisk, Unlocked, Idle
  <1> QED
    BY <1>1, StoreSafe, PTL

\* No crash or restart undoes what the change-log has published.
THEOREM StorePublishedIsDurable == Spec => []PublishedIsDurable
  <1>1. StoreInv => PublishedIsDurable
    BY DEF StoreInv, PromiseInv, PublishedIsDurable, TypeOK
  <1> QED
    BY <1>1, StoreSafe, PTL

\* What a step does to the ctag and the index of the calendars that stay.
TagsAdvance ==
    \A c \in cals \cap cals' : /\ ctag'[c] >= ctag[c]
                               /\ events'[c] # events[c] => ctag'[c] > ctag[c]

LEMMA TagStep ==
    ASSUME StoreInv
    PROVE  Next => TagsAdvance
  <1> DEFINE A == TagsAdvance
  <1> USE DEF TagsAdvance
  <1>1. \A c \in Cals : ctag[c] \in Nat
    BY DEF StoreInv, TypeOK
  <1>2. UNCHANGED <<ctag, events>> => A
    BY <1>1 DEF StoreInv, TypeOK
  <1>3. \A d \in Cals : DeleteCalendar(d) => A
    BY <1>1 DEF DeleteCalendar, StoreInv, TypeOK
  <1>4. /\ IndexUpsert => A
        /\ IndexDelete => A
        /\ \A c \in Cals, u \in Uids : ReconcileFile(c, u) => A
        /\ \A c \in Cals, u \in Uids : ReconcileRow(c, u) => A
    <2>1. ASSUME NEW d \in Cals, NEW u \in Uids, NEW e \in Value, d \in cals, IndexRow(d, u, e)
          PROVE  A
      <3>1. \A c \in Cals : /\ c = d => ctag'[c] = lastSeq + 1
                            /\ c # d => ctag'[c] = ctag[c] /\ events'[c] = events[c]
        BY <2>1 DEF IndexRow, StoreInv, TypeOK
      <3>2. ctag[d] < lastSeq + 1
        BY <1>1 DEF StoreInv, TypeOK, TagCoversLog
      <3> QED
        BY <1>1, <3>1, <3>2 DEF StoreInv, TypeOK
    <2> HIDE DEF A
    <2> QED
      BY <2>1, Logged
  <1> HIDE DEF A
  <1>5. /\ \A o \in Users : EnsureHomeLocked(o) => A
        /\ \A c \in Cals : CreateCalendarID(c) => A
        /\ \A c \in Cals : CompactCalendar(c) => A
        /\ \A c \in Cals, u \in Uids, b \in Contents : Unlocked /\ WriteFile(c, u, b) => A
    BY <1>2 DEF EnsureHomeLocked, CreateCalendarID, CompactCalendar, WriteFile
  <1>6. /\ \A c \in Cals, u \in Uids : Unlocked /\ BeginDelete(c, u) => A
        /\ RemoveAll \/ (\E gone \in SUBSET Uids : RemoveAllFails(gone)) => A
        /\ IndexDeleteNothing => A
        /\ IndexFails => A
        /\ (\E t \in Times : Tick(t)) => A
    BY <1>2 DEF BeginDelete, RemoveAll, RemoveAllFails, IndexDeleteNothing, IndexFails,
                Tick, index
  <1>7. /\ Crash => A
        /\ \/ \E c \in Cals, u \in Uids, b \in Value : EditFile(c, u, b)
           \/ \E c \in Cals : RemoveDir(c)
           => A
        /\ Open => A
        /\ \A b \in [dirs : SUBSET Cals, files : SUBSET Slots] : OpenBlind(b) => A
        /\ \A o \in Users : EnsureHome(o) => A
        /\ Serve => A
    BY <1>2 DEF Crash, EditFile, RemoveDir, Open, OpenBlind, EnsureHome, Serve, index
  <1>8. Next => A
    BY <1>3, <1>4, <1>5, <1>6, <1>7, StoreActions
  <1> QED
    BY <1>8 DEF A

\* The ctag never goes back and rises with every change of the index.
THEOREM StoreCTagTracksIndex == Spec => CTagTracksIndex
  <1>1. StoreInv /\ [Next]_vars => [TagsAdvance]_vars
    BY TagStep
  <1> QED
    BY <1>1, StoreSafe, PTL DEF Spec, CTagTracksIndex, TagsAdvance

=============================================================================
