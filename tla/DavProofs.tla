----------------------------- MODULE DavProofs -----------------------------
(***************************************************************************)
(* Proofs about synchronisation and the reports it is made of.  First, no  *)
(* accepted token leaves a silent gap, and the store with its log, tokens  *)
(* and floor implements the abstract Replica, in which a client's copy is  *)
(* replaced by an exact copy.  Then, whatever happens between the snapshot *)
(* of a report's tags and its last body, a body that is not the present    *)
(* one is reported again.                                                  *)
(***************************************************************************)
EXTENDS DavObjects, StoreProofs

-----------------------------------------------------------------------------
(* Tokens and copies *)

\* What a step of the store does to a calendar that stays: no row after a token
\* that the new floor admits is lost, and where there is none after the step the
\* resource has not changed.
Remembers(c, t) ==
    /\ t >= minValid[c]
    /\ \A u \in Uids : Since(c, u, t)' = {} =>
           Since(c, u, t) = {} /\ events'[c][u] = events[c][u]

LEMMA LoggedRemembers ==
    ASSUME StoreInv, NEW d \in Cals, d \in cals, NEW v \in Uids, NEW e \in Value,
           IndexRow(d, v, e),
           NEW c \in cals, NEW t \in Nat, t <= ctag[c], t >= minValid'[c]
    PROVE  Remembers(c, t)
  <1> DEFINE new == [seq |-> lastSeq + 1, cal |-> d, uid |-> v, etag |-> e, at |-> now]
  <1>1. /\ changelog' = changelog \cup {new} /\ minValid' = minValid
        /\ new \in changelog' /\ new.seq = lastSeq + 1 /\ new.cal = d /\ new.uid = v
    BY DEF IndexRow
  <1>2. t < lastSeq + 1
    BY DEF StoreInv, TypeOK, TagCoversLog
  <1>3. \A u \in Uids : c = d /\ u = v => Since(c, u, t)' # {}
    BY <1>1, <1>2 DEF Since
  <1>4. \A u \in Uids : Since(c, u, t) \subseteq Since(c, u, t)'
    BY <1>1 DEF Since
  <1>5. \A u \in Uids : ~(c = d /\ u = v) => events'[c][u] = events[c][u]
    BY DEF IndexRow, StoreInv, TypeOK
  <1> QED
    BY <1>1, <1>3, <1>4, <1>5 DEF Remembers

LEMMA CompactRemembers ==
    ASSUME StoreInv, NEW d \in Cals, CompactCalendar(d),
           NEW c \in cals, NEW t \in Nat, t >= minValid'[c]
    PROVE  Remembers(c, t)
  <1> DEFINE trimmed == {r \in changelog : r.cal = d /\ r.at < now - Retention}
  <1>1. PICK m \in trimmed :
            /\ IsLast(m, trimmed)
            /\ minValid' = [minValid EXCEPT ![d] = IF m.seq > @ THEN m.seq ELSE @]
    BY DEF CompactCalendar
  <1>2. changelog' = changelog \ trimmed /\ events' = events
    BY DEF CompactCalendar
  <1>3. \A r \in changelog : r.seq \in Nat
    BY DEF StoreInv, TypeOK, Row
  <1>4. c \in Cals /\ minValid \in [Cals -> Nat]
    BY DEF StoreInv, TypeOK
  <1>5. t >= minValid[c] /\ (c = d => t >= m.seq)
    BY <1>1, <1>3, <1>4
  <1>6. \A u \in Uids : Since(c, u, t)' = Since(c, u, t)
    BY <1>1, <1>2, <1>3, <1>5 DEF Since, IsLast
  <1> QED
    BY <1>2, <1>5, <1>6 DEF Remembers

LEMMA StoreRemembers ==
    ASSUME StoreInv, NEW c \in cals, c \in cals', NEW t \in Nat, t <= ctag[c]
    PROVE  Next => (t >= minValid'[c] => Remembers(c, t))
  <1> DEFINE G == t >= minValid'[c] => Remembers(c, t)
  <1>1. UNCHANGED <<minValid, events, changelog>> => G
    BY DEF Remembers, Since
  <1>2. \A d \in Cals : DeleteCalendar(d) => G
    <2> SUFFICES ASSUME NEW d \in Cals, DeleteCalendar(d) PROVE G
      OBVIOUS
    <2>1. c # d /\ c \in Cals
      BY DEF DeleteCalendar, StoreInv, TypeOK
    <2>2. minValid'[c] = minValid[c] /\ events'[c] = events[c]
      BY <2>1 DEF DeleteCalendar, StoreInv, TypeOK
    <2>3. \A u \in Uids : Since(c, u, t)' = Since(c, u, t)
      BY <2>1 DEF DeleteCalendar, Since
    <2> QED
      BY <2>2, <2>3 DEF Remembers
  <1>3. \A d \in Cals : CompactCalendar(d) => G
    BY CompactRemembers
  <1>4. /\ IndexUpsert => G
        /\ IndexDelete => G
        /\ \A d \in Cals, u \in Uids : ReconcileFile(d, u) => G
        /\ \A d \in Cals, u \in Uids : ReconcileRow(d, u) => G
    <2>1. \A d \in Cals, u \in Uids, e \in Value : d \in cals /\ IndexRow(d, u, e) => G
      BY LoggedRemembers
    <2> HIDE DEF G
    <2> QED
      BY <2>1, Logged
  <1> HIDE DEF G
  <1>5. /\ \A o \in Users : EnsureHomeLocked(o) => G
        /\ \A d \in Cals : CreateCalendarID(d) => G
        /\ \A d \in Cals, u \in Uids, b \in Contents : Unlocked /\ WriteFile(d, u, b) => G
        /\ \A d \in Cals, u \in Uids : Unlocked /\ BeginDelete(d, u) => G
    BY <1>1 DEF EnsureHomeLocked, CreateCalendarID, WriteFile, BeginDelete, index
  <1>6. /\ RemoveAll \/ (\E gone \in SUBSET Uids : RemoveAllFails(gone)) => G
        /\ IndexDeleteNothing => G
        /\ IndexFails => G
        /\ (\E s \in Times : Tick(s)) => G
    BY <1>1 DEF RemoveAll, RemoveAllFails, IndexDeleteNothing, IndexFails, Tick, index
  <1>7. /\ Crash => G
        /\ \/ \E d \in Cals, u \in Uids, b \in Value : EditFile(d, u, b)
           \/ \E d \in Cals : RemoveDir(d)
           => G
        /\ Open => G
        /\ \A b \in [dirs : SUBSET Cals, files : SUBSET Slots] : OpenBlind(b) => G
        /\ \A o \in Users : EnsureHome(o) => G
        /\ Serve => G
    BY <1>1 DEF Crash, EditFile, RemoveDir, Open, OpenBlind, EnsureHome, Serve, index
  <1>8. Next => G
    BY <1>2, <1>3, <1>4, <1>5, <1>6, <1>7, StoreActions
  <1> QED
    BY <1>8 DEF G

-----------------------------------------------------------------------------
\* An accepted token yields exactly the present collection.
LEMMA SyncedIsExact ==
    ASSUME StoreInv, SyncInv, NEW c \in cals, c \notin outlived, ~TooOld(c)
    PROVE  Synced(c) = events[c]
  <1>1. /\ c \in Cals /\ token[c] \in Nat /\ minValid[c] \in Nat
        /\ events[c] \in [Uids -> Value]
    BY DEF StoreInv, TypeOK, SyncInv, SyncTypeOK
  <1>2. CASE token[c] = 0
    <2>1. view[c] = NoEvents
      BY <1>1, <1>2 DEF SyncInv
    <2>2. \A u \in Uids : Listing(c)[u] = events[c][u]
      BY <2>1 DEF Listing, NoEvents
    <2>3. Listing(c) = [u \in Uids |-> events[c][u]]
      BY <2>2 DEF Listing
    <2> QED
      BY <1>1, <1>2, <2>3 DEF Synced
  <1>3. CASE token[c] # 0
    <2>1. token[c] > 0 /\ token[c] >= minValid[c]
      BY <1>1, <1>3 DEF TooOld
    <2>2. ASSUME NEW u \in Uids PROVE Delta(c)[u] = events[c][u]
      <3> DEFINE rows == Since(c, u, token[c])
      <3>1. Delta(c)[u] = IF rows = {} THEN view[c][u]
                          ELSE (CHOOSE r \in rows : IsLast(r, rows)).etag
        BY DEF Delta
      <3>2. CASE rows = {}
        BY <1>1, <2>1, <3>1, <3>2 DEF SyncInv
      <3>3. CASE rows # {}
        <4> DEFINE all == Since(c, u, minValid[c])
        <4>1. \A r \in changelog : r.seq \in Nat
          BY DEF StoreInv, TypeOK, Row
        <4>2. rows \subseteq all
          BY <1>1, <2>1, <4>1 DEF Since
        <4>3. PICK r \in all : IsLast(r, all) /\ r.etag = events[c][u]
          BY <3>3, <4>2 DEF StoreInv, LogDescribesIndex
        <4>4. r \in rows
          BY <1>1, <3>3, <4>1, <4>2, <4>3 DEF Since, IsLast
        <4>5. IsLast(r, rows)
          BY <4>2, <4>3, <4>4 DEF IsLast
        <4>6. \A s \in rows : IsLast(s, rows) => s = r
          <5> SUFFICES ASSUME NEW s \in rows, IsLast(s, rows) PROVE s = r
            OBVIOUS
          <5>1. s \in changelog /\ r \in changelog
            BY <4>4 DEF Since
          <5>2. s.seq = r.seq
            BY <4>1, <4>4, <4>5, <5>1 DEF IsLast
          <5> QED
            BY <5>1, <5>2 DEF StoreInv, TagCoversLog
        <4>7. (CHOOSE s \in rows : IsLast(s, rows)) = r
          BY <4>4, <4>5, <4>6
        <4> QED
          BY <3>1, <3>3, <4>3, <4>7
      <3> QED
        BY <3>2, <3>3
    <2>3. Delta(c) = [u \in Uids |-> events[c][u]]
      BY <2>2 DEF Delta
    <2> QED
      BY <1>1, <1>3, <2>3 DEF Synced
  <1> QED
    BY <1>2, <1>3

\* Even a copy that outlived its calendar is answered with well-formed rows.
LEMMA SyncedType ==
    ASSUME StoreInv, SyncTypeOK, NEW c \in cals, ~TooOld(c)
    PROVE  Synced(c) \in [Uids -> Value]
  <1>1. /\ c \in Cals /\ token[c] \in Nat /\ minValid[c] \in Nat
        /\ events[c] \in [Uids -> Value] /\ view[c] \in [Uids -> Value]
    BY DEF StoreInv, TypeOK, SyncTypeOK
  <1>2. Listing(c) \in [Uids -> Value]
    BY <1>1 DEF Listing
  <1>3. CASE token[c] # 0
    <2> SUFFICES ASSUME NEW u \in Uids, Since(c, u, token[c]) # {}
                 PROVE  (CHOOSE r \in Since(c, u, token[c]) :
                            IsLast(r, Since(c, u, token[c]))).etag \in Value
      BY <1>1, <1>3 DEF Synced, Delta
    <2> DEFINE rows == Since(c, u, token[c])
               all == Since(c, u, minValid[c])
    <2>1. \A r \in changelog : r.seq \in Nat /\ r.etag \in Value
      BY DEF StoreInv, TypeOK, Row
    <2>2. token[c] >= minValid[c]
      BY <1>1, <1>3 DEF TooOld
    <2>3. rows \subseteq all
      BY <1>1, <2>1, <2>2 DEF Since
    <2>4. PICK r \in all : IsLast(r, all)
      BY <2>3 DEF StoreInv, LogDescribesIndex
    <2>5. r \in rows
      BY <1>1, <2>1, <2>3, <2>4 DEF Since, IsLast
    <2>6. IsLast(r, rows)
      BY <2>3, <2>4, <2>5 DEF IsLast
    <2>7. (CHOOSE s \in rows : IsLast(s, rows)) \in rows
      BY <2>5, <2>6
    <2>8. rows \subseteq changelog
      BY DEF Since
    <2> QED
      BY <2>1, <2>7, <2>8
  <1> QED
    BY <1>2, <1>3 DEF Synced

LEMMA StoreStepSync ==
    ASSUME StoreInv, StoreInv', SyncInv, StoreStep
    PROVE  SyncInv'
  <1>1. /\ Next /\ token' = token /\ view' = view
        /\ outlived' = outlived \cup {c \in cals \ cals' : token[c] # 0 \/ view[c] # NoEvents}
    BY DEF StoreStep
  <1>2. SyncTypeOK'
    BY <1>1 DEF SyncInv, SyncTypeOK, StoreInv, TypeOK
  <1>3. ASSUME NEW c \in Cals \ outlived'
        PROVE  /\ token[c] <= ctag'[c]
               /\ token[c] = 0 => view[c] = NoEvents
               /\ token[c] > 0 /\ token[c] >= minValid'[c] =>
                     \A u \in Uids : Since(c, u, token[c])' = {} => view[c][u] = events'[c][u]
    <2>1. /\ c \in Cals \ outlived /\ token[c] \in Nat /\ ctag[c] \in Nat /\ ctag'[c] \in Nat
          /\ token[c] <= ctag[c] /\ (token[c] = 0 => view[c] = NoEvents)
      BY <1>1 DEF SyncInv, SyncTypeOK, StoreInv, TypeOK
    <2>2. CASE c \notin cals
      <3>1. token[c] = 0
        BY <2>1, <2>2 DEF StoreInv, TagCoversLog
      <3> QED
        BY <2>1, <3>1
    <2>3. CASE c \in cals \ cals'
      <3>1. token[c] = 0
        BY <1>1, <1>3, <2>3
      <3> QED
        BY <2>1, <3>1
    <2>4. CASE c \in cals /\ c \in cals'
      <3>1. ctag'[c] >= ctag[c]
        BY <1>1, <2>4, TagStep DEF TagsAdvance
      <3>2. token[c] >= minValid'[c] => Remembers(c, token[c])
        BY <1>1, <2>1, <2>4, StoreRemembers
      <3>3. ASSUME token[c] > 0, token[c] >= minValid'[c], NEW u \in Uids,
                   Since(c, u, token[c])' = {}
            PROVE  view[c][u] = events'[c][u]
        <4>1. /\ token[c] >= minValid[c]
              /\ Since(c, u, token[c]) = {} /\ events'[c][u] = events[c][u]
          BY <1>1, <3>2, <3>3 DEF Remembers, Since
        <4> QED
          BY <2>1, <3>3, <4>1 DEF SyncInv
      <3> QED
        BY <2>1, <3>1, <3>3
    <2> QED
      BY <2>2, <2>3, <2>4
  <1> QED
    BY <1>1, <1>2, <1>3 DEF SyncInv

LEMMA SyncCollectionSync ==
    ASSUME StoreInv, SyncInv, NEW c \in Cals, SyncCollection(c)
    PROVE  SyncInv'
  <1>1. /\ c \in cals /\ ~TooOld(c)
        /\ view' = [view EXCEPT ![c] = Synced(c)]
        /\ token' = [token EXCEPT ![c] = ctag[c]]
        /\ UNCHANGED <<cals, ctag, minValid, events, changelog, outlived>>
    BY DEF SyncCollection, vars, index
  <1>2. SyncTypeOK'
    BY <1>1, SyncedType DEF SyncInv, SyncTypeOK, StoreInv, TypeOK
  <1>3. \A d \in Cals : /\ d = c => view'[d] = Synced(c) /\ token'[d] = ctag[c]
                        /\ d # c => view'[d] = view[d] /\ token'[d] = token[d]
    BY <1>1 DEF SyncInv, SyncTypeOK
  <1>4. \A d \in Cals, u \in Uids : Since(d, u, token[d])' = Since(d, u, token'[d])
    BY <1>1 DEF Since
  <1>5. ASSUME NEW d \in Cals \ outlived
        PROVE  /\ token'[d] <= ctag[d]
               /\ token'[d] = 0 => view'[d] = NoEvents
               /\ token'[d] > 0 /\ token'[d] >= minValid[d] =>
                     \A u \in Uids : Since(d, u, token'[d]) = {} => view'[d][u] = events[d][u]
    <2>1. CASE d = c
      <3>1. view'[d] = events[d]
        BY <1>1, <1>3, <1>5, <2>1, SyncedIsExact
      <3>2. ctag[c] \in Nat /\ (ctag[c] = 0 => events[c] = NoEvents)
        BY DEF StoreInv, TypeOK, TagCoversLog
      <3> QED
        BY <1>3, <2>1, <3>1, <3>2
    <2>2. CASE d # c
      BY <1>3, <1>5, <2>2 DEF SyncInv
    <2> QED
      BY <2>1, <2>2
  <1> QED
    BY <1>1, <1>2, <1>4, <1>5 DEF SyncInv

LEMMA ForgetSync ==
    ASSUME StoreInv, SyncInv, NEW c \in Cals, Forget(c)
    PROVE  SyncInv'
  <1>1. /\ view' = [view EXCEPT ![c] = NoEvents]
        /\ token' = [token EXCEPT ![c] = 0]
        /\ outlived' = outlived \ {c}
        /\ UNCHANGED <<ctag, minValid, events, changelog>>
    BY DEF Forget, vars, index
  <1>2. SyncTypeOK'
    BY <1>1, EmptyType DEF SyncInv, SyncTypeOK
  <1>3. \A d \in Cals : /\ d = c => view'[d] = NoEvents /\ token'[d] = 0
                        /\ d # c => view'[d] = view[d] /\ token'[d] = token[d]
    BY <1>1 DEF SyncInv, SyncTypeOK
  <1>4. \A d \in Cals, u \in Uids : Since(d, u, token[d])' = Since(d, u, token'[d])
    BY <1>1 DEF Since
  <1>5. \A d \in Cals : ctag[d] \in Nat
    BY DEF StoreInv, TypeOK
  <1> QED
    BY <1>1, <1>2, <1>3, <1>4, <1>5 DEF SyncInv

-----------------------------------------------------------------------------
\* The store's own steps are all the composition takes of it.
LEMMA SyncSpecStore == SyncSpec => Spec
  <1>1. SyncInit => Init
    BY DEF SyncInit
  <1>2. [SyncNext]_syncVars => [Next]_vars
    BY DEF SyncNext, StoreStep, SyncCollection, Refused, Forget, syncVars
  <1> QED
    BY <1>1, <1>2, PTL DEF SyncSpec, Spec

\* The inductive invariant of store and client.
THEOREM SyncSafe == SyncSpec => [](StoreInv /\ SyncInv)
  <1>1. SyncInit => SyncInv
    BY DEF SyncInit, Init, SyncInv, SyncTypeOK, NoEvents, Value
  <1>2. StoreInv /\ StoreInv' /\ SyncInv /\ [SyncNext]_syncVars => SyncInv'
    <2> SUFFICES ASSUME StoreInv, StoreInv', SyncInv, [SyncNext]_syncVars PROVE SyncInv'
      OBVIOUS
    <2>1. CASE StoreStep
      BY <2>1, StoreStepSync
    <2>2. ASSUME NEW c \in Cals, SyncCollection(c) PROVE SyncInv'
      BY <2>2, SyncCollectionSync
    <2>3. ASSUME NEW c \in Cals, Refused(c) PROVE SyncInv'
      BY <2>3, ForgetSync DEF Refused
    <2>4. CASE UNCHANGED syncVars
      BY <2>4 DEF syncVars, client, vars, index, SyncInv, SyncTypeOK, Since
    <2> QED
      BY <2>1, <2>2, <2>3, <2>4 DEF SyncNext
  <1> QED
    BY <1>1, <1>2, SyncSpecStore, StoreSafe, PTL DEF SyncSpec

\* No accepted sync token leaves a silent gap (SyncCollection, Compact).
THEOREM SyncNoSilentGap == SyncSpec => []NoSilentGap
  <1>1. StoreInv /\ SyncInv => NoSilentGap
    BY SyncedIsExact DEF NoSilentGap
  <1> QED
    BY <1>1, SyncSafe, PTL

-----------------------------------------------------------------------------
(* The refinement *)

\* What the abstract collection sees of a store step that deletes no calendar.
CollectionChange ==
    /\ cals \subseteq cals'
    /\ \/ UNCHANGED events
       \/ \E c \in cals', copy \in [Uids -> Value] : events' = [events EXCEPT ![c] = copy]

LEMMA StoreStepShape ==
    ASSUME StoreInv
    PROVE  Next => CollectionChange \/ \E c \in Cals : DeleteCalendar(c)
  <1> DEFINE G == CollectionChange \/ \E c \in Cals : DeleteCalendar(c)
  <1>1. cals \subseteq cals' /\ UNCHANGED events => G
    BY DEF CollectionChange
  <1>2. \A c \in Cals : DeleteCalendar(c) => G
    OBVIOUS
  <1>3. /\ IndexUpsert => G
        /\ IndexDelete => G
        /\ \A d \in Cals, u \in Uids : ReconcileFile(d, u) => G
        /\ \A d \in Cals, u \in Uids : ReconcileRow(d, u) => G
    <2>1. ASSUME NEW d \in Cals, NEW u \in Uids, NEW e \in Value, d \in cals, IndexRow(d, u, e)
          PROVE  G
      <3> DEFINE copy == [events[d] EXCEPT ![u] = e]
      <3>1. copy \in [Uids -> Value]
        BY DEF StoreInv, TypeOK
      <3>2. events' = [events EXCEPT ![d] = copy] /\ cals' = cals
        BY <2>1 DEF IndexRow, StoreInv, TypeOK
      <3> HIDE DEF copy
      <3> QED
        BY <2>1, <3>1, <3>2 DEF CollectionChange
    <2> HIDE DEF G
    <2> QED
      BY <2>1, Logged
  <1> HIDE DEF G
  <1>4. /\ \A o \in Users : EnsureHomeLocked(o) => G
        /\ \A d \in Cals : CreateCalendarID(d) => G
        /\ \A d \in Cals : CompactCalendar(d) => G
        /\ \A d \in Cals, u \in Uids, b \in Contents : Unlocked /\ WriteFile(d, u, b) => G
        /\ \A d \in Cals, u \in Uids : Unlocked /\ BeginDelete(d, u) => G
    BY <1>1 DEF EnsureHomeLocked, CreateCalendarID, CompactCalendar, WriteFile, BeginDelete, index
  <1>5. /\ RemoveAll \/ (\E gone \in SUBSET Uids : RemoveAllFails(gone)) => G
        /\ IndexDeleteNothing => G
        /\ IndexFails => G
        /\ (\E s \in Times : Tick(s)) => G
    BY <1>1 DEF RemoveAll, RemoveAllFails, IndexDeleteNothing, IndexFails, Tick, index
  <1>6. /\ Crash => G
        /\ \/ \E d \in Cals, u \in Uids, b \in Value : EditFile(d, u, b)
           \/ \E d \in Cals : RemoveDir(d)
           => G
        /\ Open => G
        /\ \A b \in [dirs : SUBSET Cals, files : SUBSET Slots] : OpenBlind(b) => G
        /\ \A o \in Users : EnsureHome(o) => G
        /\ Serve => G
    BY <1>1 DEF Crash, EditFile, RemoveDir, Open, OpenBlind, EnsureHome, Serve, index
  <1>7. Next => G
    BY <1>2, <1>3, <1>4, <1>5, <1>6, StoreActions
  <1> QED
    BY <1>7 DEF G

\* The store, its log, tokens and floor implement the abstract replica: every
\* accepted SyncCollection replaces the client's copy by an exact one.
THEOREM SyncImplementsReplica == SyncSpec => ReplicaSpec
  <1> USE DEF Abstract!Copy, Abstract!Empty, Value, NoEvents
  <1>1. SyncInit => Abstract!Init
    BY DEF SyncInit, Init, Abstract!Init
  <1>2. StoreInv /\ StoreInv' /\ SyncInv /\ [SyncNext]_syncVars
        => [Abstract!Next]_(Abstract!vars)
    <2> SUFFICES ASSUME StoreInv, StoreInv', SyncInv, [SyncNext]_syncVars
                 PROVE  [Abstract!Next]_(Abstract!vars)
      OBVIOUS
    <2>1. CASE StoreStep
      <3>1. CASE CollectionChange
        <4>2. cals \ cals' = {} /\ outlived' = outlived /\ view' = view
          BY <2>1, <3>1 DEF StoreStep, CollectionChange, SyncInv, SyncTypeOK
        <4>3. cals' \in SUBSET Cals
          BY DEF StoreInv, TypeOK
        <4>4. \E new \in SUBSET Cals : cals' = cals \cup new
          BY <3>1, <4>3 DEF CollectionChange
        <4> QED
          BY <3>1, <4>2, <4>4 DEF CollectionChange, Abstract!Change, Abstract!Next
      <3>2. ASSUME NEW c \in Cals, DeleteCalendar(c) PROVE Abstract!Remove(c)
        <4>1. /\ c \in cals /\ cals' = cals \ {c} /\ events' = [events EXCEPT ![c] = NoEvents]
              /\ view' = view /\ token' = token
              /\ outlived' = outlived \cup
                     {d \in cals \ cals' : token[d] # 0 \/ view[d] # NoEvents}
          BY <2>1, <3>2 DEF StoreStep, DeleteCalendar
        <4>2. cals \ cals' = {c}
          BY <4>1
        <4>3. outlived' \in {outlived, outlived \cup {c}}
          <5>1. CASE token[c] # 0 \/ view[c] # NoEvents
            <6>1. {d \in cals \ cals' : token[d] # 0 \/ view[d] # NoEvents} = {c}
              BY <4>2, <5>1
            <6> QED
              BY <4>1, <6>1
          <5>2. CASE ~(token[c] # 0 \/ view[c] # NoEvents)
            <6>1. {d \in cals \ cals' : token[d] # 0 \/ view[d] # NoEvents} = {}
              BY <4>2, <5>2
            <6> QED
              BY <4>1, <6>1
          <5> QED
            BY <5>1, <5>2
        <4>4. c \notin outlived' => view[c] = NoEvents
          BY <4>1, <4>2
        <4> QED
          BY <4>1, <4>3, <4>4 DEF Abstract!Remove
      <3>3. CollectionChange \/ \E c \in Cals : DeleteCalendar(c)
        BY <2>1, StoreStepShape DEF StoreStep
      <3> QED
        BY <3>1, <3>2, <3>3 DEF Abstract!Next
    <2>2. ASSUME NEW c \in Cals, SyncCollection(c) PROVE Abstract!Sync(c)
      <3>1. /\ c \in cals /\ ~TooOld(c)
            /\ view' = [view EXCEPT ![c] = Synced(c)]
            /\ UNCHANGED <<cals, events, outlived>>
        BY <2>2 DEF SyncCollection, vars, index
      <3>2. CASE c \notin outlived
        BY <3>1, <3>2, SyncedIsExact DEF Abstract!Sync
      <3>3. CASE c \in outlived
        <4>1. Synced(c) \in [Uids -> Contents \cup {None}]
          BY <3>1, SyncedType DEF SyncInv
        <4> QED
          BY <3>1, <3>3, <4>1 DEF Abstract!Sync
      <3> QED
        BY <3>2, <3>3
    <2>3. ASSUME NEW c \in Cals, Refused(c) PROVE Abstract!Forget(c)
      BY <2>3 DEF Refused, Forget, vars, index, Abstract!Forget
    <2>4. CASE UNCHANGED syncVars
      BY <2>4 DEF syncVars, client, vars, index, Abstract!vars
    <2> QED
      BY <2>1, <2>2, <2>3, <2>4 DEF SyncNext, Abstract!Next
  <1> QED
    BY <1>1, <1>2, SyncSafe, PTL DEF SyncSpec, ReplicaSpec, Abstract!Spec

-----------------------------------------------------------------------------
(* Reports and bodies *)

\* What a step of the store does to the flags of a slot: a mutation half way stays so,
\* is logged, is lost to a fault, or had nothing to delete; and file and row of a
\* resource do not come apart unless a mutation is half way or a fault did it.
SlotStep(c, u) ==
    /\ HalfWay(c, u) =>
          HalfWay(c, u)' \/ Logs(c, u) \/ Tears(c, u) \/ events[c][u] = None
    /\ disk'[c][u] # events'[c][u] /\ events'[c][u] # None =>
          \/ HalfWay(c, u)'
          \/ Tears(c, u)
          \/ disk[c][u] # events[c][u] /\ events[c][u] # None /\ ~Logs(c, u)

\* Rows that were in the log before the step are not rows it logs.
LEMMA OldRows ==
    ASSUME StoreInv, changelog' \subseteq changelog, NEW c \in Cals, NEW u \in Uids
    PROVE  ~Logs(c, u)
  <1>1. \A r \in changelog : r.seq \in Nat /\ r.cal \in Cals /\ r.seq <= ctag[r.cal]
    BY DEF StoreInv, TypeOK, TagCoversLog, Row
  <1>2. \A d \in Cals : ctag[d] \in Nat /\ ctag[d] <= lastSeq
    BY DEF StoreInv, TypeOK, TagCoversLog
  <1> QED
    BY <1>1, <1>2 DEF Logs, StoreInv, TypeOK

LEMMA LoggedSlot ==
    ASSUME StoreInv, NEW d \in Cals, d \in cals, NEW v \in Uids, NEW e \in Value,
           IndexRow(d, v, e), UNCHANGED files, busy' = Idle,
           disk[d][v] = e \/ (e = None /\ Unread(d, v)),
           phase # "up" \/ (busy.op \in {"put", "delete"} /\ busy.cal = d /\ busy.uid = v),
           NEW c \in cals, NEW u \in Uids
    PROVE  SlotStep(c, u)
  <1> DEFINE new == [seq |-> lastSeq + 1, cal |-> d, uid |-> v, etag |-> e, at |-> now]
  <1>1. /\ changelog' = changelog \cup {new} /\ disk' = disk
        /\ new.seq = lastSeq + 1 /\ new.cal = d /\ new.uid = v
    BY DEF IndexRow, files
  <1>2. c \in Cals /\ lastSeq \in Nat
    BY DEF StoreInv, TypeOK
  <1>3. CASE c = d /\ u = v
    <2>1. Logs(c, u)
      <3>1. new \in changelog' /\ new.cal = c /\ new.uid = u /\ new.seq > lastSeq
        BY <1>1, <1>2, <1>3
      <3> HIDE DEF new
      <3> QED
        BY <3>1 DEF Logs
    <2>2. events'[c][u] \in {disk'[c][u], None}
      BY <1>1, <1>2, <1>3 DEF IndexRow, StoreInv, TypeOK
    <2> QED
      BY <2>1, <2>2 DEF SlotStep
  <1>4. CASE ~(c = d /\ u = v)
    <2>1. events'[c][u] = events[c][u]
      BY <1>2, <1>4 DEF IndexRow, StoreInv, TypeOK
    <2>2. ~HalfWay(c, u)
      BY <1>4 DEF HalfWay, StoreInv, MutationInv, Idle
    <2>3. \A r \in changelog : r.seq <= lastSeq
      <3>1. \A r \in changelog : r.seq \in Nat /\ r.cal \in Cals /\ r.seq <= ctag[r.cal]
        BY DEF StoreInv, TypeOK, TagCoversLog, Row
      <3>2. \A f \in Cals : ctag[f] \in Nat /\ ctag[f] <= lastSeq
        BY DEF StoreInv, TypeOK, TagCoversLog
      <3> QED
        BY <1>2, <3>1, <3>2
    <2>4. \A r \in changelog : r.seq \in Nat
      BY DEF StoreInv, TypeOK, Row
    <2>5. ~Logs(c, u)
      BY <1>1, <1>2, <1>4, <2>3, <2>4 DEF Logs
    <2> QED
      BY <1>1, <2>1, <2>2, <2>5 DEF SlotStep
  <1> QED
    BY <1>3, <1>4

\* A slot that neither the step nor a mutation half way is about stays as it was.
LEMMA QuietSlot ==
    ASSUME StoreInv, changelog' \subseteq changelog, NEW c \in Cals, NEW u \in Uids,
           disk'[c][u] = disk[c][u], events'[c][u] = events[c][u],
           HalfWay(c, u) => HalfWay(c, u)'
    PROVE  SlotStep(c, u)
  BY OldRows DEF SlotStep

LEMMA StoreSlots ==
    ASSUME StoreInv, NEW c \in cals, c \in cals', NEW u \in Uids
    PROVE  Next => SlotStep(c, u)
  <1> DEFINE G == SlotStep(c, u)
  <1>1. c \in Cals /\ faults \in Nat
    BY DEF StoreInv, TypeOK
  <1>2. busy.op = "rmdir" => busy.cal # c
    BY DEF StoreInv, MutationInv
  <1>3. phase = "down" \/ busy = Idle => ~HalfWay(c, u)
    BY DEF HalfWay, StoreInv, MutationInv, Idle
  <1>4. UNCHANGED <<disk, events, changelog, busy>> => G
    BY <1>1, QuietSlot DEF HalfWay
  <1>5. \A d \in Cals : DeleteCalendar(d) => G
    <2> SUFFICES ASSUME NEW d \in Cals, DeleteCalendar(d) PROVE G
      OBVIOUS
    <2>1. /\ d # c /\ busy = Idle /\ disk' = disk /\ changelog' \subseteq changelog
          /\ events' = [events EXCEPT ![d] = NoEvents]
      BY DEF DeleteCalendar, Unlocked, files
    <2>2. events'[c] = events[c]
      BY <1>1, <2>1 DEF StoreInv, TypeOK
    <2> QED
      BY <1>1, <1>3, <2>1, <2>2, QuietSlot
  <1>6. \A d \in Cals : CompactCalendar(d) => G
    <2> SUFFICES ASSUME NEW d \in Cals, CompactCalendar(d) PROVE G
      OBVIOUS
    <2>1. changelog' \subseteq changelog /\ UNCHANGED <<disk, events, busy>>
      BY DEF CompactCalendar, files
    <2> QED
      BY <1>1, <2>1, QuietSlot DEF HalfWay
  <1>7. \A d \in Cals, v \in Uids, b \in Contents : Unlocked /\ WriteFile(d, v, b) => G
    <2> SUFFICES ASSUME NEW d \in Cals, NEW v \in Uids, NEW b \in Contents,
                        Unlocked, WriteFile(d, v, b)
                 PROVE  G
      OBVIOUS
    <2>1. /\ busy = Idle /\ UNCHANGED <<events, changelog>>
          /\ busy' = [op |-> "put", cal |-> d, uid |-> v, etag |-> b]
          /\ disk' = [disk EXCEPT ![d][v] = b]
      BY DEF WriteFile, Unlocked
    <2>2. CASE c = d /\ u = v
      BY <1>3, <2>1, <2>2 DEF SlotStep, HalfWay
    <2>3. CASE ~(c = d /\ u = v)
      <3>1. disk'[c][u] = disk[c][u]
        BY <1>1, <2>1, <2>3 DEF StoreInv, TypeOK
      <3> QED
        BY <1>1, <1>3, <2>1, <3>1, QuietSlot
    <2> QED
      BY <2>2, <2>3
  <1>8. \A d \in Cals, v \in Uids : Unlocked /\ BeginDelete(d, v) => G
    <2> SUFFICES ASSUME NEW d \in Cals, NEW v \in Uids, Unlocked, BeginDelete(d, v)
                 PROVE  G
      OBVIOUS
    <2>1. /\ busy = Idle /\ UNCHANGED <<events, changelog>>
          /\ busy' = [op |-> "delete", cal |-> d, uid |-> v, etag |-> None]
          /\ disk' = [disk EXCEPT ![d][v] = None]
      BY DEF BeginDelete, RemoveFile, Unlocked, index
    <2>2. CASE c = d /\ u = v
      BY <1>3, <2>1, <2>2 DEF SlotStep, HalfWay
    <2>3. CASE ~(c = d /\ u = v)
      <3>1. disk'[c][u] = disk[c][u]
        BY <1>1, <2>1, <2>3 DEF StoreInv, TypeOK
      <3> QED
        BY <1>1, <1>3, <2>1, <3>1, QuietSlot
    <2> QED
      BY <2>2, <2>3
  <1>9. RemoveAll \/ (\E gone \in SUBSET Uids : RemoveAllFails(gone)) => G
    <2> SUFFICES ASSUME RemoveAll \/ (\E gone \in SUBSET Uids : RemoveAllFails(gone)) PROVE G
      OBVIOUS
    <2>1. busy.op = "rmdir" /\ UNCHANGED <<events, changelog>>
      BY DEF RemoveAll, RemoveAllFails, index
    <2>2. disk'[c] = disk[c]
      BY <1>1, <1>2, <2>1 DEF RemoveAll, RemoveAllFails, StoreInv, TypeOK
    <2>3. ~HalfWay(c, u)
      BY <2>1 DEF HalfWay
    <2> QED
      BY <1>1, <2>1, <2>2, <2>3, QuietSlot
  <1>10. /\ IndexUpsert => G
         /\ IndexDelete => G
         /\ \A d \in Cals, v \in Uids : ReconcileFile(d, v) => G
         /\ \A d \in Cals, v \in Uids : ReconcileRow(d, v) => G
    <2>1. \A d \in Cals, v \in Uids, e \in Value :
              /\ d \in cals
              /\ IndexRow(d, v, e)
              /\ disk[d][v] = e \/ (e = None /\ Unread(d, v))
              /\ UNCHANGED <<files, phase, now, faults>>
              /\ busy' = Idle
              /\ phase # "up" \/ (busy.op \in {"put", "delete"} /\ busy.cal = d /\ busy.uid = v)
              => G
      BY LoggedSlot
    <2> HIDE DEF G
    <2> QED
      BY <2>1, Logged
  <1>11. IndexDeleteNothing => G
    BY <1>1, OldRows DEF IndexDeleteNothing, SlotStep, HalfWay, index, files
  <1>12. (IndexFails => G) /\ (Crash => G)
    <2>1. IndexFails \/ Crash => /\ UNCHANGED <<disk, events, changelog>>
                                 /\ faults' # faults
      BY <1>1 DEF IndexFails, Crash, index, files
    <2>2. IndexFails \/ Crash => ~Logs(c, u)
      BY <1>1, <2>1, OldRows
    <2> QED
      BY <2>1, <2>2 DEF SlotStep, Tears
  <1>13. \/ \E d \in Cals, v \in Uids, b \in Value : EditFile(d, v, b)
         \/ \E d \in Cals : RemoveDir(d)
         => G
    <2> SUFFICES ASSUME \/ \E d \in Cals, v \in Uids, b \in Value : EditFile(d, v, b)
                        \/ \E d \in Cals : RemoveDir(d)
                 PROVE  G
      OBVIOUS
    <2>1. /\ UNCHANGED <<events, changelog>>
          /\ faults' # faults /\ phase = "down"
      BY <1>1 DEF EditFile, RemoveDir, index
    <2>2. ~Logs(c, u)
      BY <1>1, <2>1, OldRows
    <2> QED
      BY <1>3, <2>1, <2>2 DEF SlotStep, Tears
  <1>14. /\ \A o \in Users : EnsureHomeLocked(o) => G
         /\ \A d \in Cals : CreateCalendarID(d) => G
         /\ (\E t \in Times : Tick(t)) => G
         /\ Open => G
         /\ \A b \in [dirs : SUBSET Cals, files : SUBSET Slots] : OpenBlind(b) => G
         /\ \A o \in Users : EnsureHome(o) => G
         /\ Serve => G
    BY <1>4 DEF EnsureHomeLocked, CreateCalendarID, Tick, Open, OpenBlind, EnsureHome, Serve,
                index, files
  <1> HIDE DEF G
  <1>15. Next => G
    BY <1>5, <1>6, <1>7, <1>8, <1>9, <1>10, <1>11, <1>12, <1>13, <1>14, StoreActions
  <1> QED
    BY <1>15 DEF G

-----------------------------------------------------------------------------
\* A row logged by the step is after any token handed out before it.
LEMMA LoggedAfter ==
    ASSUME StoreInv, NEW c \in Cals, NEW u \in Uids, NEW t \in Nat, t <= ctag[c],
           Logs(c, u), StoreInv'
    PROVE  Since(c, u, t)' # {}
  <1>1. PICK r \in changelog' : r.cal = c /\ r.uid = u /\ r.seq > lastSeq
    BY DEF Logs
  <1>2. r.seq \in Nat /\ lastSeq \in Nat /\ ctag[c] \in Nat /\ ctag[c] <= lastSeq
    BY DEF StoreInv, TypeOK, TagCoversLog, Row
  <1> QED
    BY <1>1, <1>2 DEF Since

\* A calendar that a step adds to the table has no rows yet.
LEMMA NewCalendarsEmpty ==
    ASSUME StoreInv
    PROVE  Next => \A c \in cals' \ cals : events'[c] = NoEvents
  <1> DEFINE G == \A c \in cals' \ cals : events'[c] = NoEvents
  <1>1. \A c \in Cals \ cals : events[c] = NoEvents
    BY DEF StoreInv, TagCoversLog
  <1>2. cals' \subseteq cals => G
    OBVIOUS
  <1>3. cals' \subseteq Cals /\ UNCHANGED events => G
    BY <1>1
  <1>4. /\ \A o \in Users : EnsureHomeLocked(o) => G
        /\ \A c \in Cals : CreateCalendarID(c) => G
        /\ \A c \in Cals, u \in Uids, b \in Contents : Unlocked /\ WriteFile(c, u, b) => G
    BY <1>3, HomeType, OwnerType DEF EnsureHomeLocked, CreateCalendarID, WriteFile, StoreInv, TypeOK
  <1>5. /\ \A c \in Cals : DeleteCalendar(c) => G
        /\ \A c \in Cals : CompactCalendar(c) => G
        /\ \A c \in Cals, u \in Uids : Unlocked /\ BeginDelete(c, u) => G
        /\ RemoveAll \/ (\E gone \in SUBSET Uids : RemoveAllFails(gone)) => G
    BY <1>2 DEF DeleteCalendar, CompactCalendar, BeginDelete, RemoveAll, RemoveAllFails, index
  <1>6. /\ IndexUpsert => G
        /\ IndexDelete => G
        /\ IndexDeleteNothing => G
        /\ IndexFails => G
        /\ (\E t \in Times : Tick(t)) => G
    BY <1>2 DEF IndexUpsert, IndexDelete, IndexDeleteNothing, IndexFails, Tick, IndexRow, index
  <1>7. /\ Crash => G
        /\ \/ \E c \in Cals, u \in Uids, b \in Value : EditFile(c, u, b)
           \/ \E c \in Cals : RemoveDir(c)
           => G
        /\ Open => G
        /\ \A b \in [dirs : SUBSET Cals, files : SUBSET Slots] : OpenBlind(b) => G
        /\ \A o \in Users : EnsureHome(o) => G
        /\ \A c \in Cals, u \in Uids : ReconcileFile(c, u) => G
        /\ \A c \in Cals, u \in Uids : ReconcileRow(c, u) => G
        /\ Serve => G
    BY <1>2 DEF Crash, EditFile, RemoveDir, Open, OpenBlind, EnsureHome, ReconcileFile,
                ReconcileRow, Serve, IndexRow, index
  <1> HIDE DEF G
  <1>8. Next => G
    BY <1>4, <1>5, <1>6, <1>7, StoreActions
  <1> QED
    BY <1>8 DEF G

\* While a report is being written the store may do anything but stop.
LEMMA ServerStepObj ==
    ASSUME StoreInv, StoreInv', SyncInv, SyncInv', ObjInv, ServerStep
    PROVE  ObjInv'
  <1>1. /\ Next /\ UNCHANGED <<token, view, body, fetch>>
        /\ outlived' = outlived \cup {c \in cals \ cals' : token[c] # 0 \/ view[c] # NoEvents}
        /\ fetch # NoFetch => phase' = "up"
        /\ torn' = {s \in Slots : Tears(s[1], s[2]) \/ (s \in torn /\ ~Logs(s[1], s[2]))}
    BY DEF ServerStep, StoreStep
  <1>2. ObjTypeOK'
    BY <1>1 DEF ObjInv, ObjTypeOK, SyncInv
  <1>3. \A c \in Cals, u \in Uids :
            <<c, u>> \in torn' <=> Tears(c, u) \/ (<<c, u>> \in torn /\ ~Logs(c, u))
    BY <1>1 DEF Slots
  <1>4. cals \subseteq Cals /\ cals' \subseteq Cals
    BY DEF StoreInv, TypeOK
  <1>5. \A c \in Cals : /\ token[c] \in Nat /\ ctag[c] \in Nat
                        /\ c \notin outlived => token[c] <= ctag[c]
    BY DEF SyncInv, SyncTypeOK, StoreInv, TypeOK
  <1>6. ASSUME NEW c \in cals', NEW u \in Uids, disk'[c][u] # events'[c][u],
               events'[c][u] # None
        PROVE  HalfWay(c, u)' \/ <<c, u>> \in torn'
    <2>1. c \in cals
      BY <1>1, <1>6, NewCalendarsEmpty DEF NoEvents
    <2>2. SlotStep(c, u)
      BY <1>1, <1>6, <2>1, StoreSlots
    <2>3. disk[c][u] # events[c][u] /\ events[c][u] # None
          => HalfWay(c, u) \/ <<c, u>> \in torn
      BY <2>1 DEF ObjInv, TornInv
    <2> QED
      BY <1>3, <1>4, <1>6, <2>2, <2>3 DEF SlotStep
  <1>7. TornInv'
    BY <1>6 DEF TornInv
  <1>8. ASSUME NEW c \in cals, c \in cals', c \notin outlived, ~TooOld(c)', token[c] > 0
        PROVE  ~TooOld(c) /\ Remembers(c, token[c])
    <2>1. token[c] >= minValid'[c]
      BY <1>1, <1>4, <1>5, <1>8 DEF TooOld, StoreInv, TypeOK
    <2>2. Remembers(c, token[c])
      BY <1>1, <1>4, <1>5, <1>8, <2>1, StoreRemembers
    <2> QED
      BY <1>4, <1>5, <1>8, <2>2 DEF Remembers, TooOld, StoreInv, TypeOK
  <1>9. ASSUME NEW c \in cals, c \in cals', c \notin outlived, ~TooOld(c)', token[c] > 0,
               NEW u \in Uids, Since(c, u, token[c])' = {}
        PROVE  ~TooOld(c) /\ Since(c, u, token[c]) = {} /\ events'[c][u] = events[c][u]
    BY <1>1, <1>8, <1>9 DEF Remembers, Since
  <1>10. FetchInv'
    <2> SUFFICES ASSUME fetch # NoFetch, NEW c, c = fetch.cal
                 PROVE  /\ phase' = "up"
                        /\ c \in cals' \cup outlived'
                        /\ c \notin outlived' =>
                              /\ token[c] > 0
                              /\ TooOld(c)' \/ \A u \in fetch.todo :
                                     Since(c, u, token[c])' = {} => events'[c][u] # None
      BY <1>1 DEF FetchInv, Since, TooOld
    <2>1. c \in Cals /\ fetch.todo \subseteq Uids
      BY DEF ObjInv, ObjTypeOK
    <2>2. c \in cals \cup outlived /\ (c \notin outlived => token[c] > 0)
      BY DEF ObjInv, FetchInv
    <2>3. c \in outlived' \/ (c \in cals /\ c \in cals' /\ c \notin outlived)
      BY <1>1, <1>5, <2>1, <2>2
    <2>4. ASSUME c \notin outlived', ~TooOld(c)', NEW u \in fetch.todo,
                 Since(c, u, token[c])' = {}
          PROVE  events'[c][u] # None
      <3>1. c \in cals /\ c \in cals' /\ c \notin outlived /\ u \in Uids /\ token[c] > 0
        BY <2>1, <2>2, <2>3, <2>4
      <3>2. ~TooOld(c) /\ Since(c, u, token[c]) = {} /\ events'[c][u] = events[c][u]
        BY <1>9, <2>4, <3>1
      <3> QED
        BY <2>4, <3>1, <3>2 DEF ObjInv, FetchInv
    <2> QED
      BY <1>1, <2>2, <2>3, <2>4
  <1>11. ASSUME NEW c \in Cals, c \notin outlived'
         PROVE  token[c] = 0 => body[c] = NoEvents
    BY <1>1, <1>11 DEF ObjInv, BodyInv
  <1>12. ASSUME NEW c \in Cals, c \notin outlived', token[c] > 0, ~TooOld(c)', NEW u \in Uids,
                Since(c, u, token[c])' = {}, body[c][u] # events'[c][u]
         PROVE  /\ events'[c][u] # None
                /\ Pending(c, u) \/ HalfWay(c, u)' \/ <<c, u>> \in torn'
    <2>1. c \notin outlived /\ c \in cals /\ c \in cals'
      <3>1. c \notin outlived /\ (c \in cals => c \in cals')
        BY <1>1, <1>5, <1>12
      <3>2. c \notin cals => ctag[c] = 0
        BY DEF StoreInv, TagCoversLog
      <3> QED
        BY <1>5, <1>12, <3>1, <3>2
    <2>2. ~TooOld(c) /\ Since(c, u, token[c]) = {} /\ events'[c][u] = events[c][u]
      BY <1>9, <1>12, <2>1
    <2>3. events[c][u] # None /\ (Pending(c, u) \/ HalfWay(c, u) \/ <<c, u>> \in torn)
      BY <1>12, <2>1, <2>2 DEF ObjInv, BodyInv
    <2>4. ~Logs(c, u)
      BY <1>1, <1>5, <1>12, <2>1, LoggedAfter DEF Since
    <2>5. SlotStep(c, u)
      BY <1>1, <2>1, StoreSlots
    <2> QED
      BY <1>3, <2>2, <2>3, <2>4, <2>5 DEF SlotStep
  <1>13. BodyInv'
    BY <1>1, <1>11, <1>12 DEF BodyInv, Pending, Since
  <1> QED
    BY <1>2, <1>7, <1>10, <1>13 DEF ObjInv

LEMMA ReadingType ==
    ASSUME NEW c \in Cals, NEW us \in SUBSET Uids
    PROVE  /\ Reading(c, us) \in {NoFetch} \cup [cal : Cals, todo : SUBSET Uids]
           /\ Reading(c, us) # NoFetch => Reading(c, us).cal = c /\ Reading(c, us).todo = us
           /\ us # {} => Reading(c, us) # NoFetch
  <1>1. us # {} => [cal |-> c, todo |-> us] # NoFetch
    BY DEF NoFetch
  <1> QED
    BY <1>1 DEF Reading

\* The snapshot: what it says is gone has no body, what it says is there is to be read.
LEMMA QueryObj ==
    ASSUME StoreInv, SyncInv, SyncInv', ObjInv, NEW c \in Cals, Query(c)
    PROVE  ObjInv'
  <1> DEFINE us == {u \in Reported(c) : Synced(c)[u] # None}
             copy == [u \in Uids |->
                         IF u \in Reported(c) /\ Synced(c)[u] = None THEN None ELSE body[c][u]]
  <1>1. /\ fetch = NoFetch /\ phase = "up" /\ c \in cals /\ ~TooOld(c)
        /\ view' = [view EXCEPT ![c] = Synced(c)]
        /\ token' = [token EXCEPT ![c] = ctag[c]]
        /\ UNCHANGED <<cals, ctag, minValid, events, changelog, disk, phase, busy, outlived, torn>>
        /\ fetch' = Reading(c, us)
    BY DEF Query, SyncCollection, Unlocked, vars, index, files, life
  <1>2. body' = [body EXCEPT ![c] = copy]
    BY DEF Query
  <1>3. us \subseteq Uids
    BY DEF Reported
  <1>4. copy \in [Uids -> Value]
    BY DEF ObjInv, ObjTypeOK, Value
  <1>5. \A d \in Cals : /\ d = c => body'[d] = copy /\ token'[d] = ctag[c]
                        /\ d # c => body'[d] = body[d] /\ token'[d] = token[d]
    BY <1>1, <1>2 DEF ObjInv, ObjTypeOK, SyncInv, SyncTypeOK
  <1>6. ObjTypeOK'
    BY <1>1, <1>2, <1>3, <1>4, ReadingType DEF ObjInv, ObjTypeOK, SyncInv
  <1>7. TornInv'
    BY <1>1 DEF ObjInv, TornInv, HalfWay
  <1>8. \A d \in Cals, u \in Uids, t \in Nat : Since(d, u, t)' = Since(d, u, t)
    BY <1>1 DEF Since
  <1>9. ctag[c] \in Nat /\ token[c] \in Nat /\ (ctag[c] = 0 => events[c] = NoEvents)
    BY DEF StoreInv, TypeOK, TagCoversLog, SyncInv, SyncTypeOK
  <1>10. c \notin outlived => Synced(c) = events[c] /\ token[c] <= ctag[c]
    BY <1>1, SyncedIsExact DEF SyncInv
  <1>11. FetchInv'
    <2> SUFFICES ASSUME fetch' # NoFetch
                 PROVE  c \notin outlived =>
                            ctag[c] > 0 /\ \A u \in us : events[c][u] # None
      <3>1. fetch' # NoFetch => fetch'.cal = c /\ fetch'.todo = us
        BY <1>1, <1>3, ReadingType
      <3>2. token'[c] = ctag[c] /\ phase' = "up" /\ c \in cals'
        BY <1>1, <1>5
      <3>3. events' = events /\ outlived' = outlived
        BY <1>1
      <3> QED
        BY <3>1, <3>2, <3>3 DEF FetchInv
    <2>1. us # {}
      BY <1>1 DEF Reading
    <2>2. c \notin outlived => \A u \in us : events[c][u] # None
      BY <1>10
    <2>3. c \notin outlived => events[c] # NoEvents
      BY <1>3, <2>1, <2>2 DEF NoEvents
    <2> QED
      BY <1>9, <2>2, <2>3
  <1>12. \A d \in Cals : token'[d] \in Nat
    BY <1>5, <1>9 DEF SyncInv, SyncTypeOK
  <1>13. ASSUME NEW d \in Cals, d \notin outlived
         PROVE  token'[d] = 0 => body'[d] = NoEvents
    <2>1. CASE d # c
      BY <1>5, <1>13, <2>1 DEF ObjInv, BodyInv
    <2>2. CASE d = c
      <3> SUFFICES ASSUME ctag[c] = 0 PROVE copy = NoEvents
        BY <1>5, <2>2
      <3>1. body[c] = NoEvents
        BY <1>9, <1>10, <1>13, <2>2 DEF ObjInv, BodyInv
      <3>2. \A u \in Uids : copy[u] = None
        BY <3>1 DEF NoEvents
      <3>3. copy = [u \in Uids |-> copy[u]]
        OBVIOUS
      <3> HIDE DEF copy
      <3> QED
        BY <3>2, <3>3 DEF NoEvents
    <2> QED
      BY <2>1, <2>2
  <1>14. ASSUME NEW d \in Cals, d \notin outlived, token'[d] > 0, ~TooOld(d)', NEW u \in Uids,
                Since(d, u, token'[d]) = {}, body'[d][u] # events[d][u]
         PROVE  /\ events[d][u] # None
                /\ Pending(d, u)' \/ HalfWay(d, u) \/ <<d, u>> \in torn
    <2>1. CASE d # c
      <3>1. ~TooOld(d) /\ ~Pending(d, u)
        BY <1>1, <1>5, <1>14, <2>1 DEF TooOld, Pending
      <3>2. token[d] > 0 /\ Since(d, u, token[d]) = {} /\ body[d][u] # events[d][u]
        BY <1>5, <1>14, <2>1
      <3>3. BodyInv
        BY DEF ObjInv
      <3> QED
        BY <1>14, <3>1, <3>2, <3>3 DEF BodyInv
    <2>2. CASE d = c /\ u \in Reported(c)
      <3>1. Synced(c)[u] = events[c][u]
        BY <1>10, <1>14, <2>2
      <3>2. events[c][u] # None
        <4>1. body'[d][u] = copy[u]
          BY <1>5, <2>2
        <4>2. Synced(c)[u] = None => copy[u] = None
          BY <2>2
        <4> QED
          BY <1>14, <2>2, <3>1, <4>1, <4>2
      <3>3. u \in us
        BY <2>2, <3>1, <3>2
      <3>4. Pending(c, u)'
        BY <1>1, <1>3, <3>3, ReadingType DEF Pending
      <3> QED
        BY <2>2, <3>2, <3>4
    <2>3. CASE d = c /\ u \notin Reported(c)
      <3>1. body[c][u] # events[c][u]
        BY <1>5, <1>14, <2>3
      <3>2. CASE token[c] = 0
        BY <1>14, <2>3, <3>1, <3>2 DEF Reported, ObjInv, BodyInv, NoEvents
      <3>3. CASE token[c] # 0
        <4>1. Since(c, u, token[c]) = {} /\ ~Pending(c, u)
          BY <1>1, <2>3, <3>3 DEF Reported, Pending
        <4> QED
          BY <1>1, <1>9, <1>14, <2>3, <3>1, <3>3, <4>1 DEF ObjInv, BodyInv
      <3> QED
        BY <3>2, <3>3
    <2> QED
      BY <2>1, <2>2, <2>3
  <1>15. BodyInv'
    <2> HIDE DEF copy, us
    <2> QED
      BY <1>1, <1>8, <1>12, <1>13, <1>14 DEF BodyInv, HalfWay, Since
  <1> QED
    BY <1>6, <1>7, <1>11, <1>15 DEF ObjInv

\* A body is read from the file of a resource whose row is there, or gone and logged.
LEMMA ReadBodyObj ==
    ASSUME StoreInv, SyncInv, SyncInv', ObjInv, NEW u \in Uids, ReadBody(u)
    PROVE  ObjInv'
  <1> DEFINE c == fetch.cal
  <1>1. /\ u \in fetch.todo
        /\ fetch' = Reading(c, fetch.todo \ {u})
        /\ UNCHANGED <<cals, ctag, minValid, events, changelog, disk, phase, busy,
                       token, view, outlived, torn>>
    BY DEF ReadBody, syncVars, client, vars, index, files, life
  <1>2. PICK b \in RawEvent(c, u) : body' = [body EXCEPT ![c][u] = b]
    BY DEF ReadBody
  <1>3. fetch # NoFetch /\ c \in Cals /\ fetch.todo \subseteq Uids
    BY <1>1 DEF ObjInv, ObjTypeOK, NoFetch
  <1>4. b \in Value
    BY <1>2, <1>3 DEF RawEvent, StoreInv, TypeOK, Value
  <1>5. \A d \in Cals, v \in Uids : body'[d][v] = IF d = c /\ v = u THEN b ELSE body[d][v]
    BY <1>2, <1>3 DEF ObjInv, ObjTypeOK
  <1>6. ObjTypeOK'
    <2>1. body' \in [Cals -> [Uids -> Value]]
      BY <1>2, <1>3, <1>4 DEF ObjInv, ObjTypeOK
    <2> QED
      BY <1>1, <1>3, <2>1, ReadingType DEF ObjInv, ObjTypeOK, SyncInv
  <1>7. TornInv'
    BY <1>1 DEF ObjInv, TornInv, HalfWay
  <1>8. \A v \in fetch.todo \ {u} : fetch' # NoFetch /\ fetch'.cal = c /\ v \in fetch'.todo
    BY <1>1, <1>3, ReadingType
  <1>9. fetch' # NoFetch => fetch'.cal = c /\ fetch'.todo \subseteq fetch.todo
    BY <1>1, <1>3, ReadingType
  <1>10. \A d \in Cals, v \in Uids, t \in Nat : Since(d, v, t)' = Since(d, v, t)
    BY <1>1 DEF Since
  <1>11. \A d \in Cals : token[d] \in Nat /\ TooOld(d)' = TooOld(d)
    BY <1>1 DEF SyncInv, SyncTypeOK, TooOld
  <1>12. FetchInv'
    BY <1>1, <1>3, <1>9, <1>10, <1>11 DEF ObjInv, FetchInv
  <1>13. c \notin outlived => c \in cals /\ token[c] > 0
    BY <1>3 DEF ObjInv, FetchInv
  <1>14. ASSUME NEW d \in Cals, d \notin outlived, token[d] = 0 PROVE body'[d] = NoEvents
    <2>1. d # c
      BY <1>13, <1>14
    <2> QED
      BY <1>2, <1>14, <2>1 DEF ObjInv, BodyInv, ObjTypeOK
  <1>15. ASSUME NEW d \in Cals, d \notin outlived, token[d] > 0, ~TooOld(d), NEW v \in Uids,
                Since(d, v, token[d]) = {}, body'[d][v] # events[d][v]
         PROVE  /\ events[d][v] # None
                /\ Pending(d, v)' \/ HalfWay(d, v) \/ <<d, v>> \in torn
    <2>1. CASE d = c /\ v = u
      <3>1. c \in cals /\ events[c][u] # None
        BY <1>1, <1>3, <1>13, <1>15, <2>1 DEF ObjInv, FetchInv
      <3>2. b = disk[c][u]
        BY <1>2, <3>1 DEF RawEvent
      <3>3. disk[c][u] # events[c][u]
        BY <1>5, <1>15, <2>1, <3>2
      <3> QED
        BY <2>1, <3>1, <3>3 DEF ObjInv, TornInv
    <2>2. CASE ~(d = c /\ v = u)
      <3>1. body[d][v] # events[d][v]
        BY <1>5, <1>15, <2>2
      <3>2. events[d][v] # None /\ (Pending(d, v) \/ HalfWay(d, v) \/ <<d, v>> \in torn)
        BY <1>15, <3>1 DEF ObjInv, BodyInv
      <3>3. Pending(d, v) => Pending(d, v)'
        BY <1>8, <2>2 DEF Pending
      <3> QED
        BY <3>2, <3>3
    <2> QED
      BY <2>1, <2>2
  <1>16. BodyInv'
    BY <1>1, <1>10, <1>11, <1>14, <1>15 DEF BodyInv, HalfWay
  <1> QED
    BY <1>6, <1>7, <1>12, <1>16 DEF ObjInv

LEMMA ForgetAllObj ==
    ASSUME StoreInv, SyncInv, SyncInv', ObjInv, NEW c \in Cals, ForgetAll(c)
    PROVE  ObjInv'
  <1>1. /\ fetch = NoFetch /\ fetch' = NoFetch
        /\ body' = [body EXCEPT ![c] = NoEvents]
        /\ token' = [token EXCEPT ![c] = 0]
        /\ outlived' = outlived \ {c}
        /\ UNCHANGED <<cals, minValid, events, changelog, disk, busy, torn>>
    BY DEF ForgetAll, Refused, Forget, vars, index, files, life
  <1>2. ObjTypeOK'
    BY <1>1, EmptyType DEF ObjInv, ObjTypeOK, SyncInv
  <1>3. TornInv'
    BY <1>1 DEF ObjInv, TornInv, HalfWay
  <1>4. FetchInv'
    BY <1>1 DEF FetchInv
  <1>5. \A d \in Cals : /\ d = c => body'[d] = NoEvents /\ token'[d] = 0
                        /\ d # c => body'[d] = body[d] /\ token'[d] = token[d]
    BY <1>1 DEF ObjInv, ObjTypeOK, SyncInv, SyncTypeOK
  <1>6. \A d \in Cals \ {c} : /\ TooOld(d)' = TooOld(d)
                              /\ \A u \in Uids : Since(d, u, token[d])' = Since(d, u, token[d])
    BY <1>1, <1>5 DEF TooOld, Since
  <1>7. \A d \in Cals, u \in Uids : ~Pending(d, u)
    BY <1>1 DEF Pending
  <1>8. BodyInv'
    BY <1>1, <1>5, <1>6, <1>7 DEF ObjInv, BodyInv, HalfWay
  <1> QED
    BY <1>2, <1>3, <1>4, <1>8 DEF ObjInv

-----------------------------------------------------------------------------
\* With bodies or without, a client takes the same steps.
LEMMA ObjSpecSync == ObjSpec => SyncSpec
  <1>1. ObjInit => SyncInit
    BY DEF ObjInit
  <1>2. [ObjNext]_objVars => [SyncNext]_syncVars
    BY DEF ObjNext, ServerStep, Query, ForgetAll, ReadBody, SyncNext, objVars
  <1> QED
    BY <1>1, <1>2, PTL DEF ObjSpec, SyncSpec

\* The inductive invariant of store, client and report.
THEOREM ObjSafe == ObjSpec => [](StoreInv /\ SyncInv /\ ObjInv)
  <1>1. ObjInit => ObjInv
    <2> SUFFICES ASSUME ObjInit PROVE ObjInv
      OBVIOUS
    <2>1. ObjTypeOK
      BY EmptyType DEF ObjInit, SyncInit, ObjTypeOK, SyncTypeOK
    <2>2. FetchInv /\ TornInv /\ BodyInv
      BY DEF ObjInit, SyncInit, Init, FetchInv, TornInv, BodyInv
    <2> QED
      BY <2>1, <2>2 DEF ObjInv
  <1>2. StoreInv /\ StoreInv' /\ SyncInv /\ SyncInv' /\ ObjInv /\ [ObjNext]_objVars => ObjInv'
    <2> SUFFICES ASSUME StoreInv, StoreInv', SyncInv, SyncInv', ObjInv, [ObjNext]_objVars
                 PROVE  ObjInv'
      OBVIOUS
    <2>1. CASE ServerStep
      BY <2>1, ServerStepObj
    <2>2. ASSUME NEW c \in Cals, Query(c) PROVE ObjInv'
      BY <2>2, QueryObj
    <2>3. ASSUME NEW c \in Cals, ForgetAll(c) PROVE ObjInv'
      BY <2>3, ForgetAllObj
    <2>4. ASSUME NEW u \in Uids, ReadBody(u) PROVE ObjInv'
      BY <2>4, ReadBodyObj
    <2>5. CASE UNCHANGED objVars
      BY <2>5 DEF objVars, syncVars, client, vars, index, files, life, ObjInv, ObjTypeOK, SyncTypeOK,
                  FetchInv, TornInv, BodyInv, Pending, HalfWay, TooOld, Since
    <2> QED
      BY <2>1, <2>2, <2>3, <2>4, <2>5 DEF ObjNext
  <1> QED
    BY <1>1, <1>2, ObjSpecSync, SyncSafe, PTL DEF ObjSpec

\* Copies, bodies and the report under way are what their types say.
THEOREM ObjTypes == ObjSpec => []ObjTypeOK
  <1>1. ObjInv => ObjTypeOK
    BY DEF ObjInv
  <1> QED
    BY <1>1, ObjSafe, PTL

\* No body stays wrong unnoticed (reportSync reads tags under the lock and bodies
\* after it): the client is told to fetch it again.
THEOREM ObjStaleBodiesAreFlagged == ObjSpec => []StaleBodiesAreFlagged
  <1>1. StoreInv /\ SyncInv /\ ObjInv => StaleBodiesAreFlagged
    <2> SUFFICES ASSUME StoreInv, SyncInv, ObjInv, NEW c \in cals, c \notin outlived,
                        NEW u \in Uids, body[c][u] # events[c][u]
                 PROVE  \/ Pending(c, u)
                        \/ TooOld(c)
                        \/ Since(c, u, token[c]) # {}
                        \/ token[c] = 0 /\ body[c] = NoEvents
                        \/ HalfWay(c, u)
                        \/ <<c, u>> \in torn
      BY DEF StaleBodiesAreFlagged
    <2>1. c \in Cals /\ token[c] \in Nat
      BY DEF StoreInv, TypeOK, SyncInv, SyncTypeOK
    <2> QED
      BY <2>1 DEF ObjInv, BodyInv
  <1> QED
    BY <1>1, ObjSafe, PTL

\* With bodies under way, too, an accepted token leaves no silent gap.
THEOREM ObjNoSilentGap == ObjSpec => []NoSilentGap
  BY ObjSpecSync, SyncNoSilentGap, PTL

=============================================================================
