---------------------------- MODULE StreamProofs ----------------------------
(***************************************************************************)
(* Proofs about Stream, for any calendars and owners, any capacity of a    *)
(* subscriber's channel and any number of changes and connections.  What   *)
(* is on its way to the client is in three queues, the replayed rows, the  *)
(* channel and the wire; the lemmas say what moving a change from one to   *)
(* the next does to the set of changes under way (Pending).                *)
(***************************************************************************)
EXTENDS Stream, TLAPS, FiniteSetTheorems, SequenceTheorems, WellFoundedInduction

-----------------------------------------------------------------------------
(* Queues *)

LEMMA MembersAppend ==
    ASSUME NEW S, NEW q \in Seq(S), NEW x \in S
    PROVE  Members(Append(q, x)) = Members(q) \cup {x}
  <1>1. /\ Len(q) \in Nat /\ DOMAIN q = 1 .. Len(q)
        /\ DOMAIN Append(q, x) = 1 .. (Len(q) + 1)
        /\ \A i \in 1 .. Len(q) : Append(q, x)[i] = q[i]
        /\ Append(q, x)[Len(q) + 1] = x
    BY AppendProperties, LenProperties
  <1>2. DOMAIN Append(q, x) = DOMAIN q \cup {Len(q) + 1}
    BY <1>1
  <1> QED
    BY <1>1, <1>2 DEF Members

LEMMA MembersTail ==
    ASSUME NEW S, NEW q \in Seq(S), q # <<>>
    PROVE  /\ Head(q) \in S /\ Tail(q) \in Seq(S) /\ Len(Tail(q)) <= Len(q)
           /\ Members(q) = {Head(q)} \cup Members(Tail(q))
  <1>1. /\ Head(q) \in S /\ Tail(q) \in Seq(S) /\ Len(q) \in Nat \ {0}
        /\ Len(Tail(q)) = Len(q) - 1 /\ Head(q) = q[1]
        /\ \A i \in 1 .. Len(Tail(q)) : Tail(q)[i] = q[i + 1]
    BY HeadTailProperties, EmptySeq
  <1>2. DOMAIN q = 1 .. Len(q) /\ DOMAIN Tail(q) = 1 .. (Len(q) - 1)
    BY <1>1, LenProperties
  <1>3. ASSUME NEW i \in DOMAIN q, i # 1 PROVE q[i] \in Members(Tail(q))
    <2>1. i - 1 \in DOMAIN Tail(q) /\ Tail(q)[i - 1] = q[i]
      BY <1>1, <1>2, <1>3
    <2> QED
      BY <2>1 DEF Members
  <1>4. ASSUME NEW i \in DOMAIN Tail(q) PROVE Tail(q)[i] \in Members(q)
    <2>1. i + 1 \in DOMAIN q /\ Tail(q)[i] = q[i + 1]
      BY <1>1, <1>2
    <2> QED
      BY <2>1 DEF Members
  <1>5. Head(q) \in Members(q)
    BY <1>1, <1>2 DEF Members
  <1>6. Members(q) \subseteq {Head(q)} \cup Members(Tail(q))
    BY <1>1, <1>3 DEF Members
  <1>7. Members(Tail(q)) \subseteq Members(q)
    BY <1>4 DEF Members
  <1> QED
    BY <1>1, <1>5, <1>6, <1>7

LEMMA MembersOf == ASSUME NEW S, NEW q \in Seq(S) PROVE Members(q) \subseteq S
  BY LenProperties, ElementOfSeq DEF Members

\* The ids of a queue of frames are those of the changes among its members.
LEMMA IdsOf == ASSUME NEW q PROVE Ids(q) = {f.id : f \in {g \in Members(q) : g.change}}
  BY DEF Ids, Members

LEMMA IdsAppend ==
    ASSUME NEW q \in Seq(Frame), NEW f \in Frame
    PROVE  Ids(Append(q, f)) = Ids(q) \cup (IF f.change THEN {f.id} ELSE {})
  BY MembersAppend, IdsOf

LEMMA IdsTail ==
    ASSUME NEW q \in Seq(Frame), q # <<>>
    PROVE  /\ Head(q) \in Frame /\ Tail(q) \in Seq(Frame)
           /\ Ids(q) = Ids(Tail(q)) \cup (IF Head(q).change THEN {Head(q).id} ELSE {})
  BY MembersTail, IdsOf

LEMMA NothingQueued == Members(<<>>) = {} /\ Ids(<<>>) = {}
  BY DEF Members, Ids

-----------------------------------------------------------------------------
(* Positions *)

Before == {p \in Nat \X Nat : p[1] < p[2]}

\* A set of sequence numbers that is not empty has a largest one.
LEMMA LargestSeq ==
    ASSUME NEW n \in Nat, NEW S \in SUBSET (1 .. n), S # {}
    PROVE  \E s \in S : \A t \in S : t <= s
  <1> DEFINE T == {n - s : s \in S}
  <1>1. T \subseteq Nat /\ T # {}
    <2>1. \A s \in S : s \in Nat /\ n - s \in Nat
      OBVIOUS
    <2> QED
      BY <2>1
  <1>2. IsWellFoundedOn(Before, Nat)
    BY NatLessThanWellFounded DEF OpToRel, Before
  <1>3. PICK x \in T : \A y \in T : ~ (<<y, x>> \in Before)
    BY <1>1, <1>2, WFMin, Zenon
  <1>4. PICK s \in S : x = n - s
    BY <1>3
  <1>5. ASSUME NEW t \in S PROVE t <= s
    <2>1. n - t \in T /\ ~ (<<n - t, x>> \in Before)
      BY <1>3
    <2> QED
      BY <1>1, <1>4, <2>1 DEF Before
  <1> QED
    BY <1>5

\* MaxSeq is at least every row it looks at.
LEMMA MaxOwnSeqCovers ==
    ASSUME TypeOK PROVE MaxOwnSeq \in Nat /\ \A s \in OwnSeqs : s <= MaxOwnSeq
  <1>1. Len(log) \in Nat /\ OwnSeqs \subseteq 1 .. Len(log)
    BY LenProperties DEF TypeOK, OwnSeqs, Seqs
  <1>2. CASE OwnSeqs = {}
    BY <1>2 DEF MaxOwnSeq
  <1>3. CASE OwnSeqs # {}
    <2>1. \E s \in OwnSeqs : \A t \in OwnSeqs : t <= s
      BY <1>1, <1>3, LargestSeq
    <2>2. MaxOwnSeq \in OwnSeqs /\ \A t \in OwnSeqs : t <= MaxOwnSeq
      BY <1>3, <2>1 DEF MaxOwnSeq
    <2> QED
      BY <1>1, <2>2
  <1> QED
    BY <1>2, <1>3

\* Sequence numbers stay: the log only grows.
LEMMA SeqsType ==
    ASSUME TypeOK
    PROVE  /\ Len(log) \in Nat /\ Seqs \subseteq Nat /\ 0 \notin Seqs
           /\ Members(replay) \subseteq Seqs /\ Members(ch) \subseteq Seqs
           /\ pub # 0 => pub \in Seqs
           /\ \A s \in Seqs : log[s] \in Cals
  BY LenProperties, MembersOf, ElementOfSeq DEF TypeOK, Seqs

-----------------------------------------------------------------------------
(* The store and the hub *)

LEMMA CommitInv == ASSUME StreamInv, NEW c \in Cals, Commit(c) PROVE StreamInv'
  <1> DEFINE n == Len(log) + 1
  <1>1. TypeOK /\ WireInv /\ OnlyAccessible /\ ReplayInv
    BY DEF StreamInv
  <1>2. /\ pub = 0 /\ pub' = n /\ log' = Append(log, c)
        /\ UNCHANGED <<trimmed, granted, phase, access, position, replay, ch, wire, lastId,
                       seen, dropped, connects, fails>>
    BY DEF Commit
  <1>3. /\ log' \in Seq(Cals) /\ Len(log') = n /\ log'[n] = c
        /\ \A s \in Seqs : log'[s] = log[s]
    BY <1>1, <1>2, AppendProperties DEF TypeOK, Seqs
  <1>4. Len(log) \in Nat /\ Seqs \subseteq Seqs' /\ Seqs' = Seqs \cup {n} /\ n \notin Seqs
    BY <1>1, <1>3, SeqsType DEF Seqs
  <1>5. TypeOK'
    <2>1. replay' \in Seq(Seqs') /\ ch' \in Seq(Seqs')
      BY <1>1, <1>2, <1>4, SeqMonotonic DEF TypeOK
    <2> QED
      BY <1>1, <1>2, <1>3, <1>4, <2>1 DEF TypeOK, position
  <1>6. Pending' = Pending /\ Pending \subseteq Seqs
    BY <1>1, <1>2, SeqsType DEF Pending, WireInv
  <1>7. WireInv'
    BY <1>1, <1>2, <1>4 DEF WireInv
  <1>8. OnlyAccessible'
    BY <1>1, <1>2, <1>3, <1>6 DEF OnlyAccessible
  <1>9. \A s \in OwnSeqs' : s # n => s \in OwnSeqs /\ s # pub
    BY <1>1, <1>2, <1>3, <1>4, SeqsType DEF OwnSeqs
  <1>10. ReplayInv'
    BY <1>1, <1>2, <1>6, <1>9 DEF ReplayInv, Accounted, position
  <1> QED
    BY <1>5, <1>7, <1>8, <1>10 DEF StreamInv

\* A steady log: same changes, same rows, nothing more said of types.
LEMMA SameLog ==
    ASSUME UNCHANGED <<log, trimmed>> PROVE Seqs' = Seqs /\ OwnSeqs' = OwnSeqs
  BY DEF Seqs, OwnSeqs

LEMMA PublishInv == ASSUME StreamInv, Publish PROVE StreamInv'
  <1>1. TypeOK /\ WireInv /\ OnlyAccessible /\ ReplayInv
    BY DEF StreamInv
  <1>2. /\ pub # 0 /\ pub' = 0
        /\ UNCHANGED <<log, trimmed, granted, phase, access, position, replay, wire, lastId,
                       seen, connects, fails>>
        /\ Seqs' = Seqs /\ OwnSeqs' = OwnSeqs
    BY SameLog DEF Publish
  <1>3. pub \in Seqs /\ log[pub] \in Cals /\ Len(log) \in Nat /\ 0 \notin Seqs
    BY <1>1, <1>2, SeqsType
  <1>4. CASE Registered /\ Wanted(log[pub]) /\ Len(ch) < Cap
    <2>1. ch' = Append(ch, pub) /\ dropped' = dropped
      BY <1>4 DEF Publish
    <2>2. ch' \in Seq(Seqs) /\ Len(ch') <= Cap /\ Members(ch') = Members(ch) \cup {pub}
      BY <1>1, <1>3, <1>4, <2>1, AppendProperties, MembersAppend, StreamAssumption, LenProperties
      DEF TypeOK
    <2>3. Pending' = Pending \cup {pub}
      BY <1>2, <2>2 DEF Pending
    <2>4. log[pub] \in Own \cup access
      BY <1>3, <1>4 DEF Wanted, Own
    <2>5. TypeOK' /\ WireInv' /\ OnlyAccessible'
      BY <1>1, <1>2, <1>3, <1>4, <2>1, <2>2, <2>3, <2>4
      DEF TypeOK, WireInv, OnlyAccessible, Registered, position
    <2>6. ReplayInv'
      BY <1>1, <1>2, <2>1, <2>3 DEF ReplayInv, Accounted, position
    <2> QED
      BY <2>5, <2>6 DEF StreamInv
  <1>5. CASE Registered /\ Wanted(log[pub]) /\ ~(Len(ch) < Cap)
    <2>1. ch' = ch /\ dropped' = dropped \cup {pub} /\ Pending' = Pending
      BY <1>2, <1>5 DEF Publish, Pending
    <2>2. TypeOK' /\ WireInv' /\ OnlyAccessible'
      BY <1>1, <1>2, <1>3, <2>1 DEF TypeOK, WireInv, OnlyAccessible, position
    <2>3. ReplayInv'
      BY <1>1, <1>2, <2>1 DEF ReplayInv, Accounted, position
    <2> QED
      BY <2>2, <2>3 DEF StreamInv
  <1>6. CASE ~(Registered /\ Wanted(log[pub]))
    <2>1. ch' = ch /\ dropped' = dropped /\ Pending' = Pending
      BY <1>2, <1>6 DEF Publish, Pending
    <2>2. TypeOK' /\ WireInv' /\ OnlyAccessible'
      BY <1>1, <1>2, <1>3, <2>1 DEF TypeOK, WireInv, OnlyAccessible, position
    <2>3. phase \in {"replaying", "live"} => pub \notin OwnSeqs
      BY <1>6 DEF Registered, Wanted, OwnSeqs, Own
    <2>4. ReplayInv'
      BY <1>1, <1>2, <2>1, <2>3 DEF ReplayInv, Accounted, position
    <2> QED
      BY <2>2, <2>4 DEF StreamInv
  <1> QED
    BY <1>4, <1>5, <1>6

\* Compaction and grants: rows go, nothing on its way changes.
LEMMA AroundInv ==
    ASSUME StreamInv,
           \/ \E c \in Cals, n \in Seqs : Trim(c, n)
           \/ \E c \in Cals \ Own : SetGrant(c)
    PROVE  StreamInv'
  <1>1. TypeOK /\ WireInv /\ OnlyAccessible /\ ReplayInv
    BY DEF StreamInv
  <1>2. UNCHANGED <<log, pub, phase, access, position, replay, ch, wire, lastId, seen,
                    dropped, connects, fails>> /\ trimmed \subseteq trimmed'
    BY DEF Trim, SetGrant
  <1>3. Seqs' = Seqs /\ OwnSeqs' \subseteq OwnSeqs /\ Pending' = Pending
    BY <1>2 DEF Seqs, OwnSeqs, Pending
  <1>4. trimmed' \subseteq Seqs' /\ granted' \subseteq Cals \ Own
    <2>1. CASE \E c \in Cals, n \in Seqs : Trim(c, n)
      <3>1. PICK c \in Cals, n \in Seqs : Trim(c, n)
        BY <2>1
      <3>2. /\ trimmed' = trimmed \cup {s \in 1 .. n : log[s] = c}
            /\ granted' = granted /\ Len(log) \in Nat /\ n \in 1 .. Len(log)
        BY <1>1, <3>1, SeqsType DEF Trim, Seqs
      <3>3. 1 .. n \subseteq 1 .. Len(log)
        BY <3>2
      <3> QED
        BY <1>1, <1>3, <3>2, <3>3 DEF TypeOK, Seqs
    <2>2. CASE \E c \in Cals \ Own : SetGrant(c)
      BY <1>1, <1>3, <2>2 DEF SetGrant, TypeOK
    <2> QED
      BY <2>1, <2>2
  <1>5. TypeOK' /\ WireInv' /\ OnlyAccessible'
    BY <1>1, <1>2, <1>3, <1>4 DEF TypeOK, WireInv, OnlyAccessible, position
  <1>6. ReplayInv'
    BY <1>1, <1>2, <1>3 DEF ReplayInv, Accounted, position
  <1> QED
    BY <1>5, <1>6 DEF StreamInv

-----------------------------------------------------------------------------
(* The handler *)

LEMMA ConnectInv == ASSUME StreamInv, Connect PROVE StreamInv'
  <1>1. TypeOK /\ WireInv /\ OnlyAccessible /\ ReplayInv
    BY DEF StreamInv
  <1>2. /\ phase = "closed" /\ phase' = "access" /\ since' = lastId
        /\ access' \in {granted, {}} /\ connects' = connects + 1 /\ fails' \in {fails, fails + 1}
        /\ UNCHANGED <<log, trimmed, pub, granted, hello, joined, replayed, replay, ch, wire,
                       lastId, seen, dropped>>
        /\ Seqs' = Seqs
    BY SameLog DEF Connect, ReadFails
  <1>3. wire' = <<>> /\ ch' = <<>> /\ replay' = <<>>
    BY <1>1, <1>2 DEF WireInv
  <1>4. TypeOK' /\ WireInv'
    BY <1>1, <1>2, <1>3 DEF TypeOK, WireInv, position
  <1>5. OnlyAccessible' /\ ReplayInv'
    BY <1>2, <1>3, NothingQueued DEF OnlyAccessible, Pending, ReplayInv
  <1> QED
    BY <1>4, <1>5 DEF StreamInv

LEMMA SubscribeInv == ASSUME StreamInv, Subscribe PROVE StreamInv'
  <1>1. TypeOK /\ WireInv /\ OnlyAccessible /\ ReplayInv
    BY DEF StreamInv
  <1>2. /\ phase = "access" /\ phase' = "subscribed" /\ ch' = <<>> /\ dropped' = {}
        /\ UNCHANGED <<log, trimmed, pub, granted, access, position, replay, wire, lastId, seen,
                       connects, fails>>
        /\ Seqs' = Seqs
    BY SameLog DEF Subscribe
  <1>3. wire' = <<>> /\ ch' = <<>> /\ replay' = <<>>
    BY <1>1, <1>2 DEF WireInv
  <1>4. TypeOK' /\ WireInv'
    BY <1>1, <1>2, <1>3, EmptySeq, StreamAssumption DEF TypeOK, WireInv, position
  <1>5. OnlyAccessible' /\ ReplayInv'
    BY <1>2, <1>3, NothingQueued DEF OnlyAccessible, Pending, ReplayInv
  <1> QED
    BY <1>4, <1>5 DEF StreamInv

LEMMA HelloInv == ASSUME StreamInv, Hello PROVE StreamInv'
  <1>1. TypeOK /\ WireInv /\ OnlyAccessible /\ ReplayInv
    BY DEF StreamInv
  <1>2. /\ MaxOwnSeq \in Nat /\ \A s \in OwnSeqs : s \in Nat /\ s <= MaxOwnSeq
    BY <1>1, MaxOwnSeqCovers, SeqsType DEF OwnSeqs
  <1>3. PICK n \in Nat :
          /\ phase = "subscribed" /\ phase' = "replaying" /\ hello' = n /\ joined' = MaxOwnSeq
          /\ wire' = Append(wire, [id |-> n, change |-> FALSE]) /\ replay' = <<>>
          /\ fails' \in {fails, fails + 1}
          /\ UNCHANGED <<log, trimmed, pub, granted, access, since, replayed, ch, lastId, seen,
                         dropped, connects>>
          /\ Seqs' = Seqs /\ OwnSeqs' = OwnSeqs
    BY <1>2, SameLog DEF Hello, ReadFails
  <1> DEFINE f == [id |-> n, change |-> FALSE]
  <1>0. f \in Frame /\ f.change = FALSE /\ wire' = Append(wire, f)
    BY <1>3 DEF Frame
  <1> HIDE DEF f
  <1>4. wire' \in Seq(Frame) /\ Ids(wire') = Ids(wire) /\ replay = <<>>
    <2>1. wire \in Seq(Frame) /\ phase = "subscribed" /\ replay = <<>>
      BY <1>1, <1>3 DEF TypeOK, WireInv
    <2>2. wire' \in Seq(Frame)
      BY <1>0, <2>1, AppendProperties
    <2> QED
      BY <1>0, <2>1, <2>2, IdsAppend
  <1>5. TypeOK' /\ WireInv'
    <2>1. replay' \in Seq(Seqs') /\ fails' \in Nat /\ replayed' \in BOOLEAN
      BY <1>1, <1>3, EmptySeq DEF TypeOK
    <2> QED
      BY <1>1, <1>2, <1>3, <1>4, <2>1 DEF TypeOK, WireInv
  <1>6. Pending' = Pending
    BY <1>3, <1>4 DEF Pending
  <1>7. OnlyAccessible'
    BY <1>1, <1>3, <1>6 DEF OnlyAccessible
  <1>8. ReplayInv'
    BY <1>2, <1>3 DEF ReplayInv, Accounted, position
  <1> QED
    BY <1>5, <1>7, <1>8 DEF StreamInv

LEMMA ReplayQueryInv == ASSUME StreamInv, Replay PROVE StreamInv'
  <1> DEFINE rows == {s \in OwnSeqs : s > since}
  <1>1. TypeOK /\ WireInv /\ OnlyAccessible /\ ReplayInv
    BY DEF StreamInv
  <1>2. /\ phase = "replaying" /\ phase' = "live"
        /\ replayed' \in BOOLEAN /\ fails' \in {fails, fails + 1}
        /\ replay' \in IF replayed' THEN ChangesSince(since) ELSE {<<>>}
        /\ UNCHANGED <<log, trimmed, pub, granted, access, since, hello, joined, ch, wire, lastId,
                       seen, dropped, connects>>
        /\ Seqs' = Seqs /\ OwnSeqs' = OwnSeqs
    BY SameLog DEF Replay, ReadFails
  <1>3. rows \subseteq Seqs /\ \A s \in rows : log[s] \in Own
    BY DEF OwnSeqs
  <1>4. /\ replay' \in Seq(Seqs)
        /\ Members(replay') = IF replayed' THEN rows ELSE {}
    <2>1. CASE replayed'
      <3>1. IsFiniteSet(rows)
        <4>1. Len(log) \in Nat
          BY <1>1, SeqsType
        <4>2. IsFiniteSet(1 .. Len(log))
          BY <4>1, FS_Interval
        <4> QED
          BY <1>3, <4>2, FS_Subset DEF Seqs
      <3>2. Cardinality(rows) \in Nat
        BY <3>1, FS_CardinalityType
      <3>3. replay' \in [1 .. Cardinality(rows) -> rows] /\ Members(replay') = rows
        BY <1>2, <2>1 DEF ChangesSince
      <3>4. replay' \in Seq(rows)
        BY <3>2, <3>3, SeqDef
      <3> QED
        BY <1>3, <2>1, <3>3, <3>4, SeqMonotonic
    <2>2. CASE ~replayed'
      BY <1>2, <2>2, EmptySeq, NothingQueued
    <2> QED
      BY <2>1, <2>2
  <1>5. replay = <<>> /\ Pending' = Pending \cup Members(replay')
    BY <1>1, <1>2, NothingQueued DEF Pending, WireInv
  <1>6. TypeOK' /\ WireInv'
    BY <1>1, <1>2, <1>4 DEF TypeOK, WireInv, position
  <1>7. OnlyAccessible'
    BY <1>1, <1>2, <1>3, <1>4, <1>5 DEF OnlyAccessible
  <1>8. ReplayInv'
    BY <1>1, <1>2, <1>4, <1>5 DEF ReplayInv, Accounted, position
  <1> QED
    BY <1>6, <1>7, <1>8 DEF StreamInv

\* A change that moves on keeps what is told or under way, whoever holds it.
LEMMA Moves ==
    ASSUME StreamInv, TypeOK', WireInv',
           UNCHANGED <<log, trimmed, pub, phase, access, position, dropped>>,
           Pending' \subseteq Pending, seen \cup Pending \subseteq seen' \cup Pending'
    PROVE  StreamInv'
  <1>1. OwnSeqs' = OwnSeqs
    BY SameLog
  <1>2. OnlyAccessible'
    BY DEF StreamInv, OnlyAccessible
  <1>3. ReplayInv'
    BY <1>1 DEF StreamInv, ReplayInv, Accounted, position
  <1> QED
    BY <1>2, <1>3 DEF StreamInv

LEMMA WriteReplayInv == ASSUME StreamInv, WriteReplay PROVE StreamInv'
  <1> DEFINE f == [id |-> Head(replay), change |-> TRUE]
  <1>1. TypeOK /\ WireInv
    BY DEF StreamInv
  <1>2. /\ phase = "live" /\ wire' = Append(wire, f) /\ replay' = Tail(replay) /\ replay # <<>>
        /\ UNCHANGED <<log, trimmed, pub, granted, phase, access, position, ch, lastId, seen,
                       dropped, connects, fails>>
        /\ Seqs' = Seqs
    BY SameLog DEF WriteReplay
  <1>3. /\ Head(replay) \in Seqs /\ Tail(replay) \in Seq(Seqs)
        /\ Members(replay) = {Head(replay)} \cup Members(Tail(replay))
    BY <1>1, <1>2, MembersTail DEF TypeOK
  <1>4. f \in Frame /\ f.change = TRUE /\ f.id = Head(replay)
    BY <1>1, <1>3, SeqsType DEF Frame
  <1> HIDE DEF f
  <1>5. wire' \in Seq(Frame) /\ Ids(wire') = Ids(wire) \cup {Head(replay)}
    BY <1>1, <1>2, <1>4, AppendProperties, IdsAppend DEF TypeOK
  <1>6. TypeOK' /\ WireInv'
    BY <1>1, <1>2, <1>3, <1>5 DEF TypeOK, WireInv, position
  <1>7. Pending' = Pending
    BY <1>2, <1>3, <1>5 DEF Pending
  <1> QED
    BY <1>2, <1>6, <1>7, Moves

LEMMA ForwardInv == ASSUME StreamInv, Forward PROVE StreamInv'
  <1> DEFINE f == [id |-> Head(ch), change |-> TRUE]
  <1>1. TypeOK /\ WireInv
    BY DEF StreamInv
  <1>2. /\ phase = "live" /\ wire' = Append(wire, f) /\ ch' = Tail(ch) /\ ch # <<>>
        /\ UNCHANGED <<log, trimmed, pub, granted, phase, access, position, replay, lastId, seen,
                       dropped, connects, fails>>
        /\ Seqs' = Seqs
    BY SameLog DEF Forward
  <1>3. /\ Head(ch) \in Seqs /\ Tail(ch) \in Seq(Seqs) /\ Len(Tail(ch)) <= Len(ch)
        /\ Members(ch) = {Head(ch)} \cup Members(Tail(ch))
    BY <1>1, <1>2, MembersTail DEF TypeOK
  <1>4. f \in Frame /\ f.change = TRUE /\ f.id = Head(ch)
    BY <1>1, <1>3, SeqsType DEF Frame
  <1> HIDE DEF f
  <1>5. wire' \in Seq(Frame) /\ Ids(wire') = Ids(wire) \cup {Head(ch)}
    BY <1>1, <1>2, <1>4, AppendProperties, IdsAppend DEF TypeOK
  <1>6. Len(ch') <= Cap
    BY <1>1, <1>2, <1>3, LenProperties, StreamAssumption DEF TypeOK
  <1>7. TypeOK' /\ WireInv'
    BY <1>1, <1>2, <1>3, <1>5, <1>6 DEF TypeOK, WireInv, position
  <1>8. Pending' = Pending
    BY <1>2, <1>3, <1>5 DEF Pending
  <1> QED
    BY <1>2, <1>7, <1>8, Moves

-----------------------------------------------------------------------------
(* The client and the network *)

LEMMA ReceiveInv == ASSUME StreamInv, Receive PROVE StreamInv'
  <1> DEFINE f == Head(wire)
  <1>1. TypeOK /\ WireInv
    BY DEF StreamInv
  <1>2. /\ wire # <<>> /\ wire' = Tail(wire)
        /\ lastId' = IF f.id > 0 THEN f.id ELSE lastId
        /\ seen' = IF f.change THEN seen \cup {f.id} ELSE seen
        /\ UNCHANGED <<log, trimmed, pub, granted, phase, access, position, replay, ch, dropped,
                       connects, fails>>
        /\ Seqs' = Seqs
    BY SameLog DEF Receive
  <1>3. /\ f \in Frame /\ wire' \in Seq(Frame)
        /\ Ids(wire) = Ids(wire') \cup (IF f.change THEN {f.id} ELSE {})
    BY <1>1, <1>2, IdsTail DEF TypeOK
  <1>4. lastId' \in Nat /\ seen' \subseteq Seqs
    BY <1>1, <1>2, <1>3 DEF TypeOK, WireInv, Frame
  <1>5. TypeOK' /\ WireInv'
    <2>1. phase \notin {"closed", "access"}
      BY <1>1, <1>2 DEF WireInv
    <2> QED
      BY <1>1, <1>2, <1>3, <1>4, <2>1 DEF TypeOK, WireInv, position
  <1>6. Pending' \subseteq Pending /\ seen \cup Pending \subseteq seen' \cup Pending'
    BY <1>2, <1>3 DEF Pending
  <1> QED
    BY <1>2, <1>5, <1>6, Moves

LEMMA DisconnectInv == ASSUME StreamInv, Disconnect PROVE StreamInv'
  <1>1. TypeOK /\ WireInv
    BY DEF StreamInv
  <1>2. /\ phase' = "closed" /\ wire' = <<>> /\ ch' = <<>> /\ replay' = <<>> /\ dropped' = {}
        /\ access' = {} /\ since' = 0 /\ hello' = 0 /\ joined' = 0 /\ replayed' = FALSE
        /\ UNCHANGED <<log, trimmed, pub, granted, lastId, seen, connects, fails>>
        /\ Seqs' = Seqs
    BY SameLog DEF Disconnect
  <1>0. replayed' \in BOOLEAN
    BY <1>2
  <1>3. TypeOK' /\ WireInv'
    BY <1>0, <1>1, <1>2, EmptySeq, NothingQueued, StreamAssumption DEF TypeOK, WireInv, position
  <1>4. OnlyAccessible' /\ ReplayInv'
    BY <1>2, NothingQueued DEF OnlyAccessible, Pending, ReplayInv
  <1> QED
    BY <1>3, <1>4 DEF StreamInv

-----------------------------------------------------------------------------
LEMMA StreamStart == Init => StreamInv
  <1> SUFFICES ASSUME Init PROVE StreamInv
    OBVIOUS
  <1>0. replayed \in BOOLEAN
    BY DEF Init
  <1>1. TypeOK
    BY <1>0, EmptySeq, StreamAssumption DEF Init, TypeOK, Seqs
  <1> QED
    BY <1>1, NothingQueued DEF Init, StreamInv, WireInv, OnlyAccessible, Pending, ReplayInv

LEMMA StreamStep == StreamInv /\ [Next]_vars => StreamInv'
  <1>1. StreamInv /\ Next => StreamInv'
    BY CommitInv, PublishInv, AroundInv, ConnectInv, SubscribeInv, HelloInv, ReplayQueryInv,
       WriteReplayInv, ForwardInv, ReceiveInv, DisconnectInv
    DEF Next, Handler
  <1>2. StreamInv /\ UNCHANGED vars => StreamInv'
    <2> SUFFICES ASSUME StreamInv, UNCHANGED vars PROVE StreamInv'
      OBVIOUS
    <2>1. Pending' = Pending /\ Seqs' = Seqs
      BY DEF vars, Pending, Seqs
    <2>2. TypeOK' /\ WireInv'
      BY <2>1 DEF StreamInv, TypeOK, WireInv, vars, position
    <2> QED
      BY <2>1, <2>2, Moves DEF vars
  <1> QED
    BY <1>1, <1>2

\* The inductive invariant of hub, handler and client holds in every behaviour.
THEOREM StreamSafe == Spec => []StreamInv
  BY StreamStart, StreamStep, PTL DEF Spec

\* Types, among them the bound of sub.ch: Publish never sends beyond its capacity.
THEOREM StreamTypeOK == Spec => []TypeOK
  <1>1. StreamInv => TypeOK
    BY DEF StreamInv
  <1> QED
    BY <1>1, StreamSafe, PTL

\* Subscribing before the change-log is read leaves no window between the replayed and
\* the live frames of api.go's stream, for any interleaving with commits and emits, for the
\* changes of the client's own calendars that the change-log still has.  A replay whose
\* query fails loses what lies before the hello, and no more.
THEOREM StreamNoGapBetweenReplayAndLive == Spec => []NoGapBetweenReplayAndLive
  <1>1. StreamInv => NoGapBetweenReplayAndLive
    BY DEF StreamInv, ReplayInv, Accounted, NoGapBetweenReplayAndLive
  <1> QED
    BY <1>1, StreamSafe, PTL

\* The hub's filter by owner and sub.access lets no change of another calendar through.
THEOREM StreamOnlyAccessible == Spec => []OnlyAccessible
  <1>1. StreamInv => OnlyAccessible
    BY DEF StreamInv
  <1> QED
    BY <1>1, StreamSafe, PTL
=============================================================================
