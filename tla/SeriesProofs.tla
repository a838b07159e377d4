---------------------------- MODULE SeriesProofs ----------------------------
(***************************************************************************)
(* Proofs about recurring series and their scoped edits.  First what the   *)
(* rules of Recurrence generate: a rule cut in two generates what it did   *)
(* before, neither less nor twice, which is the counting argument behind   *)
(* TailRule's COUNT.  Then the edits: what an acknowledged edit does to    *)
(* the body the index describes, and to its overrides.                     *)
(***************************************************************************)
EXTENDS Series, FiniteSetTheorems, TLAPS

-----------------------------------------------------------------------------
(* Multiples of the period *)

LEMMA Multiple ==
    ASSUME NEW p \in Nat \ {0}, NEW d \in Nat
    PROVE  d % p = 0 <=> \E k \in Nat : d = k * p
  <1>1. ASSUME d % p = 0 PROVE \E k \in Nat : d = k * p
    <2>1. d = p * (d \div p) + (d % p)
      BY Z3
    <2>2. d \div p \in Nat
      BY Z3
    <2> QED
      BY <1>1, <2>1, <2>2
  <1>2. ASSUME NEW k \in Nat, d = k * p PROVE d % p = 0
    BY <1>2
  <1> QED
    BY <1>1, <1>2

LEMMA Multiples ==
    ASSUME NEW p \in Nat \ {0}, NEW i \in Int, NEW j \in Int
    PROVE  /\ i * p \in Int /\ j * p \in Int
           /\ (i + j) * p = i * p + j * p /\ (j - i) * p = j * p - i * p
           /\ i < j => i * p + p <= j * p
           /\ i <= j <=> i * p <= j * p
  <1>1. i * p \in Int /\ j * p \in Int
    OBVIOUS
  <1>2. (i + j) * p = i * p + j * p /\ (j - i) * p = j * p - i * p
    OBVIOUS
  <1>3. ASSUME NEW a \in Int, NEW b \in Int, a < b PROVE a * p + p <= b * p
    <2> DEFINE d == b - a
    <2>1. d \in Nat \ {0}
      BY <1>3
    <2>2. b * p - a * p = d * p /\ a * p \in Int /\ b * p \in Int
      OBVIOUS
    <2> HIDE DEF d
    <2>3. d * p >= p /\ d * p \in Int
      BY <2>1
    <2> QED
      BY <2>2, <2>3
  <1>4. i < j => i * p < j * p
    BY <1>1, <1>3
  <1>5. j < i => j * p < i * p
    BY <1>1, <1>3
  <1> QED
    BY <1>1, <1>2, <1>3, <1>4, <1>5

-----------------------------------------------------------------------------
(* What rules generate *)

LEMMA SeriesFields ==
    ASSUME NEW s \in Series
    PROVE  /\ s.start \in Time /\ s.start \in Nat
           /\ s.count \subseteq Nat \ {0} /\ s.until \subseteq Int
           /\ s.ex \subseteq Time /\ s.over \subseteq Instance
  BY RecurrenceAssumption DEF Series, Time

\* The k-th repetition is generated iff COUNT and UNTIL reach it.
LEMMA Repetition ==
    ASSUME NEW s \in Series, NEW t \in Time
    PROVE  t \in Generated(s) <=>
               /\ \E k \in Nat : t = s.start + k * Period /\ \A n \in s.count : k < n
               /\ \A u \in s.until : t <= u
  <1>1. /\ Period \in Nat \ {0} /\ s.start \in Nat /\ t \in Nat
        /\ \A n \in s.count : n \in Nat
    BY SeriesFields, RecurrenceAssumption DEF Time
  <1>2. ASSUME NEW k \in Nat, t = s.start + k * Period, NEW n \in s.count
        PROVE  t < s.start + n * Period <=> k < n
    <2>1. n \in Int /\ k \in Int
      BY <1>1
    <2>2. (n <= k <=> n * Period <= k * Period) /\ n * Period \in Int /\ k * Period \in Int
      BY <1>1, <2>1, Multiples
    <2> QED
      BY <1>1, <1>2, <2>1, <2>2
  <1>3. t >= s.start /\ (t - s.start) % Period = 0 <=> \E k \in Nat : t = s.start + k * Period
    <2>1. ASSUME t >= s.start
          PROVE  (t - s.start) % Period = 0 <=> \E k \in Nat : t = s.start + k * Period
      <3>1. t - s.start \in Nat
        BY <1>1, <2>1
      <3>2. (t - s.start) % Period = 0 <=> \E k \in Nat : t - s.start = k * Period
        BY <1>1, <3>1, Multiple
      <3>3. \A k \in Nat : k * Period \in Nat
        BY <1>1
      <3>4. \A k \in Nat : t - s.start = k * Period <=> t = s.start + k * Period
        BY <1>1, <3>3
      <3> QED
        BY <3>2, <3>4
    <2>2. ASSUME NEW k \in Nat, t = s.start + k * Period PROVE t >= s.start
      <3>1. k * Period \in Nat
        BY <1>1
      <3> QED
        BY <1>1, <2>2, <3>1
    <2> QED
      BY <2>1, <2>2
  <1>4. t \in Generated(s) <=>
            /\ t >= s.start /\ (t - s.start) % Period = 0
            /\ \A n \in s.count : t < s.start + n * Period
            /\ \A u \in s.until : t <= u
    BY DEF Generated
  <1> QED
    BY <1>2, <1>3, <1>4

\* Before its k-th repetition a series without EXDATEs has k occurrences.
LEMMA RepetitionsBefore ==
    ASSUME NEW s \in Series, s.ex = {}, NEW k \in Nat,
           NEW occ \in Generated(s), occ = s.start + k * Period
    PROVE  Cardinality(Between(s, s.start, occ - 1)) = k
  <1> DEFINE B == Between(s, s.start, occ - 1)
             f == [i \in 1 .. k |-> s.start + (i - 1) * Period]
  <1>1. /\ Period \in Nat \ {0} /\ s.start \in Nat /\ occ \in Time /\ occ \in Nat
        /\ Horizon \in Nat
        /\ \A n \in s.count : n \in Nat
        /\ \A u \in s.until : u \in Int
    BY SeriesFields, RecurrenceAssumption DEF Time, Generated
  <1>2. (\A n \in s.count : k < n) /\ (\A u \in s.until : occ <= u)
    <2>1. PICK j \in Nat : occ = s.start + j * Period /\ \A n \in s.count : j < n
      BY <1>1, Repetition
    <2>2. j * Period = k * Period
      BY <1>1, <2>1
    <2>3. j = k
      BY <1>1, <2>2, Multiples
    <2> QED
      BY <1>1, <2>1, <2>3, Repetition
  <1>3. ASSUME NEW i \in 1 .. k
        PROVE  f[i] \in B
    <2>1. i - 1 \in Nat /\ i - 1 < k
      OBVIOUS
    <2>2. (i - 1) * Period \in Nat /\ (i - 1) * Period + Period <= k * Period
      BY <1>1, <2>1, Multiples
    <2>3. f[i] = s.start + (i - 1) * Period
      OBVIOUS
    <2>4. s.start <= f[i] /\ f[i] <= occ - 1 /\ f[i] \in Time
      BY <1>1, <2>2, <2>3 DEF Time
    <2>5. \A n \in s.count : i - 1 < n
      <3>1. \A n \in s.count : n \in Nat /\ k < n
        BY <1>1, <1>2
      <3> QED
        BY <2>1, <3>1
    <2>6. f[i] \in Generated(s)
      <3> DEFINE t == f[i]
      <3>1. t \in Time /\ t = s.start + (i - 1) * Period /\ t <= occ - 1 /\ t \in Nat
        BY <2>3, <2>4 DEF Time
      <3> HIDE DEF t, f
      <3>2. ASSUME NEW u \in s.until PROVE t <= u
        <4>1. u \in Int /\ occ <= u /\ occ \in Nat
          BY <1>1, <1>2
        <4> QED
          BY <3>1, <4>1
      <3>3. t \in Generated(s)
        BY <2>1, <2>5, <3>1, <3>2, Repetition
      <3> QED
        BY <3>3 DEF t
    <2> QED
      BY <2>4, <2>6 DEF Between
  <1>4. ASSUME NEW i \in 1 .. k, NEW j \in 1 .. k, f[i] = f[j]
        PROVE  i = j
    <2>1. f[i] = s.start + (i - 1) * Period /\ f[j] = s.start + (j - 1) * Period
      OBVIOUS
    <2>2. (i - 1) * Period = (j - 1) * Period
      <3>1. (i - 1) * Period \in Int /\ (j - 1) * Period \in Int
        BY <1>1, Multiples
      <3>2. s.start + (i - 1) * Period = s.start + (j - 1) * Period
        BY <1>4, <2>1
      <3> HIDE DEF f
      <3> QED
        BY <1>1, <3>1, <3>2
    <2>3. i - 1 = j - 1
      BY <1>1, <2>2, Multiples
    <2> QED
      BY <2>3
  <1>5. ASSUME NEW t \in B
        PROVE  \E i \in 1 .. k : f[i] = t
    <2>1. t \in Generated(s) /\ t \in Time /\ t <= occ - 1 /\ t \in Nat
      BY DEF Between, Generated, Time
    <2>2. PICK j \in Nat : t = s.start + j * Period
      BY <2>1, Repetition
    <2>3. j < k
      BY <1>1, <2>1, <2>2, Multiples
    <2>4. j + 1 \in 1 .. k /\ f[j + 1] = s.start + ((j + 1) - 1) * Period /\ (j + 1) - 1 = j
      BY <2>3
    <2> QED
      BY <2>2, <2>4
  <1>6. f \in [1 .. k -> B]
    BY <1>3
  <1> HIDE DEF f, B
  <1>7. f \in Injection(1 .. k, B) /\ f \in Surjection(1 .. k, B)
    BY <1>4, <1>5, <1>6 DEF Injection, IsInjective, Surjection
  <1>8. Cardinality(B) = k
    BY <1>7, FS_CountingElements DEF Bijection, ExistsBijection
  <1> QED
    BY <1>8 DEF B

\* With EXDATEs it has so many fewer as are hidden.
LEMMA OccurrencesBefore ==
    ASSUME NEW s \in Series, NEW k \in Nat,
           NEW occ \in Generated(s), occ = s.start + k * Period
    PROVE  /\ Cardinality(Hidden(s, occ)) \in 0 .. k
           /\ Cardinality(Between(s, s.start, occ - 1)) = k - Cardinality(Hidden(s, occ))
  <1> DEFINE s0 == [s EXCEPT !.ex = {}]
             A  == Between(s0, s.start, occ - 1)
             B  == Between(s, s.start, occ - 1)
             H  == Hidden(s, occ)
  <1>1. /\ s0 \in Series /\ s0.ex = {} /\ s0.start = s.start
        /\ s0.count = s.count /\ s0.until = s.until
    BY DEF Series
  <1>2. Generated(s0) = Generated(s)
    BY <1>1 DEF Generated
  <1> HIDE DEF s0
  <1>3. Cardinality(A) = k
    BY <1>1, <1>2, RepetitionsBefore
  <1>4. IsFiniteSet(A)
    <2>1. IsFiniteSet(Time)
      BY FS_Interval, RecurrenceAssumption DEF Time
    <2>2. A \subseteq Time
      BY DEF Between, Generated
    <2> QED
      BY <2>1, <2>2, FS_Subset
  <1>5. \A t \in Generated(s) : s.start <= t /\ (t < occ <=> t <= occ - 1)
    BY SeriesFields DEF Generated, Time
  <1>6. B = A \ H /\ H \subseteq A
    BY <1>1, <1>2, <1>5 DEF Between, Hidden
  <1> HIDE DEF A, B, H
  <1>7. A \cap H = H
    BY <1>6
  <1>8. Cardinality(A \ H) = Cardinality(A) - Cardinality(H)
    BY <1>4, <1>7, FS_Difference
  <1>9. Cardinality(H) \in Nat /\ Cardinality(H) <= Cardinality(A)
    BY <1>4, <1>6, FS_Subset, FS_CardinalityType
  <1>10. Cardinality(H) \in 0 .. k /\ Cardinality(B) = k - Cardinality(H)
    BY <1>3, <1>6, <1>8, <1>9
  <1> QED
    BY <1>10 DEF B, H

LEMMA LongerSeries ==
    ASSUME NEW s \in Series, NEW m \in Nat
    PROVE  LET l == Longer(s, m)
           IN  /\ l \in Series /\ l.start = s.start /\ l.until = s.until
               /\ l.count = {n + m : n \in s.count}
  <1> DEFINE c == {n + m : n \in s.count}
  <1>1. c \in SUBSET (Nat \ {0})
    BY SeriesFields
  <1>2. Longer(s, m) = [s EXCEPT !.count = c]
    BY DEF Longer
  <1> HIDE DEF c
  <1>3. [s EXCEPT !.count = c] \in Series
    BY <1>1 DEF Series
  <1> QED
    BY <1>2, <1>3 DEF Series, c

LEMMA TruncatedSeries ==
    ASSUME NEW s \in Series, NEW until \in Int
    PROVE  /\ Truncate(s, until) \in Series
           /\ Truncate(s, until).start = s.start /\ Truncate(s, until).ex = s.ex
           /\ Truncate(s, until).count = {} /\ Truncate(s, until).until = {until}
           /\ Truncate(s, until).over = {v \in s.over : v.rid <= until}
  BY DEF Truncate, Series

\* What the cut leaves: the occurrences before it.
LEMMA CutHead ==
    ASSUME NEW s \in Series, NEW occ \in Generated(s)
    PROVE  Generated(Truncate(s, occ - 1)) = {t \in Generated(s) : t < occ}
  <1> DEFINE h == Truncate(s, occ - 1)
  <1>1. /\ occ \in Nat /\ s.start \in Nat /\ Period \in Nat
        /\ \A n \in s.count : n * Period \in Int /\ occ < s.start + n * Period
        /\ \A u \in s.until : u \in Int /\ occ <= u
    BY SeriesFields, RecurrenceAssumption DEF Time, Generated
  <1>2. h.start = s.start /\ h.count = {} /\ h.until = {occ - 1}
    <2>1. occ - 1 \in Int
      BY <1>1
    <2> QED
      BY <2>1, TruncatedSeries
  <1>3. ASSUME NEW t \in Time, t < occ
        PROVE  /\ \A n \in s.count : t < s.start + n * Period
               /\ \A u \in s.until : t <= u
               /\ t <= occ - 1
    BY <1>1, <1>3 DEF Time
  <1>4. \A t \in Time : t <= occ - 1 => t < occ
    BY <1>1 DEF Time
  <1> HIDE DEF h
  <1>5. \A t \in Time : t \in Generated(h) <=> t \in Generated(s) /\ t < occ
    BY <1>2, <1>3, <1>4 DEF Generated
  <1> QED
    BY <1>5 DEF h, Generated

\* What TailRule gives the new series: the occurrences from the cut on, of a series that
\* is longer by what was hidden before.
LEMMA CutTail ==
    ASSUME NEW s \in Series, NEW occ \in Generated(s),
           NEW next \in Series, next.start = occ, next.count = TailCount(s, occ),
           next.until = s.until
    PROVE  Generated(next) =
               {t \in Generated(Longer(s, Cardinality(Hidden(s, occ)))) : occ <= t}
  <1>1. Period \in Nat \ {0} /\ occ \in Time /\ occ \in Nat /\ s.start \in Nat
    BY SeriesFields, RecurrenceAssumption DEF Time, Generated
  <1>2. PICK k \in Nat : occ = s.start + k * Period /\ \A n \in s.count : k < n
    BY <1>1, Repetition
  <1> DEFINE m == Cardinality(Hidden(s, occ))
             l == Longer(s, m)
  <1>3. m \in 0 .. k /\ Cardinality(Between(s, s.start, occ - 1)) = k - m
    BY <1>2, OccurrencesBefore
  <1>4. next.count = {n - k + m : n \in s.count}
    <2>1. \A n \in s.count : Remaining(n, k - m) = n - k + m
      BY <1>2, <1>3, SeriesFields DEF Remaining
    <2> QED
      BY <1>3, <2>1 DEF TailCount
  <1> HIDE DEF m
  <1>9. /\ l \in Series /\ l.start = s.start /\ l.until = s.until
        /\ l.count = {n + m : n \in s.count}
    <2>1. m \in Nat
      BY <1>3
    <2> QED
      BY <2>1, LongerSeries
  <1> HIDE DEF l
  <1>5. ASSUME NEW t \in Time, occ <= t
        PROVE  t \in Generated(next) <=> t \in Generated(l)
    <2>1. ASSUME NEW j \in Nat
          PROVE  /\ t = occ + j * Period <=> t = s.start + (j + k) * Period
                 /\ (\A i \in next.count : j < i) <=> (\A i \in l.count : j + k < i)
      <3>1. (j + k) * Period = j * Period + k * Period
            /\ j * Period \in Int /\ k * Period \in Int
        BY <1>1, Multiples
      <3>2. \A n \in s.count : n \in Nat /\ (j < n - k + m <=> j + k < n + m)
        BY <1>3, SeriesFields
      <3>3. (\A i \in next.count : j < i) <=> (\A n \in s.count : j < n - k + m)
        BY <1>4
      <3>4. (\A i \in l.count : j + k < i) <=> (\A n \in s.count : j + k < n + m)
        BY <1>9
      <3>5. t = occ + j * Period <=> t = s.start + (j + k) * Period
        BY <1>1, <1>2, <3>1
      <3> QED
        BY <3>2, <3>3, <3>4, <3>5
    <2>2. ASSUME NEW i \in Nat, t = s.start + i * Period
          PROVE  \E j \in Nat : i = j + k
      <3>1. k * Period <= i * Period
        BY <1>1, <1>2, <1>5, <2>2, Multiples
      <3>2. k <= i
        BY <1>1, <3>1, Multiples
      <3>3. i - k \in Nat /\ i = (i - k) + k
        BY <3>2
      <3> QED
        BY <3>3
    <2>3. (\E j \in Nat : t = occ + j * Period /\ \A n \in next.count : j < n)
          <=> (\E i \in Nat : t = s.start + i * Period /\ \A n \in l.count : i < n)
      <3>1. ASSUME NEW j \in Nat, t = occ + j * Period, \A n \in next.count : j < n
            PROVE  \E i \in Nat : t = s.start + i * Period /\ \A n \in l.count : i < n
        <4>1. j + k \in Nat
          OBVIOUS
        <4> QED
          BY <2>1, <3>1, <4>1
      <3>2. ASSUME NEW i \in Nat, t = s.start + i * Period, \A n \in l.count : i < n
            PROVE  \E j \in Nat : t = occ + j * Period /\ \A n \in next.count : j < n
        <4>1. PICK j \in Nat : i = j + k
          BY <2>2, <3>2
        <4> QED
          BY <2>1, <3>2, <4>1
      <3> QED
        BY <3>1, <3>2
    <2> QED
      BY <1>9, <2>3, Repetition
  <1>6. \A t \in Generated(next) : t \in Time /\ occ <= t
    BY DEF Generated
  <1>7. \A t \in Generated(l) : t \in Time
    BY DEF Generated
  <1>8. Generated(next) = {t \in Generated(l) : occ <= t}
    BY <1>5, <1>6, <1>7
  <1> QED
    BY <1>8 DEF l, m

\* A series cut in two loses no repetition and has none twice.
LEMMA CutIsExact ==
    ASSUME NEW s \in Series, NEW occ \in Generated(s),
           NEW next \in Series, next.start = occ, next.count = TailCount(s, occ),
           next.until = s.until
    PROVE  LET head == Generated(Truncate(s, occ - 1))
               tail == Generated(next)
           IN  /\ head \cup tail = Generated(Longer(s, Cardinality(Hidden(s, occ))))
               /\ head \cap tail = {}
  <1> DEFINE m == Cardinality(Hidden(s, occ))
             l == Longer(s, m)
  <1>1. /\ occ \in Nat /\ Period \in Nat \ {0} /\ s.start \in Nat /\ s.count \subseteq Nat
        /\ \A t \in Time : t \in Nat /\ (t < occ \/ occ <= t) /\ ~(t < occ /\ occ <= t)
    BY SeriesFields, RecurrenceAssumption DEF Generated, Time
  <1>2. m \in Nat
    <2>1. PICK k \in Nat : occ = s.start + k * Period /\ \A n \in s.count : k < n
      BY <1>1, Repetition DEF Generated
    <2>2. Cardinality(Hidden(s, occ)) \in 0 .. k
      BY <2>1, OccurrencesBefore
    <2> QED
      BY <2>2
  <1> HIDE DEF m
  <1>3. l.start = s.start /\ l.until = s.until /\ l.count = {n + m : n \in s.count}
    BY <1>2, LongerSeries
  <1> HIDE DEF l
  <1>4. ASSUME NEW t \in Time, t < occ PROVE t \in Generated(l) <=> t \in Generated(s)
    <2>1. ASSUME NEW n \in s.count PROVE t < s.start + n * Period /\ t < s.start + (n + m) * Period
      <3>1. occ < s.start + n * Period
        BY DEF Generated
      <3>2. n \in Nat /\ n * Period \in Int /\ (n + m) * Period \in Int /\ n * Period <= (n + m) * Period
        BY <1>1, <1>2, Multiples
      <3> QED
        BY <1>1, <1>4, <3>1, <3>2
    <2>2. \A n \in l.count : t < s.start + n * Period
      BY <1>3, <2>1
    <2> QED
      BY <1>3, <2>1, <2>2 DEF Generated
  <1>5. Generated(Truncate(s, occ - 1)) = {t \in Generated(s) : t < occ}
    BY CutHead
  <1>6. Generated(next) = {t \in Generated(l) : occ <= t}
    BY CutTail DEF l, m
  <1>7. \A t : t \in Generated(s) \/ t \in Generated(l) => t \in Time
    BY DEF Generated
  <1>8. /\ Generated(Truncate(s, occ - 1)) \cup Generated(next) = Generated(l)
        /\ Generated(Truncate(s, occ - 1)) \cap Generated(next) = {}
    BY <1>1, <1>4, <1>5, <1>6, <1>7
  <1> QED
    BY <1>8 DEF l, m

-----------------------------------------------------------------------------
(* What a window shows *)

\* ExpandSeries hands out the instances of the window, and besides only those that
\* were moved out of it.
LEMMA Expansion ==
    ASSUME NEW s \in Series, NEW from \in Time, NEW to \in Time
    PROVE  /\ {i \in Instances(s) : from <= i.at /\ i.at < to} \subseteq ExpandSeries(s, from, to)
           /\ ExpandSeries(s, from, to) \subseteq
                  {i \in Instances(s) :
                       (from <= i.at /\ i.at < to) \/ (from <= i.rid /\ i.rid <= to)}
  <1>1. \A t \in (Generated(s) \ s.ex) \ Overridden(s) :
            from <= t /\ t < to => t \in Between(s, from, to) \ Overridden(s)
    BY DEF Between, Generated, Time
  <1>3. {i \in Instances(s) : from <= i.at /\ i.at < to} \subseteq ExpandSeries(s, from, to)
    <2> SUFFICES ASSUME NEW i \in Instances(s), from <= i.at, i.at < to
                 PROVE  i \in ExpandSeries(s, from, to)
      OBVIOUS
    <2>1. CASE i \in s.over
      BY <2>1 DEF ExpandSeries, MovedIn
    <2>2. CASE i \notin s.over
      <3>1. PICK t \in (Generated(s) \ s.ex) \ Overridden(s) : i = [rid |-> t, at |-> t]
        BY <2>2 DEF Instances
      <3>2. t \in Between(s, from, to) \ Overridden(s)
        BY <1>1, <3>1
      <3> QED
        BY <3>1, <3>2 DEF ExpandSeries
    <2> QED
      BY <2>1, <2>2
  <1>4. ExpandSeries(s, from, to) \subseteq
            {i \in Instances(s) : (from <= i.at /\ i.at < to) \/ (from <= i.rid /\ i.rid <= to)}
    <2>1. /\ Between(s, from, to) \subseteq Generated(s) \ s.ex
          /\ \A t \in Between(s, from, to) : from <= t /\ t <= to
      BY DEF Between
    <2> QED
      BY <2>1 DEF ExpandSeries, MovedIn, Instances
  <1> QED
    BY <1>3, <1>4

-----------------------------------------------------------------------------
(* Types *)

LEMMA SeriesMade ==
    ASSUME NEW start \in Time, NEW count \in SUBSET (Nat \ {0}), NEW until \in SUBSET Int,
           NEW ex \in SUBSET Time, NEW over \in SUBSET Instance
    PROVE  [start |-> start, count |-> count, until |-> until, ex |-> ex, over |-> over] \in Series
  BY DEF Series

\* An edit of one occurrence keeps the rule.
LEMMA OverrideSeries ==
    ASSUME NEW s \in Series, NEW i \in Instance
    PROVE  /\ Override(s, i) \in Series
           /\ Override(s, i).over = {v \in s.over : v.rid # i.rid} \cup {i}
  <1> DEFINE over == {v \in s.over : v.rid # i.rid} \cup {i}
  <1>1. over \in SUBSET Instance
    BY SeriesFields
  <1>2. Override(s, i) = [s EXCEPT !.over = over]
    BY DEF Override
  <1> HIDE DEF over
  <1>3. [s EXCEPT !.over = over] \in Series /\ [s EXCEPT !.over = over].over = over
    BY <1>1 DEF Series
  <1> QED
    BY <1>2, <1>3 DEF over

LEMMA ExcludeSeries ==
    ASSUME NEW s \in Series, NEW occ \in Time
    PROVE  /\ Exclude(s, occ) \in Series
           /\ Exclude(s, occ).over = {v \in s.over : v.rid # occ}
  <1> DEFINE ex   == s.ex \cup {occ}
             over == {v \in s.over : v.rid # occ}
  <1>1. ex \in SUBSET Time /\ over \in SUBSET Instance
    BY SeriesFields
  <1>2. Exclude(s, occ) = [s EXCEPT !.ex = ex, !.over = over]
    BY DEF Exclude
  <1> HIDE DEF ex, over
  <1>3. /\ [s EXCEPT !.ex = ex, !.over = over] \in Series
        /\ [s EXCEPT !.ex = ex, !.over = over].over = over
    BY <1>1 DEF Series
  <1> QED
    BY <1>2, <1>3 DEF over

LEMMA ReplaceSeries ==
    ASSUME NEW s \in Series, NEW master \in Series
    PROVE  ReplaceMaster(s, master) \in Series /\ ReplaceMaster(s, master).over = s.over
  BY SeriesFields DEF ReplaceMaster, Series

\* TailRule's COUNT counts occurrences.
LEMMA TailCountType ==
    ASSUME NEW s \in Series, NEW occ
    PROVE  TailCount(s, occ) \subseteq Nat \ {0}
  <1> DEFINE B == Between(s, s.start, occ - 1)
  <1>1. IsFiniteSet(Time)
    BY FS_Interval, RecurrenceAssumption DEF Time
  <1>2. B \in SUBSET Time
    BY DEF Between, Generated
  <1>3. Cardinality(B) \in Nat
    BY <1>1, <1>2, FS_Subset, FS_CardinalityType
  <1> HIDE DEF B
  <1>4. \A n \in s.count : Remaining(n, Cardinality(B)) \in Nat \ {0}
    BY <1>3, SeriesFields DEF Remaining
  <1> QED
    BY <1>4 DEF B, TailCount

LEMMA EditFields ==
    ASSUME NEW op \in Edit
    PROVE  /\ op.kind \in {"override", "exclude", "truncate", "split", "replace"}
           /\ op.kind = "override" => op.to \in Instance /\ op.to.rid \in Time
           /\ op.kind \in {"exclude", "truncate", "split"} => op.occ \in Time /\ op.occ - 1 \in Int
           /\ op.kind = "split" => op.seen \in Series \cup {None} /\ op.next \in Series
           /\ op.kind = "replace" => op.master \in Series
  <1>1. \A t \in Time : t - 1 \in Int
    BY DEF Time
  <1> QED
    BY <1>1 DEF Edit, Instance

LEMMA AppliedSeries ==
    ASSUME NEW op \in Edit, NEW s \in Series
    PROVE  Apply(op, s) \in Series
  BY EditFields, OverrideSeries, ExcludeSeries, TruncatedSeries, ReplaceSeries DEF Apply

LEMMA RequestFields ==
    ASSUME NEW r \in Request
    PROVE  /\ r.pc \in {"idle", "viewing", "read", "write", "create"}
           /\ r.pc = "viewing" => /\ r.of \in Instance /\ r.of.rid \in Time
                                  /\ r.rule.count \subseteq Nat \ {0} /\ r.rule.until \subseteq Int
           /\ r.pc \in {"read", "write"} => r.op \in Edit /\ r.tries \in 0 .. MaxTries - 1
           /\ r.pc = "write" => r.base \in Series
           /\ r.pc = "create" => r.next \in Series
  BY DEF Request, Idle, Rule, Instance

-----------------------------------------------------------------------------
(* The invariant *)

\* What every step of one request is made of.
LEMMA OneRequest ==
    ASSUME SeriesInv, NEW e \in Editors, NEW r \in Request, Become(e, r),
           r.pc \in {"read", "write"} => Drawn(r.op),
           file' \in Series \cup {None}, row' \in Series \cup {None}, created' \subseteq Series,
           edits' \in Nat, faults' \in Nat
    PROVE  SeriesInv'
  <1>1. ed' = [ed EXCEPT ![e] = r] /\ ed \in [Editors -> Request]
    BY DEF Become, SeriesInv, TypeOK
  <1>2. TypeOK'
    BY <1>1 DEF TypeOK
  <1>3. \A d \in Editors : ed'[d].pc \in {"read", "write"} => Drawn(ed'[d].op)
    BY <1>1 DEF SeriesInv, SplitDrawn
  <1> QED
    BY <1>2, <1>3 DEF SeriesInv, SplitDrawn, Drawn

\* The client's side.
LEMMA SubmitInv ==
    ASSUME SeriesInv, NEW e \in Editors, NEW op \in Edit, Submit(e, op), Drawn(op)
    PROVE  SeriesInv'
  <1>1. 0 \in 0 .. MaxTries - 1
    BY SeriesAssumption
  <1> DEFINE r == [pc |-> "read", op |-> op, tries |-> 0]
  <1>2. r \in Request
    BY <1>1 DEF Request
  <1>3. Become(e, r) /\ UNCHANGED <<file, row, created, edits, faults>>
    BY DEF Submit
  <1> QED
    BY <1>2, <1>3, OneRequest DEF SeriesInv, TypeOK

\* The two halves of a split.
LEMMA SplitEdit ==
    ASSUME NEW e \in Editors, ed[e] \in Request, ed[e].pc = "viewing", NEW at \in Starts,
           NEW seen \in Series \cup {None}, NEW rule,
           rule.count \subseteq Nat \ {0}, rule.until \subseteq Int
    PROVE  LET op == Split(e, at, seen, rule)
           IN  /\ op \in Edit /\ op.seen = seen /\ op.occ = ed[e].of.rid
               /\ op.next.count = rule.count /\ op.next.until = rule.until
  <1> DEFINE next == [start |-> at, count |-> rule.count, until |-> rule.until,
                      ex |-> {}, over |-> {}]
             occ  == ed[e].of.rid
  <1>1. at \in Time /\ occ \in Time
    BY RequestFields, SeriesAssumption
  <1>2. next \in Series
    BY <1>1, SeriesMade
  <1>3. next.count = rule.count /\ next.until = rule.until
    OBVIOUS
  <1>4. Split(e, at, seen, rule) = [kind |-> "split", occ |-> occ, seen |-> seen, next |-> next]
    BY DEF Split
  <1> HIDE DEF next, occ
  <1>5. [kind |-> "split", occ |-> occ, seen |-> seen, next |-> next] \in Edit
    BY <1>1, <1>2 DEF Edit
  <1> QED
    BY <1>3, <1>4, <1>5 DEF occ

LEMMA ClientInv ==
    ASSUME SeriesInv, NEW e \in Editors, Client(e)
    PROVE  SeriesInv'
  <1>1. /\ ed[e] \in Request /\ file \in Series \cup {None} /\ row \in Series \cup {None}
        /\ created \subseteq Series /\ edits \in Nat /\ faults \in Nat
        /\ Idle \in Request /\ Idle.pc = "idle"
    BY DEF SeriesInv, TypeOK, Request, Idle
  <1>2. ASSUME NEW i \in Instance, View(e, i) PROVE SeriesInv'
    <2> DEFINE r == [pc |-> "viewing", of |-> i, rule |-> RuleOf(file)]
    <2>1. RuleOf(file) \in Rule
      BY <1>1, <1>2, SeriesFields DEF View, RuleOf, Rule
    <2>2. r \in Request /\ r.pc = "viewing"
      BY <2>1 DEF Request
    <2>3. Become(e, r) /\ edits' = edits + 1 /\ UNCHANGED <<file, row, created, faults>>
      BY <1>2 DEF View
    <2> HIDE DEF r
    <2> QED
      BY <1>1, <2>2, <2>3, OneRequest
  <1>3. ASSUME NEW at \in Starts, SaveThis(e, at) PROVE SeriesInv'
    <2> DEFINE to == [rid |-> ed[e].of.rid, at |-> at]
               op == [kind |-> "override", to |-> to]
    <2>1. to \in Instance
      BY <1>1, <1>3, RequestFields, SeriesAssumption DEF SaveThis, Instance
    <2>2. op \in Edit /\ Drawn(op)
      BY <2>1 DEF Edit, Drawn
    <2> QED
      BY <1>3, <2>2, SubmitInv DEF SaveThis
  <1>4. CASE DeleteThis(e) \/ DeleteFollowing(e)
    <2> SUFFICES ASSUME NEW kind \in {"exclude", "truncate"}, ed[e].pc = "viewing",
                        Submit(e, [kind |-> kind, occ |-> ed[e].of.rid])
                 PROVE  SeriesInv'
      BY <1>4 DEF DeleteThis, DeleteFollowing
    <2> DEFINE op == [kind |-> kind, occ |-> ed[e].of.rid]
    <2>1. op \in Edit /\ Drawn(op)
      BY <1>1, RequestFields DEF Edit, Drawn
    <2> QED
      BY <2>1, SubmitInv
  <1>5. ASSUME NEW at \in Starts, SaveFollowing(e, at) PROVE SeriesInv'
    <2> DEFINE rule == [count |-> TailCount(file, ed[e].of.rid), until |-> file.until]
               op   == Split(e, at, file, rule)
    <2>1. file \in Series /\ ed[e].pc = "viewing" /\ Submit(e, op)
      BY <1>1, <1>5 DEF SaveFollowing
    <2>2. rule.count \subseteq Nat \ {0} /\ rule.until \subseteq Int
      BY <2>1, TailCountType, SeriesFields
    <2>3. rule.count = TailCount(file, ed[e].of.rid) /\ rule.until = file.until
      OBVIOUS
    <2> HIDE DEF rule
    <2>4. op \in Edit /\ Drawn(op)
      BY <1>1, <2>1, <2>2, <2>3, SplitEdit DEF Drawn
    <2> HIDE DEF op
    <2> QED
      BY <2>1, <2>4, SubmitInv
  <1>8. ASSUME NEW at \in Starts, SaveUnread(e, at) PROVE SeriesInv'
    <2> DEFINE op == Split(e, at, None, ed[e].rule)
               r  == [pc |-> "read", op |-> op, tries |-> 0]
    <2>1. ed[e].pc = "viewing" /\ ed[e].rule.count \subseteq Nat \ {0} /\ ed[e].rule.until \subseteq Int
      BY <1>1, <1>8, RequestFields DEF SaveUnread
    <2>2. op \in Edit /\ Drawn(op)
      BY <1>1, <2>1, SplitEdit DEF Drawn
    <2>3. Become(e, r) /\ faults' = faults + 1 /\ UNCHANGED <<file, row, created, edits>>
      BY <1>8 DEF SaveUnread
    <2> HIDE DEF op
    <2>4. r \in Request /\ r.op = op /\ r.pc = "read"
      BY <2>2, SeriesAssumption DEF Request
    <2> HIDE DEF r
    <2> QED
      BY <1>1, <2>2, <2>3, <2>4, OneRequest
  <1>6. ASSUME NEW at \in Starts, SaveAll(e, at) PROVE SeriesInv'
    <2> DEFINE start  == row.start + (at - ed[e].of.rid)
               master == [start |-> start, count |-> ed[e].rule.count,
                          until |-> ed[e].rule.until, ex |-> row.ex, over |-> {}]
               op     == [kind |-> "replace", master |-> master]
    <2>1. row \in Series /\ start \in Time /\ ed[e].pc = "viewing"
      BY <1>1, <1>6 DEF SaveAll
    <2>2. master \in Series
      BY <1>1, <2>1, RequestFields, SeriesFields, SeriesMade
    <2>3. Submit(e, op)
      BY <1>6 DEF SaveAll
    <2> HIDE DEF master
    <2>4. op \in Edit /\ Drawn(op)
      BY <2>2 DEF Edit, Drawn
    <2> QED
      BY <2>3, <2>4, SubmitInv
  <1>7. CASE DeleteAll(e) \/ Cancel(e)
    BY <1>1, <1>7, OneRequest DEF DeleteAll, Cancel
  <1> QED
    BY <1>2, <1>3, <1>4, <1>5, <1>6, <1>7, <1>8 DEF Client

\* editSeries, and what may fail in it.
LEMMA StepInv ==
    ASSUME SeriesInv, NEW e \in Editors, Step(e) \/ IndexFails(e)
    PROVE  SeriesInv'
  <1>1. /\ ed[e] \in Request /\ file \in Series \cup {None} /\ row \in Series \cup {None}
        /\ created \subseteq Series /\ edits \in Nat /\ faults \in Nat
        /\ Idle \in Request /\ Idle.pc = "idle"
        /\ ed[e].pc \in {"read", "write"} => Drawn(ed[e].op)
    BY DEF SeriesInv, TypeOK, SplitDrawn, Request, Idle
  <1>2. CASE ReadFile(e)
    <2> DEFINE r == [pc |-> "write", op |-> ed[e].op, tries |-> ed[e].tries, base |-> file]
    <2>1. CASE row # None /\ file # None
      <3>1. r \in Request /\ r.op = ed[e].op
        BY <1>1, <1>2, <2>1, RequestFields DEF ReadFile, Request
      <3>2. Become(e, r)
        BY <1>2, <2>1 DEF ReadFile
      <3> HIDE DEF r
      <3> QED
        BY <1>1, <1>2, <3>1, <3>2, OneRequest DEF ReadFile
    <2>2. CASE ~(row # None /\ file # None)
      BY <1>1, <1>2, <2>2, OneRequest DEF ReadFile
    <2> QED
      BY <2>1, <2>2
  <1>3. CASE WriteBack(e)
    <2> DEFINE r == [pc |-> "create", next |-> ed[e].op.next]
    <2>1. Apply(ed[e].op, ed[e].base) \in Series /\ ed[e].op \in Edit
      BY <1>1, <1>3, RequestFields, AppliedSeries DEF WriteBack
    <2>2. file' \in Series /\ row' \in Series /\ UNCHANGED <<created, edits, faults>>
      BY <1>3, <2>1 DEF WriteBack
    <2>3. CASE ed[e].op.kind = "split"
      <3>1. r \in Request /\ r.pc = "create"
        BY <2>1, <2>3, EditFields DEF Request
      <3>2. Become(e, r)
        BY <1>3, <2>3 DEF WriteBack
      <3> HIDE DEF r
      <3> QED
        BY <1>1, <2>2, <3>1, <3>2, OneRequest
    <2>4. CASE ed[e].op.kind # "split"
      BY <1>1, <1>3, <2>2, <2>4, OneRequest DEF WriteBack
    <2> QED
      BY <2>3, <2>4
  <1>4. CASE Retry(e)
    <2> DEFINE r == [pc |-> "read", op |-> ed[e].op, tries |-> ed[e].tries + 1]
    <2>1. CASE ed[e].tries + 1 < MaxTries
      <3>1. ed[e].op \in Edit /\ ed[e].tries \in 0 .. MaxTries - 1
        BY <1>1, <1>4, RequestFields DEF Retry
      <3>2. ed[e].tries + 1 \in 0 .. MaxTries - 1
        BY <2>1, <3>1, SeriesAssumption
      <3>3. r \in Request /\ r.op = ed[e].op
        BY <3>1, <3>2 DEF Request
      <3>4. Become(e, r)
        BY <1>4, <2>1 DEF Retry
      <3> HIDE DEF r
      <3> QED
        BY <1>1, <1>4, <3>3, <3>4, OneRequest DEF Retry
    <2>2. CASE ~(ed[e].tries + 1 < MaxTries)
      BY <1>1, <1>4, <2>2, OneRequest DEF Retry
    <2> QED
      BY <2>1, <2>2
  <1>5. CASE Create(e)
    <2>1. ed[e].next \in Series
      BY <1>1, <1>5, RequestFields DEF Create
    <2> QED
      BY <1>1, <1>5, <2>1, OneRequest DEF Create
  <1>6. CASE IndexFails(e)
    <2>1. Apply(ed[e].op, ed[e].base) \in Series
      BY <1>1, <1>6, RequestFields, AppliedSeries DEF IndexFails
    <2> QED
      BY <1>1, <1>6, <2>1, OneRequest DEF IndexFails
  <1> QED
    BY <1>2, <1>3, <1>4, <1>5, <1>6 DEF Step

\* The inductive invariant of the series and the requests under way.
THEOREM SeriesSafe == Spec => []SeriesInv
  <1>1. Init => SeriesInv
    <2>1. Init => TypeOK
      BY SeriesAssumption DEF Init, TypeOK, Request
    <2>2. Init => SplitDrawn
      BY DEF Init, SplitDrawn, Idle
    <2> QED
      BY <2>1, <2>2 DEF SeriesInv
  <1>2. SeriesInv /\ [Next]_vars => SeriesInv'
    <2> SUFFICES ASSUME SeriesInv, [Next]_vars PROVE SeriesInv'
      OBVIOUS
    <2>1. CASE Crash
      BY <2>1 DEF Crash, SeriesInv, TypeOK, SplitDrawn, Drawn, Request, Idle
    <2>2. CASE UNCHANGED vars
      BY <2>2 DEF vars, SeriesInv, TypeOK, SplitDrawn, Drawn
    <2> QED
      BY <2>1, <2>2, ClientInv, StepInv DEF Next
  <1> QED
    BY <1>1, <1>2, PTL DEF Spec

\* Series, edits and requests are what their types say; TailRule's COUNT stays positive.
THEOREM SeriesTypeOK == Spec => []TypeOK
  <1>1. SeriesInv => TypeOK
    BY DEF SeriesInv
  <1> QED
    BY <1>1, SeriesSafe, PTL

\* "This and following" puts every repetition of the rule into exactly one of the two
\* series: what TruncateSeries takes away is what TailRule's COUNT gives the new series,
\* and as many more as deletions had hidden before the cut.  Of splits that begin the new
\* series where they cut the old one, as TailRule read it.
THEOREM SeriesSplitIsExact == Spec => []SplitIsExact
  <1>1. SeriesInv => SplitIsExact
    <2> SUFFICES ASSUME SeriesInv, NEW e \in Editors, ed[e].pc = "write",
                        ed[e].op.kind = "split", ed[e].op.seen = ed[e].base,
                        ed[e].op.next.start = ed[e].op.occ,
                        ed[e].op.occ \in Generated(ed[e].op.seen)
                 PROVE  LET head == Generated(Apply(ed[e].op, ed[e].base))
                            tail == Generated(ed[e].op.next)
                            all  == Longer(ed[e].op.seen,
                                           Cardinality(Hidden(ed[e].op.seen, ed[e].op.occ)))
                        IN  head \cup tail = Generated(all) /\ head \cap tail = {}
      BY DEF SplitIsExact
    <2>1. ed[e] \in Request /\ Drawn(ed[e].op)
      BY DEF SeriesInv, TypeOK, SplitDrawn
    <2>2. ed[e].op.seen \in Series /\ ed[e].op.seen # None /\ ed[e].op.next \in Series
      <3>1. ed[e].base \in Series /\ ed[e].op \in Edit
        BY <2>1, RequestFields
      <3> QED
        BY <3>1, EditFields, SeriesAssumption
    <2>3. Apply(ed[e].op, ed[e].base) = Truncate(ed[e].op.seen, ed[e].op.occ - 1)
      BY DEF Apply
    <2> QED
      BY <2>1, <2>2, <2>3, CutIsExact DEF Drawn
  <1> QED
    BY <1>1, SeriesSafe, PTL

\* Whatever edits made of the series, every window of ListEvents shows the instances
\* that start in it, those moved there included, and no others but those moved out of it
\* (or that start at its end); never a deleted one.
THEOREM SeriesExpandIsComplete == Spec => []ExpandIsComplete
  <1>1. SeriesInv => ExpandIsComplete
    BY Expansion DEF SeriesInv, TypeOK, ExpandIsComplete
  <1> QED
    BY <1>1, SeriesSafe, PTL

\* The one step at which the index comes to describe other bytes than before, besides
\* a deletion and a restart.
LEMMA OnlyWrites ==
    ASSUME Next, row' \notin {row, None, file}
    PROVE  \E e \in Editors : WriteBack(e)
  <1>1. ~Crash
    BY DEF Crash
  <1>2. PICK e \in Editors : Client(e) \/ Step(e) \/ IndexFails(e)
    BY <1>1 DEF Next
  <1>3. ~Client(e)
    BY DEF Client, View, SaveThis, SaveFollowing, SaveAll, DeleteThis, DeleteFollowing,
           DeleteAll, Cancel, Submit, SaveUnread
  <1> QED
    BY <1>2, <1>3 DEF Step, IndexFails, ReadFile, Retry, Create

\* Every edit the index acknowledges is its transformation of what the index held at
\* that moment: editSeries loses no other client's edit, however requests overlap, and
\* whatever a failed transaction left in the file.
THEOREM SeriesEditsAreAtomic == Spec => EditsAreAtomic
  <1>1. ASSUME Next, row' \notin {row, None, file}
        PROVE  \E e \in Editors : ed[e].pc = "write" /\ row' = Apply(ed[e].op, row)
    BY <1>1, OnlyWrites DEF WriteBack, Matches
  <1>2. [Next]_vars => (row' \notin {row, None, file} =>
                            \E e \in Editors : ed[e].pc = "write" /\ row' = Apply(ed[e].op, row))
    BY <1>1 DEF vars
  <1> QED
    BY <1>2, PTL DEF Spec, EditsAreAtomic

\* A customised occurrence is lost only to an edit of that occurrence or a cut before it.
LEMMA LostOverrides ==
    ASSUME NEW op \in Edit, NEW s \in Series, NEW v \in s.over \ Apply(op, s).over
    PROVE  CASE op.kind = "override" -> op.to.rid = v.rid
             [] op.kind = "exclude"  -> op.occ = v.rid
             [] op.kind = "replace"  -> FALSE
             [] OTHER -> op.occ <= v.rid
  <1>1. v.rid \in Nat /\ (op.kind \in {"truncate", "split"} => op.occ \in Nat)
    BY SeriesFields, EditFields DEF Instance, Time
  <1>2. CASE op.kind = "override"
    BY <1>2, EditFields, OverrideSeries DEF Apply
  <1>3. CASE op.kind = "exclude"
    BY <1>3, EditFields, ExcludeSeries DEF Apply
  <1>4. CASE op.kind = "replace"
    BY <1>4, EditFields, ReplaceSeries DEF Apply
  <1>5. CASE op.kind \in {"truncate", "split"}
    <2>1. Apply(op, s).over = {w \in s.over : w.rid <= op.occ - 1}
      BY <1>5, EditFields, TruncatedSeries DEF Apply
    <2>2. ~(v.rid <= op.occ - 1)
      BY <2>1
    <2> QED
      BY <1>1, <1>5, <2>2
  <1> QED
    BY <1>2, <1>3, <1>4, <1>5, EditFields

\* An "all" edit, the edit or deletion of another occurrence and a cut after it leave a
\* customised occurrence in place, whoever else edits at the same time.
THEOREM SeriesOverridesSurvive == Spec => OverridesSurvive
  <1> DEFINE P == row # None /\ row' \notin {None, file} =>
                     \A v \in row.over \ row'.over :
                         \E e \in Editors :
                             /\ ed[e].pc = "write"
                             /\ CASE ed[e].op.kind = "override" -> ed[e].op.to.rid = v.rid
                                  [] ed[e].op.kind = "exclude"  -> ed[e].op.occ = v.rid
                                  [] ed[e].op.kind = "replace"  -> FALSE
                                  [] OTHER -> ed[e].op.occ <= v.rid
  <1>1. ASSUME SeriesInv, Next, row' # row PROVE P
    <2> SUFFICES ASSUME row # None, row' \notin {None, file}, NEW v \in row.over \ row'.over
                 PROVE  \E e \in Editors :
                            /\ ed[e].pc = "write"
                            /\ CASE ed[e].op.kind = "override" -> ed[e].op.to.rid = v.rid
                                 [] ed[e].op.kind = "exclude"  -> ed[e].op.occ = v.rid
                                 [] ed[e].op.kind = "replace"  -> FALSE
                                 [] OTHER -> ed[e].op.occ <= v.rid
      OBVIOUS
    <2>1. PICK e \in Editors : WriteBack(e)
      BY <1>1, OnlyWrites
    <2>2. ed[e].pc = "write" /\ row = ed[e].base /\ row' = Apply(ed[e].op, row)
      BY <2>1 DEF WriteBack, Matches
    <2>3. ed[e].op \in Edit /\ row \in Series
      BY <1>1, <2>2, RequestFields DEF SeriesInv, TypeOK
    <2> QED
      BY <2>2, <2>3, LostOverrides
  <1>2. row' = row => P
    OBVIOUS
  <1>3. SeriesInv /\ [Next]_vars => P
    BY <1>1, <1>2 DEF vars
  <1> QED
    BY <1>3, SeriesSafe, PTL DEF Spec, OverridesSurvive

=============================================================================
