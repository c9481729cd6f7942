------------------------ MODULE CalendarQueueProofs ------------------------
(***************************************************************************)
(* Proofs that the calendar queue takes the earliest event, for any times, *)
(* any number of events and any mixture of insertions, push-backs, gets,   *)
(* clearings and resizes.                                                  *)
(*                                                                         *)
(* Well says what a calendar is between two calls: positioned at the day   *)
(* of lastTime, with no event from before it, every event in the bucket of *)
(* its day, every bucket in order.  Each call preserves it: an insertion,  *)
(* which moves the position back when it must (InsertWell); the search,    *)
(* which from such a position finds the earliest event within the year or  *)
(* starts once more at the earliest head (SearchFinds, DirectSearchWell,   *)
(* FoundIs); the removal of what was found (WithoutNextWell); and a resize *)
(* (ResizeWell), in which the width of the new days may be any number that *)
(* is not zero (NewIntervalIs).  The functions that the model defines by   *)
(* recursion are shown to exist (RecursionExists), and what their values   *)
(* have in common is shown from the smallest counterexample (SmallestOne). *)
(***************************************************************************)
EXTENDS CalendarQueue, SequenceLemmas, FiniteSetTheorems, WellFoundedInduction, TLAPS

-----------------------------------------------------------------------------
(* Days *)

LEMMA TimesMonotone ==
  ASSUME NEW a \in Int, NEW b \in Int, NEW w \in Nat, a <= b
  PROVE  a * w <= b * w
<1>1. PICK d \in Nat : b = a + d
  <2>1. b - a \in Nat /\ b = a + (b - a)
    OBVIOUS
  <2> QED
    BY <2>1
<1>2. b * w = a * w + d * w
  BY <1>1
<1>3. d * w >= 0
  OBVIOUS
<1> QED
  BY <1>2, <1>3

LEMMA DivIs ==
  ASSUME NEW t \in Nat, NEW w \in Nat \ {0}
  PROVE  /\ t \div w \in Nat
         /\ (t \div w) * w <= t
         /\ t < (t \div w + 1) * w
         /\ (t \div w) * w + (t % w) = t /\ t % w \in 0..w - 1
<1>1. t \div w \in Nat /\ (t \div w) * w <= t /\ t % w \in 0..w - 1
  OBVIOUS
<1>2. t < (t \div w + 1) * w
  OBVIOUS
<1>3. (t \div w) * w + (t % w) = t
  OBVIOUS
<1> QED
  BY <1>1, <1>2, <1>3

LEMMA DivIsOnly ==
  ASSUME NEW t \in Nat, NEW w \in Nat \ {0}, NEW d \in Int, d * w <= t, t < (d + 1) * w
  PROVE  t \div w = d
<1>1. PICK e \in Nat : e = t \div w
  BY DivIs
<1>2. e * w <= t /\ t < (e + 1) * w
  BY <1>1, DivIs
<1>3. ~(e + 1 <= d)
  BY <1>2, TimesMonotone
<1>4. ~(d + 1 <= e)
  BY <1>2, TimesMonotone
<1> QED
  BY <1>1, <1>3, <1>4

\* Days of two times are in the order of the times.
LEMMA DivMonotone ==
  ASSUME NEW s \in Nat, NEW t \in Nat, NEW w \in Nat \ {0}
  PROVE  /\ s <= t => s \div w <= t \div w
         /\ s \div w < t \div w => s < t
<1>1. PICK d \in Nat : d = s \div w
  BY DivIs
<1>2. PICK e \in Nat : e = t \div w
  BY DivIs
<1>3. d * w <= s /\ s < (d + 1) * w /\ e * w <= t /\ t < (e + 1) * w
  BY <1>1, <1>2, DivIs
<1>4. e + 1 <= d => (e + 1) * w <= d * w
  BY TimesMonotone
<1>5. d + 1 <= e => (d + 1) * w <= e * w
  BY TimesMonotone
<1> QED
  BY <1>1, <1>2, <1>3, <1>4, <1>5

LEMMA Division ==
  ASSUME NEW t \in Nat, NEW w \in Nat \ {0}
  PROVE  \E e \in Nat, r \in 0..w - 1 : e = t \div w /\ r = t % w /\ t = e * w + r
<1>1. PICK e \in Nat, r \in 0..w - 1 : e = t \div w /\ r = t % w
  OBVIOUS
<1>2. (t \div w) * w + (t % w) = t
  OBVIOUS
<1> QED
  BY <1>1, <1>2

LEMMA DivisionIs ==
  ASSUME NEW e \in Nat, NEW w \in Nat \ {0}, NEW r \in 0..w - 1
  PROVE  (e * w + r) \div w = e /\ (e * w + r) % w = r
<1>1. PICK t \in Nat : t = e * w + r
  OBVIOUS
<1>2. e * w <= t /\ t < (e + 1) * w
  <2>1. (e + 1) * w = e * w + w
    OBVIOUS
  <2> QED
    BY <1>1, <2>1
<1>3. t \div w = e
  BY <1>2, DivIsOnly
<1>4. (t \div w) * w + (t % w) = t /\ t % w \in Int
  OBVIOUS
<1>5. e * w + (t % w) = t
  BY <1>3, <1>4
<1> QED
  BY <1>1, <1>3, <1>4, <1>5

LEMMA ModOfSum ==
  ASSUME NEW d \in Nat, NEW k \in Nat, NEW n \in Nat \ {0}
  PROVE  ((d % n) + k) % n = (d + k) % n
<1>1. PICK e \in Nat, r \in 0..n - 1 : e = d \div n /\ r = d % n /\ d = e * n + r
  BY Division
<1>2. PICK t \in Nat : t = r + k
  OBVIOUS
<1>3. PICK f \in Nat, s \in 0..n - 1 : f = t \div n /\ s = t % n /\ t = f * n + s
  BY Division
<1>4. (e + f) * n = e * n + f * n
  OBVIOUS
<1>5. d + k = (e + f) * n + s
  <2>1. PICK x \in Nat, y \in Nat : x = e * n /\ y = f * n
    OBVIOUS
  <2>2. d = x + r /\ r + k = y + s /\ (e + f) * n = x + y
    BY <1>1, <1>2, <1>4, <1>3, <2>1
  <2> QED
    BY <2>2
<1>6. ((e + f) * n + s) % n = s
  BY DivisionIs
<1> QED
  BY <1>1, <1>2, <1>3, <1>5, <1>6

\* A day of the year that starts on d is told by its bucket, and even one more
\* day would not be confused with it.
LEMMA SameBucket ==
  ASSUME NEW n \in Nat, n >= 2, NEW d \in Nat, NEW k \in 0..n - 1, NEW e \in Nat,
         d <= e, e <= d + k + 1, e % n = (d + k) % n
  PROVE  e = d + k
<1>1. n \in Nat \ {0}
  OBVIOUS
<1>2. PICK a \in Nat, r \in 0..n - 1 : a = e \div n /\ r = e % n /\ e = a * n + r
  BY <1>1, Division
<1>3. PICK b \in Nat, s \in 0..n - 1 : d + k = b * n + s /\ s = (d + k) % n
  <2>1. PICK t \in Nat : t = d + k
    OBVIOUS
  <2>2. PICK b \in Nat, s \in 0..n - 1 : b = t \div n /\ s = t % n /\ t = b * n + s
    BY <1>1, Division
  <2> QED
    BY <2>1, <2>2
<1>4. ~(a + 1 <= b)
  <2>1. a + 1 <= b => (a + 1) * n <= b * n
    BY TimesMonotone
  <2>2. (a + 1) * n = a * n + n
    OBVIOUS
  <2> QED
    BY <1>2, <1>3, <2>1, <2>2
<1>5. ~(b + 1 <= a)
  <2>1. b + 1 <= a => (b + 1) * n <= a * n
    BY TimesMonotone
  <2>2. (b + 1) * n = b * n + n
    OBVIOUS
  <2> QED
    BY <1>2, <1>3, <2>1, <2>2
<1> QED
  BY <1>2, <1>3, <1>4, <1>5

\* The day in its year.
LEMMA DayOfYear ==
  ASSUME NEW t \in Nat, NEW w \in Nat \ {0}, NEW n \in Nat \ {0}
  PROVE  (t \div (w * n)) * n + ((t \div w) % n) = t \div w
<1>1. PICK d \in Nat : d = t \div w /\ d * w <= t /\ t < (d + 1) * w
  <2>1. t \div w \in Nat
    BY DivIs
  <2> QED
    BY <2>1, DivIs
<1>2. PICK y \in Nat, r \in 0..n - 1 : d = y * n + r /\ r = d % n
  BY Division
<1>3. w * n \in Nat \ {0}
  OBVIOUS
<1>4. y * (w * n) <= t
  <2>1. (y * n) * w <= d * w
    BY <1>2, TimesMonotone
  <2>2. (y * n) * w = y * (w * n)
    OBVIOUS
  <2> QED
    BY <1>1, <2>1, <2>2
<1>5. t < (y + 1) * (w * n)
  <2>1. (d + 1) * w <= ((y + 1) * n) * w
    BY <1>2, TimesMonotone
  <2>2. ((y + 1) * n) * w = (y + 1) * (w * n)
    OBVIOUS
  <2> QED
    BY <1>1, <2>1, <2>2
<1>6. t \div (w * n) = y
  BY <1>3, <1>4, <1>5, DivIsOnly
<1> QED
  BY <1>1, <1>2, <1>6

LEMMA TopIs ==
  ASSUME NEW c, NEW d \in Nat, c.interval \in Nat \ {0}
  PROVE  /\ TopOf(c, d) \in Nat
         /\ (d + 1) * c.interval <= TopOf(c, d) /\ TopOf(c, d) <= (d + 2) * c.interval
         /\ 2 * TopOf(c, d) <= (2 * d + 3) * c.interval
         /\ \A k \in Nat : TopOf(c, d) + k * c.interval = TopOf(c, d + k)
<1>1. PICK w \in Nat \ {0} : w = c.interval
  OBVIOUS
<1>2. PICK h \in Nat : h = d * w
  OBVIOUS
<1>3. (2 * d + 3) * w = 2 * h + 3 * w /\ (d + 1) * w = h + w /\ (d + 2) * w = h + 2 * w
  BY <1>2
<1>4. TopOf(c, d) = (2 * h + 3 * w) \div 2
  BY <1>1, <1>3 DEF TopOf
<1>5. ASSUME NEW k \in Nat PROVE TopOf(c, d) + k * w = TopOf(c, d + k)
  <2>1. PICK g \in Nat : g = k * w
    OBVIOUS
  <2>2. (2 * (d + k) + 3) * w = 2 * h + 3 * w + 2 * g
    BY <1>2, <2>1
  <2>3. TopOf(c, d + k) = (2 * h + 3 * w + 2 * g) \div 2
    BY <1>1, <2>2 DEF TopOf
  <2> QED
    BY <1>4, <2>1, <2>3
<1>6. (2 * h + 3 * w) \div 2 \in Nat /\ h + w <= (2 * h + 3 * w) \div 2
      /\ (2 * h + 3 * w) \div 2 <= h + 2 * w /\ 2 * ((2 * h + 3 * w) \div 2) <= 2 * h + 3 * w
  OBVIOUS
<1> QED
  BY <1>1, <1>3, <1>4, <1>5, <1>6

-----------------------------------------------------------------------------
(* Buckets *)

AnyEvent == [level : Nat, fine : Int, dest : Int, num : Nat]

InOrder(s) == \A k \in 1..Len(s) : \A m \in 1..k - 1 : Precedes(s[m], s[k])

LEMMA Order ==
  ASSUME NEW x \in AnyEvent, NEW y \in AnyEvent
  PROVE  /\ Precedes(x, y) => x.level <= y.level /\ ~Precedes(y, x) /\ x # y
         /\ x.num # y.num => Precedes(x, y) \/ Precedes(y, x)
         /\ x.level < y.level => Precedes(x, y)
  BY DEF AnyEvent, Precedes

LEMMA OrderIsTransitive ==
  ASSUME NEW x \in AnyEvent, NEW y \in AnyEvent, NEW z \in AnyEvent,
         Precedes(x, y), Precedes(y, z)
  PROVE  Precedes(x, z)
  BY DEF AnyEvent, Precedes

\* A new event goes to its place in its bucket.
LEMMA InsertedInOrder ==
  ASSUME NEW E \in SUBSET AnyEvent, NEW s \in Seq(E), NEW x \in E,
         InOrder(s), \A k \in 1..Len(s) : s[k].num # x.num
  PROVE  /\ InsertSorted(s, x) \in Seq(E) /\ InOrder(InsertSorted(s, x))
         /\ ToSet(InsertSorted(s, x)) = ToSet(s) \cup {x}
<1> DEFINE T == {Len(s) + 1} \cup {i \in DOMAIN s : ~Precedes(s[i], x)}
<1>1. T \in SUBSET Nat /\ T \subseteq 1..(Len(s) + 1) /\ T # {}
  OBVIOUS
<1>2. PICK p \in T : \A k \in T : p <= k
  <2> HIDE DEF T
  <2> QED
    BY <1>1, SmallestOne
<1>3. Min(T) = p
  <2> HIDE DEF T
  <2> QED
    BY <1>1, <1>2, MinIs
<1>4. p \in 1..(Len(s) + 1)
  BY <1>1, <1>2
<1>5. PICK r : r = InsertSorted(s, x) /\ r = InsertAt(s, p, x)
  BY <1>3 DEF InsertSorted
<1>6. /\ r \in Seq(E) /\ Len(r) = Len(s) + 1
      /\ \A i \in 1..p - 1 : r[i] = s[i]
      /\ r[p] = x
      /\ \A i \in (p + 1)..(Len(s) + 1) : r[i] = s[i - 1]
  BY <1>4, <1>5, InsertAtIs
<1>7. \A i \in 1..p - 1 : i \in 1..Len(s) /\ Precedes(s[i], x)
  BY <1>2, <1>4
<1>8. \A i \in 1..Len(s) : s[i] \in AnyEvent
  OBVIOUS
<1>9. ASSUME NEW i \in p..Len(s) PROVE Precedes(x, s[i])
  <2>1. p \in DOMAIN s /\ ~Precedes(s[p], x)
    BY <1>2, <1>4
  <2>2. Precedes(x, s[p])
    BY <1>8, <2>1, Order
  <2>3. i \in 1..Len(s) /\ (i = p \/ p \in 1..i - 1)
    BY <1>4
  <2>4. i # p => Precedes(s[p], s[i])
    BY <2>3 DEF InOrder
  <2> QED
    BY <1>8, <2>1, <2>2, <2>3, <2>4, OrderIsTransitive
<1>10. InOrder(r)
  <2>1. SUFFICES ASSUME NEW k \in 1..(Len(s) + 1), NEW m \in 1..k - 1 PROVE Precedes(r[m], r[k])
    BY <1>6 DEF InOrder
  <2>2. CASE k < p
    <3>1. k \in 1..p - 1 /\ m \in 1..p - 1 /\ k \in 1..Len(s)
      BY <1>4, <2>2
    <3> QED
      BY <1>6, <3>1 DEF InOrder
  <2>3. CASE k = p
    BY <1>6, <1>7, <2>3
  <2>4. CASE k > p
    <3>1. k \in (p + 1)..(Len(s) + 1) /\ k - 1 \in p..Len(s) /\ k - 1 \in 1..Len(s)
      BY <1>4, <2>4
    <3>2. CASE m < p
      <4>1. m \in 1..p - 1 /\ m \in 1..(k - 1) - 1
        BY <1>4, <2>4, <3>2
      <4> QED
        BY <1>6, <3>1, <4>1 DEF InOrder
    <3>3. CASE m = p
      BY <1>6, <1>9, <3>1, <3>3
    <3>4. CASE m > p
      <4>1. m \in (p + 1)..(Len(s) + 1) /\ m - 1 \in 1..(k - 1) - 1
        BY <1>4, <2>4, <3>4
      <4> QED
        BY <1>6, <3>1, <4>1 DEF InOrder
    <3> QED
      BY <1>4, <3>2, <3>3, <3>4
  <2> QED
    BY <1>4, <2>2, <2>3, <2>4
<1>11. ToSet(r) = ToSet(s) \cup {x}
  <2>1. ToSet(r) = {r[i] : i \in 1..(Len(s) + 1)} /\ ToSet(s) = {s[i] : i \in 1..Len(s)}
    BY <1>6 DEF ToSet
  <2>2. ASSUME NEW i \in 1..(Len(s) + 1) PROVE r[i] = x \/ \E j \in 1..Len(s) : r[i] = s[j]
    <3>1. i \in 1..p - 1 \/ i = p \/ i \in (p + 1)..(Len(s) + 1)
      BY <1>4
    <3>2. i \in (p + 1)..(Len(s) + 1) => i - 1 \in 1..Len(s)
      BY <1>4
    <3> QED
      BY <1>6, <1>7, <3>1, <3>2
  <2>3. ASSUME NEW j \in 1..Len(s) PROVE \E i \in 1..(Len(s) + 1) : r[i] = s[j]
    <3>1. CASE j < p
      <4>1. j \in 1..p - 1 /\ j \in 1..(Len(s) + 1)
        BY <1>4, <3>1
      <4> QED
        BY <1>6, <4>1
    <3>2. CASE j >= p
      <4>1. j + 1 \in (p + 1)..(Len(s) + 1) /\ j + 1 \in 1..(Len(s) + 1) /\ (j + 1) - 1 = j
        BY <1>4, <3>2
      <4> QED
        BY <1>6, <4>1
    <3> QED
      BY <1>4, <3>1, <3>2
  <2> QED
    BY <1>4, <1>6, <2>1, <2>2, <2>3
<1> QED
  BY <1>5, <1>6, <1>10, <1>11

-----------------------------------------------------------------------------
(* Calendars *)

Apart(S) == \A x, y \in S : x.num = y.num => x = y

\* A calendar of n buckets with events of E.
Calendar(n, E) ==
    [bucket : [0..n - 1 -> Seq(E)], lastBucket : 0..n - 1, bucketTop : Nat, lastTime : Nat,
     eventNum : Nat, interval : Nat \ {0}]

\* The position is the bucket and the day of lastTime, no event is from before,
\* and every event is in its bucket, in order.
Well(c, n, E) ==
    /\ c \in Calendar(n, E)
    /\ c.lastBucket = Day(c, c.lastTime) % n
    /\ c.bucketTop = TopOf(c, Day(c, c.lastTime))
    /\ IsFiniteSet(EventsIn(c)) /\ c.eventNum = Cardinality(EventsIn(c))
    /\ Apart(EventsIn(c))
    /\ \A x \in EventsIn(c) : x.level >= c.lastTime
    /\ \A i \in 0..n - 1 :
          /\ InOrder(c.bucket[i])
          /\ \A k \in 1..Len(c.bucket[i]) : Day(c, c.bucket[i][k].level) % n = i

LEMMA CalendarIs ==
  ASSUME NEW n \in Nat, n >= 2, NEW E, NEW c \in Calendar(n, E)
  PROVE  /\ BucketNum(c) = n /\ DOMAIN c.bucket = 0..n - 1
         /\ \A i \in 0..n - 1 : c.bucket[i] \in Seq(E)
         /\ EventsIn(c) \subseteq E
         /\ \A x : x \in EventsIn(c) <=>
                \E i \in 0..n - 1 : \E k \in 1..Len(c.bucket[i]) : x = c.bucket[i][k]
<1>1. c.bucket \in [0..n - 1 -> Seq(E)]
  BY DEF Calendar
<1>2. DOMAIN c.bucket = 0..n - 1 /\ \A i \in 0..n - 1 : c.bucket[i] \in Seq(E)
  BY <1>1
<1>3. Cardinality(0..n - 1) = n
  BY FS_Interval
<1>4. \A i \in 0..n - 1 : DOMAIN c.bucket[i] = 1..Len(c.bucket[i])
  BY <1>2
<1>5. \A x : x \in EventsIn(c) <=>
             \E i \in 0..n - 1 : \E k \in 1..Len(c.bucket[i]) : x = c.bucket[i][k]
  BY <1>2, <1>4 DEF EventsIn, ToSet
<1>6. EventsIn(c) \subseteq E
  <2> SUFFICES ASSUME NEW i \in 0..n - 1, NEW k \in 1..Len(c.bucket[i]) PROVE c.bucket[i][k] \in E
    BY <1>5
  <2> QED
    BY <1>2
<1> QED
  BY <1>2, <1>3, <1>5, <1>6 DEF BucketNum

\* The calendar with another position: at the day of a time.
LEMMA PositionIs ==
  ASSUME NEW n \in Nat, n >= 2, NEW E, NEW c \in Calendar(n, E), NEW time \in Nat
  PROVE  /\ StartAt(c, time) \in Calendar(n, E)
         /\ StartAt(c, time) = [bucket |-> c.bucket, lastBucket |-> Day(c, time) % n,
                                bucketTop |-> TopOf(c, Day(c, time)), lastTime |-> time,
                                eventNum |-> c.eventNum, interval |-> c.interval]
         /\ Day(c, time) \in Nat
<1>1. c.interval \in Nat \ {0} /\ BucketNum(c) = n
  BY CalendarIs DEF Calendar
<1>2. PICK d \in Nat : d = Day(c, time)
  BY <1>1, DivIs DEF Day
<1>3. TopOf(c, d) \in Nat
  BY <1>1, TopIs
<1>4. d % n \in 0..n - 1
  OBVIOUS
<1>5. StartAt(c, time) = [bucket |-> c.bucket, lastBucket |-> d % n,
                          bucketTop |-> TopOf(c, d), lastTime |-> time,
                          eventNum |-> c.eventNum, interval |-> c.interval]
  <2>1. StartAt(c, time) = [c EXCEPT !.lastTime = time, !.lastBucket = d % n,
                                     !.bucketTop = TopOf(c, d)]
    BY <1>1, <1>2 DEF StartAt
  <2>2. PICK b, top : b = d % n /\ top = TopOf(c, d)
    OBVIOUS
  <2>3. c = [bucket |-> c.bucket, lastBucket |-> c.lastBucket, bucketTop |-> c.bucketTop,
             lastTime |-> c.lastTime, eventNum |-> c.eventNum, interval |-> c.interval]
    BY DEF Calendar
  <2>4. PICK x, y, z, u, v, w :
              /\ c = [bucket |-> x, lastBucket |-> y, bucketTop |-> z, lastTime |-> u,
                      eventNum |-> v, interval |-> w]
              /\ x = c.bucket /\ v = c.eventNum /\ w = c.interval
    BY <2>3
  <2>5. PICK f : f = [c EXCEPT !.lastTime = time]
    OBVIOUS
  <2>6. f = [bucket |-> x, lastBucket |-> y, bucketTop |-> z, lastTime |-> time,
             eventNum |-> v, interval |-> w]
    BY <2>4, <2>5
  <2>7. PICK e : e = [f EXCEPT !.lastBucket = b]
    OBVIOUS
  <2>8. e = [bucket |-> x, lastBucket |-> b, bucketTop |-> z, lastTime |-> time,
             eventNum |-> v, interval |-> w]
    BY <2>6, <2>7
  <2>9. [e EXCEPT !.bucketTop = top] =
             [bucket |-> x, lastBucket |-> b, bucketTop |-> top, lastTime |-> time,
              eventNum |-> v, interval |-> w]
    BY <2>8
  <2>10. [c EXCEPT !.lastTime = time, !.lastBucket = b, !.bucketTop = top] = [e EXCEPT !.bucketTop = top]
    BY <2>5, <2>7
  <2> QED
    BY <2>1, <2>4, <2>9, <2>10, <2>2
<1>6. StartAt(c, time) \in Calendar(n, E)
  BY <1>3, <1>4, <1>5 DEF Calendar
<1> QED
  BY <1>2, <1>5, <1>6

\* Where the calendar is positioned makes no difference to its events.
LEMMA PositionedWell ==
  ASSUME NEW n \in Nat, n >= 2, NEW E, NEW c, NEW time \in Nat,
         Well(c, n, E), \A x \in EventsIn(c) : x.level >= time
  PROVE  Well(StartAt(c, time), n, E) /\ EventsIn(StartAt(c, time)) = EventsIn(c)
<1>1. c \in Calendar(n, E)
  BY DEF Well
<1>2. PICK d : d = StartAt(c, time)
  OBVIOUS
<1>3. /\ d \in Calendar(n, E) /\ d.bucket = c.bucket /\ d.interval = c.interval
      /\ d.lastBucket = Day(c, time) % n /\ d.bucketTop = TopOf(c, Day(c, time))
      /\ d.lastTime = time /\ d.eventNum = c.eventNum
  BY <1>1, <1>2, PositionIs
<1>4. EventsIn(d) = EventsIn(c) /\ \A t : Day(d, t) = Day(c, t) /\ TopOf(d, t) = TopOf(c, t)
  BY <1>3 DEF EventsIn, Day, TopOf
<1>5. Well(d, n, E)
  BY <1>3, <1>4 DEF Well
<1> QED
  BY <1>2, <1>4, <1>5

LEMMA EmptyWell ==
  ASSUME NEW n \in Nat, n >= 2, NEW E, NEW w \in Nat \ {0}, NEW time \in Nat
  PROVE  /\ Well(LocalInit(n, w, time), n, E) /\ EventsIn(LocalInit(n, w, time)) = {}
         /\ LocalInit(n, w, time).eventNum = 0
<1>1. PICK c : c = [bucket |-> [i \in 0..n - 1 |-> <<>>], lastBucket |-> 0, bucketTop |-> 0,
                    lastTime |-> 0, eventNum |-> 0, interval |-> w]
  OBVIOUS
<1>2. [i \in 0..n - 1 |-> <<>>] \in [0..n - 1 -> Seq(E)] /\ 0 \in 0..n - 1
  OBVIOUS
<1>3. c \in Calendar(n, E)
  BY <1>1, <1>2 DEF Calendar
<1>4. PICK d : d = StartAt(c, time)
  OBVIOUS
<1>5. /\ d \in Calendar(n, E) /\ d.bucket = c.bucket /\ d.interval = c.interval
      /\ d.lastBucket = Day(c, time) % n /\ d.bucketTop = TopOf(c, Day(c, time))
      /\ d.lastTime = time /\ d.eventNum = c.eventNum
  BY <1>3, <1>4, PositionIs
<1>6. \A t : Day(d, t) = Day(c, t) /\ TopOf(d, t) = TopOf(c, t)
  BY <1>5 DEF Day, TopOf
<1>7. \A i \in 0..n - 1 : d.bucket[i] = <<>> /\ Len(d.bucket[i]) = 0
  BY <1>1, <1>5
<1>8. EventsIn(d) = {}
  BY <1>5, <1>7, CalendarIs
<1>9. IsFiniteSet(EventsIn(d)) /\ Cardinality(EventsIn(d)) = 0 /\ d.eventNum = 0
  BY <1>1, <1>5, <1>8, FS_EmptySet
<1>10. \A i \in 0..n - 1 : InOrder(d.bucket[i])
  BY <1>7 DEF InOrder
<1>11. Well(d, n, E)
  BY <1>5, <1>6, <1>7, <1>8, <1>9, <1>10 DEF Well, Apart
<1>12. d = LocalInit(n, w, time)
  BY <1>1, <1>4 DEF LocalInit
<1> QED
  BY <1>8, <1>9, <1>11, <1>12

-----------------------------------------------------------------------------
(* Insertion *)

LEMMA InsertWell ==
  ASSUME NEW n \in Nat, n >= 2, NEW E \in SUBSET AnyEvent, NEW c, Well(c, n, E), NEW x \in E,
         \A y \in EventsIn(c) : y.num # x.num
  PROVE  /\ Well(InsertEventInBucket(c, x), n, E)
         /\ EventsIn(InsertEventInBucket(c, x)) = EventsIn(c) \cup {x}
         /\ InsertEventInBucket(c, x).eventNum = c.eventNum + 1
<1>1. x \in AnyEvent /\ x.level \in Nat /\ c \in Calendar(n, E) /\ c.lastTime \in Nat
  BY DEF AnyEvent, Well, Calendar
<1>2. PICK p : p = PositionFor(c, x)
  OBVIOUS
<1>3. Well(p, n, E) /\ EventsIn(p) = EventsIn(c) /\ p.bucket = c.bucket
      /\ p.interval = c.interval /\ p.eventNum = c.eventNum /\ x.level >= p.lastTime
  <2>1. CASE x.level < c.lastTime
    <3>1. p = StartAt(c, x.level)
      BY <1>2, <2>1 DEF PositionFor
    <3>2. \A y \in EventsIn(c) : y.level >= x.level
      <4>1. \A y \in EventsIn(c) : y.level \in Nat /\ y.level >= c.lastTime
        BY <1>1, CalendarIs DEF Well, AnyEvent
      <4> QED
        BY <1>1, <2>1, <4>1
    <3>3. p.bucket = c.bucket /\ p.interval = c.interval /\ p.eventNum = c.eventNum
          /\ p.lastTime = x.level
      BY <1>1, <3>1, PositionIs
    <3> QED
      BY <1>1, <3>1, <3>2, <3>3, PositionedWell
  <2>2. CASE ~(x.level < c.lastTime)
    BY <1>1, <1>2, <2>2 DEF PositionFor
  <2> QED
    BY <2>1, <2>2
<1>4. p \in Calendar(n, E) /\ p.bucket \in [0..n - 1 -> Seq(E)] /\ p.eventNum \in Nat
  BY <1>3 DEF Well, Calendar
<1>5. PICK i \in 0..n - 1 : i = Day(c, x.level) % BucketNum(c) /\ i = Day(p, x.level) % n
  <2>1. Day(c, x.level) \in Nat /\ Day(p, x.level) = Day(c, x.level) /\ BucketNum(c) = n
    BY <1>1, <1>3, PositionIs, CalendarIs DEF Day
  <2> QED
    BY <2>1
<1>6. PICK s \in Seq(E) : s = p.bucket[i] /\ s = c.bucket[i]
  BY <1>3, <1>4
<1>7. PICK r : r = InsertSorted(s, x)
  OBVIOUS
<1>8. r \in Seq(E) /\ InOrder(r) /\ ToSet(r) = ToSet(s) \cup {x}
  <2>1. InOrder(s)
    BY <1>3, <1>6 DEF Well
  <2>2. \A k \in 1..Len(s) : s[k] \in EventsIn(c)
    BY <1>1, <1>6, CalendarIs
  <2> QED
    BY <1>1, <1>6, <1>7, <2>1, <2>2, InsertedInOrder
<1>9. PICK d : d = InsertEventInBucket(c, x)
  OBVIOUS
<1>10. PICK b : b = [p.bucket EXCEPT ![i] = r]
  OBVIOUS
<1>11. b \in [0..n - 1 -> Seq(E)] /\ b[i] = r /\ \A j \in 0..n - 1 : j # i => b[j] = p.bucket[j]
  BY <1>4, <1>8, <1>10
<1>12. d = [bucket |-> b, lastBucket |-> p.lastBucket, bucketTop |-> p.bucketTop,
            lastTime |-> p.lastTime, eventNum |-> p.eventNum + 1, interval |-> p.interval]
  <2>1. d = [p EXCEPT !.bucket[i] = InsertSorted(@, x), !.eventNum = @ + 1]
    BY <1>2, <1>5, <1>9 DEF InsertEventInBucket
  <2>2. d = [p EXCEPT !.bucket = b, !.eventNum = p.eventNum + 1]
    BY <1>4, <1>6, <1>7, <1>10, <2>1 DEF Calendar
  <2> QED
    BY <1>4, <2>2 DEF Calendar
<1>13. d \in Calendar(n, E)
  <2>1. p.eventNum + 1 \in Nat
    BY <1>4
  <2> QED
    BY <1>4, <1>11, <1>12, <2>1 DEF Calendar
<1>14. EventsIn(d) = EventsIn(c) \cup {x}
  <2>1. \A j \in 0..n - 1 : ToSet(d.bucket[j]) = IF j = i THEN ToSet(p.bucket[j]) \cup {x}
                                                 ELSE ToSet(p.bucket[j])
    BY <1>6, <1>8, <1>11, <1>12
  <2>2. DOMAIN d.bucket = 0..n - 1 /\ DOMAIN p.bucket = 0..n - 1
    BY <1>4, <1>11, <1>12
  <2>3. EventsIn(d) = EventsIn(p) \cup {x}
    BY <2>1, <2>2 DEF EventsIn
  <2> QED
    BY <1>3, <2>3
<1>15. x \notin EventsIn(c) /\ IsFiniteSet(EventsIn(c))
  BY DEF Well
<1>16. IsFiniteSet(EventsIn(d)) /\ Cardinality(EventsIn(d)) = Cardinality(EventsIn(c)) + 1
  BY <1>14, <1>15, FS_AddElement
<1>17. Apart(EventsIn(d))
  BY <1>14 DEF Apart, Well
<1>18. \A t : Day(d, t) = Day(p, t) /\ TopOf(d, t) = TopOf(p, t)
  BY <1>12 DEF Day, TopOf
<1>19. ASSUME NEW j \in 0..n - 1
       PROVE  /\ InOrder(d.bucket[j])
              /\ \A k \in 1..Len(d.bucket[j]) : Day(d, d.bucket[j][k].level) % n = j
  <2>1. CASE j = i
    <3>1. d.bucket[j] = r
      BY <1>11, <1>12, <2>1
    <3>2. ASSUME NEW k \in 1..Len(r) PROVE Day(d, r[k].level) % n = i
      <4>1. r[k] = x \/ \E m \in 1..Len(s) : r[k] = s[m]
        <5>1. DOMAIN r = 1..Len(r) /\ DOMAIN s = 1..Len(s)
          BY <1>8
        <5>2. r[k] \in ToSet(r)
          BY <5>1 DEF ToSet
        <5> QED
          BY <1>8, <5>1, <5>2 DEF ToSet
      <4>2. \A m \in 1..Len(s) : Day(p, s[m].level) % n = i
        BY <1>3, <1>6 DEF Well
      <4> QED
        BY <1>5, <1>18, <4>1, <4>2
    <3> QED
      BY <1>8, <2>1, <3>1, <3>2
  <2>2. CASE j # i
    <3>1. d.bucket[j] = p.bucket[j]
      BY <1>11, <1>12, <2>2
    <3> QED
      BY <1>3, <1>18, <3>1 DEF Well
  <2> QED
    BY <2>1, <2>2
<1>20. d.eventNum = c.eventNum + 1 /\ d.eventNum = Cardinality(EventsIn(d))
  BY <1>3, <1>12, <1>16 DEF Well
<1>21. /\ d.lastBucket = Day(d, d.lastTime) % n /\ d.bucketTop = TopOf(d, Day(d, d.lastTime))
       /\ \A y \in EventsIn(d) : y.level >= d.lastTime
  BY <1>3, <1>12, <1>14, <1>18 DEF Well
<1>22. Well(d, n, E)
  BY <1>13, <1>16, <1>17, <1>19, <1>20, <1>21 DEF Well
<1> QED
  BY <1>9, <1>14, <1>20, <1>22

-----------------------------------------------------------------------------
(* The search for the next event *)

\* The first event of a bucket is one of a day.
HeadIsOf(c, i, d) == c.bucket[i] # <<>> /\ Day(c, c.bucket[i][1].level) = d

\* What is found in one step of the search is an event of the day looked at.
LEMMA DueIsDay ==
  ASSUME NEW n \in Nat, n >= 2, NEW E \in SUBSET AnyEvent, NEW c, Well(c, n, E),
         NEW k \in 0..n - 1, NEW D \in Nat, D = Day(c, c.lastTime)
  PROVE  /\ DayOf(c, k) = (D + k) % n /\ (D + k) % n \in 0..n - 1
         /\ k \in Due(c) <=> HeadIsOf(c, (D + k) % n, D + k)
<1>1. /\ c \in Calendar(n, E) /\ c.interval \in Nat \ {0} /\ c.lastTime \in Nat
      /\ c.lastBucket = D % n /\ c.bucketTop = TopOf(c, D) /\ n \in Nat \ {0}
  BY DEF Well, Calendar
<1>2. DayOf(c, k) = (D + k) % n
  <2>1. BucketNum(c) = n
    BY <1>1, CalendarIs
  <2>2. ((D % n) + k) % n = (D + k) % n
    BY <1>1, ModOfSum
  <2> QED
    BY <1>1, <2>1, <2>2 DEF DayOf
<1>3. PICK i \in 0..n - 1 : i = (D + k) % n
  BY <1>1
<1>4. PICK s \in Seq(E) : s = c.bucket[i]
  BY <1>1, CalendarIs
<1>5. k \in Due(c) <=> s # <<>> /\ Head(s).level < TopOf(c, D) + k * c.interval
  <2>1. BucketNum(c) = n
    BY <1>1, CalendarIs
  <2> QED
    BY <1>1, <1>2, <1>3, <1>4, <2>1 DEF Due
<1>6. PICK top \in Nat : top = TopOf(c, D) + k * c.interval /\ top = TopOf(c, D + k)
                         /\ (D + k + 1) * c.interval <= top /\ top <= (D + k + 2) * c.interval
  <2>1. TopOf(c, D) + k * c.interval = TopOf(c, D + k)
    BY <1>1, TopIs
  <2>2. PICK d \in Nat : d = D + k
    OBVIOUS
  <2>3. TopOf(c, d) \in Nat /\ (d + 1) * c.interval <= TopOf(c, d)
        /\ TopOf(c, d) <= (d + 2) * c.interval
    BY <1>1, TopIs
  <2> QED
    BY <2>1, <2>2, <2>3
<1>7. ASSUME s # <<>> PROVE Head(s).level < top <=> Day(c, s[1].level) = D + k
  <2>1. Head(s) = s[1] /\ 1 \in 1..Len(s) /\ s[1] \in E
    BY <1>7, HeadIs
  <2>2. PICK t \in Nat : t = s[1].level
    BY <2>1 DEF AnyEvent
  <2>3. t >= c.lastTime /\ Day(c, t) % n = i
    <3>1. s[1] \in EventsIn(c)
      BY <1>1, <1>4, <2>1, CalendarIs
    <3> QED
      BY <1>4, <2>1, <2>2, <3>1 DEF Well
  <2>4. PICK e \in Nat : e = Day(c, t)
    BY <1>1, DivIs DEF Day
  <2>5. D <= e
    BY <1>1, <2>3, <2>4, DivMonotone DEF Day
  <2>6. e * c.interval <= t /\ t < (e + 1) * c.interval
    BY <1>1, <2>4, DivIs DEF Day
  <2>7. ASSUME t < top PROVE e = D + k
    <3>1. PICK w \in Nat, a \in Nat : w = c.interval /\ a = D + k + 2
      BY <1>1
    <3>2. PICK x \in Int, y \in Int : x = a * w /\ y = e * w
      OBVIOUS
    <3>3. a <= e => x <= y
      BY <3>2, TimesMonotone
    <3>4. top <= x /\ y <= t
      BY <1>6, <2>6, <3>1, <3>2
    <3>5. e <= D + k + 1
      BY <2>7, <3>1, <3>3, <3>4
    <3>6. e % n = (D + k) % n
      BY <1>3, <2>3, <2>4
    <3> QED
      BY <2>5, <3>5, <3>6, SameBucket
  <2>8. ASSUME e = D + k PROVE t < top
    <3>1. PICK x \in Int : x = (D + k + 1) * c.interval
      BY <1>1
    <3>2. x <= top /\ t < x
      BY <1>6, <2>6, <2>8, <3>1
    <3> QED
      BY <3>2
  <2> QED
    BY <2>1, <2>2, <2>4, <2>7, <2>8
<1> QED
  BY <1>2, <1>3, <1>4, <1>5, <1>6, <1>7 DEF HeadIsOf

\* The first event found is the earliest one, and the position is its day.
LEMMA SearchFinds ==
  ASSUME NEW n \in Nat, n >= 2, NEW E \in SUBSET AnyEvent, NEW c, Well(c, n, E), Due(c) # {},
         NEW k, k = Min(Due(c)), NEW x, x = Head(c.bucket[DayOf(c, k)])
  PROVE  /\ k \in 0..n - 1 /\ DayOf(c, k) \in 0..n - 1 /\ c.bucket[DayOf(c, k)] # <<>>
         /\ x \in EventsIn(c) /\ DayOf(c, k) = Day(c, x.level) % n
         /\ c.bucketTop + k * c.interval = TopOf(c, Day(c, x.level))
         /\ \A y \in EventsIn(c) : y # x => Precedes(x, y)
<1>1. /\ c \in Calendar(n, E) /\ c.interval \in Nat \ {0} /\ c.lastTime \in Nat
      /\ BucketNum(c) = n
  BY CalendarIs DEF Well, Calendar
<1>2. /\ \A j \in 0..n - 1 : c.bucket[j] \in Seq(E)
      /\ \A y \in EventsIn(c) : y \in E /\ \E j \in 0..n - 1 : \E m \in 1..Len(c.bucket[j]) :
                                                              y = c.bucket[j][m]
      /\ \A j \in 0..n - 1 : \A m \in 1..Len(c.bucket[j]) : c.bucket[j][m] \in EventsIn(c)
  <2>1. \A j \in 0..n - 1 : c.bucket[j] \in Seq(E)
    BY <1>1, CalendarIs
  <2>2. \A y : y \in EventsIn(c) <=> \E j \in 0..n - 1 : \E m \in 1..Len(c.bucket[j]) :
                                                               y = c.bucket[j][m]
    BY <1>1, CalendarIs
  <2>3. EventsIn(c) \subseteq E
    BY <1>1, CalendarIs
  <2> QED
    BY <2>1, <2>2, <2>3
<1>3. PICK D \in Nat : D = Day(c, c.lastTime) /\ c.bucketTop = TopOf(c, D)
  BY <1>1, PositionIs DEF Well
<1>4. Due(c) \subseteq 0..n - 1 /\ Due(c) \subseteq Nat
  BY <1>1 DEF Due
<1>5. k \in Due(c) /\ \A l \in Due(c) : k <= l
  <2>1. PICK m \in Due(c) : \A l \in Due(c) : m <= l
    BY <1>4, SmallestOne
  <2>2. Min(Due(c)) = m
    BY <1>4, <2>1, MinIs
  <2> QED
    BY <2>1, <2>2
<1>6. PICK i \in 0..n - 1 : i = DayOf(c, k) /\ i = (D + k) % n
  BY <1>3, <1>4, <1>5, DueIsDay
<1>7. PICK s \in Seq(E) : s = c.bucket[i]
  BY <1>2
<1>8. s # <<>> /\ Day(c, s[1].level) = D + k
  <2>1. k \in 0..n - 1
    BY <1>4, <1>5
  <2>2. k \in Due(c) <=> HeadIsOf(c, (D + k) % n, D + k)
    BY <1>3, <2>1, DueIsDay
  <2> QED
    BY <1>5, <1>6, <1>7, <2>2 DEF HeadIsOf
<1>9. x = s[1] /\ 1 \in 1..Len(s) /\ x \in E
  BY <1>6, <1>7, <1>8, HeadIs
<1>10. x \in EventsIn(c) /\ x \in AnyEvent /\ x.level \in Nat
  BY <1>7, <1>9, <1>2 DEF AnyEvent
<1>11. c.bucketTop + k * c.interval = TopOf(c, D + k)
  BY <1>1, <1>3, <1>4, <1>5, TopIs
<1>12. ASSUME NEW y \in EventsIn(c), y # x PROVE Precedes(x, y)
  <2>1. PICK j \in 0..n - 1 : \E m \in 1..Len(c.bucket[j]) : y = c.bucket[j][m]
    BY <1>2
  <2>2. PICK r \in Seq(E) : r = c.bucket[j]
    BY <1>2
  <2>3. PICK m \in 1..Len(r) : y = r[m]
    BY <2>1, <2>2
  <2>4. y \in AnyEvent /\ y.level \in Nat /\ InOrder(r)
        /\ Day(c, y.level) % n = j /\ y.level >= c.lastTime
    BY <1>2, <2>2, <2>3 DEF Well, AnyEvent
  <2>5. PICK e \in Nat : e = Day(c, y.level)
    BY <1>1, <2>4, PositionIs
  <2>6. D <= e
    BY <1>1, <1>3, <2>4, <2>5, DivMonotone DEF Day
  <2>7. ~(e < D + k)
    <3> SUFFICES ASSUME e < D + k PROVE FALSE
      OBVIOUS
    <3>1. PICK l \in 0..n - 1 : e = D + l /\ l < k
      <4>1. e - D \in 0..n - 1 /\ e = D + (e - D) /\ e - D < k
        BY <1>4, <1>5, <2>6
      <4> QED
        BY <4>1
    <3>2. j = (D + l) % n
      BY <2>4, <2>5, <3>1
    <3>3. r # <<>> /\ 1 \in 1..Len(r) /\ r[1] \in E
      BY <2>3
    <3>4. PICK h \in AnyEvent : h = r[1] /\ h.level \in Nat /\ h \in EventsIn(c)
      BY <1>2, <2>2, <3>3 DEF AnyEvent
    <3>5. h.level <= y.level
      <4>1. m = 1 \/ 1 \in 1..m - 1
        BY <2>3
      <4>2. m # 1 => Precedes(h, y)
        BY <2>3, <2>4, <3>4, <4>1 DEF InOrder
      <4> QED
        BY <2>3, <2>4, <3>4, <4>2, Order
    <3>6. PICK f \in Nat : f = Day(c, h.level) /\ f <= e /\ D <= f /\ f % n = j
      <4>1. Day(c, h.level) \in Nat
        BY <1>1, <3>4, PositionIs
      <4>2. Day(c, h.level) <= e
        BY <1>1, <2>4, <2>5, <3>4, <3>5, DivMonotone DEF Day
      <4>3. h.level >= c.lastTime /\ Day(c, h.level) % n = j
        BY <2>2, <3>3, <3>4 DEF Well
      <4>4. D <= Day(c, h.level)
        BY <1>1, <1>3, <3>4, <4>3, DivMonotone DEF Day
      <4> QED
        BY <4>1, <4>2, <4>3, <4>4
    <3>7. f = D + l
      <4>1. f <= D + l + 1 /\ f % n = (D + l) % n
        BY <3>1, <3>2, <3>6
      <4> QED
        BY <3>6, <4>1, SameBucket
    <3>8. l \in Due(c)
      <4>1. l \in Due(c) <=> HeadIsOf(c, (D + l) % n, D + l)
        BY <1>3, DueIsDay
      <4> QED
        BY <2>2, <3>2, <3>3, <3>4, <3>6, <3>7, <4>1 DEF HeadIsOf
    <3> QED
      BY <1>4, <1>5, <3>1, <3>8
  <2>8. CASE e = D + k
    <3>1. j = i /\ r = s
      BY <1>6, <1>7, <2>2, <2>4, <2>5, <2>8
    <3>2. 1 \in 1..m - 1
      BY <1>9, <2>3, <3>1, <1>12
    <3> QED
      BY <1>9, <2>3, <2>4, <3>1, <3>2 DEF InOrder
  <2>9. CASE D + k < e
    <3>1. Day(c, x.level) < Day(c, y.level)
      BY <1>8, <1>9, <2>5, <2>9
    <3>2. x.level < y.level
      BY <1>1, <1>10, <2>4, <3>1, DivMonotone DEF Day
    <3> QED
      BY <1>10, <2>4, <3>2, Order
  <2>10. k \in Nat
    BY <1>4, <1>5
  <2> QED
    BY <2>7, <2>8, <2>9, <2>10
<1> QED
  BY <1>4, <1>5, <1>6, <1>7, <1>8, <1>9, <1>10, <1>11, <1>12

\* The direct search positions the calendar at the time of the earliest event.
LEMMA DirectSearchWell ==
  ASSUME NEW n \in Nat, n >= 2, NEW E \in SUBSET AnyEvent, NEW c, Well(c, n, E),
         EventsIn(c) # {}
  PROVE  /\ \E time \in Nat : DirectSearch(c) = StartAt(c, time)
         /\ Well(DirectSearch(c), n, E) /\ EventsIn(DirectSearch(c)) = EventsIn(c)
         /\ Due(DirectSearch(c)) # {}
<1>1. /\ c \in Calendar(n, E) /\ c.interval \in Nat \ {0} /\ BucketNum(c) = n
      /\ DOMAIN c.bucket = 0..n - 1 /\ n \in Nat \ {0}
  BY CalendarIs DEF Well, Calendar
<1>2. \A j \in 0..n - 1 : c.bucket[j] \in Seq(E)
  BY <1>1, CalendarIs
<1>3. \A y : y \in EventsIn(c) <=> \E j \in 0..n - 1 : \E m \in 1..Len(c.bucket[j]) :
                                                             y = c.bucket[j][m]
  BY <1>1, CalendarIs
<1> DEFINE full == {j \in DOMAIN c.bucket : c.bucket[j] # <<>>}
           first(j) == Head(c.bucket[j]).level
           earliest == {j \in full : \A l \in full : first(j) <= first(l)}
<1>4. full \subseteq 0..n - 1
  BY <1>1
<1>5. \A j \in full : /\ Head(c.bucket[j]) = c.bucket[j][1] /\ 1 \in 1..Len(c.bucket[j])
                      /\ c.bucket[j][1] \in E /\ first(j) \in Nat
  <2> TAKE j \in full
  <2>1. Head(c.bucket[j]) = c.bucket[j][1] /\ 1 \in 1..Len(c.bucket[j]) /\ c.bucket[j][1] \in E
    BY <1>1, <1>2, HeadIs
  <2> QED
    BY <2>1 DEF AnyEvent
<1>6. \A y \in EventsIn(c) : \E j \in full : y.level >= first(j)
  <2> TAKE y \in EventsIn(c)
  <2>1. PICK j \in 0..n - 1 : \E m \in 1..Len(c.bucket[j]) : y = c.bucket[j][m]
    BY <1>3
  <2>2. PICK s \in Seq(E) : s = c.bucket[j]
    BY <1>2
  <2>3. PICK m \in 1..Len(s) : y = s[m]
    BY <2>1, <2>2
  <2>4. m \in 1..Len(s) /\ y = s[m] /\ s # <<>> /\ InOrder(s)
    BY <2>1, <2>2, <2>3 DEF Well
  <2>5. j \in full /\ first(j) = s[1].level /\ 1 \in 1..Len(s) /\ s[1] \in AnyEvent /\ y \in AnyEvent
    BY <1>1, <1>5, <2>2, <2>4
  <2>6. m = 1 \/ 1 \in 1..m - 1
    BY <2>4
  <2>7. m # 1 => Precedes(s[1], y)
    BY <2>4, <2>6 DEF InOrder
  <2>8. y.level >= s[1].level
    <3>1. s[1].level \in Nat /\ y.level \in Nat
      BY <2>5 DEF AnyEvent
    <3>2. m # 1 => s[1].level <= y.level
      BY <2>5, <2>7, Order
    <3> QED
      BY <2>4, <3>1, <3>2
  <2> QED
    BY <2>5, <2>8
<1>7. full # {}
  BY <1>6
<1>8. PICK time \in {first(j) : j \in full} : \A t \in {first(j) : j \in full} : time <= t
  <2>1. {first(j) : j \in full} \subseteq Nat /\ {first(j) : j \in full} # {}
    BY <1>5, <1>7
  <2> HIDE DEF full, first
  <2> QED
    BY <2>1, SmallestOne
<1>9. earliest # {} /\ earliest \subseteq Nat /\ \A j \in earliest : first(j) = time /\ j \in full
  <2>1. PICK j \in full : first(j) = time
    BY <1>8
  <2>2. j \in earliest
    BY <1>8, <2>1
  <2>3. \A l \in earliest : first(l) <= first(j) /\ first(j) <= first(l) /\ l \in full
    BY <2>1, <2>2
  <2>4. \A l \in earliest : first(l) \in Nat /\ first(j) \in Nat
    BY <1>5, <2>1, <2>3
  <2>5. \A l \in earliest : first(l) = time
    BY <2>1, <2>3, <2>4
  <2>6. earliest \subseteq full /\ full \subseteq Nat
    BY <1>4
  <2> HIDE DEF full, first, earliest
  <2> QED
    BY <2>2, <2>5, <2>6
<1>10. PICK b \in earliest : b = Min(earliest)
  <2> HIDE DEF earliest
  <2>1. PICK m \in earliest : \A l \in earliest : m <= l
    BY <1>9, SmallestOne
  <2>2. Min(earliest) = m
    BY <1>9, <2>1, MinIs
  <2> QED
    BY <2>2
<1>11. /\ b \in 0..n - 1 /\ c.bucket[b] # <<>> /\ Head(c.bucket[b]).level = time
       /\ c.bucket[b][1].level = time /\ 1 \in 1..Len(c.bucket[b]) /\ time \in Nat
  BY <1>1, <1>4, <1>5, <1>9, <1>10
<1>12. Day(c, time) % n = b
  BY <1>11 DEF Well
<1>13. (time \div (c.interval * n)) * n + b = Day(c, time)
  BY <1>1, <1>11, <1>12, DayOfYear DEF Day
<1>14. DirectSearch(c) = StartAt(c, time)
  <2>1. b = Min({j \in full : \A l \in full : Head(c.bucket[j]).level <= Head(c.bucket[l]).level})
    BY <1>10
  <2>2. DirectSearch(c) = [c EXCEPT !.lastTime = time, !.lastBucket = b,
                     !.bucketTop = TopOf(c, (time \div (c.interval * n)) * n + b)]
    BY <1>1, <1>11, <2>1 DEF DirectSearch
  <2>3. StartAt(c, time) = [c EXCEPT !.lastTime = time, !.lastBucket = b,
                                     !.bucketTop = TopOf(c, Day(c, time))]
    BY <1>1, <1>12 DEF StartAt
  <2> QED
    BY <1>13, <2>2, <2>3
<1>15. \A y \in EventsIn(c) : y.level >= time
  <2> TAKE y \in EventsIn(c)
  <2>1. PICK j \in full : y.level >= first(j)
    BY <1>6
  <2>2. time <= first(j) /\ first(j) \in Nat
    BY <1>5, <1>8
  <2>3. y.level \in Nat
    BY <1>1, CalendarIs DEF AnyEvent
  <2> QED
    BY <1>11, <2>1, <2>2, <2>3
<1> HIDE DEF full, first, earliest
<1>16. PICK d : d = DirectSearch(c)
  OBVIOUS
<1>17. Well(d, n, E) /\ EventsIn(d) = EventsIn(c)
  <2>1. Well(StartAt(c, time), n, E) /\ EventsIn(StartAt(c, time)) = EventsIn(c)
    BY <1>11, <1>15, PositionedWell
  <2> QED
    BY <1>14, <1>16, <2>1
<1>18. d.bucket = c.bucket /\ d.interval = c.interval /\ d.lastTime = time
  BY <1>1, <1>11, <1>14, <1>16, PositionIs
<1>19. PICK D \in Nat : D = Day(d, d.lastTime) /\ D = Day(c, time)
  BY <1>1, <1>11, <1>18, PositionIs DEF Day
<1>20. 0 \in Due(d)
  <2>1. (D + 0) % n = b /\ D + 0 = D /\ 0 \in 0..n - 1
    BY <1>12, <1>19
  <2>2. 0 \in Due(d) <=> HeadIsOf(d, (D + 0) % n, D + 0)
    BY <1>17, <1>19, <2>1, DueIsDay
  <2> QED
    BY <1>11, <1>18, <1>19, <2>1, <2>2 DEF HeadIsOf
<1> QED
  BY <1>11, <1>14, <1>16, <1>17, <1>20

\* f is c, positioned at the bucket of its next event, x.
PositionedAt(f, c, x, n, E) ==
         /\ f = [bucket |-> c.bucket, lastBucket |-> f.lastBucket, bucketTop |-> f.bucketTop,
                 lastTime |-> f.lastTime, eventNum |-> c.eventNum, interval |-> c.interval]
         /\ f.lastBucket \in 0..n - 1 /\ f.bucketTop \in Nat
         /\ f.lastBucket = Day(c, x.level) % n /\ f.bucketTop = TopOf(c, Day(c, x.level))
         /\ c.bucket[f.lastBucket] # <<>> /\ x = Head(c.bucket[f.lastBucket])
         /\ x \in EventsIn(c) /\ x \in E /\ \A y \in EventsIn(c) : y # x => Precedes(x, y)

LEMMA FoundIs ==
  ASSUME NEW n \in Nat, n >= 2, NEW E \in SUBSET AnyEvent, NEW c, Well(c, n, E),
         EventsIn(c) # {}
  PROVE  PositionedAt(Found(c), c, EventOf(c), n, E)
<1> DEFINE f == Found(c)
           x == EventOf(c)
<1>1. c \in Calendar(n, E)
  BY DEF Well
<1>2. PICK s : s = SearchFrom(c)
  OBVIOUS
<1>3. /\ Well(s, n, E) /\ EventsIn(s) = EventsIn(c) /\ Due(s) # {}
      /\ s.bucket = c.bucket /\ s.interval = c.interval /\ s.eventNum = c.eventNum
  <2>1. CASE Due(c) # {}
    BY <1>2, <2>1 DEF SearchFrom
  <2>2. CASE Due(c) = {}
    <3>1. PICK time \in Nat : DirectSearch(c) = StartAt(c, time)
      BY DirectSearchWell
    <3>2. s = StartAt(c, time) /\ s = DirectSearch(c)
      BY <1>2, <2>2, <3>1 DEF SearchFrom
    <3>3. Well(s, n, E) /\ EventsIn(s) = EventsIn(c) /\ Due(s) # {}
      BY <3>2, DirectSearchWell
    <3>4. s.bucket = c.bucket /\ s.interval = c.interval /\ s.eventNum = c.eventNum
      <4>1. StartAt(c, time) = [bucket |-> c.bucket, lastBucket |-> Day(c, time) % n,
                                bucketTop |-> TopOf(c, Day(c, time)), lastTime |-> time,
                                eventNum |-> c.eventNum, interval |-> c.interval]
        BY <1>1, PositionIs
      <4>2. PICK l, top : s = [bucket |-> c.bucket, lastBucket |-> l, bucketTop |-> top,
                               lastTime |-> time, eventNum |-> c.eventNum,
                               interval |-> c.interval]
        BY <3>2, <4>1
      <4> QED
        BY <4>2
    <3> QED
      BY <3>3, <3>4
  <2> QED
    BY <2>1, <2>2
<1>4. PICK k : k = Min(Due(s))
  OBVIOUS
<1>5. PICK i : i = DayOf(s, k)
  OBVIOUS
<1>6. PICK h : h = Head(s.bucket[i])
  OBVIOUS
<1>7. /\ k \in 0..n - 1 /\ i \in 0..n - 1 /\ s.bucket[i] # <<>>
      /\ h \in EventsIn(s) /\ i = Day(s, h.level) % n
      /\ s.bucketTop + k * s.interval = TopOf(s, Day(s, h.level))
      /\ \A y \in EventsIn(s) : y # h => Precedes(h, y)
  BY <1>3, <1>4, <1>5, <1>6, SearchFinds
<1>8. s \in Calendar(n, E) /\ s.bucketTop \in Nat /\ s.interval \in Nat
  BY <1>3 DEF Well, Calendar
<1>9. PICK top \in Nat : top = s.bucketTop + k * s.interval
  BY <1>7, <1>8
<1>10. f = [s EXCEPT !.lastBucket = i, !.bucketTop = top]
  <2>1. Found(c) = [s EXCEPT !.lastBucket = DayOf(s, k), !.bucketTop = @ + k * c.interval]
    BY <1>2, <1>4 DEF Found
  <2> QED
    BY <1>3, <1>5, <1>8, <1>9, <2>1 DEF Calendar
<1> HIDE DEF f
<1>11. f = [bucket |-> s.bucket, lastBucket |-> i, bucketTop |-> top, lastTime |-> s.lastTime,
            eventNum |-> s.eventNum, interval |-> s.interval]
  BY <1>8, <1>10 DEF Calendar
<1>12. x = h
  <2>1. x = Head(f.bucket[f.lastBucket])
    BY DEF EventOf, f
  <2> QED
    BY <1>6, <1>11, <2>1
<1> HIDE DEF x
<1>13. \A t : Day(s, t) = Day(c, t) /\ TopOf(s, t) = TopOf(c, t)
  BY <1>3 DEF Day, TopOf
<1>14. x \in E
  BY <1>3, <1>7, <1>8, <1>12, CalendarIs
<1>15. /\ f.lastBucket = i /\ f.bucketTop = top
       /\ f = [bucket |-> c.bucket, lastBucket |-> f.lastBucket, bucketTop |-> f.bucketTop,
               lastTime |-> f.lastTime, eventNum |-> c.eventNum, interval |-> c.interval]
  BY <1>3, <1>11
<1>16. i = Day(c, x.level) % n /\ top = TopOf(c, Day(c, x.level))
  BY <1>7, <1>9, <1>12, <1>13
<1>17. PositionedAt(f, c, x, n, E)
  BY <1>3, <1>6, <1>7, <1>9, <1>12, <1>14, <1>15, <1>16 DEF PositionedAt
<1> QED
  BY <1>17 DEF f, x

\* Taking the next event leaves all others, and the position is the day of the
\* event that was taken.
LEMMA WithoutNextWell ==
  ASSUME NEW n \in Nat, n >= 2, NEW E \in SUBSET AnyEvent, NEW c, Well(c, n, E),
         EventsIn(c) # {}
  PROVE  /\ Well(WithoutNext(c), n, E) /\ WithoutNext(c).eventNum = c.eventNum - 1
         /\ EventsIn(WithoutNext(c)) = EventsIn(c) \ {EventOf(c)}
<1>1. PICK x : x = EventOf(c)
  OBVIOUS
<1>2. PICK f : f = Found(c)
  OBVIOUS
<1>3. PICK i : i = f.lastBucket
  OBVIOUS
<1>4. /\ f = [bucket |-> c.bucket, lastBucket |-> i, bucketTop |-> f.bucketTop,
              lastTime |-> f.lastTime, eventNum |-> c.eventNum, interval |-> c.interval]
      /\ i \in 0..n - 1 /\ f.bucketTop \in Nat
      /\ i = Day(c, x.level) % n /\ f.bucketTop = TopOf(c, Day(c, x.level))
      /\ c.bucket[i] # <<>> /\ x = Head(c.bucket[i])
      /\ x \in EventsIn(c) /\ x \in E /\ \A y \in EventsIn(c) : y # x => Precedes(x, y)
  <2>1. PositionedAt(f, c, x, n, E)
    BY <1>1, <1>2, FoundIs
  <2> QED
    BY <1>3, <2>1 DEF PositionedAt
<1>5. /\ c \in Calendar(n, E) /\ c.bucket \in [0..n - 1 -> Seq(E)] /\ c.eventNum \in Nat
      /\ c.interval \in Nat \ {0}
  BY DEF Well, Calendar
<1>6. x \in AnyEvent /\ x.level \in Nat
  BY <1>4 DEF AnyEvent
<1>7. PICK s \in Seq(E) : s = c.bucket[i]
  BY <1>4, <1>5
<1>8. PICK r \in Seq(E) : r = Tail(s)
  BY <1>4, <1>7, TailIs
<1>9. Len(r) = Len(s) - 1 /\ Len(s) >= 1 /\ \A k \in 1..Len(s) - 1 : r[k] = s[k + 1]
  BY <1>4, <1>7, <1>8, TailIs
<1>10. s[1] = x /\ InOrder(s) /\ \A k \in 1..Len(s) : Day(c, s[k].level) % n = i
  BY <1>4, <1>7, HeadIs DEF Well
<1>11. PICK b : b = [c.bucket EXCEPT ![i] = r]
  OBVIOUS
<1>12. b \in [0..n - 1 -> Seq(E)] /\ b[i] = r /\ \A j \in 0..n - 1 : j # i => b[j] = c.bucket[j]
  BY <1>4, <1>5, <1>8, <1>11
<1>13. PICK d : d = WithoutNext(c)
  OBVIOUS
<1>14. d = [bucket |-> b, lastBucket |-> i, bucketTop |-> f.bucketTop, lastTime |-> x.level,
            eventNum |-> c.eventNum - 1, interval |-> c.interval]
  <2>1. d = [f EXCEPT !.lastTime = x.level, !.bucket[i] = Tail(@), !.eventNum = @ - 1]
    BY <1>1, <1>2, <1>3, <1>13 DEF WithoutNext
  <2>2. PICK top, time : f = [bucket |-> c.bucket, lastBucket |-> i, bucketTop |-> top,
                  lastTime |-> time, eventNum |-> c.eventNum, interval |-> c.interval]
                /\ top = f.bucketTop
    BY <1>4
  <2>3. PICK g : g = [f EXCEPT !.lastTime = x.level]
    OBVIOUS
  <2>4. g = [bucket |-> c.bucket, lastBucket |-> i, bucketTop |-> top, lastTime |-> x.level,
             eventNum |-> c.eventNum, interval |-> c.interval]
    BY <2>2, <2>3
  <2>5. PICK h : h = [g EXCEPT !.bucket[i] = Tail(@)]
    OBVIOUS
  <2>6. h = [bucket |-> b, lastBucket |-> i, bucketTop |-> top, lastTime |-> x.level,
             eventNum |-> c.eventNum, interval |-> c.interval]
    BY <1>7, <1>8, <1>11, <2>4, <2>5
  <2>7. d = [h EXCEPT !.eventNum = @ - 1]
    BY <2>1, <2>3, <2>5
  <2> QED
    BY <2>2, <2>6, <2>7
<1>15. EventsIn(d) = EventsIn(c) \ {x}
  <2>1. \A k \in 2..Len(s) : s[k] # x /\ s[k] \in AnyEvent
    <3>1. \A k \in 2..Len(s) : 1 \in 1..k - 1 /\ k \in 1..Len(s)
      OBVIOUS
    <3>2. \A k \in 2..Len(s) : Precedes(x, s[k]) /\ s[k] \in AnyEvent
      BY <1>10, <3>1 DEF InOrder
    <3> QED
      BY <1>6, <3>2, Order
  <2>2. ToSet(s) = {s[k] : k \in 1..Len(s)} /\ ToSet(r) = {r[k] : k \in 1..Len(r)}
    BY DEF ToSet
  <2>3. ToSet(r) = ToSet(s) \ {x}
    <3>1. ASSUME NEW k \in 1..Len(r) PROVE r[k] \in ToSet(s) /\ r[k] # x
      <4>1. k \in 1..Len(s) - 1 /\ k + 1 \in 2..Len(s) /\ k + 1 \in 1..Len(s)
        BY <1>9
      <4> QED
        BY <1>9, <2>1, <2>2, <4>1
    <3>2. ASSUME NEW k \in 1..Len(s), s[k] # x PROVE s[k] \in ToSet(r)
      <4>1. k # 1
        BY <1>10, <3>2
      <4>2. k - 1 \in 1..Len(s) - 1 /\ k - 1 \in 1..Len(r) /\ (k - 1) + 1 = k
        BY <1>9, <4>1
      <4>3. r[k - 1] = s[k]
        BY <1>9, <4>2
      <4> QED
        BY <2>2, <4>2, <4>3
    <3> QED
      BY <2>2, <3>1, <3>2
  <2>4. ASSUME NEW j \in 0..n - 1, j # i PROVE x \notin ToSet(c.bucket[j])
    <3> SUFFICES ASSUME NEW k \in DOMAIN c.bucket[j], c.bucket[j][k] = x PROVE FALSE
      BY DEF ToSet
    <3>1. k \in 1..Len(c.bucket[j])
      <4>1. PICK t \in Seq(E) : t = c.bucket[j]
        BY <1>5
      <4>2. k \in DOMAIN t
        BY <4>1
      <4>3. k \in 1..Len(t)
        BY <4>2
      <4> QED
        BY <4>1, <4>3
    <3>2. Day(c, x.level) % n = j
      BY <3>1 DEF Well
    <3> QED
      BY <1>4, <2>4, <3>2
  <2>5. DOMAIN d.bucket = 0..n - 1 /\ DOMAIN c.bucket = 0..n - 1
    BY <1>5, <1>12, <1>14
  <2>6. \A j \in 0..n - 1 : ToSet(d.bucket[j]) = ToSet(c.bucket[j]) \ {x}
    BY <1>7, <1>12, <1>14, <2>3, <2>4
  <2>7. \A y : y \in EventsIn(d) <=> \E j \in 0..n - 1 : y \in ToSet(d.bucket[j])
    BY <2>5 DEF EventsIn
  <2>8. \A y : y \in EventsIn(c) <=> \E j \in 0..n - 1 : y \in ToSet(c.bucket[j])
    BY <2>5 DEF EventsIn
  <2>9. \A y : y \in EventsIn(d) <=> y \in EventsIn(c) /\ y # x
    BY <2>6, <2>7, <2>8
  <2> QED
    BY <2>9
<1>16. d.eventNum = Cardinality(EventsIn(d)) /\ IsFiniteSet(EventsIn(d)) /\ d.eventNum \in Nat
  <2>1. IsFiniteSet(EventsIn(c)) /\ c.eventNum = Cardinality(EventsIn(c))
    BY DEF Well
  <2>2. IsFiniteSet(EventsIn(d)) /\ Cardinality(EventsIn(d)) = Cardinality(EventsIn(c)) - 1
    <3>1. PICK S : S = EventsIn(c)
      OBVIOUS
    <3>2. IsFiniteSet(S) /\ x \in S /\ EventsIn(d) = S \ {x}
      BY <1>4, <1>15, <2>1, <3>1
    <3>3. IsFiniteSet(S \ {x}) /\ Cardinality(S \ {x}) = Cardinality(S) - 1
      BY <3>2, FS_RemoveElement
    <3> QED
      BY <3>1, <3>2, <3>3
  <2>3. d.eventNum = c.eventNum - 1
    BY <1>14
  <2> QED
    BY <2>1, <2>2, <2>3, FS_CardinalityType
<1>17. d \in Calendar(n, E)
  BY <1>4, <1>5, <1>6, <1>12, <1>14, <1>16 DEF Calendar
<1>18. \A t : Day(d, t) = Day(c, t) /\ TopOf(d, t) = TopOf(c, t)
  BY <1>14 DEF Day, TopOf
<1>19. Apart(EventsIn(d))
  BY <1>15 DEF Apart, Well
<1>20. \A y \in EventsIn(d) : y.level >= d.lastTime
  <2> TAKE y \in EventsIn(d)
  <2>1. y \in AnyEvent /\ y.level \in Nat /\ Precedes(x, y)
    <3>1. EventsIn(c) \subseteq E
      BY <1>5, CalendarIs
    <3> QED
      BY <1>4, <1>15, <3>1 DEF AnyEvent
  <2> QED
    BY <1>6, <1>14, <2>1, Order
<1>21. ASSUME NEW j \in 0..n - 1
       PROVE  /\ InOrder(d.bucket[j])
              /\ \A k \in 1..Len(d.bucket[j]) : Day(d, d.bucket[j][k].level) % n = j
  <2>1. CASE j = i
    <3>1. d.bucket[j] = r
      BY <1>12, <1>14, <2>1
    <3>2. \A k \in 1..Len(r) : k + 1 \in 1..Len(s) /\ r[k] = s[k + 1]
                               /\ \A m \in 1..k - 1 : m + 1 \in 1..(k + 1) - 1 /\ m \in 1..Len(r)
      BY <1>9
    <3>3. InOrder(r)
      BY <1>10, <3>2 DEF InOrder
    <3>4. \A k \in 1..Len(r) : Day(d, r[k].level) % n = i
      BY <1>10, <1>18, <3>2
    <3> QED
      BY <2>1, <3>1, <3>3, <3>4
  <2>2. CASE j # i
    <3>1. d.bucket[j] = c.bucket[j]
      BY <1>12, <1>14, <2>2
    <3> QED
      BY <1>18, <3>1 DEF Well
  <2> QED
    BY <2>1, <2>2
<1>22. d.lastBucket = Day(d, d.lastTime) % n /\ d.bucketTop = TopOf(d, Day(d, d.lastTime))
  BY <1>4, <1>14, <1>18
<1>23. Well(d, n, E)
  BY <1>16, <1>17, <1>19, <1>20, <1>21, <1>22 DEF Well
<1> QED
  BY <1>1, <1>13, <1>14, <1>15, <1>23

-----------------------------------------------------------------------------
(* The width of the days *)

AreRests(rest, c, N) == rest = [i \in 0..N |-> IF i = 0 THEN c ELSE WithoutNext(rest[i - 1])]

LEMMA RestsAreWell ==
  ASSUME NEW n \in Nat, n >= 2, NEW E \in SUBSET AnyEvent, NEW c, Well(c, n, E),
         NEW N \in 0..c.eventNum, NEW rest, AreRests(rest, c, N)
  PROVE  \A k \in 0..N : Well(rest[k], n, E) /\ rest[k].eventNum = c.eventNum - k
<1> DEFINE T == {k \in 0..N : ~(Well(rest[k], n, E) /\ rest[k].eventNum = c.eventNum - k)}
<1>1. SUFFICES ASSUME T # {} PROVE FALSE
  OBVIOUS
<1>2. c.eventNum \in Nat
  BY DEF Well, Calendar
<1>3. PICK k \in T : \A j \in T : k <= j
  <2>1. T \subseteq Nat
    OBVIOUS
  <2> HIDE DEF T
  <2> QED
    BY <1>1, <2>1, SmallestOne
<1>4. k # 0
  <2>1. rest[0] = c
    BY DEF AreRests
  <2> QED
    BY <1>2, <1>3, <2>1
<1>5. k \in 1..N /\ k - 1 \in 0..N /\ k - 1 \notin T
  <2>1. k \in 1..N /\ k - 1 \in 0..N /\ ~(k <= k - 1)
    BY <1>3, <1>4
  <2> HIDE DEF T
  <2> QED
    BY <1>3, <2>1
<1>6. PICK d : d = rest[k - 1]
  OBVIOUS
<1>7. Well(d, n, E) /\ d.eventNum = c.eventNum - (k - 1)
  BY <1>5, <1>6
<1>8. rest[k] = WithoutNext(d)
  BY <1>4, <1>5, <1>6 DEF AreRests
<1>9. EventsIn(d) # {}
  <2>1. d.eventNum = Cardinality(EventsIn(d)) /\ d.eventNum # 0
    BY <1>2, <1>5, <1>7 DEF Well
  <2> QED
    BY <2>1, FS_EmptySet
<1>10. Well(rest[k], n, E) /\ rest[k].eventNum = d.eventNum - 1
  BY <1>7, <1>8, <1>9, WithoutNextWell
<1> QED
  BY <1>2, <1>3, <1>5, <1>7, <1>10

LEMMA RestsExist ==
  ASSUME NEW n \in Nat, n >= 2, NEW E \in SUBSET AnyEvent, NEW c, Well(c, n, E),
         NEW N \in 0..c.eventNum
  PROVE  \E rest : AreRests(rest, c, N)
<1> DEFINE S    == {d \in Calendar(n, E) : Well(d, n, E)}
           next == [d \in S |-> IF WithoutNext(d) \in S THEN WithoutNext(d) ELSE d]
           step == [k \in 1..N |-> next]
<1>1. c \in S /\ N \in Nat /\ c.eventNum \in Nat
  BY DEF Well, Calendar
<1>2. next \in [S -> S]
  <2> HIDE DEF S
  <2> QED
    OBVIOUS
<1>3. PICK f : Recursion(f, S, c, step, N)
  <2>1. step \in [1..N -> [S -> S]]
    <3> HIDE DEF S, next
    <3> QED
      BY <1>2
  <2> HIDE DEF S, step
  <2> QED
    BY <1>1, <2>1, RecursionExists
<1>4. f \in [0..N -> S] /\ f[0] = c /\ \A k \in 1..N : f[k] = next[f[k - 1]]
  <2> HIDE DEF S, next
  <2> QED
    BY <1>3 DEF Recursion
<1> DEFINE Follows(k) == f[k].eventNum = c.eventNum - k /\ (k # 0 => f[k] = WithoutNext(f[k - 1]))
           T == {k \in 0..N : ~Follows(k)}
<1>5. T = {}
  <2>1. SUFFICES ASSUME T # {} PROVE FALSE
    OBVIOUS
  <2>2. PICK k \in T : \A j \in T : k <= j
    <3>1. T \subseteq Nat
      BY <1>1
    <3> HIDE DEF T
    <3> QED
      BY <2>1, <3>1, SmallestOne
  <2>3. k # 0
    BY <1>1, <1>4, <2>2
  <2>4. k \in 1..N /\ k - 1 \in 0..N /\ k - 1 \notin T
    <3>1. k \in 1..N /\ k - 1 \in 0..N /\ ~(k <= k - 1)
      BY <1>1, <2>2, <2>3
    <3> HIDE DEF T
    <3> QED
      BY <2>2, <3>1
  <2>5. PICK d \in S : d = f[k - 1]
    BY <1>4, <2>4
  <2>6. Well(d, n, E) /\ d.eventNum = c.eventNum - (k - 1)
    <3>1. Well(d, n, E)
      OBVIOUS
    <3>2. f[k - 1].eventNum = c.eventNum - (k - 1)
      <4>1. Follows(k - 1)
        <5> HIDE DEF Follows
        <5> QED
          BY <2>4
      <4> HIDE DEF S, next
      <4> QED
        BY <4>1
    <3> QED
      BY <2>5, <3>1, <3>2
  <2>7. EventsIn(d) # {}
    <3>1. d.eventNum = Cardinality(EventsIn(d)) /\ d.eventNum # 0
      BY <1>1, <2>4, <2>6 DEF Well
    <3> QED
      BY <3>1, FS_EmptySet
  <2>8. WithoutNext(d) \in S /\ WithoutNext(d).eventNum = d.eventNum - 1
    <3>1. Well(WithoutNext(d), n, E) /\ WithoutNext(d).eventNum = d.eventNum - 1
      BY <2>6, <2>7, WithoutNextWell
    <3> QED
      BY <3>1 DEF Well
  <2>9. f[k] = WithoutNext(d)
    <3>1. f[k] = next[d]
      BY <1>4, <2>4, <2>5
    <3> HIDE DEF S
    <3> QED
      BY <2>8, <3>1
  <2> QED
    BY <1>1, <2>2, <2>4, <2>5, <2>6, <2>8, <2>9
<1>6. AreRests(f, c, N)
  <2>1. \A k \in 0..N : f[k] = IF k = 0 THEN c ELSE WithoutNext(f[k - 1])
    <3> HIDE DEF S, next
    <3>1. \A k \in 0..N : k # 0 => f[k] = WithoutNext(f[k - 1])
      <4>1. \A k \in 0..N : Follows(k)
        <5> HIDE DEF Follows
        <5> QED
          BY <1>5
      <4> QED
        BY <4>1
    <3> QED
      BY <1>4, <3>1
  <2> HIDE DEF S
  <2> QED
    BY <1>4, <2>1 DEF AreRests
<1> QED
  BY <1>6

\* The times of the next events, each taken after the ones before it.
Sample(c) ==
    LET n == SampleNum(c)
        rest[i \in 0..n] == IF i = 0 THEN c ELSE WithoutNext(rest[i - 1])
    IN  [i \in 1..n |-> EventOf(rest[i - 1]).level]

LEMMA SampleIs ==
  ASSUME NEW n \in Nat, n >= 2, NEW E \in SUBSET AnyEvent, NEW c, Well(c, n, E),
         c.eventNum >= 2
  PROVE  SampleNum(c) \in 2..c.eventNum /\ Sample(c) \in [1..SampleNum(c) -> Nat]
<1>1. c.eventNum \in Nat
  BY DEF Well, Calendar
<1>2. SampleNum(c) \in 2..c.eventNum
  <2>1. CASE c.eventNum <= 5
    BY <1>1, <2>1 DEF SampleNum
  <2>2. CASE c.eventNum > 5
    <3>1. PICK m : m = 5 + (c.eventNum \div 10)
      OBVIOUS
    <3>2. m \in 5..c.eventNum
      BY <1>1, <2>2, <3>1
    <3>3. Min({25, m}) \in {25, m} /\ Min({25, m}) <= 25 /\ Min({25, m}) <= m
      <4>1. {25, m} \subseteq Nat /\ {25, m} # {}
        BY <3>2
      <4>2. PICK k \in {25, m} : \A j \in {25, m} : k <= j
        BY <4>1, SmallestOne
      <4>3. Min({25, m}) = k
        BY <4>1, <4>2, MinIs
      <4> QED
        BY <4>2, <4>3
    <3>4. SampleNum(c) = Min({25, m})
      BY <1>1, <2>2, <3>1 DEF SampleNum
    <3> QED
      BY <1>1, <3>2, <3>3, <3>4
  <2> QED
    BY <1>1, <2>1, <2>2
<1>3. PICK N \in 0..c.eventNum : N = SampleNum(c) /\ N \in Nat
  BY <1>1, <1>2
<1>4. PICK rest : rest = CHOOSE f : f = [i \in 0..N |-> IF i = 0 THEN c ELSE WithoutNext(f[i - 1])]
  OBVIOUS
<1>5. AreRests(rest, c, N)
  <2>1. \E f : AreRests(f, c, N)
    BY RestsExist
  <2> QED
    BY <1>4, <2>1 DEF AreRests
<1>6. Sample(c) = [i \in 1..N |-> EventOf(rest[i - 1]).level]
  BY <1>3, <1>4 DEF Sample
<1>7. ASSUME NEW i \in 1..N PROVE EventOf(rest[i - 1]).level \in Nat
  <2>1. i - 1 \in 0..N /\ c.eventNum - (i - 1) # 0
    BY <1>1, <1>3
  <2>2. PICK d : d = rest[i - 1]
    OBVIOUS
  <2>3. Well(d, n, E) /\ d.eventNum # 0
    <3>1. \A k \in 0..N : Well(rest[k], n, E) /\ rest[k].eventNum = c.eventNum - k
      BY <1>3, <1>5, RestsAreWell
    <3>2. Well(rest[i - 1], n, E) /\ rest[i - 1].eventNum = c.eventNum - (i - 1)
      BY <2>1, <3>1
    <3> QED
      BY <2>1, <2>2, <3>2
  <2>4. EventsIn(d) # {}
    BY <2>3, FS_EmptySet DEF Well
  <2>5. EventOf(d) \in E
    BY <2>3, <2>4, FoundIs DEF PositionedAt
  <2> QED
    BY <2>2, <2>5 DEF AnyEvent
<1> QED
  BY <1>2, <1>3, <1>6, <1>7

LEMMA TotalIs ==
  ASSUME NEW m \in Nat, NEW number \in [1..m -> Int], NEW valid
  PROVE  /\ TotalOf(number, m, valid) \in Int
         /\ (\A i \in 1..m : i \notin valid) => TotalOf(number, m, valid) = 0
<1> DEFINE part == [k \in 1..m |-> IF k \in valid THEN number[k] ELSE 0]
           step == [k \in 1..m |-> [s \in Int |-> s + part[k]]]
           AreSums(h) == h = [i \in 0..m |-> IF i = 0 THEN 0
                              ELSE h[i - 1] + IF i \in valid THEN number[i] ELSE 0]
<1>1. part \in [1..m -> Int]
  OBVIOUS
<1>2. \E f : Recursion(f, Int, 0, step, m)
  <2>1. step \in [1..m -> [Int -> Int]]
    <3> HIDE DEF part
    <3> QED
      BY <1>1
  <2>2. 0 \in Int
    OBVIOUS
  <2>3. PICK A : A = Int
    OBVIOUS
  <2> HIDE DEF step
  <2>4. \E f : Recursion(f, A, 0, step, m)
    BY <2>1, <2>2, <2>3, RecursionExists
  <2> QED
    BY <2>3, <2>4
<1>3. PICK f : f \in [0..m -> Int] /\ f[0] = 0 /\ \A k \in 1..m : f[k] = f[k - 1] + part[k]
  <2>1. PICK f : Recursion(f, Int, 0, step, m)
    BY <1>2
  <2>2. \A k \in 1..m : f[k - 1] \in Int
    BY <2>1 DEF Recursion
  <2> HIDE DEF part
  <2> QED
    BY <2>1, <2>2 DEF Recursion
<1>4. AreSums(f)
  <2>1. \A k \in 0..m : k # 0 => f[k] = f[k - 1] + IF k \in valid THEN number[k] ELSE 0
    BY <1>3
  <2> QED
    BY <1>3, <2>1
<1>5. PICK sum : sum = CHOOSE h : AreSums(h)
  OBVIOUS
<1>6. AreSums(sum)
  <2> HIDE DEF AreSums
  <2> QED
    BY <1>4, <1>5
<1>7. TotalOf(number, m, valid) = sum[m]
  BY <1>5 DEF TotalOf
<1> DEFINE Good(k) == sum[k] \in Int /\ ((\A i \in 1..m : i \notin valid) => sum[k] = 0)
           T == {k \in 0..m : ~Good(k)}
<1>8. T = {}
  <2>1. SUFFICES ASSUME T # {} PROVE FALSE
    OBVIOUS
  <2>2. PICK k \in T : \A j \in T : k <= j
    <3>1. T \subseteq Nat
      OBVIOUS
    <3> HIDE DEF T
    <3> QED
      BY <2>1, <3>1, SmallestOne
  <2>3. k # 0
    BY <1>6, <2>2
  <2>4. k \in 1..m /\ k - 1 \in 0..m /\ k - 1 \notin T /\ k \in 0..m
    <3>1. k \in 1..m /\ k - 1 \in 0..m /\ ~(k <= k - 1) /\ k \in 0..m
      BY <2>2, <2>3
    <3> HIDE DEF T
    <3> QED
      BY <2>2, <3>1
  <2>5. Good(k - 1)
    <3> HIDE DEF Good
    <3> QED
      BY <2>4
  <2>6. sum[k] = sum[k - 1] + IF k \in valid THEN number[k] ELSE 0
    BY <1>6, <2>3, <2>4
  <2>7. number[k] \in Int
    BY <2>4
  <2>8. Good(k)
    BY <2>4, <2>5, <2>6, <2>7
  <2> HIDE DEF Good
  <2> QED
    BY <2>2, <2>8
<1>9. Good(m)
  <2> HIDE DEF Good
  <2> QED
    BY <1>8
<1> QED
  BY <1>7, <1>9

LEMMA NewIntervalIs ==
  ASSUME NEW n \in Nat, n >= 2, NEW E \in SUBSET AnyEvent, NEW c, Well(c, n, E)
  PROVE  NewInterval(c) \in Nat \ {0}
<1>1. c.eventNum \in Nat /\ c.interval \in Nat \ {0}
  BY DEF Well, Calendar
<1>2. CASE c.eventNum < 2
  BY <1>2 DEF NewInterval, Unit
<1>3. CASE ~(c.eventNum < 2)
  <2> c.eventNum >= 2
    BY <1>1, <1>3
  <2>1. SampleNum(c) \in 2..c.eventNum /\ Sample(c) \in [1..SampleNum(c) -> Nat]
    BY SampleIs
  <2>2. PICK N \in 2..c.eventNum : N = SampleNum(c) /\ N \in Nat
    BY <1>1, <2>1
  <2>3. PICK sample \in [1..N -> Nat] : sample = Sample(c)
    BY <2>2, <2>1
  <2>4. PICK separation : separation = [i \in 1..N - 1 |-> sample[i + 1] - sample[i]]
    OBVIOUS
  <2>5. separation \in [1..N - 1 -> Int] /\ N - 1 \in Nat
    <3>1. \A i \in 1..N - 1 : i \in 1..N /\ i + 1 \in 1..N
      BY <2>2
    <3>2. \A i \in 1..N - 1 : sample[i + 1] \in Nat /\ sample[i] \in Nat
      BY <3>1
    <3> QED
      BY <2>2, <2>4, <3>2
  <2>6. PICK valid : valid = {i \in 1..N - 1 : separation[i] * (N - 1) < 2 * (sample[N] - sample[1])}
    OBVIOUS
  <2>7. PICK total : total = TotalOf(separation, N - 1, valid)
    OBVIOUS
  <2>8. total \in Int /\ ((\A i \in 1..N - 1 : i \notin valid) => total = 0)
    BY <2>5, <2>7, TotalIs
  <2>9. NewInterval(c) = IF total = 0 THEN c.interval
                         ELSE Max({MiniInterval, (3 * total) \div Cardinality(valid)})
    <3>1. NewInterval(c) = IntervalOf(c, SampleNum(c), Sample(c))
      BY <1>3 DEF NewInterval, Sample
    <3>2. NewInterval(c) = IntervalOf(c, N, sample)
      BY <2>2, <2>3, <3>1
    <3> QED
      BY <2>4, <2>6, <2>7, <3>2 DEF IntervalOf
  <2>10. ASSUME total # 0 PROVE Max({MiniInterval, (3 * total) \div Cardinality(valid)}) \in Nat \ {0}
    <3>1. valid # {} /\ valid \subseteq 1..N - 1
      BY <2>6, <2>8, <2>10
    <3>2. IsFiniteSet(valid)
      <4>1. IsFiniteSet(1..N - 1)
        BY FS_Interval
      <4> QED
        BY <3>1, <4>1, FS_Subset
    <3>3. PICK v \in Nat : v = Cardinality(valid) /\ v # 0
      <4>1. Cardinality(valid) \in Nat /\ Cardinality(valid) # 0
        BY <3>1, <3>2, FS_CardinalityType, FS_EmptySet
      <4> QED
        BY <4>1
    <3>4. PICK w \in Int : w = (3 * total) \div Cardinality(valid)
      <4>1. 3 * total \in Int
        BY <2>8
      <4>2. (3 * total) \div v \in Int
        BY <3>3, <4>1
      <4> QED
        BY <3>3, <4>2
    <3>5. \E x \in {MiniInterval, w} : \A y \in {MiniInterval, w} : x >= y
      <4>1. MiniInterval \in Int
        BY DEF MiniInterval
      <4> QED
        BY <4>1
    <3>6. PICK x : x = Max({MiniInterval, w})
      OBVIOUS
    <3>7. x \in {MiniInterval, w} /\ \A y \in {MiniInterval, w} : x >= y
      BY <3>5, <3>6 DEF Max
    <3>8. x \in Int /\ x >= 96
      BY <3>7 DEF MiniInterval
    <3> QED
      BY <3>4, <3>6, <3>8
  <2> QED
    BY <1>1, <2>9, <2>10
<1> QED
  BY <1>2, <1>3

-----------------------------------------------------------------------------
(* Resizing *)

\* s holds the events of the last k buckets, each once.
PickedUp(s, c, n, E, k) ==
    /\ s \in Seq(E)
    /\ \A i \in 1..Len(s) : \E j \in n - k..n - 1 : \E m \in 1..Len(c.bucket[j]) : s[i] = c.bucket[j][m]
    /\ \A j \in n - k..n - 1 : \A m \in 1..Len(c.bucket[j]) : \E i \in 1..Len(s) : s[i] = c.bucket[j][m]
    /\ \A i, m \in 1..Len(s) : i < m => s[i] # s[m]

LEMMA PickedUpNext ==
  ASSUME NEW n \in Nat, n >= 2, NEW E \in SUBSET AnyEvent, NEW c, Well(c, n, E),
         NEW k \in 1..n, NEW s, PickedUp(s, c, n, E, k - 1)
  PROVE  PickedUp(s \o c.bucket[n - k], c, n, E, k)
<1>1. c.bucket \in [0..n - 1 -> Seq(E)]
  BY DEF Well, Calendar
<1>2. n - k \in 0..n - 1 /\ (n - k)..n - 1 \subseteq 0..n - 1 /\ (n - k) + 1 = n - (k - 1)
      /\ (n - k)..n - 1 = ((n - (k - 1))..n - 1) \cup {n - k} /\ n - k \notin (n - (k - 1))..n - 1
  OBVIOUS
<1>3. PICK b \in Seq(E) : b = c.bucket[n - k]
  BY <1>1, <1>2
<1>4. s \in Seq(E)
  BY DEF PickedUp
<1>5. PICK r : r = s \o b
  OBVIOUS
<1>6. /\ r \in Seq(E) /\ Len(r) = Len(s) + Len(b) /\ Len(s) \in Nat /\ Len(b) \in Nat
      /\ \A i \in 1..Len(s) : r[i] = s[i]
      /\ \A i \in 1..Len(b) : r[Len(s) + i] = b[i]
      /\ \A i \in (Len(s) + 1)..(Len(s) + Len(b)) : r[i] = b[i - Len(s)]
  BY <1>4, <1>5, Concatenation
<1>7. \A i \in 1..Len(r) : \/ i \in 1..Len(s)
                           \/ i \in (Len(s) + 1)..(Len(s) + Len(b)) /\ i - Len(s) \in 1..Len(b)
  BY <1>6
<1>8. ASSUME NEW i \in 1..Len(r)
      PROVE  \E j \in n - k..n - 1 : \E m \in 1..Len(c.bucket[j]) : r[i] = c.bucket[j][m]
  <2>1. CASE i \in 1..Len(s)
    <3>1. PICK j \in (n - (k - 1))..n - 1 : \E m \in 1..Len(c.bucket[j]) : s[i] = c.bucket[j][m]
      BY <2>1 DEF PickedUp
    <3>2. j \in n - k..n - 1
      OBVIOUS
    <3> QED
      BY <1>6, <2>1, <3>1, <3>2
  <2>2. CASE i \in (Len(s) + 1)..(Len(s) + Len(b)) /\ i - Len(s) \in 1..Len(b)
    BY <1>2, <1>3, <1>6, <2>2
  <2> QED
    BY <1>7, <2>1, <2>2
<1>9. ASSUME NEW j \in n - k..n - 1, NEW m \in 1..Len(c.bucket[j])
      PROVE  \E i \in 1..Len(r) : r[i] = c.bucket[j][m]
  <2>1. CASE j \in (n - (k - 1))..n - 1
    <3>1. PICK i \in 1..Len(s) : s[i] = c.bucket[j][m]
      BY <2>1 DEF PickedUp
    <3>2. i \in 1..Len(r)
      BY <1>6
    <3> QED
      BY <1>6, <3>1, <3>2
  <2>2. CASE j = n - k
    <3>1. m \in 1..Len(b) /\ Len(s) + m \in 1..Len(r)
      BY <1>3, <1>6, <2>2
    <3> QED
      BY <1>3, <1>6, <2>2, <3>1
  <2> QED
    BY <1>2, <2>1, <2>2
<1>10. ASSUME NEW i \in 1..Len(r), NEW m \in 1..Len(r), i < m PROVE r[i] # r[m]
  <2>1. CASE i \in 1..Len(s) /\ m \in 1..Len(s)
    BY <1>6, <1>10, <2>1 DEF PickedUp
  <2>2. CASE i \in 1..Len(s) /\ m \in (Len(s) + 1)..(Len(s) + Len(b)) /\ m - Len(s) \in 1..Len(b)
    <3>1. PICK j \in (n - (k - 1))..n - 1, t \in Nat : t \in 1..Len(c.bucket[j]) /\ s[i] = c.bucket[j][t]
      <4>1. \A j \in (n - (k - 1))..n - 1 : Len(c.bucket[j]) \in Nat
        BY <1>1, <1>2
      <4>2. PICK j \in (n - (k - 1))..n - 1 : \E t \in 1..Len(c.bucket[j]) : s[i] = c.bucket[j][t]
        BY <2>2 DEF PickedUp
      <4> QED
        BY <4>1, <4>2
    <3>2. j \in 0..n - 1 /\ j # n - k
      BY <1>2
    <3>3. Day(c, r[i].level) % n = j
      BY <1>6, <2>2, <3>1, <3>2 DEF Well
    <3>4. Day(c, r[m].level) % n = n - k
      <4>1. PICK y \in 1..Len(b) : y = m - Len(s)
        BY <2>2
      <4>2. r[m] = b[y]
        BY <1>6, <2>2, <4>1
      <4>3. Day(c, b[y].level) % n = n - k
        BY <1>2, <1>3 DEF Well
      <4> QED
        BY <4>2, <4>3
    <3> QED
      BY <3>2, <3>3, <3>4
  <2>3. CASE i - Len(s) \in 1..Len(b) /\ m \in (Len(s) + 1)..(Len(s) + Len(b)) /\ m - Len(s) \in 1..Len(b)
    <3>1. PICK x \in 1..Len(b), y \in 1..Len(b) : x = i - Len(s) /\ y = m - Len(s)
      BY <2>3
    <3>2. x \in 1..y - 1 /\ i = Len(s) + x /\ m = Len(s) + y
      BY <1>6, <1>10, <3>1
    <3>3. r[i] = b[x] /\ r[m] = b[y] /\ b[x] \in AnyEvent /\ b[y] \in AnyEvent
      BY <1>6, <3>2
    <3>4. InOrder(b)
      BY <1>2, <1>3 DEF Well
    <3>5. Precedes(b[x], b[y])
      BY <3>2, <3>4 DEF InOrder
    <3> QED
      BY <3>3, <3>5, Order
  <2> QED
    BY <1>6, <1>7, <1>10, <2>1, <2>2, <2>3
<1>11. PickedUp(r, c, n, E, k)
  BY <1>6, <1>8, <1>9, <1>10 DEF PickedUp
<1> QED
  BY <1>3, <1>5, <1>11

LEMMA ResizeEventsAre ==
  ASSUME NEW n \in Nat, n >= 2, NEW E \in SUBSET AnyEvent, NEW c, Well(c, n, E)
  PROVE  PickedUp(ResizeEvents(c), c, n, E, n)
<1> DEFINE step == [k \in 1..n |-> [s \in Seq(E) |-> s \o c.bucket[n - k]]]
           AreParts(h) == h = [i \in 0..n |-> IF i = 0 THEN <<>> ELSE h[i - 1] \o c.bucket[n - i]]
<1>1. c.bucket \in [0..n - 1 -> Seq(E)] /\ BucketNum(c) = n
  BY CalendarIs DEF Well, Calendar
<1>2. step \in [1..n -> [Seq(E) -> Seq(E)]]
  <2>1. \A k \in 1..n : n - k \in 0..n - 1
    OBVIOUS
  <2>2. \A k \in 1..n : \A s \in Seq(E) : s \o c.bucket[n - k] \in Seq(E)
    BY <1>1, <2>1, Concatenation
  <2> QED
    BY <2>2
<1>3. PICK S : S = Seq(E)
  OBVIOUS
<1>4. \E f : Recursion(f, S, <<>>, step, n)
  <2>1. <<>> \in S
    BY <1>3
  <2>2. step \in [1..n -> [S -> S]]
    BY <1>2, <1>3
  <2> HIDE DEF step
  <2> QED
    BY <2>1, <2>2, RecursionExists
<1>5. PICK f : f \in [0..n -> S] /\ f[0] = <<>> /\ \A k \in 1..n : f[k] = f[k - 1] \o c.bucket[n - k]
  <2>1. PICK f : Recursion(f, S, <<>>, step, n)
    BY <1>4
  <2>2. f \in [0..n -> S] /\ f[0] = <<>> /\ \A k \in 1..n : f[k] = step[k][f[k - 1]]
    BY <2>1 DEF Recursion
  <2>3. \A k \in 1..n : f[k - 1] \in Seq(E)
    BY <1>3, <2>2
  <2>4. \A k \in 1..n : step[k][f[k - 1]] = f[k - 1] \o c.bucket[n - k]
    BY <2>3
  <2> HIDE DEF step
  <2> QED
    BY <2>2, <2>4
<1>6. AreParts(f)
  BY <1>5
<1>7. PICK upTo : upTo = CHOOSE h : AreParts(h)
  OBVIOUS
<1>8. AreParts(upTo)
  <2> HIDE DEF AreParts
  <2> QED
    BY <1>6, <1>7
<1>9. ResizeEvents(c) = upTo[n]
  BY <1>1, <1>7 DEF ResizeEvents
<1> DEFINE Good(k) == PickedUp(upTo[k], c, n, E, k)
           T == {k \in 0..n : ~Good(k)}
<1>10. T = {}
  <2>1. SUFFICES ASSUME T # {} PROVE FALSE
    OBVIOUS
  <2>2. PICK k \in T : \A j \in T : k <= j
    <3>1. T \subseteq Nat
      OBVIOUS
    <3> HIDE DEF T
    <3> QED
      BY <2>1, <3>1, SmallestOne
  <2>3. k # 0
    <3>1. upTo[0] = <<>>
      BY <1>8
    <3>2. <<>> \in Seq(E) /\ 1..Len(<<>>) = {} /\ n - 0..n - 1 = {}
      OBVIOUS
    <3>3. PickedUp(<<>>, c, n, E, 0)
      BY <3>2 DEF PickedUp
    <3> QED
      BY <2>2, <3>1, <3>3
  <2>4. k \in 1..n /\ k - 1 \in 0..n /\ k - 1 \notin T /\ k \in 0..n
    <3>1. k \in 1..n /\ k - 1 \in 0..n /\ ~(k <= k - 1) /\ k \in 0..n
      BY <2>2, <2>3
    <3> HIDE DEF T
    <3> QED
      BY <2>2, <3>1
  <2>5. Good(k - 1)
    <3> HIDE DEF Good
    <3> QED
      BY <2>4
  <2>6. upTo[k] = upTo[k - 1] \o c.bucket[n - k]
    BY <1>8, <2>3, <2>4
  <2>7. Good(k)
    BY <2>4, <2>5, <2>6, PickedUpNext
  <2> HIDE DEF Good
  <2> QED
    BY <2>2, <2>7
<1>11. Good(n)
  <2> HIDE DEF Good
  <2> QED
    BY <1>10
<1> QED
  BY <1>9, <1>11

AreInserted(new, c, events) ==
    new = [i \in 0..Len(events) |->
              IF i = 0 THEN c ELSE InsertEventInBucket(new[i - 1], events[i])]

\* The calendar after the first k of the events.
Holds(d, c, events, n, E, k) ==
    Well(d, n, E) /\ EventsIn(d) = EventsIn(c) \cup {events[i] : i \in 1..k}

\* Events that can be put into a calendar.
Insertable(events, c, E) ==
    /\ events \in Seq(E)
    /\ \A i \in 1..Len(events) : \A y \in EventsIn(c) : y.num # events[i].num
    /\ \A i, m \in 1..Len(events) : i < m => events[i].num # events[m].num

LEMMA HoldsNext ==
  ASSUME NEW n \in Nat, n >= 2, NEW E \in SUBSET AnyEvent, NEW c, NEW events,
         Insertable(events, c, E), NEW k \in 1..Len(events), NEW d, Holds(d, c, events, n, E, k - 1)
  PROVE  Holds(InsertEventInBucket(d, events[k]), c, events, n, E, k)
<1>1. PICK x \in E : x = events[k]
  BY DEF Insertable
<1>2. Len(events) \in Nat
  BY DEF Insertable
<1>3. ASSUME NEW y \in EventsIn(d) PROVE y.num # x.num
  <2>1. CASE y \in EventsIn(c)
    BY <1>1, <2>1 DEF Insertable
  <2>2. CASE \E i \in 1..k - 1 : y = events[i]
    <3>1. PICK i \in 1..k - 1 : y = events[i]
      BY <2>2
    <3>2. i \in 1..Len(events) /\ i < k
      BY <1>2
    <3> QED
      BY <1>1, <3>1, <3>2 DEF Insertable
  <2> QED
    BY <2>1, <2>2 DEF Holds
<1>4. PICK e : e = InsertEventInBucket(d, x)
  OBVIOUS
<1>5. Well(e, n, E) /\ EventsIn(e) = EventsIn(d) \cup {x}
  <2>1. Well(d, n, E)
    BY DEF Holds
  <2>2. \A y \in EventsIn(d) : y.num # x.num
    BY <1>3
  <2>3. /\ Well(InsertEventInBucket(d, x), n, E)
        /\ EventsIn(InsertEventInBucket(d, x)) = EventsIn(d) \cup {x}
    BY <2>1, <2>2, InsertWell
  <2> QED
    BY <1>4, <2>3
<1>6. 1..k = (1..k - 1) \cup {k}
  BY <1>2
<1>7. EventsIn(e) = EventsIn(c) \cup {events[i] : i \in 1..k}
  BY <1>1, <1>5, <1>6 DEF Holds
<1> QED
  BY <1>1, <1>4, <1>5, <1>7 DEF Holds

LEMMA InsertedHold ==
  ASSUME NEW n \in Nat, n >= 2, NEW E \in SUBSET AnyEvent, NEW c, Well(c, n, E), NEW events,
         Insertable(events, c, E), NEW new, AreInserted(new, c, events)
  PROVE  \A k \in 0..Len(events) : Holds(new[k], c, events, n, E, k)
<1> DEFINE T == {k \in 0..Len(events) : ~Holds(new[k], c, events, n, E, k)}
<1>1. SUFFICES ASSUME T # {} PROVE FALSE
  OBVIOUS
<1>2. Len(events) \in Nat
  BY DEF Insertable
<1>3. PICK k \in T : \A j \in T : k <= j
  <2>1. T \subseteq Nat
    BY <1>2
  <2> HIDE DEF T
  <2> QED
    BY <1>1, <2>1, SmallestOne
<1>4. k # 0
  <2>1. new[0] = c
    BY <1>2 DEF AreInserted
  <2>2. {events[i] : i \in 1..0} = {}
    OBVIOUS
  <2> QED
    BY <1>3, <2>1, <2>2 DEF Holds
<1>5. k \in 1..Len(events) /\ k - 1 \in 0..Len(events) /\ k - 1 \notin T
  <2>1. k \in 1..Len(events) /\ k - 1 \in 0..Len(events) /\ ~(k <= k - 1)
    BY <1>2, <1>3, <1>4
  <2> HIDE DEF T
  <2> QED
    BY <1>3, <2>1
<1>6. Holds(new[k - 1], c, events, n, E, k - 1)
  BY <1>5
<1>7. new[k] = InsertEventInBucket(new[k - 1], events[k])
  BY <1>2, <1>4, <1>5 DEF AreInserted
<1>8. Holds(new[k], c, events, n, E, k)
  BY <1>5, <1>6, <1>7, HoldsNext
<1> QED
  BY <1>3, <1>8

LEMMA InsertedExist ==
  ASSUME NEW n \in Nat, n >= 2, NEW E \in SUBSET AnyEvent, NEW c, Well(c, n, E), NEW events,
         Insertable(events, c, E)
  PROVE  \E new : AreInserted(new, c, events)
<1> DEFINE S    == {d \in Calendar(n, E) : Well(d, n, E)}
           next(k) == [d \in S |-> IF InsertEventInBucket(d, events[k]) \in S
                                   THEN InsertEventInBucket(d, events[k]) ELSE d]
           step == [k \in 1..Len(events) |-> next(k)]
<1>1. c \in S /\ Len(events) \in Nat
  BY DEF Well, Insertable
<1>2. \A k : next(k) \in [S -> S]
  <2> HIDE DEF S
  <2> QED
    OBVIOUS
<1>3. PICK f : Recursion(f, S, c, step, Len(events))
  <2>1. step \in [1..Len(events) -> [S -> S]]
    <3> HIDE DEF S, next
    <3> QED
      BY <1>2
  <2> HIDE DEF S, step
  <2> QED
    BY <1>1, <2>1, RecursionExists
<1>4. f \in [0..Len(events) -> S] /\ f[0] = c /\ \A k \in 1..Len(events) : f[k] = next(k)[f[k - 1]]
  <2> HIDE DEF S, next
  <2> QED
    BY <1>3 DEF Recursion
<1> DEFINE Follows(k) == /\ Holds(f[k], c, events, n, E, k)
                         /\ k # 0 => f[k] = InsertEventInBucket(f[k - 1], events[k])
           T == {k \in 0..Len(events) : ~Follows(k)}
<1>5. T = {}
  <2>1. SUFFICES ASSUME T # {} PROVE FALSE
    OBVIOUS
  <2>2. PICK k \in T : \A j \in T : k <= j
    <3>1. T \subseteq Nat
      BY <1>1
    <3> HIDE DEF T
    <3> QED
      BY <2>1, <3>1, SmallestOne
  <2>3. k # 0
    <3>1. {events[i] : i \in 1..0} = {}
      OBVIOUS
    <3>2. Follows(0)
      <4> HIDE DEF next
      <4> QED
        BY <1>4, <3>1 DEF Holds
    <3> HIDE DEF Follows
    <3> QED
      BY <2>2, <3>2
  <2>4. k \in 1..Len(events) /\ k - 1 \in 0..Len(events) /\ k - 1 \notin T
    <3>1. k \in 1..Len(events) /\ k - 1 \in 0..Len(events) /\ ~(k <= k - 1)
      BY <1>1, <2>2, <2>3
    <3> HIDE DEF T
    <3> QED
      BY <2>2, <3>1
  <2>5. PICK d \in S : d = f[k - 1]
    BY <1>4, <2>4
  <2>6. Holds(d, c, events, n, E, k - 1)
    <3>1. Follows(k - 1)
      <4> HIDE DEF Follows
      <4> QED
        BY <2>4
    <3> HIDE DEF S, next
    <3> QED
      BY <2>5, <3>1
  <2>7. Holds(InsertEventInBucket(d, events[k]), c, events, n, E, k)
    BY <2>4, <2>6, HoldsNext
  <2>8. InsertEventInBucket(d, events[k]) \in S
    BY <2>7 DEF Holds, Well
  <2>9. f[k] = InsertEventInBucket(d, events[k])
    <3>1. f[k] = next(k)[d]
      <4> HIDE DEF S, next
      <4> QED
        BY <1>4, <2>4, <2>5
    <3> HIDE DEF S
    <3> QED
      BY <2>8, <3>1
  <2>10. Follows(k)
    <3> HIDE DEF S, next
    <3> QED
      BY <2>5, <2>7, <2>9
  <2> HIDE DEF Follows
  <2> QED
    BY <2>2, <2>10
<1>6. AreInserted(f, c, events)
  <2>1. \A k \in 0..Len(events) :
           f[k] = IF k = 0 THEN c ELSE InsertEventInBucket(f[k - 1], events[k])
    <3> HIDE DEF S, next
    <3>1. \A k \in 0..Len(events) : k # 0 => f[k] = InsertEventInBucket(f[k - 1], events[k])
      <4>1. \A k \in 0..Len(events) : Follows(k)
        <5> HIDE DEF Follows
        <5> QED
          BY <1>5
      <4> QED
        BY <4>1
    <3> QED
      BY <1>4, <3>1
  <2> HIDE DEF S
  <2> QED
    BY <1>4, <2>1 DEF AreInserted
<1> QED
  BY <1>6

LEMMA InsertAllWell ==
  ASSUME NEW n \in Nat, n >= 2, NEW E \in SUBSET AnyEvent, NEW c, Well(c, n, E), NEW events,
         Insertable(events, c, E)
  PROVE  Holds(InsertAll(c, events), c, events, n, E, Len(events))
<1>1. PICK new : new = CHOOSE h : h = [i \in 0..Len(events) |->
                          IF i = 0 THEN c ELSE InsertEventInBucket(h[i - 1], events[i])]
  OBVIOUS
<1>2. AreInserted(new, c, events)
  <2>1. \E h : AreInserted(h, c, events)
    BY InsertedExist
  <2> QED
    BY <1>1, <2>1 DEF AreInserted
<1>3. InsertAll(c, events) = new[Len(events)]
  BY <1>1 DEF InsertAll
<1>4. Len(events) \in 0..Len(events)
  <2>1. Len(events) \in Nat
    BY DEF Insertable
  <2> QED
    BY <2>1
<1> QED
  BY <1>2, <1>3, <1>4, InsertedHold

\* Resizing loses no event and adds none.
LEMMA ResizeWell ==
  ASSUME NEW n \in Nat, n >= 2, NEW E \in SUBSET AnyEvent, NEW c, Well(c, n, E), NEW size \in Int
  PROVE  /\ \E m \in Nat : m >= 2 /\ Well(Resize(c, size), m, E)
         /\ EventsIn(Resize(c, size)) = EventsIn(c)
         /\ Resize(c, size).eventNum = c.eventNum
<1>1. CASE ~resizeEnabled \/ size < 2
  BY <1>1 DEF Resize
<1>2. CASE resizeEnabled /\ ~(size < 2)
  <2>1. size \in Nat /\ size >= 2
    BY <1>2
  <2>2. c.lastTime \in Nat /\ NewInterval(c) \in Nat \ {0}
    BY NewIntervalIs DEF Well, Calendar
  <2>3. PICK d : d = LocalInit(size, NewInterval(c), c.lastTime)
    OBVIOUS
  <2>4. Well(d, size, E) /\ EventsIn(d) = {}
    BY <2>1, <2>2, <2>3, EmptyWell
  <2>5. PICK events : events = ResizeEvents(c)
    OBVIOUS
  <2>6. PickedUp(events, c, n, E, n)
    BY <2>5, ResizeEventsAre
  <2>7. \A x : x \in EventsIn(c) <=> \E i \in 1..Len(events) : x = events[i]
    <3>1. n - n..n - 1 = 0..n - 1
      OBVIOUS
    <3>2. DOMAIN c.bucket = 0..n - 1 /\ \A i \in 0..n - 1 : DOMAIN c.bucket[i] = 1..Len(c.bucket[i])
      BY DEF Well, Calendar
    <3>3. \A x : x \in EventsIn(c) <=>
               \E i \in 0..n - 1 : \E k \in 1..Len(c.bucket[i]) : x = c.bucket[i][k]
      BY <3>2 DEF EventsIn, ToSet
    <3>4. \A i \in 1..Len(events) :
               \E j \in 0..n - 1 : \E m \in 1..Len(c.bucket[j]) : events[i] = c.bucket[j][m]
      BY <2>6, <3>1 DEF PickedUp
    <3>5. \A j \in 0..n - 1 : \A m \in 1..Len(c.bucket[j]) :
               \E i \in 1..Len(events) : events[i] = c.bucket[j][m]
      BY <2>6, <3>1 DEF PickedUp
    <3>6. ASSUME NEW x \in EventsIn(c) PROVE \E i \in 1..Len(events) : x = events[i]
      <4>1. PICK j \in 0..n - 1 : \E k \in 1..Len(c.bucket[j]) : x = c.bucket[j][k]
        BY <3>3
      <4> QED
        BY <3>5, <4>1
    <3>7. ASSUME NEW i \in 1..Len(events) PROVE events[i] \in EventsIn(c)
      BY <3>3, <3>4
    <3> QED
      BY <3>6, <3>7
  <2>8. Insertable(events, d, E)
    <3>1. ASSUME NEW i \in 1..Len(events), NEW m \in 1..Len(events), i < m
          PROVE  events[i].num # events[m].num
      <4>1. events[i] # events[m]
        BY <2>6, <3>1 DEF PickedUp
      <4>2. events[i] \in EventsIn(c) /\ events[m] \in EventsIn(c)
        BY <2>7
      <4> QED
        BY <4>1, <4>2 DEF Well, Apart
    <3> QED
      BY <2>4, <2>6, <3>1 DEF Insertable, PickedUp
  <2>9. PICK new : new = Resize(c, size)
    OBVIOUS
  <2>10. new = InsertAll(d, events)
    <3>1. ~(~resizeEnabled \/ size < 2)
      BY <1>2
    <3> QED
      BY <2>3, <2>5, <2>9, <3>1 DEF Resize
  <2>11. Holds(new, d, events, size, E, Len(events))
    BY <2>1, <2>4, <2>8, <2>10, InsertAllWell
  <2>12. EventsIn(new) = EventsIn(c)
    BY <2>4, <2>7, <2>11 DEF Holds
  <2>13. new.eventNum = c.eventNum
    BY <2>11, <2>12 DEF Holds, Well
  <2> QED
    BY <2>1, <2>9, <2>11, <2>12, <2>13 DEF Holds
<1> QED
  BY <1>1, <1>2

\* What the calendar is after Insert and after NextEvent.
IsWell(c, E) == \E n \in Nat : n >= 2 /\ Well(c, n, E)

LEMMA InsertKeepsWell ==
  ASSUME NEW E \in SUBSET AnyEvent, NEW c, IsWell(c, E), NEW x \in E,
         \A y \in EventsIn(c) : y.num # x.num
  PROVE  /\ IsWell(Insert(c, x), E) /\ EventsIn(Insert(c, x)) = EventsIn(c) \cup {x}
         /\ Insert(c, x).eventNum = c.eventNum + 1
<1>1. PICK n \in Nat : n >= 2 /\ Well(c, n, E)
  BY DEF IsWell
<1>2. PICK new : new = InsertEventInBucket(c, x)
  OBVIOUS
<1>3. Well(new, n, E) /\ EventsIn(new) = EventsIn(c) \cup {x} /\ new.eventNum = c.eventNum + 1
  <2>1. /\ Well(InsertEventInBucket(c, x), n, E)
        /\ EventsIn(InsertEventInBucket(c, x)) = EventsIn(c) \cup {x}
        /\ InsertEventInBucket(c, x).eventNum = c.eventNum + 1
    BY <1>1, InsertWell
  <2> QED
    BY <1>2, <2>1
<1>4. PICK size \in Int : size = 2 * BucketNum(new)
  <2>1. BucketNum(new) = n
    BY <1>1, <1>3, CalendarIs DEF Well
  <2> QED
    BY <2>1
<1>5. Insert(c, x) = new \/ Insert(c, x) = Resize(new, size)
  BY <1>2, <1>4 DEF Insert
<1>6. CASE Insert(c, x) = new
  BY <1>1, <1>3, <1>6 DEF IsWell
<1>7. CASE Insert(c, x) = Resize(new, size)
  <2>1. /\ \E m \in Nat : m >= 2 /\ Well(Resize(new, size), m, E)
        /\ EventsIn(Resize(new, size)) = EventsIn(new)
        /\ Resize(new, size).eventNum = new.eventNum
    BY <1>1, <1>3, ResizeWell
  <2> QED
    BY <1>3, <1>7, <2>1 DEF IsWell
<1> QED
  BY <1>5, <1>6, <1>7

LEMMA Taken ==
  ASSUME NEW E \in SUBSET AnyEvent, NEW c, IsWell(c, E), EventsIn(c) # {}
  PROVE  /\ IsWell(NextEvent(c), E) /\ EventsIn(NextEvent(c)) = EventsIn(c) \ {EventOf(c)}
         /\ NextEvent(c).eventNum = c.eventNum - 1
         /\ EventOf(c) \in EventsIn(c)
         /\ \A y \in EventsIn(c) : y # EventOf(c) => Precedes(EventOf(c), y)
<1>1. PICK n \in Nat : n >= 2 /\ Well(c, n, E)
  BY DEF IsWell
<1>2. PICK new : new = WithoutNext(c)
  OBVIOUS
<1>3. /\ Well(new, n, E) /\ EventsIn(new) = EventsIn(c) \ {EventOf(c)}
      /\ new.eventNum = c.eventNum - 1
  BY <1>1, <1>2, WithoutNextWell
<1>4. PICK size \in Int : size = BucketNum(new) \div 2
  <2>1. BucketNum(new) = n
    BY <1>1, <1>3, CalendarIs DEF Well
  <2>2. n \div 2 \in Int
    BY <1>1
  <2> QED
    BY <2>1, <2>2
<1>5. EventOf(c) \in EventsIn(c) /\ \A y \in EventsIn(c) : y # EventOf(c) => Precedes(EventOf(c), y)
  <2>1. PositionedAt(Found(c), c, EventOf(c), n, E)
    BY <1>1, FoundIs
  <2> QED
    BY <2>1 DEF PositionedAt
<1>6. NextEvent(c) = new \/ NextEvent(c) = Resize(new, size)
  BY <1>2, <1>4 DEF NextEvent
<1>7. CASE NextEvent(c) = new
  <2>1. IsWell(new, E)
    BY <1>1, <1>3 DEF IsWell
  <2> QED
    BY <1>3, <1>5, <1>7, <2>1
<1>8. CASE NextEvent(c) = Resize(new, size)
  <2>1. /\ \E m \in Nat : m >= 2 /\ Well(Resize(new, size), m, E)
        /\ EventsIn(Resize(new, size)) = EventsIn(new)
        /\ Resize(new, size).eventNum = new.eventNum
    BY <1>1, <1>3, ResizeWell
  <2>2. IsWell(NextEvent(c), E)
    BY <1>8, <2>1 DEF IsWell
  <2> QED
    BY <1>3, <1>5, <1>8, <2>1, <2>2
<1> QED
  BY <1>6, <1>7, <1>8

Cleared(c, d) == d = [c EXCEPT !.bucket = [i \in DOMAIN c.bucket |-> <<>>], !.eventNum = 0]

LEMMA ClearedWell ==
  ASSUME NEW n \in Nat, n >= 2, NEW E, NEW c, Well(c, n, E), NEW d, Cleared(c, d)
  PROVE  Well(d, n, E) /\ EventsIn(d) = {} /\ d.eventNum = 0
<1>1. c \in Calendar(n, E)
  BY DEF Well
<1>2. PICK b : b = [i \in 0..n - 1 |-> <<>>]
  OBVIOUS
<1>3. b \in [0..n - 1 -> Seq(E)] /\ \A i \in 0..n - 1 : b[i] = <<>> /\ Len(b[i]) = 0
  BY <1>2
<1>4. d = [c EXCEPT !.bucket = b, !.eventNum = 0]
  <2>1. DOMAIN c.bucket = 0..n - 1
    BY <1>1 DEF Calendar
  <2> QED
    BY <1>2, <2>1 DEF Cleared
<1>5. d = [bucket |-> b, lastBucket |-> c.lastBucket, bucketTop |-> c.bucketTop,
           lastTime |-> c.lastTime, eventNum |-> 0, interval |-> c.interval]
  BY <1>1, <1>4 DEF Calendar
<1>6. d \in Calendar(n, E)
  BY <1>1, <1>3, <1>5 DEF Calendar
<1>7. EventsIn(d) = {}
  <2>1. DOMAIN d.bucket = 0..n - 1 /\ \A i \in 0..n - 1 : d.bucket[i] = <<>>
    <3>1. d.bucket = b
      BY <1>5
    <3> QED
      BY <1>3, <3>1
  <2>2. ToSet(<<>>) = {}
    BY DEF ToSet
  <2>3. \A i \in 0..n - 1 : ToSet(d.bucket[i]) = {}
    BY <2>1, <2>2
  <2> QED
    BY <2>1, <2>3 DEF EventsIn
<1>8. \A t : Day(d, t) = Day(c, t) /\ TopOf(d, t) = TopOf(c, t)
  BY <1>5 DEF Day, TopOf
<1>9. IsFiniteSet(EventsIn(d)) /\ Cardinality(EventsIn(d)) = 0 /\ d.eventNum = 0
  BY <1>5, <1>7, FS_EmptySet
<1>10. d.lastBucket = Day(d, d.lastTime) % n /\ d.bucketTop = TopOf(d, Day(d, d.lastTime))
  BY <1>5, <1>8 DEF Well
<1>11. \A i \in 0..n - 1 : InOrder(d.bucket[i]) /\ Len(d.bucket[i]) = 0
  BY <1>3, <1>5 DEF InOrder
<1> QED
  BY <1>6, <1>7, <1>9, <1>10, <1>11 DEF Well, Apart

-----------------------------------------------------------------------------
(* The specification *)

IInv ==
    /\ use \in Uses /\ resizeEnabled \in BOOLEAN /\ puts \in 0..use.maxPut
    /\ IsWell(q, EventsOf(use))
    /\ taken \in SUBSET EventsOf(use) /\ IsFiniteSet(taken)
    /\ q.eventNum + Cardinality(taken) <= use.maxEvents
    /\ Contents \cap taken = {} /\ Apart(Contents \cup taken)
    /\ \A x \in Contents \cup taken : x.num <= puts

LEMMA EventsAre ==
  ASSUME NEW u \in Uses
  PROVE  EventsOf(u) \in SUBSET AnyEvent /\ u.maxPut \in Nat /\ u.maxEvents \in Nat
         /\ EventsOf(u) \subseteq Event
<1>1. /\ \A l \in u.level : l \in Nat
      /\ u.fine \subseteq Int /\ u.dest \subseteq Int /\ u.maxPut \in Nat /\ u.maxEvents \in Nat
  BY LevelAssumption
<1>2. 1..u.maxPut \subseteq Nat
  BY <1>1
<1>3. EventsOf(u) \in SUBSET AnyEvent
  BY <1>1, <1>2 DEF EventsOf, AnyEvent
<1> QED
  BY <1>1, <1>3 DEF Event

LEMMA IsWellIs ==
  ASSUME NEW E, NEW c, IsWell(c, E)
  PROVE  /\ EventsIn(c) \subseteq E /\ IsFiniteSet(EventsIn(c))
         /\ c.eventNum \in Nat /\ c.eventNum = Cardinality(EventsIn(c))
<1>1. PICK n \in Nat : n >= 2 /\ Well(c, n, E)
  BY DEF IsWell
<1>2. EventsIn(c) \subseteq E
  BY <1>1, CalendarIs DEF Well
<1> QED
  BY <1>1, <1>2 DEF Well, Calendar

LEMMA Initially ==
  ASSUME Init
  PROVE  IInv /\ Contents = {} /\ taken = {}
<1>1. use \in Uses /\ q = LocalInit(2, Unit, Infinity) /\ taken = {} /\ puts = 0 /\ resizeEnabled = TRUE
  BY DEF Init
<1>2. Unit \in Nat \ {0} /\ Infinity \in Nat
  BY DEF Unit, Infinity
<1>3. PICK w \in Nat \ {0}, t \in Nat : w = Unit /\ t = Infinity
  BY <1>2
<1>4. /\ Well(LocalInit(2, w, t), 2, EventsOf(use)) /\ EventsIn(LocalInit(2, w, t)) = {}
      /\ LocalInit(2, w, t).eventNum = 0
  BY EmptyWell
<1>5. IsWell(q, EventsOf(use)) /\ Contents = {} /\ q.eventNum = 0
  BY <1>1, <1>3, <1>4 DEF IsWell, Contents
<1>6. Cardinality(taken) = 0 /\ IsFiniteSet(taken)
  BY <1>1, FS_EmptySet
<1>7. use.maxEvents \in Nat /\ use.maxPut \in Nat
  BY <1>1, EventsAre
<1> QED
  BY <1>1, <1>5, <1>6, <1>7 DEF IInv, Apart

LEMMA LevelputStep ==
  ASSUME IInv, UNCHANGED use, NEW v \in use.level, NEW fv \in use.fine, NEW dest \in use.dest,
         Levelput(v, fv, dest)
  PROVE  IInv' /\ \E x \in Event : Abstract!Put(x)
<1> DEFINE E == EventsOf(use)
<1>1. /\ use \in Uses /\ puts \in 0..use.maxPut /\ IsWell(q, E) /\ E \in SUBSET AnyEvent
      /\ use.maxPut \in Nat /\ use.maxEvents \in Nat /\ E \subseteq Event
  BY EventsAre DEF IInv
<1>2. /\ taken = {} /\ taken' = {} /\ q.eventNum < use.maxEvents /\ puts < use.maxPut
      /\ puts' = puts + 1 /\ resizeEnabled' = resizeEnabled
  BY DEF Levelput
<1>3. PICK x : x = [level |-> v, fine |-> fv, dest |-> dest, num |-> puts']
  OBVIOUS
<1>4. x \in E /\ x.num = puts + 1 /\ puts' \in 0..use.maxPut
  <2>1. puts' \in 1..use.maxPut /\ puts' \in 0..use.maxPut
    BY <1>1, <1>2
  <2> QED
    BY <1>2, <1>3, <2>1 DEF EventsOf
<1>5. q' = Insert(q, x)
  BY <1>3 DEF Levelput
<1>6. \A y \in Contents \cup taken : y.num < x.num /\ y.num # x.num /\ y.num <= puts'
  <2>1. \A y \in Contents \cup taken : y.num <= puts /\ y.num \in Nat
    <3>1. Contents \cup taken \subseteq AnyEvent
      BY <1>1, <1>2, IsWellIs DEF Contents
    <3> QED
      BY <3>1 DEF IInv, AnyEvent
  <2> QED
    BY <1>1, <1>2, <1>4, <2>1
<1>7. IsWell(q', E) /\ Contents' = Contents \cup {x} /\ q'.eventNum = q.eventNum + 1
  <2> HIDE DEF E
  <2>1. \A y \in EventsIn(q) : y.num # x.num
    BY <1>6 DEF Contents
  <2>2. /\ IsWell(Insert(q, x), E) /\ EventsIn(Insert(q, x)) = EventsIn(q) \cup {x}
        /\ Insert(q, x).eventNum = q.eventNum + 1
    BY <1>1, <1>4, <2>1, InsertKeepsWell
  <2> QED
    BY <1>5, <2>2 DEF Contents
<1>8. IInv'
  <2>1. Apart(Contents' \cup taken')
    BY <1>2, <1>6, <1>7 DEF IInv, Apart
  <2>2. \A y \in Contents' \cup taken' : y.num <= puts'
    <3>1. x.num <= puts'
      BY <1>1, <1>2, <1>4
    <3> QED
      BY <1>2, <1>6, <1>7, <3>1
  <2>3. q'.eventNum + Cardinality(taken') <= use.maxEvents
    <3>1. Cardinality(taken') = 0 /\ q.eventNum \in Nat
      BY <1>1, <1>2, FS_EmptySet, IsWellIs
    <3> QED
      BY <1>1, <1>2, <1>7, <3>1
  <2> QED
    BY <1>1, <1>2, <1>4, <1>7, <2>1, <2>2, <2>3, FS_EmptySet DEF IInv
<1>9. Abstract!Put(x)
  BY <1>2, <1>6, <1>7 DEF Abstract!Put
<1> QED
  BY <1>1, <1>4, <1>8, <1>9

LEMMA GetStep ==
  ASSUME IInv, UNCHANGED use, Get
  PROVE  IInv' /\ Abstract!Get
<1> DEFINE E == EventsOf(use)
<1>1. use \in Uses /\ IsWell(q, E) /\ E \in SUBSET AnyEvent
  BY EventsAre DEF IInv
<1>2. PICK x : x = EventOf(q)
  OBVIOUS
<1>3. /\ q.eventNum > 0 /\ taken' = taken \cup {x} /\ q' = NextEvent(q)
      /\ resizeEnabled' = resizeEnabled /\ puts' = puts
  BY <1>2 DEF Get
<1>4. /\ q.eventNum \in Nat /\ q.eventNum = Cardinality(Contents) /\ IsFiniteSet(Contents)
      /\ Contents \subseteq E
  BY <1>1, IsWellIs DEF Contents
<1>5. Contents # {}
  BY <1>3, <1>4, FS_EmptySet
<1>6. /\ IsWell(q', E) /\ Contents' = Contents \ {x} /\ q'.eventNum = q.eventNum - 1
      /\ x \in Contents /\ \A y \in Contents : y # x => Precedes(x, y)
  <2> HIDE DEF E
  <2>1. EventsIn(q) # {}
    BY <1>5 DEF Contents
  <2>2. /\ IsWell(NextEvent(q), E) /\ EventsIn(NextEvent(q)) = EventsIn(q) \ {EventOf(q)}
        /\ NextEvent(q).eventNum = q.eventNum - 1
        /\ EventOf(q) \in EventsIn(q)
        /\ \A y \in EventsIn(q) : y # EventOf(q) => Precedes(EventOf(q), y)
    BY <1>1, <2>1, Taken
  <2> QED
    BY <1>2, <1>3, <2>2 DEF Contents
<1>7. Contents' \cup taken' = Contents \cup taken /\ Contents' \cap taken' = {} /\ x \notin taken
  BY <1>3, <1>6 DEF IInv
<1>8. taken' \in SUBSET E /\ IsFiniteSet(taken') /\ Cardinality(taken') = Cardinality(taken) + 1
  BY <1>3, <1>4, <1>6, <1>7, FS_AddElement DEF IInv
<1>9. q'.eventNum + Cardinality(taken') <= use.maxEvents
  <2>1. Cardinality(taken) \in Nat /\ q.eventNum + Cardinality(taken) <= use.maxEvents
        /\ use.maxEvents \in Nat
    BY <1>1, EventsAre, FS_CardinalityType DEF IInv
  <2> QED
    BY <1>4, <1>6, <1>8, <2>1
<1>10. IInv'
  BY <1>3, <1>6, <1>7, <1>8, <1>9 DEF IInv
<1>11. Abstract!Get
  BY <1>3, <1>6 DEF Abstract!Get, Precedes, Abstract!Precedes
<1> QED
  BY <1>10, <1>11

LEMMA PushBackStep ==
  ASSUME IInv, UNCHANGED use, NEW x \in taken, PushBack(x)
  PROVE  IInv' /\ Abstract!PushBack(x)
<1> DEFINE E == EventsOf(use)
<1>1. use \in Uses /\ IsWell(q, E) /\ E \in SUBSET AnyEvent /\ x \in E
  BY EventsAre DEF IInv
<1>2. /\ q' = Insert(q, x) /\ taken' = taken \ {x}
      /\ resizeEnabled' = resizeEnabled /\ puts' = puts
  BY DEF PushBack
<1>3. \A y \in Contents : y.num # x.num
  BY DEF IInv, Apart
<1>4. IsWell(q', E) /\ Contents' = Contents \cup {x} /\ q'.eventNum = q.eventNum + 1
  <2> HIDE DEF E
  <2>1. \A y \in EventsIn(q) : y.num # x.num
    BY <1>3 DEF Contents
  <2>2. /\ IsWell(Insert(q, x), E) /\ EventsIn(Insert(q, x)) = EventsIn(q) \cup {x}
        /\ Insert(q, x).eventNum = q.eventNum + 1
    BY <1>1, <2>1, InsertKeepsWell
  <2> QED
    BY <1>2, <2>2 DEF Contents
<1>5. Contents' \cup taken' = Contents \cup taken /\ Contents' \cap taken' = {}
  BY <1>2, <1>4 DEF IInv
<1>6. IsFiniteSet(taken') /\ Cardinality(taken') = Cardinality(taken) - 1
  BY <1>2, FS_RemoveElement DEF IInv
<1>7. q'.eventNum + Cardinality(taken') <= use.maxEvents
  <2>1. /\ Cardinality(taken) \in Nat /\ q.eventNum + Cardinality(taken) <= use.maxEvents
        /\ use.maxEvents \in Nat /\ q.eventNum \in Nat
    BY <1>1, EventsAre, IsWellIs, FS_CardinalityType DEF IInv
  <2> QED
    BY <1>4, <1>6, <2>1
<1>8. IInv'
  BY <1>2, <1>4, <1>5, <1>6, <1>7 DEF IInv
<1>9. Abstract!PushBack(x)
  BY <1>2, <1>4 DEF Abstract!PushBack
<1> QED
  BY <1>8, <1>9

LEMMA PutFreeLinkStep ==
  ASSUME IInv, UNCHANGED use, NEW x \in taken, PutFreeLink(x)
  PROVE  IInv' /\ Abstract!Consume(x)
<1>1. /\ taken' = taken \ {x} /\ q' = q /\ Contents' = Contents
      /\ resizeEnabled' = resizeEnabled /\ puts' = puts
  BY DEF PutFreeLink, Contents
<1>2. IsFiniteSet(taken') /\ Cardinality(taken') = Cardinality(taken) - 1
  BY <1>1, FS_RemoveElement DEF IInv
<1>3. q'.eventNum + Cardinality(taken') <= use.maxEvents
  <2>1. /\ Cardinality(taken) \in Nat /\ q.eventNum + Cardinality(taken) <= use.maxEvents
        /\ use.maxEvents \in Nat /\ q.eventNum \in Nat
    BY EventsAre, IsWellIs, FS_CardinalityType DEF IInv
  <2> QED
    BY <1>1, <1>2, <2>1
<1>4. IInv'
  BY <1>1, <1>2, <1>3 DEF IInv, Apart
<1>5. Abstract!Consume(x)
  BY <1>1 DEF Abstract!Consume
<1> QED
  BY <1>4, <1>5

LEMMA InitializeStep ==
  ASSUME IInv, UNCHANGED use, Initialize
  PROVE  IInv' /\ Abstract!Clear
<1>1. /\ taken = {} /\ resizeEnabled' = resizeEnabled /\ taken' = taken /\ puts' = puts
      /\ q' = [q EXCEPT !.bucket = [i \in DOMAIN q.bucket |-> <<>>], !.eventNum = 0]
  BY DEF Initialize
<1>2. PICK n \in Nat : n >= 2 /\ Well(q, n, EventsOf(use))
  BY DEF IInv, IsWell
<1>3. Well(q', n, EventsOf(use)) /\ EventsIn(q') = {} /\ q'.eventNum = 0
  BY <1>1, <1>2, ClearedWell DEF Cleared
<1>4. IsWell(q', EventsOf(use)) /\ Contents' = {}
  BY <1>2, <1>3 DEF IsWell, Contents
<1>5. q'.eventNum + Cardinality(taken') <= use.maxEvents
  <2>1. Cardinality(taken) = 0 /\ use.maxEvents \in Nat
    BY <1>1, EventsAre, FS_EmptySet DEF IInv
  <2> QED
    BY <1>1, <1>3, <2>1
<1>6. IInv'
  BY <1>1, <1>4, <1>5 DEF IInv, Apart
<1>7. Abstract!Clear
  BY <1>1, <1>4 DEF Abstract!Clear
<1> QED
  BY <1>6, <1>7

LEMMA SwitchStep ==
  ASSUME IInv, UNCHANGED use, DisableResize \/ EnableResize
  PROVE  IInv' /\ UNCHANGED <<Contents, taken>>
<1>1. /\ resizeEnabled' \in BOOLEAN /\ q' = q /\ taken' = taken /\ puts' = puts
      /\ Contents' = Contents
  BY DEF DisableResize, EnableResize, Contents
<1> QED
  BY <1>1 DEF IInv, Apart

LEMMA Step ==
  ASSUME IInv, Next
  PROVE  IInv' /\ [Abstract!Next]_(Abstract!vars)
<1>1. UNCHANGED use
  BY DEF Next
<1>2. CASE \E v \in use.level, fv \in use.fine, dest \in use.dest : Levelput(v, fv, dest)
  BY <1>1, <1>2, LevelputStep DEF Abstract!Next
<1>3. CASE Get
  BY <1>1, <1>3, GetStep DEF Abstract!Next
<1>4. CASE \E x \in taken : PushBack(x) \/ PutFreeLink(x)
  <2>1. PICK x \in taken : PushBack(x) \/ PutFreeLink(x)
    BY <1>4
  <2>2. CASE PushBack(x)
    BY <1>1, <2>2, PushBackStep DEF Abstract!Next
  <2>3. CASE PutFreeLink(x)
    BY <1>1, <2>3, PutFreeLinkStep DEF Abstract!Next
  <2> QED
    BY <2>1, <2>2, <2>3
<1>5. CASE DisableResize \/ EnableResize
  BY <1>1, <1>5, SwitchStep DEF Abstract!vars
<1>6. CASE Initialize
  BY <1>1, <1>6, InitializeStep DEF Abstract!Next
<1> QED
  BY <1>2, <1>3, <1>4, <1>5, <1>6 DEF Next

LEMMA Stutter ==
  ASSUME IInv, UNCHANGED vars
  PROVE  IInv' /\ UNCHANGED Abstract!vars
<1>1. /\ use' = use /\ q' = q /\ resizeEnabled' = resizeEnabled /\ taken' = taken /\ puts' = puts
      /\ Contents' = Contents
  BY DEF vars, Contents
<1> QED
  BY <1>1 DEF IInv, Apart, Abstract!vars

LEMMA Invariance == Spec => []IInv
<1>1. Init => IInv
  BY Initially
<1>2. IInv /\ [Next]_vars => IInv'
  BY Step, Stutter
<1> QED
  BY <1>1, <1>2, PTL DEF Spec

\* The counter of the events is exact, so that NextEvent never searches an empty
\* calendar, and every event is in the bucket of its day, once and in order: for
\* any times, any number of events and of calls, and across every resize.
THEOREM CalendarStaysConsistent == Spec => []CalendarIsConsistent
<1>1. ASSUME IInv PROVE CalendarIsConsistent
  <2> DEFINE E == EventsOf(use)
  <2>1. PICK n \in Nat : n >= 2 /\ Well(q, n, E)
    BY <1>1 DEF IInv, IsWell
  <2>2. /\ q \in Calendar(n, E) /\ BucketNum(q) = n /\ DOMAIN q.bucket = 0..n - 1
        /\ \A i \in 0..n - 1 : q.bucket[i] \in Seq(E)
    BY <2>1, CalendarIs DEF Well
  <2>3. TypeOK
    <3>1. q.eventNum \in 0..use.maxEvents
      <4>1. /\ Cardinality(taken) \in Nat /\ use.maxEvents \in Nat /\ q.eventNum \in Nat
            /\ q.eventNum + Cardinality(taken) <= use.maxEvents
        BY <1>1, <2>2, EventsAre, FS_CardinalityType DEF IInv, Calendar
      <4> QED
        BY <4>1
    <3>2. taken \subseteq E /\ puts \in 0..use.maxPut /\ resizeEnabled \in BOOLEAN
      BY <1>1 DEF IInv
    <3>3. /\ q.bucket \in [0..n - 1 -> Seq(E)] /\ q.lastBucket \in 0..n - 1
          /\ q.bucketTop \in Nat /\ q.lastTime \in Nat /\ q.interval \in Nat \ {0}
      BY <2>2 DEF Calendar
    <3> QED
      BY <2>1, <2>2, <3>1, <3>2, <3>3 DEF TypeOK
  <2>4. q.eventNum = Cardinality(Contents)
    BY <2>1 DEF Well, Contents
  <2>5. ASSUME NEW i \in DOMAIN q.bucket, NEW k \in DOMAIN q.bucket[i]
        PROVE  /\ Day(q, q.bucket[i][k].level) % BucketNum(q) = i
               /\ \A m \in 1..k - 1 : Precedes(q.bucket[i][m], q.bucket[i][k])
    <3>1. i \in 0..n - 1 /\ k \in 1..Len(q.bucket[i])
      BY <2>2
    <3>2. InOrder(q.bucket[i]) /\ Day(q, q.bucket[i][k].level) % n = i
      BY <2>1, <3>1 DEF Well
    <3> QED
      BY <2>2, <3>1, <3>2 DEF InOrder
  <2> QED
    BY <2>3, <2>4, <2>5 DEF CalendarIsConsistent
<1> QED
  BY <1>1, Invariance, PTL

\* NextEvent's assertion never fails: the event it finds is not from before the
\* day at which it is looking, however the calendar came to be positioned.
THEOREM NextEventsAreNotPast == Spec => []NoEventFromThePast
<1>1. ASSUME IInv, q.eventNum > 0
      PROVE  10 * EventOf(q).level >= 10 * Found(q).bucketTop - 16 * q.interval
  <2> DEFINE E == EventsOf(use)
  <2>1. PICK n \in Nat : n >= 2 /\ Well(q, n, E)
    BY <1>1 DEF IInv, IsWell
  <2>2. E \in SUBSET AnyEvent
    BY <1>1, EventsAre DEF IInv
  <2>3. EventsIn(q) # {}
    <3>1. q.eventNum = Cardinality(EventsIn(q)) /\ q.eventNum # 0
      BY <1>1, <2>1 DEF Well, Calendar
    <3> QED
      BY <3>1, FS_EmptySet
  <2>4. PositionedAt(Found(q), q, EventOf(q), n, E)
    <3> HIDE DEF E
    <3> QED
      BY <2>1, <2>2, <2>3, FoundIs
  <2>5. PICK w \in Nat \ {0} : w = q.interval
    BY <2>1 DEF Well, Calendar
  <2>6. PICK t \in Nat : t = EventOf(q).level
    <3>1. EventOf(q) \in AnyEvent
      BY <2>2, <2>4 DEF PositionedAt
    <3> QED
      BY <3>1 DEF AnyEvent
  <2>7. PICK d \in Nat : d = t \div w
    BY DivIs
  <2>8. PICK top \in Nat : top = TopOf(q, d) /\ 2 * top <= (2 * d + 3) * w
    BY <2>5, TopIs
  <2>9. Found(q).bucketTop = top
    BY <2>4, <2>5, <2>6, <2>7, <2>8 DEF PositionedAt, Day
  <2>10. PICK h \in Nat : h = d * w
    OBVIOUS
  <2>11. h <= t
    BY <2>7, <2>10, DivIs
  <2>12. (2 * d + 3) * w = 2 * h + 3 * w
    BY <2>10
  <2>13. 10 * t >= 10 * top - 16 * w
    BY <2>8, <2>11, <2>12
  <2> QED
    BY <2>5, <2>6, <2>9, <2>13
<1>2. IInv => NoEventFromThePast
  BY <1>1 DEF NoEventFromThePast
<1> QED
  BY <1>2, Invariance, PTL

\* get() always takes the earliest event, of simultaneous ones the one that the
\* order of the header puts first, and nothing but get() and initialize() takes
\* an event out: no insertion, push-back or resize loses or doubles one.
THEOREM CalendarImplementsEarliestFirst == Spec => ImplementsEarliestFirst
<1>1. Init => Abstract!Init
  BY Initially DEF Abstract!Init
<1>2. IInv /\ [Next]_vars => [Abstract!Next]_(Abstract!vars)
  BY Step, Stutter
<1> QED
  BY <1>1, <1>2, Invariance, PTL DEF Spec, ImplementsEarliestFirst, Abstract!Spec
=============================================================================
