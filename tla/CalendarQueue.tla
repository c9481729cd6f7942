--------------------------- MODULE CalendarQueue ---------------------------
(***************************************************************************)
(* The calendar queue of domains/de/kernel/CalendarQueue.cc: the events    *)
(* are hashed by their time into buckets of one day each, a year of        *)
(* buckets is searched from the day of the last event on, and the number   *)
(* and the width of the buckets follow the number of events and the        *)
(* separation of the next few.                                             *)
(*                                                                         *)
(* Times are whole multiples of 1/Unit.  The levels are multiples of 24    *)
(* of these, so that every interval and every bucketTop that the code      *)
(* computes from them is a whole number too; rounding is not modelled.     *)
(* Of absEventCounter, which every insertion increments, only the order    *)
(* it gives to the events matters: num counts the calls of levelput.       *)
(***************************************************************************)
EXTENDS Integers, Sequences, SequencesExt, FiniteSets, FiniteSetsExt

CONSTANTS
    Uses            \* what is put into the queue, with the fields
                    \*   level, fine, dest: the times of the events, their fine
                    \*     levels and the addresses of the stars they are for
                    \*   atBegin: the events put before the scheduler runs, by the
                    \*     begin methods of the stars
                    \*   maxEvents, maxPut, maxTaken: bounds, the events in the
                    \*     queue, put in at all, and taken at one time

ASSUME LevelAssumption ==
    \A u \in Uses : /\ \A l \in u.level : l \in Nat /\ l % 24 = 0
                    /\ u.fine \subseteq Int /\ u.dest \subseteq Int
                    /\ {u.atBegin, u.maxEvents, u.maxPut, u.maxTaken} \subseteq Nat

Unit == 480
MiniInterval == 96          \* MINI_CQ_INTERVAL, 0.2
Infinity == 1000 * Unit     \* HUGE_VAL
HalfMaxDays == 2048         \* HALF_MAX_DAYS

VARIABLES
    use,            \* a member of Uses
    q,          \* the fields of the queue: bucket, lastBucket, bucketTop,
                \*   lastTime, eventNum, interval
    resizeEnabled,
    taken,      \* the events returned by get() and not yet freed or pushed back
    puts        \* calls of levelput so far
vars == <<use, q, resizeEnabled, taken, puts>>

----------------------------------------------------------------------------
BucketNum(c)       == Cardinality(DOMAIN c.bucket)
BottomThreshold(c) == BucketNum(c) \div 2 - 2
TopThreshold(c)    == 2 * BucketNum(c)
Day(c, time)       == time \div c.interval              \* the virtual bucket
TopOf(c, day)      == ((2 * day + 3) * c.interval) \div 2

\* Position the queue at a time.
StartAt(c, time) ==
    [c EXCEPT !.lastTime = time, !.lastBucket = Day(c, time) % BucketNum(c),
              !.bucketTop = TopOf(c, Day(c, time))]

LocalInit(bucketNum, interval, time) ==
    StartAt([bucket |-> [i \in 0..bucketNum - 1 |-> <<>>], lastBucket |-> 0, bucketTop |-> 0,
             lastTime |-> 0, eventNum |-> 0, interval |-> interval], time)

Init == /\ use \in Uses
        /\ q = LocalInit(2, Unit, Infinity)
        /\ resizeEnabled = TRUE /\ taken = {} /\ puts = 0

\* The order within a bucket: the four nested loops of the insertion.
Precedes(x, y) ==
    \/ x.level < y.level
    \/ x.level = y.level /\ x.fine < y.fine
    \/ x.level = y.level /\ x.fine = y.fine /\ x.dest < y.dest
    \/ x.level = y.level /\ x.fine = y.fine /\ x.dest = y.dest /\ x.num < y.num

InsertSorted(s, x) ==
    InsertAt(s, Min({Len(s) + 1} \cup {i \in DOMAIN s : ~Precedes(s[i], x)}), x)

\* An event before the last one taken moves the position back.
PositionFor_Bug(c, x) == c
PositionFor(c, x) == IF x.level < c.lastTime THEN StartAt(c, x.level) ELSE c

InsertEventInBucket_Bug(c, x) ==
    LET i == Day(c, x.level) % BucketNum(c)
    IN  [PositionFor(c, x) EXCEPT !.bucket[i] = InsertSorted(@, x),
            !.eventNum = IF c.bucket[i] = <<>> THEN @ ELSE @ + 1]
InsertEventInBucket(c, x) ==
    LET i == Day(c, x.level) % BucketNum(c)
    IN  [PositionFor(c, x) EXCEPT !.bucket[i] = InsertSorted(@, x), !.eventNum = @ + 1]

\* The search of NextEvent through one year, in days from lastBucket.
DayOf(c, k)  == (c.lastBucket + k) % BucketNum(c)
Due(c) ==
    {k \in 0..BucketNum(c) - 1 :
              /\ c.bucket[DayOf(c, k)] # <<>>
              /\ Head(c.bucket[DayOf(c, k)]).level < c.bucketTop + k * c.interval}

\* The direct search: the first bucket with the earliest head.
DirectSearch(c) ==
    LET full == {i \in DOMAIN c.bucket : c.bucket[i] # <<>>}
        Earliest(i) == \A j \in full : Head(c.bucket[i]).level <= Head(c.bucket[j]).level
        b == Min({i \in full : Earliest(i)})
        time == Head(c.bucket[b]).level
        year == time \div (c.interval * BucketNum(c))
    IN  [c EXCEPT !.lastTime = time, !.lastBucket = b,
                  !.bucketTop = TopOf(c, year * BucketNum(c) + b)]

\* goto again: after a year without an event the search starts once more.
SearchFrom(c) == IF Due(c) # {} THEN c ELSE DirectSearch(c)

\* The queue positioned at the bucket of the next event.
Found(c) ==
    LET start == SearchFrom(c)
        k == Min(Due(start))
    IN  [start EXCEPT !.lastBucket = DayOf(start, k), !.bucketTop = @ + k * c.interval]

EventOf(c) == Head(Found(c).bucket[Found(c).lastBucket])

\* The queue after NextEvent, before it is resized.
WithoutNext(c) ==
    LET f == Found(c)
    IN  [f EXCEPT !.lastTime = EventOf(c).level, !.bucket[f.lastBucket] = Tail(@),
                  !.eventNum = @ - 1]

----------------------------------------------------------------------------
\* NewInterval samples the next events and puts them back; it restores the
\* position, so that the queue has changed in nothing.
SampleNum(c) == IF c.eventNum <= 5 THEN c.eventNum ELSE Min({25, 5 + c.eventNum \div 10})

\* The total of those numbers of a sequence of n that are valid.
TotalOf(number, n, valid) ==
    LET sum[i \in 0..n] ==
            IF i = 0 THEN 0 ELSE sum[i - 1] + IF i \in valid THEN number[i] ELSE 0
    IN  sum[n]

\* The interval that a sample of n times suggests.
IntervalOf(c, n, sample) ==
    LET separation == [i \in 1..n - 1 |-> sample[i + 1] - sample[i]]
        total == sample[n] - sample[1]
        valid == {i \in 1..n - 1 : separation[i] * (n - 1) < 2 * total}
        validTotal == TotalOf(separation, n - 1, valid)
    IN  IF validTotal = 0 THEN c.interval
        ELSE Max({MiniInterval, (3 * validTotal) \div Cardinality(valid)})

NewInterval(c) ==
    LET n == SampleNum(c)
        rest[i \in 0..n] == IF i = 0 THEN c ELSE WithoutNext(rest[i - 1])
    IN  IF c.eventNum < 2 THEN Unit
        ELSE IntervalOf(c, n, [i \in 1..n |-> EventOf(rest[i - 1]).level])

\* The new calendar takes over the events bucket by bucket, from the last.
ResizeEvents_Bug(c) ==
    LET n == BucketNum(c)
        upTo[i \in 0..n - 1] == IF i = 0 THEN <<>> ELSE upTo[i - 1] \o c.bucket[n - i]
    IN  upTo[n - 1]
ResizeEvents(c) ==
    LET n == BucketNum(c)
        upTo[i \in 0..n] == IF i = 0 THEN <<>> ELSE upTo[i - 1] \o c.bucket[n - i]
    IN  upTo[n]

InsertAll(c, events) ==
    LET new[i \in 0..Len(events)] ==
            IF i = 0 THEN c ELSE InsertEventInBucket(new[i - 1], events[i])
    IN  new[Len(events)]

Resize(c, newSize) ==
    IF ~resizeEnabled \/ newSize < 2 THEN c
    ELSE InsertAll(LocalInit(newSize, NewInterval(c), c.lastTime), ResizeEvents(c))

Insert(c, x) ==
    LET new == InsertEventInBucket(c, x)
    IN  IF new.eventNum > TopThreshold(new) /\ BucketNum(new) < HalfMaxDays
        THEN Resize(new, 2 * BucketNum(new)) ELSE new

NextEvent(c) ==
    LET new == WithoutNext(c)
    IN  IF new.eventNum < BottomThreshold(new) THEN Resize(new, BucketNum(new) \div 2)
        ELSE new

----------------------------------------------------------------------------
EventsIn(c) == UNION {ToSet(c.bucket[i]) : i \in DOMAIN c.bucket}
Contents == EventsIn(q)

Levelput(v, fv, dest) ==
    /\ taken = {} /\ q.eventNum < use.maxEvents /\ puts < use.maxPut
    /\ puts' = puts + 1
    /\ q' = Insert(q, [level |-> v, fine |-> fv, dest |-> dest, num |-> puts'])
    /\ UNCHANGED <<resizeEnabled, taken>>

\* The CQ scheduler takes the events of one time one by one, and fetchEvent
\* takes them up to the one it wants; those not used are pushed back.
Get ==
    /\ puts >= use.atBegin
    /\ q.eventNum > 0 /\ Cardinality(taken) < use.maxTaken
    /\ taken' = taken \cup {EventOf(q)}
    /\ q' = NextEvent(q)
    /\ UNCHANGED <<resizeEnabled, puts>>

PushBack(x) ==
    /\ q' = Insert(q, x)
    /\ taken' = taken \ {x}
    /\ UNCHANGED <<resizeEnabled, puts>>

PutFreeLink(x) == taken' = taken \ {x} /\ UNCHANGED <<q, resizeEnabled, puts>>

\* fetchEvent brackets its work with these; when it fails it does not enable
\* the resizing again.
DisableResize == /\ puts >= use.atBegin /\ resizeEnabled /\ taken = {} /\ q.eventNum > 0
                 /\ resizeEnabled' = FALSE /\ UNCHANGED <<q, taken, puts>>
EnableResize  == /\ ~resizeEnabled /\ taken = {}
                 /\ resizeEnabled' = TRUE /\ UNCHANGED <<q, taken, puts>>

\* The buckets are emptied; the position stays.
Initialize ==
    /\ puts >= use.atBegin /\ taken = {}
    /\ q' = [q EXCEPT !.bucket = [i \in DOMAIN q.bucket |-> <<>>], !.eventNum = 0]
    /\ UNCHANGED <<resizeEnabled, taken, puts>>

Next ==
    /\ \/ \E v \in use.level, fv \in use.fine, dest \in use.dest : Levelput(v, fv, dest)
       \/ Get
       \/ \E x \in taken : PushBack(x) \/ PutFreeLink(x)
       \/ DisableResize \/ EnableResize \/ Initialize
    /\ UNCHANGED use

Spec == Init /\ [][Next]_vars

----------------------------------------------------------------------------
EventsOf(u) == [level : u.level, fine : u.fine, dest : u.dest, num : 1..u.maxPut]
Event == UNION {EventsOf(u) : u \in Uses}

TypeOK ==
    /\ q.bucket \in [0..BucketNum(q) - 1 -> Seq(EventsOf(use))] /\ BucketNum(q) >= 2
    /\ q.lastBucket \in DOMAIN q.bucket
    /\ q.bucketTop \in Nat /\ q.lastTime \in Nat /\ q.interval \in Nat \ {0}
    /\ q.eventNum \in 0..use.maxEvents
    /\ resizeEnabled \in BOOLEAN /\ taken \subseteq EventsOf(use) /\ puts \in 0..use.maxPut

\* The types; the count of the events is exact, so that NextEvent never searches an empty
\* calendar, every event is in the bucket of its day, once, and every bucket is in order.
CalendarIsConsistent ==
    /\ TypeOK
    /\ q.eventNum = Cardinality(Contents)
    /\ \A i \in DOMAIN q.bucket : \A k \in DOMAIN q.bucket[i] :
            /\ Day(q, q.bucket[i][k].level) % BucketNum(q) = i
            /\ \A m \in 1..k - 1 : Precedes(q.bucket[i][m], q.bucket[i][k])

\* The assertion in NextEvent: the event it found is not from before the day it
\* is looking at.
NoEventFromThePast ==
    q.eventNum > 0 =>
        10 * EventOf(q).level >= 10 * Found(q).bucketTop - 16 * q.interval

Abstract == INSTANCE EarliestFirst WITH contents <- Contents

\* Whatever mixture of puts, gets, push-backs and resizes came before, get()
\* takes the earliest event, with the order of simultaneous ones the header
\* states, and resizing neither loses nor adds an event.
ImplementsEarliestFirst == Abstract!Spec
=============================================================================
