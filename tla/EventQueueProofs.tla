-------------------------- MODULE EventQueueProofs --------------------------
(***************************************************************************)
(* Theorems about the pointers of EventQueue.  The inductive invariant     *)
(* names two sequences, the ring s from the head of the queue and the free *)
(* list t: the pointers are those of s and t, every link made is in one of *)
(* them or in the hands of the caller, every Event record belongs to one   *)
(* used link or is free, and the scan stands at its place in s.  The first *)
(* half of the module says what the assignments to the pointers do to s    *)
(* and t; the second takes the actions one by one.                         *)
(***************************************************************************)
EXTENDS EventQueue, SequenceLemmas, FiniteSetTheorems

-----------------------------------------------------------------------------
(* Paths along the links *)

Null == 0..MaxLinks     \* a link or the null pointer
Typed(links) == \A m \in Node : links[m].next \in Null /\ links[m].before \in Null

\* The value of the recursive function of At.
LEMMA AtIs ==
  ASSUME NEW to \in [Null -> Null], NEW n \in Null
  PROVE  \E f \in [Null -> Null] : /\ f[0] = n /\ \A k \in 1..MaxLinks : f[k] = to[f[k - 1]]
                                   /\ \A i \in Null : At(to, n, i) = f[i]
<1> USE DEF Null
<1>1. MaxLinks \in Nat
  BY QueueAssumption
<1> DEFINE Is(h) == h = [k \in 0..MaxLinks |-> IF k = 0 THEN n ELSE to[h[k - 1]]]
           step == [k \in 1..MaxLinks |-> to]
<1>2. PICK f : Recursion(f, Null, n, step, MaxLinks)
  <2>1. step \in [1..MaxLinks -> [Null -> Null]]
    OBVIOUS
  <2> HIDE DEF step
  <2> QED
    BY <1>1, <2>1, RecursionExists
<1>3. f \in [Null -> Null] /\ f[0] = n /\ \A k \in 1..MaxLinks : f[k] = to[f[k - 1]]
  BY <1>2 DEF Recursion
<1> HIDE DEF step
<1>4. \A k \in 0..MaxLinks : k # 0 => k \in 1..MaxLinks /\ k - 1 \in 0..MaxLinks
  BY <1>1
<1>5. Is(f)
  BY <1>3, <1>4
<1>6. PICK at : at = CHOOSE h : Is(h)
  OBVIOUS
<1>7. Is(at)
  <2> HIDE DEF Is
  <2> QED
    BY <1>5, <1>6
<1>8. \A i \in Null : At(to, n, i) = at[i]
  BY <1>6 DEF At
<1>9. \A k \in 0..MaxLinks : at[k] = IF k = 0 THEN n ELSE to[at[k - 1]]
  BY <1>7
<1>10. at[0] = n /\ \A k \in 1..MaxLinks : at[k] = to[at[k - 1]]
  <2>1. 0 \in 0..MaxLinks /\ \A k \in 1..MaxLinks : k \in 0..MaxLinks /\ k # 0
    BY <1>1
  <2> HIDE DEF Is
  <2> QED
    BY <1>9, <2>1
<1> HIDE DEF Is
<1>11. \A i \in 0..MaxLinks : at[i] = f[i]
  <2> DEFINE D == {k \in 0..MaxLinks : at[k] # f[k]}
  <2>1. SUFFICES ASSUME D # {} PROVE FALSE
    OBVIOUS
  <2>2. D \subseteq Nat
    OBVIOUS
  <2>3. PICK k \in D : \A j \in D : k <= j
    <3> HIDE DEF D
    <3> QED
      BY <2>2, <2>1, SmallestOne
  <2>4. k \in 0..MaxLinks /\ at[k] # f[k]
    OBVIOUS
  <2>5. k # 0
    BY <1>3, <1>10, <2>4
  <2>6. k \in 1..MaxLinks /\ k - 1 \in 0..MaxLinks /\ ~(k <= k - 1)
    BY <1>4, <2>4, <2>5
  <2>7. k - 1 \notin D
    <3> HIDE DEF D
    <3> QED
      BY <2>3, <2>6
  <2>8. at[k - 1] = f[k - 1]
    BY <2>6, <2>7
  <2> QED
    BY <1>3, <1>10, <2>4, <2>6, <2>8
<1> QED
  BY <1>3, <1>8, <1>11

\* After and Before follow a path whose every step is a link's next or before.
LEMMA AfterIs ==
  ASSUME NEW links, Typed(links), NEW K \in Null, NEW p \in [0..K -> Null],
         \A i \in 1..K : p[i - 1] # 0 /\ p[i] = links[p[i - 1]].next
  PROVE  \A i \in 0..K : After(links, p[0], i) = p[i]
<1> USE DEF Null
<1>1. MaxLinks \in Nat /\ Node = 1..MaxLinks
  BY QueueAssumption DEF Node
<1>2. PICK to : to = [m \in 0..MaxLinks |-> IF m = 0 THEN 0 ELSE links[m].next]
  OBVIOUS
<1>3. to \in [Null -> Null] /\ \A m \in Node : to[m] = links[m].next
  BY <1>1, <1>2 DEF Typed
<1>4. p[0] \in Null /\ K \in Nat
  BY <1>1
<1>5. PICK f \in [Null -> Null] : /\ f[0] = p[0] /\ \A k \in 1..MaxLinks : f[k] = to[f[k - 1]]
                                  /\ \A i \in Null : At(to, p[0], i) = f[i]
  BY <1>3, <1>4, AtIs
<1>6. \A m \in Null : m # 0 => m \in Node
  BY <1>1
<1> DEFINE D == {k \in 0..K : f[k] # p[k]}
<1>7. D = {}
  <2>1. SUFFICES ASSUME D # {} PROVE FALSE
    OBVIOUS
  <2>2. D \subseteq Nat
    OBVIOUS
  <2>3. PICK k \in D : \A j \in D : k <= j
    <3> HIDE DEF D
    <3> QED
      BY <2>2, <2>1, SmallestOne
  <2>4. k \in 0..K /\ f[k] # p[k]
    OBVIOUS
  <2>5. k # 0
    BY <1>5, <2>4
  <2>6. k \in 1..K /\ k \in 1..MaxLinks /\ k - 1 \in 0..K /\ ~(k <= k - 1)
    BY <1>1, <1>4, <2>4, <2>5
  <2>7. k - 1 \notin D
    <3> HIDE DEF D
    <3> QED
      BY <2>3, <2>6
  <2>8. f[k - 1] = p[k - 1]
    BY <2>6, <2>7
  <2>9. p[k - 1] \in Node
    <3>1. p[k - 1] \in Null
      BY <2>6
    <3>2. p[k - 1] # 0
      BY <2>6
    <3> QED
      BY <1>6, <3>1, <3>2
  <2>10. p[k] = to[p[k - 1]]
    BY <1>3, <2>6, <2>9
  <2> QED
    BY <1>5, <2>4, <2>6, <2>8, <2>10
<1> HIDE DEF D
<1>8. \A i \in 0..K : f[i] = p[i] /\ i \in Null
  <2>1. \A i \in 0..K : i \in Null
    BY <1>1
  <2>2. \A i \in 0..K : f[i] = p[i]
    BY <1>7 DEF D
  <2> QED
    BY <2>1, <2>2
<1>9. \A i \in 0..K : After(links, p[0], i) = At(to, p[0], i)
  BY <1>2 DEF After
<1> QED
  BY <1>5, <1>8, <1>9

LEMMA BeforeIs ==
  ASSUME NEW links, Typed(links), NEW K \in Null, NEW p \in [0..K -> Null],
         \A i \in 1..K : p[i - 1] # 0 /\ p[i] = links[p[i - 1]].before
  PROVE  \A i \in 0..K : Before(links, p[0], i) = p[i]
<1> USE DEF Null
<1>1. MaxLinks \in Nat /\ Node = 1..MaxLinks
  BY QueueAssumption DEF Node
<1>2. PICK back : back = [m \in Node |-> [next |-> links[m].before, before |-> links[m].next]]
  OBVIOUS
<1>3. \A m \in Node : back[m].next = links[m].before /\ back[m].before = links[m].next
  BY <1>2
<1>4. Typed(back)
  BY <1>3 DEF Typed
<1>5. \A i \in 1..K : p[i - 1] # 0 /\ p[i] = back[p[i - 1]].next
  <2>1. ASSUME NEW i \in 1..K PROVE p[i - 1] \in Node /\ p[i] = back[p[i - 1]].next
    <3>1. i - 1 \in 0..K
      BY <1>1
    <3>2. p[i - 1] \in Node
      BY <1>1, <3>1
    <3> QED
      BY <1>3, <3>2
  <2> QED
    BY <1>1, <2>1
<1>6. \A i \in 0..K : After(back, p[0], i) = p[i]
  BY <1>4, <1>5, AfterIs
<1>7. [m \in 0..MaxLinks |-> IF m = 0 THEN 0 ELSE back[m].next]
    = [m \in 0..MaxLinks |-> IF m = 0 THEN 0 ELSE links[m].before]
  BY <1>1, <1>3
<1>8. \A i \in 0..K : After(back, p[0], i) = Before(links, p[0], i)
  BY <1>7 DEF After, Before
<1> QED
  BY <1>6, <1>8

-----------------------------------------------------------------------------
(* The ring of a queue, head first, and a free list, as sequences *)

Succ(s, i) == IF i = Len(s) THEN 1 ELSE i + 1
Pred(s, i) == IF i = 1 THEN Len(s) ELSE i - 1

Ring(links, last, s) ==
    /\ s \in Seq(Node) /\ Len(s) <= MaxLinks /\ Distinct(s)
    /\ last = IF Len(s) = 0 THEN 0 ELSE s[Len(s)]
    /\ \A i \in 1..Len(s) : links[s[i]].next = s[Succ(s, i)] /\ links[s[i]].before = s[Pred(s, i)]

Free(links, head, t) ==
    /\ t \in Seq(Node) /\ Len(t) <= MaxLinks /\ Distinct(t)
    /\ head = IF Len(t) = 0 THEN 0 ELSE t[1]
    /\ \A i \in 1..Len(t) : links[t[i]].next = IF i = Len(t) THEN 0 ELSE t[i + 1]

LEMMA RingPath ==
  ASSUME NEW links, Typed(links), NEW last, NEW s, Ring(links, last, s), Len(s) > 0,
         NEW j \in 0..Len(s), NEW start, start = IF j = 0 THEN last ELSE s[j]
  PROVE  /\ After(links, start, 0) = start
         /\ \A i \in 1..(Len(s) - j) : After(links, start, i) = s[j + i]
<1>1. MaxLinks \in Nat /\ Node = 1..MaxLinks /\ Null = 0..MaxLinks
  BY QueueAssumption DEF Node, Null
<1>2. /\ s \in Seq(Node) /\ Len(s) \in Nat /\ Len(s) <= MaxLinks /\ last = s[Len(s)]
      /\ \A i \in 1..Len(s) : links[s[i]].next = s[Succ(s, i)] /\ s[i] \in Node
  BY DEF Ring
<1>3. PICK K \in Null : K = Len(s) - j
  BY <1>1, <1>2
<1>4. start \in Node
  BY <1>2
<1>5. \A i \in 1..K : j + i \in 1..Len(s) /\ s[j + i] \in Node
  BY <1>2, <1>3
<1>6. PICK p \in [0..K -> Null] : /\ p[0] = start
                                  /\ \A i \in 1..K : p[i] = s[j + i]
  <2> DEFINE q == [i \in 0..K |-> IF i = 0 THEN start ELSE s[j + i]]
  <2>1. \A i \in 0..K : q[i] \in Null
    <3>1. \A i \in 0..K : i = 0 \/ i \in 1..K
      BY <1>1
    <3> QED
      BY <1>1, <1>4, <1>5, <3>1
  <2>2. q \in [0..K -> Null]
    BY <2>1
  <2>3. q[0] = start /\ \A i \in 1..K : q[i] = s[j + i]
    BY <1>1
  <2> QED
    BY <2>2, <2>3
<1>7. \A i \in 1..K : p[i - 1] # 0 /\ p[i] = links[p[i - 1]].next
  <2>1. ASSUME NEW i \in 1..K PROVE p[i - 1] # 0 /\ p[i] = links[p[i - 1]].next
    <3>1. CASE j + i = 1
      <4>1. i = 1 /\ j = 0
        BY <1>1, <1>2, <3>1
      <4>2. p[i - 1] = s[Len(s)] /\ Len(s) \in 1..Len(s) /\ Succ(s, Len(s)) = 1
        BY <1>2, <1>6, <4>1 DEF Succ
      <4>3. p[i] = s[1]
        BY <1>6, <4>1
      <4> QED
        <5>1. links[s[Len(s)]].next = s[1] /\ s[Len(s)] \in Node
          BY <1>2, <4>2
        <5> QED
          BY <1>1, <4>2, <4>3, <5>1
    <3>2. CASE j + i # 1
      <4>1. PICK m \in 1..Len(s) : m = j + i - 1
        BY <1>1, <1>2, <1>3, <3>2
      <4>2. p[i - 1] = s[m]
        <5>1. CASE i = 1
          BY <1>2, <1>6, <4>1, <5>1
        <5>2. CASE i # 1
          <6>1. i - 1 \in 1..K /\ j + (i - 1) = m
            BY <1>1, <4>1, <5>2
          <6> QED
            BY <1>6, <6>1
        <5> QED
          BY <5>1, <5>2
      <4>3. Succ(s, m) = j + i
        BY <1>1, <1>2, <1>3, <4>1 DEF Succ
      <4>4. p[i] = s[j + i]
        BY <1>6
      <4> QED
        <5>1. links[s[m]].next = s[j + i] /\ s[m] \in Node
          BY <1>2, <4>3
        <5> QED
          BY <1>1, <4>2, <4>4, <5>1
    <3> QED
      BY <3>1, <3>2
  <2> QED
    BY <2>1
<1>8. \A i \in 0..K : After(links, p[0], i) = p[i]
  BY <1>7, AfterIs
<1>9. 0 \in 0..K /\ \A i \in 1..K : i \in 0..K
  BY <1>1
<1> QED
  BY <1>3, <1>6, <1>8, <1>9

LEMMA RingPathBack ==
  ASSUME NEW links, Typed(links), NEW last, NEW s, Ring(links, last, s), Len(s) > 0
  PROVE  /\ Before(links, last, Len(s)) = last
         /\ \A i \in 0..(Len(s) - 1) : Before(links, last, i) = s[Len(s) - i]
<1>1. MaxLinks \in Nat /\ Node = 1..MaxLinks /\ Null = 0..MaxLinks
  BY QueueAssumption DEF Node, Null
<1>2. /\ s \in Seq(Node) /\ Len(s) \in Nat /\ Len(s) <= MaxLinks /\ last = s[Len(s)]
      /\ \A i \in 1..Len(s) : links[s[i]].before = s[Pred(s, i)] /\ s[i] \in Node
  BY DEF Ring
<1>3. PICK K \in Null : K = Len(s)
  BY <1>1, <1>2
<1>4. PICK p \in [0..K -> Null] : /\ p[K] = last
                                  /\ \A i \in 0..(K - 1) : p[i] = s[K - i]
  <2> DEFINE q == [i \in 0..K |-> IF i = K THEN last ELSE s[K - i]]
  <2>1. \A i \in 0..K : q[i] \in Null
    <3>1. \A i \in 0..K : i = K \/ K - i \in 1..Len(s)
      BY <1>1, <1>3
    <3>2. last \in Node
      BY <1>2
    <3> QED
      BY <1>1, <1>2, <3>1, <3>2
  <2>2. q \in [0..K -> Null]
    BY <2>1
  <2>3. q[K] = last /\ \A i \in 0..(K - 1) : q[i] = s[K - i]
    BY <1>1
  <2> QED
    BY <2>2, <2>3
<1>5. p[0] = last
  BY <1>1, <1>2, <1>3, <1>4
<1>6. \A i \in 1..K : p[i - 1] # 0 /\ p[i] = links[p[i - 1]].before
  <2>1. ASSUME NEW i \in 1..K PROVE p[i - 1] # 0 /\ p[i] = links[p[i - 1]].before
    <3>1. PICK m \in 1..Len(s) : m = K - (i - 1)
      <4>1. K - (i - 1) \in 1..K
        BY <1>1
      <4> QED
        BY <1>3, <4>1
    <3>2. p[i - 1] = s[m] /\ s[m] \in Node
      BY <1>1, <1>2, <1>4, <3>1
    <3>3. CASE i = K
      BY <1>1, <1>2, <1>3, <1>4, <3>1, <3>2, <3>3 DEF Pred
    <3>4. CASE i # K
      <4>1. Pred(s, m) = K - i /\ i \in 0..(K - 1)
        BY <1>1, <1>3, <3>1, <3>4 DEF Pred
      <4>2. p[i] = s[K - i]
        BY <1>4, <4>1
      <4>3. links[s[m]].before = s[K - i] /\ s[m] \in Node
        BY <1>2, <4>1
      <4> QED
        BY <1>1, <3>2, <4>2, <4>3
    <3> QED
      BY <3>3, <3>4
  <2> QED
    BY <2>1
<1>7. \A i \in 0..K : Before(links, p[0], i) = p[i]
  BY <1>6, BeforeIs
<1>8. K \in 0..K /\ \A i \in 0..(K - 1) : i \in 0..K
  BY <1>1
<1> QED
  BY <1>3, <1>4, <1>5, <1>7, <1>8

LEMMA FreePath ==
  ASSUME NEW links, Typed(links), NEW head, NEW t, Free(links, head, t)
  PROVE  /\ After(links, head, Len(t)) = 0
         /\ \A i \in 0..(Len(t) - 1) : After(links, head, i) = t[i + 1]
<1>1. MaxLinks \in Nat /\ Node = 1..MaxLinks /\ Null = 0..MaxLinks
  BY QueueAssumption DEF Node, Null
<1>2. /\ t \in Seq(Node) /\ Len(t) \in Nat /\ Len(t) <= MaxLinks
      /\ head = IF Len(t) = 0 THEN 0 ELSE t[1]
      /\ \A i \in 1..Len(t) : links[t[i]].next = (IF i = Len(t) THEN 0 ELSE t[i + 1]) /\ t[i] \in Node
  BY DEF Free
<1>3. PICK K \in Null : K = Len(t)
  BY <1>1, <1>2
<1>4. PICK p \in [0..K -> Null] : /\ p[K] = 0
                                  /\ \A i \in 0..(K - 1) : p[i] = t[i + 1]
  <2> DEFINE q == [i \in 0..K |-> IF i = K THEN 0 ELSE t[i + 1]]
  <2>1. \A i \in 0..K : q[i] \in Null
    <3>1. \A i \in 0..K : i = K \/ i + 1 \in 1..Len(t)
      BY <1>1, <1>3
    <3> QED
      BY <1>1, <1>2, <3>1
  <2>2. q \in [0..K -> Null]
    BY <2>1
  <2>3. q[K] = 0 /\ \A i \in 0..(K - 1) : q[i] = t[i + 1]
    BY <1>1
  <2> QED
    BY <2>2, <2>3
<1>5. p[0] = head
  BY <1>1, <1>2, <1>3, <1>4
<1>6. \A i \in 1..K : p[i - 1] # 0 /\ p[i] = links[p[i - 1]].next
  <2>1. ASSUME NEW i \in 1..K PROVE p[i - 1] # 0 /\ p[i] = links[p[i - 1]].next
    <3>1. p[i - 1] = t[i] /\ t[i] \in Node /\ i \in 1..Len(t)
      <4>1. i - 1 \in 0..(K - 1) /\ i - 1 + 1 = i
        BY <1>1
      <4> QED
        BY <1>2, <1>3, <1>4, <4>1
    <3>2. CASE i = K
      BY <1>1, <1>2, <1>3, <1>4, <3>1, <3>2
    <3>3. CASE i # K
      <4>1. i \in 0..(K - 1)
        BY <1>1, <3>3
      <4> QED
        BY <1>1, <1>2, <1>3, <1>4, <3>1, <3>3, <4>1
    <3> QED
      BY <3>2, <3>3
  <2> QED
    BY <2>1
<1>7. \A i \in 0..K : After(links, p[0], i) = p[i]
  BY <1>6, AfterIs
<1>8. K \in 0..K /\ \A i \in 0..(K - 1) : i \in 0..K
  BY <1>1
<1> QED
  BY <1>3, <1>4, <1>5, <1>7, <1>8

\* The k links behind start, as a sequence.
LEMMA FollowIs ==
  ASSUME NEW links, NEW start, NEW k \in Nat, NEW r \in Seq(Node), Len(r) = k,
         \A i \in 1..k : After(links, start, i) = r[i]
  PROVE  Follow(links, start, k) = r
<1>1. PICK f : f = [i \in 1..k |-> After(links, start, i)]
  OBVIOUS
<1>2. \A i \in 1..k : f[i] = r[i] /\ r[i] \in Node
  BY <1>1
<1>3. f \in Seq(Node) /\ Len(f) = k
  BY <1>1, <1>2
<1>4. f = r
  BY <1>2, <1>3, SequencesEqual
<1> QED
  BY <1>1, <1>4 DEF Follow

LEMMA RingIs ==
  ASSUME NEW links, Typed(links), NEW last, NEW s, Ring(links, last, s)
  PROVE  RingOf(links, last) = s
<1>1. MaxLinks \in Nat /\ Node = 1..MaxLinks
  BY QueueAssumption DEF Node
<1>2. /\ s \in Seq(Node) /\ Len(s) \in Nat /\ Len(s) <= MaxLinks /\ Distinct(s)
      /\ last = IF Len(s) = 0 THEN 0 ELSE s[Len(s)]
  BY DEF Ring
<1>3. CASE Len(s) = 0
  <2>1. s = <<>> /\ last = 0
    BY <1>2, <1>3
  <2> QED
    BY <2>1 DEF RingOf
<1>4. CASE Len(s) > 0
  <2>1. last \in Node /\ last # 0 /\ Len(s) \in Node /\ last = s[Len(s)]
    BY <1>1, <1>2, <1>4
  <2>2. \A i \in 1..Len(s) : After(links, last, i) = s[i]
    <3>1. 0 \in 0..Len(s) /\ Len(s) - 0 = Len(s) /\ \A i \in 1..Len(s) : 0 + i = i
      BY <1>2
    <3>2. \A i \in 1..(Len(s) - 0) : After(links, last, i) = s[0 + i]
      BY <1>4, <3>1, RingPath
    <3> QED
      BY <3>1, <3>2
  <2> DEFINE T == {i \in Node : After(links, last, i) = last}
  <2>3. Len(s) \in T
    BY <1>2, <1>4, <2>1, <2>2
  <2>4. \A k \in T : Len(s) <= k
    <3>1. ASSUME NEW k \in T, k < Len(s) PROVE FALSE
      <4>1. k \in 1..Len(s) /\ Len(s) \in 1..Len(s)
        BY <1>1, <1>2, <1>4, <3>1
      <4>2. s[k] = s[Len(s)]
        BY <2>1, <2>2, <4>1
      <4> QED
        BY <1>2, <3>1, <4>1, <4>2 DEF Distinct
    <3>2. T \subseteq Nat
      BY <1>1
    <3> HIDE DEF T
    <3> QED
      BY <1>2, <3>1, <3>2
  <2>5. Min(T) = Len(s)
    <3>1. T \subseteq Nat
      BY <1>1
    <3> HIDE DEF T
    <3> QED
      BY <2>3, <2>4, <3>1, MinIs
  <2>6. PICK k \in Nat : k = Len(s) - 1
    BY <1>2, <1>4
  <2>7. PICK r \in Seq(Node) : Len(r) = k /\ \A i \in 1..k : r[i] = s[i]
    <3>1. 1 \in 1..(Len(s) + 1) /\ k \in 0..Len(s) /\ 1 <= k + 1 /\ k - 1 + 1 = k
          /\ \A i \in 1..k : 1 + i - 1 = i
      BY <1>2, <2>6
    <3>2. /\ SubSeq(s, 1, k) \in Seq(Node) /\ Len(SubSeq(s, 1, k)) = k - 1 + 1
          /\ \A i \in 1..(k - 1 + 1) : SubSeq(s, 1, k)[i] = s[1 + i - 1]
      BY <1>2, <3>1, SubSeqIs
    <3> QED
      BY <3>1, <3>2
  <2>8. Follow(links, last, k) = r
    <3>1. \A i \in 1..k : After(links, last, i) = r[i]
      BY <1>2, <2>2, <2>6, <2>7
    <3> QED
      BY <2>7, <3>1, FollowIs
  <2>9. RingOf(links, last) = Append(r, last)
    <3>1. RingOf(links, last) = Append(Follow(links, last, Min(T) - 1), last)
      BY <2>1 DEF RingOf
    <3> HIDE DEF T
    <3> QED
      BY <2>5, <2>6, <2>8, <3>1
  <2>10. PICK q \in Seq(Node) : /\ q = Append(r, last) /\ Len(q) = k + 1 /\ q[k + 1] = last
                                /\ \A i \in 1..k : q[i] = r[i]
    <3>1. /\ Append(r, last) \in Seq(Node) /\ Len(Append(r, last)) = Len(r) + 1
          /\ (\A i \in 1..Len(r) : Append(r, last)[i] = r[i]) /\ Append(r, last)[Len(r) + 1] = last
      BY <2>1, AppendIs
    <3> QED
      BY <2>7, <3>1
  <2>11. \A i \in 1..(k + 1) : i = k + 1 \/ i \in 1..k
    BY <2>6
  <2>12. Len(q) = Len(s) /\ \A i \in 1..Len(q) : q[i] = s[i]
    <3>1. k + 1 = Len(s)
      BY <1>2, <2>6
    <3> QED
      BY <2>1, <2>7, <2>10, <2>11, <3>1
  <2>13. q = s
    BY <1>2, <2>12, SequencesEqual
  <2> QED
    BY <2>9, <2>10, <2>13
<1> QED
  BY <1>2, <1>3, <1>4

LEMMA ListIs ==
  ASSUME NEW links, Typed(links), NEW head, NEW t, Free(links, head, t)
  PROVE  ListOf(links, head) = t
<1>1. MaxLinks \in Nat /\ Node = 1..MaxLinks
  BY QueueAssumption DEF Node
<1>2. t \in Seq(Node) /\ Len(t) \in Nat /\ Len(t) <= MaxLinks
  BY DEF Free
<1>3. /\ After(links, head, Len(t)) = 0
      /\ \A i \in 0..(Len(t) - 1) : After(links, head, i) = t[i + 1]
  BY FreePath
<1> DEFINE T == {k \in 0..MaxLinks : After(links, head, k) = 0}
<1>4. Len(t) \in T
  BY <1>1, <1>2, <1>3
<1>5. \A k \in T : Len(t) <= k
  <2>1. ASSUME NEW k \in T, k < Len(t) PROVE FALSE
    <3>1. k \in 0..(Len(t) - 1) /\ k + 1 \in 1..Len(t)
      BY <1>2, <2>1
    <3>2. t[k + 1] \in Node /\ After(links, head, k) = 0
      BY <1>2, <3>1
    <3> QED
      BY <1>1, <1>3, <3>1, <3>2
  <2>2. T \subseteq Nat
    BY <1>1
  <2> HIDE DEF T
  <2> QED
    BY <1>2, <2>1, <2>2
<1>6. Min(T) = Len(t)
  <2>1. T \subseteq Nat
    BY <1>1
  <2> HIDE DEF T
  <2> QED
    BY <1>4, <1>5, <2>1, MinIs
<1>7. PICK f : f = [i \in 1..Len(t) |-> After(links, head, i - 1)]
  OBVIOUS
<1>8. \A i \in 1..Len(t) : f[i] = t[i] /\ t[i] \in Node
  <2>1. \A i \in 1..Len(t) : i - 1 \in 0..(Len(t) - 1) /\ i - 1 + 1 = i
    BY <1>2
  <2>2. \A i \in 1..Len(t) : f[i] = After(links, head, i - 1)
    BY <1>7
  <2> QED
    BY <1>2, <1>3, <2>1, <2>2
<1>9. f \in Seq(Node) /\ Len(f) = Len(t)
  BY <1>2, <1>7, <1>8
<1>10. f = t
  BY <1>2, <1>8, <1>9, SequencesEqual
<1> HIDE DEF T
<1>11. ListOf(links, head) = [i \in 1..Min(T) |-> After(links, head, i - 1)]
  BY DEF ListOf, T
<1> QED
  BY <1>6, <1>7, <1>10, <1>11

-----------------------------------------------------------------------------
(* What the operations do to a ring and to a free list *)

LEMMA RingSame ==
  ASSUME NEW links, NEW other, NEW last, NEW s, Ring(links, last, s),
         \A i \in 1..Len(s) : /\ other[s[i]].next = links[s[i]].next
                              /\ other[s[i]].before = links[s[i]].before
  PROVE  Ring(other, last, s)
BY DEF Ring

LEMMA FreeSame ==
  ASSUME NEW links, NEW other, NEW head, NEW t, Free(links, head, t),
         \A i \in 1..Len(t) : other[t[i]].next = links[t[i]].next
  PROVE  Free(other, head, t)
BY DEF Free

\* n comes between the links prev and succ.
Attached(links, other, n, prev, succ) ==
    /\ other[n].next = succ /\ other[n].before = prev
    /\ other[prev].next = n /\ other[succ].before = n
    /\ \A m \in Node : /\ m # n /\ m # prev => other[m].next = links[m].next
                       /\ m # n /\ m # succ => other[m].before = links[m].before

LEMMA RingInsert ==
  ASSUME NEW links, NEW other, NEW last, NEW s, Ring(links, last, s), Len(s) < MaxLinks,
         NEW n \in Node, ~Has(s, n), NEW k \in 1..(Len(s) + 1), NEW prev, NEW succ,
         Len(s) = 0 => prev = n /\ succ = n,
         Len(s) > 0 => /\ prev = s[IF k = 1 THEN Len(s) ELSE k - 1]
                       /\ succ = s[IF k = Len(s) + 1 THEN 1 ELSE k],
         Attached(links, other, n, prev, succ),
         NEW r \in Seq(Node), Inserted(s, k, n, r)
  PROVE  Ring(other, IF k = Len(s) + 1 THEN n ELSE last, r)
<1>1. PICK L \in Nat : /\ L = Len(s) /\ L < MaxLinks /\ Len(r) = L + 1 /\ k \in 1..(L + 1)
                       /\ MaxLinks \in Nat
  BY QueueAssumption DEF Inserted
<1>2. /\ s \in Seq(Node) /\ last = (IF L = 0 THEN 0 ELSE s[L])
      /\ (\A i \in 1..L : s[i] \in Node /\ s[i] # n)
      /\ (\A i, j \in 1..L : s[i] = s[j] => i = j)
      /\ \A i \in 1..L : links[s[i]].next = s[Succ(s, i)] /\ links[s[i]].before = s[Pred(s, i)]
  BY <1>1 DEF Ring, Has, Distinct
<1>3. /\ r[k] = n /\ (\A i \in 1..(L + 1) : i < k => i \in 1..L /\ r[i] = s[i])
      /\ \A i \in 1..(L + 1) : i > k => i - 1 \in 1..L /\ r[i] = s[i - 1]
  BY <1>1 DEF Inserted
<1>4. Distinct(r)
  <2>1. Distinct(s)
    BY DEF Ring
  <2> QED
    BY <1>2, <2>1, HasAfterInsert
<1>5. ASSUME L > 0, NEW i \in 1..(L + 1)
      PROVE  other[r[i]].next = r[Succ(r, i)] /\ other[r[i]].before = r[Pred(r, i)]
  <2>1. /\ prev = s[IF k = 1 THEN L ELSE k - 1]
        /\ succ = s[IF k = L + 1 THEN 1 ELSE k]
    BY <1>1, <1>5
  <2>2. /\ Succ(r, i) = (IF i = L + 1 THEN 1 ELSE i + 1)
        /\ Pred(r, i) = (IF i = 1 THEN L + 1 ELSE i - 1)
    BY <1>1 DEF Succ, Pred
  <2>3. /\ \A j \in 1..L : Succ(s, j) = (IF j = L THEN 1 ELSE j + 1)
        /\ \A j \in 1..L : Pred(s, j) = (IF j = 1 THEN L ELSE j - 1)
    BY <1>1 DEF Succ, Pred
  <2>4. CASE i = k
    <3>1. other[r[i]].next = succ /\ other[r[i]].before = prev
      BY <1>3, <2>4 DEF Attached
    <3>2. r[Succ(r, i)] = succ
      <4>1. CASE k = L + 1
        <5>1. 1 \in 1..(L + 1) /\ 1 < k
          BY <1>1, <1>5, <4>1
        <5> QED
          BY <1>3, <2>1, <2>2, <2>4, <4>1, <5>1
      <4>2. CASE k # L + 1
        <5>1. PICK j \in 1..(L + 1) : j = k + 1
          BY <1>1, <4>2
        <5>2. j > k /\ j - 1 = k
          BY <1>1, <5>1
        <5> QED
          BY <1>3, <2>1, <2>2, <2>4, <4>2, <5>1, <5>2
      <4> QED
        BY <4>1, <4>2
    <3>3. r[Pred(r, i)] = prev
      <4>1. CASE k = 1
        <5>1. PICK j \in 1..(L + 1) : j = L + 1
          BY <1>1
        <5>2. j > k /\ j - 1 = L
          BY <1>1, <1>5, <4>1, <5>1
        <5> QED
          BY <1>3, <2>1, <2>2, <2>4, <4>1, <5>1, <5>2
      <4>2. CASE k # 1
        <5>1. PICK j \in 1..(L + 1) : j = k - 1
          BY <1>1, <4>2
        <5>2. j < k
          BY <1>1, <5>1
        <5> QED
          BY <1>3, <2>1, <2>2, <2>4, <4>2, <5>1, <5>2
      <4> QED
        BY <4>1, <4>2
    <3> QED
      BY <3>1, <3>2, <3>3
  <2>5. CASE i < k
    <3>1. r[i] = s[i] /\ i \in 1..L /\ s[i] \in Node /\ s[i] # n
      BY <1>2, <1>3, <2>5
    <3>2. other[s[i]].next = r[Succ(r, i)]
      <4>1. CASE i = k - 1
        <5>1. k # 1 /\ s[i] = prev /\ Succ(r, i) = k
          BY <1>1, <2>1, <2>2, <4>1
        <5> QED
          BY <1>3, <5>1 DEF Attached
      <4>2. CASE i # k - 1
        <5>1. PICK j \in 1..(L + 1) : j = i + 1
          BY <1>1, <2>5
        <5>2. j < k /\ k # 1 /\ k - 1 \in 1..L /\ i # L /\ i # L + 1
          BY <1>1, <2>5, <4>2, <5>1
        <5>3. s[i] # prev
          BY <1>2, <2>1, <3>1, <4>2, <5>2
        <5>4. other[s[i]].next = links[s[i]].next
          BY <3>1, <5>3 DEF Attached
        <5>5. links[s[i]].next = s[j]
          BY <1>2, <2>3, <3>1, <5>1, <5>2
        <5>6. r[Succ(r, i)] = s[j]
          BY <1>3, <2>2, <5>1, <5>2
        <5> QED
          BY <5>4, <5>5, <5>6
      <4> QED
        BY <4>1, <4>2
    <3>3. other[s[i]].before = r[Pred(r, i)]
      <4>1. CASE k = L + 1 /\ i = 1
        <5>1. s[i] = succ /\ Pred(r, i) = k
          BY <2>1, <2>2, <4>1
        <5> QED
          BY <1>3, <5>1 DEF Attached
      <4>2. CASE ~(k = L + 1 /\ i = 1)
        <5>1. s[i] # succ
          <6>1. k = L + 1 \/ k \in 1..L
            BY <1>1
          <6>2. 1 \in 1..L
            BY <1>5
          <6> QED
            BY <1>2, <2>1, <2>5, <3>1, <4>2, <6>1, <6>2
        <5>2. other[s[i]].before = links[s[i]].before
          BY <3>1, <5>1 DEF Attached
        <5>3. CASE i = 1
          <6>1. PICK j \in 1..(L + 1) : j = L + 1
            BY <1>1
          <6>2. j > k /\ j - 1 = L
            BY <1>1, <4>2, <5>3, <6>1
          <6>3. r[Pred(r, i)] = s[L]
            BY <1>3, <2>2, <5>3, <6>1, <6>2
          <6>4. links[s[i]].before = s[L]
            BY <1>2, <2>3, <3>1, <5>3
          <6> QED
            BY <5>2, <6>3, <6>4
        <5>4. CASE i # 1
          <6>1. PICK j \in 1..(L + 1) : j = i - 1
            BY <5>4
          <6>2. j < k
            BY <1>1, <2>5, <6>1
          <6>3. r[Pred(r, i)] = s[j]
            BY <1>3, <2>2, <5>4, <6>1, <6>2
          <6>4. links[s[i]].before = s[j]
            BY <1>2, <2>3, <3>1, <5>4, <6>1
          <6> QED
            BY <5>2, <6>3, <6>4
        <5> QED
          BY <5>3, <5>4
      <4> QED
        BY <4>1, <4>2
    <3> QED
      BY <3>1, <3>2, <3>3
  <2>6. CASE i > k
    <3>1. PICK j \in 1..L : j = i - 1
      BY <1>1, <2>6
    <3>2. r[i] = s[j] /\ s[j] \in Node /\ s[j] # n /\ j >= k /\ k \in 1..L
      BY <1>1, <1>2, <1>3, <2>6, <3>1
    <3>3. other[s[j]].next = r[Succ(r, i)]
      <4>1. CASE k = 1 /\ j = L
        <5>1. s[j] = prev /\ Succ(r, i) = k
          BY <1>1, <2>1, <2>2, <3>1, <4>1
        <5> QED
          BY <1>3, <5>1 DEF Attached
      <4>2. CASE ~(k = 1 /\ j = L)
        <5>1. s[j] # prev
          <6>1. L \in 1..L /\ (k # 1 => k - 1 \in 1..L /\ k - 1 # j)
            BY <1>1, <1>5, <3>2
          <6> QED
            BY <1>2, <2>1, <3>1, <4>2, <6>1
        <5>2. other[s[j]].next = links[s[j]].next
          BY <3>2, <5>1 DEF Attached
        <5>3. CASE j = L
          <6>1. 1 < k /\ i = L + 1 /\ 1 \in 1..(L + 1)
            BY <1>1, <3>1, <4>2, <5>3
          <6>2. r[Succ(r, i)] = s[1]
            BY <1>3, <2>2, <6>1
          <6>3. links[s[j]].next = s[1]
            BY <1>2, <2>3, <5>3
          <6> QED
            BY <5>2, <6>2, <6>3
        <5>4. CASE j # L
          <6>1. PICK m \in 1..(L + 1) : m = i + 1
            BY <1>1, <3>1, <5>4
          <6>2. m > k /\ m - 1 = i /\ i # L + 1 /\ j + 1 = i
            BY <1>1, <2>6, <3>1, <5>4, <6>1
          <6>3. r[Succ(r, i)] = s[i]
            BY <1>3, <2>2, <6>1, <6>2
          <6>4. links[s[j]].next = s[i]
            BY <1>2, <2>3, <5>4, <6>2
          <6> QED
            BY <5>2, <6>3, <6>4
        <5> QED
          BY <5>3, <5>4
      <4> QED
        BY <4>1, <4>2
    <3>4. other[s[j]].before = r[Pred(r, i)]
      <4>1. k # L + 1 /\ succ = s[k] /\ Pred(r, i) = j
        BY <1>1, <2>1, <2>2, <2>6, <3>1, <3>2
      <4>2. CASE j = k
        BY <1>3, <4>1, <4>2 DEF Attached
      <4>3. CASE j # k
        <5>1. s[j] # succ
          BY <1>2, <3>2, <4>1, <4>3
        <5>2. other[s[j]].before = links[s[j]].before
          BY <3>2, <5>1 DEF Attached
        <5>3. j > k /\ j # 1 /\ j \in 1..(L + 1)
          BY <1>1, <3>2, <4>3
        <5>4. r[j] = s[j - 1]
          BY <1>3, <5>3
        <5>5. links[s[j]].before = s[j - 1]
          BY <1>2, <2>3, <5>3
        <5> QED
          BY <4>1, <5>2, <5>4, <5>5
      <4> QED
        BY <4>2, <4>3
    <3> QED
      BY <3>2, <3>3, <3>4
  <2> QED
    BY <1>1, <2>4, <2>5, <2>6
<1>6. CASE L = 0
  <2>1. k = 1 /\ r[1] = n /\ \A i \in 1..(L + 1) : i = 1
    BY <1>1, <1>3, <1>6
  <2>2. Succ(r, 1) = 1 /\ Pred(r, 1) = 1
    BY <1>1, <1>6 DEF Succ, Pred
  <2>3. other[n].next = n /\ other[n].before = n
    BY <1>1, <1>6 DEF Attached
  <2>4. \A i \in 1..Len(r) : other[r[i]].next = r[Succ(r, i)] /\ other[r[i]].before = r[Pred(r, i)]
    BY <1>1, <2>1, <2>2, <2>3
  <2>5. Len(r) = 1 /\ Len(r) <= MaxLinks /\ n = r[Len(r)]
    BY <1>1, <1>6, <2>1
  <2> QED
    BY <1>1, <1>4, <1>6, <2>1, <2>4, <2>5 DEF Ring
<1>7. CASE L > 0
  <2>1. \A i \in 1..Len(r) : other[r[i]].next = r[Succ(r, i)] /\ other[r[i]].before = r[Pred(r, i)]
    BY <1>1, <1>5, <1>7
  <2>2. Len(r) <= MaxLinks /\ Len(r) # 0
    BY <1>1
  <2>3. (IF k = Len(s) + 1 THEN n ELSE last) = r[Len(r)]
    <3>1. CASE k = L + 1
      BY <1>1, <1>3, <3>1
    <3>2. CASE k # L + 1
      <4>1. PICK j \in 1..(L + 1) : j = L + 1
        BY <1>1
      <4>2. j > k /\ j - 1 = L
        BY <1>1, <3>2, <4>1
      <4> QED
        BY <1>1, <1>2, <1>3, <1>7, <3>2, <4>1, <4>2
    <3> QED
      BY <3>1, <3>2
  <2> QED
    BY <1>4, <2>1, <2>2, <2>3 DEF Ring
<1> QED
  BY <1>1, <1>6, <1>7

\* The k-th link of s leaves the ring.
Detached(links, other, s, k) ==
    LET prev == s[Pred(s, k)]
        succ == s[Succ(s, k)]
    IN  /\ prev # s[k] => other[prev].next = succ
        /\ succ # s[k] => other[succ].before = prev
        /\ \A m \in Node : /\ m # s[k] /\ m # prev => other[m].next = links[m].next
                           /\ m # s[k] /\ m # succ => other[m].before = links[m].before

LEMMA RingRemove ==
  ASSUME NEW links, NEW other, NEW last, NEW s, Ring(links, last, s),
         NEW k \in 1..Len(s), Detached(links, other, s, k),
         NEW r \in Seq(Node), Removed(s, k, r)
  PROVE  Ring(other, IF Len(s) = 1 THEN 0 ELSE IF k = Len(s) THEN s[Pred(s, k)] ELSE last, r)
<1>1. PICK L \in Nat : /\ L = Len(s) /\ L <= MaxLinks /\ Len(r) = L - 1 /\ k \in 1..L /\ L > 0
                       /\ MaxLinks \in Nat
  BY QueueAssumption DEF Removed, Ring
<1>2. /\ s \in Seq(Node) /\ last = s[L] /\ Distinct(s)
      /\ (\A i \in 1..L : s[i] \in Node)
      /\ (\A i, j \in 1..L : s[i] = s[j] => i = j)
      /\ \A i \in 1..L : links[s[i]].next = s[Succ(s, i)] /\ links[s[i]].before = s[Pred(s, i)]
  BY <1>1 DEF Ring, Distinct
<1>3. /\ \A i \in 1..(L - 1) : i < k => r[i] = s[i]
      /\ \A i \in 1..(L - 1) : i >= k => r[i] = s[i + 1]
  BY <1>1 DEF Removed
<1>4. Distinct(r)
  BY <1>2, HasAfterRemove
<1>5. PICK prev \in Node : prev = s[Pred(s, k)]
  BY <1>1, <1>2 DEF Pred
<1>6. PICK succ \in Node : succ = s[Succ(s, k)]
  BY <1>1, <1>2 DEF Succ
<1>7. /\ prev # s[k] => other[prev].next = succ
      /\ succ # s[k] => other[succ].before = prev
      /\ \A m \in Node : /\ m # s[k] /\ m # prev => other[m].next = links[m].next
                         /\ m # s[k] /\ m # succ => other[m].before = links[m].before
  BY <1>5, <1>6 DEF Detached
<1>8. /\ prev = s[IF k = 1 THEN L ELSE k - 1]
      /\ succ = s[IF k = L THEN 1 ELSE k + 1]
  BY <1>1, <1>5, <1>6 DEF Succ, Pred
<1>9. ASSUME L > 1, NEW i \in 1..(L - 1)
      PROVE  other[r[i]].next = r[Succ(r, i)] /\ other[r[i]].before = r[Pred(r, i)]
  <2>1. /\ Succ(r, i) = (IF i = L - 1 THEN 1 ELSE i + 1)
        /\ Pred(r, i) = (IF i = 1 THEN L - 1 ELSE i - 1)
    BY <1>1 DEF Succ, Pred
  <2>2. /\ \A j \in 1..L : Succ(s, j) = (IF j = L THEN 1 ELSE j + 1)
        /\ \A j \in 1..L : Pred(s, j) = (IF j = 1 THEN L ELSE j - 1)
    BY <1>1 DEF Succ, Pred
  <2>3. i \in 1..L
    BY <1>1
  <2>4. 1 \in 1..L /\ 1 \in 1..(L - 1) /\ L - 1 \in 1..(L - 1) /\ L - 1 + 1 = L /\ L \in 1..L
    BY <1>1, <1>9
  <2>5. CASE i < k
    <3>1. r[i] = s[i] /\ s[i] \in Node /\ s[i] # s[k] /\ k # 1
      BY <1>1, <1>2, <1>3, <2>3, <2>5
    <3>2. other[s[i]].next = r[Succ(r, i)]
      <4>1. CASE i = k - 1
        <5>1. s[i] = prev /\ other[s[i]].next = succ
          BY <1>1, <1>7, <1>8, <3>1, <4>1
        <5>2. CASE k = L
          <6>1. Succ(r, i) = 1 /\ succ = s[1] /\ r[1] = s[1]
            BY <1>1, <1>3, <1>8, <1>9, <2>1, <2>4, <4>1, <5>2
          <6> QED
            BY <5>1, <6>1
        <5>3. CASE k # L
          <6>1. k \in 1..(L - 1) /\ Succ(r, i) = k /\ succ = s[k + 1]
            BY <1>1, <1>8, <2>1, <4>1, <5>3
          <6>2. r[k] = s[k + 1]
            <7>1. k >= k
              BY <1>1
            <7> QED
              BY <1>3, <6>1, <7>1
          <6> QED
            BY <5>1, <6>1, <6>2
        <5> QED
          BY <5>2, <5>3
      <4>2. CASE i # k - 1
        <5>1. PICK j \in 1..(L - 1) : j = i + 1
          BY <1>1, <2>5, <4>2
        <5>2. j < k /\ k - 1 \in 1..L /\ i # L /\ i # L - 1
          BY <1>1, <2>5, <3>1, <4>2, <5>1
        <5>3. s[i] # prev
          BY <1>2, <1>8, <2>3, <3>1, <4>2, <5>2
        <5>4. other[s[i]].next = links[s[i]].next
          BY <1>7, <3>1, <5>3
        <5>5. links[s[i]].next = s[j]
          BY <1>2, <2>2, <2>3, <5>1, <5>2
        <5>6. r[Succ(r, i)] = s[j]
          BY <1>3, <2>1, <5>1, <5>2
        <5> QED
          BY <5>4, <5>5, <5>6
      <4> QED
        BY <4>1, <4>2
    <3>3. other[s[i]].before = r[Pred(r, i)]
      <4>1. CASE k = L /\ i = 1
        <5>1. s[i] = succ /\ other[s[i]].before = prev /\ prev = s[L - 1] /\ L - 1 < k
          BY <1>1, <1>7, <1>8, <3>1, <4>1
        <5>2. r[Pred(r, i)] = s[L - 1]
          BY <1>3, <2>1, <2>4, <4>1, <5>1
        <5> QED
          BY <5>1, <5>2
      <4>2. CASE ~(k = L /\ i = 1)
        <5>1. s[i] # succ
          <6>1. k = L \/ (k + 1 \in 1..L /\ k + 1 # i)
            BY <1>1, <2>5
          <6> QED
            BY <1>2, <1>8, <2>3, <2>4, <4>2, <6>1
        <5>2. other[s[i]].before = links[s[i]].before
          BY <1>7, <3>1, <5>1
        <5>3. CASE i = 1
          <6>1. L - 1 >= k
            BY <1>1, <4>2, <5>3
          <6>2. r[Pred(r, i)] = s[L]
            BY <1>3, <2>1, <2>4, <5>3, <6>1
          <6>3. links[s[i]].before = s[L]
            BY <1>2, <2>2, <2>3, <5>3
          <6> QED
            BY <5>2, <6>2, <6>3
        <5>4. CASE i # 1
          <6>1. PICK j \in 1..(L - 1) : j = i - 1
            BY <1>1, <5>4
          <6>2. j < k
            BY <1>1, <2>5, <6>1
          <6>3. r[Pred(r, i)] = s[j]
            BY <1>3, <2>1, <5>4, <6>1, <6>2
          <6>4. links[s[i]].before = s[j]
            BY <1>2, <2>2, <2>3, <5>4, <6>1
          <6> QED
            BY <5>2, <6>3, <6>4
        <5> QED
          BY <5>3, <5>4
      <4> QED
        BY <4>1, <4>2
    <3> QED
      BY <3>1, <3>2, <3>3
  <2>6. CASE i >= k
    <3>1. PICK j \in 1..L : j = i + 1
      BY <1>1
    <3>2. r[i] = s[j] /\ s[j] \in Node /\ s[j] # s[k] /\ j > k /\ k # L
      BY <1>1, <1>2, <1>3, <2>6, <3>1
    <3>3. other[s[j]].next = r[Succ(r, i)]
      <4>1. CASE k = 1 /\ j = L
        <5>1. s[j] = prev /\ other[s[j]].next = succ /\ succ = s[1 + 1]
          BY <1>7, <1>8, <3>2, <4>1
        <5>2. r[Succ(r, i)] = s[1 + 1]
          <6>1. Succ(r, i) = 1 /\ 1 >= k
            BY <1>1, <2>1, <3>1, <4>1
          <6> QED
            BY <1>3, <2>4, <6>1
        <5> QED
          BY <5>1, <5>2
      <4>2. CASE ~(k = 1 /\ j = L)
        <5>1. s[j] # prev
          <6>1. k # 1 => k - 1 \in 1..L /\ k - 1 # j
            BY <1>1, <3>2
          <6> QED
            BY <1>2, <1>8, <2>4, <4>2, <6>1
        <5>2. other[s[j]].next = links[s[j]].next
          BY <1>7, <3>2, <5>1
        <5>3. CASE j = L
          <6>1. 1 < k /\ i = L - 1
            BY <1>1, <3>1, <4>2, <5>3
          <6>2. r[Succ(r, i)] = s[1]
            BY <1>3, <2>1, <2>4, <6>1
          <6>3. links[s[j]].next = s[1]
            BY <1>2, <2>2, <5>3
          <6> QED
            BY <5>2, <6>2, <6>3
        <5>4. CASE j # L
          <6>1. j \in 1..(L - 1) /\ j >= k /\ Succ(r, i) = j
            BY <1>1, <2>1, <3>1, <3>2, <5>4
          <6>2. r[Succ(r, i)] = s[j + 1]
            BY <1>3, <6>1
          <6>3. links[s[j]].next = s[j + 1]
            BY <1>2, <2>2, <5>4
          <6> QED
            BY <5>2, <6>2, <6>3
        <5> QED
          BY <5>3, <5>4
      <4> QED
        BY <4>1, <4>2
    <3>4. other[s[j]].before = r[Pred(r, i)]
      <4>1. succ = s[k + 1] /\ k + 1 \in 1..L
        BY <1>1, <1>8, <3>2
      <4>2. CASE i = k
        <5>1. s[j] = succ /\ other[s[j]].before = prev
          BY <1>7, <3>1, <3>2, <4>1, <4>2
        <5>2. CASE k = 1
          <6>1. Pred(r, i) = L - 1 /\ prev = s[L] /\ L - 1 >= k
            BY <1>1, <1>8, <1>9, <2>1, <4>2, <5>2
          <6> QED
            BY <1>3, <2>4, <5>1, <6>1
        <5>3. CASE k # 1
          <6>1. PICK m \in 1..(L - 1) : m = k - 1
            BY <1>1, <5>3
          <6>2. m < k /\ Pred(r, i) = m /\ prev = s[m]
            BY <1>1, <1>8, <2>1, <4>2, <5>3, <6>1
          <6> QED
            BY <1>3, <5>1, <6>1, <6>2
        <5> QED
          BY <5>2, <5>3
      <4>3. CASE i # k
        <5>1. s[j] # succ
          <6>1. j # k + 1
            BY <1>1, <3>1, <4>3
          <6> QED
            BY <1>2, <4>1, <6>1
        <5>2. other[s[j]].before = links[s[j]].before
          BY <1>7, <3>2, <5>1
        <5>3. PICK m \in 1..(L - 1) : m = i - 1
          BY <1>1, <2>6, <4>3
        <5>4. m >= k /\ m + 1 = i /\ Pred(r, i) = m
          BY <1>1, <2>1, <2>6, <4>3, <5>3
        <5>5. r[Pred(r, i)] = s[i]
          BY <1>3, <5>4
        <5>6. links[s[j]].before = s[i]
          <6>1. Pred(s, j) = i
            BY <1>1, <2>2, <3>1
          <6> QED
            BY <1>2, <6>1
        <5> QED
          BY <5>2, <5>5, <5>6
      <4> QED
        BY <4>2, <4>3
    <3> QED
      BY <3>2, <3>3, <3>4
  <2> QED
    BY <1>1, <2>5, <2>6
<1>10. CASE L = 1
  <2>1. Len(r) = 0 /\ Len(r) <= MaxLinks /\ \A i \in 1..Len(r) : FALSE
    BY <1>1, <1>10
  <2> QED
    BY <1>1, <1>4, <1>10, <2>1 DEF Ring
<1>11. CASE L > 1
  <2>1. \A i \in 1..Len(r) : other[r[i]].next = r[Succ(r, i)] /\ other[r[i]].before = r[Pred(r, i)]
    BY <1>1, <1>9, <1>11
  <2>2. Len(r) <= MaxLinks /\ Len(r) # 0 /\ L # 1
    BY <1>1, <1>11
  <2>3. (IF k = L THEN prev ELSE last) = r[Len(r)]
    <3>1. L - 1 \in 1..(L - 1) /\ Len(r) = L - 1 /\ L - 1 + 1 = L
      BY <1>1, <1>11
    <3>2. CASE k = L
      <4>1. k # 1 /\ L - 1 < k
        BY <1>1, <1>11, <3>2
      <4> QED
        BY <1>3, <1>8, <3>1, <3>2, <4>1
    <3>3. CASE k # L
      <4>1. L - 1 >= k
        BY <1>1, <3>3
      <4> QED
        BY <1>2, <1>3, <3>1, <3>3, <4>1
    <3> QED
      BY <3>2, <3>3
  <2> QED
    BY <1>1, <1>4, <1>5, <2>1, <2>2, <2>3 DEF Ring
<1> QED
  BY <1>1, <1>10, <1>11

LEMMA FreePush ==
  ASSUME NEW links, NEW other, NEW head, NEW t, Free(links, head, t), Len(t) < MaxLinks,
         NEW n \in Node, ~Has(t, n), other[n].next = head,
         \A i \in 1..Len(t) : other[t[i]].next = links[t[i]].next,
         NEW r \in Seq(Node), Inserted(t, 1, n, r)
  PROVE  Free(other, n, r)
<1>1. /\ t \in Seq(Node) /\ Len(t) \in Nat /\ MaxLinks \in Nat /\ Len(t) < MaxLinks /\ Distinct(t)
      /\ head = IF Len(t) = 0 THEN 0 ELSE t[1]
      /\ \A i \in 1..Len(t) : links[t[i]].next = IF i = Len(t) THEN 0 ELSE t[i + 1]
  BY QueueAssumption DEF Free
<1>2. 1 \in 1..(Len(t) + 1)
  BY <1>1
<1>3. Distinct(r)
  BY <1>1, <1>2, HasAfterInsert
<1>4. /\ Len(r) = Len(t) + 1 /\ r[1] = n
      /\ \A i \in 1..(Len(t) + 1) : i > 1 => i - 1 \in 1..Len(t) /\ r[i] = t[i - 1]
  BY <1>1 DEF Inserted
<1>5. ASSUME NEW i \in 1..Len(r)
      PROVE  other[r[i]].next = IF i = Len(r) THEN 0 ELSE r[i + 1]
  <2>1. i \in 1..(Len(t) + 1) /\ Len(r) = Len(t) + 1
    BY <1>4
  <2>2. CASE i = 1
    <3>1. CASE Len(t) = 0
      BY <1>1, <1>4, <2>1, <2>2, <3>1
    <3>2. CASE Len(t) # 0
      <4>1. PICK j \in 1..(Len(t) + 1) : j = i + 1
        BY <1>1, <2>2, <3>2
      <4>2. j > 1 /\ j - 1 = 1 /\ i # Len(r)
        BY <1>1, <2>1, <2>2, <3>2, <4>1
      <4> QED
        BY <1>1, <1>4, <2>2, <3>2, <4>1, <4>2
    <3> QED
      BY <3>1, <3>2
  <2>3. CASE i # 1
    <3>1. PICK m \in 1..Len(t) : m = i - 1
      BY <1>1, <2>1, <2>3
    <3>2. r[i] = t[m] /\ i > 1 /\ m + 1 = i
      BY <1>1, <1>4, <2>1, <2>3, <3>1
    <3>3. other[r[i]].next = IF m = Len(t) THEN 0 ELSE t[m + 1]
      BY <1>1, <3>2
    <3>4. CASE m = Len(t)
      BY <2>1, <3>2, <3>3, <3>4
    <3>5. CASE m # Len(t)
      <4>1. PICK j \in 1..(Len(t) + 1) : j = i + 1
        BY <1>1, <3>1, <3>5
      <4>2. j > 1 /\ j - 1 = m + 1 /\ i # Len(r)
        BY <1>1, <2>1, <3>1, <3>5, <4>1
      <4>3. r[j] = t[m + 1]
        BY <1>4, <4>2
      <4> QED
        BY <3>3, <3>5, <4>1, <4>2, <4>3
    <3> QED
      BY <3>4, <3>5
  <2> QED
    BY <2>2, <2>3
<1>6. Len(r) <= MaxLinks /\ n = (IF Len(r) = 0 THEN 0 ELSE r[1])
  BY <1>1, <1>4
<1> QED
  BY <1>3, <1>5, <1>6 DEF Free

LEMMA FreePop ==
  ASSUME NEW links, NEW head, NEW t, Free(links, head, t), Len(t) > 0,
         NEW r \in Seq(Node), Removed(t, 1, r)
  PROVE  head = t[1] /\ Free(links, links[head].next, r)
<1>1. /\ t \in Seq(Node) /\ Len(t) \in Nat /\ MaxLinks \in Nat /\ Len(t) <= MaxLinks /\ Distinct(t)
      /\ head = t[1] /\ 1 \in 1..Len(t)
      /\ \A i \in 1..Len(t) : links[t[i]].next = IF i = Len(t) THEN 0 ELSE t[i + 1]
  BY QueueAssumption DEF Free
<1>2. Distinct(r)
  BY <1>1, HasAfterRemove
<1>3. /\ Len(r) = Len(t) - 1
      /\ \A i \in 1..(Len(t) - 1) : r[i] = t[i + 1]
  BY <1>1 DEF Removed
<1>4. ASSUME NEW i \in 1..Len(r)
      PROVE  links[r[i]].next = IF i = Len(r) THEN 0 ELSE r[i + 1]
  <2>1. PICK j \in 1..Len(t) : j = i + 1
    BY <1>1, <1>3
  <2>2. r[i] = t[j] /\ (j = Len(t) <=> i = Len(r))
    BY <1>1, <1>3, <2>1
  <2>3. links[r[i]].next = IF j = Len(t) THEN 0 ELSE t[j + 1]
    BY <1>1, <2>2
  <2>4. i # Len(r) => j \in 1..(Len(t) - 1) /\ r[j] = t[j + 1]
    BY <1>1, <1>3, <2>1
  <2> QED
    BY <2>1, <2>2, <2>3, <2>4
<1>5. links[head].next = IF Len(r) = 0 THEN 0 ELSE r[1]
  <2>1. CASE Len(t) = 1
    BY <1>1, <1>3, <2>1
  <2>2. CASE Len(t) # 1
    <3>1. 1 \in 1..(Len(t) - 1) /\ Len(r) # 0
      BY <1>1, <1>3, <2>2
    <3> QED
      BY <1>1, <1>3, <2>2, <3>1
  <2> QED
    BY <2>1, <2>2
<1>6. Len(r) <= MaxLinks
  BY <1>1, <1>3
<1> QED
  BY <1>1, <1>2, <1>4, <1>5, <1>6 DEF Free

-----------------------------------------------------------------------------
(* Where the searches of levelput and leveltup stop *)

\* The new link comes behind the k-th one: levelput puts it behind the last link
\* that is not to leave after it, leveltup before the first one that is.
PutsBehind(v, fv, s, k) ==
    /\ k \in 0..Len(s)
    /\ k > 0 => NotBefore(v, fv, s[k])
    /\ \A i \in 1..Len(s) : i > k => ~NotBefore(v, fv, s[i])
TupsBehind(v, fv, s, k) ==
    /\ k \in 0..Len(s)
    /\ k < Len(s) => ~NotBefore(v, fv, s[k + 1])
    /\ \A i \in 1..Len(s) : i <= k => NotBefore(v, fv, s[i])

LEMMA PutsSomewhere ==
  ASSUME NEW v, NEW fv, NEW s \in Seq(Node)
  PROVE  \E k \in 0..Len(s) : PutsBehind(v, fv, s, k)
<1> DEFINE T == {j \in 0..Len(s) : j < Len(s) => NotBefore(v, fv, s[Len(s) - j])}
<1>1. T \subseteq Nat /\ Len(s) \in T /\ Len(s) \in Nat
  OBVIOUS
<1>2. PICK m \in T : \A j \in T : m <= j
  <2> HIDE DEF T
  <2> QED
    BY <1>1, SmallestOne
<1>3. PICK k \in 0..Len(s) : k = Len(s) - m
  BY <1>1
<1>4. k > 0 => NotBefore(v, fv, s[k])
  <2>1. Len(s) - m = k /\ (k > 0 => m < Len(s))
    BY <1>1, <1>3
  <2> QED
    BY <1>2, <2>1
<1>5. ASSUME NEW i \in 1..Len(s), i > k PROVE ~NotBefore(v, fv, s[i])
  <2>1. PICK j \in 0..Len(s) : j = Len(s) - i
    BY <1>1
  <2>2. ~(m <= j) /\ j < Len(s) /\ Len(s) - j = i
    BY <1>1, <1>3, <1>5, <2>1
  <2>3. j \notin T
    <3> HIDE DEF T
    <3> QED
      BY <1>2, <2>2
  <2> QED
    BY <2>2, <2>3
<1> QED
  BY <1>4, <1>5 DEF PutsBehind

LEMMA TupsSomewhere ==
  ASSUME NEW v, NEW fv, NEW s \in Seq(Node)
  PROVE  \E k \in 0..Len(s) : TupsBehind(v, fv, s, k)
<1> DEFINE T == {j \in 0..Len(s) : j < Len(s) => ~NotBefore(v, fv, s[j + 1])}
<1>1. T \subseteq Nat /\ Len(s) \in T /\ Len(s) \in Nat
  OBVIOUS
<1>2. PICK k \in T : \A j \in T : k <= j
  <2> HIDE DEF T
  <2> QED
    BY <1>1, SmallestOne
<1>3. ASSUME NEW i \in 1..Len(s), i <= k PROVE NotBefore(v, fv, s[i])
  <2>1. PICK j \in 0..Len(s) : j = i - 1
    BY <1>1
  <2>2. ~(k <= j) /\ j < Len(s) /\ j + 1 = i
    BY <1>1, <1>3, <2>1
  <2>3. j \notin T
    <3> HIDE DEF T
    <3> QED
      BY <1>2, <2>2
  <2> QED
    BY <2>2, <2>3
<1> QED
  BY <1>3 DEF TupsBehind

LEMMA LevelputStopIs ==
  ASSUME Typed(link), NEW s, Ring(link, lastNode, s), Len(s) > 0,
         NEW v, NEW fv, NEW k, PutsBehind(v, fv, s, k)
  PROVE  /\ LevelputStop(v, fv) = IF k = 0 THEN lastNode ELSE s[k]
         /\ NotBefore(v, fv, lastNode) <=> k = Len(s)
<1>1. MaxLinks \in Nat
  BY QueueAssumption
<1>2. PICK L \in Nat : L = Len(s) /\ L > 0 /\ L <= MaxLinks /\ s \in Seq(Node) /\ lastNode = s[L]
  BY <1>1 DEF Ring
<1>3. /\ Before(link, lastNode, L) = lastNode
      /\ \A i \in 0..(L - 1) : Before(link, lastNode, i) = s[L - i]
  BY <1>2, RingPathBack
<1>4. /\ k \in 0..L /\ (k > 0 => NotBefore(v, fv, s[k]))
      /\ \A i \in 1..L : i > k => ~NotBefore(v, fv, s[i])
  BY <1>2 DEF PutsBehind
<1> DEFINE at(i) == Before(link, lastNode, i)
           T == {i \in 0..MaxLinks : NotBefore(v, fv, at(i)) \/ (i > 0 /\ at(i) = lastNode)}
<1>5. PICK m \in 0..L : m = L - k
  BY <1>4
<1>6. at(m) = IF k = 0 THEN lastNode ELSE s[k]
  <2>1. CASE k = 0
    BY <1>3, <1>5, <2>1
  <2>2. CASE k # 0
    <3>1. m \in 0..(L - 1) /\ L - m = k
      BY <1>4, <1>5, <2>2
    <3> QED
      BY <1>3, <2>2, <3>1
  <2> QED
    BY <2>1, <2>2
<1>7. m \in T
  <2>1. m \in 0..MaxLinks
    BY <1>1, <1>2
  <2>2. CASE k = 0
    <3>1. m > 0
      BY <1>2, <1>5, <2>2
    <3> QED
      BY <1>6, <2>1, <2>2, <3>1
  <2>3. CASE k # 0
    <3>1. NotBefore(v, fv, at(m))
      BY <1>4, <1>6, <2>3
    <3> QED
      BY <2>1, <3>1
  <2> QED
    BY <2>2, <2>3
<1>8. \A i \in T : m <= i
  <2>1. ASSUME NEW i \in T, i < m PROVE FALSE
    <3>1. i \in 0..(L - 1) /\ L - i \in 1..L /\ L - i > k
      BY <1>1, <1>2, <1>4, <1>5, <2>1
    <3>2. at(i) = s[L - i]
      BY <1>3, <3>1
    <3>3. ~NotBefore(v, fv, at(i))
      BY <1>4, <3>1, <3>2
    <3>4. i > 0 /\ at(i) = lastNode
      BY <3>3
    <3>5. L \in 1..L /\ L - i # L
      BY <1>2, <3>1, <3>4
    <3>6. s[L - i] # s[L]
      BY <1>2, <3>1, <3>5 DEF Ring, Distinct
    <3> QED
      BY <1>2, <3>2, <3>4, <3>6
  <2>2. T \subseteq Nat
    BY <1>1
  <2> HIDE DEF T
  <2> QED
    BY <2>1, <2>2
<1>9. Min(T) = m
  <2>1. T \subseteq Nat
    BY <1>1
  <2> HIDE DEF T
  <2> QED
    BY <1>7, <1>8, <2>1, MinIs
<1>10. LevelputStop(v, fv) = at(Min(T))
  BY DEF LevelputStop
<1>11. NotBefore(v, fv, lastNode) <=> k = L
  <2>1. L \in 1..L
    BY <1>2
  <2> QED
    BY <1>2, <1>4, <2>1
<1> HIDE DEF T
<1> QED
  BY <1>2, <1>6, <1>9, <1>10, <1>11

LEMMA LeveltupStopIs ==
  ASSUME Typed(link), NEW s, Ring(link, lastNode, s), Len(s) > 0,
         NEW v, NEW fv, NEW k, TupsBehind(v, fv, s, k)
  PROVE  /\ LeveltupStop(v, fv) = s[IF k = Len(s) THEN k ELSE k + 1]
         /\ NotBefore(v, fv, LeveltupStop(v, fv)) <=> k = Len(s)
<1>1. MaxLinks \in Nat /\ Node = 1..MaxLinks
  BY QueueAssumption DEF Node
<1>2. PICK L \in Nat : L = Len(s) /\ L > 0 /\ L <= MaxLinks /\ s \in Seq(Node) /\ lastNode = s[L]
  BY <1>1 DEF Ring
<1>3. \A i \in 1..L : After(link, lastNode, i) = s[i]
  <2>1. 0 \in 0..Len(s) /\ Len(s) - 0 = L /\ \A i \in 1..L : 0 + i = i
    BY <1>2
  <2>2. \A i \in 1..(Len(s) - 0) : After(link, lastNode, i) = s[0 + i]
    BY <2>1, RingPath
  <2> QED
    BY <2>1, <2>2
<1>4. /\ k \in 0..L /\ (k < L => ~NotBefore(v, fv, s[k + 1]))
      /\ \A i \in 1..L : i <= k => NotBefore(v, fv, s[i])
  BY <1>2 DEF TupsBehind
<1> DEFINE at(i) == After(link, lastNode, i)
           T == {i \in Node : ~NotBefore(v, fv, at(i)) \/ at(i) = lastNode}
<1>5. PICK m \in 1..L : m = IF k = L THEN k ELSE k + 1
  BY <1>2, <1>4
<1>6. at(m) = s[m]
  BY <1>3
<1>7. m \in T
  <2>1. m \in Node
    BY <1>1, <1>2
  <2>2. CASE k = L
    BY <1>2, <1>5, <1>6, <2>1, <2>2
  <2>3. CASE k # L
    <3>1. ~NotBefore(v, fv, at(m))
      BY <1>4, <1>5, <1>6, <2>3
    <3> QED
      BY <2>1, <3>1
  <2> QED
    BY <2>2, <2>3
<1>8. \A i \in T : m <= i
  <2>1. ASSUME NEW i \in T, i < m PROVE FALSE
    <3>1. i \in 1..L /\ i <= k /\ i # L /\ L \in 1..L
      BY <1>1, <1>2, <1>4, <1>5, <2>1
    <3>2. at(i) = s[i] /\ NotBefore(v, fv, s[i])
      BY <1>3, <1>4, <3>1
    <3>3. s[i] # s[L]
      BY <1>2, <3>1 DEF Ring, Distinct
    <3> QED
      BY <1>2, <3>2, <3>3
  <2>2. T \subseteq Nat
    BY <1>1
  <2> HIDE DEF T
  <2> QED
    BY <2>1, <2>2
<1>9. Min(T) = m
  <2>1. T \subseteq Nat
    BY <1>1
  <2> HIDE DEF T
  <2> QED
    BY <1>7, <1>8, <2>1, MinIs
<1>10. LeveltupStop(v, fv) = at(Min(T))
  BY DEF LeveltupStop
<1> HIDE DEF T
<1>11. LeveltupStop(v, fv) = s[m]
  BY <1>6, <1>9, <1>10
<1>12. NotBefore(v, fv, s[m]) <=> k = L
  <2>1. CASE k = L
    BY <1>4, <1>5, <2>1
  <2>2. CASE k # L
    BY <1>4, <1>5, <2>2
  <2> QED
    BY <2>1, <2>2
<1> QED
  BY <1>2, <1>5, <1>11, <1>12

-----------------------------------------------------------------------------
(* The fields of the links *)

LinkRecord(class) ==
    [e : Node \cup {0} \cup Particle \cup {ProcessStar},
     level : Level \cup {0},
     fine : (IF class THEN EventUse ELSE PlainUse).fine \cup {0, 1},
     next : Null, before : Null]

\* The links of U keep what they hold.
KeepsData(links, other, U) ==
    \A m \in U : /\ other[m].e = links[m].e /\ other[m].level = links[m].level
                 /\ other[m].fine = links[m].fine
KeepsNext(links, other, U) == \A m \in U : other[m].next = links[m].next
KeepsBefore(links, other, U) == \A m \in U : other[m].before = links[m].before

LEMMA LinksAreTyped ==
  ASSUME NEW class, NEW links \in [Node -> LinkRecord(class)]
  PROVE  Typed(links)
BY DEF Typed, LinkRecord

LEMMA SetNext ==
  ASSUME NEW class, NEW links \in [Node -> LinkRecord(class)], NEW p \in Node, NEW q \in Null
  PROVE  \E other \in [Node -> LinkRecord(class)] :
            /\ other = [links EXCEPT ![p].next = q]
            /\ other[p].next = q /\ KeepsNext(links, other, Node \ {p})
            /\ KeepsBefore(links, other, Node) /\ KeepsData(links, other, Node)
<1>1. PICK other : other = [links EXCEPT ![p].next = q]
  OBVIOUS
<1>2. other \in [Node -> LinkRecord(class)]
  BY <1>1 DEF LinkRecord
<1>3. \A m \in Node : /\ other[m].e = links[m].e /\ other[m].level = links[m].level
                      /\ other[m].fine = links[m].fine /\ other[m].before = links[m].before
                      /\ other[m].next = IF m = p THEN q ELSE links[m].next
  BY <1>1 DEF LinkRecord
<1> QED
  BY <1>1, <1>2, <1>3 DEF KeepsNext, KeepsBefore, KeepsData

LEMMA SetBefore ==
  ASSUME NEW class, NEW links \in [Node -> LinkRecord(class)], NEW p \in Node, NEW q \in Null
  PROVE  \E other \in [Node -> LinkRecord(class)] :
            /\ other = [links EXCEPT ![p].before = q]
            /\ other[p].before = q /\ KeepsBefore(links, other, Node \ {p})
            /\ KeepsNext(links, other, Node) /\ KeepsData(links, other, Node)
<1>1. PICK other : other = [links EXCEPT ![p].before = q]
  OBVIOUS
<1>2. other \in [Node -> LinkRecord(class)]
  BY <1>1 DEF LinkRecord
<1>3. \A m \in Node : /\ other[m].e = links[m].e /\ other[m].level = links[m].level
                      /\ other[m].fine = links[m].fine /\ other[m].next = links[m].next
                      /\ other[m].before = IF m = p THEN q ELSE links[m].before
  BY <1>1 DEF LinkRecord
<1> QED
  BY <1>1, <1>2, <1>3 DEF KeepsNext, KeepsBefore, KeepsData

LEMMA SetRecord ==
  ASSUME NEW class, NEW links \in [Node -> LinkRecord(class)], NEW p \in Node,
         NEW x \in LinkRecord(class)
  PROVE  \E other \in [Node -> LinkRecord(class)] :
            /\ other = [links EXCEPT ![p] = x]
            /\ other[p] = x /\ KeepsNext(links, other, Node \ {p})
            /\ KeepsBefore(links, other, Node \ {p}) /\ KeepsData(links, other, Node \ {p})
<1>1. PICK other : other = [links EXCEPT ![p] = x]
  OBVIOUS
<1>2. other \in [Node -> LinkRecord(class)]
  BY <1>1
<1>3. other[p] = x /\ \A m \in Node \ {p} : other[m] = links[m]
  BY <1>1
<1> QED
  BY <1>1, <1>2, <1>3 DEF KeepsNext, KeepsBefore, KeepsData

\* putFreeLink
LEMMA SetFreed ==
  ASSUME NEW class, NEW links \in [Node -> LinkRecord(class)], NEW p \in Node, NEW q \in Null
  PROVE  \E other \in [Node -> LinkRecord(class)] :
            /\ other = [links EXCEPT ![p] = Freed(q)]
            /\ other[p].next = q /\ KeepsNext(links, other, Node \ {p})
            /\ KeepsBefore(links, other, Node \ {p}) /\ KeepsData(links, other, Node \ {p})
<1>1. Freed(q) = [e |-> 0, level |-> 0, fine |-> 0, next |-> q, before |-> 0]
  BY DEF Freed, Blank
<1>2. 0 \in Null
  BY QueueAssumption DEF Null
<1>3. Freed(q) \in LinkRecord(class) /\ Freed(q).next = q
  BY <1>1, <1>2 DEF LinkRecord
<1>4. PICK x \in LinkRecord(class) : x = Freed(q) /\ x.next = q
  BY <1>3
<1>5. PICK other \in [Node -> LinkRecord(class)] :
            /\ other = [links EXCEPT ![p] = x]
            /\ other[p] = x /\ KeepsNext(links, other, Node \ {p})
            /\ KeepsBefore(links, other, Node \ {p}) /\ KeepsData(links, other, Node \ {p})
  BY SetRecord
<1> QED
  BY <1>4, <1>5

\* The links between which the k-th one of s is, or is to come.
PrevOf(s, k, n) == IF Len(s) = 0 THEN n ELSE s[IF k = 1 THEN Len(s) ELSE k - 1]
SuccOf(s, k, n) == IF Len(s) = 0 THEN n ELSE s[IF k = Len(s) + 1 THEN 1 ELSE k]

LEMMA NeighboursAreLinks ==
  ASSUME NEW s \in Seq(Node), NEW k \in 1..(Len(s) + 1), NEW n \in Node
  PROVE  /\ PrevOf(s, k, n) \in Node /\ SuccOf(s, k, n) \in Node
         /\ Has(s, PrevOf(s, k, n)) \/ PrevOf(s, k, n) = n
         /\ Has(s, SuccOf(s, k, n)) \/ SuccOf(s, k, n) = n
<1>1. Len(s) \in Nat
  OBVIOUS
<1>2. CASE Len(s) = 0
  BY <1>2 DEF PrevOf, SuccOf
<1>3. CASE Len(s) # 0
  <2>1. PICK i \in 1..Len(s) : i = IF k = 1 THEN Len(s) ELSE k - 1
    BY <1>1, <1>3
  <2>2. PICK j \in 1..Len(s) : j = IF k = Len(s) + 1 THEN 1 ELSE k
    BY <1>1, <1>3
  <2>3. PrevOf(s, k, n) = s[i] /\ SuccOf(s, k, n) = s[j]
    BY <1>3, <2>1, <2>2 DEF PrevOf, SuccOf
  <2>4. s[i] \in Node /\ s[j] \in Node /\ Has(s, s[i]) /\ Has(s, s[j])
    BY DEF Has
  <2> QED
    BY <2>3, <2>4
<1> QED
  BY <1>2, <1>3

Linked(links, n, prev, succ) == [links EXCEPT ![succ].before = n, ![prev].next = n]
Unlinked(links, prev, succ) == [links EXCEPT ![prev].next = succ, ![succ].before = prev]

\* The four assignments of an insertion, in the order of setLink and of pushBack.
LEMMA Attaches ==
  ASSUME NEW class, NEW links \in [Node -> LinkRecord(class)], NEW n \in Node,
         NEW prev \in Node, NEW succ \in Node, prev = n <=> succ = n,
         links[n].next = succ, links[n].before = prev
  PROVE  \E other \in [Node -> LinkRecord(class)] :
            /\ other = Linked(links, n, prev, succ)
            /\ Attached(links, other, n, prev, succ)
            /\ KeepsNext(links, other, Node \ {n, prev}) /\ KeepsData(links, other, Node)
<1>1. n \in Null
  BY DEF Null, Node
<1>2. PICK a \in [Node -> LinkRecord(class)] :
            /\ a = [links EXCEPT ![succ].before = n]
            /\ a[succ].before = n /\ KeepsBefore(links, a, Node \ {succ})
            /\ KeepsNext(links, a, Node) /\ KeepsData(links, a, Node)
  BY <1>1, SetBefore
<1>3. PICK b \in [Node -> LinkRecord(class)] :
            /\ b = [a EXCEPT ![prev].next = n]
            /\ b[prev].next = n /\ KeepsNext(a, b, Node \ {prev})
            /\ KeepsBefore(a, b, Node) /\ KeepsData(a, b, Node)
  BY <1>1, SetNext
<1>4. b = Linked(links, n, prev, succ)
  BY <1>2, <1>3 DEF Linked
<1>5. /\ b[n].next = succ /\ b[n].before = prev /\ b[prev].next = n /\ b[succ].before = n
  BY <1>2, <1>3 DEF KeepsNext, KeepsBefore
<1>6. /\ \A m \in Node : m # n /\ m # prev => b[m].next = links[m].next
      /\ \A m \in Node : m # n /\ m # succ => b[m].before = links[m].before
  BY <1>2, <1>3 DEF KeepsNext, KeepsBefore
<1>7. KeepsData(links, b, Node)
  BY <1>2, <1>3 DEF KeepsData
<1>8. KeepsNext(links, b, Node \ {n, prev})
  BY <1>6 DEF KeepsNext
<1> QED
  BY <1>4, <1>5, <1>6, <1>7, <1>8 DEF Attached

\* The two assignments of a removal.
LEMMA Detaches ==
  ASSUME NEW class, NEW links \in [Node -> LinkRecord(class)], NEW last, NEW s,
         Ring(links, last, s), NEW k \in 1..Len(s)
  PROVE  \E other \in [Node -> LinkRecord(class)] :
            /\ other = Unlinked(links, s[Pred(s, k)], s[Succ(s, k)])
            /\ Detached(links, other, s, k) /\ other[s[k]].before = s[Pred(s, k)]
            /\ KeepsNext(links, other, Node \ {s[Pred(s, k)]}) /\ KeepsData(links, other, Node)
<1>a. PICK prev, succ : prev = s[Pred(s, k)] /\ succ = s[Succ(s, k)]
  OBVIOUS
<1>1. s \in Seq(Node) /\ Len(s) \in Nat
  BY DEF Ring
<1>2. prev \in Node /\ succ \in Node /\ Node \subseteq Null /\ s[k] \in Node
  <2>1. Pred(s, k) \in 1..Len(s) /\ Succ(s, k) \in 1..Len(s)
    BY <1>1 DEF Pred, Succ
  <2> QED
    BY <1>1, <1>a, <2>1, QueueAssumption DEF Null, Node
<1>3. PICK a \in [Node -> LinkRecord(class)] :
            /\ a = [links EXCEPT ![prev].next = succ]
            /\ a[prev].next = succ /\ KeepsNext(links, a, Node \ {prev})
            /\ KeepsBefore(links, a, Node) /\ KeepsData(links, a, Node)
  <2>1. succ \in Null
    BY <1>2
  <2> QED
    BY <1>2, <2>1, SetNext
<1>4. PICK b \in [Node -> LinkRecord(class)] :
            /\ b = [a EXCEPT ![succ].before = prev]
            /\ b[succ].before = prev /\ KeepsBefore(a, b, Node \ {succ})
            /\ KeepsNext(a, b, Node) /\ KeepsData(a, b, Node)
  <2>1. prev \in Null
    BY <1>2
  <2> QED
    BY <1>2, <2>1, SetBefore
<1>5. b = Unlinked(links, prev, succ)
  BY <1>3, <1>4 DEF Unlinked
<1>6. b[prev].next = succ /\ b[succ].before = prev
  BY <1>2, <1>3, <1>4 DEF KeepsNext
<1>7. /\ \A m \in Node : m # prev => b[m].next = links[m].next
      /\ \A m \in Node : m # succ => b[m].before = links[m].before
  BY <1>3, <1>4 DEF KeepsNext, KeepsBefore
<1>8. b[s[k]].before = prev
  <2>1. links[s[k]].before = prev
    BY <1>a DEF Ring
  <2> QED
    BY <1>2, <1>6, <1>7, <2>1
<1>9. KeepsData(links, b, Node)
  BY <1>3, <1>4 DEF KeepsData
<1>10. KeepsNext(links, b, Node \ {prev})
  BY <1>7 DEF KeepsNext
<1>11. Detached(links, b, s, k)
  BY <1>a, <1>6, <1>7 DEF Detached
<1> QED
  BY <1>a, <1>5, <1>8, <1>9, <1>10, <1>11

-----------------------------------------------------------------------------
(* Every link made with new is in the ring, in the free list, or out *)

Store(links, last, head, made, count, out, s, t) ==
    /\ Ring(links, last, s) /\ Free(links, head, t)
    /\ made \in 0..MaxLinks /\ out \in Null /\ count = Len(s)
    /\ ~Has(s, out) /\ ~Has(t, out) /\ \A m \in Node : ~(Has(s, m) /\ Has(t, m))
    /\ \A m \in Node : m <= made <=> Has(s, m) \/ Has(t, m) \/ m = out
    /\ made = Len(s) + Len(t) + (IF out = 0 THEN 0 ELSE 1)

LEMMA StoreSame ==
  ASSUME NEW links, NEW other, NEW last, NEW head, NEW made, NEW count, NEW out,
         NEW s, NEW t, Store(links, last, head, made, count, out, s, t),
         KeepsNext(links, other, Node \ {out}), KeepsBefore(links, other, Node \ {out})
  PROVE  Store(other, last, head, made, count, out, s, t)
<1>1. /\ Ring(links, last, s) /\ s \in Seq(Node) /\ ~Has(s, out)
      /\ Free(links, head, t) /\ t \in Seq(Node) /\ ~Has(t, out)
  BY DEF Store, Ring, Free
<1>2. /\ \A i \in 1..Len(s) : s[i] \in Node \ {out}
      /\ \A i \in 1..Len(t) : t[i] \in Node \ {out}
  BY <1>1 DEF Has
<1>3. Ring(other, last, s)
  BY <1>1, <1>2, RingSame DEF KeepsNext, KeepsBefore
<1>4. Free(other, head, t)
  BY <1>1, <1>2, FreeSame DEF KeepsNext
<1> QED
  BY <1>3, <1>4 DEF Store

\* getFreeLink
LEMMA StoreTake ==
  ASSUME NEW links, NEW last, NEW head, NEW made, NEW count, NEW s, NEW t,
         Store(links, last, head, made, count, 0, s, t), Len(s) < MaxLinks,
         NEW n, n = (IF head # 0 THEN head ELSE made + 1),
         NEW top, top = (IF head # 0 THEN links[head].next ELSE head),
         NEW more, more = (IF head # 0 THEN made ELSE made + 1)
  PROVE  n \in Node /\ \E u \in Seq(Node) : Store(links, last, top, more, count, n, s, u)
<1>1. MaxLinks \in Nat /\ Node = 1..MaxLinks /\ Null = 0..MaxLinks
  BY QueueAssumption DEF Node, Null
<1>2. /\ Ring(links, last, s) /\ s \in Seq(Node) /\ Len(s) \in Nat
      /\ Free(links, head, t) /\ t \in Seq(Node) /\ Len(t) \in Nat /\ Distinct(t)
      /\ head = (IF Len(t) = 0 THEN 0 ELSE t[1])
      /\ made \in 0..MaxLinks /\ count = Len(s) /\ made = Len(s) + Len(t)
      /\ \A m \in Node : ~(Has(s, m) /\ Has(t, m))
      /\ \A m \in Node : m <= made <=> Has(s, m) \/ Has(t, m) \/ m = 0
  BY DEF Store, Ring, Free
<1>3. \A m \in Node : m <= made <=> Has(s, m) \/ Has(t, m)
  BY <1>1, <1>2
<1>4. CASE Len(t) = 0
  <2>1. head = 0 /\ n = made + 1 /\ top = head /\ more = made + 1 /\ n \in Node /\ n # 0
    BY <1>1, <1>2, <1>4
  <2>2. ~Has(s, n) /\ ~Has(t, n)
    BY <1>1, <1>2, <1>3, <2>1
  <2>3. \A m \in Node : m <= more <=> Has(s, m) \/ Has(t, m) \/ m = n
    <3>1. \A m \in Node : m <= more <=> m <= made \/ m = n
      BY <1>1, <1>2, <2>1
    <3> QED
      BY <1>3, <3>1
  <2>4. more \in 0..MaxLinks /\ n \in Null /\ more = Len(s) + Len(t) + (IF n = 0 THEN 0 ELSE 1)
    BY <1>1, <1>2, <2>1
  <2>5. Store(links, last, top, more, count, n, s, t)
    BY <1>2, <2>1, <2>2, <2>3, <2>4 DEF Store
  <2> QED
    BY <1>2, <2>1, <2>5
<1>5. CASE Len(t) > 0
  <2>1. 1 \in 1..Len(t) /\ t # <<>>
    BY <1>2, <1>5
  <2>2. PICK u \in Seq(Node) : Removed(t, 1, u)
    BY <1>2, <2>1, TailRemoves
  <2>3. head = t[1] /\ Free(links, links[head].next, u)
    BY <1>2, <1>5, <2>2, FreePop
  <2>4. head \in Node /\ head # 0 /\ n = head /\ top = links[head].next /\ more = made
    BY <1>1, <1>2, <2>1, <2>3
  <2>5. (\A m : Has(u, m) <=> Has(t, m) /\ m # n) /\ Has(t, n)
    <3>1. \A m : Has(u, m) <=> Has(t, m) /\ m # t[1]
      BY <1>2, <2>1, <2>2, HasAfterRemove
    <3>2. Has(t, t[1])
      BY <2>1 DEF Has
    <3> QED
      BY <2>3, <2>4, <3>1, <3>2
  <2>6. ~Has(s, n) /\ ~Has(u, n)
    BY <1>2, <2>4, <2>5
  <2>7. \A m \in Node : m <= more <=> Has(s, m) \/ Has(u, m) \/ m = n
    BY <1>3, <2>4, <2>5
  <2>8. Len(u) = Len(t) - 1
    BY <2>2 DEF Removed
  <2>9. more \in 0..MaxLinks /\ n \in Null /\ more = Len(s) + Len(u) + (IF n = 0 THEN 0 ELSE 1)
    BY <1>1, <1>2, <2>4, <2>8
  <2>10. \A m \in Node : ~(Has(s, m) /\ Has(u, m))
    BY <1>2, <2>5
  <2>11. Store(links, last, top, more, count, n, s, u)
    BY <1>2, <2>3, <2>4, <2>6, <2>7, <2>9, <2>10 DEF Store
  <2> QED
    BY <2>4, <2>11
<1> QED
  BY <1>2, <1>4, <1>5

\* The link that is out comes into the ring.
LEMMA StoreInsert ==
  ASSUME NEW links, NEW other, NEW last, NEW head, NEW made, NEW count, NEW n \in Node,
         NEW s, NEW t, Store(links, last, head, made, count, n, s, t),
         NEW k \in 1..(Len(s) + 1),
         Attached(links, other, n, PrevOf(s, k, n), SuccOf(s, k, n)),
         NEW r \in Seq(Node), Inserted(s, k, n, r)
  PROVE  Store(other, IF k = Len(s) + 1 THEN n ELSE last, head, made, count + 1, 0, r, t)
<1>1. MaxLinks \in Nat /\ Node = 1..MaxLinks /\ Null = 0..MaxLinks
  BY QueueAssumption DEF Node, Null
<1>2. /\ Ring(links, last, s) /\ s \in Seq(Node) /\ Len(s) \in Nat
      /\ Free(links, head, t) /\ t \in Seq(Node) /\ Len(t) \in Nat
      /\ made \in 0..MaxLinks /\ count = Len(s)
      /\ ~Has(s, n) /\ ~Has(t, n) /\ (\A m \in Node : ~(Has(s, m) /\ Has(t, m)))
      /\ \A m \in Node : m <= made <=> Has(s, m) \/ Has(t, m) \/ m = n
  BY DEF Store, Ring, Free
<1>3. made = Len(s) + Len(t) + 1 /\ Len(s) < MaxLinks
  <2>1. made = Len(s) + Len(t) + (IF n = 0 THEN 0 ELSE 1) /\ n # 0
    BY <1>1 DEF Store
  <2> QED
    BY <1>1, <1>2, <2>1
<1>4. PICK prev : prev = PrevOf(s, k, n)
  OBVIOUS
<1>5. PICK succ : succ = SuccOf(s, k, n)
  OBVIOUS
<1>6. Attached(links, other, n, prev, succ) /\ prev \in Node /\ (Has(s, prev) \/ prev = n)
  BY <1>2, <1>4, <1>5, NeighboursAreLinks
<1>7. /\ Len(s) = 0 => prev = n /\ succ = n
      /\ Len(s) > 0 => /\ prev = s[IF k = 1 THEN Len(s) ELSE k - 1]
                       /\ succ = s[IF k = Len(s) + 1 THEN 1 ELSE k]
  BY <1>4, <1>5 DEF PrevOf, SuccOf
<1>8. Ring(other, IF k = Len(s) + 1 THEN n ELSE last, r)
  BY <1>2, <1>3, <1>6, <1>7, RingInsert
<1>9. Free(other, head, t)
  <2>1. \A i \in 1..Len(t) : t[i] \in Node /\ Has(t, t[i])
    BY <1>2 DEF Has
  <2>2. \A i \in 1..Len(t) : t[i] # n /\ t[i] # prev
    BY <1>2, <1>6, <2>1
  <2>3. \A i \in 1..Len(t) : other[t[i]].next = links[t[i]].next
    BY <1>6, <2>1, <2>2 DEF Attached
  <2> QED
    BY <1>2, <2>3, FreeSame
<1>10. \A m : Has(r, m) <=> m = n \/ Has(s, m)
  BY <1>2, HasAfterInsert
<1>11. Len(r) = Len(s) + 1
  BY DEF Inserted
<1>12. ~Has(r, 0) /\ ~Has(t, 0)
  <2>1. \A m : Has(r, m) \/ Has(t, m) => m \in Node
    BY <1>2 DEF Has
  <2> QED
    BY <1>1, <2>1
<1>13. /\ \A m \in Node : ~(Has(r, m) /\ Has(t, m))
       /\ \A m \in Node : m <= made <=> Has(r, m) \/ Has(t, m) \/ m = 0
  BY <1>1, <1>2, <1>10
<1>14. /\ 0 \in Null /\ count + 1 = Len(r)
       /\ made = Len(r) + Len(t) + (IF 0 = 0 THEN 0 ELSE 1)
  BY <1>1, <1>2, <1>3, <1>11
<1> QED
  BY <1>2, <1>8, <1>9, <1>12, <1>13, <1>14 DEF Store

\* The k-th link leaves the ring, and is out.
LEMMA StoreRemove ==
  ASSUME NEW links, NEW other, NEW last, NEW head, NEW made, NEW count,
         NEW s, NEW t, Store(links, last, head, made, count, 0, s, t),
         NEW k \in 1..Len(s), Detached(links, other, s, k),
         NEW r \in Seq(Node), Removed(s, k, r)
  PROVE  Store(other, IF Len(s) = 1 THEN 0 ELSE IF k = Len(s) THEN s[Pred(s, k)] ELSE last,
               head, made, count - 1, s[k], r, t)
<1>1. MaxLinks \in Nat /\ Node = 1..MaxLinks /\ Null = 0..MaxLinks
  BY QueueAssumption DEF Node, Null
<1>2. /\ Ring(links, last, s) /\ s \in Seq(Node) /\ Len(s) \in Nat /\ Distinct(s)
      /\ Free(links, head, t) /\ t \in Seq(Node) /\ Len(t) \in Nat
      /\ made \in 0..MaxLinks /\ count = Len(s) /\ made = Len(s) + Len(t)
      /\ (\A m \in Node : ~(Has(s, m) /\ Has(t, m)))
      /\ \A m \in Node : m <= made <=> Has(s, m) \/ Has(t, m) \/ m = 0
  BY DEF Store, Ring, Free
<1>3. Ring(other, IF Len(s) = 1 THEN 0 ELSE IF k = Len(s) THEN s[Pred(s, k)] ELSE last, r)
  BY <1>2, RingRemove
<1>4. PICK n \in Node : n = s[k] /\ Has(s, n) /\ n # 0
  BY <1>1, <1>2 DEF Has
<1>5. PICK prev : prev = s[Pred(s, k)] /\ Has(s, prev)
  <2>1. Pred(s, k) \in 1..Len(s)
    BY <1>2 DEF Pred
  <2> QED
    BY <2>1 DEF Has
<1>6. Free(other, head, t)
  <2>1. \A i \in 1..Len(t) : t[i] \in Node /\ Has(t, t[i])
    BY <1>2 DEF Has
  <2>2. \A i \in 1..Len(t) : t[i] # n /\ t[i] # prev
    BY <1>2, <1>4, <1>5, <2>1
  <2>3. \A i \in 1..Len(t) : other[t[i]].next = links[t[i]].next
    BY <1>4, <1>5, <2>1, <2>2 DEF Detached
  <2> QED
    BY <1>2, <2>3, FreeSame
<1>7. \A m : Has(r, m) <=> Has(s, m) /\ m # n
  BY <1>2, <1>4, HasAfterRemove
<1>8. Len(r) = Len(s) - 1
  BY DEF Removed
<1>9. /\ ~Has(r, n) /\ ~Has(t, n) /\ \A m \in Node : ~(Has(r, m) /\ Has(t, m))
      /\ \A m \in Node : m <= made <=> Has(r, m) \/ Has(t, m) \/ m = n
  BY <1>1, <1>2, <1>4, <1>7
<1>10. /\ n \in Null /\ count - 1 = Len(r)
       /\ made = Len(r) + Len(t) + (IF n = 0 THEN 0 ELSE 1)
  BY <1>1, <1>2, <1>4, <1>8
<1> QED
  BY <1>2, <1>3, <1>4, <1>6, <1>9, <1>10 DEF Store

\* putFreeLink
LEMMA StoreRelease ==
  ASSUME NEW links, NEW other, NEW last, NEW head, NEW made, NEW count, NEW n \in Node,
         NEW s, NEW t, Store(links, last, head, made, count, n, s, t),
         other[n].next = head, KeepsNext(links, other, Node \ {n}),
         KeepsBefore(links, other, Node \ {n}),
         NEW u \in Seq(Node), Inserted(t, 1, n, u)
  PROVE  Store(other, last, n, made, count, 0, s, u)
<1>1. MaxLinks \in Nat /\ Node = 1..MaxLinks /\ Null = 0..MaxLinks
  BY QueueAssumption DEF Node, Null
<1>2. /\ Ring(links, last, s) /\ s \in Seq(Node) /\ Len(s) \in Nat
      /\ Free(links, head, t) /\ t \in Seq(Node) /\ Len(t) \in Nat
      /\ made \in 0..MaxLinks /\ count = Len(s)
      /\ ~Has(s, n) /\ ~Has(t, n) /\ (\A m \in Node : ~(Has(s, m) /\ Has(t, m)))
      /\ \A m \in Node : m <= made <=> Has(s, m) \/ Has(t, m) \/ m = n
  BY DEF Store, Ring, Free
<1>3. made = Len(s) + Len(t) + 1 /\ Len(t) < MaxLinks /\ 1 \in 1..(Len(t) + 1)
  <2>1. made = Len(s) + Len(t) + (IF n = 0 THEN 0 ELSE 1) /\ n # 0
    BY <1>1 DEF Store
  <2> QED
    BY <1>1, <1>2, <2>1
<1>4. Store(other, last, head, made, count, n, s, t)
  BY StoreSame
<1>5. \A i \in 1..Len(t) : other[t[i]].next = links[t[i]].next
  <2>1. \A i \in 1..Len(t) : t[i] \in Node \ {n}
    BY <1>2 DEF Has
  <2> QED
    BY <2>1 DEF KeepsNext
<1>6. Free(other, n, u)
  BY <1>2, <1>3, <1>5, FreePush
<1>7. \A m : Has(u, m) <=> m = n \/ Has(t, m)
  BY <1>2, <1>3, HasAfterInsert
<1>8. Len(u) = Len(t) + 1
  BY DEF Inserted
<1>9. ~Has(s, 0) /\ ~Has(u, 0)
  <2>1. \A m : Has(s, m) \/ Has(u, m) => m \in Node
    BY <1>2 DEF Has
  <2> QED
    BY <1>1, <2>1
<1>10. /\ \A m \in Node : ~(Has(s, m) /\ Has(u, m))
       /\ \A m \in Node : m <= made <=> Has(s, m) \/ Has(u, m) \/ m = 0
  BY <1>1, <1>2, <1>7
<1>11. 0 \in Null /\ made = Len(s) + Len(u) + (IF 0 = 0 THEN 0 ELSE 1)
  BY <1>1, <1>2, <1>3, <1>8
<1>12. Ring(other, last, s)
  BY <1>4 DEF Store
<1> QED
  BY <1>2, <1>6, <1>9, <1>10, <1>11, <1>12 DEF Store

-----------------------------------------------------------------------------
(* Every Event record made with new belongs to one used link, or is free *)

Used(s, out) == {m \in Node : Has(s, m) \/ m = out}

EventsOfQueue(links, U, particles, free, made) ==
    /\ \A m \in U : links[m].fine # 0 => /\ links[m].e \in made /\ ~Has(free, links[m].e)
                                         /\ particles[links[m].e] \in Particle
    /\ \A m \in U : links[m].fine = 0 => links[m].e = ProcessStar
    /\ \A m, n \in U : m # n /\ links[m].fine # 0 /\ links[n].fine # 0 =>
            links[m].e # links[n].e /\ particles[links[m].e] # particles[links[n].e]
    /\ \A x \in Node : Has(free, x) => x \in made
    /\ \A x \in made : Has(free, x) \/ \E m \in U : links[m].fine # 0 /\ links[m].e = x

Events(class, links, U, particles, free, made) ==
    /\ U \subseteq Node /\ free \in Seq(Node) /\ Distinct(free) /\ made \subseteq Node
    /\ \A m \in U : links[m].level \in Level
    /\ class => EventsOfQueue(links, U, particles, free, made)
    /\ ~class => made = {} /\ free = <<>> /\ \A m \in U : links[m].e \in Particle

LEMMA EventsSame ==
  ASSUME NEW class, NEW links, NEW other, NEW U, NEW particles, NEW free, NEW made,
         Events(class, links, U, particles, free, made), KeepsData(links, other, U)
  PROVE  Events(class, other, U, particles, free, made)
<1>1. \A m \in U : /\ other[m].e = links[m].e /\ other[m].level = links[m].level
                   /\ other[m].fine = links[m].fine
  BY DEF KeepsData
<1>2. EventsOfQueue(links, U, particles, free, made) => EventsOfQueue(other, U, particles, free, made)
  <2>1. SUFFICES ASSUME EventsOfQueue(links, U, particles, free, made)
                 PROVE  EventsOfQueue(other, U, particles, free, made)
    OBVIOUS
  <2>2. \A x \in made : Has(free, x) \/ \E m \in U : other[m].fine # 0 /\ other[m].e = x
    BY <1>1, <2>1 DEF EventsOfQueue
  <2>3. \A m, n \in U : m # n /\ other[m].fine # 0 /\ other[n].fine # 0 =>
            other[m].e # other[n].e /\ particles[other[m].e] # particles[other[n].e]
    BY <1>1, <2>1 DEF EventsOfQueue
  <2> QED
    BY <1>1, <2>1, <2>2, <2>3 DEF EventsOfQueue
<1>3. \A m \in U : other[m].level \in Level /\ (links[m].e \in Particle => other[m].e \in Particle)
  BY <1>1 DEF Events
<1> QED
  BY <1>2, <1>3 DEF Events

\* There is a record that was not made yet when all those made are in use.
LEMMA RecordIsLeft ==
  ASSUME NEW links, NEW s \in Seq(Node), Len(s) < MaxLinks, NEW particles, NEW made,
         made \subseteq Node, EventsOfQueue(links, Used(s, 0), particles, <<>>, made)
  PROVE  Min(Node \ made) \in Node \ made
<1>1. MaxLinks \in Nat /\ Node = 1..MaxLinks /\ Len(s) \in Nat
  BY QueueAssumption DEF Node
<1>2. made # Node
  <2>1. SUFFICES ASSUME made = Node PROVE FALSE
    OBVIOUS
  <2>2. \A x \in Node : \E i \in 1..Len(s) : links[s[i]].e = x
    <3>1. \A x \in Node : \E m \in Used(s, 0) : links[m].e = x
      <4>1. \A x \in Node : ~Has(<<>>, x)
        BY DEF Has
      <4> QED
        BY <2>1, <4>1 DEF EventsOfQueue
    <3>2. \A m \in Used(s, 0) : \E i \in 1..Len(s) : s[i] = m
      BY <1>1 DEF Used, Has
    <3> QED
      BY <3>1, <3>2
  <2>3. PICK f : f = [x \in Node |-> CHOOSE i \in 1..Len(s) : links[s[i]].e = x]
    OBVIOUS
  <2>4. \A x \in Node : f[x] \in 1..Len(s) /\ links[s[f[x]]].e = x
    BY <2>2, <2>3
  <2>5. f \in [Node -> 1..Len(s)]
    BY <2>3, <2>4
  <2>6. IsFiniteSet(Node) /\ Cardinality(Node) = MaxLinks
    <3>1. 1 \in Int /\ MaxLinks \in Int /\ ~(1 > MaxLinks) /\ MaxLinks - 1 + 1 = MaxLinks
      BY <1>1
    <3> QED
      BY <1>1, <3>1, FS_Interval
  <2>7. Cardinality(1..Len(s)) = Len(s) /\ IsFiniteSet(1..Len(s))
    <3>1. CASE Len(s) = 0
      <4>1. 1..Len(s) = {}
        BY <3>1
      <4> QED
        BY <3>1, <4>1, FS_EmptySet
    <3>2. CASE Len(s) # 0
      <4>1. 1 \in Int /\ Len(s) \in Int /\ ~(1 > Len(s)) /\ Len(s) - 1 + 1 = Len(s)
        BY <1>1, <3>2
      <4> QED
        BY <4>1, FS_Interval
    <3> QED
      BY <3>1, <3>2
  <2>8. \E x, y \in Node : x # y /\ f[x] = f[y]
    BY <2>5, <2>6, <2>7, FS_PigeonHole
  <2> QED
    BY <2>4, <2>8
<1>3. PICK m \in Node \ made : \A k \in Node \ made : m <= k
  <2>1. Node \ made \subseteq Nat
    BY <1>1
  <2>2. ASSUME Node \ made = {} PROVE FALSE
    <3>1. \A x : x \in made <=> x \in Node
      BY <2>2
    <3>2. made = Node
      BY <3>1
    <3> QED
      BY <1>2, <3>2
  <2> QED
    BY <2>1, <2>2, SmallestOne
<1>4. Min(Node \ made) = m
  <2>1. Node \ made \subseteq Nat
    BY <1>1
  <2> QED
    BY <1>3, <2>1, MinIs
<1> QED
  BY <1>3, <1>4

\* A wormhole comes in.
LEMMA EventsGainStar ==
  ASSUME NEW class, class = TRUE, NEW links, NEW other, NEW U, NEW particles, NEW free, NEW made,
         Events(class, links, U, particles, free, made), KeepsData(links, other, U),
         NEW n \in Node, n \notin U, other[n].level \in Level,
         other[n].fine = 0, other[n].e = ProcessStar, NEW V, V = U \cup {n}
  PROVE  Events(class, other, V, particles, free, made)
<1>1. Events(class, other, U, particles, free, made)
  BY EventsSame
<1>2. EventsOfQueue(other, U, particles, free, made)
  BY <1>1 DEF Events
<1>3. EventsOfQueue(other, V, particles, free, made)
  <2>1. \A m \in V : m \in U \/ m = n
    OBVIOUS
  <2>2. \A m, k \in V : m # k /\ other[m].fine # 0 /\ other[k].fine # 0 =>
            other[m].e # other[k].e /\ particles[other[m].e] # particles[other[k].e]
    BY <1>2, <2>1 DEF EventsOfQueue
  <2>3. \A x \in made : Has(free, x) \/ \E m \in V : other[m].fine # 0 /\ other[m].e = x
    BY <1>2 DEF EventsOfQueue
  <2>4. \A m \in V : other[m].fine # 0 => /\ other[m].e \in made /\ ~Has(free, other[m].e)
                                          /\ particles[other[m].e] \in Particle
    BY <1>2, <2>1 DEF EventsOfQueue
  <2>5. \A m \in V : other[m].fine = 0 => other[m].e = ProcessStar
    BY <1>2, <2>1 DEF EventsOfQueue
  <2> QED
    BY <1>2, <2>2, <2>3, <2>4, <2>5 DEF EventsOfQueue
<1>4. V \subseteq Node /\ \A m \in V : other[m].level \in Level
  BY <1>1 DEF Events
<1> QED
  BY <1>1, <1>3, <1>4 DEF Events

\* A particle comes into a plain queue.
LEMMA EventsGainPlain ==
  ASSUME NEW class, class = FALSE, NEW links, NEW other, NEW U, NEW particles, NEW free, NEW made,
         Events(class, links, U, particles, free, made), KeepsData(links, other, U),
         NEW n \in Node, n \notin U, other[n].level \in Level,
         other[n].e \in Particle, NEW V, V = U \cup {n}
  PROVE  Events(class, other, V, particles, free, made)
<1>1. Events(class, other, U, particles, free, made)
  BY EventsSame
<1>2. /\ V \subseteq Node /\ \A m \in V : other[m].level \in Level
      /\ \A m \in V : other[m].e \in Particle
  BY <1>1 DEF Events
<1> QED
  BY <1>1, <1>2 DEF Events

\* An event comes in, whose record is rec; rest are the free ones that are left.
FreshEvent(links, U, particles, free, rec, contents, rest) ==
    /\ rec \in Node /\ contents[rec] \in Particle
    /\ \A m \in U : links[m].fine # 0 => /\ links[m].e # rec
                                         /\ particles[links[m].e] # contents[rec]
    /\ \A x \in Node \ {rec} : contents[x] = particles[x]
    /\ rest \in Seq(Node) /\ Distinct(rest)
    /\ \A x \in Node : Has(rest, x) <=> Has(free, x) /\ x # rec

LEMMA EventsGainEvent ==
  ASSUME NEW class, class = TRUE, NEW links, NEW other, NEW U, NEW particles, NEW free, NEW made,
         Events(class, links, U, particles, free, made), KeepsData(links, other, U),
         NEW n \in Node, n \notin U, other[n].level \in Level, other[n].fine # 0,
         NEW contents, NEW rest,
         FreshEvent(links, U, particles, free, other[n].e, contents, rest)
  PROVE  Events(class, other, U \cup {n}, contents, rest, made \cup {other[n].e})
<1>a. PICK rec : rec = other[n].e
  OBVIOUS
<1>b. /\ rec \in Node /\ contents[rec] \in Particle
      /\ \A m \in U : links[m].fine # 0 => /\ links[m].e # rec
                                           /\ particles[links[m].e] # contents[rec]
      /\ \A x \in Node \ {rec} : contents[x] = particles[x]
      /\ rest \in Seq(Node) /\ Distinct(rest)
      /\ \A x \in Node : Has(rest, x) <=> Has(free, x) /\ x # rec
  BY <1>a DEF FreshEvent
<1>c. PICK V, more : V = U \cup {n} /\ more = made \cup {rec}
  OBVIOUS
<1>d. PICK p : p = contents[rec]
  OBVIOUS
<1>1. Events(class, other, U, particles, free, made)
  BY EventsSame
<1>2. EventsOfQueue(other, U, particles, free, made) /\ made \subseteq Node
  BY <1>1 DEF Events
<1>3. \A m \in U : other[m].fine # 0 => /\ other[m].e \in made /\ other[m].e \in Node \ {rec}
                                        /\ contents[other[m].e] = particles[other[m].e]
                                        /\ contents[other[m].e] # p
  <2>1. \A m \in U : other[m].fine # 0 => /\ other[m].e \in made
                                          /\ p # particles[other[m].e]
    BY <1>2, <1>b, <1>d DEF EventsOfQueue, KeepsData
  <2>2. \A m \in U : other[m].fine # 0 => other[m].e # rec
    BY <1>b DEF KeepsData
  <2> QED
    BY <1>2, <1>b, <1>d, <2>1, <2>2
<1>4. EventsOfQueue(other, V, contents, rest, more)
  <2>1. \A m \in V : m \in U \/ m = n
    BY <1>c
  <2>2. \A m, k \in V : m # k /\ other[m].fine # 0 /\ other[k].fine # 0 =>
            other[m].e # other[k].e /\ contents[other[m].e] # contents[other[k].e]
    <3>1. SUFFICES ASSUME NEW m \in V, NEW k \in V, m # k, other[m].fine # 0, other[k].fine # 0
                   PROVE  other[m].e # other[k].e /\ contents[other[m].e] # contents[other[k].e]
      OBVIOUS
    <3>2. CASE m = n
      BY <1>a, <1>b, <1>c, <1>d, <1>3, <2>1, <3>1, <3>2
    <3>3. CASE k = n
      BY <1>a, <1>b, <1>c, <1>d, <1>3, <2>1, <3>1, <3>3
    <3>4. CASE m # n /\ k # n
      <4>1. other[m].e # other[k].e /\ particles[other[m].e] # particles[other[k].e]
        BY <1>2, <2>1, <3>1, <3>4 DEF EventsOfQueue
      <4> QED
        BY <1>3, <2>1, <3>1, <3>4, <4>1
    <3> QED
      BY <3>2, <3>3, <3>4
  <2>3. \A x \in more : Has(rest, x) \/ \E m \in V : other[m].fine # 0 /\ other[m].e = x
    <3>1. \A x \in made : Has(free, x) \/ \E m \in U : other[m].fine # 0 /\ other[m].e = x
      BY <1>2 DEF EventsOfQueue
    <3> QED
      BY <1>a, <1>b, <1>c, <1>d, <1>2, <3>1
  <2>4. \A m \in V : other[m].fine # 0 => /\ other[m].e \in more /\ ~Has(rest, other[m].e)
                                          /\ contents[other[m].e] \in Particle
    <3>1. SUFFICES ASSUME NEW m \in V, other[m].fine # 0
                   PROVE  /\ other[m].e \in more /\ ~Has(rest, other[m].e)
                          /\ contents[other[m].e] \in Particle
      OBVIOUS
    <3>2. CASE m = n
      BY <1>a, <1>b, <1>c, <1>d, <3>2
    <3>3. CASE m \in U
      <4>1. other[m].e \in made /\ ~Has(free, other[m].e) /\ particles[other[m].e] \in Particle
        BY <1>2, <3>1, <3>3 DEF EventsOfQueue
      <4> QED
        BY <1>a, <1>b, <1>c, <1>d, <1>2, <1>3, <3>1, <3>3, <4>1
    <3> QED
      BY <2>1, <3>2, <3>3
  <2>5. \A m \in V : other[m].fine = 0 => other[m].e = ProcessStar
    BY <1>2, <2>1 DEF EventsOfQueue
  <2>6. \A x \in Node : Has(rest, x) => x \in more
    BY <1>2, <1>b, <1>c DEF EventsOfQueue
  <2> QED
    BY <2>2, <2>3, <2>4, <2>5, <2>6 DEF EventsOfQueue
<1>5. V \subseteq Node /\ (\A m \in V : other[m].level \in Level) /\ more \subseteq Node
  BY <1>1, <1>b, <1>c, <1>2 DEF Events
<1> QED
  BY <1>a, <1>b, <1>c, <1>4, <1>5 DEF Events

\* A link is freed, and with it its event, if it holds one.
FreedEvents(n) == IF IsEvent(n) THEN <<link[n].e>> \o freeEvents ELSE freeEvents

LEMMA EventsLose ==
  ASSUME eventClass \in BOOLEAN, NEW other, NEW U, NEW n \in U,
         Events(eventClass, link, U, eventParticle, freeEvents, madeEvents),
         KeepsData(link, other, U \ {n})
  PROVE  Events(eventClass, other, U \ {n}, eventParticle, FreedEvents(n), madeEvents)
<1>a. PICK V : V = U \ {n}
  OBVIOUS
<1>b. PICK rest : rest = IF eventClass /\ link[n].fine # 0 THEN <<link[n].e>> \o freeEvents
                         ELSE freeEvents
  OBVIOUS
<1>c. SUFFICES Events(eventClass, other, V, eventParticle, rest, madeEvents)
  <2>1. FreedEvents(n) = rest
    BY <1>b DEF FreedEvents, IsEvent
  <2> QED
    BY <1>a, <2>1
<1>1. /\ U \subseteq Node /\ freeEvents \in Seq(Node) /\ Distinct(freeEvents) /\ madeEvents \subseteq Node
      /\ \A m \in U : link[m].level \in Level
      /\ eventClass => EventsOfQueue(link, U, eventParticle, freeEvents, madeEvents)
      /\ ~eventClass => madeEvents = {} /\ freeEvents = <<>> /\ \A m \in U : link[m].e \in Particle
  BY DEF Events
<1>2. \A m \in V : /\ m \in U /\ m # n /\ other[m].e = link[m].e
                   /\ other[m].level = link[m].level /\ other[m].fine = link[m].fine
  BY <1>a DEF KeepsData
<1>3. CASE ~eventClass
  BY <1>a, <1>b, <1>1, <1>2, <1>3 DEF Events
<1>4. CASE eventClass /\ link[n].fine = 0
  <2>1. EventsOfQueue(link, U, eventParticle, freeEvents, madeEvents) /\ rest = freeEvents
    BY <1>a, <1>b, <1>1, <1>4
  <2>2. \A x \in madeEvents : Has(freeEvents, x) \/ \E m \in V : other[m].fine # 0 /\ other[m].e = x
    <3>1. \A m \in U : link[m].fine # 0 => m \in V
      BY <1>a, <1>b, <1>4
    <3> QED
      BY <1>2, <2>1, <3>1 DEF EventsOfQueue
  <2>3. \A m, k \in V : m # k /\ other[m].fine # 0 /\ other[k].fine # 0 =>
            other[m].e # other[k].e /\ eventParticle[other[m].e] # eventParticle[other[k].e]
    BY <1>2, <2>1 DEF EventsOfQueue
  <2>4. EventsOfQueue(other, V, eventParticle, freeEvents, madeEvents)
    BY <1>2, <2>1, <2>2, <2>3 DEF EventsOfQueue
  <2> QED
    BY <1>a, <1>b, <1>1, <1>2, <1>4, <2>1, <2>4 DEF Events
<1>5. CASE eventClass /\ link[n].fine # 0
  <2>1. EventsOfQueue(link, U, eventParticle, freeEvents, madeEvents) /\ rest = <<link[n].e>> \o freeEvents
    BY <1>a, <1>b, <1>1, <1>5
  <2>2. PICK x \in Node : x = link[n].e /\ x \in madeEvents /\ ~Has(freeEvents, x)
    BY <1>1, <1>5, <2>1 DEF EventsOfQueue
  <2>3. rest \in Seq(Node) /\ Inserted(freeEvents, 1, x, rest) /\ 1 \in 1..(Len(freeEvents) + 1)
    BY <1>1, <2>1, <2>2, ConsInserts
  <2>4. (\A y : Has(rest, y) <=> y = x \/ Has(freeEvents, y)) /\ Distinct(rest)
    BY <1>1, <2>2, <2>3, HasAfterInsert
  <2>5. \A y \in madeEvents : Has(rest, y) \/ \E m \in V : other[m].fine # 0 /\ other[m].e = y
    <3>1. ASSUME NEW y \in madeEvents, ~Has(rest, y)
          PROVE  \E m \in V : other[m].fine # 0 /\ other[m].e = y
      <4>1. y # x /\ ~Has(freeEvents, y)
        BY <2>4, <3>1
      <4>2. PICK m \in U : link[m].fine # 0 /\ link[m].e = y
        BY <2>1, <4>1 DEF EventsOfQueue
      <4>3. m \in V
        BY <1>a, <1>b, <2>2, <4>1, <4>2
      <4> QED
        BY <1>2, <4>2, <4>3
    <3> QED
      BY <3>1
  <2>6. \A m, k \in V : m # k /\ other[m].fine # 0 /\ other[k].fine # 0 =>
            other[m].e # other[k].e /\ eventParticle[other[m].e] # eventParticle[other[k].e]
    BY <1>2, <2>1 DEF EventsOfQueue
  <2>7. \A m \in V : other[m].fine # 0 => /\ other[m].e \in madeEvents /\ ~Has(rest, other[m].e)
                                          /\ eventParticle[other[m].e] \in Particle
    <3>1. SUFFICES ASSUME NEW m \in V, other[m].fine # 0
                   PROVE  /\ other[m].e \in madeEvents /\ ~Has(rest, other[m].e)
                          /\ eventParticle[other[m].e] \in Particle
      OBVIOUS
    <3>2. /\ link[m].e \in madeEvents /\ ~Has(freeEvents, link[m].e) /\ eventParticle[link[m].e] \in Particle
          /\ link[m].e # link[n].e
      BY <1>2, <1>5, <2>1, <3>1 DEF EventsOfQueue
    <3> QED
      BY <1>2, <2>2, <2>4, <3>2
  <2>8. \A m \in V : other[m].fine = 0 => other[m].e = ProcessStar
    BY <1>2, <2>1 DEF EventsOfQueue
  <2>9. \A y \in Node : Has(rest, y) => y \in madeEvents
    BY <2>1, <2>2, <2>4 DEF EventsOfQueue
  <2>10. EventsOfQueue(other, V, eventParticle, rest, madeEvents)
    BY <2>5, <2>6, <2>7, <2>8, <2>9 DEF EventsOfQueue
  <2>11. V \subseteq Node /\ \A m \in V : other[m].level \in Level
    BY <1>1, <1>2
  <2> QED
    BY <1>a, <1>b, <1>1, <1>5, <2>3, <2>4, <2>10, <2>11 DEF Events
<1> QED
  BY <1>3, <1>4, <1>5

-----------------------------------------------------------------------------
(* The inductive invariant: s is the ring, head first, and t the free list *)

\* The scan has still to visit the last links of the ring, and is at the one
\* before them; it is over when a link is out.
Scan(last, reference, visits, at, out, s) ==
    /\ visits \in 0..Len(s)
    /\ out # 0 => visits = 0 /\ at = 0
    /\ visits > 0 => reference = IF visits = Len(s) THEN last ELSE s[Len(s) - visits]
    /\ at # 0 => visits < Len(s) /\ at = s[Len(s) - visits]

Inv(s, t) ==
    /\ eventClass \in BOOLEAN /\ link \in [Node -> LinkRecord(eventClass)]
    /\ eventParticle \in [Node -> Particle \cup {NoParticle}] /\ lastReference \in Null
    /\ Store(link, lastNode, freeLinkHead, allocated, numberNodes, held, s, t)
    /\ Scan(lastNode, lastReference, toVisit, cursor, held, s)
    /\ Events(eventClass, link, Used(s, held), eventParticle, freeEvents, madeEvents)

IInv == \E s, t \in Seq(Node) : Inv(s, t)

LEMMA ChainsAre ==
  ASSUME NEW s, NEW t, Inv(s, t)
  PROVE  /\ Chain = s /\ FreeChain = t /\ s \in Seq(Node) /\ t \in Seq(Node)
         /\ Ring(link, lastNode, s) /\ Typed(link)
<1>1. Typed(link)
  BY LinksAreTyped DEF Inv
<1>2. Ring(link, lastNode, s) /\ Free(link, freeLinkHead, t)
  BY DEF Inv, Store
<1>3. Chain = s /\ FreeChain = t
  BY <1>1, <1>2, RingIs, ListIs DEF Chain, FreeChain
<1> QED
  BY <1>1, <1>2, <1>3 DEF Ring, Free

\* An insertion of a behind the links before the k-th.
Inserts(a, v, fv, s, k) ==
    /\ Quiet /\ Len(s) < MaxLinks /\ GetFreeLink
    /\ numberNodes' = numberNodes + 1
    /\ link' = LinkAfter(IF Len(s) = 0 THEN 0 ELSE s[IF k = 1 THEN Len(s) ELSE k - 1],
                         NewLink, a, v, fv)
    /\ lastNode' = IF k = Len(s) + 1 THEN NewLink ELSE lastNode
    /\ lastReference' = lastNode'
    /\ UNCHANGED <<held, scanVars>>

\* What it does to the store.
Gained(s, k, r, u, n, a, v, fv) ==
    /\ n \in Node /\ n \notin Used(s, held) /\ Inserted(s, k, n, r)
    /\ Store(link', lastNode', freeLinkHead', allocated', numberNodes', held', r, u)
    /\ link' \in [Node -> LinkRecord(eventClass)] /\ lastReference' \in Null
    /\ KeepsData(link, link', Used(s, held))
    /\ link'[n].e = a /\ link'[n].level = v /\ link'[n].fine = fv
    /\ Scan(lastNode', lastReference', toVisit', cursor', held', r)
    /\ Used(r, held') = Used(s, held) \cup {n}

LEMMA InsertGains ==
  ASSUME NEW s, NEW t, Inv(s, t), NEW k \in 1..(Len(s) + 1),
         NEW a \in Node \cup Particle \cup {ProcessStar}, NEW v \in Level,
         NEW fv \in Fine \cup {0, 1}, Inserts(a, v, fv, s, k)
  PROVE  \E r, u \in Seq(Node) : Gained(s, k, r, u, NewLink, a, v, fv)
<1>1. MaxLinks \in Nat /\ Node = 1..MaxLinks /\ Null = 0..MaxLinks
  BY QueueAssumption DEF Node, Null
<1>2. held = 0 /\ toVisit = 0 /\ cursor = 0 /\ held' = 0 /\ toVisit' = 0 /\ cursor' = 0
  BY DEF Inserts, Quiet, scanVars
<1>3. Store(link, lastNode, freeLinkHead, allocated, numberNodes, 0, s, t) /\ Ring(link, lastNode, s)
  BY <1>2 DEF Inv, Store
<1>4. s \in Seq(Node) /\ Len(s) \in Nat /\ Len(s) < MaxLinks
  BY <1>3 DEF Ring, Inserts
<1>5. PICK n : n = NewLink
  OBVIOUS
<1>6. /\ n = (IF freeLinkHead # 0 THEN freeLinkHead ELSE allocated + 1)
      /\ freeLinkHead' = (IF freeLinkHead # 0 THEN link[freeLinkHead].next ELSE freeLinkHead)
      /\ allocated' = (IF freeLinkHead # 0 THEN allocated ELSE allocated + 1)
  BY <1>5 DEF NewLink, GetFreeLink, Inserts
<1>7. n \in Node /\ \E u \in Seq(Node) :
                       Store(link, lastNode, freeLinkHead', allocated', numberNodes, n, s, u)
  BY <1>3, <1>4, <1>6, StoreTake
<1>8. PICK u \in Seq(Node) : Store(link, lastNode, freeLinkHead', allocated', numberNodes, n, s, u)
  BY <1>7
<1>9. ~Has(s, n) /\ n # 0
  BY <1>1, <1>7, <1>8 DEF Store
<1>10. PICK prev \in Node : prev = PrevOf(s, k, n)
  BY <1>4, <1>7, NeighboursAreLinks
<1>11. PICK succ \in Node : succ = SuccOf(s, k, n)
  BY <1>4, <1>7, NeighboursAreLinks
<1>12. prev = n <=> succ = n
  <2>1. CASE Len(s) = 0
    BY <1>10, <1>11, <2>1 DEF PrevOf, SuccOf
  <2>2. CASE Len(s) # 0
    <3>1. \A i \in 1..Len(s) : s[i] # n
      BY <1>9 DEF Has
    <3>2. PICK i \in 1..Len(s) : i = IF k = 1 THEN Len(s) ELSE k - 1
      BY <1>4, <2>2
    <3>3. PICK j \in 1..Len(s) : j = IF k = Len(s) + 1 THEN 1 ELSE k
      BY <1>4, <2>2
    <3>4. prev = s[i] /\ succ = s[j]
      BY <1>10, <1>11, <2>2, <3>2, <3>3 DEF PrevOf, SuccOf
    <3> QED
      BY <3>1, <3>4
  <2> QED
    BY <2>1, <2>2
<1>13. PICK new : new = [e |-> a, level |-> v, fine |-> fv, next |-> succ, before |-> prev]
  OBVIOUS
<1>14. /\ new \in LinkRecord(eventClass) /\ new.e = a /\ new.level = v /\ new.fine = fv
       /\ new.next = succ /\ new.before = prev
  <2>1. fv \in (IF eventClass THEN EventUse ELSE PlainUse).fine \cup {0, 1}
    BY DEF Fine, Use
  <2>2. prev \in Null /\ succ \in Null
    BY <1>1
  <2> QED
    BY <1>13, <2>1, <2>2 DEF LinkRecord
<1>15. link' = [link EXCEPT ![n] = new, ![succ].before = n, ![prev].next = n]
  <2>1. PICK l : l = IF Len(s) = 0 THEN 0 ELSE s[IF k = 1 THEN Len(s) ELSE k - 1]
    OBVIOUS
  <2>2. /\ prev = (IF l = 0 THEN n ELSE l)
        /\ succ = (IF l = 0 THEN n ELSE link[l].next)
    <3>1. CASE Len(s) = 0
      BY <1>10, <1>11, <2>1, <3>1 DEF PrevOf, SuccOf
    <3>2. CASE Len(s) # 0
      <4>1. PICK i \in 1..Len(s) : i = IF k = 1 THEN Len(s) ELSE k - 1
        BY <1>4, <3>2
      <4>2. l = s[i] /\ l # 0 /\ prev = l
        BY <1>1, <1>4, <1>10, <2>1, <3>2, <4>1 DEF PrevOf
      <4>3. link[l].next = s[Succ(s, i)]
        BY <1>3, <4>2 DEF Ring
      <4>4. Succ(s, i) = IF k = Len(s) + 1 THEN 1 ELSE k
        BY <1>4, <3>2, <4>1 DEF Succ
      <4>5. succ = s[Succ(s, i)]
        BY <1>11, <3>2, <4>4 DEF SuccOf
      <4> QED
        BY <4>2, <4>3, <4>5
    <3> QED
      BY <3>1, <3>2
  <2>3. link' = LinkAfter(l, n, a, v, fv)
    BY <1>5, <2>1 DEF Inserts
  <2> QED
    BY <1>13, <2>2, <2>3 DEF LinkAfter
<1>16. PICK set \in [Node -> LinkRecord(eventClass)] :
            /\ set = [link EXCEPT ![n] = new]
            /\ set[n] = new /\ KeepsNext(link, set, Node \ {n})
            /\ KeepsBefore(link, set, Node \ {n}) /\ KeepsData(link, set, Node \ {n})
  <2>1. link \in [Node -> LinkRecord(eventClass)]
    BY DEF Inv
  <2> QED
    BY <1>7, <1>14, <2>1, SetRecord
<1>17. set[n].next = succ /\ set[n].before = prev
  BY <1>14, <1>16
<1>18. PICK other \in [Node -> LinkRecord(eventClass)] :
            /\ other = Linked(set, n, prev, succ)
            /\ Attached(set, other, n, prev, succ)
            /\ KeepsNext(set, other, Node \ {n, prev}) /\ KeepsData(set, other, Node)
  BY <1>7, <1>12, <1>17, Attaches
<1>19. link' = other
  BY <1>15, <1>16, <1>18 DEF Linked
<1>20. Store(set, lastNode, freeLinkHead', allocated', numberNodes, n, s, u)
  BY <1>8, <1>16, StoreSame
<1>21. PICK r \in Seq(Node) : Inserted(s, k, n, r)
  BY <1>4, <1>7, InsertedExists
<1>22. Store(link', lastNode', freeLinkHead', allocated', numberNodes', held', r, u)
  <2>1. Attached(set, other, n, PrevOf(s, k, n), SuccOf(s, k, n))
    BY <1>10, <1>11, <1>18
  <2>2. Store(other, IF k = Len(s) + 1 THEN n ELSE lastNode, freeLinkHead', allocated',
              numberNodes + 1, 0, r, u)
    BY <1>7, <1>20, <1>21, <2>1, StoreInsert
  <2>3. /\ lastNode' = (IF k = Len(s) + 1 THEN n ELSE lastNode)
        /\ numberNodes' = numberNodes + 1
    BY <1>5 DEF Inserts
  <2> QED
    BY <1>2, <1>19, <2>2, <2>3
<1>23. n \notin Used(s, held)
  BY <1>2, <1>9 DEF Used
<1>24. KeepsData(link, link', Used(s, held))
  <2>1. \A m \in Used(s, held) : m \in Node \ {n}
    BY <1>23 DEF Used
  <2> QED
    <3>1. KeepsData(link, set, Node \ {n}) /\ KeepsData(set, link', Node)
      BY <1>16, <1>18, <1>19
    <3>2. \A m \in Node \ {n} : /\ link'[m].e = link[m].e /\ link'[m].level = link[m].level
                                /\ link'[m].fine = link[m].fine
      BY <3>1 DEF KeepsData
    <3> QED
      BY <2>1, <3>2 DEF KeepsData
<1>25. link'[n].e = a /\ link'[n].level = v /\ link'[n].fine = fv
  BY <1>7, <1>14, <1>16, <1>18, <1>19 DEF KeepsData
<1>26. Scan(lastNode', lastReference', toVisit', cursor', held', r)
  <2>1. 0 \in 0..Len(r)
    BY <1>4, <1>21 DEF Inserted
  <2> QED
    BY <1>2, <2>1 DEF Scan
<1>27. Used(r, held') = Used(s, held) \cup {n}
  <2>1. \A m : Has(r, m) <=> m = n \/ Has(s, m)
    BY <1>4, <1>21, HasAfterInsert
  <2>2. \A m \in Node : m # 0
    BY <1>1
  <2> QED
    BY <1>2, <1>7, <2>1, <2>2 DEF Used
<1>28. lastReference' \in Null
  <2>1. lastNode' \in Null
    <3>1. Ring(link', lastNode', r)
      BY <1>22 DEF Store
    <3> QED
      BY <1>1, <3>1 DEF Ring
  <2> QED
    BY <2>1 DEF Inserts
<1> QED
  BY <1>5, <1>7, <1>18, <1>19, <1>21, <1>22, <1>23, <1>24, <1>25, <1>26, <1>27, <1>28 DEF Gained

-----------------------------------------------------------------------------
(* The queue as its users see it *)

AnEntry == [level : Level, fine : EventUse.fine \cup PlainUse.fine \cup {0, 1},
            payload : Particle \cup {ProcessStar}]

LEMMA EntryIsTyped ==
  ASSUME NEW s, NEW t, Inv(s, t), NEW m \in Used(s, held)
  PROVE  EntryOf(m) \in AnEntry
<1>1. m \in Node /\ link[m] \in LinkRecord(eventClass) /\ eventClass \in BOOLEAN
  BY DEF Used, Inv
<1>2. link[m].fine \in EventUse.fine \cup PlainUse.fine \cup {0, 1}
  BY <1>1 DEF LinkRecord
<1>3. link[m].level \in Level
  BY DEF Inv, Events
<1>4. Payload(m) \in Particle \cup {ProcessStar}
  <2>1. CASE eventClass /\ link[m].fine # 0
    <3>1. eventParticle[link[m].e] \in Particle
      BY <2>1 DEF Inv, Events, EventsOfQueue
    <3> QED
      BY <2>1, <3>1 DEF Payload, IsEvent
  <2>2. CASE eventClass /\ link[m].fine = 0
    <3>1. link[m].e = ProcessStar
      BY <2>2 DEF Inv, Events, EventsOfQueue
    <3> QED
      BY <2>2, <3>1 DEF Payload, IsEvent
  <2>3. CASE ~eventClass
    <3>1. link[m].e \in Particle
      BY <2>3 DEF Inv, Events
    <3> QED
      BY <2>3, <3>1 DEF Payload, IsEvent
  <2> QED
    BY <1>1, <2>1, <2>2, <2>3
<1> QED
  BY <1>2, <1>3, <1>4 DEF EntryOf, AnEntry

LEMMA EntriesNow ==
  ASSUME NEW s \in Seq(Node), NEW S, \A i \in 1..Len(s) : EntryOf(s[i]) \in S
  PROVE  /\ Entries(s) \in Seq(S) /\ Len(Entries(s)) = Len(s)
         /\ \A i \in 1..Len(s) : Entries(s)[i] = EntryOf(s[i])
<1>1. DOMAIN s = 1..Len(s) /\ Len(s) \in Nat
  OBVIOUS
<1>2. PICK q : q = Entries(s)
  OBVIOUS
<1>3. q = [i \in 1..Len(s) |-> EntryOf(s[i])]
  BY <1>1, <1>2 DEF Entries
<1>4. q \in Seq(S) /\ Len(q) = Len(s) /\ \A i \in 1..Len(s) : q[i] = EntryOf(s[i])
  BY <1>1, <1>3
<1> QED
  BY <1>2, <1>4

LEMMA EntriesLater ==
  ASSUME NEW r \in Seq(Node), Chain' = r, NEW S, \A i \in 1..Len(r) : EntryOf(r[i])' \in S
  PROVE  /\ Entries(Chain)' \in Seq(S) /\ Len(Entries(Chain)') = Len(r)
         /\ \A i \in 1..Len(r) : Entries(Chain)'[i] = EntryOf(r[i])'
<1>1. DOMAIN r = 1..Len(r) /\ Len(r) \in Nat
  OBVIOUS
<1>2. PICK q : q = Entries(Chain)'
  OBVIOUS
<1>3. q = [i \in 1..Len(r) |-> EntryOf(r[i])']
  BY <1>1, <1>2 DEF Entries
<1>4. q \in Seq(S) /\ Len(q) = Len(r) /\ \A i \in 1..Len(r) : q[i] = EntryOf(r[i])'
  BY <1>1, <1>3
<1> QED
  BY <1>2, <1>4

LEMMA EntriesKept ==
  ASSUME NEW U, KeepsData(link, link', U), eventClass' = eventClass,
         \A m \in U : eventClass /\ link[m].fine # 0 =>
                         eventParticle'[link[m].e] = eventParticle[link[m].e]
  PROVE  \A m \in U : EntryOf(m)' = EntryOf(m)
<1>1. SUFFICES ASSUME NEW m \in U PROVE EntryOf(m)' = EntryOf(m)
  OBVIOUS
<1>2. /\ link'[m].e = link[m].e /\ link'[m].level = link[m].level
      /\ link'[m].fine = link[m].fine
  BY DEF KeepsData
<1>3. Payload(m)' = Payload(m)
  BY <1>2 DEF Payload, IsEvent
<1> QED
  BY <1>2, <1>3 DEF EntryOf

\* What becomes of the sequence of the entries when a link is put into the ring.
LEMMA QueueInserted ==
  ASSUME NEW s, NEW t, Inv(s, t), NEW k \in 1..(Len(s) + 1), NEW n,
         NEW r \in Seq(Node), Chain' = r, Inserted(s, k, n, r),
         \A m \in Used(s, held) \ {held} : EntryOf(m)' = EntryOf(m),
         NEW x \in AnEntry, EntryOf(n)' = x
  PROVE  /\ Entries(Chain)' = InsertAt(Entries(Chain), k, x)
         /\ Entries(Chain) \in Seq(AnEntry) /\ Len(Entries(Chain)) = Len(s)
         /\ Entries(Chain)' \in Seq(AnEntry) /\ x \in ToSet(Entries(Chain)')
<1>1. Chain = s /\ s \in Seq(Node) /\ Len(s) \in Nat
  BY ChainsAre
<1>2. \A i \in 1..Len(s) : /\ s[i] \in Used(s, held) /\ s[i] # held
                           /\ EntryOf(s[i])' = EntryOf(s[i])
                           /\ EntryOf(s[i]) \in AnEntry
  <2>1. \A i \in 1..Len(s) : s[i] \in Used(s, held) /\ s[i] # held
    BY <1>1 DEF Used, Has, Inv, Store
  <2> QED
    BY <2>1, EntryIsTyped
<1>3. PICK q \in Seq(AnEntry) : /\ q = Entries(Chain) /\ Len(q) = Len(s)
                                /\ \A i \in 1..Len(s) : q[i] = EntryOf(s[i])
  BY <1>1, <1>2, EntriesNow
<1>4. /\ Len(r) = Len(s) + 1
      /\ \A i \in 1..(Len(s) + 1) :
            \/ i < k /\ i \in 1..Len(s) /\ r[i] = s[i]
            \/ i = k /\ r[i] = n
            \/ i > k /\ i - 1 \in 1..Len(s) /\ r[i] = s[i - 1]
  BY <1>1, InsertedPlaces
<1>5. \A i \in 1..Len(r) : \/ i < k /\ i \in 1..Len(s) /\ EntryOf(r[i])' = q[i] /\ q[i] \in AnEntry
                           \/ i = k /\ EntryOf(r[i])' = x
                           \/ /\ i > k /\ i - 1 \in 1..Len(s)
                              /\ EntryOf(r[i])' = q[i - 1] /\ q[i - 1] \in AnEntry
  BY <1>2, <1>3, <1>4
<1>6. \A i \in 1..Len(r) : EntryOf(r[i])' \in AnEntry
  BY <1>5
<1>7. PICK p \in Seq(AnEntry) : /\ p = Entries(Chain)' /\ Len(p) = Len(r)
                                /\ \A i \in 1..Len(r) : p[i] = EntryOf(r[i])'
  BY <1>6, EntriesLater
<1>8. Inserted(q, k, x, p)
  <2>1. \A i \in 1..k - 1 : i \in 1..Len(r) /\ i < k
    BY <1>1, <1>4
  <2>2. \A i \in (k + 1)..(Len(s) + 1) : i \in 1..Len(r) /\ i > k
    BY <1>1, <1>4
  <2>3. k \in 1..Len(r) /\ ~(k < k) /\ ~(k > k)
    BY <1>1, <1>4
  <2>4. p[k] = x
    BY <1>5, <1>7, <2>3
  <2>5. \A i \in 1..k - 1 : p[i] = q[i]
    BY <1>5, <1>7, <2>1
  <2>6. \A i \in (k + 1)..(Len(s) + 1) : p[i] = q[i - 1]
    BY <1>5, <1>7, <2>2
  <2> QED
    BY <1>3, <1>4, <1>7, <2>4, <2>5, <2>6 DEF Inserted
<1>9. p = InsertAt(q, k, x)
  BY <1>3, <1>8, InsertedIs
<1>10. x \in ToSet(p)
  <2>1. k \in DOMAIN p /\ p[k] = x
    BY <1>1, <1>4, <1>7, <1>8 DEF Inserted
  <2> QED
    BY <2>1 DEF ToSet
<1> QED
  BY <1>3, <1>7, <1>9, <1>10

\* ... and when the k-th leaves it.
LEMMA QueueRemoved ==
  ASSUME NEW s, NEW t, Inv(s, t), NEW k \in 1..Len(s),
         NEW r \in Seq(Node), Chain' = r, Removed(s, k, r),
         \A m \in Used(s, held) \ {s[k]} : EntryOf(m)' = EntryOf(m)
  PROVE  /\ Entries(Chain)' = RemoveAt(Entries(Chain), k)
         /\ Entries(Chain) \in Seq(AnEntry) /\ Len(Entries(Chain)) = Len(s)
         /\ Entries(Chain)[k] = EntryOf(s[k])
<1>1. Chain = s /\ s \in Seq(Node) /\ Len(s) \in Nat /\ Distinct(s)
  BY ChainsAre DEF Ring
<1>2. \A i \in 1..Len(s) : s[i] \in Used(s, held) /\ EntryOf(s[i]) \in AnEntry
  <2>1. \A i \in 1..Len(s) : s[i] \in Used(s, held)
    BY <1>1 DEF Used, Has
  <2> QED
    BY <2>1, EntryIsTyped
<1>3. \A i \in 1..Len(s) : i # k => EntryOf(s[i])' = EntryOf(s[i])
  BY <1>1, <1>2 DEF Distinct
<1>4. PICK q \in Seq(AnEntry) : /\ q = Entries(Chain) /\ Len(q) = Len(s)
                                /\ \A i \in 1..Len(s) : q[i] = EntryOf(s[i])
  BY <1>1, <1>2, EntriesNow
<1>5. /\ Len(r) = Len(s) - 1
      /\ \A i \in 1..(Len(s) - 1) :
            \/ i < k /\ i \in 1..Len(s) /\ r[i] = s[i]
            \/ i >= k /\ i + 1 \in 1..Len(s) /\ r[i] = s[i + 1]
  BY <1>1, RemovedPlaces
<1>6. \A i \in 1..Len(r) : \/ i < k /\ i \in 1..Len(s) /\ EntryOf(r[i])' = q[i] /\ q[i] \in AnEntry
                           \/ /\ i >= k /\ i + 1 \in 1..Len(s)
                              /\ EntryOf(r[i])' = q[i + 1] /\ q[i + 1] \in AnEntry
  <2>1. SUFFICES ASSUME NEW i \in 1..Len(r)
                 PROVE  \/ i < k /\ i \in 1..Len(s) /\ EntryOf(r[i])' = q[i] /\ q[i] \in AnEntry
                        \/ /\ i >= k /\ i + 1 \in 1..Len(s)
                           /\ EntryOf(r[i])' = q[i + 1] /\ q[i + 1] \in AnEntry
    OBVIOUS
  <2>2. CASE i < k
    <3>1. i \in 1..Len(s) /\ r[i] = s[i] /\ i # k
      BY <1>5, <2>2
    <3> QED
      BY <1>3, <1>4, <2>2, <3>1
  <2>3. CASE i >= k
    <3>1. PICK j \in 1..Len(s) : j = i + 1 /\ r[i] = s[j] /\ j # k
      BY <1>1, <1>5, <2>3
    <3> QED
      BY <1>3, <1>4, <2>3, <3>1
  <2> QED
    BY <1>1, <1>5, <2>2, <2>3
<1>7. \A i \in 1..Len(r) : EntryOf(r[i])' \in AnEntry
  BY <1>6
<1>8. PICK p \in Seq(AnEntry) : /\ p = Entries(Chain)' /\ Len(p) = Len(r)
                                /\ \A i \in 1..Len(r) : p[i] = EntryOf(r[i])'
  BY <1>7, EntriesLater
<1>9. Removed(q, k, p)
  <2>1. \A i \in 1..k - 1 : i \in 1..Len(r) /\ i < k
    BY <1>1, <1>5
  <2>2. \A i \in k..(Len(s) - 1) : i \in 1..Len(r) /\ i >= k
    BY <1>1, <1>5
  <2>3. \A i \in 1..k - 1 : p[i] = q[i]
    BY <1>6, <1>8, <2>1
  <2>4. \A i \in k..(Len(s) - 1) : p[i] = q[i + 1]
    BY <1>6, <1>8, <2>2
  <2> QED
    BY <1>4, <1>5, <1>8, <2>3, <2>4 DEF Removed
<1>10. p = RemoveAt(q, k)
  BY <1>4, <1>9, RemovedIs
<1> QED
  BY <1>4, <1>8, <1>10

LEMMA QueueSame ==
  ASSUME NEW s, NEW t, Inv(s, t), Chain' = s,
         \A m \in Used(s, held) \ {held} : EntryOf(m)' = EntryOf(m)
  PROVE  Entries(Chain)' = Entries(Chain)
<1>1. Chain = s /\ s \in Seq(Node) /\ Len(s) \in Nat
  BY ChainsAre
<1>2. \A i \in 1..Len(s) : /\ EntryOf(s[i])' = EntryOf(s[i]) /\ EntryOf(s[i]) \in AnEntry
  <2>1. \A i \in 1..Len(s) : s[i] \in Used(s, held) /\ s[i] # held
    BY <1>1 DEF Used, Has, Inv, Store
  <2> QED
    BY <2>1, EntryIsTyped
<1>3. PICK q \in Seq(AnEntry) : /\ q = Entries(Chain) /\ Len(q) = Len(s)
                                /\ \A i \in 1..Len(s) : q[i] = EntryOf(s[i])
  BY <1>1, <1>2, EntriesNow
<1>4. \A i \in 1..Len(s) : EntryOf(s[i])' \in AnEntry
  BY <1>2
<1>5. PICK p \in Seq(AnEntry) : /\ p = Entries(Chain)' /\ Len(p) = Len(s)
                                /\ \A i \in 1..Len(s) : p[i] = EntryOf(s[i])'
  BY <1>1, <1>4, EntriesLater
<1>6. Len(p) = Len(q) /\ \A i \in 1..Len(p) : p[i] = q[i]
  BY <1>2, <1>3, <1>5
<1>7. p = q
  BY <1>6, SequencesEqual
<1> QED
  BY <1>3, <1>5, <1>7

LEMMA EmptyRing ==
  ASSUME NEW s, NEW t, Inv(s, t)
  PROVE  /\ Len(s) \in Nat /\ (lastNode = 0 <=> Len(s) = 0)
         /\ Len(s) > 0 => lastNode = s[Len(s)] /\ lastNode \in Node
         /\ numberNodes = Len(s)
<1>1. s \in Seq(Node) /\ Ring(link, lastNode, s) /\ numberNodes = Len(s)
  BY DEF Inv, Store, Ring
<1>2. Len(s) \in Nat /\ \A i \in 1..Len(s) : s[i] \in Node /\ s[i] # 0
  <2>1. \A m \in Node : m # 0
    BY DEF Node
  <2> QED
    BY <1>1, <2>1
<1> QED
  BY <1>1, <1>2 DEF Ring

LEMMA LevelputInserts ==
  ASSUME NEW s, NEW t, Inv(s, t), NEW a, NEW v, NEW fv, NEW k, PutsBehind(v, fv, s, k),
         Levelput(a, v, fv)
  PROVE  Inserts(a, v, fv, s, k + 1) /\ k + 1 \in 1..(Len(s) + 1)
<1>1. /\ Len(s) \in Nat /\ (lastNode = 0 <=> Len(s) = 0)
      /\ Len(s) > 0 => lastNode = s[Len(s)] /\ lastNode \in Node
  BY EmptyRing
<1>2. Chain = s /\ Ring(link, lastNode, s) /\ Typed(link)
  BY ChainsAre
<1>3. k \in 0..Len(s)
  BY DEF PutsBehind
<1>4. PICK j \in 1..(Len(s) + 1) : j = k + 1
  BY <1>1, <1>3
<1>5. CASE Len(s) = 0
  <2>1. lastNode = 0 /\ j = Len(s) + 1
    BY <1>1, <1>3, <1>4, <1>5
  <2>2. Inserts(a, v, fv, s, j)
    BY <1>2, <1>5, <2>1 DEF Levelput, Insert, Inserts
  <2> QED
    BY <1>4, <2>2
<1>6. CASE Len(s) > 0
  <2>1. PICK stop : stop = LevelputStop(v, fv)
    OBVIOUS
  <2>2. /\ stop = IF k = 0 THEN lastNode ELSE s[k]
        /\ NotBefore(v, fv, lastNode) <=> k = Len(s)
    BY <1>2, <1>6, <2>1, LevelputStopIs
  <2>3. lastNode # 0
    BY <1>1, <1>6
  <2>4. stop = s[IF j = 1 THEN Len(s) ELSE j - 1] /\ (j = Len(s) + 1 <=> NotBefore(v, fv, lastNode))
    BY <1>1, <1>3, <1>4, <1>6, <2>2
  <2>5. Len(s) # 0
    BY <1>6
  <2>6. Inserts(a, v, fv, s, j)
    BY <1>2, <2>1, <2>3, <2>4, <2>5 DEF Levelput, Insert, Inserts
  <2> QED
    BY <1>4, <2>6
<1> QED
  BY <1>1, <1>5, <1>6

LEMMA LeveltupInserts ==
  ASSUME NEW s, NEW t, Inv(s, t), NEW a, NEW v, NEW fv, NEW k, TupsBehind(v, fv, s, k),
         Leveltup(a, v, fv)
  PROVE  Inserts(a, v, fv, s, k + 1) /\ k + 1 \in 1..(Len(s) + 1)
<1>1. /\ Len(s) \in Nat /\ (lastNode = 0 <=> Len(s) = 0)
      /\ Len(s) > 0 => lastNode = s[Len(s)] /\ lastNode \in Node
  BY EmptyRing
<1>2. Chain = s /\ Ring(link, lastNode, s) /\ Typed(link)
  BY ChainsAre
<1>3. k \in 0..Len(s)
  BY DEF TupsBehind
<1>4. PICK j \in 1..(Len(s) + 1) : j = k + 1
  BY <1>1, <1>3
<1>5. CASE Len(s) = 0
  <2>1. lastNode = 0 /\ j = Len(s) + 1
    BY <1>1, <1>3, <1>4, <1>5
  <2>2. Inserts(a, v, fv, s, j)
    BY <1>2, <1>5, <2>1 DEF Leveltup, Insert, Inserts
  <2> QED
    BY <1>4, <2>2
<1>6. CASE Len(s) > 0
  <2>1. PICK stop : stop = LeveltupStop(v, fv)
    OBVIOUS
  <2>2. /\ stop = s[IF k = Len(s) THEN k ELSE k + 1]
        /\ NotBefore(v, fv, stop) <=> k = Len(s)
    BY <1>2, <1>6, <2>1, LeveltupStopIs
  <2>3. lastNode # 0
    BY <1>1, <1>6
  <2>4. Len(s) # 0
    BY <1>6
  <2>5. CASE k = Len(s)
    <3>1. /\ stop = s[k] /\ j = Len(s) + 1 /\ (IF j = 1 THEN Len(s) ELSE j - 1) = k
          /\ NotBefore(v, fv, stop)
      BY <1>1, <1>4, <2>2, <2>4, <2>5
    <3>2. Inserts(a, v, fv, s, j)
      BY <1>2, <2>1, <2>3, <2>4, <3>1 DEF Leveltup, Insert, Inserts
    <3> QED
      BY <1>4, <3>2
  <2>6. CASE k # Len(s)
    <3>1. j \in 1..Len(s) /\ stop = s[j] /\ j # Len(s) + 1
      BY <1>1, <1>3, <1>4, <2>2, <2>6
    <3>2. link[stop].before = s[IF j = 1 THEN Len(s) ELSE j - 1]
      BY <1>2, <3>1 DEF Ring, Pred
    <3>3. ~NotBefore(v, fv, stop)
      BY <2>2, <2>6
    <3>4. Inserts(a, v, fv, s, j)
      BY <1>2, <2>1, <2>3, <2>4, <3>1, <3>2, <3>3 DEF Leveltup, Insert, Inserts
    <3> QED
      BY <1>4, <3>4
  <2> QED
    BY <2>5, <2>6
<1> QED
  BY <1>1, <1>5, <1>6

LEMMA PutInserts ==
  ASSUME NEW s, NEW t, Inv(s, t), NEW a, NEW v, NEW fv, Insert(a, v, fv, lastNode, TRUE)
  PROVE  Inserts(a, v, fv, s, Len(s) + 1) /\ Len(s) + 1 \in 1..(Len(s) + 1)
<1>1. /\ Len(s) \in Nat /\ (lastNode = 0 <=> Len(s) = 0)
      /\ Len(s) > 0 => lastNode = s[Len(s)] /\ lastNode \in Node
  BY EmptyRing
<1>2. Chain = s /\ Ring(link, lastNode, s) /\ Typed(link)
  BY ChainsAre
<1>3. PICK j \in 1..(Len(s) + 1) : j = Len(s) + 1
  BY <1>1
<1>4. lastNode = IF Len(s) = 0 THEN 0 ELSE s[IF j = 1 THEN Len(s) ELSE j - 1]
  BY <1>1, <1>3
<1>5. Inserts(a, v, fv, s, j)
  BY <1>2, <1>3, <1>4 DEF Insert, Inserts
<1> QED
  BY <1>3, <1>5

LEMMA LaterIs ==
  ASSUME NEW r, NEW u, Inv(r, u)'
  PROVE  Chain' = r /\ r \in Seq(Node) /\ u \in Seq(Node) /\ IInv'
<1>1. /\ link' \in [Node -> LinkRecord(eventClass')] /\ Ring(link', lastNode', r)
      /\ r \in Seq(Node) /\ u \in Seq(Node)
  BY DEF Inv, Store, Ring, Free
<1>2. Typed(link')
  BY <1>1, LinksAreTyped
<1>3. RingOf(link', lastNode') = r
  BY <1>1, <1>2, RingIs
<1> QED
  BY <1>1, <1>3 DEF Chain, IInv

\* The entry x comes to the k-th place of the queue.
Comes(s, k, x) ==
    /\ Quiet /\ UNCHANGED <<held, scanVars>> /\ x \in AnEntry
    /\ Entries(Chain)' = InsertAt(Entries(Chain), k, x)
    /\ Entries(Chain) \in Seq(AnEntry) /\ Len(Entries(Chain)) = Len(s)
    /\ x \in ToSet(Entries(Chain)')

LEMMA EntryComes ==
  ASSUME NEW s, NEW t, Inv(s, t), NEW k \in 1..(Len(s) + 1), NEW n, NEW a, NEW v, NEW fv,
         NEW r \in Seq(Node), NEW u \in Seq(Node), Gained(s, k, r, u, n, a, v, fv),
         Events(eventClass, link', Used(s, held) \cup {n}, eventParticle', freeEvents', madeEvents'),
         eventParticle' \in [Node -> Particle \cup {NoParticle}],
         \A m \in Used(s, held) : eventClass /\ link[m].fine # 0 =>
                                    eventParticle'[link[m].e] = eventParticle[link[m].e],
         eventClass' = eventClass, Quiet, UNCHANGED <<held, scanVars>>,
         NEW p, Payload(n)' = p, EntryFor(p, v, fv) \in AnEntry
  PROVE  IInv' /\ Comes(s, k, EntryFor(p, v, fv))
<1>1. Inv(r, u)'
  <2>1. /\ Store(link', lastNode', freeLinkHead', allocated', numberNodes', held', r, u)
        /\ link' \in [Node -> LinkRecord(eventClass)] /\ lastReference' \in Null
        /\ Scan(lastNode', lastReference', toVisit', cursor', held', r)
        /\ Used(r, held') = Used(s, held) \cup {n}
    BY DEF Gained
  <2>2. Events(eventClass, link', Used(r, held'), eventParticle', freeEvents', madeEvents')
    BY <2>1
  <2>3. eventClass' \in BOOLEAN
    BY DEF Inv
  <2> QED
    BY <2>1, <2>2, <2>3 DEF Inv
<1>2. Chain' = r /\ IInv'
  BY <1>1, LaterIs
<1>3. /\ KeepsData(link, link', Used(s, held)) /\ Inserted(s, k, n, r)
      /\ link'[n].level = v /\ link'[n].fine = fv
  BY DEF Gained
<1>4. \A m \in Used(s, held) : EntryOf(m)' = EntryOf(m)
  BY <1>3, EntriesKept
<1>5. EntryOf(n)' = EntryFor(p, v, fv)
  BY <1>3 DEF EntryOf, EntryFor
<1>6. /\ Entries(Chain)' = InsertAt(Entries(Chain), k, EntryFor(p, v, fv))
      /\ Entries(Chain) \in Seq(AnEntry) /\ Len(Entries(Chain)) = Len(s)
      /\ EntryFor(p, v, fv) \in ToSet(Entries(Chain)')
  BY <1>2, <1>3, <1>4, <1>5, QueueInserted
<1> QED
  BY <1>2, <1>6 DEF Comes

LEMMA StarComes ==
  ASSUME NEW s, NEW t, Inv(s, t), NEW k \in 1..(Len(s) + 1), NEW v \in Level,
         Inserts(ProcessStar, v, 0, s, k), eventClass = TRUE,
         UNCHANGED eventVars, eventClass' = eventClass
  PROVE  IInv' /\ Comes(s, k, EntryFor(ProcessStar, v, 0))
<1>1. PICK n : n = NewLink
  OBVIOUS
<1>2. PICK r \in Seq(Node), u \in Seq(Node) : Gained(s, k, r, u, n, ProcessStar, v, 0)
  BY <1>1, InsertGains
<1>3. /\ n \in Node /\ n \notin Used(s, held) /\ KeepsData(link, link', Used(s, held))
      /\ link'[n].e = ProcessStar /\ link'[n].level = v /\ link'[n].fine = 0
  BY <1>2 DEF Gained
<1>4. /\ Events(eventClass, link, Used(s, held), eventParticle, freeEvents, madeEvents)
      /\ eventParticle \in [Node -> Particle \cup {NoParticle}]
  BY DEF Inv
<1>5. /\ eventParticle' = eventParticle /\ freeEvents' = freeEvents
      /\ madeEvents' = madeEvents
  BY DEF eventVars
<1>6. PICK V : V = Used(s, held) \cup {n}
  OBVIOUS
<1>7. Events(eventClass, link', V, eventParticle, freeEvents, madeEvents)
  BY <1>3, <1>4, <1>6, EventsGainStar
<1>8. Events(eventClass, link', Used(s, held) \cup {n}, eventParticle', freeEvents', madeEvents')
  BY <1>5, <1>6, <1>7
<1>9. Payload(n)' = ProcessStar
  BY <1>3 DEF Payload, IsEvent
<1>10. EntryFor(ProcessStar, v, 0) \in AnEntry
  BY DEF EntryFor, AnEntry
<1>11. Quiet /\ UNCHANGED <<held, scanVars>>
  BY DEF Inserts
<1> QED
  BY <1>2, <1>4, <1>5, <1>8, <1>9, <1>10, <1>11, EntryComes

LEMMA PlainComes ==
  ASSUME NEW s, NEW t, Inv(s, t), NEW k \in 1..(Len(s) + 1), NEW p \in Particle, NEW v \in Level,
         NEW fv \in PlainUse.fine \cup {1}, Inserts(p, v, fv, s, k), eventClass = FALSE,
         UNCHANGED eventVars, eventClass' = eventClass
  PROVE  IInv' /\ Comes(s, k, EntryFor(p, v, fv))
<1>1. PICK n : n = NewLink
  OBVIOUS
<1>2. PICK r \in Seq(Node), u \in Seq(Node) : Gained(s, k, r, u, n, p, v, fv)
  <2>1. fv \in Fine \cup {0, 1}
    BY DEF Fine, Use
  <2> QED
    BY <1>1, <2>1, InsertGains
<1>3. /\ n \in Node /\ n \notin Used(s, held) /\ KeepsData(link, link', Used(s, held))
      /\ link'[n].e = p /\ link'[n].level = v /\ link'[n].fine = fv
  BY <1>2 DEF Gained
<1>4. /\ Events(eventClass, link, Used(s, held), eventParticle, freeEvents, madeEvents)
      /\ eventParticle \in [Node -> Particle \cup {NoParticle}]
  BY DEF Inv
<1>5. /\ eventParticle' = eventParticle /\ freeEvents' = freeEvents
      /\ madeEvents' = madeEvents
  BY DEF eventVars
<1>6. PICK V : V = Used(s, held) \cup {n}
  OBVIOUS
<1>7. Events(eventClass, link', V, eventParticle, freeEvents, madeEvents)
  BY <1>3, <1>4, <1>6, EventsGainPlain
<1>8. Events(eventClass, link', Used(s, held) \cup {n}, eventParticle', freeEvents', madeEvents')
  BY <1>5, <1>6, <1>7
<1>9. Payload(n)' = p
  BY <1>3 DEF Payload, IsEvent
<1>10. EntryFor(p, v, fv) \in AnEntry
  BY DEF EntryFor, AnEntry
<1>11. Quiet /\ UNCHANGED <<held, scanVars>>
  BY DEF Inserts
<1> QED
  BY <1>2, <1>4, <1>5, <1>8, <1>9, <1>10, <1>11, EntryComes

LEMMA EventComes ==
  ASSUME NEW s, NEW t, Inv(s, t), NEW k \in 1..(Len(s) + 1), NEW p \in Particle, NEW v \in Level,
         NEW fv \in EventUse.fine, NEW e \in Node \cup Particle, p \notin Queued,
         Inserts(e, v, fv, s, k), eventClass = TRUE, GetEvent(p, e), eventClass' = eventClass
  PROVE  IInv' /\ Comes(s, k, EntryFor(p, v, fv))
<1>1. PICK n : n = NewLink
  OBVIOUS
<1>2. PICK r \in Seq(Node), u \in Seq(Node) : Gained(s, k, r, u, n, e, v, fv)
  <2>1. fv \in Fine \cup {0, 1}
    BY DEF Fine, Use
  <2> QED
    BY <1>1, <2>1, InsertGains
<1>3. /\ n \in Node /\ n \notin Used(s, held) /\ KeepsData(link, link', Used(s, held))
      /\ link'[n].e = e /\ link'[n].level = v /\ link'[n].fine = fv
  BY <1>2 DEF Gained
<1>4. /\ Events(eventClass, link, Used(s, held), eventParticle, freeEvents, madeEvents)
      /\ eventParticle \in [Node -> Particle \cup {NoParticle}]
  BY DEF Inv
<1>5. /\ EventsOfQueue(link, Used(s, held), eventParticle, freeEvents, madeEvents)
      /\ freeEvents \in Seq(Node) /\ Distinct(freeEvents) /\ madeEvents \subseteq Node
  BY <1>4 DEF Events
<1>6. fv # 0
  BY QueueAssumption
<1>7. Quiet /\ held = 0 /\ Len(s) < MaxLinks /\ UNCHANGED <<held, scanVars>>
  BY DEF Inserts, Quiet
<1>8. s \in Seq(Node) /\ Chain = s
  BY ChainsAre
\* The record, and the free ones that are left.
<1>9. PICK rest, more :
         /\ rest \in Seq(Node) /\ freeEvents' = rest /\ madeEvents' = more /\ Distinct(rest) /\ e \in Node
         /\ \A x \in Node : Has(rest, x) <=> Has(freeEvents, x) /\ x # e
         /\ more = madeEvents \cup {e}
         /\ Has(freeEvents, e) \/ e \notin madeEvents
  <2>1. CASE freeEvents # <<>>
    <3>1. e = Head(freeEvents) /\ freeEvents' = Tail(freeEvents) /\ madeEvents' = madeEvents
      BY <2>1 DEF GetEvent
    <3>2. Head(freeEvents) = freeEvents[1] /\ 1 \in 1..Len(freeEvents) /\ freeEvents[1] \in Node
      BY <1>5, <2>1, HeadIs
    <3>3. PICK rest \in Seq(Node) : rest = Tail(freeEvents) /\ Removed(freeEvents, 1, rest)
      BY <1>5, <2>1, TailRemoves
    <3>4. /\ \A x : Has(rest, x) <=> Has(freeEvents, x) /\ x # freeEvents[1]
          /\ Distinct(rest)
      BY <1>5, <3>2, <3>3, HasAfterRemove
    <3>5. Has(freeEvents, e) /\ e \in Node
      BY <3>1, <3>2 DEF Has
    <3>6. madeEvents = madeEvents \cup {e}
      BY <1>5, <3>5 DEF EventsOfQueue
    <3> QED
      BY <3>1, <3>2, <3>3, <3>4, <3>5, <3>6
  <2>2. CASE freeEvents = <<>>
    <3>1. /\ e = Min(Node \ madeEvents) /\ madeEvents' = madeEvents \cup {e}
          /\ freeEvents' = freeEvents
      BY <2>2 DEF GetEvent
    <3>2. Min(Node \ madeEvents) \in Node \ madeEvents
      BY <1>5, <1>7, <1>8, <2>2, RecordIsLeft
    <3>3. \A x \in Node : Has(freeEvents, x) => x # e
      BY <1>5, <3>1, <3>2 DEF EventsOfQueue
    <3> QED
      BY <1>5, <3>1, <3>2, <3>3
  <2> QED
    BY <2>1, <2>2
<1>10. \A m \in Used(s, held) : link[m].fine # 0 => link[m].e # e
  BY <1>5, <1>9 DEF EventsOfQueue
<1>11. \A m \in Used(s, held) : link[m].fine # 0 => eventParticle[link[m].e] # p
  <2>1. SUFFICES ASSUME NEW m \in Used(s, held), link[m].fine # 0, eventParticle[link[m].e] = p
                 PROVE  FALSE
    OBVIOUS
  <2>2. m \in Node /\ Has(s, m)
    <3>1. \A x \in Node : x # 0
      BY DEF Node
    <3> QED
      BY <1>7, <3>1 DEF Used
  <2>3. m \in ToSet(Chain)
    BY <1>8, <2>2 DEF Has, ToSet
  <2>4. Payload(m) = p
    BY <2>1 DEF Payload, IsEvent
  <2> QED
    BY <2>3, <2>4 DEF Queued
<1>12. PICK contents : /\ eventParticle' = contents /\ contents[e] = p
                       /\ \A x \in Node \ {e} : contents[x] = eventParticle[x]
                       /\ contents \in [Node -> Particle \cup {NoParticle}]
  <2>1. eventParticle' = [eventParticle EXCEPT ![e] = p]
    BY DEF GetEvent
  <2> QED
    BY <1>4, <1>9, <2>1
<1>13. FreshEvent(link, Used(s, held), eventParticle, freeEvents, link'[n].e, contents, rest)
  <2>1. link'[n].e = e
    BY <1>3
  <2>2. \A m \in Used(s, held) : link[m].fine # 0 => /\ link[m].e # e
                                                     /\ eventParticle[link[m].e] # contents[e]
    BY <1>10, <1>11, <1>12
  <2>3. FreshEvent(link, Used(s, held), eventParticle, freeEvents, e, contents, rest)
    BY <1>9, <1>12, <2>2 DEF FreshEvent
  <2> QED
    BY <2>1, <2>3
<1>14. Events(eventClass, link', Used(s, held) \cup {n}, contents, rest,
              madeEvents \cup {link'[n].e})
  <2>1. link'[n].level \in Level /\ link'[n].fine # 0
    BY <1>3, <1>6
  <2> QED
    BY <1>3, <1>4, <1>13, <2>1, EventsGainEvent
<1>15. Events(eventClass, link', Used(s, held) \cup {n}, eventParticle', freeEvents', madeEvents')
  BY <1>3, <1>9, <1>12, <1>14
<1>16. Payload(n)' = p
  BY <1>3, <1>6, <1>12 DEF Payload, IsEvent
<1>17. EntryFor(p, v, fv) \in AnEntry
  BY DEF EntryFor, AnEntry
<1>18. \A m \in Used(s, held) : eventClass /\ link[m].fine # 0 =>
                                    eventParticle'[link[m].e] = eventParticle[link[m].e]
  BY <1>5, <1>10, <1>12 DEF EventsOfQueue
<1>19. eventParticle' \in [Node -> Particle \cup {NoParticle}]
  BY <1>12
<1> QED
  BY <1>2, <1>7, <1>15, <1>16, <1>17, <1>18, <1>19, EntryComes

LEMMA MaxIs ==
  ASSUME NEW T, T \subseteq Int, NEW m \in T, \A k \in T : k <= m
  PROVE  Max(T) = m
<1>1. \A x \in T : (\A y \in T : x >= y) => x = m
  OBVIOUS
<1>2. \E x \in T : \A y \in T : x >= y
  OBVIOUS
<1> QED
  BY <1>1, <1>2 DEF Max

\* An insertion leaves the scan and the link that is out alone.
LEMMA ComesQuietly ==
  ASSUME NEW s, NEW k, NEW x, Comes(s, k, x)
  PROVE  /\ Abstract!Quiet
         /\ Optional(held)' = Optional(held) /\ Optional(cursor)' = Optional(cursor)
         /\ (IF toVisit = 0 THEN <<>> ELSE Entries(Follow(link, lastReference, toVisit)))'
              = IF toVisit = 0 THEN <<>> ELSE Entries(Follow(link, lastReference, toVisit))
<1>1. /\ held = 0 /\ toVisit = 0 /\ cursor = 0
      /\ held' = 0 /\ toVisit' = 0 /\ cursor' = 0
  BY DEF Comes, Quiet, scanVars
<1> QED
  BY <1>1 DEF Abstract!Quiet, Optional

LEMMA OrderOfEntries ==
  ASSUME NEW p, NEW v, NEW fv, NEW m
  PROVE  Abstract!NotBefore(EntryFor(p, v, fv), EntryOf(m)) <=> NotBefore(v, fv, m)
BY DEF Abstract!NotBefore, NotBefore, EntryFor, EntryOf

\* The operators of the community modules are the same ones on both sides.
LEMMA SameInsertAt == \A q, k, x : Abstract!InsertAt(q, k, x) = InsertAt(q, k, x)
BY DEF InsertAt, Abstract!InsertAt

LEMMA SameMax == \A T : Abstract!Max(T) = Max(T)
BY DEF Max, Abstract!Max

LEMMA SameMin == \A T : Abstract!Min(T) = Min(T)
BY DEF Min, Abstract!Min

LEMMA SameRemoveAt == \A q, k : Abstract!RemoveAt(q, k) = RemoveAt(q, k)
BY DEF RemoveAt, Abstract!RemoveAt

LEMMA SameToSet == \A q : Abstract!ToSet(q) = ToSet(q)
BY DEF ToSet, Abstract!ToSet

LEMMA ComesByLevelPut ==
  ASSUME NEW s, NEW t, Inv(s, t), NEW p, NEW v, NEW fv, NEW k, PutsBehind(v, fv, s, k),
         Comes(s, k + 1, EntryFor(p, v, fv))
  PROVE  Abstract!LevelPut(EntryFor(p, v, fv))
<1>1. PICK x : x = EntryFor(p, v, fv)
  OBVIOUS
<1>2. Chain = s /\ s \in Seq(Node) /\ Len(s) \in Nat /\ k \in 0..Len(s)
  BY ChainsAre DEF PutsBehind
<1>3. \A i \in 1..Len(s) : EntryOf(s[i]) \in AnEntry
  <2>1. \A i \in 1..Len(s) : s[i] \in Used(s, held)
    BY <1>2 DEF Used, Has
  <2> QED
    BY <2>1, EntryIsTyped
<1>4. PICK q : /\ q = Entries(Chain) /\ q \in Seq(AnEntry) /\ Len(q) = Len(s)
               /\ \A i \in 1..Len(s) : q[i] = EntryOf(s[i])
  BY <1>2, <1>3, EntriesNow
<1>5. DOMAIN q = 1..Len(s)
  BY <1>4
<1>6. \A i \in 1..Len(s) : Abstract!NotBefore(x, q[i]) <=> NotBefore(v, fv, s[i])
  BY <1>1, <1>4, OrderOfEntries
<1>7. PICK T : T = {0} \cup {i \in DOMAIN q : Abstract!NotBefore(x, q[i])}
  OBVIOUS
<1>8. Max(T) = k
  <2>1. k \in T
    <3>1. CASE k = 0
      BY <1>7, <3>1
    <3>2. CASE k > 0
      <4>1. k \in 1..Len(s) /\ NotBefore(v, fv, s[k])
        BY <1>2, <3>2 DEF PutsBehind
      <4> QED
        BY <1>5, <1>6, <1>7, <4>1
    <3> QED
      BY <1>2, <3>1, <3>2
  <2>2. T \subseteq Int
    BY <1>2, <1>5, <1>7
  <2>3. \A i \in T : i <= k
    BY <1>2, <1>5, <1>6, <1>7 DEF PutsBehind
  <2> QED
    BY <2>1, <2>2, <2>3, MaxIs
<1>9. Entries(Chain)' = InsertAt(q, 1 + Max(T), x)
  <2>1. 1 + Max(T) = k + 1
    BY <1>2, <1>8
  <2>2. Entries(Chain)' = InsertAt(q, k + 1, x)
    BY <1>1, <1>4 DEF Comes
  <2> QED
    BY <2>1, <2>2
<1>10. Entries(Chain)' = InsertAt(Entries(Chain),
          1 + Max({0} \cup {i \in DOMAIN Entries(Chain) : Abstract!NotBefore(x, Entries(Chain)[i])}),
          x)
  BY <1>4, <1>7, <1>9
<1>11. /\ Abstract!Quiet
       /\ Optional(held)' = Optional(held) /\ Optional(cursor)' = Optional(cursor)
       /\ (IF toVisit = 0 THEN <<>> ELSE Entries(Follow(link, lastReference, toVisit)))'
            = IF toVisit = 0 THEN <<>> ELSE Entries(Follow(link, lastReference, toVisit))
  BY ComesQuietly
<1>12. Abstract!LevelPut(x)
  BY <1>10, <1>11, SameInsertAt, SameMax DEF Abstract!LevelPut
<1> QED
  BY <1>1, <1>12

LEMMA ComesByLevelTup ==
  ASSUME NEW s, NEW t, Inv(s, t), NEW p, NEW v, NEW fv, NEW k, TupsBehind(v, fv, s, k),
         Comes(s, k + 1, EntryFor(p, v, fv))
  PROVE  Abstract!LevelTup(EntryFor(p, v, fv))
<1>1. PICK x : x = EntryFor(p, v, fv)
  OBVIOUS
<1>2. Chain = s /\ s \in Seq(Node) /\ Len(s) \in Nat /\ k \in 0..Len(s)
  BY ChainsAre DEF TupsBehind
<1>3. \A i \in 1..Len(s) : EntryOf(s[i]) \in AnEntry
  <2>1. \A i \in 1..Len(s) : s[i] \in Used(s, held)
    BY <1>2 DEF Used, Has
  <2> QED
    BY <2>1, EntryIsTyped
<1>4. PICK q : /\ q = Entries(Chain) /\ q \in Seq(AnEntry) /\ Len(q) = Len(s)
               /\ \A i \in 1..Len(s) : q[i] = EntryOf(s[i])
  BY <1>2, <1>3, EntriesNow
<1>5. DOMAIN q = 1..Len(s)
  BY <1>4
<1>6. \A i \in 1..Len(s) : Abstract!NotBefore(x, q[i]) <=> NotBefore(v, fv, s[i])
  BY <1>1, <1>4, OrderOfEntries
<1>7. PICK T : T = {Len(q) + 1} \cup {i \in DOMAIN q : ~Abstract!NotBefore(x, q[i])}
  OBVIOUS
<1>8. Min(T) = k + 1
  <2>1. k + 1 \in T
    <3>1. CASE k = Len(s)
      BY <1>4, <1>7, <3>1
    <3>2. CASE k < Len(s)
      <4>1. k + 1 \in 1..Len(s) /\ ~NotBefore(v, fv, s[k + 1])
        BY <1>2, <3>2 DEF TupsBehind
      <4> QED
        BY <1>5, <1>6, <1>7, <4>1
    <3> QED
      BY <1>2, <3>1, <3>2
  <2>2. T \subseteq Nat
    BY <1>2, <1>4, <1>5, <1>7
  <2>3. \A i \in T : k + 1 <= i
    <3>1. \A i \in 1..Len(s) : ~NotBefore(v, fv, s[i]) => k + 1 <= i
      BY <1>2 DEF TupsBehind
    <3> QED
      BY <1>2, <1>4, <1>5, <1>6, <1>7, <3>1
  <2> QED
    BY <2>1, <2>2, <2>3, MinIs
<1>9. Entries(Chain)' = InsertAt(q, Min(T), x)
  <2>1. Entries(Chain)' = InsertAt(q, k + 1, x)
    BY <1>1, <1>4 DEF Comes
  <2> QED
    BY <1>8, <2>1
<1>10. Entries(Chain)' = InsertAt(Entries(Chain),
          Min({Len(Entries(Chain)) + 1} \cup
              {i \in DOMAIN Entries(Chain) : ~Abstract!NotBefore(x, Entries(Chain)[i])}),
          x)
  BY <1>4, <1>7, <1>9
<1>11. /\ Abstract!Quiet
       /\ Optional(held)' = Optional(held) /\ Optional(cursor)' = Optional(cursor)
       /\ (IF toVisit = 0 THEN <<>> ELSE Entries(Follow(link, lastReference, toVisit)))'
            = IF toVisit = 0 THEN <<>> ELSE Entries(Follow(link, lastReference, toVisit))
  BY ComesQuietly
<1>12. Abstract!LevelTup(x)
  BY <1>10, <1>11, SameInsertAt, SameMin DEF Abstract!LevelTup
<1> QED
  BY <1>1, <1>12

LEMMA ComesByPut ==
  ASSUME NEW s, NEW t, Inv(s, t), NEW x, Comes(s, Len(s) + 1, x)
  PROVE  Abstract!Put(x)
<1>1. PICK q \in Seq(AnEntry) : q = Entries(Chain) /\ Len(q) = Len(s)
  BY DEF Comes
<1>2. x \in AnEntry /\ Entries(Chain)' = InsertAt(q, Len(q) + 1, x)
  BY <1>1 DEF Comes
<1>3. Inserted(q, Len(q) + 1, x, Append(q, x)) /\ Len(q) + 1 \in 1..(Len(q) + 1)
  <2>1. /\ Append(q, x) \in Seq(AnEntry) /\ Len(Append(q, x)) = Len(q) + 1
        /\ (\A i \in 1..Len(q) : Append(q, x)[i] = q[i]) /\ Append(q, x)[Len(q) + 1] = x
    BY <1>2, AppendIs
  <2>2. Len(q) \in Nat
    OBVIOUS
  <2>3. (\A i \in 1..Len(q) + 1 - 1 : i \in 1..Len(q)) /\ (Len(q) + 1 + 1)..(Len(q) + 1) = {}
    BY <2>2
  <2> QED
    BY <2>1, <2>2, <2>3 DEF Inserted
<1>4. Append(q, x) \in Seq(AnEntry)
  BY <1>2
<1>5. Append(q, x) = InsertAt(q, Len(q) + 1, x)
  BY <1>2, <1>3, <1>4, InsertedIs
<1>6. Entries(Chain)' = Append(Entries(Chain), x)
  BY <1>1, <1>2, <1>5
<1> QED
  BY <1>6, ComesQuietly DEF Abstract!Put

-----------------------------------------------------------------------------
(* The actions that insert *)

\* x is one of the entries that Abstract!Next may insert.
Added(x) == x \in AnEntry /\ x \in Abstract!ToSet(Entries(Chain)')

LEMMA ComesIsAdded ==
  ASSUME NEW s, NEW k, NEW x, Comes(s, k, x)
  PROVE  Added(x)
BY SameToSet DEF Comes, Added

LEMMA PushComes ==
  ASSUME NEW s, NEW t, Inv(s, t), NEW k \in 1..(Len(s) + 1), NEW p \in Use.particle,
         NEW v \in Level, NEW fv \in Fine, NEW e \in Node \cup Particle, p \notin Queued,
         Inserts(e, v, fv, s, k), GetEvent(p, e), eventClass' = eventClass
  PROVE  IInv' /\ Comes(s, k, EntryFor(p, v, fv))
<1>1. p \in Particle
  BY QueueAssumption DEF Use
<1>2. CASE eventClass = TRUE
  <2>1. fv \in EventUse.fine
    BY <1>2 DEF Fine, Use
  <2> QED
    BY <1>1, <1>2, <2>1, EventComes
<1>3. CASE eventClass = FALSE
  <2>1. fv \in PlainUse.fine \cup {1} /\ e = p /\ UNCHANGED eventVars
    BY <1>3 DEF Fine, Use, GetEvent
  <2>2. Inserts(p, v, fv, s, k)
    BY <2>1
  <2> QED
    BY <1>1, <1>3, <2>1, <2>2, PlainComes
<1>4. eventClass \in BOOLEAN
  BY DEF Inv
<1> QED
  BY <1>2, <1>3, <1>4

LEMMA PushTailStep ==
  ASSUME IInv, NEW p \in Use.particle, NEW v \in Level, NEW fv \in Fine, PushTail(p, v, fv),
         eventClass' = eventClass
  PROVE  IInv' /\ Abstract!LevelPut(EntryFor(p, v, fv)) /\ Added(EntryFor(p, v, fv))
<1>1. PICK s \in Seq(Node), t \in Seq(Node) : Inv(s, t)
  BY DEF IInv
<1>2. PICK e \in Node \cup Particle : GetEvent(p, e) /\ Levelput(e, v, fv) /\ p \notin Queued
  BY DEF PushTail
<1>3. PICK k \in 0..Len(s) : PutsBehind(v, fv, s, k)
  BY PutsSomewhere
<1>4. Inserts(e, v, fv, s, k + 1) /\ k + 1 \in 1..(Len(s) + 1)
  BY <1>1, <1>2, <1>3, LevelputInserts
<1>5. PICK j \in 1..(Len(s) + 1) : j = k + 1
  BY <1>4
<1>6. Inserts(e, v, fv, s, j)
  BY <1>4, <1>5
<1>7. IInv' /\ Comes(s, j, EntryFor(p, v, fv))
  BY <1>1, <1>2, <1>6, PushComes
<1>8. Comes(s, k + 1, EntryFor(p, v, fv))
  BY <1>5, <1>7
<1> QED
  BY <1>1, <1>3, <1>7, <1>8, ComesByLevelPut, ComesIsAdded

LEMMA PushHeadStep ==
  ASSUME IInv, NEW p \in Use.particle, NEW v \in Level, NEW fv \in Fine, PushHead(p, v, fv),
         eventClass' = eventClass
  PROVE  IInv' /\ Abstract!LevelTup(EntryFor(p, v, fv)) /\ Added(EntryFor(p, v, fv))
<1>1. PICK s \in Seq(Node), t \in Seq(Node) : Inv(s, t)
  BY DEF IInv
<1>2. PICK e \in Node \cup Particle : GetEvent(p, e) /\ Leveltup(e, v, fv) /\ p \notin Queued
  BY DEF PushHead
<1>3. PICK k \in 0..Len(s) : TupsBehind(v, fv, s, k)
  BY TupsSomewhere
<1>4. Inserts(e, v, fv, s, k + 1) /\ k + 1 \in 1..(Len(s) + 1)
  BY <1>1, <1>2, <1>3, LeveltupInserts
<1>5. PICK j \in 1..(Len(s) + 1) : j = k + 1
  BY <1>4
<1>6. Inserts(e, v, fv, s, j)
  BY <1>4, <1>5
<1>7. IInv' /\ Comes(s, j, EntryFor(p, v, fv))
  BY <1>1, <1>2, <1>6, PushComes
<1>8. Comes(s, k + 1, EntryFor(p, v, fv))
  BY <1>5, <1>7
<1> QED
  BY <1>1, <1>3, <1>7, <1>8, ComesByLevelTup, ComesIsAdded

LEMMA PutStep ==
  ASSUME IInv, NEW p \in Use.particle, Put(p), eventClass' = eventClass
  PROVE  IInv' /\ \E x : Abstract!Put(x) /\ Added(x)
<1>1. PICK s \in Seq(Node), t \in Seq(Node) : Inv(s, t)
  BY DEF IInv
<1>2. PICK v \in Level : Insert(p, v, 1, lastNode, TRUE) /\ UNCHANGED eventVars /\ ~eventClass
  BY DEF Put
<1>3. Inserts(p, v, 1, s, Len(s) + 1) /\ Len(s) + 1 \in 1..(Len(s) + 1)
  BY <1>1, <1>2, PutInserts
<1>4. PICK j \in 1..(Len(s) + 1) : j = Len(s) + 1
  BY <1>3
<1>5. Inserts(p, v, 1, s, j)
  BY <1>3, <1>4
<1>6. p \in Particle /\ eventClass = FALSE /\ 1 \in PlainUse.fine \cup {1}
  <2>1. eventClass \in BOOLEAN
    BY <1>1 DEF Inv
  <2> QED
    BY <1>2, <2>1, QueueAssumption DEF Use
<1>7. IInv' /\ Comes(s, j, EntryFor(p, v, 1))
  BY <1>1, <1>2, <1>5, <1>6, PlainComes
<1>8. Comes(s, Len(s) + 1, EntryFor(p, v, 1))
  BY <1>4, <1>7
<1> QED
  BY <1>1, <1>7, <1>8, ComesByPut, ComesIsAdded

LEMMA QueueStarStep ==
  ASSUME IInv, NEW v \in Level, QueueStar(v), eventClass' = eventClass
  PROVE  IInv' /\ \E x : Abstract!LevelPut(x) /\ Added(x)
<1>1. PICK s \in Seq(Node), t \in Seq(Node) : Inv(s, t)
  BY DEF IInv
<1>2. Levelput(ProcessStar, v, 0) /\ UNCHANGED eventVars /\ eventClass = TRUE
  BY <1>1 DEF QueueStar, Inv
<1>3. PICK k \in 0..Len(s) : PutsBehind(v, 0, s, k)
  BY PutsSomewhere
<1>4. Inserts(ProcessStar, v, 0, s, k + 1) /\ k + 1 \in 1..(Len(s) + 1)
  BY <1>1, <1>2, <1>3, LevelputInserts
<1>5. PICK j \in 1..(Len(s) + 1) : j = k + 1
  BY <1>4
<1>6. Inserts(ProcessStar, v, 0, s, j)
  BY <1>4, <1>5
<1>7. IInv' /\ Comes(s, j, EntryFor(ProcessStar, v, 0))
  BY <1>1, <1>2, <1>6, StarComes
<1>8. Comes(s, k + 1, EntryFor(ProcessStar, v, 0))
  BY <1>5, <1>7
<1> QED
  BY <1>1, <1>3, <1>7, <1>8, ComesByLevelPut, ComesIsAdded

-----------------------------------------------------------------------------
(* The actions that remove *)

\* All the links of the ring, and the one that is out.
LEMMA UsedLinks ==
  ASSUME NEW s, NEW t, Inv(s, t)
  PROVE  /\ \A i \in 1..Len(s) : s[i] \in Node /\ s[i] \in Used(s, held) /\ s[i] # held
         /\ held # 0 => held \in Node /\ held \in Used(s, held)
         /\ Used(s, held) \subseteq Node
<1>1. s \in Seq(Node) /\ ~Has(s, held) /\ held \in Null
  BY DEF Inv, Store, Ring
<1>2. \A i \in 1..Len(s) : s[i] \in Node /\ Has(s, s[i])
  BY <1>1 DEF Has
<1>3. held # 0 => held \in Node
  BY <1>1, QueueAssumption DEF Null, Node
<1> QED
  BY <1>1, <1>2, <1>3 DEF Used

LEMMA SameUsed ==
  ASSUME NEW s \in Seq(Node), NEW k \in 1..Len(s), Distinct(s), NEW r, Removed(s, k, r)
  PROVE  Used(r, s[k]) = Used(s, 0) /\ Used(r, 0) = Used(s, 0) \ {s[k]}
<1>1. \A y : Has(r, y) <=> Has(s, y) /\ y # s[k]
  BY HasAfterRemove
<1>2. s[k] \in Node /\ Has(s, s[k])
  BY DEF Has
<1>3. \A m \in Node : m # 0
  BY DEF Node
<1> QED
  BY <1>1, <1>2, <1>3 DEF Used

LEMMA GetStep ==
  ASSUME IInv, Get, eventClass' = eventClass
  PROVE  IInv' /\ Abstract!Get
<1>1. PICK s \in Seq(Node), t \in Seq(Node) : Inv(s, t)
  BY DEF IInv
<1>2. /\ held = 0 /\ toVisit = 0 /\ cursor = 0 /\ numberNodes > 0
      /\ numberNodes' = numberNodes - 1
      /\ lastReference' = lastReference /\ freeLinkHead' = freeLinkHead /\ allocated' = allocated
      /\ eventParticle' = eventParticle /\ freeEvents' = freeEvents /\ madeEvents' = madeEvents
      /\ toVisit' = 0 /\ cursor' = 0
  BY DEF Get, Quiet, eventVars, scanVars
<1>3. /\ Len(s) \in Nat /\ Len(s) > 0 /\ numberNodes = Len(s)
      /\ lastNode = s[Len(s)] /\ lastNode \in Node
  BY <1>1, <1>2, EmptyRing
<1>4. Ring(link, lastNode, s) /\ Distinct(s) /\ Chain = s
  BY <1>1, ChainsAre DEF Ring
<1>5. 1 \in 1..Len(s) /\ Len(s) \in 1..Len(s)
  BY <1>3
<1>6. link[lastNode].next = s[1] /\ s[1] \in Node
  BY <1>3, <1>4, <1>5 DEF Ring, Succ
<1>7. held' = s[1]
  BY <1>6 DEF Get
<1>8. s[1] = lastNode <=> Len(s) = 1
  BY <1>3, <1>4, <1>5 DEF Distinct
<1>9. PICK r \in Seq(Node) : Removed(s, 1, r)
  BY <1>5, RemovedExists
<1>10. PICK other \in [Node -> LinkRecord(eventClass)] :
          /\ link' = other /\ Detached(link, other, s, 1) /\ KeepsData(link, other, Node)
          /\ lastNode' = IF Len(s) = 1 THEN 0 ELSE lastNode
  <2>1. link \in [Node -> LinkRecord(eventClass)]
    BY <1>1 DEF Inv
  <2>2. CASE Len(s) = 1
    <3>1. link' = link /\ lastNode' = 0
      BY <1>6, <1>8, <2>2 DEF Get
    <3>2. Detached(link, link, s, 1) /\ KeepsData(link, link, Node)
      BY <2>2 DEF Detached, Pred, Succ, KeepsData
    <3> QED
      BY <2>1, <2>2, <3>1, <3>2
  <2>3. CASE Len(s) # 1
    <3>1. PICK prev, succ : prev = s[Pred(s, 1)] /\ succ = s[Succ(s, 1)]
      OBVIOUS
    <3>2. lastNode = prev /\ link[s[1]].next = succ
      BY <1>3, <1>4, <1>5, <3>1 DEF Pred, Ring
    <3>3. link' = Unlinked(link, prev, succ) /\ lastNode' = lastNode
      BY <1>6, <1>8, <2>3, <3>2 DEF Get, Unlinked
    <3>4. PICK other \in [Node -> LinkRecord(eventClass)] :
             /\ other = Unlinked(link, prev, succ) /\ Detached(link, other, s, 1)
             /\ KeepsData(link, other, Node)
      <4>1. \E other \in [Node -> LinkRecord(eventClass)] :
               /\ other = Unlinked(link, s[Pred(s, 1)], s[Succ(s, 1)])
               /\ Detached(link, other, s, 1) /\ KeepsData(link, other, Node)
        BY <1>4, <1>5, <2>1, Detaches
      <4> QED
        BY <3>1, <4>1
    <3> QED
      BY <2>3, <3>3, <3>4
  <2> QED
    BY <2>2, <2>3
<1>11. Store(link', lastNode', freeLinkHead', allocated', numberNodes', held', r, t)
  <2>1. Store(link, lastNode, freeLinkHead, allocated, numberNodes, 0, s, t)
    BY <1>1, <1>2 DEF Inv
  <2>2. Store(other, IF Len(s) = 1 THEN 0 ELSE IF 1 = Len(s) THEN s[Pred(s, 1)] ELSE lastNode,
              freeLinkHead, allocated, numberNodes - 1, s[1], r, t)
    BY <1>5, <1>9, <1>10, <2>1, StoreRemove
  <2>3. lastNode' = IF Len(s) = 1 THEN 0 ELSE IF 1 = Len(s) THEN s[Pred(s, 1)] ELSE lastNode
    BY <1>10
  <2> QED
    BY <1>2, <1>7, <1>10, <2>2, <2>3
<1>12. Used(s, 0) = Used(r, held')
  BY <1>4, <1>5, <1>7, <1>9, SameUsed
<1>13. Events(eventClass', link', Used(r, held'), eventParticle', freeEvents', madeEvents')
  <2>1. Events(eventClass, link, Used(s, 0), eventParticle, freeEvents, madeEvents)
    BY <1>1, <1>2 DEF Inv
  <2>2. KeepsData(link, other, Used(s, 0))
    BY <1>10 DEF KeepsData, Used
  <2>3. Events(eventClass, other, Used(s, 0), eventParticle, freeEvents, madeEvents)
    BY <2>1, <2>2, EventsSame
  <2> QED
    BY <1>2, <1>10, <1>12, <2>3
<1>14. Inv(r, t)'
  <2>1. /\ eventClass' \in BOOLEAN /\ eventParticle' \in [Node -> Particle \cup {NoParticle}]
        /\ lastReference' \in Null /\ link' \in [Node -> LinkRecord(eventClass')]
    BY <1>1, <1>2, <1>10 DEF Inv
  <2>2. Scan(lastNode', lastReference', toVisit', cursor', held', r)
    <3>1. 0 \in 0..Len(r)
      BY <1>9
    <3> QED
      BY <1>2, <3>1 DEF Scan
  <2> QED
    BY <1>11, <1>13, <2>1, <2>2 DEF Inv
<1>15. IInv' /\ Chain' = r
  BY <1>14, LaterIs
<1>16. \A m \in Used(s, held) : EntryOf(m)' = EntryOf(m)
  <2>1. KeepsData(link, link', Used(s, held))
    BY <1>10 DEF KeepsData, Used
  <2> QED
    BY <1>2, <2>1, EntriesKept
<1>17. /\ Entries(Chain)' = RemoveAt(Entries(Chain), 1)
       /\ Entries(Chain) \in Seq(AnEntry) /\ Len(Entries(Chain)) = Len(s)
       /\ Entries(Chain)[1] = EntryOf(s[1])
  BY <1>1, <1>5, <1>9, <1>15, <1>16, QueueRemoved
<1>18. Entries(Chain) # <<>>
  BY <1>3, <1>17
<1>19. Entries(Chain)' = Tail(Entries(Chain)) /\ Head(Entries(Chain)) = EntryOf(s[1])
  <2>1. PICK q \in Seq(AnEntry) : q = Entries(Chain)
    BY <1>17
  <2>2. q # <<>>
    BY <1>18, <2>1
  <2>3. Tail(q) \in Seq(AnEntry) /\ Tail(q) = RemoveAt(q, 1) /\ Head(q) = q[1]
    BY <2>2, WithoutFirst
  <2> QED
    BY <1>17, <2>1, <2>3
<1>20. Optional(held)' = <<Head(Entries(Chain))>>
  <2>1. s[1] # 0 /\ EntryOf(s[1])' = EntryOf(s[1])
    BY <1>1, <1>2, <1>5, <1>16, UsedLinks
  <2> QED
    BY <1>7, <1>19, <2>1 DEF Optional
<1>21. Abstract!Quiet /\ UNCHANGED <<(IF toVisit = 0 THEN <<>>
                                      ELSE Entries(Follow(link, lastReference, toVisit))),
                                     Optional(cursor)>>
  BY <1>2 DEF Abstract!Quiet, Optional
<1> QED
  BY <1>15, <1>18, <1>19, <1>20, <1>21 DEF Abstract!Get

\* The four assignments of pushBack.
PushedBack(links, n, last, first) ==
    [links EXCEPT ![n].next = first, ![first].before = n, ![n].before = last, ![last].next = n]

LEMMA AttachesBack ==
  ASSUME NEW class, NEW links \in [Node -> LinkRecord(class)], NEW n \in Node,
         NEW last \in Node, NEW first \in Node, last = n <=> first = n
  PROVE  \E other \in [Node -> LinkRecord(class)] :
            /\ other = PushedBack(links, n, last, first)
            /\ Attached(links, other, n, last, first)
            /\ KeepsData(links, other, Node)
<1>1. n \in Null /\ last \in Null /\ first \in Null
  BY QueueAssumption DEF Node, Null
<1>2. PICK a \in [Node -> LinkRecord(class)] :
            /\ a = [links EXCEPT ![n].next = first]
            /\ a[n].next = first /\ KeepsNext(links, a, Node \ {n})
            /\ KeepsBefore(links, a, Node) /\ KeepsData(links, a, Node)
  BY <1>1, SetNext
<1>3. PICK b \in [Node -> LinkRecord(class)] :
            /\ b = [a EXCEPT ![first].before = n]
            /\ b[first].before = n /\ KeepsBefore(a, b, Node \ {first})
            /\ KeepsNext(a, b, Node) /\ KeepsData(a, b, Node)
  BY <1>1, SetBefore
<1>4. PICK c \in [Node -> LinkRecord(class)] :
            /\ c = [b EXCEPT ![n].before = last]
            /\ c[n].before = last /\ KeepsBefore(b, c, Node \ {n})
            /\ KeepsNext(b, c, Node) /\ KeepsData(b, c, Node)
  BY <1>1, SetBefore
<1>5. PICK d \in [Node -> LinkRecord(class)] :
            /\ d = [c EXCEPT ![last].next = n]
            /\ d[last].next = n /\ KeepsNext(c, d, Node \ {last})
            /\ KeepsBefore(c, d, Node) /\ KeepsData(c, d, Node)
  BY <1>1, SetNext
<1>6. d = PushedBack(links, n, last, first)
  BY <1>2, <1>3, <1>4, <1>5 DEF PushedBack
<1>7. KeepsData(links, d, Node)
  <2>1. /\ KeepsData(links, a, Node) /\ KeepsData(a, b, Node)
        /\ KeepsData(b, c, Node) /\ KeepsData(c, d, Node)
    BY <1>2, <1>3, <1>4, <1>5
  <2> QED
    BY <2>1 DEF KeepsData
<1>8. d[n].next = first /\ \A m \in Node : m # n /\ m # last => d[m].next = links[m].next
  <2>1. /\ KeepsNext(links, a, Node \ {n}) /\ KeepsNext(a, b, Node)
        /\ KeepsNext(b, c, Node) /\ KeepsNext(c, d, Node \ {last})
        /\ a[n].next = first /\ d[last].next = n
    BY <1>2, <1>3, <1>4, <1>5
  <2> QED
    BY <2>1 DEF KeepsNext
<1>9. /\ d[first].before = n /\ d[n].before = last
      /\ \A m \in Node : m # n /\ m # first => d[m].before = links[m].before
  <2>1. /\ KeepsBefore(links, a, Node) /\ KeepsBefore(a, b, Node \ {first})
        /\ KeepsBefore(b, c, Node \ {n}) /\ KeepsBefore(c, d, Node)
        /\ b[first].before = n /\ c[n].before = last
    BY <1>2, <1>3, <1>4, <1>5
  <2> QED
    BY <2>1 DEF KeepsBefore
<1>10. Attached(links, d, n, last, first)
  BY <1>5, <1>8, <1>9 DEF Attached
<1> QED
  BY <1>6, <1>7, <1>10

LEMMA PushBackStep ==
  ASSUME IInv, PushBack, eventClass' = eventClass
  PROVE  IInv' /\ Abstract!PushBack
<1>1. PICK s \in Seq(Node), t \in Seq(Node) : Inv(s, t)
  BY DEF IInv
<1>2. /\ held # 0 /\ held' = 0 /\ numberNodes' = numberNodes + 1
      /\ freeLinkHead' = freeLinkHead /\ allocated' = allocated
      /\ eventParticle' = eventParticle /\ freeEvents' = freeEvents /\ madeEvents' = madeEvents
      /\ toVisit' = toVisit /\ cursor' = cursor
  BY DEF PushBack, eventVars, scanVars
<1>3. /\ Len(s) \in Nat /\ numberNodes = Len(s) /\ (lastNode = 0 <=> Len(s) = 0)
      /\ Len(s) > 0 => lastNode = s[Len(s)] /\ lastNode \in Node
  BY <1>1, EmptyRing
<1>4. Ring(link, lastNode, s) /\ Distinct(s) /\ Chain = s
  BY <1>1, ChainsAre DEF Ring
<1>5. PICK n \in Node : n = held
  BY <1>1, <1>2, UsedLinks
<1>6. toVisit = 0 /\ cursor = 0
  BY <1>1, <1>2 DEF Inv, Scan
<1>7. 1 \in 1..(Len(s) + 1)
  BY <1>3
<1>8. PICK last, first : last = PrevOf(s, 1, n) /\ first = SuccOf(s, 1, n)
  OBVIOUS
<1>9. last \in Node /\ first \in Node /\ (last = n <=> first = n)
  <2>1. last \in Node /\ first \in Node
    BY <1>5, <1>7, <1>8, NeighboursAreLinks
  <2>2. Len(s) > 0 => last # n /\ first # n
    <3>1. SUFFICES ASSUME Len(s) > 0 PROVE last # n /\ first # n
      OBVIOUS
    <3>2. 1 \in 1..Len(s) /\ Len(s) \in 1..Len(s)
      BY <1>3, <3>1
    <3>3. last = s[Len(s)] /\ first = s[1]
      BY <1>3, <1>8, <3>1 DEF PrevOf, SuccOf
    <3> QED
      BY <1>1, <1>5, <3>2, <3>3, UsedLinks
  <2>3. Len(s) = 0 => last = n /\ first = n
    BY <1>8 DEF PrevOf, SuccOf
  <2> QED
    BY <1>3, <2>1, <2>2, <2>3
<1>10. /\ last = IF lastNode = 0 THEN held ELSE lastNode
       /\ first = IF lastNode = 0 THEN held ELSE link[lastNode].next
  <2>1. CASE Len(s) = 0
    BY <1>3, <1>5, <1>8, <2>1 DEF PrevOf, SuccOf
  <2>2. CASE Len(s) > 0
    <3>1. last = s[Len(s)] /\ first = s[1]
      BY <1>3, <1>8, <2>2 DEF PrevOf, SuccOf
    <3>2. link[lastNode].next = s[1] /\ lastNode # 0
      BY <1>3, <1>4, <2>2 DEF Ring, Succ
    <3> QED
      BY <1>3, <2>2, <3>1, <3>2
  <2> QED
    BY <1>3, <2>1, <2>2
<1>11. link' = PushedBack(link, n, last, first) /\ lastNode' = last /\ lastReference' = last
  BY <1>5, <1>10 DEF PushBack, PushedBack
<1>12. link \in [Node -> LinkRecord(eventClass)]
  BY <1>1 DEF Inv
<1>13. PICK other \in [Node -> LinkRecord(eventClass)] :
          /\ link' = other /\ Attached(link, other, n, last, first)
          /\ KeepsData(link, other, Node)
  BY <1>5, <1>9, <1>11, <1>12, AttachesBack
<1>14. PICK r \in Seq(Node) : Inserted(s, 1, n, r)
  BY <1>5, <1>7, InsertedExists
<1>15. Store(link', lastNode', freeLinkHead', allocated', numberNodes', held', r, t)
  <2>1. Store(link, lastNode, freeLinkHead, allocated, numberNodes, n, s, t)
    BY <1>1, <1>5 DEF Inv
  <2>2. Attached(link, other, n, PrevOf(s, 1, n), SuccOf(s, 1, n))
    BY <1>8, <1>13
  <2>3. Store(other, IF 1 = Len(s) + 1 THEN n ELSE lastNode, freeLinkHead, allocated,
              numberNodes + 1, 0, r, t)
    BY <1>5, <1>7, <1>14, <2>1, <2>2, StoreInsert
  <2>4. lastNode' = IF 1 = Len(s) + 1 THEN n ELSE lastNode
    BY <1>3, <1>5, <1>10, <1>11
  <2> QED
    BY <1>2, <1>13, <2>3, <2>4
<1>16. Used(r, held') = Used(s, held)
  <2>1. \A m : Has(r, m) <=> m = n \/ Has(s, m)
    BY <1>7, <1>14, HasAfterInsert
  <2>2. \A m \in Node : m # 0
    BY DEF Node
  <2> QED
    BY <1>2, <1>5, <2>1, <2>2 DEF Used
<1>17. KeepsData(link, link', Used(s, held))
  BY <1>13 DEF KeepsData, Used
<1>18. Events(eventClass', link', Used(r, held'), eventParticle', freeEvents', madeEvents')
  <2>1. Events(eventClass, link, Used(s, held), eventParticle, freeEvents, madeEvents)
    BY <1>1 DEF Inv
  <2>2. Events(eventClass, other, Used(s, held), eventParticle, freeEvents, madeEvents)
    BY <1>13, <1>17, <2>1, EventsSame
  <2> QED
    BY <1>2, <1>13, <1>16, <2>2
<1>19. Inv(r, t)'
  <2>1. /\ eventClass' \in BOOLEAN /\ eventParticle' \in [Node -> Particle \cup {NoParticle}]
        /\ link' \in [Node -> LinkRecord(eventClass')]
    BY <1>1, <1>2, <1>13 DEF Inv
  <2>2. lastReference' \in Null
    BY <1>9, <1>11, QueueAssumption DEF Node, Null
  <2>3. Scan(lastNode', lastReference', toVisit', cursor', held', r)
    <3>1. 0 \in 0..Len(r)
      BY <1>14
    <3> QED
      BY <1>2, <1>6, <3>1 DEF Scan
  <2> QED
    BY <1>15, <1>18, <2>1, <2>2, <2>3 DEF Inv
<1>20. IInv' /\ Chain' = r
  BY <1>19, LaterIs
<1>21. \A m \in Used(s, held) : EntryOf(m)' = EntryOf(m)
  BY <1>2, <1>17, EntriesKept
<1>22. EntryOf(n)' = EntryOf(n) /\ EntryOf(n) \in AnEntry
  BY <1>1, <1>2, <1>5, <1>21, UsedLinks, EntryIsTyped
<1>23. PICK x \in AnEntry : x = EntryOf(n) /\ EntryOf(n)' = x
  BY <1>22
<1>24. /\ Entries(Chain)' = InsertAt(Entries(Chain), 1, x)
       /\ Entries(Chain) \in Seq(AnEntry)
  BY <1>1, <1>7, <1>14, <1>20, <1>21, <1>23, QueueInserted
<1>25. Entries(Chain)' = <<x>> \o Entries(Chain)
  <2>1. PICK q \in Seq(AnEntry) : q = Entries(Chain)
    BY <1>24
  <2>2. <<x>> \o q \in Seq(AnEntry) /\ <<x>> \o q = InsertAt(q, 1, x)
    BY WithFirst
  <2> QED
    BY <1>24, <2>1, <2>2
<1>26. Optional(held) = <<x>> /\ Optional(held)' = <<>> /\ Optional(held) # <<>>
  BY <1>2, <1>5, <1>23 DEF Optional
<1>27. UNCHANGED <<(IF toVisit = 0 THEN <<>>
                    ELSE Entries(Follow(link, lastReference, toVisit))), Optional(cursor)>>
  BY <1>2, <1>6 DEF Optional
<1> QED
  BY <1>20, <1>25, <1>26, <1>27 DEF Abstract!PushBack

LEMMA ConsumeStep ==
  ASSUME IInv, Consume, eventClass' = eventClass
  PROVE  IInv' /\ Abstract!Consume
<1>1. PICK s \in Seq(Node), t \in Seq(Node) : Inv(s, t)
  BY DEF IInv
<1>2. /\ held # 0 /\ held' = 0 /\ numberNodes' = numberNodes /\ freeLinkHead' = held
      /\ lastNode' = lastNode /\ lastReference' = lastReference /\ allocated' = allocated
      /\ eventParticle' = eventParticle /\ madeEvents' = madeEvents
      /\ toVisit' = toVisit /\ cursor' = cursor
      /\ link' = [link EXCEPT ![held] = Freed(freeLinkHead)]
  BY DEF Consume, PutFreeLink, scanVars
<1>3. PICK n \in Node : n = held
  BY <1>1, <1>2, UsedLinks
<1>4. toVisit = 0 /\ cursor = 0
  BY <1>1, <1>2 DEF Inv, Scan
<1>5. PICK other \in [Node -> LinkRecord(eventClass)] :
         /\ link' = other
         /\ other[n].next = freeLinkHead /\ KeepsNext(link, other, Node \ {n})
         /\ KeepsBefore(link, other, Node \ {n}) /\ KeepsData(link, other, Node \ {n})
  <2>1. link \in [Node -> LinkRecord(eventClass)] /\ freeLinkHead \in Null
    <3>1. Free(link, freeLinkHead, t)
      BY <1>1 DEF Inv, Store
    <3>2. 0 \in Null /\ Node \subseteq Null
      BY QueueAssumption DEF Node, Null
    <3>3. freeLinkHead \in Null
      BY <3>1, <3>2 DEF Free
    <3> QED
      BY <1>1, <3>3 DEF Inv
  <2>2. link' = [link EXCEPT ![n] = Freed(freeLinkHead)]
    BY <1>2, <1>3
  <2>3. PICK other \in [Node -> LinkRecord(eventClass)] :
            /\ other = [link EXCEPT ![n] = Freed(freeLinkHead)]
            /\ other[n].next = freeLinkHead /\ KeepsNext(link, other, Node \ {n})
            /\ KeepsBefore(link, other, Node \ {n}) /\ KeepsData(link, other, Node \ {n})
    BY <2>1, SetFreed
  <2> QED
    BY <2>2, <2>3
<1>6. PICK u \in Seq(Node) : u = <<n>> \o t /\ Inserted(t, 1, n, u)
  BY ConsInserts
<1>7. Store(link', lastNode', freeLinkHead', allocated', numberNodes', held', s, u)
  <2>1. Store(link, lastNode, freeLinkHead, allocated, numberNodes, n, s, t)
    BY <1>1, <1>3 DEF Inv
  <2>2. Store(other, lastNode, n, allocated, numberNodes, 0, s, u)
    BY <1>5, <1>6, <2>1, StoreRelease
  <2> QED
    BY <1>2, <1>3, <1>5, <2>2
<1>8. Used(s, held') = Used(s, held) \ {n} /\ n \in Used(s, held)
  <2>1. ~Has(s, n)
    BY <1>1, <1>3 DEF Inv, Store
  <2>2. \A m \in Node : m # 0
    BY DEF Node
  <2> QED
    BY <1>2, <1>3, <2>1, <2>2 DEF Used
<1>9. KeepsData(link, link', Used(s, held'))
  BY <1>5, <1>8 DEF KeepsData, Used
<1>10. Events(eventClass', link', Used(s, held'), eventParticle', freeEvents', madeEvents')
  <2>1. Events(eventClass, link, Used(s, held), eventParticle, freeEvents, madeEvents)
    BY <1>1 DEF Inv
  <2>2. freeEvents' = FreedEvents(n)
    BY <1>3 DEF Consume, PutEvent, FreedEvents
  <2>3. eventClass \in BOOLEAN
    BY <1>1 DEF Inv
  <2>4. KeepsData(link, other, Used(s, held) \ {n})
    BY <1>5, <1>8, <1>9
  <2>5. Events(eventClass, other, Used(s, held) \ {n}, eventParticle, FreedEvents(n), madeEvents)
    BY <1>8, <2>1, <2>3, <2>4, EventsLose
  <2> QED
    BY <1>2, <1>5, <1>8, <2>2, <2>5
<1>11. Inv(s, u)'
  <2>1. /\ eventClass' \in BOOLEAN /\ eventParticle' \in [Node -> Particle \cup {NoParticle}]
        /\ link' \in [Node -> LinkRecord(eventClass')] /\ lastReference' \in Null
    BY <1>1, <1>2, <1>5 DEF Inv
  <2>2. Scan(lastNode', lastReference', toVisit', cursor', held', s)
    BY <1>1, <1>2, <1>4 DEF Scan, Inv
  <2> QED
    BY <1>7, <1>10, <2>1, <2>2 DEF Inv
<1>12. IInv' /\ Chain' = s
  BY <1>11, LaterIs
<1>13. \A m \in Used(s, held) \ {held} : EntryOf(m)' = EntryOf(m)
  <2>1. KeepsData(link, link', Used(s, held) \ {held})
    BY <1>3, <1>8, <1>9
  <2> QED
    BY <1>2, <2>1, EntriesKept
<1>14. Entries(Chain)' = Entries(Chain)
  BY <1>1, <1>12, <1>13, QueueSame
<1>15. Optional(held) # <<>> /\ Optional(held)' = <<>>
  BY <1>2 DEF Optional
<1>16. UNCHANGED <<(IF toVisit = 0 THEN <<>>
                    ELSE Entries(Follow(link, lastReference, toVisit))), Optional(cursor)>>
  BY <1>2, <1>4 DEF Optional
<1> QED
  BY <1>12, <1>14, <1>15, <1>16 DEF Abstract!Consume

LEMMA SameFront == \A q : Abstract!Front(q) = Front(q)
BY DEF Front, Abstract!Front

-----------------------------------------------------------------------------
(* A link leaves the ring and is freed; the scan *)

Released(links, n, head) == [links EXCEPT ![n] = Freed(head)]

FreedIn(links, n, head, other) ==
    /\ other[n].next = head /\ KeepsNext(links, other, Node \ {n})
    /\ KeepsBefore(links, other, Node \ {n}) /\ KeepsData(links, other, Node \ {n})

LEMMA SetReleased ==
  ASSUME NEW class, NEW links \in [Node -> LinkRecord(class)], NEW n \in Node, NEW head \in Null
  PROVE  /\ Released(links, n, head) \in [Node -> LinkRecord(class)]
         /\ FreedIn(links, n, head, Released(links, n, head))
<1>1. PICK other \in [Node -> LinkRecord(class)] :
         /\ other = [links EXCEPT ![n] = Freed(head)]
         /\ other[n].next = head /\ KeepsNext(links, other, Node \ {n})
         /\ KeepsBefore(links, other, Node \ {n}) /\ KeepsData(links, other, Node \ {n})
  BY SetFreed
<1>2. other = Released(links, n, head)
  BY <1>1 DEF Released
<1>3. FreedIn(links, n, head, other)
  BY <1>1 DEF FreedIn
<1> QED
  BY <1>2, <1>3

LEMMA LinkDies ==
  ASSUME NEW s, NEW t, Inv(s, t), held = 0, NEW k \in 1..Len(s),
         NEW mid \in [Node -> LinkRecord(eventClass)], Detached(link, mid, s, k),
         KeepsData(link, mid, Node), NEW n, n = s[k],
         link' = Released(mid, n, freeLinkHead), freeLinkHead' = n,
         lastNode' = (IF Len(s) = 1 THEN 0 ELSE IF k = Len(s) THEN s[Pred(s, k)] ELSE lastNode),
         numberNodes' = numberNodes - 1, held' = 0, freeEvents' = FreedEvents(n),
         UNCHANGED <<allocated, eventParticle, madeEvents, eventClass>>, lastReference' \in Null,
         NEW r \in Seq(Node), Removed(s, k, r),
         Scan(lastNode', lastReference', toVisit', cursor', 0, r)
  PROVE  /\ IInv' /\ \E u \in Seq(Node) : Inv(r, u)'
         /\ Entries(Chain)' = RemoveAt(Entries(Chain), k)
         /\ Entries(Chain) \in Seq(AnEntry) /\ Len(Entries(Chain)) = Len(s)
         /\ Entries(Chain)[k] = EntryOf(s[k])
         /\ \A m \in Used(s, 0) : m # n => EntryOf(m)' = EntryOf(m)
<1>1. Ring(link, lastNode, s) /\ Distinct(s) /\ Chain = s /\ s \in Seq(Node) /\ t \in Seq(Node)
  BY ChainsAre DEF Ring
<1>2. n \in Node /\ n \in Used(s, 0)
  BY UsedLinks
<1>3. freeLinkHead \in Null
  <2>1. Free(link, freeLinkHead, t)
    BY DEF Inv, Store
  <2>2. 0 \in Null /\ Node \subseteq Null
    BY QueueAssumption DEF Node, Null
  <2> QED
    BY <2>1, <2>2 DEF Free
<1>4. PICK other \in [Node -> LinkRecord(eventClass)] :
         /\ link' = other
         /\ other[n].next = freeLinkHead /\ KeepsNext(mid, other, Node \ {n})
         /\ KeepsBefore(mid, other, Node \ {n}) /\ KeepsData(mid, other, Node \ {n})
  <2>1. PICK other : other = Released(mid, n, freeLinkHead)
    OBVIOUS
  <2>2. other \in [Node -> LinkRecord(eventClass)] /\ FreedIn(mid, n, freeLinkHead, other)
    BY <1>2, <1>3, <2>1, SetReleased
  <2> QED
    BY <2>1, <2>2 DEF FreedIn
<1>5. PICK u \in Seq(Node) : u = <<n>> \o t /\ Inserted(t, 1, n, u)
  BY <1>1, <1>2, ConsInserts
<1>6. Store(link', lastNode', freeLinkHead', allocated', numberNodes', held', r, u)
  <2>1. Store(link, lastNode, freeLinkHead, allocated, numberNodes, 0, s, t)
    BY DEF Inv
  <2>2. Store(mid, lastNode', freeLinkHead, allocated, numberNodes - 1, n, r, t)
    BY <2>1, StoreRemove
  <2>3. Store(other, lastNode', n, allocated, numberNodes - 1, 0, r, u)
    BY <1>2, <1>4, <1>5, <2>2, StoreRelease
  <2> QED
    BY <1>4, <2>3
<1>7. Used(r, 0) = Used(s, 0) \ {n}
  BY <1>1, SameUsed
<1>8. KeepsData(link, link', Used(s, 0) \ {n})
  <2>1. KeepsData(link, mid, Node) /\ KeepsData(mid, other, Node \ {n})
    BY <1>4
  <2>2. KeepsData(link, other, Used(s, 0) \ {n})
    BY <2>1 DEF KeepsData, Used
  <2> QED
    BY <1>4, <2>2
<1>9. Events(eventClass', link', Used(r, held'), eventParticle', freeEvents', madeEvents')
  <2>1. Events(eventClass, link, Used(s, 0), eventParticle, freeEvents, madeEvents)
    BY DEF Inv
  <2>2. eventClass \in BOOLEAN
    BY DEF Inv
  <2>3. Events(eventClass, link', Used(s, 0) \ {n}, eventParticle, FreedEvents(n), madeEvents)
    BY <1>2, <1>8, <2>1, <2>2, EventsLose
  <2> QED
    BY <1>7, <2>3
<1>10. Inv(r, u)'
  <2>1. /\ eventClass' \in BOOLEAN /\ eventParticle' \in [Node -> Particle \cup {NoParticle}]
        /\ link' \in [Node -> LinkRecord(eventClass')]
    BY <1>4 DEF Inv
  <2>2. Scan(lastNode', lastReference', toVisit', cursor', held', r)
    OBVIOUS
  <2> QED
    BY <1>6, <1>9, <2>1, <2>2 DEF Inv
<1>11. IInv' /\ Chain' = r
  BY <1>10, LaterIs
<1>12. \A m \in Used(s, 0) \ {n} : EntryOf(m)' = EntryOf(m)
  BY <1>8, EntriesKept
<1>13. /\ Entries(Chain)' = RemoveAt(Entries(Chain), k)
       /\ Entries(Chain) \in Seq(AnEntry) /\ Len(Entries(Chain)) = Len(s)
       /\ Entries(Chain)[k] = EntryOf(s[k])
  BY <1>11, <1>12, QueueRemoved
<1> QED
  BY <1>10, <1>11, <1>12, <1>13

LEMMA GetLastElemStep ==
  ASSUME IInv, GetLastElem, eventClass' = eventClass
  PROVE  IInv' /\ Abstract!GetLast
<1>1. PICK s \in Seq(Node), t \in Seq(Node) : Inv(s, t)
  BY DEF IInv
<1>2. /\ held = 0 /\ toVisit = 0 /\ cursor = 0 /\ numberNodes > 0 /\ ~eventClass
      /\ held' = 0 /\ toVisit' = 0 /\ cursor' = 0
      /\ numberNodes' = numberNodes - 1 /\ freeLinkHead' = lastNode
      /\ lastReference' = lastReference /\ allocated' = allocated
      /\ eventParticle' = eventParticle /\ freeEvents' = freeEvents /\ madeEvents' = madeEvents
  BY DEF GetLastElem, Quiet, eventVars, scanVars
<1>3. /\ Len(s) \in Nat /\ Len(s) > 0 /\ numberNodes = Len(s)
      /\ lastNode = s[Len(s)] /\ lastNode \in Node
  BY <1>1, <1>2, EmptyRing
<1>4. Ring(link, lastNode, s) /\ Distinct(s) /\ Chain = s
  BY <1>1, ChainsAre DEF Ring
<1>5. PICK k \in 1..Len(s) : k = Len(s)
  BY <1>3
<1>6. PICK b : b = s[Pred(s, k)] /\ link[lastNode].before = b
  BY <1>3, <1>4, <1>5 DEF Ring
<1>7. b = lastNode <=> Len(s) = 1
  BY <1>3, <1>4, <1>5, <1>6 DEF Distinct, Pred
<1>8. lastNode' = IF b = lastNode THEN 0 ELSE b
  BY <1>6 DEF GetLastElem
<1>9. PICK mid \in [Node -> LinkRecord(eventClass)] :
         /\ link' = Released(mid, lastNode, freeLinkHead)
         /\ Detached(link, mid, s, k) /\ KeepsData(link, mid, Node)
  <2>1. link \in [Node -> LinkRecord(eventClass)]
    BY <1>1 DEF Inv
  <2>2. CASE Len(s) = 1
    <3>1. link' = Released(link, lastNode, freeLinkHead)
      BY <1>6, <1>7, <2>2 DEF GetLastElem, Released
    <3>2. Detached(link, link, s, k) /\ KeepsData(link, link, Node)
      BY <1>5, <2>2 DEF Detached, Pred, Succ, KeepsData
    <3> QED
      BY <2>1, <3>1, <3>2
  <2>3. CASE Len(s) # 1
    <3>1. PICK succ : succ = s[Succ(s, k)] /\ link[lastNode].next = succ
      BY <1>3, <1>4, <1>5 DEF Ring
    <3>2. PICK mid \in [Node -> LinkRecord(eventClass)] :
             /\ mid = Unlinked(link, b, succ)
             /\ Detached(link, mid, s, k) /\ KeepsData(link, mid, Node)
      <4>1. \E mid \in [Node -> LinkRecord(eventClass)] :
               /\ mid = Unlinked(link, s[Pred(s, k)], s[Succ(s, k)])
               /\ Detached(link, mid, s, k) /\ KeepsData(link, mid, Node)
        BY <1>4, <2>1, Detaches
      <4> QED
        BY <1>6, <3>1, <4>1
    <3>3. link' = Released(mid, lastNode, freeLinkHead)
      BY <1>6, <1>7, <2>3, <3>1, <3>2 DEF GetLastElem, Released, Unlinked
    <3> QED
      BY <3>2, <3>3
  <2> QED
    BY <2>2, <2>3
<1>10. PICK r \in Seq(Node) : Removed(s, k, r)
  BY RemovedExists
<1>11. lastNode' = IF Len(s) = 1 THEN 0 ELSE IF k = Len(s) THEN s[Pred(s, k)] ELSE lastNode
  BY <1>5, <1>6, <1>7, <1>8
<1>12. Scan(lastNode', lastReference', toVisit', cursor', 0, r)
  <2>1. 0 \in 0..Len(r)
    BY <1>10
  <2> QED
    BY <1>2, <2>1 DEF Scan
<1>13. freeEvents' = FreedEvents(lastNode)
  BY <1>2 DEF FreedEvents, IsEvent
<1>14. lastReference' \in Null
  BY <1>1, <1>2 DEF Inv
<1>15. lastNode = s[k]
  BY <1>3, <1>5
<1>16. UNCHANGED <<allocated, eventParticle, madeEvents, eventClass>>
  BY <1>2
<1>17. /\ IInv' /\ Entries(Chain)' = RemoveAt(Entries(Chain), k)
       /\ Entries(Chain) \in Seq(AnEntry) /\ Len(Entries(Chain)) = Len(s)
  BY <1>1, <1>2, <1>9, <1>10, <1>11, <1>12, <1>13, <1>14, <1>15, <1>16, LinkDies
<1>18. Entries(Chain)' = Front(Entries(Chain)) /\ Entries(Chain) # <<>>
  <2>1. PICK q \in Seq(AnEntry) : q = Entries(Chain)
    BY <1>17
  <2>2. Len(q) = k /\ q # <<>>
    BY <1>3, <1>5, <1>17, <2>1
  <2>3. Front(q) = RemoveAt(q, k)
    BY <2>2, WithoutLast
  <2> QED
    BY <1>17, <2>1, <2>2, <2>3
<1>19. /\ Abstract!Quiet
       /\ UNCHANGED <<Optional(held), (IF toVisit = 0 THEN <<>>
                                       ELSE Entries(Follow(link, lastReference, toVisit))),
                      Optional(cursor)>>
  BY <1>2 DEF Abstract!Quiet, Optional
<1> QED
  BY <1>17, <1>18, <1>19, SameFront DEF Abstract!GetLast

LEMMA RestIs ==
  ASSUME NEW links, Typed(links), NEW last, NEW reference, NEW visits, NEW at, NEW out, NEW s,
         Ring(links, last, s), Scan(last, reference, visits, at, out, s), visits > 0
  PROVE  \E w \in Seq(Node) :
            /\ w = Follow(links, reference, visits) /\ Len(w) = visits
            /\ \A i \in 1..visits : w[i] = s[Len(s) - visits + i]
<1>1. s \in Seq(Node) /\ Len(s) \in Nat /\ visits \in 1..Len(s)
  BY DEF Ring, Scan
<1>2. PICK j \in 0..Len(s) : j = Len(s) - visits /\ Len(s) - j = visits
  BY <1>1
<1>3. reference = IF j = 0 THEN last ELSE s[j]
  BY <1>1, <1>2 DEF Scan
<1>4. \A i \in 1..visits : After(links, reference, i) = s[j + i]
  <2>1. Len(s) > 0
    BY <1>1
  <2>2. \A i \in 1..(Len(s) - j) : After(links, reference, i) = s[j + i]
    BY <1>3, <2>1, RingPath
  <2> QED
    BY <1>2, <2>2
<1>5. PICK w \in Seq(Node) : Len(w) = visits /\ \A i \in 1..visits : w[i] = s[j + i]
  <2>1. \A i \in 1..visits : j + i \in 1..Len(s)
    BY <1>1, <1>2
  <2>2. PICK w : w = [i \in 1..visits |-> s[j + i]]
    OBVIOUS
  <2>3. \A i \in 1..visits : s[j + i] \in Node
    BY <1>1, <2>1
  <2>4. w \in Seq(Node) /\ Len(w) = visits
    BY <1>1, <2>2, <2>3
  <2>5. \A i \in 1..visits : w[i] = s[j + i]
    BY <2>2
  <2> QED
    BY <2>4, <2>5
<1>6. Follow(links, reference, visits) = w
  BY <1>1, <1>4, <1>5, FollowIs
<1> QED
  BY <1>2, <1>5, <1>6

Unvisited == IF toVisit = 0 THEN <<>> ELSE Entries(Follow(link, lastReference, toVisit))

LEMMA UnvisitedNow ==
  ASSUME NEW s, NEW t, Inv(s, t)
  PROVE  \E q \in Seq(AnEntry) :
            /\ q = Unvisited /\ Len(q) = toVisit
            /\ \A i \in 1..toVisit : q[i] = EntryOf(s[Len(s) - toVisit + i])
<1>1. /\ s \in Seq(Node) /\ Len(s) \in Nat /\ toVisit \in 0..Len(s)
      /\ Ring(link, lastNode, s) /\ Typed(link)
      /\ Scan(lastNode, lastReference, toVisit, cursor, held, s)
  BY ChainsAre DEF Inv, Scan
<1>2. CASE toVisit = 0
  <2>1. Unvisited = <<>>
    BY <1>2 DEF Unvisited
  <2>2. <<>> \in Seq(AnEntry) /\ Len(<<>>) = 0 /\ 1..0 = {}
    OBVIOUS
  <2> QED
    BY <1>2, <2>1, <2>2
<1>3. CASE toVisit # 0
  <2>1. toVisit > 0
    BY <1>1, <1>3
  <2>2. PICK w \in Seq(Node) :
            /\ w = Follow(link, lastReference, toVisit) /\ Len(w) = toVisit
            /\ \A i \in 1..toVisit : w[i] = s[Len(s) - toVisit + i]
    BY <1>1, <2>1, RestIs
  <2>3. \A i \in 1..toVisit : EntryOf(w[i]) \in AnEntry
    <3>1. \A i \in 1..toVisit : Len(s) - toVisit + i \in 1..Len(s)
      BY <1>1
    <3>2. \A i \in 1..toVisit : w[i] \in Used(s, held)
      BY <2>2, <3>1, UsedLinks
    <3> QED
      BY <3>2, EntryIsTyped
  <2>4. /\ Entries(w) \in Seq(AnEntry) /\ Len(Entries(w)) = Len(w)
        /\ \A i \in 1..Len(w) : Entries(w)[i] = EntryOf(w[i])
    BY <2>2, <2>3, EntriesNow
  <2>5. Unvisited = Entries(w)
    BY <1>3, <2>2 DEF Unvisited
  <2> QED
    BY <2>2, <2>4, <2>5
<1> QED
  BY <1>2, <1>3

LEMMA UnvisitedLater ==
  ASSUME NEW r, NEW u, Inv(r, u)', \A i \in 1..Len(r) : EntryOf(r[i])' \in AnEntry
  PROVE  \E q \in Seq(AnEntry), v \in Nat :
            /\ q = Unvisited' /\ v = toVisit' /\ Len(q) = v
            /\ \A i \in 1..v : q[i] = EntryOf(r[Len(r) - v + i])'
<1>1. /\ r \in Seq(Node) /\ Len(r) \in Nat /\ toVisit' \in 0..Len(r)
      /\ Ring(link', lastNode', r) /\ link' \in [Node -> LinkRecord(eventClass')]
      /\ Scan(lastNode', lastReference', toVisit', cursor', held', r)
  BY LaterIs DEF Inv, Store, Scan
<1>2. CASE toVisit' = 0
  <2>1. Unvisited' = <<>>
    BY <1>2 DEF Unvisited
  <2>2. <<>> \in Seq(AnEntry) /\ Len(<<>>) = 0 /\ 1..0 = {}
    OBVIOUS
  <2> QED
    BY <1>2, <2>1, <2>2
<1>3. CASE toVisit' # 0
  <2>1. toVisit' > 0 /\ Typed(link')
    BY <1>1, <1>3, LinksAreTyped
  <2>2. PICK w \in Seq(Node) :
            /\ w = Follow(link', lastReference', toVisit') /\ Len(w) = toVisit'
            /\ \A i \in 1..toVisit' : w[i] = r[Len(r) - toVisit' + i]
    BY <1>1, <2>1, RestIs
  <2>3. PICK v \in Nat : v = toVisit'
    BY <1>1
  <2>4. \A i \in 1..v : w[i] = r[Len(r) - v + i] /\ Len(r) - v + i \in 1..Len(r)
    BY <1>1, <2>2, <2>3
  <2>5. \A i \in 1..v : EntryOf(w[i])' \in AnEntry /\ EntryOf(w[i])' = EntryOf(r[Len(r) - v + i])'
    BY <2>4
  <2>6. PICK q : q = Unvisited'
    OBVIOUS
  <2>7. q = [i \in 1..v |-> EntryOf(w[i])']
    <3>1. DOMAIN w = 1..v
      BY <2>2, <2>3
    <3> QED
      BY <1>3, <2>2, <2>6, <3>1 DEF Unvisited, Entries
  <2>8. q \in Seq(AnEntry) /\ Len(q) = v /\ \A i \in 1..v : q[i] = EntryOf(w[i])'
    BY <2>5, <2>7
  <2>9. \A i \in 1..v : q[i] = EntryOf(r[Len(r) - v + i])'
    BY <2>5, <2>8
  <2> QED
    BY <2>3, <2>6, <2>8, <2>9
<1> QED
  BY <1>2, <1>3

\* A step of a scan that removes nothing.
LEMMA ScanKeeps ==
  ASSUME NEW s, NEW t, Inv(s, t), UNCHANGED <<linkVars, eventVars, held, eventClass>>,
         lastReference' \in Null, Scan(lastNode, lastReference', toVisit', cursor', held, s)
  PROVE  /\ Inv(s, t)' /\ IInv' /\ Entries(Chain)' = Entries(Chain)
         /\ \A i \in 1..Len(s) : EntryOf(s[i])' = EntryOf(s[i]) /\ EntryOf(s[i])' \in AnEntry
<1>1. /\ link' = link /\ lastNode' = lastNode /\ numberNodes' = numberNodes
      /\ freeLinkHead' = freeLinkHead /\ allocated' = allocated /\ held' = held
      /\ eventParticle' = eventParticle /\ freeEvents' = freeEvents
      /\ madeEvents' = madeEvents /\ eventClass' = eventClass
  BY DEF linkVars, eventVars
<1>2. Inv(s, t)'
  <2>1. /\ eventClass \in BOOLEAN /\ link \in [Node -> LinkRecord(eventClass)]
        /\ eventParticle \in [Node -> Particle \cup {NoParticle}]
        /\ Store(link, lastNode, freeLinkHead, allocated, numberNodes, held, s, t)
        /\ Events(eventClass, link, Used(s, held), eventParticle, freeEvents, madeEvents)
    BY DEF Inv
  <2> QED
    BY <1>1, <2>1 DEF Inv
<1>3. Chain' = s /\ IInv'
  BY <1>2, LaterIs
<1>4. \A m : EntryOf(m)' = EntryOf(m)
  BY <1>1 DEF EntryOf, Payload, IsEvent
<1>5. Entries(Chain)' = Entries(Chain)
  BY <1>3, <1>4, QueueSame
<1>6. \A i \in 1..Len(s) : EntryOf(s[i]) \in AnEntry
  BY UsedLinks, EntryIsTyped
<1> QED
  BY <1>2, <1>3, <1>4, <1>5, <1>6

LEMMA StartScanStep ==
  ASSUME IInv, StartScan, eventClass' = eventClass
  PROVE  IInv' /\ Abstract!StartScan
<1>1. PICK s \in Seq(Node), t \in Seq(Node) : Inv(s, t)
  BY DEF IInv
<1>2. /\ held = 0 /\ toVisit = 0 /\ cursor = 0 /\ cursor' = 0 /\ held' = held
      /\ lastReference' = lastNode /\ toVisit' = numberNodes
      /\ UNCHANGED <<linkVars, eventVars, held, eventClass>>
  BY DEF StartScan, Quiet
<1>3. Len(s) \in Nat /\ numberNodes = Len(s)
  BY <1>1, EmptyRing
<1>4. lastReference' \in Null
  <2>1. Ring(link, lastNode, s) /\ s \in Seq(Node)
    BY <1>1, ChainsAre
  <2>2. 0 \in Null /\ Node \subseteq Null
    BY QueueAssumption DEF Node, Null
  <2>3. Len(s) # 0 => s[Len(s)] \in Node
    BY <1>3, <2>1
  <2> QED
    BY <1>2, <2>1, <2>2, <2>3 DEF Ring
<1>5. Scan(lastNode, lastReference', toVisit', cursor', held, s)
  BY <1>2, <1>3 DEF Scan
<1>6. /\ Inv(s, t)' /\ IInv' /\ Entries(Chain)' = Entries(Chain)
      /\ \A i \in 1..Len(s) : EntryOf(s[i])' = EntryOf(s[i]) /\ EntryOf(s[i])' \in AnEntry
  BY <1>1, <1>2, <1>4, <1>5, ScanKeeps
<1>7. PICK q \in Seq(AnEntry) : /\ q = Unvisited' /\ Len(q) = Len(s)
                                /\ \A i \in 1..Len(s) : q[i] = EntryOf(s[Len(s) - Len(s) + i])'
  <2>1. Len(s) = toVisit'
    BY <1>2, <1>3
  <2>2. PICK q \in Seq(AnEntry), v \in Nat :
           /\ q = Unvisited' /\ v = toVisit' /\ Len(q) = v
           /\ \A i \in 1..v : q[i] = EntryOf(s[Len(s) - v + i])'
    BY <1>6, UnvisitedLater
  <2> QED
    BY <2>1, <2>2
<1>8. Chain = s /\ s \in Seq(Node)
  BY <1>1, ChainsAre
<1>9. PICK p : /\ p = Entries(Chain) /\ p \in Seq(AnEntry) /\ Len(p) = Len(s)
               /\ \A i \in 1..Len(s) : p[i] = EntryOf(s[i])
  BY <1>6, <1>8, EntriesNow
<1>10. q = p
  <2>1. \A i \in 1..Len(s) : Len(s) - Len(s) + i = i
    BY <1>3
  <2>2. \A i \in 1..Len(s) : q[i] = p[i]
    BY <1>6, <1>7, <1>9, <2>1
  <2>3. Len(q) = Len(p) /\ \A i \in 1..Len(q) : q[i] = p[i]
    BY <1>7, <1>9, <2>2
  <2> QED
    BY <1>9, <2>3, SequencesEqual
<1>11. Unvisited' = Entries(Chain)
  BY <1>7, <1>9, <1>10
<1>12. Abstract!Quiet /\ UNCHANGED <<Optional(held), Optional(cursor)>>
  BY <1>2 DEF Abstract!Quiet, Optional
<1> QED
  BY <1>6, <1>11, <1>12 DEF Abstract!StartScan, Unvisited

LEMMA EndScanStep ==
  ASSUME IInv, EndScan, eventClass' = eventClass
  PROVE  IInv' /\ Abstract!EndScan
<1>1. PICK s \in Seq(Node), t \in Seq(Node) : Inv(s, t)
  BY DEF IInv
<1>2. /\ toVisit' = 0 /\ cursor' = 0 /\ lastReference' = lastReference /\ held' = held
      /\ UNCHANGED <<linkVars, eventVars, held, eventClass>>
  BY DEF EndScan
<1>3. toVisit > 0 \/ cursor > 0
  BY DEF EndScan
<1>4. held = 0
  BY <1>1, <1>3 DEF Inv, Scan
<1>5. lastReference' \in Null
  BY <1>1, <1>2 DEF Inv
<1>6. Len(s) \in Nat
  BY <1>1, EmptyRing
<1>7. Scan(lastNode, lastReference', toVisit', cursor', held, s)
  BY <1>2, <1>6 DEF Scan
<1>8. IInv' /\ Entries(Chain)' = Entries(Chain)
  BY <1>1, <1>2, <1>5, <1>7, ScanKeeps
<1>9. UNCHANGED Optional(held) /\ Optional(cursor)' = <<>> /\ Unvisited' = <<>>
  BY <1>2, <1>4 DEF Optional, Unvisited
<1> QED
  BY <1>8, <1>9 DEF Abstract!EndScan, Unvisited

LEMMA VisitStep ==
  ASSUME IInv, Visit, eventClass' = eventClass
  PROVE  IInv' /\ Abstract!Visit
<1>1. PICK s \in Seq(Node), t \in Seq(Node) : Inv(s, t)
  BY DEF IInv
<1>2. /\ toVisit > 0 /\ lastReference' = link[lastReference].next /\ cursor' = lastReference'
      /\ toVisit' = toVisit - 1 /\ held' = held
      /\ UNCHANGED <<linkVars, eventVars, held, eventClass>>
  BY DEF Visit
<1>3. /\ s \in Seq(Node) /\ Len(s) \in Nat /\ toVisit \in 1..Len(s)
      /\ Scan(lastNode, lastReference, toVisit, cursor, held, s)
      /\ Ring(link, lastNode, s) /\ held = 0
  <2>1. Scan(lastNode, lastReference, toVisit, cursor, held, s) /\ s \in Seq(Node)
    BY <1>1 DEF Inv
  <2>2. toVisit \in 0..Len(s) /\ held = 0
    BY <1>2, <2>1 DEF Scan
  <2> QED
    BY <1>1, <1>2, <2>1, <2>2, ChainsAre
<1>4. PICK j \in 1..Len(s), v \in Nat :
         /\ j = Len(s) - toVisit + 1 /\ v = toVisit - 1 /\ Len(s) - v = j /\ v = toVisit'
  <2>1. Len(s) - toVisit + 1 \in 1..Len(s) /\ toVisit - 1 \in Nat
    BY <1>3
  <2>2. Len(s) - (toVisit - 1) = Len(s) - toVisit + 1
    BY <1>3
  <2> QED
    BY <1>2, <2>1, <2>2
<1>5. lastReference' = s[j] /\ s[j] \in Node /\ s[j] # 0
  <2>1. CASE toVisit = Len(s)
    <3>1. lastReference = s[Len(s)] /\ j = 1 /\ Len(s) \in 1..Len(s)
      BY <1>3, <1>4, <2>1 DEF Scan, Ring
    <3>2. link[s[Len(s)]].next = s[1]
      BY <1>3, <3>1 DEF Ring, Succ
    <3> QED
      BY <1>1, <1>2, <3>1, <3>2, UsedLinks, <1>3
  <2>2. CASE toVisit # Len(s)
    <3>1. PICK i \in 1..Len(s) : i = Len(s) - toVisit /\ j = i + 1 /\ i # Len(s)
      <4>1. Len(s) - toVisit \in 1..Len(s) /\ Len(s) - toVisit # Len(s)
        BY <1>3, <2>2
      <4> QED
        BY <1>4, <4>1
    <3>2. lastReference = s[i]
      BY <1>3, <2>2, <3>1 DEF Scan
    <3>3. link[s[i]].next = s[j]
      BY <1>3, <3>1 DEF Ring, Succ
    <3> QED
      BY <1>1, <1>2, <1>3, <3>2, <3>3, UsedLinks
  <2> QED
    BY <2>1, <2>2
<1>6. lastReference' \in Null
  BY <1>5, QueueAssumption DEF Node, Null
<1>7. Scan(lastNode, lastReference', toVisit', cursor', held, s)
  <2>1. toVisit' \in 0..Len(s) /\ toVisit' < Len(s) /\ cursor' = s[Len(s) - toVisit']
    BY <1>2, <1>3, <1>4, <1>5
  <2> QED
    BY <1>2, <1>3, <2>1 DEF Scan
<1>8. /\ Inv(s, t)' /\ IInv' /\ Entries(Chain)' = Entries(Chain)
      /\ \A i \in 1..Len(s) : EntryOf(s[i])' = EntryOf(s[i]) /\ EntryOf(s[i])' \in AnEntry
  BY <1>1, <1>2, <1>6, <1>7, ScanKeeps
<1>9. PICK q \in Seq(AnEntry) : /\ q = Unvisited' /\ Len(q) = v
                                /\ \A i \in 1..v : q[i] = EntryOf(s[Len(s) - v + i])'
  <2>1. PICK q \in Seq(AnEntry), w \in Nat :
           /\ q = Unvisited' /\ w = toVisit' /\ Len(q) = w
           /\ \A i \in 1..w : q[i] = EntryOf(s[Len(s) - w + i])'
    BY <1>8, UnvisitedLater
  <2> QED
    BY <1>4, <2>1
<1>10. PICK p \in Seq(AnEntry) : /\ p = Unvisited /\ Len(p) = toVisit
                                 /\ \A i \in 1..toVisit : p[i] = EntryOf(s[Len(s) - toVisit + i])
  BY <1>1, UnvisitedNow
<1>11. p # <<>> /\ Head(p) = EntryOf(s[j])
  <2>1. p # <<>> /\ Head(p) = p[1] /\ 1 \in 1..toVisit
    BY <1>3, <1>10
  <2> QED
    BY <1>4, <1>10, <2>1
<1>12. Tail(p) = q
  <2>1. /\ Tail(p) \in Seq(AnEntry) /\ Len(Tail(p)) = Len(p) - 1
        /\ \A i \in 1..Len(p) - 1 : Tail(p)[i] = p[i + 1]
    BY <1>11, TailIs
  <2>2. \A i \in 1..v : /\ i + 1 \in 1..toVisit /\ Len(s) - v + i \in 1..Len(s)
                        /\ Len(s) - toVisit + (i + 1) = Len(s) - v + i
    BY <1>3, <1>4
  <2>3. \A i \in 1..v : p[i + 1] = q[i]
    <3>1. SUFFICES ASSUME NEW i \in 1..v PROVE p[i + 1] = q[i]
      OBVIOUS
    <3>2. PICK k \in 1..Len(s) : k = Len(s) - v + i /\ Len(s) - toVisit + (i + 1) = k
      BY <2>2
    <3>3. p[i + 1] = EntryOf(s[k])
      BY <1>10, <2>2, <3>2
    <3>4. q[i] = EntryOf(s[k])'
      BY <1>9, <3>2
    <3> QED
      BY <1>8, <3>3, <3>4
  <2>4. Len(Tail(p)) = Len(q) /\ \A i \in 1..Len(Tail(p)) : Tail(p)[i] = q[i]
    <3>1. Len(Tail(p)) = v /\ Len(q) = v /\ Len(p) - 1 = v
      BY <1>4, <1>9, <1>10, <2>1
    <3> QED
      BY <2>1, <2>3, <3>1
  <2> QED
    BY <2>1, <2>4, SequencesEqual
<1>13. Optional(cursor)' = <<Head(p)>> /\ UNCHANGED Optional(held)
  BY <1>2, <1>3, <1>5, <1>8, <1>11 DEF Optional
<1>14. Unvisited # <<>> /\ Unvisited' = Tail(Unvisited) /\ Optional(cursor)' = <<Head(Unvisited)>>
  BY <1>9, <1>10, <1>11, <1>12, <1>13
<1> QED
  BY <1>8, <1>13, <1>14 DEF Abstract!Visit, Unvisited

\* The scan of the rest, when its last link is extracted.
LEMMA ScanGoesOn ==
  ASSUME NEW s \in Seq(Node), NEW v \in 0..Len(s), v < Len(s), NEW k \in 1..Len(s), k = Len(s) - v,
         NEW r, Removed(s, k, r), NEW last, NEW other, last = s[Len(s)],
         v > 0 => other = last
  PROVE  Scan(other, s[Pred(s, k)], v, 0, 0, r)
<1>1. Len(s) \in Nat /\ Len(r) = Len(s) - 1 /\ v \in 0..Len(r)
  BY DEF Removed
<1>2. v > 0 => s[Pred(s, k)] = IF v = Len(r) THEN other ELSE r[Len(r) - v]
  <2>1. CASE k = 1
    BY <1>1, <2>1 DEF Pred
  <2>2. CASE k # 1
    <3>1. Pred(s, k) = k - 1 /\ v # Len(r) /\ Len(r) - v = k - 1 /\ k - 1 \in 1..k - 1
      BY <1>1, <2>2 DEF Pred
    <3>2. r[k - 1] = s[k - 1]
      BY <3>1 DEF Removed
    <3> QED
      BY <3>1, <3>2
  <2> QED
    BY <2>1, <2>2
<1> QED
  BY <1>1, <1>2 DEF Scan

LEMMA ExtractStep ==
  ASSUME IInv, Extract, eventClass' = eventClass
  PROVE  IInv' /\ Abstract!Extract
<1>1. PICK s \in Seq(Node), t \in Seq(Node) : Inv(s, t)
  BY DEF IInv
<1>2. /\ cursor # 0 /\ cursor' = 0 /\ held' = held /\ toVisit' = toVisit
      /\ numberNodes' = numberNodes - 1 /\ freeLinkHead' = cursor
      /\ allocated' = allocated /\ eventParticle' = eventParticle /\ madeEvents' = madeEvents
      /\ freeEvents' = FreedEvents(cursor)
  BY DEF Extract, PutEvent, FreedEvents
<1>3. /\ Len(s) \in Nat /\ numberNodes = Len(s) /\ toVisit \in 0..Len(s) /\ toVisit < Len(s)
      /\ held = 0 /\ cursor = s[Len(s) - toVisit] /\ lastNode = s[Len(s)]
  <2>1. Scan(lastNode, lastReference, toVisit, cursor, held, s)
    BY <1>1 DEF Inv
  <2>2. Len(s) \in Nat /\ numberNodes = Len(s) /\ (Len(s) > 0 => lastNode = s[Len(s)])
    BY <1>1, EmptyRing
  <2> QED
    BY <1>2, <2>1, <2>2 DEF Scan
<1>4. PICK k \in 1..Len(s), v \in 0..Len(s) :
         /\ k = Len(s) - v /\ v = toVisit /\ v < Len(s) /\ cursor = s[k]
         /\ Len(s) \in 1..Len(s) /\ (v > 0 => k # Len(s)) /\ (v = 0 => k = Len(s))
  BY <1>3
<1>5. Ring(link, lastNode, s) /\ Distinct(s) /\ Chain = s
  BY <1>1, ChainsAre DEF Ring
<1>6. PICK prev, succ : /\ prev = s[Pred(s, k)] /\ link[cursor].before = prev
                        /\ succ = s[Succ(s, k)] /\ link[cursor].next = succ
  BY <1>4, <1>5 DEF Ring
<1>7. PICK mid \in [Node -> LinkRecord(eventClass)] :
         /\ mid = Unlinked(link, prev, succ) /\ Detached(link, mid, s, k)
         /\ mid[cursor].before = prev /\ KeepsData(link, mid, Node)
  <2>1. link \in [Node -> LinkRecord(eventClass)]
    BY <1>1 DEF Inv
  <2>2. \E mid \in [Node -> LinkRecord(eventClass)] :
           /\ mid = Unlinked(link, s[Pred(s, k)], s[Succ(s, k)])
           /\ Detached(link, mid, s, k) /\ mid[s[k]].before = s[Pred(s, k)]
           /\ KeepsData(link, mid, Node)
    BY <1>5, <2>1, Detaches
  <2> QED
    BY <1>4, <1>6, <2>2
<1>8. /\ link' = Released(mid, cursor, freeLinkHead)
      /\ lastNode' = IF numberNodes = 1 THEN 0
                     ELSE IF cursor = lastNode THEN mid[cursor].before ELSE lastNode
      /\ lastReference' = mid[cursor].before
  BY <1>6, <1>7 DEF Extract, Released, Unlinked
<1>9. lastReference' = s[Pred(s, k)] /\ lastReference' \in Null
  <2>1. Pred(s, k) \in 1..Len(s)
    BY <1>3, <1>4 DEF Pred
  <2>2. s[Pred(s, k)] \in Node /\ Node \subseteq Null
    BY <2>1, QueueAssumption DEF Node, Null
  <2> QED
    BY <1>6, <1>7, <1>8, <2>2
<1>10. lastNode' = IF Len(s) = 1 THEN 0 ELSE IF k = Len(s) THEN s[Pred(s, k)] ELSE lastNode
  <2>1. cursor = lastNode <=> k = Len(s)
    BY <1>3, <1>4, <1>5 DEF Distinct
  <2> QED
    BY <1>3, <1>6, <1>7, <1>8, <2>1
<1>11. PICK r \in Seq(Node) : Removed(s, k, r)
  BY RemovedExists
<1>12. Scan(lastNode', lastReference', toVisit', cursor', 0, r)
  <2>1. v > 0 => lastNode' = lastNode
    BY <1>3, <1>4, <1>10
  <2>2. Scan(lastNode', s[Pred(s, k)], v, 0, 0, r)
    BY <1>3, <1>4, <1>11, <2>1, ScanGoesOn
  <2> QED
    BY <1>2, <1>4, <1>9, <2>2
<1>13. /\ UNCHANGED <<allocated, eventParticle, madeEvents, eventClass>>
       /\ held' = 0
  BY <1>2, <1>3
<1>14. PICK u \in Seq(Node) :
          /\ IInv' /\ Inv(r, u)'
          /\ Entries(Chain)' = RemoveAt(Entries(Chain), k)
          /\ Entries(Chain) \in Seq(AnEntry) /\ Len(Entries(Chain)) = Len(s)
          /\ \A m \in Used(s, 0) : m # cursor => EntryOf(m)' = EntryOf(m)
  <2>1. held = 0 /\ cursor = s[k] /\ numberNodes' = numberNodes - 1 /\ freeLinkHead' = cursor
    BY <1>2, <1>3, <1>4
  <2>2. freeEvents' = FreedEvents(cursor) /\ link' = Released(mid, cursor, freeLinkHead)
    BY <1>2, <1>8
  <2>3. Detached(link, mid, s, k) /\ KeepsData(link, mid, Node)
    BY <1>7
  <2>4. /\ IInv' /\ \E u \in Seq(Node) : Inv(r, u)'
        /\ Entries(Chain)' = RemoveAt(Entries(Chain), k)
        /\ Entries(Chain) \in Seq(AnEntry) /\ Len(Entries(Chain)) = Len(s)
        /\ Entries(Chain)[k] = EntryOf(s[k])
        /\ \A m \in Used(s, 0) : m # cursor => EntryOf(m)' = EntryOf(m)
    BY <1>1, <1>9, <1>10, <1>11, <1>12, <1>13, <2>1, <2>2, <2>3, LinkDies
  <2> QED
    BY <2>4
<1>15. /\ Len(r) = Len(s) - 1
       /\ \A i \in 1..(Len(s) - 1) :
             \E j \in 1..Len(s) : /\ j # k /\ r[i] = s[j]
                                  /\ i >= k => j = i + 1
  <2>1. /\ Len(r) = Len(s) - 1
        /\ \A i \in 1..(Len(s) - 1) :
              \/ i < k /\ i \in 1..Len(s) /\ r[i] = s[i]
              \/ i >= k /\ i + 1 \in 1..Len(s) /\ r[i] = s[i + 1]
    BY <1>11, RemovedPlaces
  <2>2. \A i \in 1..(Len(s) - 1) : \/ i < k /\ i # k
                                   \/ i >= k /\ i + 1 # k
    BY <1>3, <1>4
  <2>3. \A i \in 1..(Len(s) - 1) : i < k => ~(i >= k)
    BY <1>3, <1>4
  <2> QED
    BY <2>1, <2>2, <2>3
<1>16. \A j \in 1..Len(s) : j # k => EntryOf(s[j])' = EntryOf(s[j]) /\ EntryOf(s[j])' \in AnEntry
  <2>1. SUFFICES ASSUME NEW j \in 1..Len(s), j # k
                 PROVE  EntryOf(s[j])' = EntryOf(s[j]) /\ EntryOf(s[j])' \in AnEntry
    OBVIOUS
  <2>2. s[j] \in Used(s, 0) /\ s[j] # cursor
    BY <1>1, <1>3, <1>4, <1>5, <2>1, UsedLinks DEF Distinct
  <2>3. EntryOf(s[j]) \in AnEntry
    BY <1>1, <1>3, <2>2, EntryIsTyped
  <2> QED
    BY <1>14, <2>2, <2>3
<1>17. PICK q \in Seq(AnEntry) : /\ q = Unvisited' /\ Len(q) = v
                                 /\ \A i \in 1..v : q[i] = EntryOf(r[Len(r) - v + i])'
  <2>1. \A i \in 1..Len(r) : EntryOf(r[i])' \in AnEntry
    BY <1>15, <1>16
  <2>2. PICK q \in Seq(AnEntry), w \in Nat :
           /\ q = Unvisited' /\ w = toVisit' /\ Len(q) = w
           /\ \A i \in 1..w : q[i] = EntryOf(r[Len(r) - w + i])'
    BY <1>14, <2>1, UnvisitedLater
  <2>3. w = v
    BY <1>2, <1>4, <2>2
  <2> QED
    BY <2>2, <2>3
<1>18. PICK p \in Seq(AnEntry) : /\ p = Unvisited /\ Len(p) = v
                                 /\ \A i \in 1..v : p[i] = EntryOf(s[Len(s) - v + i])
  <2>1. \E p \in Seq(AnEntry) : /\ p = Unvisited /\ Len(p) = toVisit
                                /\ \A i \in 1..toVisit : p[i] = EntryOf(s[Len(s) - toVisit + i])
    BY <1>1, UnvisitedNow
  <2> QED
    BY <1>4, <2>1
<1>19. q = p
  <2>1. \A i \in 1..v : q[i] = p[i]
    <3>1. SUFFICES ASSUME NEW i \in 1..v PROVE q[i] = p[i]
      OBVIOUS
    <3>2. PICK l \in 1..(Len(s) - 1) : /\ l = Len(r) - v + i /\ l >= k
                                       /\ l + 1 = Len(s) - v + i
      BY <1>3, <1>4, <1>15
    <3>3. l + 1 \in 1..Len(s) /\ l + 1 # k /\ r[l] = s[l + 1]
      BY <1>3, <1>15, <3>2
    <3>4. q[i] = EntryOf(s[l + 1])'
      BY <1>17, <3>2, <3>3
    <3>5. p[i] = EntryOf(s[l + 1])
      BY <1>18, <3>2
    <3> QED
      BY <1>16, <3>3, <3>4, <3>5
  <2> QED
    BY <1>17, <1>18, <2>1, SequencesEqual
<1>20. Unvisited' = Unvisited /\ Len(Unvisited) = v
  BY <1>17, <1>18, <1>19
<1>21. Entries(Chain)' = RemoveAt(Entries(Chain), Len(Entries(Chain)) - Len(Unvisited))
  BY <1>4, <1>14, <1>20
<1>22. /\ Optional(cursor) # <<>> /\ Optional(cursor)' = <<>>
       /\ UNCHANGED Optional(held)
  <2>1. PICK x : x = EntryOf(cursor)
    OBVIOUS
  <2>2. Optional(cursor) = <<x>>
    BY <1>2, <2>1 DEF Optional
  <2>3. <<x>> # <<>>
    OBVIOUS
  <2>4. Optional(cursor)' = <<>>
    BY <1>2 DEF Optional
  <2>5. held' = 0 /\ held = 0
    BY <1>3, <1>13
  <2>6. UNCHANGED Optional(held)
    BY <2>5 DEF Optional
  <2> QED
    BY <2>2, <2>3, <2>4, <2>6
<1> QED
  BY <1>14, <1>20, <1>21, <1>22, SameRemoveAt DEF Abstract!Extract, Unvisited

-----------------------------------------------------------------------------
(* The queue is emptied *)

\* The value of the recursive function of EventsOf.
LEMMA EventsOfIs ==
  ASSUME NEW s \in Seq(Node), \A i \in 1..Len(s) : IsEvent(s[i]) => link[s[i]].e \in Node,
         \A i, j \in 1..Len(s) : IsEvent(s[i]) /\ IsEvent(s[j]) /\ link[s[i]].e = link[s[j]].e => i = j
  PROVE  /\ EventsOf(s) \in Seq(Node) /\ Distinct(EventsOf(s))
         /\ \A x : Has(EventsOf(s), x) <=>
                      \E i \in 1..Len(s) : IsEvent(s[i]) /\ link[s[i]].e = x
<1>1. PICK n \in Nat : n = Len(s)
  OBVIOUS
<1> DEFINE Is(h) == h = [i \in 0..Len(s) |-> IF i = 0 THEN <<>> ELSE EventOf(s[i]) \o h[i - 1]]
           E == [k \in 1..n |-> EventOf(s[k])]
           step == [k \in 1..n |-> [q \in Seq(Node) |-> E[k] \o q]]
<1>2. \A k \in 1..n : EventOf(s[k]) \in Seq(Node)
  BY <1>1 DEF EventOf
<1>3. E \in [1..n -> Seq(Node)]
  BY <1>2
<1>4. \A k \in 1..n : E[k] = EventOf(s[k])
  OBVIOUS
<1> HIDE DEF E
<1>5. step \in [1..n -> [Seq(Node) -> Seq(Node)]]
  <2>1. \A k \in 1..n : [q \in Seq(Node) |-> E[k] \o q] \in [Seq(Node) -> Seq(Node)]
    <3>1. \A k \in 1..n : E[k] \in Seq(Node)
      BY <1>3
    <3>2. \A k \in 1..n : \A q \in Seq(Node) : E[k] \o q \in Seq(Node)
      BY <3>1
    <3> QED
      BY <3>2
  <2> QED
    BY <2>1
<1>6. \A k \in 1..n : \A q \in Seq(Node) : step[k][q] = E[k] \o q
  OBVIOUS
<1> HIDE DEF step
<1>7. PICK f : Recursion(f, Seq(Node), <<>>, step, n)
  <2>1. <<>> \in Seq(Node)
    OBVIOUS
  <2> QED
    BY <1>5, <2>1, RecursionExists
<1>8. /\ f \in [0..n -> Seq(Node)] /\ f[0] = <<>>
      /\ \A k \in 1..n : f[k] = E[k] \o f[k - 1]
  <2>1. f \in [0..n -> Seq(Node)] /\ f[0] = <<>> /\ \A k \in 1..n : f[k] = step[k][f[k - 1]]
    BY <1>7 DEF Recursion
  <2>2. \A k \in 1..n : f[k - 1] \in Seq(Node)
    BY <2>1
  <2> QED
    BY <1>6, <2>1, <2>2
<1>9. \A k \in 0..n : k # 0 => k \in 1..n /\ k - 1 \in 0..n
  OBVIOUS
<1>10. Is(f)
  <2>1. \A k \in 0..n : f[k] = IF k = 0 THEN <<>> ELSE EventOf(s[k]) \o f[k - 1]
    BY <1>4, <1>8, <1>9
  <2> QED
    BY <1>1, <1>8, <2>1
<1>11. PICK of : of = CHOOSE h : Is(h)
  OBVIOUS
<1>12. Is(of)
  <2> HIDE DEF Is
  <2> QED
    BY <1>10, <1>11
<1>13. EventsOf(s) = of[n]
  BY <1>1, <1>11 DEF EventsOf
<1>14. \A k \in 0..n : of[k] = IF k = 0 THEN <<>> ELSE EventOf(s[k]) \o of[k - 1]
  BY <1>1, <1>12
<1> HIDE DEF Is
<1>15. \A k \in 0..n : of[k] = f[k]
  <2> DEFINE D == {k \in 0..n : of[k] # f[k]}
  <2>1. SUFFICES ASSUME D # {} PROVE FALSE
    OBVIOUS
  <2>2. D \subseteq Nat
    OBVIOUS
  <2>3. PICK k \in D : \A j \in D : k <= j
    <3> HIDE DEF D
    <3> QED
      BY <2>2, <2>1, SmallestOne
  <2>4. k \in 0..n /\ of[k] # f[k]
    OBVIOUS
  <2>5. k # 0
    <3>1. 0 \in 0..n
      OBVIOUS
    <3> QED
      BY <1>8, <1>14, <2>4, <3>1
  <2>6. k \in 1..n /\ k - 1 \in 0..n /\ ~(k <= k - 1)
    BY <1>9, <2>4, <2>5
  <2>7. k - 1 \notin D
    <3> HIDE DEF D
    <3> QED
      BY <2>3, <2>6
  <2>8. of[k - 1] = f[k - 1]
    BY <2>6, <2>7
  <2> QED
    BY <1>4, <1>8, <1>14, <2>4, <2>5, <2>6, <2>8
<1>16. EventsOf(s) = f[n] /\ f[n] \in Seq(Node)
  <2>1. n \in 0..n
    OBVIOUS
  <2> QED
    BY <1>8, <1>13, <1>15, <2>1
<1>17. \A k \in 1..n : Distinct(E[k]) /\ \A x : Has(E[k], x) <=> IsEvent(s[k]) /\ x = link[s[k]].e
  <2>1. SUFFICES ASSUME NEW k \in 1..n
                 PROVE  Distinct(E[k]) /\ \A x : Has(E[k], x) <=> IsEvent(s[k]) /\ x = link[s[k]].e
    OBVIOUS
  <2>2. CASE IsEvent(s[k])
    <3>1. PICK y : y = link[s[k]].e
      OBVIOUS
    <3>2. E[k] = <<y>>
      BY <1>4, <2>2, <3>1 DEF EventOf
    <3>3. Len(<<y>>) = 1 /\ <<y>>[1] = y /\ \A i : i \in 1..1 <=> i = 1
      OBVIOUS
    <3> QED
      BY <2>2, <3>1, <3>2, <3>3 DEF Distinct, Has
  <2>3. CASE ~IsEvent(s[k])
    <3>1. E[k] = <<>>
      BY <1>4, <2>3 DEF EventOf
    <3>2. Len(<<>>) = 0 /\ 1..0 = {}
      OBVIOUS
    <3> QED
      BY <2>3, <3>1, <3>2 DEF Distinct, Has
  <2> QED
    BY <2>2, <2>3
<1>18. \A j, k \in 1..n : \A x : Has(E[j], x) /\ Has(E[k], x) => j = k
  <2>1. SUFFICES ASSUME NEW j \in 1..n, NEW k \in 1..n, NEW x, Has(E[j], x), Has(E[k], x)
                 PROVE  j = k
    OBVIOUS
  <2>2. IsEvent(s[j]) /\ IsEvent(s[k]) /\ link[s[j]].e = x /\ link[s[k]].e = x
    BY <1>17, <2>1
  <2>3. j \in 1..Len(s) /\ k \in 1..Len(s)
    BY <1>1
  <2> QED
    BY <2>2, <2>3
<1>19. Distinct(f[n]) /\ \A x : Has(f[n], x) <=> \E j \in 1..n : Has(E[j], x)
  BY <1>3, <1>8, <1>17, <1>18, GatheredIs
<1>20. \A x : Has(f[n], x) <=> \E j \in 1..n : IsEvent(s[j]) /\ x = link[s[j]].e
  BY <1>17, <1>19
<1> QED
  BY <1>1, <1>16, <1>19, <1>20

\* All the links of the ring go to the free list, the last one first.
FreesRing(links, other, head, s) ==
    /\ \A i \in 1..Len(s) : other[s[i]].next = IF i = 1 THEN head ELSE links[s[i]].before
    /\ \A m \in Node : ~Has(s, m) => other[m].next = links[m].next

LEMMA EmptyHasNothing ==
  /\ <<>> \in Seq(Node) /\ Len(<<>>) = 0 /\ Distinct(<<>>) /\ \A x : ~Has(<<>>, x)
<1>1. Len(<<>>) = 0 /\ 1..0 = {}
  OBVIOUS
<1> QED
  BY <1>1 DEF Distinct, Has

LEMMA StoreEmpties ==
  ASSUME NEW links, NEW other, NEW last, NEW head, NEW made, NEW count, NEW s, NEW t,
         Store(links, last, head, made, count, 0, s, t), FreesRing(links, other, head, s)
  PROVE  \E u \in Seq(Node) :
            Store(other, 0, (IF last = 0 THEN head ELSE last), made, 0, 0, <<>>, u)
<1>1. /\ s \in Seq(Node) /\ Len(s) \in Nat /\ t \in Seq(Node) /\ Len(t) \in Nat
      /\ Ring(links, last, s) /\ Free(links, head, t)
      /\ Distinct(s) /\ Distinct(t) /\ made \in 0..MaxLinks /\ made = Len(s) + Len(t)
      /\ \A m \in Node : ~(Has(s, m) /\ Has(t, m))
      /\ \A m \in Node : m <= made <=> Has(s, m) \/ Has(t, m) \/ m = 0
  BY DEF Store, Ring, Free
<1>2. PICK l \in Nat, k \in Nat : l = Len(s) /\ k = Len(t)
  BY <1>1
<1>3. PICK u \in Seq(Node) :
         /\ Len(u) = l + k
         /\ \A i \in 1..l : u[i] = s[l + 1 - i]
         /\ \A i \in 1..k : u[l + i] = t[i]
  <2>1. PICK u : u = [i \in 1..(l + k) |-> IF i <= l THEN s[l + 1 - i] ELSE t[i - l]]
    OBVIOUS
  <2>2. \A i \in 1..(l + k) : (IF i <= l THEN s[l + 1 - i] ELSE t[i - l]) \in Node
    <3>1. SUFFICES ASSUME NEW i \in 1..(l + k)
                   PROVE  (IF i <= l THEN s[l + 1 - i] ELSE t[i - l]) \in Node
      OBVIOUS
    <3>2. CASE i <= l
      <4>1. l + 1 - i \in 1..Len(s)
        BY <1>2, <3>2
      <4> QED
        BY <1>1, <3>2, <4>1
    <3>3. CASE ~(i <= l)
      <4>1. i - l \in 1..Len(t)
        BY <1>2, <3>3
      <4> QED
        BY <1>1, <3>3, <4>1
    <3> QED
      BY <3>2, <3>3
  <2>3. u \in Seq(Node) /\ Len(u) = l + k /\ l + k \in Nat
    BY <2>1, <2>2
  <2>4. \A i \in 1..l : i \in 1..(l + k) /\ i <= l
    OBVIOUS
  <2>5. \A i \in 1..k : l + i \in 1..(l + k) /\ ~(l + i <= l) /\ l + i - l = i
    OBVIOUS
  <2> QED
    BY <2>1, <2>3, <2>4, <2>5
<1>4. \A i \in 1..Len(u) : \/ /\ i <= l /\ l + 1 - i \in 1..Len(s)
                              /\ u[i] = s[l + 1 - i] /\ Has(s, u[i])
                           \/ /\ i > l /\ i - l \in 1..Len(t)
                              /\ u[i] = t[i - l] /\ Has(t, u[i])
  <2>1. SUFFICES ASSUME NEW i \in 1..Len(u)
                 PROVE  \/ /\ i <= l /\ l + 1 - i \in 1..Len(s)
                           /\ u[i] = s[l + 1 - i] /\ Has(s, u[i])
                        \/ /\ i > l /\ i - l \in 1..Len(t)
                           /\ u[i] = t[i - l] /\ Has(t, u[i])
    OBVIOUS
  <2>2. CASE i <= l
    <3>1. i \in 1..l /\ l + 1 - i \in 1..Len(s)
      BY <1>2, <1>3, <2>2
    <3>2. u[i] = s[l + 1 - i]
      BY <1>3, <3>1
    <3> QED
      BY <2>2, <3>1, <3>2 DEF Has
  <2>3. CASE ~(i <= l)
    <3>1. PICK j \in 1..k : j = i - l /\ i = l + j
      <4>1. i - l \in 1..k /\ i = l + (i - l)
        BY <1>3, <2>3
      <4> QED
        BY <4>1
    <3>2. u[i] = t[j] /\ i > l /\ j \in 1..Len(t)
      BY <1>2, <1>3, <3>1
    <3> QED
      BY <3>1, <3>2 DEF Has
  <2> QED
    BY <2>2, <2>3
<1>5. \A m \in Node : Has(u, m) <=> Has(s, m) \/ Has(t, m)
  <2>1. ASSUME NEW m \in Node, Has(u, m) PROVE Has(s, m) \/ Has(t, m)
    BY <1>4, <2>1 DEF Has
  <2>2. ASSUME NEW m \in Node, Has(s, m) PROVE Has(u, m)
    <3>1. PICK i \in 1..Len(s) : s[i] = m
      BY <2>2 DEF Has
    <3>2. PICK j \in 1..l : l + 1 - j = i
      <4>1. l + 1 - i \in 1..l /\ l + 1 - (l + 1 - i) = i
        BY <1>2
      <4> QED
        BY <4>1
    <3>3. u[j] = m /\ j \in 1..Len(u)
      BY <1>3, <3>1, <3>2
    <3> QED
      BY <3>3 DEF Has
  <2>3. ASSUME NEW m \in Node, Has(t, m) PROVE Has(u, m)
    <3>1. PICK i \in 1..k : t[i] = m
      BY <1>2, <2>3 DEF Has
    <3>2. u[l + i] = m /\ l + i \in 1..Len(u)
      BY <1>3, <3>1
    <3> QED
      BY <3>2 DEF Has
  <2> QED
    BY <2>1, <2>2, <2>3
<1>6. Distinct(u)
  <2>1. SUFFICES ASSUME NEW i \in 1..Len(u), NEW j \in 1..Len(u), u[i] = u[j] PROVE i = j
    BY DEF Distinct
  <2>2. u[i] \in Node
    OBVIOUS
  <2>3. CASE Has(s, u[i])
    <3>1. ~Has(t, u[i]) /\ ~Has(t, u[j])
      BY <1>1, <2>1, <2>2, <2>3
    <3>2. /\ l + 1 - i \in 1..Len(s) /\ u[i] = s[l + 1 - i]
          /\ l + 1 - j \in 1..Len(s) /\ u[j] = s[l + 1 - j]
      BY <1>4, <3>1
    <3>3. l + 1 - i = l + 1 - j
      BY <1>1, <2>1, <3>2 DEF Distinct
    <3> QED
      BY <1>3, <3>3
  <2>4. CASE ~Has(s, u[i])
    <3>1. ~Has(s, u[j])
      BY <2>1, <2>4
    <3>2. /\ i - l \in 1..Len(t) /\ u[i] = t[i - l]
          /\ j - l \in 1..Len(t) /\ u[j] = t[j - l]
      BY <1>4, <2>4, <3>1
    <3>3. i - l = j - l
      BY <1>1, <2>1, <3>2 DEF Distinct
    <3> QED
      BY <1>3, <3>3
  <2> QED
    BY <2>3, <2>4
<1>7. \A i \in 1..l : s[i] \in Node /\ s[i] # 0
  <2>1. \A m \in Node : m # 0
    BY DEF Node
  <2> QED
    BY <1>1, <1>2, <2>1
<1>8. /\ last = IF l = 0 THEN 0 ELSE s[l]
      /\ head = IF k = 0 THEN 0 ELSE t[1]
  BY <1>1, <1>2 DEF Ring, Free
<1>9. (IF last = 0 THEN head ELSE last) = IF Len(u) = 0 THEN 0 ELSE u[1]
  <2>1. CASE l = 0
    <3>1. Len(u) = k /\ (k # 0 => 1 \in 1..k /\ l + 1 = 1)
      BY <1>3, <2>1
    <3>2. k # 0 => u[1] = t[1]
      BY <1>3, <3>1
    <3> QED
      BY <1>8, <2>1, <3>1, <3>2
  <2>2. CASE l # 0
    <3>1. 1 \in 1..l /\ l \in 1..l /\ l + 1 - 1 = l /\ Len(u) # 0
      BY <1>3, <2>2
    <3>2. u[1] = s[l]
      BY <1>3, <3>1
    <3> QED
      BY <1>7, <1>8, <2>2, <3>1, <3>2
  <2> QED
    BY <2>1, <2>2
<1>10. \A i \in 1..Len(u) : other[u[i]].next = IF i = Len(u) THEN 0 ELSE u[i + 1]
  <2>1. SUFFICES ASSUME NEW i \in 1..Len(u)
                 PROVE  other[u[i]].next = IF i = Len(u) THEN 0 ELSE u[i + 1]
    OBVIOUS
  <2>2. CASE i < l
    <3>1. PICK j \in 1..l : j = l + 1 - i /\ j # 1 /\ u[i] = s[j]
      <4>1. l + 1 - i \in 1..l /\ l + 1 - i # 1 /\ i \in 1..l
        BY <1>2, <1>3, <2>2
      <4> QED
        BY <1>3, <4>1
    <3>2. other[u[i]].next = s[j - 1]
      <4>1. other[s[j]].next = links[s[j]].before
        BY <1>2, <3>1 DEF FreesRing
      <4>2. links[s[j]].before = s[j - 1]
        BY <1>1, <1>2, <3>1 DEF Ring, Pred
      <4> QED
        BY <3>1, <4>1, <4>2
    <3>3. i + 1 \in 1..l /\ l + 1 - (i + 1) = j - 1 /\ i # Len(u)
      BY <1>3, <2>2, <3>1
    <3>4. u[i + 1] = s[j - 1]
      BY <1>3, <3>3
    <3> QED
      BY <3>2, <3>3, <3>4
  <2>3. CASE i = l
    <3>1. u[i] = s[1] /\ 1 \in 1..Len(s)
      <4>1. i \in 1..l /\ l + 1 - i = 1 /\ 1 \in 1..l
        BY <1>3, <2>3
      <4> QED
        BY <1>2, <1>3, <4>1
    <3>2. other[u[i]].next = head
      BY <3>1 DEF FreesRing
    <3>3. k = 0 <=> i = Len(u)
      BY <1>3, <2>3
    <3>4. k # 0 => u[i + 1] = t[1]
      <4>1. k # 0 => 1 \in 1..k
        OBVIOUS
      <4> QED
        BY <1>3, <2>3, <4>1
    <3> QED
      BY <1>8, <3>2, <3>3, <3>4
  <2>4. CASE i > l
    <3>1. PICK j \in 1..k : j = i - l /\ i = l + j /\ u[i] = t[j]
      <4>1. i - l \in 1..k /\ i = l + (i - l)
        BY <1>3, <2>4
      <4> QED
        BY <1>3, <4>1
    <3>2. Has(t, t[j]) /\ t[j] \in Node
      BY <1>1, <1>2 DEF Has
    <3>3. other[t[j]].next = links[t[j]].next
      BY <1>1, <3>2 DEF FreesRing
    <3>4. links[t[j]].next = IF j = k THEN 0 ELSE t[j + 1]
      BY <1>1, <1>2 DEF Free
    <3>5. j = k <=> i = Len(u)
      BY <1>3, <3>1
    <3>6. j # k => u[i + 1] = t[j + 1]
      <4>1. j # k => j + 1 \in 1..k /\ l + (j + 1) = i + 1
        BY <3>1
      <4> QED
        BY <1>3, <4>1
    <3> QED
      BY <3>1, <3>3, <3>4, <3>5, <3>6
  <2> QED
    BY <1>3, <2>2, <2>3, <2>4
<1>11. PICK first : first = IF last = 0 THEN head ELSE last
  OBVIOUS
<1>12. Len(u) = made /\ Len(u) <= MaxLinks
  BY <1>1, <1>2, <1>3, QueueAssumption
<1>13. Free(other, first, u)
  BY <1>6, <1>9, <1>10, <1>11, <1>12 DEF Free
<1>14. Ring(other, 0, <<>>)
  <2>1. 0 <= MaxLinks /\ 1..0 = {}
    BY QueueAssumption
  <2> QED
    BY <2>1, EmptyHasNothing DEF Ring
<1>15. ~Has(u, 0) /\ 0 \in Null
  <2>1. ~ \E i \in 1..Len(u) : u[i] = 0
    <3>1. \A m \in Node : m # 0
      BY DEF Node
    <3> QED
      BY <3>1
  <2> QED
    BY <2>1, QueueAssumption DEF Has, Null
<1>16. Store(other, 0, first, made, 0, 0, <<>>, u)
  <2>1. made = Len(<<>>) + Len(u) + 0
    BY <1>1, <1>12, EmptyHasNothing
  <2>2. \A m \in Node : m <= made <=> Has(<<>>, m) \/ Has(u, m) \/ m = 0
    BY <1>1, <1>5, EmptyHasNothing
  <2> QED
    BY <1>1, <1>13, <1>14, <1>15, <2>1, <2>2, EmptyHasNothing DEF Store
<1> QED
  BY <1>11, <1>16

\* The Events of the queue are freed, and the others are deleted.
AreFreed(links, U, rest) ==
    /\ rest \in Seq(Node) /\ Distinct(rest)
    /\ \A x : Has(rest, x) <=> \E m \in U : links[m].fine # 0 /\ links[m].e = x

LEMMA EventsEmpty ==
  ASSUME NEW class, NEW links, NEW other, NEW U, NEW particles, NEW free, NEW made,
         Events(class, links, U, particles, free, made), class = TRUE,
         NEW rest, AreFreed(links, U, rest)
  PROVE  Events(class, other, {}, particles, rest, made \ (ToSet(free) \ ToSet(rest)))
<1>1. /\ free \in Seq(Node) /\ made \subseteq Node
      /\ EventsOfQueue(links, U, particles, free, made)
  BY DEF Events
<1>a. /\ rest \in Seq(Node) /\ Distinct(rest)
      /\ \A x : Has(rest, x) <=> \E m \in U : links[m].fine # 0 /\ links[m].e = x
  BY DEF AreFreed
<1>2. PICK left : left = made \ (ToSet(free) \ ToSet(rest))
  OBVIOUS
<1>3. left \subseteq Node
  BY <1>1, <1>2
<1>4. \A x : Has(rest, x) => x \in left
  <2>1. \A x : Has(rest, x) => x \in made
    BY <1>a, <1>1 DEF EventsOfQueue
  <2> QED
    BY <1>a, <1>2, <2>1, ToSetHas
<1>5. \A x \in left : Has(rest, x)
  <2>1. SUFFICES ASSUME NEW x \in left, ~Has(rest, x) PROVE FALSE
    OBVIOUS
  <2>2. x \in made /\ ~(x \in ToSet(free) /\ x \notin ToSet(rest))
    BY <1>2
  <2>3. x \notin ToSet(rest)
    BY <1>a, <2>1, ToSetHas
  <2>4. ~Has(free, x)
    BY <1>a, <1>1, <2>2, <2>3, ToSetHas
  <2> QED
    BY <1>a, <1>1, <2>1, <2>2, <2>4 DEF EventsOfQueue
<1>6. EventsOfQueue(other, {}, particles, rest, left)
  BY <1>a, <1>4, <1>5 DEF EventsOfQueue
<1>7. Events(class, other, {}, particles, rest, left)
  BY <1>a, <1>3, <1>6 DEF Events
<1> QED
  BY <1>2, <1>7

LEMMA RingIsFreed ==
  ASSUME NEW s, NEW t, Inv(s, t), Initialize
  PROVE  link' \in [Node -> LinkRecord(eventClass)] /\ FreesRing(link, link', freeLinkHead, s)
<1>1. Chain = s /\ s \in Seq(Node) /\ Ring(link, lastNode, s) /\ Distinct(s)
  BY ChainsAre DEF Ring
<1>2. \A x : x \in ToSet(s) <=> Has(s, x)
  BY <1>1, ToSetHas
<1>3. link \in [Node -> LinkRecord(eventClass)] /\ freeLinkHead \in Null
  <2>1. Free(link, freeLinkHead, t)
    BY DEF Inv, Store
  <2>2. 0 \in Null /\ Node \subseteq Null
    BY QueueAssumption DEF Node, Null
  <2> QED
    BY <2>1, <2>2 DEF Free, Inv
<1> DEFINE next(m) == IF m = s[1] THEN freeLinkHead ELSE link[m].before
           new(m) == IF ~Has(s, m) THEN link[m] ELSE Freed(next(m))
<1>4. link' = [m \in Node |-> new(m)]
  BY <1>1, <1>2 DEF Initialize
<1>5. \A q \in Null : Freed(q) \in LinkRecord(eventClass) /\ Freed(q).next = q
  <2>1. SUFFICES ASSUME NEW q \in Null
                 PROVE  Freed(q) \in LinkRecord(eventClass) /\ Freed(q).next = q
    OBVIOUS
  <2>2. Freed(q) = [e |-> 0, level |-> 0, fine |-> 0, next |-> q, before |-> 0]
    BY DEF Freed, Blank
  <2>3. 0 \in Null
    BY QueueAssumption DEF Null
  <2> QED
    BY <2>2, <2>3 DEF LinkRecord
<1>6. \A m \in Node : next(m) \in Null
  <2>1. \A m \in Node : link[m].before \in Null
    BY <1>3 DEF LinkRecord
  <2> QED
    BY <1>3, <2>1
<1>7. \A m \in Node : new(m) \in LinkRecord(eventClass)
  <2> HIDE DEF next
  <2> QED
    BY <1>3, <1>5, <1>6
<1>8. link' \in [Node -> LinkRecord(eventClass)]
  <2> HIDE DEF new
  <2> QED
    BY <1>4, <1>7
<1>9. \A m \in Node : link'[m] = new(m)
  <2> HIDE DEF new
  <2> QED
    BY <1>4
<1>10. \A m \in Node : ~Has(s, m) => link'[m].next = link[m].next
  BY <1>9
<1>11. \A i \in 1..Len(s) : s[i] \in Node /\ Has(s, s[i]) /\ (s[i] = s[1] <=> i = 1)
  <2>1. \A i \in 1..Len(s) : s[i] \in Node /\ Has(s, s[i])
    BY <1>1 DEF Has
  <2>2. \A i \in 1..Len(s) : 1 \in 1..Len(s)
    BY <1>1
  <2> QED
    BY <1>1, <2>1, <2>2 DEF Distinct
<1>12. \A i \in 1..Len(s) : link'[s[i]].next = next(s[i])
  <2>1. \A m \in Node : Has(s, m) => link'[m].next = next(m)
    <3> HIDE DEF next
    <3> QED
      BY <1>5, <1>6, <1>9
  <2> HIDE DEF next, new
  <2> QED
    BY <1>11, <2>1
<1>13. \A i \in 1..Len(s) : link'[s[i]].next = IF i = 1 THEN freeLinkHead ELSE link[s[i]].before
  BY <1>11, <1>12
<1> QED
  BY <1>8, <1>10, <1>13 DEF FreesRing

\* The Events that are freed.
LEMMA FreedAre ==
  ASSUME NEW s, NEW t, Inv(s, t), held = 0, eventClass = TRUE
  PROVE  AreFreed(link, Used(s, 0), EventsOf(s))
<1>1. /\ s \in Seq(Node) /\ Distinct(s) /\ Ring(link, lastNode, s)
      /\ Events(eventClass, link, Used(s, 0), eventParticle, freeEvents, madeEvents)
  BY ChainsAre DEF Inv, Ring
<1>2. EventsOfQueue(link, Used(s, 0), eventParticle, freeEvents, madeEvents) /\ madeEvents \subseteq Node
  BY <1>1 DEF Events
<1>3. \A i \in 1..Len(s) : s[i] \in Used(s, 0) /\ (IsEvent(s[i]) <=> link[s[i]].fine # 0)
  BY UsedLinks DEF IsEvent
<1>4. \A i \in 1..Len(s) : IsEvent(s[i]) => link[s[i]].e \in Node
  BY <1>2, <1>3 DEF EventsOfQueue
<1>5. \A i, j \in 1..Len(s) : IsEvent(s[i]) /\ IsEvent(s[j]) /\ link[s[i]].e = link[s[j]].e => i = j
  <2>1. SUFFICES ASSUME NEW i \in 1..Len(s), NEW j \in 1..Len(s), IsEvent(s[i]), IsEvent(s[j]),
                        link[s[i]].e = link[s[j]].e
                 PROVE  i = j
    OBVIOUS
  <2>2. s[i] = s[j]
    BY <1>2, <1>3, <2>1 DEF EventsOfQueue
  <2> QED
    BY <1>1, <2>2 DEF Distinct
<1>6. /\ EventsOf(s) \in Seq(Node) /\ Distinct(EventsOf(s))
      /\ \A x : Has(EventsOf(s), x) <=> \E i \in 1..Len(s) : IsEvent(s[i]) /\ link[s[i]].e = x
  BY <1>1, <1>4, <1>5, EventsOfIs
<1>7. \A m \in Used(s, 0) : \E i \in 1..Len(s) : m = s[i]
  <2>1. \A m \in Node : m # 0
    BY DEF Node
  <2> QED
    BY <2>1 DEF Used, Has
<1>8. \A x : Has(EventsOf(s), x) <=> \E m \in Used(s, 0) : link[m].fine # 0 /\ link[m].e = x
  BY <1>3, <1>6, <1>7
<1> QED
  BY <1>6, <1>8 DEF AreFreed

LEMMA InitializeStep ==
  ASSUME IInv, Initialize, eventClass' = eventClass
  PROVE  IInv' /\ Abstract!Clear
<1>1. PICK s \in Seq(Node), t \in Seq(Node) : Inv(s, t)
  BY DEF IInv
<1>2. /\ held = 0 /\ toVisit = 0 /\ cursor = 0 /\ held' = 0 /\ toVisit' = 0 /\ cursor' = 0
      /\ freeLinkHead' = (IF lastNode = 0 THEN freeLinkHead ELSE lastNode)
      /\ lastNode' = 0 /\ numberNodes' = 0 /\ lastReference' = lastReference
      /\ allocated' = allocated /\ eventParticle' = eventParticle
  BY DEF Initialize, Quiet, scanVars
<1>3. link' \in [Node -> LinkRecord(eventClass)] /\ FreesRing(link, link', freeLinkHead, s)
  BY <1>1, RingIsFreed
<1>4. PICK u \in Seq(Node) :
         Store(link', lastNode', freeLinkHead', allocated', numberNodes', held', <<>>, u)
  <2>1. Store(link, lastNode, freeLinkHead, allocated, numberNodes, 0, s, t)
    BY <1>1, <1>2 DEF Inv
  <2>2. \E u \in Seq(Node) : Store(link', 0, (IF lastNode = 0 THEN freeLinkHead ELSE lastNode),
                                   allocated, 0, 0, <<>>, u)
    BY <1>3, <2>1, StoreEmpties
  <2> QED
    BY <1>2, <2>2
<1>5. Used(<<>>, 0) = {}
  <2>1. \A m \in Node : m # 0
    BY DEF Node
  <2> QED
    BY <2>1, EmptyHasNothing DEF Used
<1>6. Events(eventClass, link', {}, eventParticle, freeEvents', madeEvents')
  <2>1. /\ Events(eventClass, link, Used(s, 0), eventParticle, freeEvents, madeEvents)
        /\ eventClass \in BOOLEAN
    BY <1>1, <1>2 DEF Inv
  <2>2. CASE eventClass
    <3>1. PICK rest : rest = EventsOf(s) /\ AreFreed(link, Used(s, 0), rest)
      BY <1>1, <1>2, <2>2, FreedAre
    <3>2. Chain = s
      BY <1>1, ChainsAre
    <3>3. /\ freeEvents' = rest
          /\ madeEvents' = madeEvents \ (ToSet(freeEvents) \ ToSet(rest))
      BY <2>2, <3>1, <3>2 DEF Initialize, ClearedEvents
    <3>4. Events(eventClass, link', {}, eventParticle, rest,
                 madeEvents \ (ToSet(freeEvents) \ ToSet(rest)))
      BY <2>1, <2>2, <3>1, EventsEmpty
    <3> QED
      BY <3>3, <3>4
  <2>3. CASE ~eventClass
    <3>1. freeEvents' = freeEvents /\ madeEvents' = madeEvents
      BY <2>3 DEF Initialize
    <3> QED
      BY <2>1, <2>3, <3>1 DEF Events
  <2> QED
    BY <2>1, <2>2, <2>3
<1>7. Inv(<<>>, u)'
  <2>1. /\ eventClass' \in BOOLEAN /\ eventParticle' \in [Node -> Particle \cup {NoParticle}]
        /\ link' \in [Node -> LinkRecord(eventClass')] /\ lastReference' \in Null
    BY <1>1, <1>2, <1>3 DEF Inv
  <2>2. Scan(lastNode', lastReference', toVisit', cursor', held', <<>>)
    BY <1>2, EmptyHasNothing DEF Scan
  <2>3. Events(eventClass', link', Used(<<>>, held'), eventParticle', freeEvents', madeEvents')
    BY <1>2, <1>5, <1>6
  <2> QED
    BY <1>4, <2>1, <2>2, <2>3 DEF Inv
<1>8. IInv' /\ Chain' = <<>>
  BY <1>7, LaterIs
<1>9. Entries(Chain)' = <<>>
  <2>1. DOMAIN <<>> = {}
    OBVIOUS
  <2>2. Entries(Chain)' = [i \in DOMAIN <<>> |-> EntryOf(<<>>[i])']
    BY <1>8 DEF Entries
  <2> QED
    BY <2>1, <2>2
<1>10. /\ Abstract!Quiet
       /\ UNCHANGED <<Optional(held), Unvisited, Optional(cursor)>>
  BY <1>2 DEF Abstract!Quiet, Optional, Unvisited
<1> QED
  BY <1>8, <1>9, <1>10 DEF Abstract!Clear, Unvisited

-----------------------------------------------------------------------------
(* The invariant holds, and every step is one of the sorted queue *)

LEMMA Initially == Init => IInv /\ Abstract!Init
<1>1. SUFFICES ASSUME Init PROVE IInv /\ Abstract!Init
  OBVIOUS
<1>2. /\ eventClass \in BOOLEAN /\ lastNode = 0 /\ lastReference = 0 /\ numberNodes = 0
      /\ freeLinkHead = 0 /\ allocated = 0 /\ freeEvents = <<>> /\ madeEvents = {}
      /\ held = 0 /\ toVisit = 0 /\ cursor = 0
      /\ link = [n \in Node |-> Blank] /\ eventParticle = [n \in Node |-> NoParticle]
  BY <1>1 DEF Init
<1>3. \A m \in Node : m # 0
  BY DEF Node
<1>4. 0 \in Null /\ 0 <= MaxLinks /\ 0 \in 0..MaxLinks
  BY QueueAssumption DEF Null
<1>5. link \in [Node -> LinkRecord(eventClass)]
  <2>1. Blank \in LinkRecord(eventClass)
    BY <1>4 DEF Blank, LinkRecord
  <2> QED
    BY <1>2, <2>1
<1>6. Store(link, lastNode, freeLinkHead, allocated, numberNodes, held, <<>>, <<>>)
  <2>1. 1..0 = {}
    OBVIOUS
  <2>2. Ring(link, 0, <<>>) /\ Free(link, 0, <<>>)
    BY <1>4, <2>1, EmptyHasNothing DEF Ring, Free
  <2>3. \A m \in Node : ~(m <= 0)
    BY DEF Node
  <2> QED
    BY <1>2, <1>3, <1>4, <2>2, <2>3, EmptyHasNothing DEF Store
<1>7. Used(<<>>, held) = {}
  BY <1>2, <1>3, EmptyHasNothing DEF Used
<1>8. Events(eventClass, link, {}, eventParticle, freeEvents, madeEvents)
  BY <1>2, EmptyHasNothing DEF Events, EventsOfQueue
<1>9. Scan(lastNode, lastReference, toVisit, cursor, held, <<>>)
  BY <1>2, EmptyHasNothing DEF Scan
<1>10. eventParticle \in [Node -> Particle \cup {NoParticle}]
  BY <1>2
<1>11. Inv(<<>>, <<>>)
  BY <1>2, <1>4, <1>5, <1>6, <1>7, <1>8, <1>9, <1>10 DEF Inv
<1>12. IInv
  BY <1>11, EmptyHasNothing DEF IInv
<1>13. Entries(Chain) = <<>>
  <2>1. Chain = <<>>
    BY <1>11, ChainsAre
  <2>2. DOMAIN <<>> = {}
    OBVIOUS
  <2> QED
    BY <2>1, <2>2 DEF Entries
<1>14. Abstract!Quiet
  BY <1>2 DEF Abstract!Quiet, Optional
<1> QED
  BY <1>12, <1>13, <1>14 DEF Abstract!Init

LEMMA Stutter ==
  ASSUME IInv, UNCHANGED vars
  PROVE  IInv' /\ UNCHANGED Abstract!vars
<1>1. /\ eventClass' = eventClass /\ link' = link /\ lastNode' = lastNode
      /\ numberNodes' = numberNodes /\ freeLinkHead' = freeLinkHead /\ allocated' = allocated
      /\ lastReference' = lastReference /\ held' = held /\ toVisit' = toVisit
      /\ cursor' = cursor /\ eventParticle' = eventParticle /\ freeEvents' = freeEvents
      /\ madeEvents' = madeEvents
  BY DEF vars, linkVars, eventVars, scanVars
<1>2. PICK s \in Seq(Node), t \in Seq(Node) : Inv(s, t)
  BY DEF IInv
<1>3. UNCHANGED <<linkVars, eventVars, held, eventClass>>
  BY <1>1 DEF linkVars, eventVars
<1>4. lastReference' \in Null /\ Scan(lastNode, lastReference', toVisit', cursor', held, s)
  BY <1>1, <1>2 DEF Inv
<1>5. IInv' /\ Entries(Chain)' = Entries(Chain)
  BY <1>2, <1>3, <1>4, ScanKeeps
<1>6. \A m : EntryOf(m)' = EntryOf(m)
  BY <1>1 DEF EntryOf, Payload, IsEvent
<1>7. UNCHANGED <<Optional(held), Optional(cursor)>>
  BY <1>1, <1>6 DEF Optional
<1>8. Unvisited' = Unvisited
  BY <1>1, <1>6 DEF Unvisited, Entries
<1> QED
  BY <1>5, <1>7, <1>8 DEF Abstract!vars, Unvisited

\* What the entries of the abstract specification are.
LEMMA AddedIs ==
  ASSUME NEW x, Added(x), Abstract!LevelPut(x) \/ Abstract!LevelTup(x) \/ Abstract!Put(x)
  PROVE  Abstract!Next
BY DEF Added, AnEntry, Abstract!Next

LEMMA Step == IInv /\ Next => IInv' /\ Abstract!Next
<1>1. SUFFICES ASSUME IInv, Next PROVE IInv' /\ Abstract!Next
  OBVIOUS
<1>2. eventClass' = eventClass
  BY <1>1 DEF Next
<1>3. ASSUME NEW p \in Use.particle, NEW v \in Level, NEW fv \in Fine, PushTail(p, v, fv)
      PROVE  IInv' /\ Abstract!Next
  BY <1>1, <1>2, <1>3, PushTailStep, AddedIs
<1>4. ASSUME NEW p \in Use.particle, NEW v \in Level, NEW fv \in Fine, PushHead(p, v, fv)
      PROVE  IInv' /\ Abstract!Next
  BY <1>1, <1>2, <1>4, PushHeadStep, AddedIs
<1>5. ASSUME NEW p \in Use.particle, Put(p) PROVE IInv' /\ Abstract!Next
  BY <1>1, <1>2, <1>5, PutStep, AddedIs
<1>6. ASSUME NEW v \in Level, QueueStar(v) PROVE IInv' /\ Abstract!Next
  BY <1>1, <1>2, <1>6, QueueStarStep, AddedIs
<1>7. CASE Get
  BY <1>1, <1>2, <1>7, GetStep DEF Abstract!Next
<1>8. CASE PushBack
  BY <1>1, <1>2, <1>8, PushBackStep DEF Abstract!Next
<1>9. CASE Consume
  BY <1>1, <1>2, <1>9, ConsumeStep DEF Abstract!Next
<1>10. CASE GetLastElem
  BY <1>1, <1>2, <1>10, GetLastElemStep DEF Abstract!Next
<1>11. CASE StartScan
  BY <1>1, <1>2, <1>11, StartScanStep DEF Abstract!Next
<1>12. CASE Visit
  BY <1>1, <1>2, <1>12, VisitStep DEF Abstract!Next
<1>13. CASE Extract
  BY <1>1, <1>2, <1>13, ExtractStep DEF Abstract!Next
<1>14. CASE EndScan
  BY <1>1, <1>2, <1>14, EndScanStep DEF Abstract!Next
<1>15. CASE Initialize
  BY <1>1, <1>2, <1>15, InitializeStep DEF Abstract!Next
<1> QED
  BY <1>1, <1>3, <1>4, <1>5, <1>6, <1>7, <1>8, <1>9, <1>10, <1>11, <1>12, <1>13, <1>14, <1>15
     DEF Next

LEMMA Invariance == Spec => []IInv
<1>1. Init => IInv
  BY Initially
<1>2. IInv /\ [Next]_vars => IInv'
  BY Step, Stutter
<1> QED
  BY <1>1, <1>2, PTL DEF Spec

-----------------------------------------------------------------------------
(* What the runs check *)

LEMMA TypesAre ==
  ASSUME NEW s, NEW t, Inv(s, t)
  PROVE  TypeOK
<1>1. /\ link \in [Node -> LinkRecord(eventClass)] /\ freeEvents \in Seq(Node)
      /\ eventParticle \in [Node -> Particle \cup {NoParticle}] /\ madeEvents \subseteq Node
  BY DEF Inv, Events
<1>2. link \in [Node -> [e : Node \cup {0} \cup Particle \cup {ProcessStar},
                         level : Level \cup {0}, fine : Fine \cup {0, 1},
                         next : 0..MaxLinks, before : 0..MaxLinks]]
  BY <1>1 DEF LinkRecord, Fine, Use, Null
<1>3. /\ s \in Seq(Node) /\ Len(s) \in Nat /\ Len(s) <= MaxLinks
      /\ lastNode = (IF Len(s) = 0 THEN 0 ELSE s[Len(s)])
      /\ t \in Seq(Node) /\ freeLinkHead = (IF Len(t) = 0 THEN 0 ELSE t[1])
      /\ allocated \in 0..MaxLinks /\ held \in Null /\ numberNodes = Len(s)
      /\ lastReference \in Null
  BY DEF Inv, Store, Ring, Free
<1>4. MaxLinks \in Nat /\ 0 \in 0..MaxLinks /\ Node \subseteq 0..MaxLinks
  BY QueueAssumption DEF Node
<1>5. lastNode \in 0..MaxLinks /\ freeLinkHead \in 0..MaxLinks
  <2>1. Len(s) # 0 => s[Len(s)] \in Node
    BY <1>3
  <2>2. Len(t) # 0 => t[1] \in Node
    BY <1>3
  <2> QED
    BY <1>3, <1>4, <2>1, <2>2
<1>6. toVisit \in 0..MaxLinks /\ cursor \in 0..MaxLinks
  <2>1. toVisit \in 0..Len(s) /\ (cursor # 0 => toVisit < Len(s) /\ cursor = s[Len(s) - toVisit])
    BY DEF Inv, Scan
  <2>2. cursor # 0 => cursor \in Node
    <3>1. toVisit < Len(s) => Len(s) - toVisit \in 1..Len(s)
      BY <1>3, <2>1
    <3> QED
      BY <1>3, <2>1, <3>1
  <2>3. toVisit \in 0..MaxLinks
    BY <1>3, <1>4, <2>1
  <2>4. cursor \in 0..MaxLinks
    BY <1>4, <2>2
  <2> QED
    BY <2>3, <2>4
<1>7. /\ {lastNode, lastReference, freeLinkHead, held, cursor} \subseteq 0..MaxLinks
      /\ {allocated, numberNodes, toVisit} \subseteq 0..MaxLinks
  BY <1>3, <1>4, <1>5, <1>6 DEF Null
<1> QED
  BY <1>1, <1>2, <1>7 DEF TypeOK

\* The links in use and the free ones, as one sequence each.
TakenLinks == Chain \o (IF held = 0 THEN <<>> ELSE <<held>>)

LEMMA TakenAre ==
  ASSUME NEW s, NEW t, Inv(s, t)
  PROVE  /\ TakenLinks \in Seq(Node) /\ Distinct(TakenLinks)
         /\ \A m : Has(TakenLinks, m) <=> m \in Used(s, held)
<1>1. Chain = s /\ s \in Seq(Node) /\ Distinct(s) /\ ~Has(s, held) /\ held \in Null
  BY ChainsAre DEF Inv, Store, Ring
<1>2. \A m \in Node : m # 0
  BY DEF Node
<1>3. \A m : Has(s, m) => m \in Node
  BY <1>1 DEF Has
<1>4. CASE held = 0
  <2>1. TakenLinks = s
    BY <1>1, <1>4, Concatenation DEF TakenLinks
  <2> QED
    BY <1>1, <1>2, <1>3, <1>4, <2>1 DEF Used
<1>5. CASE held # 0
  <2>1. held \in Node
    BY <1>1, <1>5, QueueAssumption DEF Null, Node
  <2>2. PICK r \in Seq(Node) : r = <<held>>
    <3>1. PICK m \in Node : m = held
      BY <2>1
    <3>2. <<m>> \in Seq(Node)
      OBVIOUS
    <3> QED
      BY <3>1, <3>2
  <2>3. Distinct(r) /\ \A m : Has(r, m) <=> m = held
    <3>1. Len(r) = 1 /\ r[1] = held /\ \A i : i \in 1..1 <=> i = 1
      BY <2>2
    <3> QED
      BY <3>1 DEF Distinct, Has
  <2>4. TakenLinks = s \o r /\ s \o r \in Seq(Node)
    BY <1>1, <1>5, <2>2 DEF TakenLinks
  <2>5. \A m : Has(TakenLinks, m) <=> Has(s, m) \/ Has(r, m)
    BY <1>1, <2>2, <2>4, HasConcatenated
  <2>6. Distinct(TakenLinks)
    BY <1>1, <2>2, <2>3, <2>4, ConcatenatedIsDistinct
  <2> QED
    BY <1>3, <2>1, <2>3, <2>4, <2>5, <2>6 DEF Used
<1> QED
  BY <1>4, <1>5

LEMMA LinksAreAccounted ==
  ASSUME NEW s, NEW t, Inv(s, t)
  PROVE  IsInjective(TakenLinks \o FreeChain) /\ ToSet(TakenLinks \o FreeChain) = 1..allocated
<1>1. PICK r \in Seq(Node) : /\ r = TakenLinks /\ Distinct(r)
                             /\ \A m : Has(r, m) <=> m \in Used(s, held)
  BY TakenAre
<1>2. /\ FreeChain = t /\ t \in Seq(Node) /\ Distinct(t) /\ ~Has(t, held)
      /\ \A m \in Node : ~(Has(s, m) /\ Has(t, m))
      /\ \A m \in Node : m <= allocated <=> Has(s, m) \/ Has(t, m) \/ m = held
      /\ allocated \in 0..MaxLinks
  BY ChainsAre DEF Inv, Store, Free
<1>3. PICK q \in Seq(Node) : q = r \o t
  BY <1>1, <1>2, Concatenation
<1>4. \A m : ~(Has(r, m) /\ Has(t, m))
  BY <1>1, <1>2 DEF Used
<1>5. Distinct(q)
  BY <1>1, <1>2, <1>3, <1>4, ConcatenatedIsDistinct
<1>6. \A m : Has(q, m) <=> Has(r, m) \/ Has(t, m)
  BY <1>1, <1>2, <1>3, HasConcatenated
<1>7. \A m \in Node : m \in ToSet(q) <=> m <= allocated
  <2>1. \A m \in Node : Has(r, m) <=> Has(s, m) \/ m = held
    BY <1>1 DEF Used
  <2> QED
    BY <1>2, <1>6, <2>1, ToSetHas
<1>8. \A m : m \in ToSet(q) => m \in Node
  <2>1. \A m : Has(q, m) => m \in Node
    BY DEF Has
  <2> QED
    BY <2>1, ToSetHas
<1>9. \A m : m \in 1..allocated <=> m \in Node /\ m <= allocated
  BY <1>2, QueueAssumption DEF Node
<1>10. ToSet(q) = 1..allocated
  BY <1>7, <1>8, <1>9
<1> QED
  BY <1>1, <1>2, <1>3, <1>5, <1>10, DistinctIsInjective

LEMMA EventsAreAccounted ==
  ASSUME NEW s, NEW t, Inv(s, t), NEW U, U = {n \in ToSet(TakenLinks) : IsEvent(n)}
  PROVE  /\ \A m, n \in U : link[m].e = link[n].e => m = n
         /\ IsInjective(freeEvents) /\ \A n \in U : link[n].e \notin ToSet(freeEvents)
         /\ {link[n].e : n \in U} \cup ToSet(freeEvents) = madeEvents
<1>1. /\ Events(eventClass, link, Used(s, held), eventParticle, freeEvents, madeEvents)
      /\ eventClass \in BOOLEAN
  BY DEF Inv
<1>2. freeEvents \in Seq(Node) /\ Distinct(freeEvents) /\ madeEvents \subseteq Node
  BY <1>1 DEF Events
<1>3. \A n : n \in U <=> n \in Used(s, held) /\ IsEvent(n)
  <2>1. TakenLinks \in Seq(Node) /\ \A m : Has(TakenLinks, m) <=> m \in Used(s, held)
    BY TakenAre
  <2>2. \A m : m \in ToSet(TakenLinks) <=> m \in Used(s, held)
    BY <2>1, ToSetHas
  <2> QED
    BY <2>2
<1>4. \A x : x \in ToSet(freeEvents) <=> Has(freeEvents, x)
  BY <1>2, ToSetHas
<1>5. IsInjective(freeEvents)
  BY <1>2, DistinctIsInjective
<1>6. CASE eventClass
  <2>1. EventsOfQueue(link, Used(s, held), eventParticle, freeEvents, madeEvents)
    BY <1>1, <1>6 DEF Events
  <2>2. \A n : n \in U <=> n \in Used(s, held) /\ link[n].fine # 0
    BY <1>3, <1>6 DEF IsEvent
  <2>3. \A m, n \in U : link[m].e = link[n].e => m = n
    BY <2>1, <2>2 DEF EventsOfQueue
  <2>4. \A n \in U : ~Has(freeEvents, link[n].e) /\ link[n].e \in madeEvents
    BY <2>1, <2>2 DEF EventsOfQueue
  <2>5. \A x : Has(freeEvents, x) => x \in madeEvents
    <3>1. \A x : Has(freeEvents, x) => x \in Node
      BY <1>2 DEF Has
    <3> QED
      BY <2>1, <3>1 DEF EventsOfQueue
  <2>6. \A x \in madeEvents : Has(freeEvents, x) \/ \E n \in U : link[n].e = x
    BY <2>1, <2>2 DEF EventsOfQueue
  <2>7. \A x : x \in madeEvents <=> x \in {link[n].e : n \in U} \/ x \in ToSet(freeEvents)
    BY <1>4, <2>4, <2>5, <2>6
  <2>8. {link[n].e : n \in U} \cup ToSet(freeEvents) = madeEvents
    BY <2>7
  <2> QED
    BY <1>4, <1>5, <2>3, <2>4, <2>8
<1>7. CASE ~eventClass
  <2>1. U = {}
    BY <1>3, <1>7 DEF IsEvent
  <2>2. madeEvents = {} /\ freeEvents = <<>>
    BY <1>1, <1>7 DEF Events
  <2>3. \A x : x \notin ToSet(freeEvents)
    BY <1>4, <2>2, EmptyHasNothing
  <2>4. {link[n].e : n \in U} \cup ToSet(freeEvents) = madeEvents
    BY <2>1, <2>2, <2>3
  <2> QED
    BY <1>5, <2>1, <2>4
<1> QED
  BY <1>1, <1>6, <1>7

\* Whatever is done to the queue, in whatever order, no link and no Event record
\* is lost, and none is in two places (getFreeLink, putFreeLink, extract,
\* initialize).
THEOREM EveryLinkIsAccounted == Spec => []StoreIsAccounted
<1>1. ASSUME IInv PROVE StoreIsAccounted
  <2>1. PICK s \in Seq(Node), t \in Seq(Node) : Inv(s, t)
    BY <1>1 DEF IInv
  <2>2. Chain = s /\ Ring(link, lastNode, s) /\ Len(s) = numberNodes
    BY <2>1, ChainsAre DEF Inv, Store
  <2>3. \A i \in DOMAIN s : link[link[s[i]].next].before = s[i]
    <3>1. SUFFICES ASSUME NEW i \in 1..Len(s) PROVE link[link[s[i]].next].before = s[i]
      OBVIOUS
    <3>2. PICK j \in 1..Len(s) : j = Succ(s, i) /\ Pred(s, j) = i
      <4>1. Succ(s, i) \in 1..Len(s) /\ Pred(s, Succ(s, i)) = i
        BY DEF Succ, Pred
      <4> QED
        BY <4>1
    <3>3. link[s[i]].next = s[j] /\ link[s[j]].before = s[i]
      BY <2>2, <3>2 DEF Ring
    <3> QED
      BY <3>3
  <2>4. TypeOK /\ IsInjective(TakenLinks \o FreeChain) /\ ToSet(TakenLinks \o FreeChain) = 1..allocated
    BY <2>1, TypesAre, LinksAreAccounted
  <2>5. PICK U : U = {n \in ToSet(TakenLinks) : IsEvent(n)}
    OBVIOUS
  <2>6. /\ \A m, n \in U : link[m].e = link[n].e => m = n
        /\ IsInjective(freeEvents) /\ \A n \in U : link[n].e \notin ToSet(freeEvents)
        /\ {link[n].e : n \in U} \cup ToSet(freeEvents) = madeEvents
    BY <2>1, <2>5, EventsAreAccounted
  <2> QED
    BY <2>2, <2>3, <2>4, <2>5, <2>6 DEF StoreIsAccounted, TakenLinks
<1> QED
  BY <1>1, Invariance, PTL

\* The pointers implement the sorted queue, and each of the two searches ends
\* where the sorted queue puts the entry, in a queue that put has left without
\* order too.
THEOREM PointersImplementSortedQueue == Spec => ImplementsSortedQueue
<1>1. Init => Abstract!Init
  BY Initially
<1>2. IInv /\ [Next]_vars => [Abstract!Next]_(Abstract!vars)
  BY Step, Stutter
<1> DEFINE Placed == \A p \in Use.particle, v \in Level, fv \in Fine :
                        /\ PushTail(p, v, fv) => Abstract!LevelPut(EntryFor(p, v, fv))
                        /\ PushHead(p, v, fv) => Abstract!LevelTup(EntryFor(p, v, fv))
<1>3. IInv /\ [Next]_vars => [Placed]_vars
  <2>1. ASSUME IInv, Next PROVE Placed
    <3>1. eventClass' = eventClass
      BY <2>1 DEF Next
    <3>2. SUFFICES ASSUME NEW p \in Use.particle, NEW v \in Level, NEW fv \in Fine
                   PROVE  /\ PushTail(p, v, fv) => Abstract!LevelPut(EntryFor(p, v, fv))
                          /\ PushHead(p, v, fv) => Abstract!LevelTup(EntryFor(p, v, fv))
      OBVIOUS
    <3>3. PushTail(p, v, fv) => Abstract!LevelPut(EntryFor(p, v, fv))
      BY <2>1, <3>1, PushTailStep
    <3>4. PushHead(p, v, fv) => Abstract!LevelTup(EntryFor(p, v, fv))
      BY <2>1, <3>1, PushHeadStep
    <3> QED
      BY <3>3, <3>4
  <2> HIDE DEF Placed
  <2> QED
    BY <2>1
<1>4. Spec => [][Placed]_vars
  <2> HIDE DEF Placed
  <2> QED
    BY <1>3, Invariance, PTL DEF Spec
<1>5. Spec => Abstract!Spec
  BY <1>1, <1>2, Invariance, PTL DEF Spec, Abstract!Spec
<1> QED
  BY <1>4, <1>5, PTL DEF ImplementsSortedQueue

LEMMA DyingAre ==
  ASSUME IInv, Initialize, eventClass, NEW dying,
         dying = [i \in DOMAIN freeEvents' |-> eventParticle[freeEvents'[i]]]
  PROVE  IsInjective(dying) /\ ToSet(dying) = Queued \ {ProcessStar}
<1>1. PICK s \in Seq(Node), t \in Seq(Node) : Inv(s, t)
  BY DEF IInv
<1>2. held = 0 /\ eventClass = TRUE
  BY <1>1 DEF Initialize, Quiet, Inv
<1>3. Chain = s
  BY <1>1, ChainsAre
<1>4. AreFreed(link, Used(s, 0), EventsOf(s))
  BY <1>1, <1>2, FreedAre
<1>5. PICK rest \in Seq(Node) :
         /\ freeEvents' = rest /\ Distinct(rest)
         /\ \A x : Has(rest, x) <=> \E m \in Used(s, 0) : link[m].fine # 0 /\ link[m].e = x
  BY <1>3, <1>4 DEF Initialize, ClearedEvents, AreFreed
<1>6. DOMAIN dying = 1..Len(rest) /\ \A i \in 1..Len(rest) : dying[i] = eventParticle[rest[i]]
  BY <1>5
<1>7. EventsOfQueue(link, Used(s, 0), eventParticle, freeEvents, madeEvents)
  BY <1>1, <1>2 DEF Inv, Events
<1>8. \A i \in 1..Len(rest) : \E m \in Used(s, 0) : link[m].fine # 0 /\ link[m].e = rest[i]
  BY <1>5 DEF Has
<1>9. IsInjective(dying)
  <2>1. SUFFICES ASSUME NEW i \in 1..Len(rest), NEW j \in 1..Len(rest), dying[i] = dying[j]
                 PROVE  i = j
    BY <1>6 DEF IsInjective
  <2>2. PICK m \in Used(s, 0) : link[m].fine # 0 /\ link[m].e = rest[i]
    BY <1>8
  <2>3. PICK n \in Used(s, 0) : link[n].fine # 0 /\ link[n].e = rest[j]
    BY <1>8
  <2>4. eventParticle[link[m].e] = eventParticle[link[n].e]
    BY <1>6, <2>1, <2>2, <2>3
  <2>5. m = n
    BY <1>7, <2>2, <2>3, <2>4 DEF EventsOfQueue
  <2> QED
    BY <1>5, <2>2, <2>3, <2>5 DEF Distinct
<1>10. \A x : x \in ToSet(dying) <=> \E i \in 1..Len(rest) : x = eventParticle[rest[i]]
  BY <1>6 DEF ToSet
<1>11. \A x : x \in ToSet(dying)
              <=> \E m \in Used(s, 0) : link[m].fine # 0 /\ x = eventParticle[link[m].e]
  <2>1. ASSUME NEW x, x \in ToSet(dying)
        PROVE  \E m \in Used(s, 0) : link[m].fine # 0 /\ x = eventParticle[link[m].e]
    <3>1. PICK i \in 1..Len(rest) : x = eventParticle[rest[i]]
      BY <1>10, <2>1
    <3> QED
      BY <1>8, <3>1
  <2>2. ASSUME NEW x, NEW m \in Used(s, 0), link[m].fine # 0, x = eventParticle[link[m].e]
        PROVE  x \in ToSet(dying)
    <3>1. PICK i \in 1..Len(rest) : rest[i] = link[m].e
      <4>1. Has(rest, link[m].e)
        BY <1>5, <2>2
      <4> QED
        BY <4>1 DEF Has
    <3> QED
      BY <1>10, <2>2, <3>1
  <2> QED
    BY <2>1, <2>2
<1>12. \A x : x \in Queued <=> \E m \in Used(s, 0) : x = Payload(m)
  <2>1. \A m : m \in ToSet(s) <=> Has(s, m)
    BY ToSetHas
  <2>2. \A m : m \in Used(s, 0) <=> Has(s, m)
    <3>1. \A m \in Node : m # 0
      BY DEF Node
    <3>2. \A m : Has(s, m) => m \in Node
      BY DEF Has
    <3> QED
      BY <3>1, <3>2 DEF Used
  <2>3. Queued = {Payload(n) : n \in ToSet(s) \cup ({0} \ {0})}
    BY <1>2, <1>3 DEF Queued
  <2> QED
    BY <2>1, <2>2, <2>3
<1>13. \A m \in Used(s, 0) : /\ link[m].fine # 0 => /\ Payload(m) = eventParticle[link[m].e]
                                                    /\ Payload(m) # ProcessStar
                             /\ link[m].fine = 0 => Payload(m) = ProcessStar
  <2>1. \A m \in Used(s, 0) : link[m].fine # 0 => eventParticle[link[m].e] # ProcessStar
    BY <1>7, QueueAssumption DEF EventsOfQueue
  <2>2. \A m \in Used(s, 0) : link[m].fine = 0 => link[m].e = ProcessStar
    BY <1>7 DEF EventsOfQueue
  <2> QED
    BY <1>2, <2>1, <2>2 DEF Payload, IsEvent
<1>14. \A x : x \in ToSet(dying) <=> x \in Queued /\ x # ProcessStar
  <2>1. ASSUME NEW x, x \in ToSet(dying) PROVE x \in Queued /\ x # ProcessStar
    <3>1. PICK m \in Used(s, 0) : link[m].fine # 0 /\ x = eventParticle[link[m].e]
      BY <1>11, <2>1
    <3> QED
      BY <1>12, <1>13, <3>1
  <2>2. ASSUME NEW x, x \in Queued, x # ProcessStar PROVE x \in ToSet(dying)
    <3>1. PICK m \in Used(s, 0) : x = Payload(m)
      BY <1>12, <2>2
    <3> QED
      BY <1>11, <1>13, <2>2, <3>1
  <2> QED
    BY <2>1, <2>2
<1>15. ToSet(dying) = Queued \ {ProcessStar}
  BY <1>14
<1> QED
  BY <1>9, <1>15

\* initialize() gives to the plasma the particles that are still queued, each one
\* once, and no other.
THEOREM ClearedParticlesDieOnce == Spec => ParticlesDieOnce
<1> DEFINE dying == [i \in DOMAIN freeEvents' |-> eventParticle[freeEvents'[i]]]
           Good == IsInjective(dying) /\ ToSet(dying) = Queued \ {ProcessStar}
<1>1. IInv /\ Initialize /\ eventClass => Good
  BY DyingAre
<1>2. IInv /\ [Next]_vars => [Initialize /\ eventClass => Good]_vars
  <2> HIDE DEF Good
  <2> QED
    BY <1>1
<1>3. Spec => [][Initialize /\ eventClass => Good]_vars
  <2> HIDE DEF Good
  <2> QED
    BY <1>2, Invariance, PTL DEF Spec
<1> QED
  BY <1>3, PTL DEF ParticlesDieOnce
=============================================================================
