------------------------- MODULE SDFSchedulerProofs -------------------------
(***************************************************************************)
(* Proofs that the repetitions found from port to port balance every arc,  *)
(* that a schedule that computeSchedule accepts makes a whole iteration    *)
(* without taking a particle that is not there, that no iteration of a run *)
(* does, halted and continued or not, and that a deadlock is reported only *)
(* of a galaxy that has no schedule at all: from any firings that leave no *)
(* star to fire, no other order gets further.                              *)
(***************************************************************************)
EXTENDS SDFScheduler, SequenceLemmas, FiniteSetTheorems, TLAPS

-----------------------------------------------------------------------------
(* Arithmetic *)

LEMMA GcdDivides ==
  ASSUME NEW a \in Nat \ {0}, NEW b \in Nat \ {0}
  PROVE  /\ Gcd(a, b) \in 1..a
         /\ a % Gcd(a, b) = 0 /\ b % Gcd(a, b) = 0
         /\ \A e \in (Gcd(a, b) + 1)..a : a % e # 0 \/ b % e # 0
<1> DEFINE D == {d \in 1..a : a % d = 0 /\ b % d = 0}
           T == {x \in Nat : \E d \in D : x = a - d}
<1>1. 1 \in D
  OBVIOUS
<1>2. T # {} /\ T \subseteq Nat
  <2>1. a - 1 \in T
    BY <1>1
  <2> QED
    BY <2>1
<1>3. PICK x \in T : \A y \in T : x <= y
  BY <1>2, SmallestOne
<1>4. PICK d \in D : x = a - d
  OBVIOUS
<1>5. \A e \in D : e <= d
  <2> TAKE e \in D
  <2>1. a - e \in T
    OBVIOUS
  <2> QED
    BY <1>3, <1>4, <2>1
<1>6. \A e \in (d + 1)..a : a % e # 0 \/ b % e # 0
  <2> SUFFICES ASSUME NEW e \in (d + 1)..a, a % e = 0, b % e = 0 PROVE FALSE
    OBVIOUS
  <2>1. d \in 1..a
    BY <1>4
  <2>2. e \in 1..a /\ e > d
    BY <2>1
  <2>3. e \in D
    BY <2>2
  <2> HIDE DEF D, T
  <2> QED
    BY <1>5, <2>1, <2>2, <2>3
<1>7. \E g \in 1..a : /\ a % g = 0 /\ b % g = 0
                      /\ \A e \in (g + 1)..a : a % e # 0 \/ b % e # 0
  BY <1>4, <1>6
<1> QED
  BY <1>7 DEF Gcd

LEMMA Quotient ==
  ASSUME NEW a \in Nat \ {0}, NEW d \in Nat \ {0}, a % d = 0
  PROVE  a \div d \in Nat \ {0} /\ a = d * (a \div d)
<1>1. a = d * (a \div d) + (a % d)
  OBVIOUS
<1>2. a \div d \in Int
  OBVIOUS
<1>3. a \div d # 0
  BY <1>1
<1>4. a \div d >= 0
  OBVIOUS
<1> QED
  BY <1>1, <1>2, <1>3, <1>4

LEMMA SimplifiedIsEqual ==
  ASSUME NEW n \in Nat \ {0}, NEW d \in Nat \ {0}
  PROVE  /\ Simplified(n, d) \in [num : Nat \ {0}, den : Nat \ {0}]
         /\ Simplified(n, d).num * d = Simplified(n, d).den * n
<1> DEFINE g == Gcd(n, d)
           p == n \div g
           q == d \div g
<1>1. g \in Nat \ {0} /\ n % g = 0 /\ d % g = 0
  BY GcdDivides
<1> HIDE DEF g
<1>2. p \in Nat \ {0} /\ n = g * p
  BY <1>1, Quotient
<1>3. q \in Nat \ {0} /\ d = g * q
  BY <1>1, Quotient
<1>4. Simplified(n, d) = [num |-> p, den |-> q]
  BY DEF Simplified, g
<1> HIDE DEF p, q
<1>5. p * d = q * n
  BY <1>1, <1>2, <1>3
<1> QED
  BY <1>2, <1>3, <1>4, <1>5

\* A common divisor that is the denominator makes it one.
LEMMA SimplifiedIsWhole ==
  ASSUME NEW n \in Nat \ {0}, NEW d \in Nat \ {0}, n % d = 0
  PROVE  Simplified(n, d).den = 1
<1> DEFINE g == Gcd(n, d)
<1>1. /\ g \in 1..n /\ n % g = 0 /\ d % g = 0
      /\ \A e \in (g + 1)..n : n % e # 0 \/ d % e # 0
  BY GcdDivides
<1>2. Simplified(n, d).den = d \div g
  BY DEF Simplified
<1> HIDE DEF g
<1>3. d <= n /\ g <= d /\ d % d = 0
  <2>1. n \div d \in Nat \ {0} /\ n = d * (n \div d)
    BY Quotient
  <2>2. d \div g \in Nat \ {0} /\ d = g * (d \div g)
    BY <1>1, Quotient
  <2>3. \A x, y \in Nat \ {0} : x <= x * y
    OBVIOUS
  <2>4. d % d = 0
    OBVIOUS
  <2> QED
    BY <1>1, <2>1, <2>2, <2>3, <2>4
<1>4. g = d
  BY <1>1, <1>3
<1> QED
  BY <1>2, <1>4

LEMMA LcmIsMultiple ==
  ASSUME NEW a \in Nat \ {0}, NEW b \in Nat \ {0}
  PROVE  /\ Lcm(a, b) \in Nat \ {0}
         /\ \E k \in Nat \ {0} : Lcm(a, b) = a * k
         /\ \E k \in Nat \ {0} : Lcm(a, b) = b * k
<1> DEFINE g == Gcd(a, b)
           p == a \div g
           q == b \div g
<1>1. g \in Nat \ {0} /\ a % g = 0 /\ b % g = 0
  BY GcdDivides
<1> HIDE DEF g
<1>2. p \in Nat \ {0} /\ a = g * p
  BY <1>1, Quotient
<1>3. q \in Nat \ {0} /\ b = g * q
  BY <1>1, Quotient
<1>4. Lcm(a, b) = a * q
  BY DEF Lcm, g
<1> HIDE DEF p, q
<1>5. a * q = b * p /\ a * q \in Nat \ {0}
  BY <1>1, <1>2, <1>3
<1> QED
  BY <1>2, <1>3, <1>4, <1>5

\* Two fractions that agree on an arc still do when both are scaled to whole
\* numbers.
LEMMA ScaledAgree ==
  ASSUME NEW n1 \in Nat, NEW d1 \in Nat \ {0}, NEW n2 \in Nat, NEW d2 \in Nat \ {0},
         NEW r1 \in Nat \ {0}, NEW r2 \in Nat \ {0}, NEW q \in Nat \ {0},
         NEW m1 \in Nat, NEW m2 \in Nat,
         n1 * r1 * d2 = n2 * r2 * d1, m1 * d1 = n1 * q, m2 * d2 = n2 * q
  PROVE  m1 * r1 = m2 * r2
<1>1. (m1 * r1) * (d1 * d2) = (n1 * r1 * d2) * q
  <2>1. (m1 * r1) * (d1 * d2) = (m1 * d1) * (r1 * d2)
    OBVIOUS
  <2>2. (n1 * q) * (r1 * d2) = (n1 * r1 * d2) * q
    OBVIOUS
  <2> QED
    BY <2>1, <2>2
<1>2. (m2 * r2) * (d1 * d2) = (n2 * r2 * d1) * q
  <2>1. (m2 * r2) * (d1 * d2) = (m2 * d2) * (r2 * d1)
    OBVIOUS
  <2>2. (n2 * q) * (r2 * d1) = (n2 * r2 * d1) * q
    OBVIOUS
  <2> QED
    BY <2>1, <2>2
<1>3. \A x, y \in Nat, z \in Nat \ {0} : x * z = y * z => x = y
  OBVIOUS
<1>4. m1 * r1 \in Nat /\ m2 * r2 \in Nat /\ d1 * d2 \in Nat \ {0}
  OBVIOUS
<1> QED
  BY <1>1, <1>2, <1>3, <1>4

LEMMA MultipleIsDivisible ==
  ASSUME NEW d \in Nat \ {0}, NEW k \in Nat \ {0}
  PROVE  (d * k) % d = 0
OBVIOUS

-----------------------------------------------------------------------------
(* The inductive invariant of the search *)

RateTypes ==
    /\ graph \in Graphs
    /\ pc \in {"idle", "repetitions", "pass", "passed", "enter", "loop", "once"}
    /\ reps \in [Star -> [num : Nat, den : Nat \ {0}]]
    /\ lcmOfDenoms \in Nat \ {0}
    /\ subgraph \subseteq Star
    /\ stack \in Seq([star : Star, port : Nat \ {0}])
    /\ at \in Nat \ {0}

Seen(s)    == reps[s].num # 0
OnStack(s) == \E i \in 1..Len(stack) : stack[i].star = s
Current(s) == s \in subgraph \/ OnStack(s)

\* The search has been at port k.
Visited(k) ==
    /\ Seen(End(k).near)
    /\ \A i \in 1..Len(stack) : stack[i].star = End(k).near => k < stack[i].port

\* The repetitions at the two ends of an arc move the same number of particles.
Agree(k) ==
    LET e == End(k)
    IN  reps[e.near].num * e.rate * reps[e.far].den = reps[e.far].num * e.there * reps[e.near].den

\* The calls are those of different stars, and no calls are left over.
CallsAreNested ==
    /\ \A i, j \in 1..Len(stack) : stack[i].star = stack[j].star => i = j
    /\ stack # <<>> => subgraph # {}
    /\ pc # "repetitions" => stack = <<>> /\ subgraph = {}

\* Where the search has been, the ends of an arc belong together and agree.
VisitedArcsAgree ==
    \A k \in Port : Visited(k) =>
        /\ Seen(End(k).far)
        /\ Current(End(k).near) <=> Current(End(k).far)
        /\ ~invalid => Agree(k)

\* The common denominator is one; elsewhere the repetitions are whole already.
DenominatorsAreKnown ==
    \A s \in Star :
        /\ Current(s) => Seen(s) /\ \E k \in Nat \ {0} : lcmOfDenoms = reps[s].den * k
        /\ Seen(s) /\ ~Current(s) => reps[s].den = 1

\* The stars before the iterator have been seen, and nothing is wrong yet
\* when the next part is looked for.
StarsAreVisited ==
    /\ \A i \in 1..(at - 1) : i <= Len(graph.stars) => Seen(graph.stars[i])
    /\ subgraph # {} => at <= Len(graph.stars) /\ Seen(graph.stars[at])
    /\ subgraph = {} => ~invalid

SearchIsSound ==
    pc = "repetitions" => VisitedArcsAgree /\ DenominatorsAreKnown /\ StarsAreVisited

\* What the search is for.
RepetitionsBalance ==
    /\ pc \in {"pass", "passed"} => ~invalid
    /\ pc # "repetitions" /\ ~invalid => Balanced(graph, Counts)

RateInv == RateTypes /\ CallsAreNested /\ SearchIsSound /\ RepetitionsBalance

-----------------------------------------------------------------------------
(* The graph and the stack *)

LEMMA GraphType ==
  ASSUME graph \in Graphs
  PROVE  /\ graph.stars \in Seq(Star) /\ NoStar \notin Star
         /\ \A i \in 1..Len(graph.stars) : graph.stars[i] \in Star
         /\ \A s \in Star : \E i \in 1..Len(graph.stars) : graph.stars[i] = s
         /\ Len(graph.arcs) \in Nat /\ Arc = 1..Len(graph.arcs)
         /\ \A a \in Arc : graph.arcs[a] \in [src : Star, dst : Star, prod : Nat \ {0},
                                              cons : Nat \ {0}, delay : Nat]
<1> DEFINE R == [src : Star, dst : Star, prod : Nat \ {0}, cons : Nat \ {0}, delay : Nat]
<1>1. graph.stars \in Seq(Star) /\ NoStar \notin Star /\ graph.arcs \in Seq(R)
  BY GraphsAssumption DEF Star
<1>2. Star = {graph.stars[i] : i \in DOMAIN graph.stars} /\ Arc = DOMAIN graph.arcs
  BY DEF Star, Stars, Arc, Arcs
<1> HIDE DEF R
<1>3. DOMAIN graph.stars = 1..Len(graph.stars)
  BY <1>1
<1>4. Len(graph.arcs) \in Nat /\ Arc = 1..Len(graph.arcs) /\ \A a \in Arc : graph.arcs[a] \in R
  BY <1>1, <1>2
<1> QED
  BY <1>1, <1>2, <1>3, <1>4 DEF R

LEMMA PortsAreNumbers == Port \subseteq Nat \ {0}
  BY DEF Port

\* The top call.
LEMMA TopCall ==
  ASSUME RateTypes, stack # <<>>
  PROVE  /\ stack \in Seq([star : Star, port : Nat \ {0}]) /\ Len(stack) \in Nat \ {0}
         /\ stack[1] \in [star : Star, port : Nat \ {0}]
<1> DEFINE R == [star : Star, port : Nat \ {0}]
<1>1. stack \in Seq(R)
  BY DEF RateTypes
<1> HIDE DEF R
<1>2. Len(stack) \in Nat \ {0} /\ stack[1] \in R
  BY <1>1
<1> QED
  BY <1>1, <1>2 DEF R

LEMMA EndType ==
  ASSUME graph \in Graphs, NEW k \in Port
  PROVE  /\ End(k).near \in Star /\ End(k).far \in Star
         /\ End(k).rate \in Nat \ {0} /\ End(k).there \in Nat \ {0}
<1>1. (k + 1) \div 2 \in Arc
  BY GraphType DEF Port
<1>2. graph.arcs[(k + 1) \div 2] \in [src : Star, dst : Star, prod : Nat \ {0},
                                      cons : Nat \ {0}, delay : Nat]
  BY <1>1, GraphType
<1> QED
  BY <1>2 DEF End

\* The other end of an arc.
LEMMA OtherEnd ==
  ASSUME graph \in Graphs, NEW k \in Port
  PROVE  \E j \in Port : End(j).near = End(k).far /\ End(j).far = End(k).near
<1> DEFINE j == IF k % 2 = 1 THEN k + 1 ELSE k - 1
<1>1. /\ j \in Port /\ (j + 1) \div 2 = (k + 1) \div 2
      /\ j % 2 = 1 <=> k % 2 # 1
  <2> Len(graph.arcs) \in Nat /\ k \in Nat /\ 1 <= k /\ k <= 2 * Len(graph.arcs)
    BY GraphType DEF Port
  <2>1. CASE k % 2 = 1
    BY <2>1 DEF Port
  <2>2. CASE k % 2 # 1
    BY <2>2 DEF Port
  <2> QED
    BY <2>1, <2>2
<1> HIDE DEF j
<1> QED
  BY <1>1 DEF End

LEMMA ArcEnds ==
  ASSUME graph \in Graphs, NEW a \in Arc
  PROVE  /\ 2 * a - 1 \in Port
         /\ End(2 * a - 1).near = graph.arcs[a].src /\ End(2 * a - 1).rate = graph.arcs[a].prod
         /\ End(2 * a - 1).far = graph.arcs[a].dst /\ End(2 * a - 1).there = graph.arcs[a].cons
<1>1. a \in Nat /\ 2 * a - 1 \in Port
  BY GraphType DEF Port
<1>2. ((2 * a - 1) + 1) \div 2 = a /\ (2 * a - 1) % 2 = 1
  BY <1>1
<1> QED
  BY <1>1, <1>2 DEF End

LEMMA StackSet ==
  ASSUME NEW S, NEW q \in Seq(S), q # <<>>, NEW x \in S
  PROVE  LET r == <<x>> \o Tail(q) IN
         /\ r \in Seq(S) /\ Len(r) = Len(q) /\ r[1] = x
         /\ \A i \in 2..Len(q) : r[i] = q[i]
  OBVIOUS

LEMMA StackPush ==
  ASSUME NEW S, NEW q \in Seq(S), NEW x \in S
  PROVE  LET r == <<x>> \o q IN
         /\ r \in Seq(S) /\ Len(r) = Len(q) + 1 /\ r[1] = x
         /\ \A i \in 1..Len(q) : r[i + 1] = q[i]
  OBVIOUS

LEMMA StackPop ==
  ASSUME NEW S, NEW q \in Seq(S), q # <<>>
  PROVE  /\ Tail(q) \in Seq(S) /\ Len(Tail(q)) = Len(q) - 1
         /\ \A i \in 1..Len(Tail(q)) : Tail(q)[i] = q[i + 1]
  OBVIOUS

-----------------------------------------------------------------------------
(* The steps of the search *)

LEMMA GraphStays ==
  ASSUME UNCHANGED graph
  PROVE  Star' = Star /\ Arc' = Arc /\ Port' = Port /\ \A k \in Port : End(k)' = End(k)
  BY DEF Star, Arc, Port, End

LEMMA StartStep == RateInv /\ StartSubgraph => RateInv'
<1> SUFFICES ASSUME RateInv, StartSubgraph PROVE RateInv'
  OBVIOUS
<1> DEFINE s == graph.stars[at]
<1> USE DEF RateInv
<1>1. /\ pc = "repetitions" /\ stack = <<>> /\ subgraph = {} /\ at <= Len(graph.stars)
      /\ UNCHANGED <<graph, pc, invalid>> /\ s \in Star
      /\ RateTypes /\ VisitedArcsAgree /\ DenominatorsAreKnown /\ StarsAreVisited
  <2>1. /\ pc = "repetitions" /\ stack = <<>> /\ subgraph = {} /\ at <= Len(graph.stars)
        /\ UNCHANGED <<graph, pc, invalid>>
    BY DEF StartSubgraph
  <2>2. RateTypes /\ VisitedArcsAgree /\ DenominatorsAreKnown /\ StarsAreVisited
    BY <2>1 DEF SearchIsSound
  <2>3. graph \in Graphs /\ at \in Nat \ {0}
    BY <2>2 DEF RateTypes
  <2>4. Len(graph.stars) \in Nat
    BY <2>3, GraphType
  <2>5. at \in 1..Len(graph.stars)
    BY <2>1, <2>3, <2>4
  <2> QED
    BY <2>1, <2>2, <2>3, <2>5, GraphType
<1>2. Star' = Star /\ Port' = Port /\ \A k \in Port : End(k)' = End(k)
  BY <1>1, GraphStays
<1>3. RepetitionsBalance'
  BY <1>1 DEF RepetitionsBalance
<1>4. CASE reps[s].num = 0
  <2>1. /\ reps' = [reps EXCEPT ![s] = One] /\ lcmOfDenoms' = 1 /\ subgraph' = {s}
        /\ stack' = <<[star |-> s, port |-> 1]>> /\ at' = at
    BY <1>4 DEF StartSubgraph
  <2>2. /\ reps' \in [Star -> [num : Nat, den : Nat \ {0}]] /\ reps'[s] = [num |-> 1, den |-> 1]
        /\ \A u \in Star : u # s => reps'[u] = reps[u]
    BY <1>1, <2>1 DEF RateTypes, One
  <2>3. stack' \in Seq([star : Star, port : Nat \ {0}])
        /\ Len(stack') = 1 /\ stack'[1].star = s /\ stack'[1].port = 1
    BY <1>1, <2>1
  <2>4. RateTypes'
    BY <1>1, <1>2, <2>1, <2>2, <2>3 DEF RateTypes
  <2>5. CallsAreNested'
    BY <1>1, <2>1, <2>3 DEF CallsAreNested
  <2>6. \A u \in Star : ~Current(u) /\ (Current(u)' <=> u = s) /\ (Seen(u)' <=> Seen(u) \/ u = s)
    BY <1>1, <2>1, <2>2, <2>3 DEF Current, OnStack, Seen
  <2>7. VisitedArcsAgree'
    <3> SUFFICES ASSUME NEW k \in Port, Visited(k)'
        PROVE  /\ Seen(End(k).far)'
               /\ Current(End(k).near)' <=> Current(End(k).far)'
               /\ ~invalid' => Agree(k)'
      BY <1>2 DEF VisitedArcsAgree
    <3>1. End(k).near \in Star /\ End(k).far \in Star /\ End(k)' = End(k)
      BY <1>1, <1>2, EndType DEF RateTypes
    <3>2. End(k).near # s
      <4>1. k >= 1
        BY DEF Port
      <4>2. ~(k < stack'[1].port)
        BY <2>3, <4>1 DEF Port
      <4> QED
        BY <2>3, <3>1, <4>2 DEF Visited
    <3>3. Visited(k)
      BY <1>1, <2>2, <3>1, <3>2 DEF Visited, Seen
    <3>4. Seen(End(k).far) /\ End(k).far # s /\ (~invalid => Agree(k))
      BY <1>1, <1>4, <3>3 DEF VisitedArcsAgree, Seen
    <3>5. Agree(k) <=> Agree(k)'
      BY <2>2, <3>1, <3>2, <3>4 DEF Agree
    <3> QED
      BY <1>1, <2>6, <3>1, <3>2, <3>4, <3>5
  <2>8. DenominatorsAreKnown'
    <3> SUFFICES ASSUME NEW u \in Star
        PROVE  /\ Current(u)' => Seen(u)' /\ \E k \in Nat \ {0} : lcmOfDenoms' = reps'[u].den * k
               /\ Seen(u)' /\ ~Current(u)' => reps'[u].den = 1
      BY <1>2 DEF DenominatorsAreKnown
    <3>1. CASE u = s
      BY <2>1, <2>2, <2>6, <3>1
    <3>2. CASE u # s
      BY <1>1, <2>2, <2>6, <3>2 DEF DenominatorsAreKnown
    <3> QED
      BY <3>1, <3>2
  <2>9. StarsAreVisited'
    <3>1. \A i \in 1..Len(graph.stars) : graph.stars[i] \in Star
      BY <1>1, GraphType DEF RateTypes
    <3>2. \A i \in 1..(at - 1) : i <= Len(graph.stars) => Seen(graph.stars[i])'
      BY <1>1, <2>6, <3>1 DEF StarsAreVisited
    <3>3. Seen(s)'
      BY <1>1, <2>1, <2>6 DEF Seen
    <3> QED
      BY <1>1, <2>1, <3>2, <3>3 DEF StarsAreVisited, Seen
  <2> QED
    BY <1>1, <1>3, <2>4, <2>5, <2>7, <2>8, <2>9 DEF SearchIsSound
<1>5. CASE reps[s].num # 0
  <2>1. at' = at + 1 /\ UNCHANGED <<reps, lcmOfDenoms, subgraph, stack>>
    BY <1>5 DEF StartSubgraph, rateVars
  <2>2. RateTypes' /\ CallsAreNested'
    BY <1>1, <1>2, <2>1 DEF RateTypes, CallsAreNested
  <2>3. VisitedArcsAgree'
    BY <1>1, <1>2, <2>1 DEF VisitedArcsAgree, Visited, Seen, Current, OnStack, Agree
  <2>4. DenominatorsAreKnown'
    BY <1>1, <1>2, <2>1 DEF DenominatorsAreKnown, Seen, Current, OnStack
  <2>5. StarsAreVisited'
    <3>1. at \in Nat \ {0}
      BY <1>1 DEF RateTypes
    <3>2. \A i \in 1..at : i <= Len(graph.stars) => Seen(graph.stars[i])
      BY <1>1, <1>5, <3>1 DEF StarsAreVisited, Seen
    <3> QED
      BY <1>1, <2>1, <3>1, <3>2 DEF StarsAreVisited, Seen
  <2> QED
    BY <1>1, <1>3, <2>2, <2>3, <2>4, <2>5 DEF SearchIsSound
<1> QED
  BY <1>4, <1>5

\* The port that the top call visits, and the stack afterwards.
LEMMA NextPort ==
  ASSUME RateTypes, stack # <<>>, ToVisit # {}
  PROVE  /\ Min(ToVisit) \in Port
         /\ End(Min(ToVisit)).near = stack[1].star
         /\ \A k \in Port : End(k).near = stack[1].star /\ k < Min(ToVisit) => k < stack[1].port
<1>1. ToVisit \subseteq Nat
  BY DEF ToVisit, Port
<1>2. \E x \in ToVisit : \A y \in ToVisit : x <= y
  BY <1>1, SmallestOne
<1>3. Min(ToVisit) \in ToVisit /\ \A y \in ToVisit : Min(ToVisit) <= y
  BY <1>2 DEF Min
<1>4. stack[1].port \in Nat
  BY TopCall
<1>5. ASSUME NEW k \in Port, NEW m \in ToVisit, \A y \in ToVisit : m <= y,
             End(k).near = stack[1].star, k < m
      PROVE  k < stack[1].port
  <2>1. k \in Nat /\ m \in Nat
    BY <1>1, PortsAreNumbers
  <2>2. k \notin ToVisit
    BY <1>5, <2>1
  <2> QED
    BY <1>4, <1>5, <2>1, <2>2 DEF ToVisit
<1> QED
  BY <1>3, <1>5 DEF ToVisit

LEMMA ReturnStep == RateInv /\ ReturnSubgraph => RateInv'
<1> SUFFICES ASSUME RateInv, ReturnSubgraph PROVE RateInv'
  OBVIOUS
<1> DEFINE s == stack[1].star
<1> USE DEF RateInv
<1>1. /\ pc = "repetitions" /\ stack # <<>> /\ ToVisit = {}
      /\ UNCHANGED <<graph, pc, reps, lcmOfDenoms, at, invalid>>
      /\ subgraph' = subgraph \cup {stack[1].star} /\ stack' = Tail(stack)
  BY DEF ReturnSubgraph
<1>2. RateTypes /\ CallsAreNested /\ VisitedArcsAgree /\ DenominatorsAreKnown /\ StarsAreVisited
  BY <1>1 DEF SearchIsSound
<1>3. Star' = Star /\ Port' = Port /\ \A k \in Port : End(k)' = End(k)
  BY <1>1, GraphStays
<1>4. /\ stack \in Seq([star : Star, port : Nat \ {0}])
      /\ Len(stack) \in Nat \ {0} /\ s \in Star
      /\ Len(stack') = Len(stack) - 1
      /\ stack' \in Seq([star : Star, port : Nat \ {0}])
      /\ \A i \in 1..Len(stack') : stack'[i] = stack[i + 1]
  <2>1. stack \in Seq([star : Star, port : Nat \ {0}])
    BY <1>2 DEF RateTypes
  <2>2. Len(stack) \in Nat \ {0} /\ s \in Star
    BY <1>1, <1>2, TopCall
  <2> QED
    BY <1>1, <2>1, <2>2, StackPop
<1> HIDE DEF s
<1>5. RateTypes'
  BY <1>1, <1>2, <1>3, <1>4 DEF RateTypes, s
<1>6. CallsAreNested'
  BY <1>1, <1>2, <1>4 DEF CallsAreNested
<1>7. \A u \in Star : (OnStack(u)' => OnStack(u)) /\ (OnStack(u) => OnStack(u)' \/ u = s)
  <2>1. ASSUME NEW u \in Star, OnStack(u)' PROVE OnStack(u)
    <3>1. PICK i \in 1..Len(stack') : stack'[i].star = u
      BY <2>1 DEF OnStack
    <3>2. i + 1 \in 1..Len(stack) /\ stack[i + 1].star = u
      BY <1>4, <3>1
    <3> QED
      BY <3>2 DEF OnStack
  <2>2. ASSUME NEW u \in Star, OnStack(u), u # s PROVE OnStack(u)'
    <3>1. PICK i \in 1..Len(stack) : stack[i].star = u
      BY <2>2 DEF OnStack
    <3>2. i # 1
      BY <2>2, <3>1 DEF s
    <3>3. i - 1 \in 1..Len(stack') /\ stack'[i - 1] = stack[i]
      BY <1>4, <3>1, <3>2
    <3> QED
      BY <3>1, <3>3 DEF OnStack
  <2> QED
    BY <2>1, <2>2
<1>8. OnStack(s)
  BY <1>4 DEF OnStack, s
<1>9. \A u \in Star : (Current(u)' <=> Current(u)) /\ (Seen(u)' <=> Seen(u))
  BY <1>1, <1>7, <1>8 DEF Current, Seen, s
<1>10. \A k \in Port : Visited(k)' => Visited(k)
  <2> SUFFICES ASSUME NEW k \in Port, Visited(k)' PROVE Visited(k)
    OBVIOUS
  <2>1. End(k).near \in Star /\ End(k)' = End(k)
    BY <1>2, <1>3, EndType DEF RateTypes
  <2>2. Seen(End(k).near)
    BY <1>1, <1>9, <2>1 DEF Visited, Seen
  <2>3. ASSUME NEW i \in 1..Len(stack), stack[i].star = End(k).near PROVE k < stack[i].port
    <3>1. CASE i = 1
      <4>1. k \in Nat /\ stack[1].port \in Nat
        BY <1>1, <1>2, PortsAreNumbers, TopCall
      <4> QED
        BY <1>1, <2>3, <3>1, <4>1 DEF ToVisit
    <3>2. CASE i # 1
      <4>1. i - 1 \in 1..Len(stack') /\ stack'[i - 1] = stack[i]
        BY <1>4, <3>2
      <4> QED
        BY <2>1, <2>3, <4>1 DEF Visited
    <3> QED
      BY <3>1, <3>2
  <2> QED
    BY <2>2, <2>3 DEF Visited
<1>11. VisitedArcsAgree'
  <2> SUFFICES ASSUME NEW k \in Port, Visited(k)
      PROVE  /\ Seen(End(k).far)'
             /\ Current(End(k).near)' <=> Current(End(k).far)'
             /\ ~invalid' => Agree(k)'
    BY <1>3, <1>10 DEF VisitedArcsAgree
  <2>1. End(k).near \in Star /\ End(k).far \in Star /\ End(k)' = End(k)
    BY <1>2, <1>3, EndType DEF RateTypes
  <2>2. Agree(k)' <=> Agree(k)
    BY <1>1, <2>1 DEF Agree
  <2> QED
    BY <1>1, <1>2, <1>9, <2>1, <2>2 DEF VisitedArcsAgree
<1>12. DenominatorsAreKnown'
  BY <1>1, <1>2, <1>3, <1>9 DEF DenominatorsAreKnown
<1>13. StarsAreVisited'
  <2>1. subgraph # {}
    BY <1>1, <1>2 DEF CallsAreNested
  <2> QED
    BY <1>1, <1>2, <2>1 DEF StarsAreVisited, Seen
<1>14. RepetitionsBalance'
  BY <1>1 DEF RepetitionsBalance
<1> QED
  BY <1>5, <1>6, <1>11, <1>12, <1>13, <1>14 DEF SearchIsSound

LEMMA ArcStep == RateInv /\ ReptArc => RateInv'
<1> SUFFICES ASSUME RateInv, ReptArc PROVE RateInv'
  OBVIOUS
<1>0. PICK k, s, far, F :
        k = Min(ToVisit) /\ s = stack[1].star /\ far = End(k).far /\ F = FarShouldBe(k)
  OBVIOUS
<1> DEFINE fresh == reps[far].num = 0
           rest == <<[star |-> s, port |-> k + 1]>> \o Tail(stack)
<1> USE DEF RateInv
<1>1. /\ pc = "repetitions" /\ stack # <<>> /\ ToVisit # {}
      /\ UNCHANGED <<graph, pc, at, subgraph>>
      /\ reps' = IF fresh THEN [reps EXCEPT ![far] = F] ELSE reps
      /\ lcmOfDenoms' = IF fresh THEN Lcm(lcmOfDenoms, F.den) ELSE lcmOfDenoms
      /\ stack' = IF fresh THEN <<[star |-> far, port |-> 1]>> \o rest ELSE rest
      /\ invalid' \in {invalid, TRUE}
      /\ ~invalid' => fresh \/ reps[far] = F
  BY <1>0 DEF ReptArc
<1>2. /\ RateTypes /\ CallsAreNested /\ VisitedArcsAgree /\ DenominatorsAreKnown /\ StarsAreVisited
      /\ graph \in Graphs
  BY <1>1 DEF SearchIsSound, RateTypes
<1>3. Star' = Star /\ Port' = Port /\ \A j \in Port : End(j)' = End(j)
  BY <1>1, GraphStays
<1>4. /\ k \in Port /\ End(k).near = s
      /\ \A j \in Port : End(j).near = s /\ j < k => j < stack[1].port
  BY <1>0, <1>1, <1>2, NextPort
<1>5. s \in Star /\ far \in Star /\ End(k).rate \in Nat \ {0} /\ End(k).there \in Nat \ {0}
  BY <1>0, <1>2, <1>4, EndType
<1>6. OnStack(s) /\ Current(s) /\ Seen(s)
  <2>1. OnStack(s)
    BY <1>0, <1>1, <1>2, TopCall DEF OnStack
  <2> QED
    BY <1>2, <1>5, <2>1 DEF Current, DenominatorsAreKnown
<1>7. /\ F \in [num : Nat \ {0}, den : Nat \ {0}]
      /\ F.num * (reps[s].den * End(k).there) = F.den * (reps[s].num * End(k).rate)
  <2> DEFINE n == reps[s].num * End(k).rate
             d == reps[s].den * End(k).there
  <2>1. reps[s].num \in Nat \ {0} /\ reps[s].den \in Nat \ {0}
    BY <1>2, <1>5, <1>6 DEF RateTypes, Seen
  <2>2. n \in Nat \ {0} /\ d \in Nat \ {0}
    <3>1. \A x, y \in Nat \ {0} : x * y \in Nat \ {0}
      OBVIOUS
    <3> QED
      BY <1>5, <2>1, <3>1
  <2>3. F = Simplified(n, d)
    BY <1>0, <1>4 DEF FarShouldBe
  <2> HIDE DEF n, d
  <2>4. F \in [num : Nat \ {0}, den : Nat \ {0}] /\ F.num * d = F.den * n
    BY <2>2, <2>3, SimplifiedIsEqual
  <2> QED
    BY <2>4 DEF n, d
<1>8. /\ rest \in Seq([star : Star, port : Nat \ {0}]) /\ Len(rest) = Len(stack)
      /\ rest[1] = [star |-> s, port |-> k + 1]
      /\ \A i \in 2..Len(stack) : rest[i] = stack[i]
  <2>1. [star |-> s, port |-> k + 1] \in [star : Star, port : Nat \ {0}]
    BY <1>4, <1>5, PortsAreNumbers
  <2>2. stack \in Seq([star : Star, port : Nat \ {0}])
    BY <1>2 DEF RateTypes
  <2> QED
    BY <1>1, <2>1, <2>2, StackSet
<1> HIDE DEF rest
<1>9. Len(stack) \in Nat \ {0} /\ stack[1].star = s
  BY <1>0, <1>1, <1>2, TopCall
<1>10. fresh => far # s /\ ~OnStack(far) /\ ~Seen(far)
  BY <1>2, <1>5, <1>6 DEF Seen, DenominatorsAreKnown, Current
<1>11. fresh => /\ stack' \in Seq([star : Star, port : Nat \ {0}]) /\ Len(stack') = Len(stack) + 1
                /\ stack'[1] = [star |-> far, port |-> 1]
                /\ \A i \in 1..Len(stack) : stack'[i + 1] = rest[i]
  <2> SUFFICES ASSUME fresh
      PROVE  /\ stack' \in Seq([star : Star, port : Nat \ {0}]) /\ Len(stack') = Len(stack) + 1
             /\ stack'[1] = [star |-> far, port |-> 1]
             /\ \A i \in 1..Len(stack) : stack'[i + 1] = rest[i]
    OBVIOUS
  <2>1. [star |-> far, port |-> 1] \in [star : Star, port : Nat \ {0}]
    BY <1>5
  <2>2. stack' = <<[star |-> far, port |-> 1]>> \o rest
    BY <1>1
  <2> QED
    BY <1>8, <2>1, <2>2, StackPush
<1>12. reps' \in [Star -> [num : Nat, den : Nat \ {0}]]
       /\ (fresh => reps'[far] = F)
       /\ \A u \in Star : ~fresh \/ u # far => reps'[u] = reps[u]
  BY <1>1, <1>2, <1>5, <1>7 DEF RateTypes
<1>13. \A u \in Star : Seen(u)' <=> Seen(u) \/ (fresh /\ u = far)
  BY <1>7, <1>12 DEF Seen
<1>14. /\ \A i \in 1..Len(stack') :
            \/ fresh /\ i = 1 /\ stack'[i].star = far /\ stack'[i].port = 1
            \/ \E h \in 1..Len(stack) :
                 /\ stack'[i].star = stack[h].star
                 /\ i = IF fresh THEN h + 1 ELSE h
                 /\ stack'[i].port = IF h = 1 THEN k + 1 ELSE stack[h].port
       /\ \A h \in 1..Len(stack) : \E i \in 1..Len(stack') :
                 /\ stack'[i].star = stack[h].star
                 /\ stack'[i].port = IF h = 1 THEN k + 1 ELSE stack[h].port
  <2>1. \A h \in 1..Len(stack) :
            rest[h].star = stack[h].star /\ rest[h].port = IF h = 1 THEN k + 1 ELSE stack[h].port
    BY <1>8, <1>9
  <2>2. CASE fresh
    <3>1. \A i \in 1..Len(stack') : i # 1 =>
             \E h \in 1..Len(stack) : i = h + 1 /\ stack'[i] = rest[h]
      <4> TAKE i \in 1..Len(stack')
      <4> HAVE i # 1
      <4>1. i - 1 \in 1..Len(stack) /\ i = (i - 1) + 1
        BY <1>9, <1>11, <2>2
      <4>2. stack'[(i - 1) + 1] = rest[i - 1]
        BY <1>11, <2>2, <4>1
      <4> QED
        BY <4>1, <4>2
    <3>2. stack'[1].star = far /\ stack'[1].port = 1
      BY <1>11, <2>2
    <3>3. \A h \in 1..Len(stack) : h + 1 \in 1..Len(stack') /\ stack'[h + 1] = rest[h]
      BY <1>9, <1>11, <2>2
    <3>4. ASSUME NEW i \in 1..Len(stack'), i # 1
          PROVE  \E h \in 1..Len(stack) :
                   /\ stack'[i].star = stack[h].star /\ i = h + 1
                   /\ stack'[i].port = IF h = 1 THEN k + 1 ELSE stack[h].port
      BY <2>1, <3>1, <3>4
    <3>5. ASSUME NEW h \in 1..Len(stack)
          PROVE  \E i \in 1..Len(stack') :
                   /\ stack'[i].star = stack[h].star
                   /\ stack'[i].port = IF h = 1 THEN k + 1 ELSE stack[h].port
      BY <2>1, <3>3
    <3> QED
      BY <2>2, <3>2, <3>4, <3>5
  <2>3. CASE ~fresh
    BY <1>1, <1>8, <2>1, <2>3
  <2> QED
    BY <2>2, <2>3
<1>15. \A u \in Star : OnStack(u)' <=> OnStack(u) \/ (fresh /\ u = far)
  <2>1. ASSUME NEW u \in Star, OnStack(u)' PROVE OnStack(u) \/ (fresh /\ u = far)
    BY <1>14, <2>1 DEF OnStack
  <2>2. ASSUME NEW u \in Star, OnStack(u) PROVE OnStack(u)'
    BY <1>14, <2>2 DEF OnStack
  <2>3. fresh => OnStack(far)'
    BY <1>9, <1>11 DEF OnStack
  <2> QED
    BY <2>1, <2>2, <2>3
<1>16. \A u \in Star : Current(u)' <=> Current(u) \/ (fresh /\ u = far)
  BY <1>1, <1>15 DEF Current
<1>17. RateTypes'
  <2>1. stack' \in Seq([star : Star, port : Nat \ {0}])
    BY <1>1, <1>8, <1>11
  <2>2. lcmOfDenoms' \in Nat \ {0}
    BY <1>1, <1>2, <1>7, LcmIsMultiple DEF RateTypes
  <2> QED
    BY <1>1, <1>2, <1>3, <1>12, <2>1, <2>2 DEF RateTypes
<1>18. CallsAreNested'
  <2>1. subgraph # {}
    BY <1>1, <1>2 DEF CallsAreNested
  <2>2. ASSUME NEW i \in 1..Len(stack'), NEW j \in 1..Len(stack'), stack'[i].star = stack'[j].star
        PROVE  i = j
    <3>1. \A h \in 1..Len(stack) : fresh => stack[h].star # far
      BY <1>10 DEF OnStack
    <3>2. \A g, h \in 1..Len(stack) : stack[g].star = stack[h].star => g = h
      BY <1>2 DEF CallsAreNested
    <3>3. CASE fresh /\ (stack'[i].star = far \/ stack'[j].star = far)
      <4>1. ASSUME NEW m \in 1..Len(stack'), stack'[m].star = far PROVE m = 1
        <5>1. ~ \E h \in 1..Len(stack) : stack'[m].star = stack[h].star
          BY <3>1, <3>3, <4>1
        <5> QED
          BY <1>14, <5>1
      <4> QED
        BY <2>2, <3>3, <4>1
    <3>4. CASE ~(fresh /\ (stack'[i].star = far \/ stack'[j].star = far))
      <4>1. PICK g \in 1..Len(stack) :
               stack'[i].star = stack[g].star /\ i = IF fresh THEN g + 1 ELSE g
        BY <1>14, <3>4
      <4>2. PICK h \in 1..Len(stack) :
               stack'[j].star = stack[h].star /\ j = IF fresh THEN h + 1 ELSE h
        BY <1>14, <3>4
      <4> QED
        BY <2>2, <3>2, <4>1, <4>2
    <3> QED
      BY <3>3, <3>4
  <2> QED
    BY <1>1, <2>1, <2>2 DEF CallsAreNested
<1>19. VisitedArcsAgree'
  <2> SUFFICES ASSUME NEW j \in Port, Visited(j)'
      PROVE  /\ Seen(End(j).far)'
             /\ Current(End(j).near)' <=> Current(End(j).far)'
             /\ ~invalid' => Agree(j)'
    BY <1>3 DEF VisitedArcsAgree
  <2>1. End(j).near \in Star /\ End(j).far \in Star /\ End(j)' = End(j) /\ j \in Nat \ {0}
    BY <1>2, <1>3, EndType, PortsAreNumbers
  <2>2. Visited(j) \/ j = k
    <3> SUFFICES ASSUME j # k PROVE Visited(j)
      OBVIOUS
    <3>1. /\ Seen(End(j).near)'
          /\ \A i \in 1..Len(stack') : stack'[i].star = End(j).near => j < stack'[i].port
      BY <2>1 DEF Visited, Seen
    <3>2. ~(fresh /\ End(j).near = far)
      BY <1>9, <1>11, <2>1, <3>1
    <3>3. Seen(End(j).near)
      BY <1>13, <2>1, <3>1, <3>2
    <3>4. ASSUME NEW h \in 1..Len(stack), stack[h].star = End(j).near PROVE j < stack[h].port
      <4>1. PICK i \in 1..Len(stack') :
               /\ stack'[i].star = stack[h].star
               /\ stack'[i].port = IF h = 1 THEN k + 1 ELSE stack[h].port
        BY <1>14
      <4>2. j < IF h = 1 THEN k + 1 ELSE stack[h].port
        BY <3>1, <3>4, <4>1
      <4>3. CASE h = 1
        <5>1. j < k + 1 /\ k \in Nat
          BY <1>4, <4>2, <4>3, PortsAreNumbers
        <5>2. j < k
          BY <2>1, <5>1
        <5> QED
          BY <1>4, <1>9, <3>4, <4>3, <5>2
      <4>4. CASE h # 1
        BY <4>2, <4>4
      <4> QED
        BY <4>3, <4>4
    <3> QED
      BY <3>3, <3>4 DEF Visited
  <2>3. CASE Visited(j)
    <3>1. /\ Seen(End(j).near) /\ Seen(End(j).far)
          /\ Current(End(j).near) <=> Current(End(j).far)
          /\ ~invalid => Agree(j)
      BY <1>2, <2>3 DEF VisitedArcsAgree, Visited
    <3>2. fresh => End(j).near # far /\ End(j).far # far
      BY <1>10, <3>1
    <3>3. reps'[End(j).near] = reps[End(j).near] /\ reps'[End(j).far] = reps[End(j).far]
      BY <1>12, <2>1, <3>2
    <3>4. Agree(j)' <=> Agree(j)
      BY <2>1, <3>3 DEF Agree
    <3>5. ~invalid' => ~invalid
      BY <1>1
    <3>6. Seen(End(j).far)'
      BY <2>1, <3>1, <3>3 DEF Seen
    <3>7. Current(End(j).near)' <=> Current(End(j).far)'
      <4>1. \A u \in Star : (fresh => u # far) => (Current(u)' <=> Current(u))
        BY <1>16
      <4> QED
        BY <2>1, <3>1, <3>2, <4>1 DEF Current, OnStack
    <3> QED
      BY <3>1, <3>4, <3>5, <3>6, <3>7
  <2>4. CASE j = k
    <3>1. End(j).near = s /\ End(j).far = far
      BY <1>0, <1>4, <2>4
    <3>2. Seen(far)' /\ Current(s)'
      BY <1>5, <1>6, <1>13, <1>16 DEF Seen
    <3>3. Current(far)'
      <4>1. CASE fresh
        BY <1>5, <1>16, <4>1
      <4>2. CASE ~fresh
        <5> SUFFICES ASSUME ~Current(far) PROVE FALSE
          BY <1>5, <1>16
        <5>1. PICK o \in Port : End(o).near = far /\ End(o).far = s
          BY <1>2, <2>4, <3>1, OtherEnd
        <5>2. Seen(far) /\ ~OnStack(far)
          BY <4>2 DEF Seen, Current
        <5>3. Visited(o)
          BY <5>1, <5>2 DEF Visited, OnStack
        <5> QED
          BY <1>2, <1>6, <5>1, <5>3 DEF VisitedArcsAgree
      <4> QED
        BY <4>1, <4>2
    <3>4. ASSUME ~invalid' PROVE Agree(j)'
      <4>1. reps'[s] = reps[s] /\ reps'[far] = F
        BY <1>1, <1>5, <1>10, <1>12, <3>4
      <4>2. /\ reps[s].num \in Nat /\ reps[s].den \in Nat /\ F.num \in Nat /\ F.den \in Nat
            /\ End(k).rate \in Nat /\ End(k).there \in Nat
        BY <1>2, <1>5, <1>7 DEF RateTypes
      <4>3. reps[s].num * End(k).rate * F.den = F.num * End(k).there * reps[s].den
        BY <1>7, <4>2
      <4> QED
        BY <2>1, <2>4, <3>1, <4>1, <4>3 DEF Agree
    <3> QED
      BY <2>1, <3>1, <3>2, <3>3, <3>4 DEF Seen, Current, OnStack
  <2> QED
    BY <2>2, <2>3, <2>4
<1>20. DenominatorsAreKnown'
  <2> SUFFICES ASSUME NEW u \in Star
      PROVE  /\ Current(u)' => Seen(u)' /\ \E m \in Nat \ {0} : lcmOfDenoms' = reps'[u].den * m
             /\ Seen(u)' /\ ~Current(u)' => reps'[u].den = 1
    BY <1>3 DEF DenominatorsAreKnown
  <2>1. CASE fresh
    <3>1. /\ lcmOfDenoms \in Nat \ {0} /\ F.den \in Nat \ {0}
          /\ lcmOfDenoms' = Lcm(lcmOfDenoms, F.den)
      BY <1>1, <1>2, <1>7, <2>1 DEF RateTypes
    <3>2. PICK x \in Nat \ {0} : lcmOfDenoms' = lcmOfDenoms * x
      BY <3>1, LcmIsMultiple
    <3>3. PICK y \in Nat \ {0} : lcmOfDenoms' = F.den * y
      BY <3>1, LcmIsMultiple
    <3>4. CASE u = far
      BY <1>12, <1>13, <1>16, <2>1, <3>3, <3>4
    <3>5. CASE u # far
      <4>1. reps'[u] = reps[u] /\ (Current(u)' <=> Current(u)) /\ (Seen(u)' <=> Seen(u))
        BY <1>12, <1>13, <1>16, <3>5
      <4>2. ASSUME Current(u) PROVE \E m \in Nat \ {0} : lcmOfDenoms' = reps[u].den * m
        <5>1. PICK m \in Nat \ {0} : lcmOfDenoms = reps[u].den * m
          BY <1>2, <4>2 DEF DenominatorsAreKnown
        <5>2. reps[u].den \in Nat
          BY <1>2 DEF RateTypes
        <5>3. m * x \in Nat \ {0} /\ lcmOfDenoms' = reps[u].den * (m * x)
          BY <3>2, <5>1, <5>2
        <5> QED
          BY <5>3
      <4> QED
        BY <1>2, <4>1, <4>2 DEF DenominatorsAreKnown
    <3> QED
      BY <3>4, <3>5
  <2>2. CASE ~fresh
    <3>1. reps'[u] = reps[u] /\ (Current(u)' <=> Current(u)) /\ (Seen(u)' <=> Seen(u))
      BY <1>12, <1>13, <1>16, <2>2
    <3>2. lcmOfDenoms' = lcmOfDenoms
      BY <1>1, <2>2
    <3> QED
      BY <1>2, <3>1, <3>2 DEF DenominatorsAreKnown
  <2> QED
    BY <2>1, <2>2
<1>21. StarsAreVisited'
  <2>1. subgraph # {}
    BY <1>1, <1>2 DEF CallsAreNested
  <2>2. \A i \in 1..Len(graph.stars) : graph.stars[i] \in Star
    BY <1>2, GraphType
  <2>3. \A i \in 1..Len(graph.stars) : Seen(graph.stars[i]) => reps'[graph.stars[i]].num # 0
    BY <1>13, <2>2 DEF Seen
  <2>4. at \in Nat \ {0} /\ Len(graph.stars) \in Nat
    BY <1>2, GraphType DEF RateTypes
  <2> QED
    BY <1>1, <1>2, <2>1, <2>3, <2>4 DEF StarsAreVisited, Seen
<1>22. RepetitionsBalance'
  BY <1>1 DEF RepetitionsBalance
<1> QED
  BY <1>17, <1>18, <1>19, <1>20, <1>21, <1>22 DEF SearchIsSound

LEMMA NormalizeStep == RateInv /\ Normalize => RateInv'
<1> SUFFICES ASSUME RateInv, Normalize PROVE RateInv'
  OBVIOUS
<1> USE DEF RateInv
<1>1. /\ pc = "repetitions" /\ stack = <<>> /\ subgraph # {} /\ subgraph' = {}
      /\ UNCHANGED <<graph, lcmOfDenoms, stack, invalid>>
      /\ RateTypes /\ VisitedArcsAgree /\ DenominatorsAreKnown /\ StarsAreVisited
      /\ graph \in Graphs
  BY DEF Normalize, SearchIsSound, RateTypes
<1>2. Star' = Star /\ Port' = Port /\ \A k \in Port : End(k)' = End(k)
  BY <1>1, GraphStays
<1>3. CASE invalid
  <2>1. pc' = "idle" /\ UNCHANGED <<reps, at>>
    BY <1>3 DEF Normalize
  <2> QED
    BY <1>1, <1>2, <1>3, <2>1
       DEF RateTypes, CallsAreNested, SearchIsSound, RepetitionsBalance
<1>4. CASE ~invalid
  <2>1. /\ reps' = [s \in Star |-> IF s \in subgraph
                                   THEN Simplified(reps[s].num * lcmOfDenoms, reps[s].den)
                                   ELSE reps[s]]
        /\ at' = at + 1 /\ pc' = pc
    BY <1>4 DEF Normalize
  <2>2. \A s \in Star : Current(s) <=> s \in subgraph
    BY <1>1 DEF Current, OnStack
  \* The fraction of a star of the part, times the common denominator, is whole.
  <2>3. ASSUME NEW s \in Star, s \in subgraph
        PROVE  /\ reps'[s] \in [num : Nat \ {0}, den : Nat \ {0}] /\ reps'[s].den = 1
               /\ reps'[s].num * reps[s].den = reps[s].num * lcmOfDenoms
    <3> DEFINE n == reps[s].num * lcmOfDenoms
               d == reps[s].den
    <3>1. Seen(s) /\ \E k \in Nat \ {0} : lcmOfDenoms = d * k
      BY <1>1, <2>2, <2>3 DEF DenominatorsAreKnown
    <3>2. PICK k \in Nat \ {0} : lcmOfDenoms = d * k
      BY <3>1
    <3>3. reps[s].num \in Nat \ {0} /\ d \in Nat \ {0} /\ lcmOfDenoms \in Nat \ {0}
      BY <1>1, <3>1 DEF RateTypes, Seen
    <3>4. \A x, y \in Nat \ {0} : x * y \in Nat \ {0}
      OBVIOUS
    <3>5. n \in Nat \ {0} /\ reps[s].num * k \in Nat \ {0}
      BY <3>3, <3>4
    <3>6. n = d * (reps[s].num * k)
      BY <3>2, <3>3
    <3>7. n % d = 0
      BY <3>3, <3>5, <3>6, MultipleIsDivisible
    <3>8. reps'[s] = Simplified(n, d)
      BY <2>1, <2>3
    <3> HIDE DEF n, d
    <3>9. /\ Simplified(n, d) \in [num : Nat \ {0}, den : Nat \ {0}]
          /\ Simplified(n, d).num * d = Simplified(n, d).den * n
          /\ Simplified(n, d).den = 1
      BY <3>3, <3>5, <3>7, SimplifiedIsEqual, SimplifiedIsWhole
    <3>10. Simplified(n, d).num * d = n
      BY <3>5, <3>9
    <3> QED
      BY <3>8, <3>9, <3>10 DEF n, d
  <2>4. \A s \in Star : s \notin subgraph => reps'[s] = reps[s]
    BY <2>1
  <2>5. reps' \in [Star -> [num : Nat, den : Nat \ {0}]]
    <3>1. \A s \in Star : reps'[s] \in [num : Nat, den : Nat \ {0}]
      BY <1>1, <2>3, <2>4 DEF RateTypes
    <3> QED
      BY <2>1, <3>1
  <2>6. \A s \in Star : Seen(s)' <=> Seen(s)
    <3>1. \A s \in Star : s \in subgraph => Seen(s)
      BY <1>1, <2>2 DEF DenominatorsAreKnown
    <3> QED
      BY <2>3, <2>4, <3>1 DEF Seen
  <2>7. \A s \in Star : ~Current(s)'
    BY <1>1 DEF Current, OnStack
  <2>8. RateTypes' /\ CallsAreNested'
    BY <1>1, <1>2, <2>1, <2>5 DEF RateTypes, CallsAreNested
  <2>9. VisitedArcsAgree'
    <3> SUFFICES ASSUME NEW k \in Port, Visited(k)'
        PROVE  /\ Seen(End(k).far)'
               /\ Current(End(k).near)' <=> Current(End(k).far)'
               /\ ~invalid' => Agree(k)'
      BY <1>2 DEF VisitedArcsAgree
    <3> DEFINE e == End(k)
    <3>1. /\ End(k)' = End(k) /\ e.near \in Star /\ e.far \in Star
          /\ e.rate \in Nat \ {0} /\ e.there \in Nat \ {0}
      BY <1>1, <1>2, EndType
    <3>2. Visited(k)
      BY <1>1, <2>6, <3>1 DEF Visited, Seen
    <3>3. /\ Seen(e.far) /\ Agree(k)
          /\ e.near \in subgraph <=> e.far \in subgraph
      BY <1>1, <1>4, <2>2, <3>1, <3>2 DEF VisitedArcsAgree
    <3>4. reps'[e.near].num * e.rate * reps'[e.far].den = reps'[e.far].num * e.there * reps'[e.near].den
      <4>1. CASE e.near \in subgraph
        <5>1. PICK n1, d1, n2, d2, m1, m2, r1, r2, q :
                 /\ n1 = reps[e.near].num /\ d1 = reps[e.near].den
                 /\ n2 = reps[e.far].num /\ d2 = reps[e.far].den
                 /\ m1 = reps'[e.near].num /\ m2 = reps'[e.far].num
                 /\ r1 = e.rate /\ r2 = e.there /\ q = lcmOfDenoms
          OBVIOUS
        <5>2. /\ n1 \in Nat /\ d1 \in Nat \ {0} /\ n2 \in Nat /\ d2 \in Nat \ {0}
              /\ q \in Nat \ {0} /\ r1 \in Nat \ {0} /\ r2 \in Nat \ {0}
          BY <1>1, <3>1, <5>1 DEF RateTypes
        <5>3. /\ m1 \in Nat /\ m1 * d1 = n1 * q /\ reps'[e.near].den = 1
              /\ m2 \in Nat /\ m2 * d2 = n2 * q /\ reps'[e.far].den = 1
          BY <2>3, <3>1, <3>3, <4>1, <5>1
        <5>4. n1 * r1 * d2 = n2 * r2 * d1
          BY <3>3, <5>1 DEF Agree
        <5>5. m1 * r1 = m2 * r2
          BY <5>2, <5>3, <5>4, ScaledAgree
        <5> QED
          BY <5>1, <5>2, <5>3, <5>5
      <4>2. CASE e.near \notin subgraph
        BY <2>4, <3>1, <3>3, <4>2 DEF Agree
      <4> QED
        BY <4>1, <4>2
    <3> QED
      BY <2>6, <2>7, <3>1, <3>3, <3>4 DEF Agree, Seen, Current, OnStack
  <2>10. DenominatorsAreKnown'
    <3>1. \A s \in Star : Seen(s) => reps'[s].den = 1
      BY <1>1, <2>2, <2>3, <2>4 DEF DenominatorsAreKnown
    <3> QED
      BY <1>2, <2>6, <2>7, <3>1 DEF DenominatorsAreKnown
  <2>11. StarsAreVisited'
    <3>1. \A i \in 1..Len(graph.stars) : graph.stars[i] \in Star
      BY <1>1, GraphType
    <3>2. at \in Nat \ {0} /\ Len(graph.stars) \in Nat
      BY <1>1, GraphType DEF RateTypes
    <3>3. \A i \in 1..at : i <= Len(graph.stars) => Seen(graph.stars[i])
      BY <1>1, <3>2 DEF StarsAreVisited
    <3>4. \A i \in 1..at : i <= Len(graph.stars) => reps'[graph.stars[i]].num # 0
      BY <2>6, <3>1, <3>2, <3>3 DEF Seen
    <3> QED
      BY <1>1, <1>4, <2>1, <3>2, <3>4 DEF StarsAreVisited, Seen
  <2> QED
    BY <1>1, <2>1, <2>8, <2>9, <2>10, <2>11 DEF SearchIsSound, RepetitionsBalance
<1> QED
  BY <1>3, <1>4

\* The schedule is started when every star has been seen, so every arc agrees.
LEMMA ScheduleStep == RateInv /\ StartSchedule => RateInv'
<1> SUFFICES ASSUME RateInv, StartSchedule PROVE RateInv'
  OBVIOUS
<1> USE DEF RateInv
<1>1. /\ pc = "repetitions" /\ stack = <<>> /\ subgraph = {} /\ at > Len(graph.stars)
      /\ pc' = "pass" /\ at' = 1 /\ UNCHANGED <<graph, reps, lcmOfDenoms, subgraph, stack, invalid>>
      /\ RateTypes /\ VisitedArcsAgree /\ DenominatorsAreKnown /\ StarsAreVisited
      /\ graph \in Graphs /\ ~invalid
  BY DEF StartSchedule, NewPass, rateVars, SearchIsSound, RateTypes, StarsAreVisited
<1>2. Star' = Star /\ Arc' = Arc
  BY <1>1, GraphStays
<1>3. \A s \in Star : Seen(s) /\ reps[s].den = 1 /\ reps[s].num \in Nat
  <2> TAKE s \in Star
  <2>1. PICK i \in 1..Len(graph.stars) : graph.stars[i] = s
    BY <1>1, GraphType
  <2>2. Seen(s)
    <3>1. at \in Nat /\ Len(graph.stars) \in Nat
      BY <1>1, GraphType DEF RateTypes
    <3> QED
      BY <1>1, <2>1, <3>1 DEF StarsAreVisited
  <2>3. ~Current(s)
    BY <1>1 DEF Current, OnStack
  <2> QED
    BY <1>1, <2>2, <2>3 DEF DenominatorsAreKnown, RateTypes
<1>4. Balanced(graph, Counts)
  <2> SUFFICES ASSUME NEW a \in Arc PROVE Content(graph, Counts, a) = graph.arcs[a].delay
    BY DEF Balanced, Arc
  <2> DEFINE k == 2 * a - 1
             c == graph.arcs[a]
  <2>1. /\ k \in Port /\ End(k).near = c.src /\ End(k).rate = c.prod
        /\ End(k).far = c.dst /\ End(k).there = c.cons
        /\ c.src \in Star /\ c.dst \in Star
        /\ c.prod \in Nat /\ c.cons \in Nat /\ c.delay \in Nat
    BY <1>1, ArcEnds, GraphType
  <2> HIDE DEF k, c
  <2>2. Visited(k)
    BY <1>1, <1>3, <2>1 DEF Visited
  <2>3. Agree(k)
    BY <1>1, <2>1, <2>2 DEF VisitedArcsAgree
  <2>4. reps[c.src].num * c.prod = reps[c.dst].num * c.cons
    BY <1>3, <2>1, <2>3 DEF Agree
  <2>5. Counts[c.src] = reps[c.src].num /\ Counts[c.dst] = reps[c.dst].num
    BY <2>1 DEF Counts
  <2>6. Content(graph, Counts, a) = c.delay + c.prod * Counts[c.src] - c.cons * Counts[c.dst]
    BY DEF Content, c
  <2>7. /\ c.prod * Counts[c.src] = c.cons * Counts[c.dst]
        /\ c.prod * Counts[c.src] \in Nat /\ c.cons * Counts[c.dst] \in Nat
    BY <1>3, <2>1, <2>4, <2>5
  <2>8. c.delay + c.prod * Counts[c.src] - c.cons * Counts[c.dst] = c.delay
    BY <2>1, <2>7
  <2> QED
    BY <2>6, <2>8 DEF c
<1>5. Counts' = Counts
  BY <1>1, <1>2 DEF Counts
<1>6. RateTypes' /\ CallsAreNested' /\ SearchIsSound'
  BY <1>1, <1>2 DEF RateTypes, CallsAreNested, SearchIsSound
<1>7. RepetitionsBalance'
  BY <1>1, <1>4, <1>5 DEF RepetitionsBalance
<1> QED
  BY <1>6, <1>7

-----------------------------------------------------------------------------
(* The other steps *)

\* Nothing is searched, and a schedule that is invalid is never made valid.
LEMMA LaterStep ==
  ASSUME RateInv, pc # "repetitions", UNCHANGED <<graph, rateVars>>,
         pc' \in {"idle", "pass", "passed", "enter", "loop", "once"},
         at' \in Nat \ {0},
         ~invalid' => ~invalid,
         pc' \in {"pass", "passed"} => ~invalid'
  PROVE  RateInv'
<1>1. UNCHANGED <<graph, reps, lcmOfDenoms, subgraph, stack>>
  BY DEF rateVars
<1>2. Star' = Star
  BY <1>1, GraphStays
<1>3. Counts' = Counts
  BY <1>1, <1>2 DEF Counts
<1> QED
  BY <1>1, <1>2, <1>3
     DEF RateInv, RateTypes, CallsAreNested, SearchIsSound, RepetitionsBalance

LEMMA RunCommand == ASSUME NEW n \in Stops PROVE RateInv /\ Run(n) => RateInv'
<1> SUFFICES ASSUME RateInv, Run(n) PROVE RateInv'
  OBVIOUS
<1> USE DEF RateInv
<1>1. /\ pc = "idle" /\ UNCHANGED <<graph, lcmOfDenoms, subgraph, stack>> /\ at' = 1
      /\ reps' = [s \in Star |-> Unset]
      /\ \/ pc' = "repetitions" /\ invalid' = FALSE
         \/ pc' = "idle" /\ invalid' = TRUE
  BY DEF Run
<1>2. RateTypes /\ stack = <<>> /\ subgraph = {}
  BY <1>1 DEF CallsAreNested
<1>3. Star' = Star
  BY <1>1, GraphStays
<1>4. \A s \in Star : reps'[s] = [num |-> 0, den |-> 1]
  BY <1>1 DEF Unset
<1>5. RateTypes'
  <2>1. reps' \in [Star -> [num : Nat, den : Nat \ {0}]]
    BY <1>1, <1>4
  <2> QED
    BY <1>1, <1>2, <1>3, <2>1 DEF RateTypes
<1>6. CallsAreNested'
  BY <1>1, <1>2 DEF CallsAreNested
<1>7. SearchIsSound'
  <2>1. \A s \in Star : ~Seen(s)' /\ ~Current(s)'
    BY <1>1, <1>2, <1>4 DEF Seen, Current, OnStack
  <2>2. graph \in Graphs
    BY <1>2 DEF RateTypes
  <2>3. VisitedArcsAgree'
    <3>1. Port' = Port /\ \A k \in Port : End(k)' = End(k) /\ End(k).near \in Star
      BY <1>1, <2>2, GraphStays, EndType
    <3>2. \A k \in Port : ~Visited(k)'
      BY <2>1, <3>1 DEF Visited, Seen
    <3> QED
      BY <3>1, <3>2 DEF VisitedArcsAgree
  <2>4. DenominatorsAreKnown'
    BY <1>3, <2>1 DEF DenominatorsAreKnown
  <2>5. pc' = "repetitions" => StarsAreVisited'
    BY <1>1, <1>2 DEF StarsAreVisited
  <2> QED
    BY <2>3, <2>4, <2>5 DEF SearchIsSound
<1>8. RepetitionsBalance'
  BY <1>1 DEF RepetitionsBalance
<1> QED
  BY <1>5, <1>6, <1>7, <1>8

LEMMA PassSteps == RateInv /\ (TryStar \/ TryDeferred \/ EndPass) => RateInv'
<1> SUFFICES ASSUME RateInv, TryStar \/ TryDeferred \/ EndPass PROVE RateInv'
  OBVIOUS
<1>1. at \in Nat \ {0} /\ (pc \in {"pass", "passed"} => ~invalid)
  BY DEF RateInv, RateTypes, RepetitionsBalance
<1>2. CASE TryStar
  <2>1. /\ pc = "pass" /\ pc' = "pass" /\ invalid' = invalid /\ at' \in {at, at + 1}
        /\ UNCHANGED <<graph, rateVars>>
    BY <1>2 DEF TryStar
  <2> QED
    BY <1>1, <2>1, LaterStep
<1>3. CASE TryDeferred
  <2>1. /\ pc = "pass" /\ pc' = "passed" /\ UNCHANGED <<graph, rateVars, invalid, at>>
    BY <1>3 DEF TryDeferred
  <2> QED
    BY <1>1, <2>1, LaterStep
<1>4. CASE EndPass
  <2>1. /\ pc = "passed" /\ UNCHANGED <<graph, rateVars>>
        /\ \/ pc' = "pass" /\ at' = 1 /\ invalid' = invalid
           \/ pc' = "idle" /\ at' = at /\ invalid' = TRUE
           \/ pc' = "enter" /\ at' = at /\ invalid' = invalid
    BY <1>4 DEF EndPass, NewPass, AbortSetup
  <2> QED
    BY <1>1, <2>1, LaterStep
<1> QED
  BY <1>2, <1>3, <1>4

LEMMA RunSteps == RateInv /\ RunStep => RateInv'
<1> SUFFICES ASSUME RateInv, RunStep PROVE RateInv'
  OBVIOUS
<1>1. at \in Nat \ {0}
  BY DEF RateInv, RateTypes
<1>2. CASE Enter
  <2>1. /\ pc = "enter" /\ UNCHANGED <<graph, rateVars, at>>
        /\ \/ pc' = "idle" /\ invalid' = TRUE
           \/ pc' = "loop" /\ invalid' = invalid
    BY <1>2 DEF Enter, AbortSetup
  <2> QED
    BY <1>1, <2>1, LaterStep
<1>3. CASE Loop
  <2>1. /\ pc = "loop" /\ pc' \in {"once", "idle"} /\ at' \in {at, 1}
        /\ UNCHANGED <<graph, rateVars, invalid>>
    BY <1>3 DEF Loop
  <2> QED
    BY <1>1, <2>1, LaterStep
<1>4. CASE FireStar
  <2>1. /\ pc = "once" /\ ~invalid /\ pc' = pc /\ at' = at + 1 /\ invalid' = halt
        /\ UNCHANGED <<graph, rateVars, halt>>
    BY <1>4 DEF FireStar, flagVars
  <2> QED
    BY <1>1, <2>1, LaterStep
<1>5. CASE EndIteration
  <2>1. pc = "once" /\ pc' = "loop" /\ UNCHANGED <<graph, rateVars, at, invalid>>
    BY <1>5 DEF EndIteration
  <2> QED
    BY <1>1, <2>1, LaterStep
<1> QED
  BY <1>2, <1>3, <1>4, <1>5 DEF RunStep

LEMMA InvInit == Init => RateInv
<1> SUFFICES ASSUME Init PROVE RateInv
  OBVIOUS
<1>1. reps \in [Star -> [num : Nat, den : Nat \ {0}]]
  BY DEF Init, Unset
<1> QED
  BY <1>1 DEF Init, RateInv, RateTypes, CallsAreNested, SearchIsSound, RepetitionsBalance

LEMMA InvStep == RateInv /\ [Next]_vars => RateInv'
<1> SUFFICES ASSUME RateInv, [Next]_vars PROVE RateInv'
  OBVIOUS
<1>1. at \in Nat \ {0} /\ RateTypes /\ RepetitionsBalance
  BY DEF RateInv, RateTypes
<1>2. CASE SetupStep
  BY <1>2, StartStep, ArcStep, ReturnStep, NormalizeStep, ScheduleStep, PassSteps DEF SetupStep
<1>3. CASE RunStep
  BY <1>3, RunSteps
<1>4. ASSUME NEW n \in Stops, Run(n) PROVE RateInv'
  BY <1>4, RunCommand
<1>5. ASSUME NEW n \in Stops, Cont(n) PROVE RateInv'
  <2>1. /\ pc = "idle" /\ pc' = "enter" /\ UNCHANGED <<graph, rateVars, at, invalid>>
    BY <1>5 DEF Cont, ContinueRun
  <2> QED
    BY <1>1, <2>1, LaterStep
<1>6. ASSUME NEW e \in BOOLEAN, RequestHalt(e) PROVE RateInv'
  <2>1. /\ pc \in {"enter", "loop", "once"} /\ pc' = pc
        /\ UNCHANGED <<graph, rateVars, at, invalid>>
    BY <1>6 DEF RequestHalt
  <2> QED
    BY <1>1, <2>1, LaterStep
<1>7. CASE UNCHANGED vars
  <2>1. UNCHANGED <<graph, pc, reps, lcmOfDenoms, subgraph, stack, at, invalid>>
    BY <1>7 DEF vars, rateVars
  <2>2. Star' = Star /\ Port' = Port /\ \A k \in Port : End(k)' = End(k)
    BY <2>1, GraphStays
  <2>3. RateTypes' /\ CallsAreNested' /\ RepetitionsBalance'
    <3>1. Counts' = Counts
      BY <2>1, <2>2 DEF Counts
    <3> QED
      BY <2>1, <2>2, <3>1 DEF RateInv, RateTypes, CallsAreNested, RepetitionsBalance
  <2>4. ASSUME pc = "repetitions"
        PROVE  VisitedArcsAgree' /\ DenominatorsAreKnown' /\ StarsAreVisited'
    <3>1. VisitedArcsAgree /\ DenominatorsAreKnown /\ StarsAreVisited /\ graph \in Graphs
      BY <2>4 DEF RateInv, SearchIsSound, RateTypes
    <3>2. \A s : /\ Seen(s)' <=> Seen(s)
                /\ Current(s)' <=> Current(s)
      BY <2>1 DEF Seen, Current, OnStack
    <3>3. \A k \in Port : (Visited(k)' <=> Visited(k)) /\ (Agree(k)' <=> Agree(k))
      BY <2>1, <2>2, <3>2 DEF Visited, Agree, Seen
    <3>4. VisitedArcsAgree'
      BY <2>1, <2>2, <3>1, <3>2, <3>3 DEF VisitedArcsAgree, Seen, Current, OnStack
    <3>5. DenominatorsAreKnown'
      BY <2>1, <2>2, <3>1 DEF DenominatorsAreKnown, Seen, Current, OnStack
    <3>6. StarsAreVisited'
      BY <2>1, <2>2, <3>1 DEF StarsAreVisited, Seen
    <3> QED
      BY <3>4, <3>5, <3>6
  <2> QED
    BY <2>1, <2>3, <2>4 DEF RateInv, SearchIsSound
<1> QED
  BY <1>2, <1>3, <1>4, <1>5, <1>6, <1>7 DEF Next

\* Whatever the galaxy, a schedule that is valid is one for repetitions that
\* balance every arc: an iteration leaves as many particles as it found.
THEOREM SearchBalances == Spec => []RateInv
<1>1. Init => RateInv
  BY InvInit
<1>2. RateInv /\ [Next]_vars => RateInv'
  BY InvStep
<1> QED
  BY <1>1, <1>2, PTL DEF Spec

-----------------------------------------------------------------------------
(* Firings *)

LEMMA SubSeqOfAppend ==
  ASSUME NEW S, NEW q \in Seq(S), NEW x \in S
  PROVE  /\ Append(q, x) \in Seq(S) /\ Len(Append(q, x)) = Len(q) + 1
         /\ \A i \in 1..Len(q) : Append(q, x)[i] = q[i]
         /\ Append(q, x)[Len(q) + 1] = x
         /\ \A i \in 1..(Len(q) + 1) :
                SubSeq(Append(q, x), 1, i - 1) = SubSeq(q, 1, i - 1)
         /\ SubSeq(q, 1, Len(q)) = q
         /\ SubSeq(q, 1, 0) = <<>>
  OBVIOUS

LEMMA SubSeqGrows ==
  ASSUME NEW S, NEW q \in Seq(S), NEW n \in 1..Len(q)
  PROVE  /\ SubSeq(q, 1, n - 1) \in Seq(S) /\ q[n] \in S
         /\ SubSeq(q, 1, n) = Append(SubSeq(q, 1, n - 1), q[n])
  OBVIOUS

LEMMA FiringsType ==
  ASSUME NEW g, NEW S, NEW q \in Seq(S)
  PROVE  Firings(g, q) \in [Stars(g) -> Nat]
<1> SUFFICES ASSUME NEW u \in Stars(g) PROVE Cardinality({i \in DOMAIN q : q[i] = u}) \in Nat
  BY DEF Firings
<1>1. IsFiniteSet(1..Len(q))
  BY FS_Interval
<1>2. {i \in DOMAIN q : q[i] = u} \subseteq 1..Len(q)
  OBVIOUS
<1> QED
  BY <1>1, <1>2, FS_Subset, FS_CardinalityType

LEMMA FiringsOfNone ==
  ASSUME NEW g
  PROVE  Firings(g, <<>>) = [s \in Stars(g) |-> 0]
<1>1. \A s \in Stars(g) : {i \in DOMAIN <<>> : <<>>[i] = s} = {}
  OBVIOUS
<1> QED
  BY <1>1, FS_EmptySet DEF Firings

\* One more firing of a star counts as one.
LEMMA FiringsOfAppend ==
  ASSUME NEW g, NEW q \in Seq(Stars(g)), NEW s \in Stars(g)
  PROVE  Firings(g, Append(q, s)) = [Firings(g, q) EXCEPT ![s] = @ + 1]
<1> DEFINE r == Append(q, s)
           Of(p, u) == {i \in DOMAIN p : p[i] = u}
<1>1. /\ Len(q) \in Nat /\ DOMAIN q = 1..Len(q) /\ DOMAIN r = 1..(Len(q) + 1)
      /\ \A i \in 1..Len(q) : r[i] = q[i]
      /\ r[Len(q) + 1] = s
  OBVIOUS
<1> HIDE DEF r
<1>2. \A u \in Stars(g) : u # s => Of(r, u) = Of(q, u)
  BY <1>1
<1>3. Of(r, s) = Of(q, s) \cup {Len(q) + 1} /\ Len(q) + 1 \notin Of(q, s)
  BY <1>1
<1>4. IsFiniteSet(Of(q, s))
  <2>1. IsFiniteSet(1..Len(q)) /\ Of(q, s) \subseteq 1..Len(q)
    BY <1>1, FS_Interval
  <2> QED
    BY <2>1, FS_Subset
<1>5. Cardinality(Of(r, s)) = Cardinality(Of(q, s)) + 1
  BY <1>3, <1>4, FS_AddElement
<1>6. \A p : Firings(g, p) = [u \in Stars(g) |-> Cardinality(Of(p, u))]
  BY DEF Firings
<1> HIDE DEF Of
<1> QED
  BY <1>2, <1>5, <1>6 DEF r

\* A sequence of firings stays admissible with one of a star that is fireable.
LEMMA AdmissibleAppend ==
  ASSUME NEW g, NEW q \in Seq(Stars(g)), NEW s \in Stars(g),
         Admissible(g, q), Fireable(g, Firings(g, q), s)
  PROVE  Admissible(g, Append(q, s))
<1> DEFINE r == Append(q, s)
<1> SUFFICES ASSUME NEW i \in DOMAIN r PROVE Fireable(g, Firings(g, SubSeq(r, 1, i - 1)), r[i])
  BY DEF Admissible
<1>1. i \in 1..(Len(q) + 1) /\ Len(q) \in Nat /\ DOMAIN q = 1..Len(q)
  BY SubSeqOfAppend
<1>2. SubSeq(r, 1, i - 1) = SubSeq(q, 1, i - 1)
  BY <1>1, SubSeqOfAppend
<1>3. CASE i \in 1..Len(q)
  <2>1. Fireable(g, Firings(g, SubSeq(q, 1, i - 1)), q[i])
    BY <1>1, <1>3 DEF Admissible
  <2>2. r[i] = q[i]
    BY <1>3, SubSeqOfAppend
  <2> QED
    BY <1>2, <2>1, <2>2
<1>4. CASE i = Len(q) + 1
  <2>1. r[i] = s /\ SubSeq(r, 1, i - 1) = q
    BY <1>1, <1>2, <1>4, SubSeqOfAppend
  <2> QED
    BY <2>1
<1> QED
  BY <1>1, <1>3, <1>4

\* What a firing of a star does to the particles on the arcs.
LEMMA ContentMoves ==
  ASSUME graph \in Graphs, NEW n \in [Star -> Nat], NEW s \in Star,
         NEW c \in [Arc -> Int], \A a \in Arc : c[a] = Content(graph, n, a),
         NEW m \in [Star -> Nat],
         \A u \in Star : m[u] = IF u = s THEN n[u] + 1 ELSE n[u],
         NEW a \in Arc
  PROVE  Moved(c, s)[a] = Content(graph, m, a)
<1> DEFINE b == graph.arcs[a]
<1>1. /\ b.src \in Star /\ b.dst \in Star /\ b.prod \in Nat /\ b.cons \in Nat /\ b.delay \in Nat
  BY GraphType
<1>2. Moved(c, s)[a] = c[a] + (IF b.src = s THEN b.prod ELSE 0) - (IF b.dst = s THEN b.cons ELSE 0)
  BY DEF Moved, Feeds, Needs
<1>3. /\ c[a] = b.delay + b.prod * n[b.src] - b.cons * n[b.dst]
      /\ Content(graph, m, a) = b.delay + b.prod * m[b.src] - b.cons * m[b.dst]
  BY DEF Content
<1> HIDE DEF b
<1>4. b.prod * m[b.src] = b.prod * n[b.src] + (IF b.src = s THEN b.prod ELSE 0)
  BY <1>1
<1>5. b.cons * m[b.dst] = b.cons * n[b.dst] + (IF b.dst = s THEN b.cons ELSE 0)
  BY <1>1
<1>6. b.prod * n[b.src] \in Int /\ b.cons * n[b.dst] \in Int
  BY <1>1
<1> QED
  BY <1>1, <1>2, <1>3, <1>4, <1>5, <1>6

LEMMA MovedType ==
  ASSUME graph \in Graphs, NEW s \in Star, NEW c \in [Arc -> Int]
  PROVE  Moved(c, s) \in [Arc -> Int]
<1>1. \A a \in Arc : c[a] \in Int /\ graph.arcs[a].prod \in Nat /\ graph.arcs[a].cons \in Nat
  BY GraphType
<1> QED
  BY <1>1 DEF Moved

-----------------------------------------------------------------------------
(* The inductive invariant of the passes and of the run *)

PassTypes ==
    /\ noTimes \in [Star -> Nat]
    /\ tokens \in [Arc -> Int] /\ data \in [Arc -> Int]
    /\ schedule \in Seq(Star)
    /\ passValue \in 0..2
    /\ deferredStar \in Star \cup {NoStar}
    /\ numAddedThisPass \in Nat

\* The simulation is that of the schedule so far.
ScheduleIsSimulated ==
    /\ \A a \in Arc : tokens[a] = Content(graph, noTimes, a)
    /\ Firings(graph, schedule) = noTimes
    /\ Admissible(graph, schedule)

\* No star is scheduled more often than its repetitions.
NoneTooOften ==
    /\ pc = "repetitions" => \A s \in Star : noTimes[s] = 0
    /\ pc \in {"pass", "passed"} => \A s \in Star : noTimes[s] <= reps[s].num

\* While a pass has added nothing, the star that it has put off is runnable, and
\* when it has put off none and still says that all is done, it is for the stars
\* that it has tried.
PassTellsTheTruth ==
    /\ pc = "pass" /\ passValue # 0 =>
           /\ numAddedThisPass = 0
           /\ deferredStar # NoStar => NotRunnable(deferredStar) = 0
           /\ passValue = 2 /\ deferredStar = NoStar =>
                  \A i \in 1..Len(graph.stars) :
                      i < at => reps[graph.stars[i]].num <= noTimes[graph.stars[i]]
    /\ pc = "passed" /\ passValue = 2 =>
           \A s \in Star : reps[s].num <= noTimes[s]

AllAreScheduled == pc \in {"enter", "loop", "once", "idle"} /\ ~invalid => noTimes = Counts

\* The geodesics have what the part of the schedule that has been run leaves.
RunIsAdmissible ==
    /\ pc = "once" /\ ~invalid =>
           /\ at <= Len(schedule) + 1
           /\ \A a \in Arc :
                  data[a] = Content(graph, Firings(graph, SubSeq(schedule, 1, at - 1)), a)
    /\ pc # "once" /\ ~invalid => data = Delays
    /\ pc \in {"once", "loop"} /\ invalid => halt

PassInv == /\ PassTypes /\ ScheduleIsSimulated /\ NoneTooOften /\ PassTellsTheTruth
           /\ AllAreScheduled /\ RunIsAdmissible

\* The delays are the content before any firing, and after a whole iteration.
LEMMA ContentOfNone ==
  ASSUME graph \in Graphs
  PROVE  /\ Delays \in [Arc -> Int]
         /\ \A a \in Arc : Delays[a] = Content(graph, [s \in Star |-> 0], a)
<1> SUFFICES ASSUME NEW a \in Arc
    PROVE  Delays[a] \in Int /\ Delays[a] = Content(graph, [s \in Star |-> 0], a)
  BY DEF Delays
<1> DEFINE b == graph.arcs[a]
<1>1. b.src \in Star /\ b.dst \in Star /\ b.prod \in Nat /\ b.cons \in Nat /\ b.delay \in Nat
  BY GraphType
<1>2. Content(graph, [s \in Star |-> 0], a) = b.delay + b.prod * 0 - b.cons * 0
  BY <1>1 DEF Content
<1>3. Delays[a] = b.delay
  BY DEF Delays
<1> HIDE DEF b
<1> QED
  BY <1>1, <1>2, <1>3

LEMMA PassInvInit == Init => PassInv
<1> SUFFICES ASSUME Init PROVE PassInv
  OBVIOUS
<1>1. /\ graph \in Graphs /\ pc = "idle" /\ invalid = TRUE
      /\ noTimes = [s \in Star |-> 0] /\ tokens = Delays /\ data = Delays /\ schedule = <<>>
      /\ passValue = 2 /\ deferredStar = NoStar /\ numAddedThisPass = 0
  BY DEF Init
<1>2. PassTypes
  BY <1>1, ContentOfNone DEF PassTypes
<1>3. ScheduleIsSimulated
  <2>1. Firings(graph, schedule) = noTimes
    BY <1>1, FiringsOfNone DEF Star
  <2>2. Admissible(graph, schedule)
    BY <1>1 DEF Admissible
  <2> QED
    BY <1>1, <2>1, <2>2, ContentOfNone DEF ScheduleIsSimulated
<1> QED
  BY <1>1, <1>2, <1>3
     DEF PassInv, NoneTooOften, PassTellsTheTruth, AllAreScheduled, RunIsAdmissible

-----------------------------------------------------------------------------
(* The passes *)

LEMMA SameGraph ==
  ASSUME UNCHANGED graph
  PROVE  Star' = Star /\ Arc' = Arc /\ Delays' = Delays
  BY DEF Star, Arc, Delays

\* A firing that is simulated.
LEMMA AddStep ==
  ASSUME RateInv, PassInv, UNCHANGED <<graph, reps>>, NEW s \in Star,
         pc = "pass", NotRunnable(s) = 0, Add(s)
  PROVE  /\ noTimes' \in [Star -> Nat] /\ tokens' \in [Arc -> Int] /\ schedule' \in Seq(Star)
         /\ passValue' = 0
         /\ ScheduleIsSimulated'
         /\ \A u \in Star : noTimes'[u] <= reps[u].num
<1>1. /\ graph \in Graphs /\ reps \in [Star -> [num : Nat, den : Nat \ {0}]]
      /\ noTimes \in [Star -> Nat] /\ tokens \in [Arc -> Int] /\ schedule \in Seq(Star)
  BY DEF RateInv, RateTypes, PassInv, PassTypes
<1>2. /\ tokens' = Moved(tokens, s) /\ noTimes' = [noTimes EXCEPT ![s] = @ + 1]
      /\ schedule' = Append(schedule, s) /\ passValue' = 0
  BY DEF Add
<1>3. Star' = Star /\ Arc' = Arc
  BY SameGraph
<1>4. /\ \A a \in Arc : tokens[a] = Content(graph, noTimes, a)
      /\ Firings(graph, schedule) = noTimes
      /\ Admissible(graph, schedule)
  BY DEF PassInv, ScheduleIsSimulated
<1>5. noTimes[s] < reps[s].num /\ \A a \in Needs(s) : tokens[a] >= graph.arcs[a].cons
  <2>1. /\ ~(reps[s].num <= noTimes[s])
        /\ ~ \E a \in Needs(s) : tokens[a] < graph.arcs[a].cons
    BY DEF NotRunnable
  <2>2. \A a \in Needs(s) : a \in Arc /\ graph.arcs[a].cons \in Nat /\ tokens[a] \in Int
    BY <1>1, GraphType DEF Needs
  <2>3. reps[s].num \in Nat /\ noTimes[s] \in Nat
    BY <1>1
  <2> QED
    BY <2>1, <2>2, <2>3
<1>6. tokens' \in [Arc -> Int] /\ \A a \in Arc : tokens'[a] = Content(graph, noTimes', a)
  <2>1. /\ graph \in Graphs /\ noTimes \in [Star -> Nat] /\ tokens \in [Arc -> Int]
        /\ \A a \in Arc : tokens[a] = Content(graph, noTimes, a)
    BY <1>1, <1>4
  <2>2. /\ noTimes' \in [Star -> Nat]
        /\ \A u \in Star : noTimes'[u] = IF u = s THEN noTimes[u] + 1 ELSE noTimes[u]
    BY <1>1, <1>2
  <2>3. \A a \in Arc : Moved(tokens, s)[a] = Content(graph, noTimes', a)
    BY <2>1, <2>2, ContentMoves
  <2>4. Moved(tokens, s) \in [Arc -> Int]
    BY <2>1, MovedType
  <2> QED
    BY <1>2, <2>3, <2>4
<1>7. schedule' \in Seq(Star) /\ Firings(graph, schedule') = noTimes'
  <2>1. Firings(graph, Append(schedule, s)) = [Firings(graph, schedule) EXCEPT ![s] = @ + 1]
    BY <1>1, FiringsOfAppend DEF Star
  <2> QED
    BY <1>1, <1>2, <1>4, <2>1
<1>8. Admissible(graph, schedule')
  <2>1. Fireable(graph, Firings(graph, schedule), s)
    BY <1>4, <1>5 DEF Fireable, Needs, Arc
  <2> QED
    BY <1>1, <1>2, <1>4, <2>1, AdmissibleAppend DEF Star
<1>9. /\ noTimes' \in [Star -> Nat]
      /\ \A u \in Star : noTimes'[u] = IF u = s THEN noTimes[u] + 1 ELSE noTimes[u]
  BY <1>1, <1>2
<1>10. \A u \in Star : noTimes'[u] <= reps[u].num
  <2>1. \A u \in Star : noTimes[u] <= reps[u].num
    BY DEF PassInv, NoneTooOften
  <2>2. \A u \in Star : noTimes[u] \in Nat /\ reps[u].num \in Nat
    BY <1>1
  <2> QED
    BY <1>5, <1>9, <2>1, <2>2
<1> QED
  BY <1>2, <1>3, <1>6, <1>7, <1>8, <1>9, <1>10 DEF ScheduleIsSimulated

LEMMA TryStarStep == RateInv /\ PassInv /\ TryStar => PassInv'
<1> SUFFICES ASSUME RateInv, PassInv, TryStar PROVE PassInv'
  OBVIOUS
<1>1. PICK s, st : s = graph.stars[at] /\ st = Status(s, TRUE)
  OBVIOUS
<1>2. /\ pc = "pass" /\ pc' = "pass" /\ at <= Len(graph.stars)
      /\ UNCHANGED <<graph, reps, invalid, data, numIters, numItersSoFar, halt>>
      /\ graph \in Graphs /\ at \in Nat \ {0} /\ ~invalid
      /\ reps \in [Star -> [num : Nat, den : Nat \ {0}]]
  BY DEF TryStar, rateVars, runVars, flagVars, RateInv, RateTypes, RepetitionsBalance
<1>3. s \in Star /\ s # NoStar
  <2>1. /\ graph.stars \in Seq(Star) /\ NoStar \notin Star
        /\ \A i \in 1..Len(graph.stars) : graph.stars[i] \in Star
    BY <1>2, GraphType
  <2>2. at \in 1..Len(graph.stars)
    BY <1>2, <2>1
  <2> QED
    BY <1>1, <2>1, <2>2
<1>4. Star' = Star /\ Arc' = Arc /\ Delays' = Delays
  BY <1>2, SameGraph
<1>5. /\ PassTypes /\ ScheduleIsSimulated /\ data = Delays
      /\ \A u \in Star : noTimes[u] <= reps[u].num
  BY <1>2 DEF PassInv, NoneTooOften, RunIsAdmissible
<1>6. AllAreScheduled' /\ RunIsAdmissible'
  BY <1>2, <1>4, <1>5 DEF AllAreScheduled, RunIsAdmissible
<1>7. CASE st = 0
  <2>1. /\ Add(s) /\ numAddedThisPass' = numAddedThisPass + 1 /\ UNCHANGED <<at, deferredStar>>
    BY <1>1, <1>7 DEF TryStar
  <2>2. NotRunnable(s) = 0
    BY <1>1, <1>7 DEF Status
  <2>3. /\ noTimes' \in [Star -> Nat] /\ tokens' \in [Arc -> Int] /\ schedule' \in Seq(Star)
        /\ passValue' = 0 /\ ScheduleIsSimulated'
        /\ \A u \in Star : noTimes'[u] <= reps[u].num
    BY <1>2, <1>3, <2>1, <2>2, AddStep
  <2>4. PassTypes'
    BY <1>2, <1>4, <1>5, <2>1, <2>3 DEF PassTypes
  <2>5. NoneTooOften' /\ PassTellsTheTruth'
    BY <1>2, <1>4, <2>3 DEF NoneTooOften, PassTellsTheTruth
  <2> QED
    BY <1>6, <2>3, <2>4, <2>5 DEF PassInv
<1>8. CASE st # 0
  <2>1. /\ deferredStar' = IF st = 3 /\ deferredStar = NoStar THEN s ELSE deferredStar
        /\ passValue' = IF st = 1 /\ passValue # 0 /\ deferredStar = NoStar
                        THEN 1 ELSE passValue
        /\ at' = at + 1
        /\ UNCHANGED <<tokens, noTimes, schedule, numAddedThisPass>>
    BY <1>1, <1>8 DEF TryStar
  <2>2. /\ st \in {1, 2, 3}
        /\ st = 3 => NotRunnable(s) = 0
        /\ st = 2 => reps[s].num <= noTimes[s]
    BY <1>1, <1>8 DEF Status, NotRunnable
  <2>3. PassTypes'
    BY <1>2, <1>3, <1>4, <1>5, <2>1 DEF PassTypes
  <2>4. ScheduleIsSimulated'
    BY <1>2, <1>4, <1>5, <2>1 DEF ScheduleIsSimulated
  <2>5. NoneTooOften'
    BY <1>2, <1>4, <1>5, <2>1 DEF NoneTooOften
  <2>6. \A u : NotRunnable(u)' = NotRunnable(u)
    BY <1>2, <1>4, <2>1 DEF NotRunnable, Needs
  <2>7. PassTellsTheTruth'
    <3> SUFFICES ASSUME passValue' # 0
        PROVE  /\ numAddedThisPass' = 0
               /\ deferredStar' # NoStar => NotRunnable(deferredStar') = 0
               /\ passValue' = 2 /\ deferredStar' = NoStar =>
                      \A i \in 1..Len(graph.stars) :
                          i < at' => reps[graph.stars[i]].num <= noTimes[graph.stars[i]]
      BY <1>2, <2>1, <2>6 DEF PassTellsTheTruth, NotRunnable, Needs, Arc
    <3>1. passValue # 0
      BY <2>1
    <3>2. /\ numAddedThisPass = 0
          /\ deferredStar # NoStar => NotRunnable(deferredStar) = 0
          /\ passValue = 2 /\ deferredStar = NoStar =>
                 \A i \in 1..Len(graph.stars) :
                     i < at => reps[graph.stars[i]].num <= noTimes[graph.stars[i]]
      BY <1>2, <3>1 DEF PassInv, PassTellsTheTruth
    <3>3. ASSUME passValue' = 2, deferredStar' = NoStar,
                 NEW i \in 1..Len(graph.stars), i < at'
          PROVE  reps[graph.stars[i]].num <= noTimes[graph.stars[i]]
      <4>1. deferredStar = NoStar /\ st = 2 /\ passValue = 2
        BY <1>3, <2>1, <2>2, <3>1, <3>3
      <4>2. i < at \/ i = at
        BY <1>2, <2>1, <3>3
      <4> QED
        BY <1>1, <2>2, <3>2, <4>1, <4>2
    <3> QED
      BY <2>1, <2>2, <3>2, <3>3
  <2> QED
    BY <1>6, <2>3, <2>4, <2>5, <2>7 DEF PassInv
<1> QED
  BY <1>7, <1>8

LEMMA TryDeferredStep == RateInv /\ PassInv /\ TryDeferred => PassInv'
<1> SUFFICES ASSUME RateInv, PassInv, TryDeferred PROVE PassInv'
  OBVIOUS
<1>1. /\ pc = "pass" /\ pc' = "passed" /\ at > Len(graph.stars)
      /\ UNCHANGED <<graph, reps, at, deferredStar, numAddedThisPass, invalid, data, halt>>
      /\ graph \in Graphs /\ at \in Nat \ {0} /\ ~invalid
      /\ reps \in [Star -> [num : Nat, den : Nat \ {0}]]
  BY DEF TryDeferred, rateVars, runVars, flagVars, RateInv, RateTypes, RepetitionsBalance
<1>2. Star' = Star /\ Arc' = Arc /\ Delays' = Delays
  BY <1>1, SameGraph
<1>3. /\ PassTypes /\ ScheduleIsSimulated /\ data = Delays /\ PassTellsTheTruth
      /\ \A u \in Star : noTimes[u] <= reps[u].num
  BY <1>1 DEF PassInv, NoneTooOften, RunIsAdmissible
<1>4. AllAreScheduled' /\ RunIsAdmissible'
  BY <1>1, <1>2, <1>3 DEF AllAreScheduled, RunIsAdmissible
<1>5. CASE deferredStar # NoStar /\ Status(deferredStar, DeferAgain) = 0
  <2>1. Add(deferredStar) /\ deferredStar \in Star
    BY <1>3, <1>5 DEF TryDeferred, PassTypes
  <2>2. NotRunnable(deferredStar) = 0
    BY <1>5 DEF Status
  <2>3. /\ noTimes' \in [Star -> Nat] /\ tokens' \in [Arc -> Int] /\ schedule' \in Seq(Star)
        /\ passValue' = 0 /\ ScheduleIsSimulated'
        /\ \A u \in Star : noTimes'[u] <= reps[u].num
    BY <1>1, <2>1, <2>2, AddStep
  <2>4. PassTypes'
    BY <1>1, <1>2, <1>3, <2>3 DEF PassTypes
  <2>5. NoneTooOften' /\ PassTellsTheTruth'
    BY <1>1, <1>2, <2>3 DEF NoneTooOften, PassTellsTheTruth
  <2> QED
    BY <1>4, <2>3, <2>4, <2>5 DEF PassInv
<1>6. CASE ~(deferredStar # NoStar /\ Status(deferredStar, DeferAgain) = 0)
  <2>1. UNCHANGED <<tokens, noTimes, schedule, passValue>>
    BY <1>6 DEF TryDeferred
  <2>2. passValue # 0 => deferredStar = NoStar
    <3> SUFFICES ASSUME passValue # 0, deferredStar # NoStar PROVE FALSE
      OBVIOUS
    <3>1. numAddedThisPass = 0 /\ NotRunnable(deferredStar) = 0
      BY <1>1, <1>3 DEF PassTellsTheTruth
    <3>2. Status(deferredStar, DeferAgain) = 0
      BY <3>1 DEF Status, DeferAgain
    <3> QED
      BY <1>6, <3>2
  <2>3. passValue = 2 => \A s \in Star : reps[s].num <= noTimes[s]
    <3> SUFFICES ASSUME passValue = 2, NEW s \in Star PROVE reps[s].num <= noTimes[s]
      OBVIOUS
    <3>1. PICK i \in 1..Len(graph.stars) : graph.stars[i] = s
      BY <1>1, GraphType
    <3>2. i < at
      BY <1>1, <3>1, GraphType
    <3> QED
      BY <1>1, <1>3, <2>2, <3>1, <3>2 DEF PassTellsTheTruth
  <2>4. PassTypes' /\ ScheduleIsSimulated'
    BY <1>1, <1>2, <1>3, <2>1 DEF PassTypes, ScheduleIsSimulated
  <2>5. NoneTooOften' /\ PassTellsTheTruth'
    BY <1>1, <1>2, <1>3, <2>1, <2>3 DEF NoneTooOften, PassTellsTheTruth
  <2> QED
    BY <1>4, <2>4, <2>5 DEF PassInv
<1> QED
  BY <1>5, <1>6

LEMMA SameSchedule ==
  ASSUME ScheduleIsSimulated, UNCHANGED <<graph, noTimes, tokens, schedule>>
  PROVE  ScheduleIsSimulated'
<1>1. Arc' = Arc
  BY SameGraph
<1> QED
  BY <1>1 DEF ScheduleIsSimulated

LEMMA EndPassStep == RateInv /\ PassInv /\ EndPass => PassInv'
<1> SUFFICES ASSUME RateInv, PassInv, EndPass PROVE PassInv'
  OBVIOUS
<1>1. /\ pc = "passed" /\ ~invalid
      /\ UNCHANGED <<graph, reps, noTimes, tokens, schedule, data>>
      /\ graph \in Graphs /\ reps \in [Star -> [num : Nat, den : Nat \ {0}]]
      /\ PassTypes /\ ScheduleIsSimulated /\ data = Delays
      /\ \A u \in Star : noTimes[u] <= reps[u].num
  BY DEF EndPass, rateVars, runVars, RateInv, RateTypes, RepetitionsBalance,
         PassInv, NoneTooOften, RunIsAdmissible
<1>2. Star' = Star /\ Arc' = Arc /\ Delays' = Delays
  BY <1>1, SameGraph
<1>3. ScheduleIsSimulated'
  BY <1>1, SameSchedule
<1>4. CASE passValue = 0
  <2>1. /\ pc' = "pass" /\ passValue' = 2 /\ deferredStar' = NoStar
        /\ numAddedThisPass' = 0 /\ at' = 1 /\ invalid' = invalid
    BY <1>4 DEF EndPass, NewPass
  <2> QED
    BY <1>1, <1>2, <1>3, <2>1
       DEF PassInv, PassTypes, NoneTooOften, PassTellsTheTruth, AllAreScheduled, RunIsAdmissible
<1>5. CASE passValue = 1
  <2>1. pc' = "idle" /\ invalid' = TRUE /\ UNCHANGED <<passValue, deferredStar, numAddedThisPass>>
    BY <1>5 DEF EndPass, AbortSetup
  <2> QED
    BY <1>1, <1>2, <1>3, <2>1
       DEF PassInv, PassTypes, NoneTooOften, PassTellsTheTruth, AllAreScheduled, RunIsAdmissible
<1>6. CASE passValue = 2
  <2>1. /\ pc' = "enter" /\ invalid' = invalid
        /\ UNCHANGED <<passValue, deferredStar, numAddedThisPass>>
    BY <1>6 DEF EndPass
  <2>2. \A u \in Star : noTimes[u] = reps[u].num
    <3>1. \A u \in Star : reps[u].num <= noTimes[u]
      BY <1>1, <1>6 DEF PassInv, PassTellsTheTruth
    <3>2. \A u \in Star : noTimes[u] \in Nat /\ reps[u].num \in Nat
      BY <1>1 DEF PassTypes
    <3> QED
      BY <1>1, <3>1, <3>2
  <2>3. noTimes' = Counts'
    BY <1>1, <1>2, <2>2 DEF Counts, PassTypes
  <2> QED
    BY <1>1, <1>2, <1>3, <2>1, <2>3
       DEF PassInv, PassTypes, NoneTooOften, PassTellsTheTruth, AllAreScheduled, RunIsAdmissible
<1> QED
  BY <1>4, <1>5, <1>6 DEF EndPass

-----------------------------------------------------------------------------
(* The set-up before the passes *)

LEMMA SearchSteps ==
  ASSUME PassInv, StartSubgraph \/ ReptArc \/ ReturnSubgraph \/ Normalize
  PROVE  PassInv'
<1>1. /\ pc = "repetitions" /\ pc' \in {"repetitions", "idle"}
      /\ UNCHANGED <<graph, noTimes, tokens, schedule, passValue, deferredStar,
                     numAddedThisPass, data>>
      /\ ~invalid' => ~invalid /\ pc' = "repetitions"
  <2>1. CASE StartSubgraph
    BY <2>1 DEF StartSubgraph, passVars, runVars
  <2>2. CASE ReptArc
    <3>1. /\ pc = "repetitions" /\ UNCHANGED <<graph, pc, at, subgraph, passVars, runVars>>
          /\ pc = "repetitions"
      BY <2>2 DEF ReptArc
    <3>2. invalid' = invalid \/ invalid' = TRUE
      BY <2>2 DEF ReptArc
    <3>3. ~invalid' => ~invalid
      BY <3>2, Zenon
    <3> QED
      BY <3>1, <3>3 DEF passVars, runVars
  <2>3. CASE ReturnSubgraph
    BY <2>3 DEF ReturnSubgraph, passVars, runVars
  <2>4. CASE Normalize
    BY <2>4 DEF Normalize, passVars, runVars
  <2> QED
    BY <2>1, <2>2, <2>3, <2>4
<1>2. Star' = Star /\ Arc' = Arc /\ Delays' = Delays
  BY <1>1, SameGraph
<1>3. ScheduleIsSimulated'
  BY <1>1, SameSchedule DEF PassInv
<1> QED
  BY <1>1, <1>2, <1>3
     DEF PassInv, PassTypes, NoneTooOften, PassTellsTheTruth, AllAreScheduled, RunIsAdmissible

LEMMA StartScheduleStep == RateInv /\ PassInv /\ StartSchedule => PassInv'
<1> SUFFICES ASSUME RateInv, PassInv, StartSchedule PROVE PassInv'
  OBVIOUS
<1>1. /\ pc = "repetitions" /\ pc' = "pass" /\ at' = 1
      /\ passValue' = 2 /\ deferredStar' = NoStar /\ numAddedThisPass' = 0
      /\ UNCHANGED <<graph, reps, noTimes, tokens, schedule, data, invalid>>
      /\ reps \in [Star -> [num : Nat, den : Nat \ {0}]]
  BY DEF StartSchedule, NewPass, rateVars, runVars, RateInv, RateTypes
<1>2. Star' = Star /\ Arc' = Arc /\ Delays' = Delays
  BY <1>1, SameGraph
<1>3. ScheduleIsSimulated'
  BY <1>1, SameSchedule DEF PassInv
<1>4. \A s \in Star : noTimes[s] <= reps[s].num
  <2>1. \A s \in Star : noTimes[s] = 0 /\ reps[s].num \in Nat
    BY <1>1 DEF PassInv, NoneTooOften
  <2> QED
    BY <2>1
<1> QED
  BY <1>1, <1>2, <1>3, <1>4
     DEF PassInv, PassTypes, NoneTooOften, PassTellsTheTruth, AllAreScheduled, RunIsAdmissible

LEMMA RunCommandStep ==
  ASSUME NEW n \in Stops, RateInv, PassInv, Run(n)
  PROVE  PassInv'
<1>1. /\ UNCHANGED <<graph, passValue, deferredStar, numAddedThisPass>>
      /\ noTimes' = [s \in Star |-> 0] /\ tokens' = Delays /\ data' = Delays
      /\ schedule' = <<>>
      /\ pc' = "repetitions" \/ (pc' = "idle" /\ invalid')
      /\ graph \in Graphs /\ PassTypes
  BY DEF Run, RateInv, RateTypes, PassInv
<1>2. Star' = Star /\ Arc' = Arc /\ Delays' = Delays
  BY <1>1, SameGraph
<1>3. PassTypes'
  BY <1>1, <1>2, ContentOfNone DEF PassTypes
<1>4. ScheduleIsSimulated'
  <2>1. Firings(graph, schedule') = noTimes'
    BY <1>1, FiringsOfNone DEF Star
  <2>2. Admissible(graph, schedule')
    BY <1>1 DEF Admissible
  <2> QED
    BY <1>1, <1>2, <2>1, <2>2, ContentOfNone DEF ScheduleIsSimulated
<1> QED
  BY <1>1, <1>2, <1>3, <1>4
     DEF PassInv, NoneTooOften, PassTellsTheTruth, AllAreScheduled, RunIsAdmissible

-----------------------------------------------------------------------------
(* The run *)

\* The steps between iterations.
LEMMA BetweenSteps ==
  ASSUME PassInv, UNCHANGED <<graph, reps, passVars, data>>,
         pc \in {"idle", "enter", "loop"}, pc' \in {"idle", "enter", "loop"},
         ~invalid' => ~invalid,
         pc' = "loop" /\ invalid' => halt'
  PROVE  PassInv'
<1>1. UNCHANGED <<noTimes, tokens, schedule, passValue, deferredStar, numAddedThisPass>>
  BY DEF passVars
<1>2. Star' = Star /\ Arc' = Arc /\ Delays' = Delays
  BY SameGraph
<1>3. ScheduleIsSimulated'
  BY <1>1, SameSchedule DEF PassInv
<1>4. Counts' = Counts
  BY <1>2 DEF Counts
<1> QED
  BY <1>1, <1>2, <1>3, <1>4
     DEF PassInv, PassTypes, NoneTooOften, PassTellsTheTruth, AllAreScheduled, RunIsAdmissible

LEMMA LoopStep == RateInv /\ PassInv /\ Loop => PassInv'
<1> SUFFICES ASSUME RateInv, PassInv, Loop PROVE PassInv'
  OBVIOUS
<1>1. /\ pc = "loop" /\ UNCHANGED <<graph, reps, passVars, data, invalid, halt>>
      /\ \/ pc' = "once" /\ at' = 1 /\ ~halt
         \/ pc' = "idle"
      /\ invalid => halt
  BY DEF Loop, rateVars, runVars, flagVars, PassInv, RunIsAdmissible
<1>2. CASE pc' = "idle"
  BY <1>1, <1>2, BetweenSteps
<1>3. CASE pc' = "once" /\ at' = 1 /\ ~halt
  <2>1. UNCHANGED <<noTimes, tokens, schedule, passValue, deferredStar, numAddedThisPass>>
    BY <1>1 DEF passVars
  <2>2. Star' = Star /\ Arc' = Arc /\ Delays' = Delays
    BY <1>1, SameGraph
  <2>3. /\ ~invalid /\ data = Delays /\ noTimes = Counts /\ PassTypes
        /\ graph \in Graphs
    BY <1>1, <1>3 DEF PassInv, RunIsAdmissible, AllAreScheduled, RateInv, RateTypes
  <2>4. Counts' = Counts
    BY <1>1, <2>2 DEF Counts
  <2>5. ScheduleIsSimulated'
    BY <1>1, <2>1, SameSchedule DEF PassInv
  <2>6. RunIsAdmissible'
    <3>1. Len(schedule) \in Nat /\ SubSeq(schedule, 1, 0) = <<>>
      BY <2>3, SubSeqOfAppend DEF PassTypes
    <3>2. Firings(graph, <<>>) = [s \in Star |-> 0]
      BY FiringsOfNone DEF Star
    <3>3. Firings(graph, SubSeq(schedule, 1, 0)) = [s \in Star |-> 0]
      BY <3>1, <3>2
    <3>4. \A a \in Arc : data[a] = Content(graph, [s \in Star |-> 0], a)
      BY <2>3, ContentOfNone
    <3>5. \A a \in Arc : data[a] = Content(graph, Firings(graph, SubSeq(schedule, 1, 0)), a)
      BY <3>3, <3>4
    <3>6. at' - 1 = 0 /\ at' <= Len(schedule) + 1
      BY <1>3, <3>1
    <3> QED
      BY <1>1, <1>3, <2>1, <2>2, <2>3, <3>5, <3>6 DEF RunIsAdmissible
  <2> QED
    BY <1>1, <1>3, <2>1, <2>2, <2>3, <2>4, <2>5, <2>6
       DEF PassInv, PassTypes, NoneTooOften, PassTellsTheTruth, AllAreScheduled
<1> QED
  BY <1>1, <1>2, <1>3

LEMMA FireStarStep == RateInv /\ PassInv /\ FireStar => PassInv'
<1> SUFFICES ASSUME RateInv, PassInv, FireStar PROVE PassInv'
  OBVIOUS
<1>1. /\ pc = "once" /\ pc' = "once" /\ ~invalid /\ at <= Len(schedule)
      /\ data' = Moved(data, schedule[at]) /\ at' = at + 1 /\ invalid' = halt
      /\ UNCHANGED <<graph, reps, noTimes, tokens, schedule, passValue, deferredStar,
                     numAddedThisPass, halt>>
      /\ graph \in Graphs /\ at \in Nat \ {0} /\ PassTypes
  BY DEF FireStar, rateVars, passVars, flagVars, RateInv, RateTypes, PassInv
<1>2. Star' = Star /\ Arc' = Arc /\ Delays' = Delays
  BY <1>1, SameGraph
<1>3. Counts' = Counts
  BY <1>1, <1>2 DEF Counts
<1>4. ScheduleIsSimulated'
  BY <1>1, SameSchedule DEF PassInv
<1>5. schedule \in Seq(Star) /\ Len(schedule) \in Nat /\ at \in 1..Len(schedule)
  BY <1>1 DEF PassTypes
<1>6. PICK done, fired, now :
        done = SubSeq(schedule, 1, at - 1) /\ fired = Firings(graph, done) /\ now = schedule[at]
  OBVIOUS
<1>7. done \in Seq(Star) /\ now \in Star /\ SubSeq(schedule, 1, at) = Append(done, now)
  BY <1>6, <1>5, SubSeqGrows
<1>8. data \in [Arc -> Int] /\ \A a \in Arc : data[a] = Content(graph, fired, a)
  BY <1>6, <1>1 DEF PassTypes, PassInv, RunIsAdmissible
<1>9. fired \in [Star -> Nat] /\ Firings(graph, Append(done, now)) = [fired EXCEPT ![now] = @ + 1]
  <2>1. fired \in [Star -> Nat]
    BY <1>6, <1>7, FiringsType DEF Star
  <2>2. Firings(graph, Append(done, now)) = [Firings(graph, done) EXCEPT ![now] = @ + 1]
    BY <1>7, FiringsOfAppend DEF Star
  <2> QED
    BY <1>6, <2>1, <2>2
<1>10. /\ Moved(data, now) \in [Arc -> Int]
       /\ \A a \in Arc : Moved(data, now)[a] = Content(graph, Firings(graph, Append(done, now)), a)
  <2>1. PICK next : next = Firings(graph, Append(done, now))
    OBVIOUS
  <2>2. /\ next \in [Star -> Nat]
        /\ \A u \in Star : next[u] = IF u = now THEN fired[u] + 1 ELSE fired[u]
    BY <1>7, <1>9, <2>1
  <2>3. graph \in Graphs /\ now \in Star /\ fired \in [Star -> Nat]
    BY <1>1, <1>7, <1>9
  <2>4. \A a \in Arc : Moved(data, now)[a] = Content(graph, next, a)
    BY <1>8, <2>2, <2>3, ContentMoves
  <2>5. Moved(data, now) \in [Arc -> Int]
    BY <1>8, <2>3, MovedType
  <2> QED
    BY <2>1, <2>4, <2>5
<1>11. /\ data' \in [Arc -> Int]
       /\ \A a \in Arc : data'[a] = Content(graph, Firings(graph, SubSeq(schedule, 1, at)), a)
  BY <1>6, <1>1, <1>7, <1>9, <1>10
<1>12. RunIsAdmissible'
  <2>1. at' - 1 = at /\ at' <= Len(schedule) + 1
    BY <1>1, <1>5
  <2> QED
    BY <1>1, <1>2, <1>11, <2>1 DEF RunIsAdmissible
<1>13. AllAreScheduled'
  BY <1>1, <1>3 DEF PassInv, AllAreScheduled
<1>14. PassTypes'
  BY <1>1, <1>2, <1>11 DEF PassTypes
<1> QED
  BY <1>1, <1>4, <1>12, <1>13, <1>14 DEF PassInv, NoneTooOften, PassTellsTheTruth

LEMMA EndIterationStep == RateInv /\ PassInv /\ EndIteration => PassInv'
<1> SUFFICES ASSUME RateInv, PassInv, EndIteration PROVE PassInv'
  OBVIOUS
<1>1. /\ pc = "once" /\ pc' = "loop" /\ (invalid \/ at > Len(schedule))
      /\ UNCHANGED <<graph, reps, noTimes, tokens, schedule, passValue, deferredStar,
                     numAddedThisPass, data, invalid, halt>>
      /\ graph \in Graphs /\ at \in Nat \ {0} /\ PassTypes
      /\ invalid => halt
  BY DEF EndIteration, rateVars, passVars, flagVars, RateInv, RateTypes, PassInv, RunIsAdmissible
<1>2. Star' = Star /\ Arc' = Arc /\ Delays' = Delays
  BY <1>1, SameGraph
<1>3. Counts' = Counts
  BY <1>1, <1>2 DEF Counts
<1>4. ScheduleIsSimulated'
  BY <1>1, SameSchedule DEF PassInv
<1>5. ASSUME ~invalid PROVE data = Delays
  <2>1. /\ at <= Len(schedule) + 1 /\ schedule \in Seq(Star) /\ Len(schedule) \in Nat
        /\ \A a \in Arc :
               data[a] = Content(graph, Firings(graph, SubSeq(schedule, 1, at - 1)), a)
    BY <1>1, <1>5 DEF PassInv, RunIsAdmissible, PassTypes
  <2>2. at - 1 = Len(schedule)
    BY <1>1, <1>5, <2>1
  <2>3. SubSeq(schedule, 1, at - 1) = schedule
    BY <2>1, <2>2, SubSeqOfAppend
  <2>4. Firings(graph, schedule) = Counts
    BY <1>1, <1>5 DEF PassInv, AllAreScheduled, ScheduleIsSimulated
  <2>5. \A a \in Arc : Content(graph, Counts, a) = graph.arcs[a].delay
    BY <1>1, <1>5 DEF RateInv, RepetitionsBalance, Balanced, Arc
  <2>6. \A a \in Arc : data[a] = graph.arcs[a].delay
    BY <2>1, <2>3, <2>4, <2>5
  <2> QED
    BY <1>1, <2>6 DEF Delays, PassTypes
<1> QED
  BY <1>1, <1>2, <1>3, <1>4, <1>5
     DEF PassInv, PassTypes, NoneTooOften, PassTellsTheTruth, AllAreScheduled, RunIsAdmissible

LEMMA RequestHaltStep ==
  ASSUME PassInv, NEW e, RequestHalt(e)
  PROVE  PassInv'
<1>1. /\ pc \in {"enter", "loop", "once"} /\ pc' = pc /\ halt' = TRUE
      /\ UNCHANGED <<graph, reps, at, noTimes, tokens, schedule, passValue, deferredStar,
                     numAddedThisPass, data, invalid>>
  BY DEF RequestHalt, rateVars, passVars, runVars
<1>2. Star' = Star /\ Arc' = Arc /\ Delays' = Delays
  BY <1>1, SameGraph
<1>3. Counts' = Counts
  BY <1>1, <1>2 DEF Counts
<1>4. ScheduleIsSimulated'
  BY <1>1, SameSchedule DEF PassInv
<1> QED
  BY <1>1, <1>2, <1>3, <1>4
     DEF PassInv, PassTypes, NoneTooOften, PassTellsTheTruth, AllAreScheduled, RunIsAdmissible

LEMMA StutterStep == ASSUME PassInv, UNCHANGED vars PROVE PassInv'
<1>1. UNCHANGED <<graph, pc, reps, at, noTimes, tokens, schedule, passValue, deferredStar,
                 numAddedThisPass, data, invalid, halt>>
  BY DEF vars, rateVars, passVars, runVars, flagVars
<1>2. Star' = Star /\ Arc' = Arc /\ Delays' = Delays
  BY <1>1, SameGraph
<1>3. Counts' = Counts
  BY <1>1, <1>2 DEF Counts
<1>4. ScheduleIsSimulated'
  BY <1>1, SameSchedule DEF PassInv
<1>5. PassTellsTheTruth'
  <2>1. NotRunnable(deferredStar)' = NotRunnable(deferredStar)
    BY <1>1, <1>2 DEF NotRunnable, Needs
  <2> QED
    BY <1>1, <1>2, <2>1 DEF PassInv, PassTellsTheTruth
<1> QED
  BY <1>1, <1>2, <1>3, <1>4, <1>5
     DEF PassInv, PassTypes, NoneTooOften, AllAreScheduled, RunIsAdmissible

-----------------------------------------------------------------------------

LEMMA PassInvStep == RateInv /\ PassInv /\ [Next]_vars => PassInv'
<1> SUFFICES ASSUME RateInv, PassInv, [Next]_vars PROVE PassInv'
  OBVIOUS
<1>1. CASE SetupStep
  BY <1>1, SearchSteps, StartScheduleStep, TryStarStep, TryDeferredStep, EndPassStep DEF SetupStep
<1>2. CASE Enter
  <2>1. /\ pc = "enter" /\ UNCHANGED <<graph, reps, passVars, data>>
        /\ \/ pc' = "idle" /\ invalid' = TRUE
           \/ pc' = "loop" /\ ~invalid /\ invalid' = invalid
    BY <1>2 DEF Enter, AbortSetup, rateVars, runVars
  <2> QED
    BY <2>1, BetweenSteps
<1>3. CASE RunStep /\ ~Enter
  BY <1>3, LoopStep, FireStarStep, EndIterationStep DEF RunStep
<1>4. ASSUME NEW n \in Stops, Run(n) PROVE PassInv'
  BY <1>4, RunCommandStep
<1>5. ASSUME NEW n \in Stops, Cont(n) PROVE PassInv'
  <2>1. pc = "idle" /\ pc' = "enter" /\ UNCHANGED <<graph, reps, passVars, data, invalid>>
    BY <1>5 DEF Cont, ContinueRun, rateVars
  <2> QED
    BY <2>1, BetweenSteps
<1>6. ASSUME NEW e \in BOOLEAN, RequestHalt(e) PROVE PassInv'
  BY <1>6, RequestHaltStep
<1>7. CASE UNCHANGED vars
  BY <1>7, StutterStep
<1> QED
  BY <1>1, <1>2, <1>3, <1>4, <1>5, <1>6, <1>7 DEF Next

LEMMA ScheduleInvariant == Spec => [](RateInv /\ PassInv)
<1>1. Init => RateInv /\ PassInv
  BY InvInit, PassInvInit
<1>2. RateInv /\ PassInv /\ [Next]_vars => (RateInv /\ PassInv)'
  BY InvStep, PassInvStep
<1> QED
  BY <1>1, <1>2, PTL DEF Spec

\* A schedule that computeSchedule accepts fires every star as often as its
\* repetitions say, and no star of it before its particles are there.
THEOREM AcceptedSchedulesAreComplete == Spec => []ScheduleIsComplete
<1>1. RateInv /\ PassInv => ScheduleIsComplete
  BY DEF PassInv, AllAreScheduled, ScheduleIsSimulated, ScheduleIsComplete
<1> QED
  BY <1>1, ScheduleInvariant, PTL

\* No run reads from an empty geodesic, and every iteration that ends leaves the
\* delays as they were, however often the run is halted and continued.
THEOREM RunsDoNotStarve == Spec => []NoStarStarves
<1>1. RateInv /\ PassInv => NoStarStarves
  <2> SUFFICES ASSUME RateInv, PassInv PROVE NoStarStarves
    OBVIOUS
  <2>1. ASSUME pc = "once", ~invalid, at <= Len(schedule)
        PROVE  \A a \in Needs(schedule[at]) : data[a] >= graph.arcs[a].cons
    <3> DEFINE n == Firings(graph, SubSeq(schedule, 1, at - 1))
    <3>1. schedule \in Seq(Star) /\ at \in Nat \ {0}
      BY DEF PassInv, PassTypes, RateInv, RateTypes
    <3>2. at \in DOMAIN schedule
      BY <2>1, <3>1
    <3>3. Fireable(graph, n, schedule[at])
      BY <3>2 DEF PassInv, ScheduleIsSimulated, Admissible
    <3>4. \A a \in Arc : data[a] = Content(graph, n, a)
      BY <2>1 DEF PassInv, RunIsAdmissible
    <3> HIDE DEF n
    <3> QED
      BY <3>3, <3>4 DEF Fireable, Needs, Arc
  <2>2. pc = "loop" /\ ~halt => data = Delays
    BY DEF PassInv, RunIsAdmissible
  <2> QED
    BY <2>1, <2>2 DEF NoStarStarves
<1> QED
  BY <1>1, ScheduleInvariant, PTL

-----------------------------------------------------------------------------
(* Deadlock *)

\* What an order of firings may reach from there with one more firing.
OneMore(g, r, N) ==
    UNION {{[n EXCEPT ![s] = @ + 1] : s \in {t \in Stars(g) : n[t] < r[t] /\ Fireable(g, n, t)}} :
           n \in N}

\* What the firings reach one by one.
AreLevels(level, g, r, n) ==
    /\ level \in [0..n -> SUBSET [Stars(g) -> Nat]]
    /\ level[0] = {[s \in Stars(g) |-> 0]}
    /\ \A k \in 1..n : level[k] = OneMore(g, r, level[k - 1])

LEMMA LevelsAreReached ==
  ASSUME NEW g, IsFiniteSet(Stars(g)), NEW r, r \in [Stars(g) -> Nat]
  PROVE  \E n \in Nat : \E level : AreLevels(level, g, r, n) /\ Reached(g, r) = level[n]
<1> DEFINE of    == [s \in Stars(g) |-> {s} \X (1..r[s])]
           parts == {{s} \X (1..r[s]) : s \in Stars(g)}
           total == Cardinality(UNION parts)
           V     == SUBSET [Stars(g) -> Nat]
           first == {[s \in Stars(g) |-> 0]}
           step  == [k \in 1..total |-> [N \in V |-> OneMore(g, r, N)]]
           Is(f) == f = [k \in 0..total |-> IF k = 0 THEN first ELSE OneMore(g, r, f[k - 1])]
<1>1. total \in Nat
  <2>1. of \in Surjection(Stars(g), parts)
    BY DEF Surjection
  <2>2. IsFiniteSet(parts)
    BY <2>1, FS_Surjection
  <2>3. ASSUME NEW s \in Stars(g) PROVE IsFiniteSet({s} \X (1..r[s]))
    <3>1. IsFiniteSet({s})
      BY FS_Singleton
    <3>2. IsFiniteSet(1..r[s])
      BY FS_Interval
    <3> QED
      BY <3>1, <3>2, FS_Product
  <2>4. IsFiniteSet(UNION parts)
    BY <2>2, <2>3, FS_UNION
  <2> QED
    BY <2>4, FS_CardinalityType
<1>2. first \in V
  OBVIOUS
<1>3. \A N \in V : OneMore(g, r, N) \in V
  BY DEF OneMore
<1>4. PICK f : Recursion(f, V, first, step, total)
  <2> HIDE DEF V, first, total
  <2>1. step \in [1..total -> [V -> V]]
    BY <1>3
  <2> HIDE DEF step
  <2> QED
    BY <1>1, <1>2, <2>1, RecursionExists
<1> USE DEF Recursion
<1>5. Is(f)
  <2> HIDE DEF V, first, total
  <2>1. \A k \in 0..total : k # 0 => k \in 1..total /\ k - 1 \in 0..total
    BY <1>1
  <2>2. \A k \in 0..total : f[k] = IF k = 0 THEN first ELSE OneMore(g, r, f[k - 1])
    BY <1>4, <2>1
  <2> QED
    BY <1>4, <2>2
<1>6. PICK level : level = CHOOSE h : Is(h)
  OBVIOUS
<1>7. Is(level)
  <2> HIDE DEF Is
  <2> QED
    BY <1>5, <1>6
<1>8. Reached(g, r) = level[total]
  BY <1>6 DEF Reached, OneMore
<1>9. level = f
  <2> HIDE DEF V, first, total, step
  <2> DEFINE D == {k \in 0..total : level[k] # f[k]}
  <2>1. SUFFICES ASSUME D # {} PROVE FALSE
    BY <1>4, <1>7
  <2>2. D \subseteq Nat
    BY <1>1
  <2>3. PICK k \in D : \A j \in D : k <= j
    <3> HIDE DEF D
    <3> QED
      BY <2>2, <2>1, SmallestOne
  <2>4. k # 0
    BY <1>1, <1>4, <1>7, <2>3
  <2>5. k \in 1..total /\ k - 1 \in 0..total /\ k - 1 \notin D
    BY <1>1, <2>3, <2>4
  <2>6. level[k] = OneMore(g, r, level[k - 1]) /\ f[k] = OneMore(g, r, f[k - 1])
    BY <1>5, <1>7, <2>4, <2>5
  <2> QED
    BY <2>3, <2>5, <2>6
<1>10. \A k \in 1..total : f[k] = OneMore(g, r, f[k - 1])
  <2> HIDE DEF V, first, total
  <2> SUFFICES ASSUME NEW k \in 1..total PROVE f[k] = OneMore(g, r, f[k - 1])
    OBVIOUS
  <2>1. f[k - 1] \in V
    BY <1>1, <1>4
  <2> QED
    BY <1>4, <2>1
<1> HIDE DEF V, first, total
<1> QED
  BY <1>1, <1>4, <1>8, <1>9, <1>10 DEF V, first, AreLevels

\* The number of particles on an arc only grows with the firings of the others,
\* so a star that could fire after fewer firings of them still can.
LEMMA FireableStays ==
  ASSUME graph \in Graphs, NEW n \in [Star -> Nat], NEW m \in [Star -> Nat],
         NEW s \in Star, \A u \in Star : m[u] <= n[u], m[s] = n[s], Fireable(graph, m, s)
  PROVE  Fireable(graph, n, s)
<1> SUFFICES ASSUME NEW a \in Arc, graph.arcs[a].dst = s
    PROVE  Content(graph, n, a) >= graph.arcs[a].cons
  BY DEF Fireable, Arc
<1> DEFINE b == graph.arcs[a]
<1>1. b.src \in Star /\ b.dst = s /\ b.prod \in Nat /\ b.cons \in Nat /\ b.delay \in Nat
  BY GraphType
<1>2. /\ Content(graph, n, a) = b.delay + b.prod * n[b.src] - b.cons * n[b.dst]
      /\ Content(graph, m, a) = b.delay + b.prod * m[b.src] - b.cons * m[b.dst]
  BY DEF Content
<1>3. Content(graph, m, a) >= b.cons
  BY DEF Fireable, Arc
<1> HIDE DEF b
<1>4. m[b.src] <= n[b.src] /\ m[b.src] \in Nat /\ n[b.src] \in Nat
  BY <1>1
<1>5. b.prod * m[b.src] <= b.prod * n[b.src]
  BY <1>1, <1>4
<1>6. b.cons * m[b.dst] = b.cons * n[b.dst] /\ b.cons * m[b.dst] \in Int
  BY <1>1
<1>7. b.prod * m[b.src] \in Int /\ b.prod * n[b.src] \in Int
  BY <1>1, <1>4
<1> QED
  BY <1>1, <1>2, <1>3, <1>5, <1>6, <1>7 DEF b

\* When no star can go on, no order of firings has gone further anywhere.
LEMMA StuckIsFurthest ==
  ASSUME RateInv, PassInv, \A s \in Star : NotRunnable(s) # 0,
         NEW n \in Reached(graph, Counts)
  PROVE  n \in [Star -> Nat] /\ \A s \in Star : n[s] <= noTimes[s]
<1>1. /\ graph \in Graphs /\ reps \in [Star -> [num : Nat, den : Nat \ {0}]]
      /\ noTimes \in [Star -> Nat]
      /\ \A a \in Arc : tokens[a] = Content(graph, noTimes, a)
      /\ tokens \in [Arc -> Int]
  BY DEF RateInv, RateTypes, PassInv, PassTypes, ScheduleIsSimulated
<1>2. Counts \in [Star -> Nat] /\ \A s \in Star : Counts[s] = reps[s].num
  BY <1>1 DEF Counts
<1>3. IsFiniteSet(Star)
  <2>1. 1..Len(graph.stars) = DOMAIN graph.stars /\ graph.stars \in Seq(Star)
        /\ Len(graph.stars) \in Nat
    BY <1>1, GraphType
  <2>2. graph.stars \in Surjection(1..Len(graph.stars), Star)
    BY <1>1, <2>1, GraphType DEF Surjection
  <2>3. IsFiniteSet(1..Len(graph.stars))
    BY <2>1, FS_Interval
  <2> QED
    BY <2>2, <2>3, FS_Surjection
<1>4. PICK N \in Nat : \E level :
         AreLevels(level, graph, Counts, N) /\ Reached(graph, Counts) = level[N]
  BY <1>2, <1>3, LevelsAreReached DEF Star
<1>5. PICK level : AreLevels(level, graph, Counts, N) /\ Reached(graph, Counts) = level[N]
  BY <1>4
<1>6. /\ level \in [0..N -> SUBSET [Star -> Nat]]
      /\ level[0] = {[s \in Star |-> 0]}
      /\ \A k \in 1..N : level[k] = OneMore(graph, Counts, level[k - 1])
      /\ Reached(graph, Counts) = level[N]
  BY <1>5 DEF AreLevels, Star
<1> DEFINE Behind(m) == \A s \in Star : m[s] <= noTimes[s]
           T == {k \in 0..N : \E m \in level[k] : ~Behind(m)}
<1>7. T = {}
  <2>1. SUFFICES ASSUME T # {} PROVE FALSE
    OBVIOUS
  <2>2. T \subseteq Nat
    OBVIOUS
  <2>3. PICK k \in T : \A j \in T : k <= j
    <3> HIDE DEF T
    <3> QED
      BY <2>1, <2>2, SmallestOne
  <2>4. PICK m \in level[k] : ~Behind(m)
    BY <2>3
  <2>5. k # 0
    <3> SUFFICES ASSUME k = 0 PROVE FALSE
      OBVIOUS
    <3>1. m = [s \in Star |-> 0]
      BY <1>6, <2>4
    <3>2. \A s \in Star : m[s] <= noTimes[s]
      BY <1>1, <3>1
    <3> QED
      BY <2>4, <3>2
  <2>6. k \in 1..N /\ k - 1 \in 0..N /\ k - 1 \notin T
    <3>1. k \in 1..N /\ k - 1 \in 0..N /\ ~(k <= k - 1)
      BY <2>3, <2>5
    <3> HIDE DEF T
    <3> QED
      BY <2>3, <3>1
  <2>7. PICK p \in level[k - 1], s \in Star :
            m = [p EXCEPT ![s] = @ + 1] /\ p[s] < Counts[s] /\ Fireable(graph, p, s)
    <3>1. m \in OneMore(graph, Counts, level[k - 1])
      BY <1>6, <2>4, <2>6
    <3> QED
      BY <3>1 DEF OneMore, Star
  <2>8. p \in [Star -> Nat] /\ \A u \in Star : p[u] <= noTimes[u]
    BY <1>6, <2>6, <2>7
  <2>9. p[s] = noTimes[s]
    <3> SUFFICES ASSUME p[s] # noTimes[s] PROVE FALSE
      OBVIOUS
    <3>1. \A u \in Star : p[u] \in Nat /\ noTimes[u] \in Nat /\ p[u] <= noTimes[u]
      BY <1>1, <2>8
    <3>2. \A u \in Star : m[u] = IF u = s THEN p[u] + 1 ELSE p[u]
      BY <2>7, <2>8
    <3>3. ASSUME NEW u \in Star PROVE m[u] <= noTimes[u]
      <4>1. CASE u = s
        <5>1. p[s] + 1 <= noTimes[s]
          BY <3>1
        <5> QED
          BY <3>2, <4>1, <5>1
      <4>2. CASE u # s
        BY <3>1, <3>2, <4>2
      <4> QED
        BY <4>1, <4>2
    <3> QED
      BY <2>4, <3>3
  <2>10. Fireable(graph, noTimes, s)
    BY <1>1, <2>7, <2>8, <2>9, FireableStays
  <2>11. ~(reps[s].num <= noTimes[s])
    <3>1. Counts[s] = reps[s].num /\ Counts[s] \in Nat /\ noTimes[s] \in Nat
      BY <1>1, <1>2
    <3> QED
      BY <2>7, <2>9, <3>1
  <2>12. \A a \in Needs(s) : ~(tokens[a] < graph.arcs[a].cons)
    <3> TAKE a \in Needs(s)
    <3>1. a \in Arc /\ graph.arcs[a].cons \in Nat /\ tokens[a] \in Int
      BY <1>1, GraphType DEF Needs
    <3>2. tokens[a] >= graph.arcs[a].cons
      BY <1>1, <2>10 DEF Fireable, Needs, Arc
    <3> QED
      BY <3>1, <3>2
  <2> QED
    BY <2>11, <2>12 DEF NotRunnable
<1>8. n \in level[N] /\ N \in 0..N /\ level[N] \subseteq [Star -> Nat]
  BY <1>5, <1>6
<1> QED
  BY <1>7, <1>8

\* A pass that has added nothing, put off nothing and found a star with firings
\* left has found no star that can run.
DeadlockIsSeen ==
    /\ pc = "pass" /\ passValue # 0 /\ deferredStar = NoStar =>
           \A i \in 1..Len(graph.stars) : i < at => NotRunnable(graph.stars[i]) # 0
    /\ pc \in {"pass", "passed"} /\ passValue = 1 => \E s \in Star : noTimes[s] < reps[s].num
    /\ pc = "passed" /\ passValue = 1 => \A s \in Star : NotRunnable(s) # 0

LEMMA NotRunnableStays ==
  ASSUME UNCHANGED <<graph, reps, noTimes, tokens>>
  PROVE  \A s : NotRunnable(s)' = NotRunnable(s)
  BY SameGraph DEF NotRunnable, Needs

LEMMA TryStarSees == RateInv /\ PassInv /\ DeadlockIsSeen /\ TryStar => DeadlockIsSeen'
<1> SUFFICES ASSUME RateInv, PassInv, DeadlockIsSeen, TryStar PROVE DeadlockIsSeen'
  OBVIOUS
<1>1. PICK s, st : s = graph.stars[at] /\ st = Status(s, TRUE)
  OBVIOUS
<1>2. /\ pc = "pass" /\ pc' = "pass" /\ at <= Len(graph.stars) /\ at \in Nat \ {0}
      /\ graph \in Graphs /\ UNCHANGED <<graph, reps>>
      /\ reps \in [Star -> [num : Nat, den : Nat \ {0}]] /\ noTimes \in [Star -> Nat]
  BY DEF TryStar, rateVars, RateInv, RateTypes, PassInv, PassTypes
<1>3. s \in Star /\ s # NoStar /\ Star' = Star
  <2>1. /\ graph.stars \in Seq(Star) /\ NoStar \notin Star
        /\ \A i \in 1..Len(graph.stars) : graph.stars[i] \in Star
    BY <1>2, GraphType
  <2>2. at \in 1..Len(graph.stars)
    BY <1>2, <2>1
  <2> QED
    BY <1>1, <1>2, <2>1, <2>2, SameGraph
<1>4. CASE st = 0
  <2>1. passValue' = 0
    BY <1>1, <1>4 DEF TryStar, Add
  <2> QED
    BY <1>2, <2>1 DEF DeadlockIsSeen
<1>5. CASE st # 0
  <2>1. /\ deferredStar' = IF st = 3 /\ deferredStar = NoStar THEN s ELSE deferredStar
        /\ passValue' = IF st = 1 /\ passValue # 0 /\ deferredStar = NoStar
                        THEN 1 ELSE passValue
        /\ at' = at + 1
        /\ UNCHANGED <<tokens, noTimes>>
    BY <1>1, <1>5 DEF TryStar
  <2>2. /\ st \in {1, 2, 3}
        /\ st = 1 => ~(reps[s].num <= noTimes[s])
        /\ st # 3 => NotRunnable(s) # 0
    BY <1>1, <1>5 DEF Status, NotRunnable
  <2>3. \A u : NotRunnable(u)' = NotRunnable(u)
    BY <1>2, <2>1, NotRunnableStays
  <2>4. ASSUME passValue' = 1 PROVE \E u \in Star : noTimes[u] < reps[u].num
    <3>1. CASE st = 1
      <4>1. noTimes[s] \in Nat /\ reps[s].num \in Nat
        BY <1>2, <1>3
      <4>2. noTimes[s] < reps[s].num
        BY <2>2, <3>1, <4>1
      <4> QED
        BY <1>3, <4>2
    <3>2. CASE st # 1
      BY <1>2, <2>1, <2>4, <3>2 DEF DeadlockIsSeen
    <3> QED
      BY <3>1, <3>2
  <2>5. ASSUME passValue' # 0, deferredStar' = NoStar,
               NEW i \in 1..Len(graph.stars), i < at'
        PROVE  NotRunnable(graph.stars[i]) # 0
    <3>1. passValue # 0 /\ deferredStar = NoStar /\ st # 3
      BY <1>3, <2>1, <2>5
    <3>2. i < at \/ i = at
      BY <1>2, <2>1, <2>5
    <3> QED
      BY <1>1, <1>2, <2>2, <3>1, <3>2 DEF DeadlockIsSeen
  <2> QED
    BY <1>2, <1>3, <2>1, <2>3, <2>4, <2>5 DEF DeadlockIsSeen
<1> QED
  BY <1>4, <1>5

LEMMA TryDeferredSees == RateInv /\ PassInv /\ DeadlockIsSeen /\ TryDeferred => DeadlockIsSeen'
<1> SUFFICES ASSUME RateInv, PassInv, DeadlockIsSeen, TryDeferred PROVE DeadlockIsSeen'
  OBVIOUS
<1>1. /\ pc = "pass" /\ pc' = "passed" /\ at > Len(graph.stars) /\ at \in Nat \ {0}
      /\ graph \in Graphs /\ UNCHANGED <<graph, reps, at, deferredStar>>
  BY DEF TryDeferred, rateVars, RateInv, RateTypes
<1>2. CASE deferredStar # NoStar /\ Status(deferredStar, DeferAgain) = 0
  <2>1. passValue' = 0
    BY <1>2 DEF TryDeferred, Add
  <2> QED
    BY <1>1, <2>1 DEF DeadlockIsSeen
<1>3. CASE ~(deferredStar # NoStar /\ Status(deferredStar, DeferAgain) = 0)
  <2>1. UNCHANGED <<tokens, noTimes, passValue>>
    BY <1>3 DEF TryDeferred
  <2>2. \A u : NotRunnable(u)' = NotRunnable(u)
    BY <1>1, <2>1, NotRunnableStays
  <2>3. passValue # 0 => deferredStar = NoStar
    <3> SUFFICES ASSUME passValue # 0, deferredStar # NoStar PROVE FALSE
      OBVIOUS
    <3>1. numAddedThisPass = 0 /\ NotRunnable(deferredStar) = 0
      BY <1>1 DEF PassInv, PassTellsTheTruth
    <3>2. Status(deferredStar, DeferAgain) = 0
      BY <3>1 DEF Status, DeferAgain
    <3> QED
      BY <1>3, <3>2
  <2>4. ASSUME passValue = 1, NEW s \in Star PROVE NotRunnable(s) # 0
    <3>1. PICK i \in 1..Len(graph.stars) : graph.stars[i] = s
      BY <1>1, GraphType
    <3>2. i < at
      BY <1>1, <3>1, GraphType
    <3> QED
      BY <1>1, <2>3, <2>4, <3>1, <3>2 DEF DeadlockIsSeen
  <2>5. Star' = Star
    BY <1>1, SameGraph
  <2> QED
    BY <1>1, <2>1, <2>2, <2>4, <2>5 DEF DeadlockIsSeen
<1> QED
  BY <1>2, <1>3

LEMMA DeadlockIsSeenStep ==
  ASSUME RateInv, PassInv, DeadlockIsSeen, [Next]_vars
  PROVE  DeadlockIsSeen'
<1>1. CASE TryStar
  BY <1>1, TryStarSees
<1>2. CASE TryDeferred
  BY <1>2, TryDeferredSees
<1>3. CASE StartSchedule
  <2>1. pc' = "pass" /\ at' = 1 /\ passValue' = 2 /\ graph' = graph /\ graph \in Graphs
    BY <1>3 DEF StartSchedule, NewPass, RateInv, RateTypes
  <2>2. \A i \in 1..Len(graph.stars) : ~(i < 1)
    BY <2>1, GraphType
  <2> QED
    BY <2>1, <2>2 DEF DeadlockIsSeen
<1>4. CASE EndPass
  <2>1. pc' # "pass" \/ (pc' = "pass" /\ at' = 1 /\ passValue' = 2)
    BY <1>4 DEF EndPass, NewPass, AbortSetup
  <2>2. pc' # "passed" /\ graph' = graph /\ graph \in Graphs
    BY <1>4 DEF EndPass, NewPass, AbortSetup, RateInv, RateTypes
  <2>3. \A i \in 1..Len(graph.stars) : ~(i < 1)
    BY <2>2, GraphType
  <2> QED
    BY <2>1, <2>2, <2>3 DEF DeadlockIsSeen
<1>5. CASE UNCHANGED vars
  <2>1. UNCHANGED <<graph, pc, reps, at, noTimes, tokens, passValue, deferredStar>>
    BY <1>5 DEF vars, rateVars, passVars
  <2>2. /\ \A u : NotRunnable(u)' = NotRunnable(u)
        /\ Star' = Star
    BY <2>1, NotRunnableStays, SameGraph
  <2> QED
    BY <2>1, <2>2 DEF DeadlockIsSeen
<1>6. CASE pc' \notin {"pass", "passed"}
  BY <1>6 DEF DeadlockIsSeen
<1>7. Next /\ ~(TryStar \/ TryDeferred \/ StartSchedule \/ EndPass) => pc' \notin {"pass", "passed"}
  <2>1. ASSUME NEW n \in Stops, Run(n) \/ Cont(n) PROVE pc' \notin {"pass", "passed"}
    BY <2>1 DEF Run, Cont
  <2>2. ASSUME NEW e \in BOOLEAN, RequestHalt(e) PROVE pc' \notin {"pass", "passed"}
    BY <2>2 DEF RequestHalt
  <2>3. ASSUME RunStep PROVE pc' \notin {"pass", "passed"}
    BY <2>3 DEF RunStep, Enter, Loop, FireStar, EndIteration, AbortSetup
  <2>4. ASSUME StartSubgraph \/ ReptArc \/ ReturnSubgraph \/ Normalize
        PROVE  pc' \notin {"pass", "passed"}
    BY <2>4 DEF StartSubgraph, ReptArc, ReturnSubgraph, Normalize
  <2> QED
    BY <2>1, <2>2, <2>3, <2>4 DEF Next, SetupStep
<1> QED
  BY <1>1, <1>2, <1>3, <1>4, <1>5, <1>6, <1>7

\* A deadlock is reported only when no order of the firings makes an iteration:
\* the order in which the passes try the stars, and put them off, hides none.
THEOREM ReportedDeadlocksAreReal == Spec => []DeadlockIsReal
<1>1. Init => DeadlockIsSeen
  BY DEF Init, DeadlockIsSeen
<1>2. RateInv /\ PassInv /\ DeadlockIsSeen /\ [Next]_vars => DeadlockIsSeen'
  BY DeadlockIsSeenStep
<1>3. RateInv /\ PassInv /\ DeadlockIsSeen => DeadlockIsReal
  <2> SUFFICES ASSUME RateInv, PassInv, DeadlockIsSeen, pc = "passed", passValue = 1,
                      Counts \in Reached(graph, Counts)
      PROVE  FALSE
    BY DEF DeadlockIsReal, Schedulable
  <2>1. \A s \in Star : NotRunnable(s) # 0
    BY DEF DeadlockIsSeen
  <2>2. PICK s \in Star : noTimes[s] < reps[s].num
    BY DEF DeadlockIsSeen
  <2>3. Counts \in [Star -> Nat] /\ \A u \in Star : Counts[u] <= noTimes[u]
    BY <2>1, StuckIsFurthest
  <2>4. Counts[s] = reps[s].num /\ Counts[s] \in Nat /\ noTimes[s] \in Nat
    BY <2>3 DEF Counts, PassInv, PassTypes
  <2> QED
    BY <2>2, <2>3, <2>4
<1> QED
  BY <1>1, <1>2, <1>3, ScheduleInvariant, PTL DEF Spec

=============================================================================
