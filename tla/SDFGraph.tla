------------------------------ MODULE SDFGraph ------------------------------
(***************************************************************************)
(* Synchronous dataflow graphs: stars that take and send a fixed number of *)
(* particles on each arc when they fire.  What the scheduler has to find   *)
(* is defined here, without a way to find it.                              *)
(***************************************************************************)
EXTENDS Integers, Sequences, FiniteSets, FiniteSetsExt

(***************************************************************************)
(* A graph has the fields stars, a sequence in the order of the galaxy,    *)
(* and arcs, a sequence of records: the star src sends prod particles when *)
(* it fires and the star dst takes cons, and there are delay at first.     *)
(***************************************************************************)
Stars(g) == {g.stars[i] : i \in DOMAIN g.stars}
Arcs(g)  == DOMAIN g.arcs

\* The particles on arc a when each star s has fired n[s] times.
Content(g, n, a) ==
    LET c == g.arcs[a] IN c.delay + c.prod * n[c.src] - c.cons * n[c.dst]

\* A firing of s takes what it needs from every arc into s.
Fireable(g, n, s) ==
    \A a \in Arcs(g) : g.arcs[a].dst = s => Content(g, n, a) >= g.arcs[a].cons

Balanced(g, r) == \A a \in Arcs(g) : Content(g, r, a) = g.arcs[a].delay

Linked(g, c) == \A a \in Arcs(g) : (g.arcs[a].src \in c) <=> (g.arcs[a].dst \in c)
Component(g, s) ==
    CHOOSE c \in SUBSET Stars(g) :
        /\ s \in c /\ Linked(g, c)
        /\ \A d \in SUBSET Stars(g) : s \in d /\ Linked(g, d) => c \subseteq d

\* The repetitions of an iteration: they balance every arc, and in no part of
\* the graph that is connected do smaller ones.
Iteration(g, r, bound) ==
    /\ r \in [Stars(g) -> 1..bound]
    /\ Balanced(g, r)
    /\ \A s \in Stars(g) : \A d \in 2..bound :
           \E t \in Component(g, s) : r[t] % d # 0
Consistent(g, bound) == \E r \in [Stars(g) -> 1..bound] : Balanced(g, r)

\* The numbers of firings that some order of firings reaches, by their sum.
Reached(g, r) ==
    LET total == Cardinality(UNION {{s} \X (1..r[s]) : s \in Stars(g)})
        level[k \in 0..total] ==
            IF k = 0 THEN {[s \in Stars(g) |-> 0]}
            ELSE UNION {{[n EXCEPT ![s] = @ + 1] :
                            s \in {t \in Stars(g) : n[t] < r[t] /\ Fireable(g, n, t)}} :
                        n \in level[k - 1]}
    IN  level[total]

\* Some order of firings makes a whole iteration.
Schedulable(g, r) == r \in Reached(g, r)

\* The firings of each star in a sequence of firings.
Firings(g, q) == [s \in Stars(g) |-> Cardinality({i \in DOMAIN q : q[i] = s})]

\* A sequence of firings in which no star takes what is not there.
Admissible(g, q) ==
    \A i \in DOMAIN q : Fireable(g, Firings(g, SubSeq(q, 1, i - 1)), q[i])
=============================================================================
