----------------------------- MODULE MCDEDepth -----------------------------
(* All small galaxies for DEDepth. *)
EXTENDS DEDepth

CONSTANTS MaxStars, MaxArcs

NumIn  == [Source |-> 0, Printer |-> 1, Ramp |-> 1, Delay |-> 1, Fork |-> 1, Merge |-> 2,
           Sampler |-> 2, Arbitrate |-> 3]
NumOut == [Source |-> 1, Printer |-> 0, Ramp |-> 1, Delay |-> 1, Fork |-> 2, Merge |-> 1,
           Sampler |-> 1, Arbitrate |-> 3]

Total(num, kind) == FoldLeft(LAMBDA n, k : n + num[k], 0, kind)

Kinds == {k \in UNION {[1..n -> DOMAIN NumIn] : n \in 1..MaxStars} :
            Total(NumIn, k) = Total(NumOut, k) /\ Total(NumIn, k) \in 1..MaxArcs}

\* The arcs are numbered along the inputs, and perm gives them to the outputs.
Ports(num, kind, perm) ==
    [s \in DOMAIN kind |->
        [i \in 1..num[kind[s]] |-> perm[Total(num, SubSeq(kind, 1, s - 1)) + i]]]

SmallGalaxies ==
    UNION {LET n == Total(NumIn, k) IN
           {[kind |-> k, in |-> Ports(NumIn, k, [i \in 1..n |-> i]),
             out |-> Ports(NumOut, k, perm), tokens |-> t] :
                perm \in {f \in [1..n -> 1..n] : IsInjective(f)},
                t \in {{}} \cup {{i} : i \in 1..n}} : k \in Kinds}
=============================================================================
