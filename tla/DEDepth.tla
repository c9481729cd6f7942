------------------------------ MODULE DEDepth ------------------------------
(***************************************************************************)
(* The depths of the input ports, by which simultaneous events are ordered *)
(* (domains/de/kernel/DEScheduler.cc): checkDelayFreeLoop visits the ports *)
(* recursively and finds the loops without a delay, using depth as a mark, *)
(* and computeDepth then replaces the marks by the depths.                 *)
(***************************************************************************)
EXTENDS DEGalaxy

CONSTANTS Galaxy    \* the galaxies to set up

VARIABLES
    galaxy,
    depth,          \* the depth of every port: of an input <<p, "in">>, of the
                    \*   output at the other end of the arc <<p, "out">>
    found,          \* what checkDelayFreeLoop returned
    warned,         \* errorUndefined has been called
    pc
vars == <<galaxy, depth, found, warned, pc>>

Port(gal) == Arcs(gal) \X {"in", "out"}

Init ==
    /\ galaxy \in Galaxy
    /\ depth = [x \in Port(galaxy) |-> -1]
    /\ found = FALSE /\ warned = FALSE /\ pc = "check"

----------------------------------------------------------------------------
Outputs(arcs) == [i \in DOMAIN arcs |-> <<arcs[i], "out">>]
StarOf(x) == IF x[2] = "in" THEN DestOf(galaxy, x[1])
             ELSE CHOOSE s \in Stars(galaxy) : x[1] \in ToSet(galaxy.out[s])

\* The ports that checkLoop goes on to from port x, in turn.
NextPorts_Bug(x) ==
    IF DelayType(galaxy, StarOf(x)) THEN <<>>
    ELSE IF x[2] = "in" THEN Outputs(AffectedBy(galaxy, x[1])) ELSE <<<<x[1], "in">>>>

NextPorts(x) ==
    IF DelayType(galaxy, StarOf(x)) THEN <<>>
    ELSE IF x[2] = "in" THEN Outputs(AffectedBy(galaxy, x[1]))
    ELSE IF x[1] \in galaxy.tokens THEN <<>>
    ELSE <<<<x[1], "in">>>>

\* checkLoop at port x, on the marks d: ok is FALSE, and the marks are left as
\* they are, once a port under consideration is met again.
RECURSIVE CheckLoop(_, _), CheckAll(_, _)

\* The ports in turn, until one returns FALSE.
CheckAll(ports, r) ==
    IF ports = <<>> \/ ~r.ok THEN r
    ELSE CheckAll(Tail(ports), CheckLoop(Head(ports), r.depth))

CheckLoop(x, d) ==
    LET r == CheckAll(NextPorts(x), [ok |-> TRUE, depth |-> [d EXCEPT ![x] = 1]])
    IN  CASE d[x] = 0 -> [ok |-> TRUE, depth |-> d]
          [] d[x] > 0 -> [ok |-> FALSE, depth |-> d]
          [] OTHER    -> IF r.ok THEN [r EXCEPT !.depth[x] = 0] ELSE r

PortsOf(s) == [i \in DOMAIN galaxy.in[s] |-> <<galaxy.in[s][i], "in">>] \o Outputs(galaxy.out[s])

\* All ports of all stars in turn.
AllPorts == FlattenSeq([s \in Stars(galaxy) |-> PortsOf(s)])

CheckDelayFreeLoop ==
    /\ pc = "check"
    /\ LET r == CheckAll(AllPorts, [ok |-> TRUE, depth |-> depth])
       IN  depth' = r.depth /\ found' = ~r.ok /\ pc' = IF r.ok THEN "compute" ELSE "error"
    /\ UNCHANGED <<galaxy, warned>>

----------------------------------------------------------------------------
\* setDepth at the input p, on r: the depths, the value returned by the last
\* call, and whether one has warned.
RECURSIVE SetDepth(_, _), FromBefore(_, _), MinOver(_, _)

\* The depth that p starts from: that of the input it is to be before.
FromBefore_Bug(p, r) == [r EXCEPT !.value = -1]

FromBefore(p, r) ==
    IF BeforeInput(galaxy, p) = {} THEN [r EXCEPT !.value = -1]
    ELSE SetDepth(CHOOSE b \in BeforeInput(galaxy, p) : TRUE, [r EXCEPT !.depth[<<p, "in">>] = 2])

\* The least of r.value and of the depths of the inputs in turn, less one.
MinOver_Bug(inputs, r) ==
    IF inputs = <<>> THEN r
    ELSE LET v == SetDepth(Head(inputs), r)
         IN  MinOver(Tail(inputs), [v EXCEPT !.value = Min({r.value, @})])

MinOver(inputs, r) ==
    IF inputs = <<>> THEN r
    ELSE LET v == SetDepth(Head(inputs), r)
         IN  MinOver(Tail(inputs), [v EXCEPT !.value = Min({r.value, @ - 1})])

SetDepth(p, r) ==
    LET d == r.depth[<<p, "in">>]
        undelayed == SelectSeq(AffectedBy(galaxy, p), LAMBDA arc : arc \notin galaxy.tokens)
        end == IF DelayType(galaxy, DestOf(galaxy, p)) THEN [r EXCEPT !.value = -1]
               ELSE MinOver(undelayed, FromBefore(p, r))
    IN  CASE d < 0 -> [r EXCEPT !.value = d]
          [] d = 2 -> [r EXCEPT !.value = -1, !.warned = TRUE]
          [] OTHER -> [end EXCEPT !.depth[<<p, "in">>] = end.value]

ComputeDepth ==
    /\ pc = "compute"
    /\ LET inputs == SelectSeq(AllPorts, LAMBDA x : x[2] = "in")
           r == FoldLeft(LAMBDA acc, x : SetDepth(x[1], acc),
                         [depth |-> depth, value |-> 0, warned |-> FALSE], inputs)
       IN  depth' = r.depth /\ warned' = r.warned
    /\ pc' = "done" /\ UNCHANGED <<galaxy, found>>

Next == CheckDelayFreeLoop \/ ComputeDepth
Spec == Init /\ [][Next]_vars

----------------------------------------------------------------------------
\* Types; a galaxy that is set up has no input without a depth ("has an undefined
\* depth" is never reported).
TypeOK ==
    /\ galaxy.tokens \subseteq Arcs(galaxy)
    /\ depth \in [Port(galaxy) -> -Cardinality(Port(galaxy))..2]
    /\ {found, warned} \subseteq BOOLEAN /\ pc \in {"check", "compute", "error", "done"}
    /\ pc = "done" => \A p \in Arcs(galaxy) : depth[<<p, "in">>] < 0

\* A galaxy is refused exactly when some events could cause each other without
\* any time passing: the marks find every delay-free loop, and no other.
DelayFreeLoopsAreFound ==
    pc # "check" => (found <=> HasCycle(Arcs(galaxy), [p \in Arcs(galaxy) |-> Reaches(galaxy, p)]))

\* The warning of an undefined order comes exactly when the wishes of the stars
\* (before) and the paths contradict each other.
UndefinedOrderIsReported ==
    pc = "done" => (warned <=> HasCycle(Arcs(galaxy),
                        [p \in Arcs(galaxy) |-> Reaches(galaxy, p) \cup BeforeInput(galaxy, p)]))

\* Otherwise every input has minus the longest path from it as its depth, so
\* that an event leaves the queue before all simultaneous events it causes,
\* and not after those of the input it is to be before.
DepthIsLongestPath ==
    /\ TypeOK
    /\ pc = "done" /\ ~warned =>
           \A p \in Arcs(galaxy) : depth[<<p, "in">>] = LongestPath(galaxy)[p]
=============================================================================
