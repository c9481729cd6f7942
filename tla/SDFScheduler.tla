---------------------------- MODULE SDFScheduler ----------------------------
(***************************************************************************)
(* domains/sdf/kernel/SDFScheduler.cc with the scheduling functions of     *)
(* kernel/DataFlowStar.cc: the repetitions of the stars from the rates of  *)
(* their ports, the schedule by passes over the galaxy with deferred       *)
(* firing, and the iterations of the run and cont commands, which a halt   *)
(* may stop anywhere.                                                      *)
(***************************************************************************)
EXTENDS SDFGraph

CONSTANTS
    Graphs,     \* the galaxies: members of SDFGraph, with the field mayHalt
    Stops,      \* bound: the arguments of run and cont
    NoStar

\* Arcs join stars of the galaxy, and the rates are positive.
ASSUME GraphsAssumption ==
    \A g \in Graphs :
        /\ g.stars \in Seq(Stars(g)) /\ NoStar \notin Stars(g)
        /\ g.arcs \in Seq([src : Stars(g), dst : Stars(g), prod : Nat \ {0},
                            cons : Nat \ {0}, delay : Nat])

VARIABLES
    graph,
    pc,         \* the function that is at work
    reps,       \* reps[s]: DataFlowStar::repetitions, a Fraction
    lcmOfDenoms, subgraph,
    stack,      \* the calls of reptConnectedSubgraph: a star, and the port to come
    at,         \* where the iterator over the stars, or over the schedule, is
    noTimes,    \* noTimes[s]: the firings scheduled
    tokens,     \* tokens[a]: the count of the geodesic while scheduling
    passValue, deferredStar, numAddedThisPass,
    schedule,   \* mySchedule
    invalid,
    data,       \* data[a]: the particles on the geodesic while running
    numIters, numItersSoFar,
    halt, error

rateVars  == <<reps, lcmOfDenoms, subgraph, stack>>
passVars  == <<noTimes, tokens, passValue, deferredStar, numAddedThisPass, schedule>>
runVars   == <<data, numIters, numItersSoFar>>
flagVars  == <<halt, error>>
vars == <<graph, pc, rateVars, at, passVars, invalid, runVars, flagVars>>

Star == Stars(graph)
Arc  == Arcs(graph)

-----------------------------------------------------------------------------
(* Fractions *)

Gcd(a, b) == CHOOSE d \in 1..a : /\ a % d = 0 /\ b % d = 0
                                 /\ \A e \in (d + 1)..a : a % e # 0 \/ b % e # 0
\* An operator whose name holds _Bug is not part of the specification: it is a
\* wrong version of the definition after it, used to show that a property
\* would notice.
Lcm_Bug(a, b) == IF a > b THEN a ELSE b
Lcm(a, b) == a * (b \div Gcd(a, b))
Simplified(n, d) == [num |-> n \div Gcd(n, d), den |-> d \div Gcd(n, d)]

Unset == [num |-> 0, den |-> 1]
One   == [num |-> 1, den |-> 1]

\* An arc has two ends: the port that it leaves and the port that it enters.
\* They are numbered in the order in which the ports of a star are visited.
Port == 1..2 * Len(graph.arcs)
End(k) ==
    LET c == graph.arcs[(k + 1) \div 2]
    IN  IF k % 2 = 1
        THEN [near |-> c.src, rate |-> c.prod, far |-> c.dst, there |-> c.cons]
        ELSE [near |-> c.dst, rate |-> c.cons, far |-> c.src, there |-> c.prod]

-----------------------------------------------------------------------------
(* setup *)

Delays == [a \in Arc |-> graph.arcs[a].delay]

Init ==
    /\ graph \in Graphs
    /\ pc = "idle"
    /\ reps = [s \in Star |-> Unset]
    /\ lcmOfDenoms = 1
    /\ subgraph = {}
    /\ stack = <<>>
    /\ at = 1
    /\ noTimes = [s \in Star |-> 0]
    /\ tokens = Delays
    /\ passValue = 2
    /\ deferredStar = NoStar
    /\ numAddedThisPass = 0
    /\ schedule = <<>>
    /\ invalid = TRUE
    /\ data = Delays
    /\ numIters = 0
    /\ numItersSoFar = 0
    /\ halt = FALSE
    /\ error = FALSE

\* The run command: a new scheduler, clearHalt, and the galaxy is initialized;
\* a star may ask for a halt meanwhile, which makes the schedule invalid.
Run(n) ==
    /\ pc = "idle"
    /\ reps' = [s \in Star |-> Unset]
    /\ noTimes' = [s \in Star |-> 0]
    /\ tokens' = Delays /\ data' = Delays
    /\ numIters' = n /\ numItersSoFar' = 0
    /\ at' = 1
    /\ schedule' = <<>>
    /\ error' = FALSE
    /\ \/ pc' = "repetitions" /\ halt' = FALSE /\ invalid' = FALSE
       \/ graph.mayHalt /\ pc' = "idle" /\ halt' = TRUE /\ invalid' = TRUE
    /\ UNCHANGED <<graph, lcmOfDenoms, subgraph, stack, passValue, deferredStar,
                   numAddedThisPass>>

\* Error::abortRun in the set-up, after which the command returns.
AbortSetup ==
    /\ invalid' = TRUE
    /\ halt' = TRUE /\ error' = TRUE
    /\ pc' = "idle"

-----------------------------------------------------------------------------
(* repetitions *)

\* The next star without repetitions starts a connected subgraph.
StartSubgraph ==
    LET s == graph.stars[at] IN
    /\ pc = "repetitions" /\ stack = <<>> /\ subgraph = {}
    /\ at <= Len(graph.stars)
    /\ IF reps[s].num = 0
       THEN /\ reps' = [reps EXCEPT ![s] = One]
            /\ lcmOfDenoms' = 1
            /\ subgraph' = {s}
            /\ stack' = <<[star |-> s, port |-> 1]>>
            /\ UNCHANGED at
       ELSE at' = at + 1 /\ UNCHANGED rateVars
    /\ UNCHANGED <<graph, pc, passVars, invalid, runVars, flagVars>>

\* reptArc: what the far star should be, from this port.
FarShouldBe(k) ==
    LET e == End(k) IN Simplified(reps[e.near].num * e.rate, reps[e.near].den * e.there)

\* The ports that the call on top still has to visit.
ToVisit == {k \in Port : k >= stack[1].port /\ End(k).near = stack[1].star}

\* reptConnectedSubgraph goes through the ports: it sets the far star, and goes
\* on there first, or checks it.  An inconsistency does not end the search.
ReptArc ==
    /\ pc = "repetitions" /\ stack # <<>>
    /\ \E k \in ToVisit :
           LET far   == End(k).far
               fresh == reps[far].num = 0
               rest  == <<[star |-> stack[1].star, port |-> k + 1]>> \o Tail(stack)
           IN
           /\ k = Min(ToVisit)
           /\ reps' = IF fresh THEN [reps EXCEPT ![far] = FarShouldBe(k)] ELSE reps
           /\ lcmOfDenoms' = IF fresh THEN Lcm(lcmOfDenoms, FarShouldBe(k).den) ELSE lcmOfDenoms
           /\ stack' = IF fresh THEN <<[star |-> far, port |-> 1]>> \o rest ELSE rest
           /\ IF fresh \/ reps[far] = FarShouldBe(k)
              THEN UNCHANGED <<invalid, flagVars>>
              ELSE invalid' = TRUE /\ halt' = TRUE /\ error' = TRUE
    /\ UNCHANGED <<graph, pc, at, subgraph, passVars, runVars>>

\* The far star is put on the list when its call returns.
ReturnSubgraph ==
    /\ pc = "repetitions" /\ stack # <<>> /\ ToVisit = {}
    /\ subgraph' = subgraph \cup {stack[1].star}
    /\ stack' = Tail(stack)
    /\ UNCHANGED <<graph, pc, reps, lcmOfDenoms, at, passVars, invalid, runVars, flagVars>>

\* repetitions *= Fraction(lcmOfDenoms), or the end of an invalid set-up.
Normalize ==
    /\ pc = "repetitions" /\ stack = <<>> /\ subgraph # {}
    /\ subgraph' = {}
    /\ IF invalid
       THEN pc' = "idle" /\ UNCHANGED <<reps, at>>
       ELSE /\ reps' = [s \in Star |-> IF s \in subgraph
                                       THEN Simplified(reps[s].num * lcmOfDenoms, reps[s].den)
                                       ELSE reps[s]]
            /\ at' = at + 1
            /\ UNCHANGED pc
    /\ UNCHANGED <<graph, lcmOfDenoms, stack, passVars, invalid, runVars, flagVars>>

\* A pass of computeSchedule begins.
NewPass ==
    /\ passValue' = 2
    /\ deferredStar' = NoStar
    /\ numAddedThisPass' = 0
    /\ at' = 1

StartSchedule ==
    /\ pc = "repetitions" /\ stack = <<>> /\ subgraph = {}
    /\ at > Len(graph.stars)
    /\ pc' = "pass"
    /\ NewPass
    /\ UNCHANGED <<graph, rateVars, noTimes, tokens, schedule, invalid, runVars, flagVars>>

-----------------------------------------------------------------------------
(* computeSchedule *)

Needs(s) == {a \in Arc : graph.arcs[a].dst = s}
Feeds(s) == {a \in Arc : graph.arcs[a].src = s}

\* notRunnable: 2 when s has all its repetitions, 1 when a particle is missing.
NotRunnable_Bug1(s) ==
    IF reps[s].num < noTimes[s] THEN 2
    ELSE IF \E a \in Needs(s) : tokens[a] < graph.arcs[a].cons THEN 1 ELSE 0
NotRunnable_Bug2(s) ==
    IF reps[s].num <= noTimes[s] THEN 2
    ELSE IF \E a \in Needs(s) : tokens[a] <= graph.arcs[a].cons THEN 1 ELSE 0
NotRunnable(s) ==
    IF reps[s].num <= noTimes[s] THEN 2
    ELSE IF \E a \in Needs(s) : tokens[a] < graph.arcs[a].cons THEN 1 ELSE 0

\* deferrable: a star that s feeds is runnable, or has enough on that arc.
Deferrable(s) ==
    \E a \in Feeds(s) : \/ NotRunnable(graph.arcs[a].dst) = 0
                        \/ tokens[a] >= graph.arcs[a].cons

\* simRunStar: 3 when the star could be run and is put off.
Status(s, defer) ==
    IF NotRunnable(s) # 0 THEN NotRunnable(s) ELSE IF defer /\ Deferrable(s) THEN 3 ELSE 0

Moved(c, s) == [a \in Arc |-> c[a] + (IF a \in Feeds(s) THEN graph.arcs[a].prod ELSE 0)
                                   - (IF a \in Needs(s) THEN graph.arcs[a].cons ELSE 0)]

\* addIfWeCan of a star that can be run: it is simulated and put on the schedule.
Add(s) ==
    /\ tokens' = Moved(tokens, s)
    /\ noTimes' = [noTimes EXCEPT ![s] = @ + 1]
    /\ schedule' = Append(schedule, s)
    /\ passValue' = 0

\* One star of a pass, as often as it can be added, and then the next one.  The
\* first star that is put off counts as one that cannot run.
TryStar ==
    LET s  == graph.stars[at]
        st == Status(s, TRUE)
    IN
    /\ pc = "pass" /\ at <= Len(graph.stars)
    /\ IF st = 0
       THEN /\ Add(s)
            /\ numAddedThisPass' = numAddedThisPass + 1
            /\ UNCHANGED <<at, deferredStar>>
       ELSE /\ deferredStar' = IF st = 3 /\ deferredStar = NoStar THEN s ELSE deferredStar
            /\ passValue' = IF st = 1 /\ passValue # 0 /\ deferredStar = NoStar
                            THEN 1 ELSE passValue
            /\ at' = at + 1
            /\ UNCHANGED <<tokens, noTimes, schedule, numAddedThisPass>>
    /\ UNCHANGED <<graph, pc, rateVars, invalid, runVars, flagVars>>

\* The end of a pass: the star that was put off is tried again, and put off again
\* only if others were added.
DeferAgain == numAddedThisPass # 0

TryDeferred ==
    /\ pc = "pass" /\ at > Len(graph.stars)
    /\ pc' = "passed"
    /\ IF deferredStar # NoStar /\ Status(deferredStar, DeferAgain) = 0
       THEN Add(deferredStar)
       ELSE UNCHANGED <<tokens, noTimes, schedule, passValue>>
    /\ UNCHANGED <<graph, rateVars, at, deferredStar, numAddedThisPass, invalid, runVars, flagVars>>

EndPass ==
    /\ pc = "passed"
    /\ \/ /\ passValue = 0
          /\ pc' = "pass"
          /\ NewPass
          /\ UNCHANGED <<invalid, flagVars>>
       \/ /\ passValue = 1
          /\ AbortSetup
          /\ UNCHANGED <<at, passValue, deferredStar, numAddedThisPass>>
       \/ /\ passValue = 2
          /\ pc' = "enter"
          /\ UNCHANGED <<at, passValue, deferredStar, numAddedThisPass, invalid, flagVars>>
    /\ UNCHANGED <<graph, rateVars, noTimes, tokens, schedule, runVars>>

-----------------------------------------------------------------------------
(* run *)

\* A schedule that a halt has stopped in the middle stays invalid.
ContinueRun_Bug == halt' = FALSE /\ invalid' = FALSE
ContinueRun     == halt' = FALSE /\ UNCHANGED invalid

\* The cont command: not after an error; clearHalt.
Cont(n) ==
    /\ pc = "idle" /\ ~error
    /\ numIters' = numIters + n
    /\ ContinueRun
    /\ pc' = "enter"
    /\ UNCHANGED <<graph, rateVars, at, passVars, data, numItersSoFar, error>>

Enter ==
    /\ pc = "enter"
    /\ IF invalid \/ halt
       THEN AbortSetup
       ELSE pc' = "loop" /\ UNCHANGED <<invalid, flagVars>>
    /\ UNCHANGED <<graph, rateVars, at, passVars, runVars>>

\* while (numItersSoFar < numIters && !haltRequested()) runOnce()
Loop ==
    /\ pc = "loop"
    /\ IF numItersSoFar < numIters /\ ~halt
       THEN pc' = "once" /\ at' = 1
       ELSE pc' = "idle" /\ UNCHANGED at
    /\ UNCHANGED <<graph, rateVars, passVars, invalid, runVars, flagVars>>

\* star->run(): the particles are taken and sent even when the halt keeps the
\* star from its go; it returns FALSE on a halt.
FireStar ==
    /\ pc = "once" /\ ~invalid
    /\ at <= Len(schedule)
    /\ data' = Moved(data, schedule[at])
    /\ invalid' = halt
    /\ at' = at + 1
    /\ UNCHANGED <<graph, pc, rateVars, passVars, numIters, numItersSoFar, flagVars>>

IterationDone_Bug == UNCHANGED numItersSoFar
IterationDone     == numItersSoFar' = numItersSoFar + 1

EndIteration ==
    /\ pc = "once"
    /\ invalid \/ at > Len(schedule)
    /\ IterationDone
    /\ pc' = "loop"
    /\ UNCHANGED <<graph, rateVars, at, passVars, invalid, data, numIters, flagVars>>

\* requestHalt, or (e) declareErrorHalt, by anyone during a run.
RequestHalt(e) ==
    /\ graph.mayHalt /\ ~halt
    /\ pc \in {"enter", "loop", "once"}
    /\ halt' = TRUE
    /\ error' = (error \/ e)
    /\ UNCHANGED <<graph, pc, rateVars, at, passVars, invalid, runVars>>

MaxStop == Max(Stops)

SetupStep ==
    \/ StartSubgraph \/ ReptArc \/ ReturnSubgraph \/ Normalize \/ StartSchedule
    \/ TryStar \/ TryDeferred \/ EndPass

RunStep == Enter \/ Loop \/ FireStar \/ EndIteration

Next ==
    \/ SetupStep
    \/ RunStep
    \/ \E n \in Stops : Run(n) \/ (numIters + n <= MaxStop /\ Cont(n))
    \/ \E e \in BOOLEAN : RequestHalt(e)

Spec     == Init /\ [][Next]_vars
FairSpec == Spec /\ WF_vars(SetupStep \/ RunStep)

-----------------------------------------------------------------------------
(* Properties *)

TypeOK ==
    /\ graph \in Graphs
    /\ pc \in {"idle", "repetitions", "pass", "passed", "enter", "loop", "once"}
    /\ reps \in [Star -> [num : Nat, den : Nat \ {0}]]
    /\ lcmOfDenoms \in Nat \ {0}
    /\ subgraph \subseteq Star
    /\ \A i \in DOMAIN stack : stack[i].star \in Star /\ stack[i].port \in Nat
    /\ noTimes \in [Star -> Nat]
    /\ tokens \in [Arc -> Int] /\ data \in [Arc -> Int]
    /\ passValue \in 0..2
    /\ deferredStar \in Star \cup {NoStar}
    /\ schedule \in Seq(Star)
    /\ {invalid, halt, error} \subseteq BOOLEAN

\* No repetition exceeds the product of the rates of the other stars' arcs.
Bound == 9
Counts == [s \in Star |-> reps[s].num]

\* The repetitions that the search from port to port finds are the least ones
\* that balance every arc, in each connected part of the galaxy, and a sample
\* rate inconsistency is found when nothing balances the arcs.
RepetitionsAreLeast ==
    /\ TypeOK
    /\ (pc = "pass" /\ schedule = <<>> /\ at = 1) =>
           /\ \A s \in Star : reps[s].den = 1
           /\ Iteration(graph, Counts, Bound)
    /\ (pc = "repetitions" /\ invalid) => ~Consistent(graph, Bound)

\* A schedule that is found fires every star as often as its repetitions, never
\* without its particles.
ScheduleIsComplete ==
    (pc = "enter" /\ ~invalid) =>
        /\ Firings(graph, schedule) = Counts
        /\ Admissible(graph, schedule)

\* The set-up reports a deadlock only when no order of the firings would do:
\* neither the passes nor the stars that were put off have used up a way out.
DeadlockIsReal == (pc = "passed" /\ passValue = 1) => ~Schedulable(graph, Counts)

\* No star that the run fires reads from an empty geodesic, and between the
\* iterations every arc has its delays again, whenever the run was halted and
\* continued.
NoStarStarves ==
    /\ (pc = "once" /\ ~invalid /\ at <= Len(schedule)) =>
           \A a \in Needs(schedule[at]) : data[a] >= graph.arcs[a].cons
    /\ (pc = "loop" /\ ~halt) => data = Delays

\* Every command returns: the passes come to an end although stars are put off.
CommandsReturn == (pc # "idle") ~> (pc = "idle")
=============================================================================
