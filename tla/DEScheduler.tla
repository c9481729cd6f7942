---------------------------- MODULE DEScheduler ----------------------------
(***************************************************************************)
(* The run-time schedulers of the discrete-event domain: DEScheduler, over *)
(* the event queue whose order is that of SortedQueue, and CQScheduler,    *)
(* over the calendar queue whose order is that of EarliestFirst, with the  *)
(* ports (DEPortHole.cc) and the stars they fire (DEStar.cc).              *)
(***************************************************************************)
EXTENDS DEStars

CONSTANTS Cases     \* the executions: galaxy, scheduler, address, use

ASSUME CasesAssumption ==
    \A c \in Cases :
        /\ IsGalaxy(c.galaxy) /\ c.scheduler \in {"DE", "CQ"}
        /\ \A s \in Stars(c.galaxy) : s \in DOMAIN c.address /\ c.address[s] \in Int
        /\ \A s, u \in Stars(c.galaxy) : c.address[s] = c.address[u] => s = u
        /\ c.use.stops \subseteq Nat /\ {c.use.maxHalts, c.use.inverseTimeScale} \subseteq Nat

VARIABLES
    galaxy,         \* as in DEGalaxy, with the parameters of the stars, param
    scheduler,      \* "DE" or "CQ"
    use,            \* how the program is run, a record with the fields
                    \*   stops: the times that run and cont of the interpreter ask for
                    \*   halts: where a halt request may be met: "pre", in
                    \*     doPreActions before go(), or "post", in doPostActions
                    \*     after it
                    \*   maxHalts: bound
                    \*   inverseTimeScale: 1 / relTimeScale
    address,        \* the order of the stars in memory
    depth,          \* of the input at the end of every arc
    queue,          \* the events: time (level), depth (fine), arc and value, in
                    \*   the order in which they are to leave
    input,          \* dataNew, the particle, moreData and inQue of every input
    star,           \* completionTime and memory of every star
    currentTime, stopTime,
    halts,          \* the number of halt requests so far
    pc,             \* "setup", "ready", "running", "dead" or "error"
    sent,           \* all events ever sent along every arc, with their times
    fired           \* the last firing: the star, the time, the inputs with a
                    \*   new event
vars == <<galaxy, scheduler, use, address, depth, queue, input, star, currentTime,
          stopTime, halts, pc, sent, fired>>
config == <<galaxy, scheduler, use, address, depth>>

Phase(s) == galaxy.kind[s] = "Statistics"   \* setMode(PHASE)
Dest(e) == DestOf(galaxy, e.arc)

\* The order of the queue of this scheduler: x is to leave before y.
Earlier(x, y) ==
    \/ x.level < y.level
    \/ x.level = y.level /\ x.fine < y.fine
    \/ /\ x.level = y.level /\ x.fine = y.fine
       /\ scheduler = "CQ" /\ address[Dest(x)] < address[Dest(y)]

\* pushHead, pushTail: behind the events that are not to leave later.
Push_Bug(q, e) ==
    InsertAt(q, Min({Len(q) + 1} \cup {i \in DOMAIN q : ~Earlier(q[i], e)}), e)

Push(q, e) == InsertAt(q, Min({Len(q) + 1} \cup {i \in DOMAIN q : Earlier(e, q[i])}), e)

EmptyPort == [new |-> FALSE, val |-> 0, more |-> 0, que |-> <<>>]

\* The galaxy is initialized and its depths are computed.
Setup(g, sched, addr, u) ==
    /\ galaxy = g /\ scheduler = sched /\ address = addr /\ use = u
    /\ depth = LongestPath(g)
    /\ queue = <<>> /\ input = [p \in Arcs(g) |-> EmptyPort]
    /\ star = [s \in Stars(g) |-> [completionTime |-> 0, memory |-> Memory(g.kind[s])]]
    /\ currentTime = 0 /\ stopTime = 0 /\ halts = 0 /\ pc = "setup"
    /\ sent = [p \in Arcs(g) |-> <<>>] /\ fired = [star |-> 0, time |-> 0, ports |-> {}]

----------------------------------------------------------------------------
Event_Flat(p, time, val) == [level |-> time, fine |-> -1, arc |-> p, val |-> val]

Event(p, time, val) == [level |-> time, fine |-> depth[p], arc |-> p, val |-> val]

\* A put sends the one before it at the same output; the last ones are sent by
\* sendOutput, which goes through the ports.
SendOrder(puts) ==
    LET before(i) == {j \in 1..i - 1 : puts[j].out = puts[i].out}
        outs == {puts[i].out : i \in DOMAIN puts}
        senders == Ascending({i \in DOMAIN puts : before(i) # {}}, Len(puts))
        ports == Ascending(outs, Max({0} \cup outs))
    IN  [k \in DOMAIN senders |-> Max(before(senders[k]))]
            \o [k \in DOMAIN ports |-> Max({j \in DOMAIN puts : puts[j].out = ports[k]})]

\* The events of the puts of star s, in the order they are sent.
Events(s, puts) ==
    LET order == SendOrder(puts)
    IN  [i \in DOMAIN order |->
            LET put == puts[order[i]] IN Event(galaxy.out[s][put.out], put.time, put.val)]

\* The events of arc p, in order, and as they are recorded in sent.
OnArc(q, p) == Kept(q, {i \in DOMAIN q : q[i].arc = p})
Recorded(q) == [i \in DOMAIN q |-> [time |-> q[i].level, val |-> q[i].val]]

Send(events, q) ==
    LET pushed[k \in 0..Len(events)] == IF k = 0 THEN q ELSE Push(pushed[k - 1], events[k])
    IN  /\ queue' = pushed[Len(events)]
        /\ sent' = [p \in DOMAIN sent |-> sent[p] \o Recorded(OnArc(events, p))]

\* DETarget::begin: the stars derived from RepeatStar put their first event.
Begin ==
    /\ pc = "setup" /\ pc' = "ready"
    /\ LET clocks == Ascending({s \in Stars(galaxy) : galaxy.kind[s] = "Clock"}, Len(galaxy.kind))
       IN  Send([i \in DOMAIN clocks |-> Event(galaxy.out[clocks[i]][2], 0, 0)], <<>>)
    /\ UNCHANGED <<config, input, star, currentTime, stopTime, halts, fired>>

\* run, and cont with the clear halt bit.
Run(stop) ==
    /\ pc = "ready" /\ stop >= stopTime
    /\ stopTime' = stop /\ pc' = "running"
    /\ UNCHANGED <<config, queue, input, star, currentTime, halts, sent, fired>>

\* The next event is later than the stop time.
StopBeforeDead ==
    /\ pc = "running" /\ queue # <<>> /\ Head(queue).level > stopTime
    /\ currentTime' = stopTime * use.inverseTimeScale /\ pc' = "ready"
    /\ UNCHANGED <<config, queue, input, star, stopTime, halts, sent, fired>>

EventInThePast ==
    /\ pc = "running" /\ queue # <<>> /\ Head(queue).level <= stopTime
    /\ Head(queue).level < currentTime
    /\ pc' = "error"
    /\ UNCHANGED <<config, queue, input, star, currentTime, stopTime, halts, sent, fired>>

NoMoreEvents ==
    /\ pc = "running" /\ queue = <<>> /\ pc' = "dead"
    /\ UNCHANGED <<config, queue, input, star, currentTime, stopTime, halts, sent, fired>>

----------------------------------------------------------------------------
\* startNewPhase: dataNew is left as it is.
StartNewPhase(ports, s) ==
    [p \in DOMAIN ports |-> IF p \in ToSet(galaxy.in[s])
                            THEN [ports[p] EXCEPT !.more = 0, !.que = <<>>] ELSE ports[p]]

\* getFromQueue: only the first event goes to the port, unless there is an inQue.
Accepts_Bug(s, port) == TRUE

Accepts(s, port) == Phase(s) \/ port.more = 0
GetFromQueue(s, port, val) ==
    IF Phase(s) THEN [port EXCEPT !.new = TRUE, !.que = Append(@, val)]
    ELSE IF port.more > 0 THEN [port EXCEPT !.new = TRUE, !.more = @ + 1]
    ELSE [port EXCEPT !.new = TRUE, !.more = 1, !.val = val]

\* The other events that run() offers to star s at time t: DEScheduler scans all
\* events of that time, CQScheduler stops at the first one for another star.
Simultaneous(q, s, t) ==
    IF scheduler = "DE" THEN {i \in DOMAIN q : Dest(q[i]) = s /\ \A j \in 1..i : q[j].level <= t}
    ELSE {i \in DOMAIN q : \A j \in 1..i : q[j].level <= t /\ Dest(q[j]) = s}

\* Offer them in turn; those refused stay in the queue.
Gather(q, s, t, ports) ==
    LET simultaneous == Simultaneous(q, s, t)
        offered[k \in 0..Len(q)] ==
            IF k = 0 THEN [ports |-> ports, left |-> DOMAIN q]
            ELSE LET acc == offered[k - 1]
                     e == q[k]
                 IN  IF k \notin simultaneous THEN acc
                     ELSE [ports |-> [acc.ports EXCEPT ![e.arc] = GetFromQueue(s, @, e.val)],
                           left |-> IF Accepts(s, acc.ports[e.arc]) THEN acc.left \ {k}
                                    ELSE acc.left]
    IN  offered[Len(q)]

\* What go() can read at input p: inQue, or the particle and the events that
\* getSimulEvent would fetch, moreData - 1 of them.
EventsAt(q, p, n) ==
    LET mine == Ascending({i \in DOMAIN q : q[i].arc = p}, Len(q))
    IN  SubSeq(mine, 1, Min({n, Len(mine)}))
Readable(q, s, p, port) ==
    [new |-> port.new,
     vals |-> IF Phase(s) THEN port.que
              ELSE <<port.val>> \o LET more == EventsAt(q, p, port.more - 1)
                                   IN  [i \in DOMAIN more |-> q[more[i]].val]]

\* The inputs of s after a go() that read what it could at those in drained.
Read(s, ports, readable, drained, cleared) ==
    [p \in DOMAIN ports |->
        IF p \in drained
        THEN [new |-> FALSE, que |-> <<>>, more |-> Min({1, ports[p].more}),
              val |-> IF Phase(s) THEN ports[p].val ELSE Last(readable[p].vals)]
        ELSE IF p \in cleared THEN [ports[p] EXCEPT !.new = FALSE] ELSE ports[p]]

\* The earliest event, and the simultaneous ones that go with it.
NextFiring ==
    LET e == Head(queue)
        s == Dest(e)
        fresh == [StartNewPhase(input, s) EXCEPT ![e.arc] = GetFromQueue(s, @, e.val)]
        g == Gather(Tail(queue), s, e.level, fresh)
    IN  [star |-> s, time |-> e.level, ports |-> g.ports, queue |-> Kept(Tail(queue), g.left)]

FiringDue == /\ pc = "running" /\ queue # <<>>
             /\ Head(queue).level <= stopTime /\ Head(queue).level >= currentTime

\* One round of run() with a firing.  A halt met after it stops run(), and cont
\* goes on; a halt is possible only where use says.
Fire ==
    /\ FiringDue
    /\ \E f \in {NextFiring} :
        LET s == f.star
            ins == galaxy.in[s]
            readable == [i \in DOMAIN ins |-> Readable(f.queue, s, ins[i], f.ports[ins[i]])]
            r == Go(galaxy.kind[s], galaxy.param[s], Len(galaxy.out[s]), star[s], readable, f.time)
            drained == {ins[i] : i \in r.drained}
            fetched == UNION {ToSet(EventsAt(f.queue, p, f.ports[p].more - 1)) : p \in drained}
        IN  /\ currentTime' = f.time
            /\ fired' = [star |-> s, time |-> f.time,
                         ports |-> {p \in ToSet(ins) : f.ports[p].new}]
            /\ star' = [star EXCEPT ![s] = r.star]
            /\ input' = Read(s, f.ports, [p \in ToSet(ins) |-> readable[IndexOf(galaxy, p)]],
                             drained, {ins[i] : i \in r.cleared})
            /\ Send(Events(s, r.puts), Kept(f.queue, DOMAIN f.queue \ fetched))
            /\ IF ~r.ok THEN pc' = "error" /\ UNCHANGED halts
               ELSE \/ UNCHANGED <<pc, halts>>
                    \/ "post" \in use.halts /\ halts < use.maxHalts
                       /\ pc' = "ready" /\ halts' = halts + 1
    /\ UNCHANGED <<config, stopTime>>

\* doPreActions meets the halt: run() returns, with the events taken.
HaltBeforeGo ==
    /\ FiringDue /\ "pre" \in use.halts /\ halts < use.maxHalts
    /\ \E f \in {NextFiring} : currentTime' = f.time /\ input' = f.ports /\ queue' = f.queue
    /\ pc' = "ready" /\ halts' = halts + 1
    /\ UNCHANGED <<config, star, stopTime, sent, fired>>

Next ==
    \/ Begin \/ \E stop \in use.stops : Run(stop)
    \/ StopBeforeDead \/ EventInThePast \/ NoMoreEvents
    \/ Fire \/ HaltBeforeGo

Init == \E c \in Cases : Setup(c.galaxy, c.scheduler, c.address, c.use)
Spec == Init /\ [][Next]_vars

----------------------------------------------------------------------------
StarsOf(kind) == {s \in Stars(galaxy) : galaxy.kind[s] = kind}

TypeOK ==
    /\ galaxy.tokens \subseteq Arcs(galaxy) /\ scheduler \in {"DE", "CQ"}
    /\ \A i \in DOMAIN queue : queue[i].arc \in Arcs(galaxy) /\ queue[i].fine < 0
    /\ \A p \in Arcs(galaxy) : input[p].new \in BOOLEAN /\ input[p].more \in Nat
    /\ {currentTime, stopTime} \subseteq Nat /\ halts \in 0..use.maxHalts
    /\ pc \in {"setup", "ready", "running", "dead", "error"}

\* Where the scheduler's time is that of its events, stopping at a stop time or on
\* a halt and going on never makes an event late ("event from this porthole is in
\* the past!"), and no star reads a particle that is not there; only a Statistics
\* star may.
NoError ==
    /\ TypeOK
    /\ use.inverseTimeScale = 1 /\ StarsOf("Statistics") = {} => pc # "error"

\* A star fires on the earliest event only after everything that could still
\* send a simultaneous event to the same input has fired.
CausesComeFirst ==
    \A p \in fired.ports, i \in DOMAIN queue :
        /\ queue[i].level = fired.time
        /\ \A q \in fired.ports : depth[p] <= depth[q]
        => p \notin AllReached(galaxy)[queue[i].arc]

----------------------------------------------------------------------------
\* No halt keeps a star from its go(), and the scheduler's time is that of its
\* events.
Undisturbed == "pre" \notin use.halts /\ use.inverseTimeScale = 1

\* The number of events sent along an arc after time u and up to time t.
Between(p, u, t) == Cardinality({i \in DOMAIN sent[p] : u < sent[p][i].time /\ sent[p][i].time <= t})

\* A count put at time t is exact: it counts every countUp and countDown up to
\* and including t since the last reset before t, however they are spread over
\* ports, paths and firings, and no more than that.
CountsAreExact ==
    Undisturbed => \A s \in StarsOf("UDCounter") :
        LET in == galaxy.in[s]
            counts == sent[galaxy.out[s][1]]
        IN  \A i \in DOMAIN counts :
                LET t == counts[i].time
                    resets == {j \in DOMAIN sent[in[3]] : sent[in[3]][j].time < t}
                    last == Max({-1} \cup {sent[in[3]][j].time : j \in resets})
                IN  counts[i].val = Between(in[1], last, t) - Between(in[2], last, t)

\* The first sample of a time t is the first input event of time t, the second the
\* second, until there are no more and the last one is sampled again; without any
\* it is the last event before t, or else the zero particle.
SamplesAreLatest ==
    Undisturbed => \A s \in StarsOf("Sampler") :
        LET data == sent[galaxy.in[s][1]]
            samples == sent[galaxy.out[s][1]]
        IN  \A i \in DOMAIN samples :
                LET t == samples[i].time
                    nth == Cardinality({j \in 1..i : samples[j].time = t})
                    now == {j \in DOMAIN data : data[j].time = t}
                    before == {j \in DOMAIN data : data[j].time < t}
                IN  samples[i].val = IF now # {} THEN data[Min({Min(now) + nth - 1, Max(now)})].val
                                     ELSE IF before # {} THEN data[Max(before)].val ELSE 0

\* The values sent to a FIFOQueue that it has taken can be told apart into those
\* accepted, which were put to outData or are in it still, and those put to
\* overflow, each of them once and in order.
QueuedDataIsAccountedFor ==
    Undisturbed => \A s \in StarsOf("FIFOQueue") :
        LET in == sent[galaxy.in[s][2]]
            out == sent[galaxy.out[s][1]]
            lost == sent[galaxy.out[s][3]]
            waiting == Cardinality({i \in DOMAIN queue : queue[i].arc = galaxy.in[s][2]})
            ValOf(h) == [i \in DOMAIN h |-> h[i].val]
            taken == ValOf(SubSeq(in, 1, Len(in) - waiting))
        IN  \E accepted \in SUBSET DOMAIN taken :
                /\ Kept(taken, accepted) = ValOf(out) \o star[s].memory.queue
                /\ Kept(taken, DOMAIN taken \ accepted) = ValOf(lost)

\* A halt met before a firing loses no more than the event that was to fire the
\* star; all others still reach it when the run is continued.
HaltsLoseOneEventEach ==
    \A s \in StarsOf("Ramp") :
        LET waiting == Cardinality({i \in DOMAIN queue : queue[i].arc = galaxy.in[s][1]})
            lost == Len(sent[galaxy.in[s][1]]) - waiting - Len(sent[galaxy.out[s][1]])
        IN  lost \in 0..halts

----------------------------------------------------------------------------
\* What a description says, and the code does not keep.
ValuesAt(p, t) == LET then == SelectSeq(sent[p], LAMBDA e : e.time = t)
                  IN  [i \in DOMAIN then |-> then[i].val]

\* The description of Statistics: a demand is answered, once there has been an
\* input since the last reset.
DemandsAreAnswered ==
    \A s \in StarsOf("Statistics"), t \in 1..(currentTime - 1) :
        LET Some(p, u) == ValuesAt(p, u) # <<>>
            in == galaxy.in[s]
            reset == Max({-1} \cup {u \in 0..(t - 1) : Some(in[2], u)})
        IN  Some(in[3], t) /\ (\E u \in 0..(t - 1) : u >= reset /\ Some(in[1], u))
            => Some(galaxy.out[s][1], t)
=============================================================================
