------------------------------ MODULE DEStars ------------------------------
(***************************************************************************)
(* The go() methods of some stars of the discrete-event domain             *)
(* (domains/de/stars/*.pl).  A star has a completionTime and a memory; at  *)
(* an input, new is dataNew, and vals are the simultaneous events there,   *)
(* as many as go() would read with getSimulEvent or from inQue; without    *)
(* a new event vals[1] is the last one.                                    *)
(***************************************************************************)
EXTENDS DEGalaxy

\* output.put(time) << val at the i-th output.
Put(i, time, val) == [out |-> i, time |-> time, val |-> val]

\* What a go() leaves: the star, what it puts, the inputs of which it read all
\* simultaneous events, the others whose dataNew it reset, and whether it found
\* a particle wherever it took one.
Result(star, puts, drained, cleared) ==
    [star |-> star, puts |-> puts, drained |-> drained, cleared |-> cleared, ok |-> TRUE]

New(port) == {i \in DOMAIN port : port[i].new}
Vals(port, i) == IF port[i].new THEN port[i].vals ELSE <<>>

\* setup() of the stars that have a memory.
Memory(kind) ==
    CASE kind = "FIFOQueue"  -> [queue |-> <<>>, pending |-> 1]
      [] kind = "Statistics" -> [start |-> -1, sum |-> 0, squares |-> 0, previous |-> 0]
      [] OTHER               -> 0

----------------------------------------------------------------------------
\* The feedback to itself is the second output.
ClockGo(interval, star, port, t) ==
    LET c == star.completionTime
    IN  Result([star EXCEPT !.completionTime = c + interval],
               <<Put(1, c, 1), Put(2, c, 0)>>, {}, {})

RampGo(star, port, t) ==
    Result([completionTime |-> t, memory |-> star.memory + 1],
           <<Put(1, t, star.memory)>>, {}, {})

ForkGo(outputs, star, port, t) ==
    Result([star EXCEPT !.completionTime = t],
           [i \in 1..outputs |-> Put(i, t, port[1].vals[1])], {}, {1})

\* One event of every input that has one, in port order.
MergeGo(star, port, t) ==
    LET new == Ascending(New(port), Len(port))
    IN  Result([star EXCEPT !.completionTime = t],
               [i \in DOMAIN new |-> Put(1, t, port[new[i]].vals[1])], {}, New(port))

SamplerGo(star, port, t) ==
    IF port[2].new
    THEN Result([star EXCEPT !.completionTime = t], <<Put(1, t, port[1].vals[1])>>, {}, {2})
    ELSE Result(star, <<>>, {}, {})

DelayGo_Bug(delay, star, port, t) ==
    Result([star EXCEPT !.completionTime = t],
           <<Put(1, star.completionTime + delay, port[1].vals[1])>>, {}, {1})

DelayGo(delay, star, port, t) ==
    Result([star EXCEPT !.completionTime = t + delay],
           <<Put(1, t + delay, port[1].vals[1])>>, {}, {1})

ServerGo(serviceTime, star, port, t) ==
    LET c == Max({t, star.completionTime}) + serviceTime
    IN  Result([star EXCEPT !.completionTime = c], <<Put(1, c, port[1].vals[1])>>, {}, {1})

\* countUp, countDown, reset, demand.
UDCounterGo_Bug(star, port, t) ==
    LET m == IF port[3].new THEN 0
             ELSE star.memory + Len(Vals(port, 1)) - Len(Vals(port, 2))
    IN  Result([completionTime |-> t, memory |-> m],
               IF port[4].new THEN <<Put(1, t, m)>> ELSE <<>>, New(port), {})

UDCounterGo(star, port, t) ==
    LET m == star.memory + Len(Vals(port, 1)) - Len(Vals(port, 2))
    IN  Result([completionTime |-> t, memory |-> IF port[3].new THEN 0 ELSE m],
               IF port[4].new THEN <<Put(1, t, m)>> ELSE <<>>, New(port), {})

----------------------------------------------------------------------------
\* FIFOQueue: the inputs demand, inData; the outputs outData, size, overflow.
\* enqueue() of one value, on the memory m and the puts.
Enqueue(capacity, q, val, t) ==
    LET m == q.memory
    IN  IF m.queue = <<>> /\ m.pending > 0
        THEN [memory |-> [m EXCEPT !.pending = @ - 1], puts |-> Append(q.puts, Put(1, t, val))]
        ELSE IF capacity < 0 \/ Len(m.queue) < capacity
        THEN [q EXCEPT !.memory.queue = Append(@, val)]
        ELSE [q EXCEPT !.puts = Append(@, Put(3, t, val))]

\* The demands answered from the queue.
Dequeue(m, t) ==
    LET n == Min({m.pending, Len(m.queue)})
    IN  [memory |-> [queue |-> SubSeq(m.queue, n + 1, Len(m.queue)), pending |-> m.pending - n],
         puts |-> [i \in 1..n |-> Put(1, t, m.queue[i])]]

FIFOQueueGo(param, star, port, t) ==
    LET demands == Len(Vals(port, 1))
        m == IF demands = 0 THEN star.memory
             ELSE [star.memory EXCEPT !.pending = IF param.consolidate THEN 1 ELSE @ + demands]
        data == Vals(port, 2)
        stored[k \in 0..Len(data)] == IF k = 0 THEN Dequeue(m, t)
                                      ELSE Enqueue(param.capacity, stored[k - 1], data[k], t)
        q == stored[Len(data)]
    IN  Result([completionTime |-> t, memory |-> q.memory],
               Append(q.puts, Put(2, t, Len(q.memory.queue))), New(port), {})

----------------------------------------------------------------------------
\* Statistics: the inputs input, reset, demand, gathered in inQue; the outputs
\* average and variance, here the sums to be divided by the time.
Accumulate(m, span) ==
    [m EXCEPT !.sum = @ + m.previous * span, !.squares = @ + m.previous * m.previous * span]

StatisticsGo(star, port, t) ==
    LET span == t - star.completionTime
        m0 == IF port[3].new THEN Accumulate(star.memory, span) ELSE star.memory
        m1 == IF port[2].new THEN [start |-> t, sum |-> 0, squares |-> 0, previous |-> 0] ELSE m0
        m2 == IF m1.start < 0 THEN [m1 EXCEPT !.start = t]
              ELSE IF port[3].new THEN m1 ELSE Accumulate(m1, span)
        input == port[1].vals
    IN  IF port[3].new /\ star.memory.start < 0 THEN Result(star, <<>>, {}, {3})
        ELSE IF port[1].new /\ input = <<>>
        THEN [Result(star, <<>>, {}, {}) EXCEPT !.ok = FALSE]
        ELSE Result([completionTime |-> t,
                     memory |-> IF port[1].new THEN [m2 EXCEPT !.previous = Last(input)] ELSE m1],
                    IF port[3].new /\ t # star.memory.start
                    THEN <<Put(1, t, m0.sum), Put(2, t, m0.squares)>> ELSE <<>>,
                    New(port) \cap {1}, New(port) \cap {2, 3})

----------------------------------------------------------------------------
Go(kind, param, outputs, star, port, t) ==
    CASE kind = "Clock"      -> ClockGo(param, star, port, t)
      [] kind = "Ramp"       -> RampGo(star, port, t)
      [] kind = "Fork"       -> ForkGo(outputs, star, port, t)
      [] kind = "Merge"      -> MergeGo(star, port, t)
      [] kind = "Sampler"    -> SamplerGo(star, port, t)
      [] kind = "Delay"      -> DelayGo(param, star, port, t)
      [] kind = "Server"     -> ServerGo(param, star, port, t)
      [] kind = "UDCounter"  -> UDCounterGo(star, port, t)
      [] kind = "FIFOQueue"  -> FIFOQueueGo(param, star, port, t)
      [] kind = "Statistics" -> StatisticsGo(star, port, t)
      [] kind = "Printer"    -> Result(star, <<>>, {}, New(port))

----------------------------------------------------------------------------
\* Which stars these are: their parameters, and the arcs at their ports.
IsStar(kind, param, in, out) ==
    \/ kind = "Clock" /\ param \in Nat /\ Len(out) = 2 /\ in = <<out[2]>>
    \/ kind = "Ramp" /\ Len(in) = 1 /\ Len(out) = 1
    \/ kind = "Fork" /\ Len(in) = 1
    \/ kind = "Merge" /\ Len(out) = 1
    \/ kind = "Sampler" /\ Len(in) = 2 /\ Len(out) = 1
    \/ kind \in {"Delay", "Server"} /\ param \in Nat \ {0} /\ Len(in) = 1 /\ Len(out) = 1
    \/ kind = "UDCounter" /\ Len(in) = 4 /\ Len(out) = 1
    \/ /\ kind = "FIFOQueue" /\ Len(in) = 2 /\ Len(out) = 3
       /\ param.capacity \in Int /\ param.consolidate \in BOOLEAN
    \/ kind = "Statistics" /\ Len(in) = 3 /\ Len(out) = 2
    \/ kind = "Printer" /\ Len(out) = 0

\* Every arc joins one output to one input.  The only delays are those of the
\* clocks' own arcs: with one put on another arc "the programmer is in charge"
\* (DEScheduler.cc:101).  And setup() accepts the galaxy.
IsGalaxy(gal) ==
    LET joins(ports) ==
            /\ DOMAIN ports = Stars(gal) /\ ports \in Seq(Seq(Arcs(gal)))
            /\ \A p \in Arcs(gal) : \E s \in Stars(gal) : p \in ToSet(ports[s])
            /\ \A s, u \in Stars(gal) : \A i \in DOMAIN ports[s], j \in DOMAIN ports[u] :
                  ports[s][i] = ports[u][j] => s = u /\ i = j
    IN  /\ gal.kind \in Seq(STRING) /\ Arcs(gal) \subseteq Nat \ {0}
        /\ joins(gal.in) /\ joins(gal.out)
        /\ \A s \in Stars(gal) : IsStar(gal.kind[s], gal.param[s], gal.in[s], gal.out[s])
        /\ gal.tokens = {gal.out[s][2] : s \in {u \in Stars(gal) : gal.kind[u] = "Clock"}}
        /\ ~HasCycle(Arcs(gal), [p \in Arcs(gal) |-> Reaches(gal, p) \cup BeforeInput(gal, p)])
=============================================================================
