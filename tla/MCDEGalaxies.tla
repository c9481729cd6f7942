---------------------------- MODULE MCDEGalaxies ----------------------------
(* Small discrete-event galaxies, and orders of their stars in memory. *)
EXTENDS Integers

Intervals == {1, 2}

\* countUp comes over Merge, later than demand and reset but at the same time.
CounterGalaxy(i, j, k) ==
    [kind  |-> <<"Clock", "Fork", "Merge", "Clock", "Clock", "UDCounter", "Delay", "Printer">>,
     param |-> <<i, 0, 0, j, k, 0, k, 0>>,
     out |-> << <<1, 2>>, <<3, 4, 5>>, <<6>>, <<7, 8>>, <<9, 10>>, <<11>>, <<12>>, <<>> >>,
     in  |-> << <<2>>, <<1>>, <<3, 7>>, <<8>>, <<10>>, <<6, 9, 12, 4>>, <<5>>, <<11>> >>,
     tokens |-> {2, 8, 10}]

\* The sampled values come over Ramp and Merge, the clock directly; the samples
\* go to a server that may be busy.
SamplerGalaxy(i, j) ==
    [kind  |-> <<"Sampler", "Clock", "Fork", "Ramp", "Merge", "Clock", "Printer", "Server">>,
     param |-> <<0, i, 0, 0, 0, j, 0, j>>,
     out |-> << <<1>>, <<2, 3>>, <<4, 5>>, <<6>>, <<7>>, <<8, 9>>, <<>>, <<10>> >>,
     in  |-> << <<7, 5>>, <<3>>, <<2>>, <<4>>, <<6, 8>>, <<9>>, <<10>>, <<1>> >>,
     tokens |-> {3, 9}]

\* Two simultaneous samples of two simultaneous inputs.
DoubleGalaxy(i) ==
    [kind  |-> <<"Clock", "Fork", "Ramp", "Merge", "Merge", "Sampler", "Printer">>,
     param |-> <<i, 0, 0, 0, 0, 0, 0>>,
     out |-> << <<1, 2>>, <<3, 4, 5, 6>>, <<7>>, <<8>>, <<9>>, <<10>>, <<>> >>,
     in  |-> << <<2>>, <<1>>, <<3>>, <<7, 4>>, <<5, 6>>, <<8, 9>>, <<10>> >>,
     tokens |-> {2}]

\* Two simultaneous jobs per interval, a server that demands the next job.
QueueGalaxy(i, service, capacity, consolidate) ==
    [kind  |-> <<"Clock", "Fork", "Ramp", "Merge", "FIFOQueue", "Server", "Fork", "Printer">>,
     param |-> <<i, 0, 0, 0, [capacity |-> capacity, consolidate |-> consolidate], service, 0, 0>>,
     out |-> << <<1, 2>>, <<3, 4>>, <<6>>, <<5>>, <<7, 8, 9>>, <<10>>, <<11, 12>>, <<>> >>,
     in  |-> << <<2>>, <<1>>, <<5>>, <<3, 4>>, <<11, 6>>, <<7>>, <<10>>, <<8, 9, 12>> >>,
     tokens |-> {2}]

Counters == {CounterGalaxy(i, j, k) : i, j, k \in Intervals}
Samplers == {SamplerGalaxy(i, j) : i, j \in Intervals} \cup {DoubleGalaxy(i) : i \in Intervals}
Queues == {QueueGalaxy(i, j, c, b) : i, j \in Intervals, c \in {-1, 0, 1}, b \in BOOLEAN}

\* Two simultaneous events at the first port of the second Merge.
MergeGalaxy ==
    [kind  |-> <<"Clock", "Fork", "Merge", "Ramp", "Merge", "Printer">>,
     param |-> <<1, 0, 0, 0, 0, 0>>,
     out |-> << <<1, 2>>, <<3, 4, 5>>, <<6>>, <<7>>, <<8>>, <<>> >>,
     in  |-> << <<2>>, <<1>>, <<3, 4>>, <<6>>, <<7, 5>>, <<8>> >>,
     tokens |-> {2}]

\* The inputs and the demands of the Statistics come at the same times, and
\* another star has an event between them in the calendar queue.
StatisticsGalaxy ==
    [kind  |-> <<"Clock", "Fork", "Statistics", "Clock", "Printer", "Ramp", "Printer">>,
     param |-> <<1, 0, 0, 3, 0, 0, 0>>,
     out |-> << <<1, 2>>, <<3, 4, 5>>, <<6, 7>>, <<8, 9>>, <<>>, <<10>>, <<>> >>,
     in  |-> << <<2>>, <<1>>, <<3, 8, 4>>, <<9>>, <<6, 7>>, <<5>>, <<10>> >>,
     tokens |-> {2, 9}]

\* The stars in memory in their order, rotated and turned round.
Rotate(s, n, r) == 1 + ((s + r) % n)
Orders(n) == {[s \in 1..n |-> Rotate(s, n, r)] : r \in {1, 3, 6}}
                    \cup {[s \in 1..n |-> n - Rotate(s, n, r)] : r \in {1, 3, 6}}
AnyOrder == CHOOSE a \in Orders(8) : TRUE
=============================================================================
