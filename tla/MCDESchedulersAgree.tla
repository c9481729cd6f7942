------------------------ MODULE MCDESchedulersAgree ------------------------
(* Executions of small discrete-event galaxies. *)
EXTENDS DESchedulersAgree, MCDEGalaxies

Use(stops, where, n, inverse) ==
    [stops |-> stops, halts |-> where, maxHalts |-> n, inverseTimeScale |-> inverse]

Executions(galaxies, use1) ==
    {[galaxy |-> g, scheduler |-> "DE", address |-> AnyOrder, use |-> use1] : g \in galaxies}
    \cup {[galaxy |-> g, scheduler |-> "CQ", address |-> a, use |-> use1] :
            g \in galaxies, a \in Orders(8)}

\* Stops and halts between firings; halts before a firing, with a time scale of
\* one half.
SmallCases == Executions(Counters \cup Samplers \cup Queues, Use({1, 3}, {"post"}, 1, 1))
                \cup Executions(Samplers \cup {MergeGalaxy}, Use({2, 3}, {"pre", "post"}, 1, 2))
=============================================================================
