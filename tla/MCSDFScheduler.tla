--------------------------- MODULE MCSDFScheduler ---------------------------
(* Galaxies for SDFScheduler: every choice of rates and delays on a few shapes. *)
EXTENDS SDFScheduler

To(s, p, c, t, d) == [src |-> s, prod |-> p, cons |-> c, dst |-> t, delay |-> d]

\* A feedback loop of two stars and its delays.
Loops == {[stars |-> <<"A", "B">>, mayHalt |-> FALSE,
           arcs |-> <<To("A", p1, c1, "B", d1), To("B", p2, c2, "A", d2)>>] :
          p1, c1, p2, c2 \in 1..3, d1 \in {0, 1, 3}, d2 \in {0, 2, 5}}

\* A star that feeds another directly and over a third one.
Bypasses == {[stars |-> q, mayHalt |-> FALSE,
              arcs |-> <<To("A", p1, c1, "B", 0), To("B", p2, c2, "C", d), To("A", p3, 1, "C", 0)>>] :
             q \in {<<"A", "B", "C">>, <<"C", "A", "B">>},
             p1, c1, p2, c2, p3 \in 1..3, d \in {0, 2}}

\* A chain in a loop, a star that feeds itself, and a part of its own, with halts.
Halted == {[stars |-> <<"B", "D", "A", "C">>, mayHalt |-> TRUE,
            arcs |-> <<To("A", 2, p, "B", 0), To("B", p, 1, "C", 0), To("C", 1, 2, "A", 2),
                       To("A", 1, 1, "A", d), To("D", 2, 2, "D", 3)>>] :
           p \in 1..3, d \in 0..1}

Galaxies == Loops \cup Bypasses \cup Halted
=============================================================================
