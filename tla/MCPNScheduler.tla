--------------------------- MODULE MCPNScheduler ---------------------------
(* Galaxies for PNScheduler, after the demos of the domain. *)
EXTENDS PNScheduler

CONSTANT Horizon

\* The streams of the galaxies, longer than a run gets.
Solve == INSTANCE KahnStreams WITH Channel <- Geodesic
Solution == Solve!Solution

\* A geodesic is named after its ends.

\* domains/pn/demo/ptcl/Kahn74fig2.pt; F is the Fork of node0.
Fig2Star == {"D1", "D2", "C", "Di", "F", "P"}
\* domains/pn/demo/ptcl/Kahn77fig4.pt without the factor 5 and its Merge: the
\* numbers 2^a 3^b; E is the Fork of node5.  6 = 2 * 3 = 3 * 2 is merged.
Fig4Star == {"D3", "M", "G2", "G3", "E", "Q"}

\* Kahn74fig2 with an initial particle on each arc back instead of the delay
\* stars, and without the Printer.  The Commutator sends two particles in an
\* iteration and F takes one.
LoopStar == {"C0", "Di0", "F0"}

DemoStar == Fig2Star \cup Fig4Star \cup LoopStar
DemoKind == [D1 |-> "DelayInt", D2 |-> "DelayInt", C |-> "Commutator", Di |-> "Distributor",
             F |-> "SDF", P |-> "SDF",
             D3 |-> "DelayInt", M |-> "Merge", G2 |-> "SDF", G3 |-> "SDF", E |-> "SDF", Q |-> "SDF",
             C0 |-> "Commutator", Di0 |-> "Distributor", F0 |-> "SDF"]
DemoIn   == [D1 |-> <<"DiD1">>, D2 |-> <<"DiD2">>, C |-> <<"D1C", "D2C">>, Di |-> <<"FDi">>,
             F |-> <<"CF">>, P |-> <<"FP">>,
             D3 |-> <<"MD">>, M |-> <<"G3M", "G2M">>, G2 |-> <<"EG2">>, G3 |-> <<"EG3">>,
             E |-> <<"DE">>, Q |-> <<"EQ">>,
             C0 |-> <<"DC1", "DC2">>, Di0 |-> <<"F0Di0">>, F0 |-> <<"C0F0">>]
DemoOut  == [D1 |-> <<"D1C">>, D2 |-> <<"D2C">>, C |-> <<"CF">>, Di |-> <<"DiD1", "DiD2">>,
             F |-> <<"FDi", "FP">>, P |-> <<>>,
             D3 |-> <<"DE">>, M |-> <<"MD">>, G2 |-> <<"G2M">>, G3 |-> <<"G3M">>,
             E |-> <<"EG3", "EG2", "EQ">>, Q |-> <<>>,
             C0 |-> <<"C0F0">>, Di0 |-> <<"DC1", "DC2">>, F0 |-> <<"F0Di0">>]
DemoDelays == [g \in Geodesic |-> CASE g = "DC1" -> <<1>> [] g = "DC2" -> <<2>> [] OTHER -> <<>>]
DemoInit == [s \in Star |-> IF s \in {"D2", "D3"} THEN 1 ELSE 0]
DemoGain == [s \in Star |-> CASE s = "G2" -> 2 [] s = "G3" -> 3 [] OTHER -> 1]

\* The powers of two: a loop of three stars and a Printer.
PowerStar == {"D1", "G2", "F", "P"}
PowerKind == [D1 |-> "DelayInt", G2 |-> "SDF", F |-> "SDF", P |-> "SDF"]
PowerIn   == [D1 |-> <<"GD">>, G2 |-> <<"FG">>, F |-> <<"DF">>, P |-> <<"FP">>]
PowerOut  == [D1 |-> <<"DF">>, G2 |-> <<"GD">>, F |-> <<"FG", "FP">>, P |-> <<>>]
PowerInit == [s \in Star |-> 1]
PowerGain == [s \in Star |-> IF s = "G2" THEN 2 ELSE 1]

AllGeodesics == UNION {{In[s][i] : i \in DOMAIN In[s]} : s \in Star}
NoDelays     == [g \in Geodesic |-> <<>>]
DelayCount   == [g \in Geodesic |-> Len(Delays[g])]
UnitGain     == [s \in Star |-> 1]

\* Ways to run: without halts; with halts at any moment; without priorities.
Mode(stars, strict, mayHalt, stops, maxCap) ==
    [stars |-> stars, arcs |-> UNION {Range(In[s]) : s \in stars}, strict |-> strict,
     mayHalt |-> mayHalt, stops |-> stops, maxCap |-> maxCap]
DemoModes  == {Mode(Fig2Star, TRUE, FALSE, 1..5, 4), Mode(Fig4Star, TRUE, FALSE, {8}, 4),
               Mode(LoopStar, TRUE, TRUE, {1, 3}, 4), Mode(LoopStar, FALSE, FALSE, {1}, 2)}
HaltMode   == {Mode(Star, TRUE, TRUE, {1, 2}, 4)}
=============================================================================
