----------------------------- MODULE DEGalaxy -----------------------------
(***************************************************************************)
(* The galaxies of the discrete-event domain, as far as their schedulers   *)
(* see them: for every star its kind, and the arcs at its ports, in port   *)
(* order.  An arc joins one output to one input, so that it also stands    *)
(* for the input port at its end (dp->far()).  The constructors of the     *)
(* stars say which outputs an input affects at once (triggers) and which   *)
(* input it is to be before.                                               *)
(***************************************************************************)
EXTENDS SequenceParts, SequencesExt, FiniteSets, FiniteSetsExt

\* A galaxy: kind, in and out are sequences over the stars, tokens is the set of
\* the arcs with a delay.
Stars(gal)    == DOMAIN gal.kind
Arcs(gal)     == UNION {ToSet(gal.in[s]) : s \in Stars(gal)}
DestOf(gal, p) == CHOOSE s \in Stars(gal) : p \in ToSet(gal.in[s])
IndexOf(gal, p) == CHOOSE i \in DOMAIN gal.in[DestOf(gal, p)] : gal.in[DestOf(gal, p)][i] = p
DelayType(gal, s) == gal.kind[s] \in {"Delay", "Server"}

\* The outputs, by index, in the triggerList of the i-th input; all of them when
\* it is complete.
Triggered(kind, i, outputs) ==
    CASE kind = "Sampler" /\ i = 1      -> {}
      [] kind = "Statistics" /\ i <= 2  -> {}
      [] kind = "UDCounter" /\ i <= 3   -> {}
      [] kind = "Arbitrate"             -> IF i = 3 THEN {2, 3} ELSE {1}
      [] kind = "FIFOQueue"             -> IF i = 1 THEN {1, 2} ELSE {2, 3}
      [] OTHER                          -> outputs

\* The input that the i-th one is to be before, 0 when there is none.
Before_Bug(kind, i) == 0

Before(kind, i) ==
    CASE kind = "Sampler" /\ i = 1    -> 2
      [] kind = "UDCounter" /\ i <= 3 -> 4
      [] kind = "Arbitrate" /\ i = 3  -> 1
      [] kind = "FIFOQueue" /\ i = 2  -> 1
      [] OTHER                        -> 0

\* The arcs at the outputs that input p affects, in port order.
AffectedBy(gal, p) ==
    LET s == DestOf(gal, p)
    IN  Kept(gal.out[s], Triggered(gal.kind[s], IndexOf(gal, p), DOMAIN gal.out[s]))

\* The inputs that p reaches without a delay.
Reaches(gal, p) ==
    IF DelayType(gal, DestOf(gal, p)) THEN {} ELSE ToSet(AffectedBy(gal, p)) \ gal.tokens

\* All inputs that an event at p can cause one at, in no time.
AllReached(gal) ==
    LET reached[p \in Arcs(gal)] == UNION {{f} \cup reached[f] : f \in Reaches(gal, p)}
    IN  reached

\* The input that p is to be before, as a set of at most one.
BeforeInput(gal, p) ==
    LET s == DestOf(gal, p)
        b == Before(gal.kind[s], IndexOf(gal, p))
    IN  IF b = 0 \/ DelayType(gal, s) THEN {} ELSE {gal.in[s][b]}

\* Some path along a relation given as successor sets leads back to its start.
HasCycle(nodes, successors) ==
    \E cycle \in SUBSET nodes \ {{}} : \A n \in cycle : successors[n] \cap cycle # {}

\* Minus the longest path from p to an input that reaches none, minus one; p
\* is no deeper than the input it is to be before.
LongestPath(gal) ==
    LET depth[p \in Arcs(gal)] ==
            Min({-1} \cup {depth[f] - 1 : f \in Reaches(gal, p)}
                     \cup {depth[b] : b \in BeforeInput(gal, p)})
    IN  depth
=============================================================================
