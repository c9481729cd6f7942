------------------------------ MODULE PNStars ------------------------------
(***************************************************************************)
(* What the stars of a process-network galaxy do to their ports: the begin *)
(* and go methods of the PN stars DelayInt, Commutator, Distributor and    *)
(* Merge, and the run methods that put a go between the synchronous ports. *)
(* An SDF star (GainInt, Fork, Printer) has only synchronous ports and     *)
(* computes gain * input on every output; its other work has no effect on  *)
(* the geodesics.                                                          *)
(*                                                                         *)
(* A star's method is a sequence of operations on the geodesics at its     *)
(* ports.  A geodesic has one reader, so reg[g] is the particle that the   *)
(* reader of g sees as input%0.                                            *)
(***************************************************************************)
EXTENDS Integers, Sequences, FiniteSetsExt

CONSTANTS
    Star,
    Kind,       \* Kind[s]: "DelayInt", "Commutator", "Distributor", "Merge", "SDF"
    In, Out,    \* In[s], Out[s]: the geodesics at the ports of s, in port order
    Gain,       \* Gain[s]: the gain of an SDF star, 1 for the others
    InitValue   \* InitValue[s]: the state init of a DelayInt

Source(g) == CHOOSE s \in Star : \E i \in DOMAIN Out[s] : Out[s][i] = g
Inputs(s)  == {In[s][i] : i \in DOMAIN In[s]}
Outputs(s) == {Out[s][i] : i \in DOMAIN Out[s]}

Receive(g)      == [op |-> "get", geo |-> g]
Send(g, inputs) == [op |-> "put", geo |-> g, from |-> inputs]
PreActions      == [op |-> "pre"]
PostActions     == [op |-> "post"]

\* The particle sent by s: computed from the inputs named.  A synchronous
\* output whose star did not fire holds a fresh particle from the Plasma, 0.
Sent(s, inputs, reg) ==
    IF inputs = {} THEN 0 ELSE Gain[s] * Min({reg[g] : g \in inputs})

Receives(s)      == [i \in DOMAIN In[s] |-> Receive(In[s][i])]
Sends(s, inputs) == [i \in DOMAIN Out[s] |-> Send(Out[s][i], inputs)]

Begin(s) == IF Kind[s] = "Merge" THEN Receives(s) ELSE <<>>

\* DataFlowStar::run: receive on all inputs, the pre-actions, go, the
\* post-actions, send on all outputs.  PNStar::run does so for the ports that
\* are not dynamic, and the four PN stars have none.  go itself is inserted by
\* the step that performs the pre-actions.
SynchronousRun(s) == Receives(s) \o <<PreActions, PostActions>> \o Sends(s, Inputs(s))
DynamicRun        == <<PreActions, PostActions>>
Firing(s)         == IF Kind[s] = "SDF" THEN SynchronousRun(s) ELSE DynamicRun

DelayGo(s) == <<Send(Out[s][1], Inputs(s)), Receive(In[s][1])>>

CommutatorGo(s) ==
    [k \in 1..2 * Len(In[s]) |->
        LET g == In[s][(k + 1) \div 2]
        IN  IF k % 2 = 1 THEN Receive(g) ELSE Send(Out[s][1], {g})]

DistributorGo(s) ==
    [k \in 1..2 * Len(Out[s]) |->
        IF k % 2 = 1 THEN Receive(In[s][1])
                     ELSE Send(Out[s][k \div 2], Inputs(s))]

\* An operator whose name holds _Bug is not part of the specification: it is a
\* wrong version of the definition after it, used to show that a property
\* would notice.
MergeGo_Bug(s, reg) ==
    <<Send(Out[s][1], Inputs(s)),
      Receive(In[s][IF reg[In[s][1]] <= reg[In[s][2]] THEN 1 ELSE 2])>>

\* The smaller input is sent, then read again; equal ones are both read again.
MergeGo(s, reg) ==
    LET a == In[s][1]
        b == In[s][2]
    IN  <<Send(Out[s][1], Inputs(s))>>
        \o (IF reg[a] <= reg[b] THEN <<Receive(a)>> ELSE <<>>)
        \o (IF reg[b] <= reg[a] THEN <<Receive(b)>> ELSE <<>>)

Go(s, reg) ==
    CASE Kind[s] = "DelayInt"    -> DelayGo(s)
      [] Kind[s] = "Commutator"  -> CommutatorGo(s)
      [] Kind[s] = "Distributor" -> DistributorGo(s)
      [] Kind[s] = "Merge"       -> MergeGo(s, reg)
      [] Kind[s] = "SDF"         -> <<>>

\* The buffer at the input port on g before the first particle.  The input of
\* a DelayInt stands for its state init, which go sends before it receives;
\* any other buffer starts with a fresh particle.
FirstInput(g) ==
    IF \E s \in Star : Kind[s] = "DelayInt" /\ g \in Inputs(s)
    THEN InitValue[CHOOSE s \in Star : g \in Inputs(s)]
    ELSE 0
=============================================================================
