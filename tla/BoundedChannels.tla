-------------------------- MODULE BoundedChannels --------------------------
(***************************************************************************)
(* What the geodesics promise the process-network scheduler, without       *)
(* locks: each geodesic is a first-in first-out queue of bounded capacity, *)
(* a put happens only where there is room, and a writer that found none is *)
(* counted in numFull until it has found some.  PNGeodesic implements this *)
(* module; PNScheduler is built on it.                                     *)
(***************************************************************************)
EXTENDS Naturals, Sequences, FiniteSets

CONSTANTS Geodesic, NumInit

VARIABLES
    queue,      \* queue[g]: the particles on g, oldest first
    cap,        \* cap[g]: the capacity
    sent,       \* sent[g]: particles that entered g since the last reset
    full,       \* the geodesics whose writer is blocked
    numFull     \* the number of them

channelVars == <<queue, cap, sent, full, numFull>>

Room(g)  == Len(queue[g]) < cap[g]
Empty(g) == queue[g] = <<>>

Initially == [g \in Geodesic |-> [i \in 1..NumInit[g] |-> i]]

ChannelInit ==
    /\ queue = Initially
    /\ cap = [g \in Geodesic |-> 1]
    /\ sent = NumInit
    /\ full = {}
    /\ numFull = 0

\* An operator whose name holds _Bug is not part of the specification: it is a
\* wrong version of the definition after it, used to show that a property
\* would notice.
WithTail_Bug(g) == <<sent[g] + 1>> \o queue[g]
WithTail(g)     == Append(queue[g], sent[g] + 1)

Put(g) ==
    /\ g \notin full
    /\ Room(g)
    /\ queue' = [queue EXCEPT ![g] = WithTail(g)]
    /\ sent' = [sent EXCEPT ![g] = @ + 1]
    /\ UNCHANGED <<cap, full, numFull>>

Get(g) ==
    /\ ~Empty(g)
    /\ queue' = [queue EXCEPT ![g] = Tail(@)]
    /\ UNCHANGED <<cap, sent, full, numFull>>

\* The writer of g finds no room and is counted.
Block(g) ==
    /\ g \notin full
    /\ ~Room(g)
    /\ full' = full \cup {g}
    /\ numFull' = numFull + 1
    /\ UNCHANGED <<queue, cap, sent>>

\* The blocked writer of g finds room again.
Unblock(g) ==
    /\ g \in full
    /\ Room(g)
    /\ full' = full \ {g}
    /\ numFull' = numFull - 1
    /\ UNCHANGED <<queue, cap, sent>>

SetCapacity(g, c) ==
    /\ cap' = [cap EXCEPT ![g] = c]
    /\ UNCHANGED <<queue, sent, full, numFull>>

ResetFull_Bug == full' = {} /\ UNCHANGED numFull
ResetFull     == full' = {} /\ numFull' = 0

Reinitialize == sent' = NumInit /\ queue' = Initially

\* A new setup: initial particles, nobody blocked, capacities as they were.
Reset ==
    /\ Reinitialize
    /\ ResetFull
    /\ UNCHANGED cap

ChannelNext ==
    \/ \E g \in Geodesic : Put(g) \/ Get(g) \/ Block(g) \/ Unblock(g)
    \/ \E g \in Geodesic : cap'[g] > cap[g] /\ SetCapacity(g, cap'[g])
    \/ Reset

ChannelSpec == ChannelInit /\ [][ChannelNext]_channelVars

=============================================================================
