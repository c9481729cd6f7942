------------------------------ MODULE DEResort ------------------------------
(***************************************************************************)
(* resortEvents of the discrete-event schedulers, which a higher-order     *)
(* star calls after it has changed the galaxy while it runs, and with it   *)
(* the depths of the ports: the events move to a second queue, with the    *)
(* new depths as fine levels, and back.  DEScheduler puts them back at the *)
(* head of its queues, CQScheduler inserts them by their rank.             *)
(***************************************************************************)
EXTENDS Integers, Sequences, SequencesExt, FiniteSets, FiniteSetsExt

CONSTANTS Arc, Level, MaxEvents,
    MaxPath         \* the longest paths from the inputs are 1 to MaxPath

Depth == {-n : n \in 1..MaxPath}

VARIABLES
    scheduler,      \* "DE" or "CQ"
    depth,          \* the new depths of the inputs, by their arcs
    events,         \* what was in the queue before
    eventQ, resortQ,
    pc              \* "out", "back" or "done"
vars == <<scheduler, depth, events, eventQ, resortQ, pc>>

Earlier(x, y) == x.level < y.level \/ (x.level = y.level /\ x.fine < y.fine)
Sorted(q) == \A i, j \in DOMAIN q : i < j => ~Earlier(q[j], q[i])

\* A queue in order; num tells the events apart.
Queues ==
    UNION {{q \in {[i \in 1..n |-> [level |-> l[i], fine |-> old[a[i]], arc |-> a[i], num |-> i]] :
                      l \in [1..n -> Level], a \in [1..n -> Arc], old \in [Arc -> Depth]} :
                Sorted(q)} : n \in 0..MaxEvents}

Init ==
    /\ scheduler \in {"DE", "CQ"} /\ depth \in [Arc -> Depth]
    /\ events \in Queues /\ eventQ = events /\ resortQ = <<>> /\ pc = "out"

Insert(q, e) == InsertAt(q, Min({Len(q) + 1} \cup {i \in DOMAIN q : Earlier(e, q[i])}), e)

\* Into a queue: pushBack, or InsertCqLevelLink.
Return(q, e) == IF scheduler = "DE" THEN <<e>> \o q ELSE Insert(q, e)

MoveOut ==
    /\ pc = "out" /\ eventQ # <<>>
    /\ resortQ' = Return(resortQ, [Head(eventQ) EXCEPT !.fine = depth[Head(eventQ).arc]])
    /\ eventQ' = Tail(eventQ) /\ UNCHANGED <<scheduler, depth, events, pc>>

AllOut == /\ pc = "out" /\ eventQ = <<>> /\ pc' = "back"
          /\ UNCHANGED <<scheduler, depth, events, eventQ, resortQ>>

MoveBack ==
    /\ pc = "back" /\ resortQ # <<>>
    /\ eventQ' = Return(eventQ, Head(resortQ)) /\ resortQ' = Tail(resortQ)
    /\ UNCHANGED <<scheduler, depth, events, pc>>

AllBack == /\ pc = "back" /\ resortQ = <<>> /\ pc' = "done"
           /\ UNCHANGED <<scheduler, depth, events, eventQ, resortQ>>

Next == MoveOut \/ AllOut \/ MoveBack \/ AllBack
Spec == Init /\ [][Next]_vars

----------------------------------------------------------------------------
\* The comment at resortEvents of both: the events are resorted according to the
\* new fine levels.
BothAreResorted == pc = "done" => Sorted(eventQ)
=============================================================================
