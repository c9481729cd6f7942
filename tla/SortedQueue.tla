---------------------------- MODULE SortedQueue ----------------------------
(***************************************************************************)
(* What kernel/PriorityQueue.h promises its users: a sequence of entries,  *)
(* each with a level and a fine level, into which levelput and leveltup    *)
(* insert by these two, put appends, get and teg take from the two ends,   *)
(* pushBack returns the entry just taken, and which can be scanned from    *)
(* the head while the entries met are extracted.                           *)
(***************************************************************************)
EXTENDS Integers, Sequences, SequencesExt, FiniteSetsExt

CONSTANTS Entry     \* the records with fields level, fine and payload

VARIABLES
    queue,          \* head first
    held,           \* the entry that get returned and that is still in use, in a
                    \*   sequence of at most one
    unvisited,      \* what a scan has still to visit
    visited         \* the entry the scan is at, in a sequence of at most one
vars == <<queue, held, unvisited, visited>>

\* x is not to leave before y.
NotBefore(x, y) == \/ x.level > y.level
                   \/ x.level = y.level /\ x.fine >= y.fine

Ordered == \A i, j \in DOMAIN queue : i < j => NotBefore(queue[j], queue[i])

Quiet == held = <<>> /\ unvisited = <<>> /\ visited = <<>>

Init == queue = <<>> /\ Quiet

\* Behind every entry that is not to leave after x.
LevelPut(x) ==
    /\ Quiet
    /\ queue' = InsertAt(queue, 1 + Max({0} \cup {i \in DOMAIN queue : NotBefore(x, queue[i])}), x)
    /\ UNCHANGED <<held, unvisited, visited>>

\* Before the first entry that is to leave after x.
LevelTup(x) ==
    /\ Quiet
    /\ queue' = InsertAt(queue, Min({Len(queue) + 1} \cup
                                    {i \in DOMAIN queue : ~NotBefore(x, queue[i])}), x)
    /\ UNCHANGED <<held, unvisited, visited>>

Put(x) == Quiet /\ queue' = Append(queue, x) /\ UNCHANGED <<held, unvisited, visited>>

Get == /\ Quiet /\ queue # <<>>
       /\ held' = <<Head(queue)>> /\ queue' = Tail(queue)
       /\ UNCHANGED <<unvisited, visited>>

PushBack == /\ held # <<>>
            /\ queue' = held \o queue /\ held' = <<>>
            /\ UNCHANGED <<unvisited, visited>>

Consume == held # <<>> /\ held' = <<>> /\ UNCHANGED <<queue, unvisited, visited>>

GetLast == /\ Quiet /\ queue # <<>>
           /\ queue' = Front(queue)
           /\ UNCHANGED <<held, unvisited, visited>>

StartScan == Quiet /\ unvisited' = queue /\ UNCHANGED <<queue, held, visited>>

Visit == /\ unvisited # <<>>
         /\ visited' = <<Head(unvisited)>> /\ unvisited' = Tail(unvisited)
         /\ UNCHANGED <<queue, held>>

Extract == /\ visited # <<>>
           /\ queue' = RemoveAt(queue, Len(queue) - Len(unvisited)) /\ visited' = <<>>
           /\ UNCHANGED <<held, unvisited>>

EndScan == unvisited' = <<>> /\ visited' = <<>> /\ UNCHANGED <<queue, held>>

Clear == Quiet /\ queue' = <<>> /\ UNCHANGED <<held, unvisited, visited>>

Next ==
    \/ Get \/ PushBack \/ Consume \/ GetLast
    \/ StartScan \/ Visit \/ Extract \/ EndScan \/ Clear
    \/ \E x \in ToSet(queue') : x \in Entry /\ (LevelPut(x) \/ LevelTup(x) \/ Put(x))

Spec == Init /\ [][Next]_vars
=============================================================================
