--------------------------- MODULE EarliestFirst ---------------------------
(***************************************************************************)
(* What domains/de/kernel/CalendarQueue.h promises the DE schedulers: a    *)
(* collection of events from which get() takes the earliest one, where     *)
(* simultaneous events leave by their fine level, then by the star they    *)
(* are for, then in the order they were put in; pushBack returns an event  *)
(* that was taken to its place in this order.                              *)
(***************************************************************************)
EXTENDS Integers, FiniteSets

CONSTANTS Event     \* the records with fields level, fine, dest and num

VARIABLES
    contents,       \* the events in the queue
    taken           \* the events that get() returned and that are still in use
vars == <<contents, taken>>

Precedes(x, y) ==
    \/ x.level < y.level
    \/ x.level = y.level /\ x.fine < y.fine
    \/ x.level = y.level /\ x.fine = y.fine /\ x.dest < y.dest
    \/ x.level = y.level /\ x.fine = y.fine /\ x.dest = y.dest /\ x.num < y.num

Init == contents = {} /\ taken = {}

\* A new event is the last one put in.
Put(x) == /\ \A y \in contents \cup taken : y.num < x.num
          /\ contents' = contents \cup {x} /\ UNCHANGED taken

Get == \E x \in contents :
          /\ \A y \in contents \ {x} : Precedes(x, y)
          /\ contents' = contents \ {x} /\ taken' = taken \cup {x}

PushBack(x) == contents' = contents \cup {x} /\ taken' = taken \ {x}
Consume(x)  == taken' = taken \ {x} /\ UNCHANGED contents
Clear       == contents' = {} /\ UNCHANGED taken

Next == \/ \E x \in Event : Put(x)
        \/ Get \/ Clear
        \/ \E x \in taken : PushBack(x) \/ Consume(x)

Spec == Init /\ [][Next]_vars
=============================================================================
