----------------------------- MODULE PNGeodesic -----------------------------
(***************************************************************************)
(* The geodesics of the process-network domain, at the level of their      *)
(* locks: domains/pn/kernel/PNGeodesic.cc over the monitor and condition   *)
(* classes of thread/posix.  A geodesic is the bounded channel between two *)
(* stars; every star runs in a thread of its own.  slowPut blocks on       *)
(* notFull while the geodesic is at its capacity, slowGet blocks on        *)
(* notEmpty while it is empty, and the static counter numFull, behind a    *)
(* gate of its own, says how many writers are inside the blocking part of  *)
(* slowPut.  The scheduler's thread raises capacities, cancels the threads *)
(* (PosixThread::terminate) and sets the galaxy up again.                  *)
(*                                                                         *)
(* A particle is the number of its put: the n-th particle that enters g    *)
(* since the last setup is n.                                              *)
(***************************************************************************)
EXTENDS Naturals, Sequences, FiniteSets

CONSTANTS
    Geodesic,   \* the channels of the galaxy
    Star,       \* the stars, each the thread that runs it
    NoThread,   \* holder of a gate that is free
    Src, Dst,   \* the star at the output port and at the input port of g
    NumInit,    \* initial particles (numInitialParticles) of each geodesic
    MaxPut,     \* bound: particles that enter a geodesic between two setups
    MaxCap      \* bound: the largest capacity the scheduler asks for

ASSUME StarAssumption == IsFiniteSet(Star) /\ NoThread \notin Star
ASSUME PortAssumption == Src \in [Geodesic -> Star] /\ Dst \in [Geodesic -> Star]
ASSUME NumInitAssumption == NumInit \in [Geodesic -> Nat]
ASSUME BoundAssumption == MaxPut \in Nat /\ MaxCap \in Nat

VARIABLES
    gate,       \* gate[g]: the thread inside g's monitor
    notEmpty,   \* notEmpty[g], notFull[g]: the threads asleep on the
    notFull,    \*   two conditions of that monitor
    pstack,     \* pstack[g]: the particles on g, oldest first
    sz,         \* sz[g]: the size the code keeps beside pstack
    cap,        \* cap[g]: the capacity
    fullGate,   \* the thread inside the gate of numFull
    numFull,    \* the static counter
    local,      \* local[s]: numFull as read by s inside fullGate
    pc,         \* pc[s]: where s is
    at,         \* at[s]: the geodesic s works on
    sent,       \* sent[g], rcvd[g]: particles that entered and left g
    rcvd,
    deleting    \* the scheduler is in deleteThreads

geoVars  == <<pstack, sz, cap, sent, rcvd>>
condVars == <<notEmpty, notFull>>
fullVars == <<fullGate, numFull, local>>
vars == <<gate, condVars, geoVars, fullVars, pc, at, deleting>>

(***************************************************************************)
(* Program points.  Between "incr" and "append", and in the two loops, the *)
(* thread is inside the monitor of at[s]; "incrStore" and "decrStore" are  *)
(* also inside fullGate.                                                   *)
(***************************************************************************)
InGate     == {"incr", "incrStore", "fullLoop", "decr", "decrStore", "append",
               "emptyLoop"}
InFullGate == {"incrStore", "decrStore"}
Waiting    == {"fullWait", "emptyWait"}
Cancelled  == {"cancelled", "cancelledFull"}
PutPoint   == {"put", "incr", "incrStore", "fullLoop", "fullWait", "decr",
               "decrStore", "append", "cancelledFull"}
GetPoint   == {"get", "emptyLoop", "emptyWait"}
Location   == PutPoint \cup GetPoint \cup {"idle", "cancelled"}

\* The writers that numFull counts.
Counted == {s \in Star : pc[s] \in {"fullLoop", "fullWait", "decr",
                                    "decrStore", "cancelledFull"}}

InitialParticles(n) == [i \in 1..n |-> i]

Init ==
    /\ gate = [g \in Geodesic |-> NoThread]
    /\ notEmpty = [g \in Geodesic |-> {}]
    /\ notFull = [g \in Geodesic |-> {}]
    /\ pstack = [g \in Geodesic |-> InitialParticles(NumInit[g])]
    /\ sz = NumInit
    /\ cap = [g \in Geodesic |-> 1]
    /\ fullGate = NoThread
    /\ numFull = 0
    /\ local = [s \in Star |-> 0]
    /\ pc = [s \in Star |-> "idle"]
    /\ at \in [Star -> Geodesic]
    /\ sent = NumInit
    /\ rcvd = [g \in Geodesic |-> 0]
    /\ deleting = FALSE

Goto(s, l) == pc' = [pc EXCEPT ![s] = l]

(***************************************************************************)
(* The calls on the monitor of at[s], on its conditions and on the gate of *)
(* numFull.  An operator whose name ends in _Bug is not part of the        *)
(* specification: it is a wrong version of the definition after it, used   *)
(* to show that a property would notice.                                   *)
(***************************************************************************)
Lock_Bug(s) == gate' = [gate EXCEPT ![at[s]] = s]
Lock(s)     == gate[at[s]] = NoThread /\ gate' = [gate EXCEPT ![at[s]] = s]
Unlock(s)   == gate' = [gate EXCEPT ![at[s]] = NoThread]

LockFull_Bug(s) == fullGate' = s
LockFull(s)     == fullGate = NoThread /\ fullGate' = s
UnlockFull      == fullGate' = NoThread

NotifyNotEmpty_Bug(g) == UNCHANGED notEmpty
NotifyNotEmpty(g)     == notEmpty' = [notEmpty EXCEPT ![g] = {}]

\* if (sz < cap && notFull) notFull->notifyAll(), with the new sz or cap.
NotifyNotFull_Bug(g, size, capacity) == UNCHANGED notFull
NotifyNotFull(g, size, capacity) ==
    notFull' = [notFull EXCEPT ![g] = IF size < capacity THEN {} ELSE @]

-----------------------------------------------------------------------------
(* slowPut *)

\* A star sends a particle on an output port.
CallPut(s, g) ==
    /\ pc[s] = "idle"
    /\ Src[g] = s
    /\ sent[g] < MaxPut
    /\ Goto(s, "put")
    /\ at' = [at EXCEPT ![s] = g]
    /\ UNCHANGED <<gate, condVars, geoVars, fullVars, deleting>>

\* CriticalSection region(gate); if (sz >= cap && notFull)
EnterPut(s) ==
    /\ pc[s] = "put"
    /\ Lock(s)
    /\ Goto(s, IF sz[at[s]] >= cap[at[s]] THEN "incr" ELSE "append")
    /\ UNCHANGED <<condVars, geoVars, fullVars, at, deleting>>

\* CriticalSection region(fullGate), around numFull++ and around numFull--;
\* the operand is read here and written back by IncrFull or DecrFull.
EnterFullGate(s) ==
    /\ pc[s] \in {"incr", "decr"}
    /\ LockFull(s)
    /\ local' = [local EXCEPT ![s] = numFull]
    /\ Goto(s, IF pc[s] = "incr" THEN "incrStore" ELSE "decrStore")
    /\ UNCHANGED <<gate, condVars, geoVars, numFull, at, deleting>>

NumFullUp_Bug(s) == numFull' = local[s]
NumFullUp(s)     == numFull' = local[s] + 1

IncrFull(s) ==
    /\ pc[s] = "incrStore"
    /\ NumFullUp(s)
    /\ UnlockFull
    /\ Goto(s, "fullLoop")
    /\ UNCHANGED <<gate, condVars, geoVars, local, at, deleting>>

DecrFull(s) ==
    /\ pc[s] = "decrStore"
    /\ numFull' = local[s] - 1
    /\ UnlockFull
    /\ Goto(s, "append")
    /\ UNCHANGED <<gate, condVars, geoVars, local, at, deleting>>

\* while (sz >= cap && notFull) notFull->wait()
WaitFull(s) ==
    /\ pc[s] = "fullLoop"
    /\ sz[at[s]] >= cap[at[s]]
    /\ notFull' = [notFull EXCEPT ![at[s]] = @ \cup {s}]
    /\ Unlock(s)
    /\ Goto(s, "fullWait")
    /\ UNCHANGED <<notEmpty, geoVars, fullVars, at, deleting>>

LeaveFullLoop(s) ==
    /\ pc[s] = "fullLoop"
    /\ sz[at[s]] < cap[at[s]]
    /\ Goto(s, "decr")
    /\ UNCHANGED <<gate, condVars, geoVars, fullVars, at, deleting>>

\* pstack.putTail(p); sz++; notEmpty->notifyAll(); ~CriticalSection
WithTail_Bug(g) == <<sent[g] + 1>> \o pstack[g]
WithTail(g)     == Append(pstack[g], sent[g] + 1)

PutTail(s) ==
    LET g == at[s] IN
    /\ pc[s] = "append"
    /\ sent' = [sent EXCEPT ![g] = @ + 1]
    /\ pstack' = [pstack EXCEPT ![g] = WithTail(g)]
    /\ sz' = [sz EXCEPT ![g] = @ + 1]
    /\ NotifyNotEmpty(g)
    /\ Unlock(s)
    /\ Goto(s, "idle")
    /\ UNCHANGED <<notFull, cap, rcvd, fullVars, at, deleting>>

-----------------------------------------------------------------------------
(* slowGet *)

\* A star asks for a particle on an input port.
CallGet(s, g) ==
    /\ pc[s] = "idle"
    /\ Dst[g] = s
    /\ Goto(s, "get")
    /\ at' = [at EXCEPT ![s] = g]
    /\ UNCHANGED <<gate, condVars, geoVars, fullVars, deleting>>

EnterGet(s) ==
    /\ pc[s] = "get"
    /\ Lock(s)
    /\ Goto(s, "emptyLoop")
    /\ UNCHANGED <<condVars, geoVars, fullVars, at, deleting>>

\* while (sz < 1 && notEmpty) notEmpty->wait()
WaitEmpty(s) ==
    /\ pc[s] = "emptyLoop"
    /\ sz[at[s]] < 1
    /\ notEmpty' = [notEmpty EXCEPT ![at[s]] = @ \cup {s}]
    /\ Unlock(s)
    /\ Goto(s, "emptyWait")
    /\ UNCHANGED <<notFull, geoVars, fullVars, at, deleting>>

\* sz--; pstack.get(); if (sz < cap && notFull) notFull->notifyAll()
TakeHead(s) ==
    LET g == at[s] IN
    /\ pc[s] = "emptyLoop"
    /\ sz[g] >= 1
    /\ sz' = [sz EXCEPT ![g] = @ - 1]
    /\ pstack' = [pstack EXCEPT ![g] = Tail(@)]
    /\ rcvd' = [rcvd EXCEPT ![g] = @ + 1]
    /\ NotifyNotFull(g, sz[g] - 1, cap[g])
    /\ Unlock(s)
    /\ Goto(s, "idle")
    /\ UNCHANGED <<notEmpty, cap, sent, fullVars, at, deleting>>

-----------------------------------------------------------------------------
(* PosixCondition::wait, after the thread has gone to sleep *)

\* slowPut and slowGet test their condition again after a wait.
AfterWait_Bug(s) == IF pc[s] = "fullWait" THEN "decr" ELSE "emptyLoop"
AfterWait(s)     == IF pc[s] = "fullWait" THEN "fullLoop" ELSE "emptyLoop"

\* Notified, or woken for no reason: the thread takes the monitor again.
Wake(s) ==
    /\ pc[s] \in Waiting
    /\ s \notin notFull[at[s]] \cup notEmpty[at[s]]
    /\ Lock(s)
    /\ Goto(s, AfterWait(s))
    /\ UNCHANGED <<condVars, geoVars, fullVars, at, deleting>>

\* pthread_cond_wait may return although nobody notified.
SpuriousWakeup(s) ==
    /\ pc[s] \in Waiting
    /\ s \in notFull[at[s]] \cup notEmpty[at[s]]
    /\ notFull' = [notFull EXCEPT ![at[s]] = @ \ {s}]
    /\ notEmpty' = [notEmpty EXCEPT ![at[s]] = @ \ {s}]
    /\ UNCHANGED <<gate, geoVars, fullVars, pc, at, deleting>>

CleanupHandler_Bug(s) == gate' = [gate EXCEPT ![at[s]] = s]
CleanupHandler(s)     == UNCHANGED gate

\* A cancelled waiter takes the mutex back, and the cleanup handler unlocks
\* it: the net effect on the gate is none.  A writer dies counted.  A star
\* between two operations dies at the start condition of its scheduler.
Cancel(s) ==
    /\ deleting
    /\ \/ pc[s] = "idle" /\ Goto(s, "cancelled") /\ UNCHANGED gate
       \/ /\ pc[s] \in Waiting
          /\ gate[at[s]] = NoThread
          /\ CleanupHandler(s)
          /\ Goto(s, IF pc[s] = "fullWait" THEN "cancelledFull" ELSE "cancelled")
    /\ notFull' = [notFull EXCEPT ![at[s]] = @ \ {s}]
    /\ notEmpty' = [notEmpty EXCEPT ![at[s]] = @ \ {s}]
    /\ UNCHANGED <<geoVars, fullVars, at, deleting>>

-----------------------------------------------------------------------------
(* The scheduler's thread *)

SetCapacity(g, c) ==
    /\ ~deleting
    /\ gate[g] = NoThread
    /\ cap' = [cap EXCEPT ![g] = c]
    /\ NotifyNotFull(g, sz[g], c)
    /\ UNCHANGED <<gate, notEmpty, pstack, sz, sent, rcvd, fullVars, pc, at,
                   deleting>>

\* PNScheduler::deleteThreads begins to cancel the threads.
DeleteThreads ==
    /\ ~deleting
    /\ deleting' = TRUE
    /\ UNCHANGED <<gate, condVars, geoVars, fullVars, pc, at>>

ResetFull_Bug == UNCHANGED numFull
ResetFull     == numFull' = 0

\* The rest of PNScheduler::setup once every thread is joined: the geodesics
\* are initialized, resetFull, new conditions, new threads.  cap stays.
Setup ==
    /\ deleting
    /\ \A s \in Star : pc[s] \in Cancelled
    /\ gate' = [g \in Geodesic |-> NoThread]
    /\ notEmpty' = [g \in Geodesic |-> {}]
    /\ notFull' = [g \in Geodesic |-> {}]
    /\ pstack' = [g \in Geodesic |-> InitialParticles(NumInit[g])]
    /\ sz' = NumInit
    /\ sent' = NumInit
    /\ rcvd' = [g \in Geodesic |-> 0]
    /\ fullGate' = NoThread
    /\ ResetFull
    /\ pc' = [s \in Star |-> "idle"]
    /\ deleting' = FALSE
    /\ UNCHANGED <<cap, local, at>>

-----------------------------------------------------------------------------
\* What a star does between being called and returning.
StarStep(s) ==
    \/ EnterPut(s) \/ EnterFullGate(s) \/ IncrFull(s) \/ DecrFull(s)
    \/ WaitFull(s) \/ LeaveFullLoop(s) \/ PutTail(s)
    \/ EnterGet(s) \/ WaitEmpty(s) \/ TakeHead(s)
    \/ Wake(s)

Next ==
    \/ \E s \in Star : StarStep(s) \/ SpuriousWakeup(s) \/ Cancel(s)
    \/ \E s \in Star, g \in Geodesic : CallPut(s, g) \/ CallGet(s, g)
    \/ \E g \in Geodesic : \E c \in (cap[g] + 1)..MaxCap : SetCapacity(g, c)
    \/ DeleteThreads
    \/ Setup

Spec == Init /\ [][Next]_vars

(***************************************************************************)
(* Fairness.  The threads are created SCHED_FIFO with one priority          *)
(* (PosixThread::initialize): whoever waits for a mutex is served in turn,  *)
(* so a star that can go on again and again does go on (SF, because a       *)
(* mutex may be taken by others in between).  A cancelled thread dies at    *)
(* the next wait.  Nothing obliges a star to send or receive, nor the       *)
(* scheduler to act.                                                        *)
(***************************************************************************)
FairSpec == Spec /\ \A s \in Star : SF_vars(StarStep(s)) /\ SF_vars(Cancel(s))

-----------------------------------------------------------------------------
(* Properties *)

\* The domains of the variables.
TypeOK ==
    /\ gate \in [Geodesic -> Star \cup {NoThread}]
    /\ notEmpty \in [Geodesic -> SUBSET Star]
    /\ notFull \in [Geodesic -> SUBSET Star]
    /\ pstack \in [Geodesic -> Seq(Nat)]
    /\ sz \in [Geodesic -> Nat]
    /\ cap \in [Geodesic -> Nat]
    /\ fullGate \in Star \cup {NoThread}
    /\ numFull \in Nat
    /\ local \in [Star -> Nat]
    /\ pc \in [Star -> Location]
    /\ at \in [Star -> Geodesic]
    /\ sent \in [Geodesic -> Nat]
    /\ rcvd \in [Geodesic -> Nat]
    /\ deleting \in BOOLEAN

\* A thread that is executing inside the monitor of a geodesic, or inside the
\* gate of numFull, is the one that holds it, and a held gate has such a
\* thread: no wait, wake-up or cancellation leaves a gate locked or shared.
MutualExclusion ==
    /\ \A s \in Star : pc[s] \in InGate => gate[at[s]] = s
    /\ \A g \in Geodesic : gate[g] \in Star => pc[gate[g]] \in InGate /\ at[gate[g]] = g
    /\ \A s \in Star : pc[s] \in InFullGate <=> fullGate = s

\* sz is the number of particles on pstack, and those are, oldest first, the
\* ones that entered and have not left: none lost, doubled or overtaken.
InOrder ==
    \A g \in Geodesic :
        /\ sz[g] = Len(pstack[g])
        /\ sent[g] = rcvd[g] + sz[g]
        /\ \A i \in 1..Len(pstack[g]) : pstack[g][i] = rcvd[g] + i

\* Only initial particles can take a geodesic past its capacity: slowPut,
\* with all its waits and wake-ups, never does.
WithinCapacity ==
    \A g \in Geodesic : sz[g] <= cap[g] \/ sz[g] <= NumInit[g]

\* numFull is the number of writers in the blocking part of slowPut, the
\* cancelled ones included until the next resetFull.  PNScheduler::run decides
\* by it whether the galaxy stopped for lack of buffer space.
NumFullCountsWriters == numFull = Cardinality(Counted)

\* A thread asleep on a condition has nothing to be woken for: a writer's
\* geodesic is full, a reader's is empty.
NoLostWakeup ==
    \A s \in Star :
        /\ pc[s] = "fullWait" /\ s \in notFull[at[s]] => sz[at[s]] >= cap[at[s]]
        /\ pc[s] = "emptyWait" /\ s \in notEmpty[at[s]] => sz[at[s]] < 1

\* A writer blocked on a geodesic that has room again completes its put, or is
\* cancelled.
WriterIsReleased ==
    \A s \in Star :
        (pc[s] = "fullWait" /\ sz[at[s]] < cap[at[s]]) ~> (pc[s] \notin PutPoint \ Cancelled)

\* A reader blocked on a geodesic that has a particle again gets it, or is
\* cancelled.
ReaderIsServed ==
    \A s \in Star :
        (pc[s] = "emptyWait" /\ sz[at[s]] > 0) ~> (pc[s] \notin GetPoint)

\* Joining the cancelled threads terminates, wherever they were.
DeletionCompletes == deleting ~> (\A s \in Star : pc[s] \in Cancelled)

\* The geodesics implement bounded first-in first-out channels: a put takes
\* effect in PutTail, a get in TakeHead, a writer counts as blocked from
\* IncrFull to DecrFull; every other step is invisible.
Channels == INSTANCE BoundedChannels WITH
                queue <- pstack, full <- {at[s] : s \in Counted}
ImplementsChannels == Channels!ChannelSpec
=============================================================================
