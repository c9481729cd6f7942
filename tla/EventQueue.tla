----------------------------- MODULE EventQueue -----------------------------
(***************************************************************************)
(* The priority queue of kernel/PriorityQueue.cc at the level of its       *)
(* pointers, and the event queue that the DE scheduler derives from it     *)
(* (domains/de/kernel/EventQueue.cc): a ring of links with a free list of  *)
(* unused ones, and a free list of event records.                          *)
(*                                                                         *)
(* The environment follows the one protocol of the users in src/: a link   *)
(* taken with get is pushed back or freed before anything else is done to  *)
(* the queue, and nothing is inserted during a scan.                       *)
(***************************************************************************)
EXTENDS Integers, Sequences, SequencesExt, FiniteSets, FiniteSetsExt

CONSTANTS
    Particle,       \* what is queued
    NoParticle,     \* the contents of an event record that was never used
    ProcessStar,    \* the star of a wormhole, queued itself with fine level 0
    Level,          \* the levels
    EventUse, PlainUse,     \* the particles and the (non-zero) fine levels put
                            \*   into an EventQueue and a plain PriorityQueue
    MaxLinks        \* bound: links in use at one time

ASSUME QueueAssumption ==
    /\ MaxLinks \in Nat \ {0} /\ ProcessStar \notin Particle
    /\ Level \subseteq Int
    /\ \A u \in {EventUse, PlainUse} : u.particle \subseteq Particle /\ u.fine \subseteq Int \ {0}

Node == 1..MaxLinks     \* the LevelLinks and the Events; 0 is the null pointer

VARIABLES
    eventClass,     \* TRUE for an EventQueue, FALSE for a plain PriorityQueue
    link,           \* the LevelLinks: e, level, fine, next, before
    lastNode, lastReference, numberNodes, freeLinkHead,
    allocated,      \* number of LevelLinks made with new
    eventParticle,  \* p of the Event records
    freeEvents,     \* the chain of free Events from freeEventHead
    madeEvents,     \* the Event records made with new and not deleted
    held,           \* the link that get returned, 0 when it is back
    toVisit,        \* calls of next() that the scan has still to make
    cursor          \* the link of the last next(), 0 when it is extracted

linkVars  == <<link, lastNode, numberNodes, freeLinkHead, allocated>>
eventVars == <<eventParticle, freeEvents, madeEvents>>
scanVars  == <<toVisit, cursor>>
vars == <<eventClass, linkVars, lastReference, eventVars, held, scanVars>>

Use  == IF eventClass THEN EventUse ELSE PlainUse
Fine == Use.fine

Blank == [e |-> 0, level |-> 0, fine |-> 0, next |-> 0, before |-> 0]

Init ==
    /\ eventClass \in BOOLEAN
    /\ link = [n \in Node |-> Blank]
    /\ lastNode = 0 /\ lastReference = 0 /\ numberNodes = 0 /\ freeLinkHead = 0
    /\ allocated = 0
    /\ eventParticle = [n \in Node |-> NoParticle] /\ freeEvents = <<>> /\ madeEvents = {}
    /\ held = 0 /\ toVisit = 0 /\ cursor = 0

\* The i-th link after n and the i-th before n, 0 behind the end of a list.
At(to, n, i) == LET at[k \in 0..MaxLinks] == IF k = 0 THEN n ELSE to[at[k - 1]] IN at[i]
After(links, n, i)  == At([m \in 0..MaxLinks |-> IF m = 0 THEN 0 ELSE links[m].next], n, i)
Before(links, n, i) == At([m \in 0..MaxLinks |-> IF m = 0 THEN 0 ELSE links[m].before], n, i)

\* The k links that follow n; those from the head of the queue to lastNode; and
\* those of a free list.
Follow(links, n, k) == [i \in 1..k |-> After(links, n, i)]
RingOf(links, last) ==
    IF last = 0 THEN <<>>
    ELSE Append(Follow(links, last, Min({i \in Node : After(links, last, i) = last}) - 1), last)
ListOf(links, head) ==
    [i \in 1..Min({k \in 0..MaxLinks : After(links, head, k) = 0}) |-> After(links, head, i - 1)]

Chain     == RingOf(link, lastNode)
FreeChain == ListOf(link, freeLinkHead)

IsEvent(n) == eventClass /\ link[n].fine # 0
Payload(n) == IF IsEvent(n) THEN eventParticle[link[n].e] ELSE link[n].e
Queued     == {Payload(n) : n \in ToSet(Chain) \cup ({held} \ {0})}

Quiet == held = 0 /\ toVisit = 0 /\ cursor = 0

----------------------------------------------------------------------------
\* getFreeLink: the link it returns, and its effect.
NewLink == IF freeLinkHead # 0 THEN freeLinkHead ELSE allocated + 1
GetFreeLink ==
    IF freeLinkHead # 0
    THEN freeLinkHead' = link[freeLinkHead].next /\ UNCHANGED allocated
    ELSE allocated' = allocated + 1 /\ UNCHANGED freeLinkHead

\* EventQueue::getEvent, and the record itself for a plain queue.
GetEvent(p, e) ==
    IF ~eventClass THEN e = p /\ UNCHANGED eventVars
    ELSE /\ eventParticle' = [eventParticle EXCEPT ![e] = p]
         /\ IF freeEvents # <<>>
            THEN e = Head(freeEvents) /\ freeEvents' = Tail(freeEvents) /\ UNCHANGED madeEvents
            ELSE /\ e = Min(Node \ madeEvents) /\ madeEvents' = madeEvents \cup {e}
                 /\ UNCHANGED freeEvents

\* The new link between l and its successor; the first one points to itself.
LinkAfter(l, n, a, v, fv) ==
    LET prev == IF l = 0 THEN n ELSE l
        succ == IF l = 0 THEN n ELSE link[l].next
        new == [e |-> a, level |-> v, fine |-> fv, next |-> succ, before |-> prev]
    IN  [link EXCEPT ![n] = new, ![succ].before = n, ![prev].next = n]

NotBefore_Bug(v, fv, n) ==
    \/ v > link[n].level
    \/ v = link[n].level /\ fv > link[n].fine
NotBefore(v, fv, n) ==
    \/ v > link[n].level
    \/ v = link[n].level /\ fv >= link[n].fine

\* Where the searches stop: levelput's goes from lastNode backwards, leveltup's
\* from the head on.
LevelputStop(v, fv) ==
    LET at(i) == Before(link, lastNode, i)
    IN  at(Min({i \in 0..MaxLinks : NotBefore(v, fv, at(i)) \/ (i > 0 /\ at(i) = lastNode)}))

LeveltupStop(v, fv) ==
    LET at(i) == After(link, lastNode, i)
    IN  at(Min({i \in Node : ~NotBefore(v, fv, at(i)) \/ at(i) = lastNode}))

Insert(a, v, fv, place, last) ==
    LET n == NewLink IN
    /\ Quiet /\ Len(Chain) < MaxLinks
    /\ GetFreeLink
    /\ numberNodes' = numberNodes + 1
    /\ link' = LinkAfter(place, n, a, v, fv)
    /\ lastNode' = IF last THEN n ELSE lastNode
    /\ lastReference' = lastNode'
    /\ UNCHANGED <<held, scanVars>>

\* lastNode moves only when the new link comes behind it.
Levelput(a, v, fv) ==
    IF lastNode = 0 THEN Insert(a, v, fv, 0, TRUE)
    ELSE Insert(a, v, fv, LevelputStop(v, fv), NotBefore(v, fv, lastNode))

Leveltup(a, v, fv) ==
    IF lastNode = 0 THEN Insert(a, v, fv, 0, TRUE)
    ELSE LET l == LeveltupStop(v, fv) IN
         IF NotBefore(v, fv, l) THEN Insert(a, v, fv, l, TRUE)
         ELSE Insert(a, v, fv, link[l].before, FALSE)

\* put ignores the level; its fine level is 1.
Put(p) == /\ ~eventClass /\ p \notin Queued
          /\ \E v \in Level : Insert(p, v, 1, lastNode, TRUE)
          /\ UNCHANGED eventVars

PushTail(p, v, fv) ==
    /\ p \notin Queued
    /\ \E e \in Node \cup Particle : GetEvent(p, e) /\ Levelput(e, v, fv)

PushHead(p, v, fv) ==
    /\ p \notin Queued
    /\ \E e \in Node \cup Particle : GetEvent(p, e) /\ Leveltup(e, v, fv)

\* A wormhole queues itself, in begin and after every firing, so that it may be
\* there more than once.
QueueStar(v) == eventClass /\ Levelput(ProcessStar, v, 0) /\ UNCHANGED eventVars

----------------------------------------------------------------------------
\* A free link keeps its old fields until setLink overwrites all of them; only
\* next is used before.
Freed(follower) == [Blank EXCEPT !.next = follower]
PutFreeLink(p) ==
    /\ link' = [link EXCEPT ![p] = Freed(freeLinkHead)]
    /\ freeLinkHead' = p

PutEvent_Bug(p) == UNCHANGED freeEvents
PutEvent(p) == freeEvents' = IF IsEvent(p) THEN <<link[p].e>> \o freeEvents ELSE freeEvents

\* The callers look at length() first.
Get ==
    LET f == link[lastNode].next IN
    /\ Quiet /\ numberNodes > 0
    /\ IF f = lastNode
       THEN lastNode' = 0 /\ UNCHANGED link
       ELSE /\ link' = [link EXCEPT ![lastNode].next = link[f].next,
                                    ![link[f].next].before = lastNode]
            /\ UNCHANGED lastNode
    /\ numberNodes' = numberNodes - 1
    /\ held' = f
    /\ UNCHANGED <<lastReference, freeLinkHead, allocated, eventVars, scanVars>>

PushBack ==
    LET last == IF lastNode = 0 THEN held ELSE lastNode
        first == IF lastNode = 0 THEN held ELSE link[lastNode].next
    IN
    /\ held # 0
    /\ lastNode' = last
    /\ link' = [link EXCEPT ![held].next = first, ![first].before = held,
                            ![held].before = last, ![last].next = held]
    /\ lastReference' = last
    /\ numberNodes' = numberNodes + 1
    /\ held' = 0
    /\ UNCHANGED <<freeLinkHead, allocated, eventVars, scanVars>>

\* The particle has gone to the port or to the caller: putFreeLink.
Consume ==
    /\ held # 0
    /\ PutFreeLink(held) /\ PutEvent(held)
    /\ held' = 0
    /\ UNCHANGED <<lastNode, lastReference, numberNodes, allocated, eventParticle, madeEvents,
                   scanVars>>

\* getLastElem: teg and putFreeLink.
GetLastElem ==
    LET f == lastNode
        b == link[f].before
    IN
    /\ Quiet /\ ~eventClass /\ numberNodes > 0
    /\ lastNode' = IF b = f THEN 0 ELSE b
    /\ link' = IF b = f THEN [link EXCEPT ![f] = Freed(freeLinkHead)]
               ELSE [link EXCEPT ![b].next = link[f].next, ![link[f].next].before = b,
                                 ![f] = Freed(freeLinkHead)]
    /\ freeLinkHead' = f
    /\ numberNodes' = numberNodes - 1
    /\ UNCHANGED <<lastReference, allocated, eventVars, held, scanVars>>

----------------------------------------------------------------------------
\* reset(), and the length that bounds the calls of next().
StartScan ==
    /\ Quiet
    /\ lastReference' = lastNode
    /\ toVisit' = numberNodes
    /\ UNCHANGED <<linkVars, eventVars, held, cursor>>

\* next()
Visit ==
    /\ toVisit > 0
    /\ lastReference' = link[lastReference].next
    /\ cursor' = lastReference'
    /\ toVisit' = toVisit - 1
    /\ UNCHANGED <<linkVars, eventVars, held>>

Extract ==
    LET a == cursor
        joined == [link EXCEPT ![link[a].before].next = link[a].next,
                               ![link[a].next].before = link[a].before]
    IN
    /\ cursor # 0
    /\ link' = [joined EXCEPT ![a] = Freed(freeLinkHead)]
    /\ freeLinkHead' = a
    /\ numberNodes' = numberNodes - 1
    /\ lastNode' = IF numberNodes = 1 THEN 0
                   ELSE IF a = lastNode THEN joined[a].before ELSE lastNode
    /\ lastReference' = joined[a].before
    /\ PutEvent(a)
    /\ cursor' = 0
    /\ UNCHANGED <<allocated, eventParticle, madeEvents, held, toVisit>>

\* The scan is over, at its end or at the first later event.
EndScan ==
    /\ toVisit > 0 \/ cursor > 0
    /\ toVisit' = 0 /\ cursor' = 0
    /\ UNCHANGED <<linkVars, lastReference, eventVars, held>>

----------------------------------------------------------------------------
\* EventQueue::initialize deletes the free events first, so that those it
\* frees next are the ones whose particles are still queued.
ClearedEvents_Bug(freed) == freed \o freeEvents
ClearedEvents(freed) == freed

\* The Events of the links of a ring, the one freed last first.
EventOf(n) == IF IsEvent(n) THEN <<link[n].e>> ELSE <<>>
EventsOf(ring) ==
    LET of[i \in 0..Len(ring)] == IF i = 0 THEN <<>> ELSE EventOf(ring[i]) \o of[i - 1]
    IN  of[Len(ring)]

Initialize ==
    LET ring == Chain
        chain == ClearedEvents(EventsOf(ring))
    IN
    /\ Quiet
    /\ link' = [n \in Node |-> IF n \notin ToSet(ring) THEN link[n]
                                ELSE Freed(IF n = ring[1] THEN freeLinkHead ELSE link[n].before)]
    /\ freeLinkHead' = IF lastNode = 0 THEN freeLinkHead ELSE lastNode
    /\ lastNode' = 0 /\ numberNodes' = 0
    /\ IF eventClass
       THEN /\ freeEvents' = chain
            /\ madeEvents' = madeEvents \ (ToSet(freeEvents) \ ToSet(chain))
       ELSE UNCHANGED <<freeEvents, madeEvents>>
    /\ UNCHANGED <<lastReference, allocated, eventParticle, held, scanVars>>

----------------------------------------------------------------------------
Next ==
    /\ \/ \E p \in Use.particle, v \in Level, fv \in Fine : PushTail(p, v, fv) \/ PushHead(p, v, fv)
       \/ \E p \in Use.particle : Put(p)
       \/ \E v \in Level : QueueStar(v)
       \/ Get \/ PushBack \/ Consume \/ GetLastElem
       \/ StartScan \/ Visit \/ Extract \/ EndScan \/ Initialize
    /\ UNCHANGED eventClass

Spec == Init /\ [][Next]_vars

----------------------------------------------------------------------------
TypeOK ==
    /\ link \in [Node -> [e : Node \cup {0} \cup Particle \cup {ProcessStar},
                          level : Level \cup {0}, fine : Fine \cup {0, 1},
                          next : 0..MaxLinks, before : 0..MaxLinks]]
    /\ {lastNode, lastReference, freeLinkHead, held, cursor} \subseteq 0..MaxLinks
    /\ {allocated, numberNodes, toVisit} \subseteq 0..MaxLinks
    /\ eventParticle \in [Node -> Particle \cup {NoParticle}]
    /\ freeEvents \in Seq(Node) /\ madeEvents \subseteq Node

\* Nothing is lost and nothing is used twice: a link made with new is in the
\* ring, in the free list or in the hands of the caller, the ring is linked
\* alike in both directions, and an Event record belongs to one such link or
\* is free (get, extract, pushBack, putFreeLink, initialize).
StoreIsAccounted ==
    LET ring == Chain
        taken == ring \o (IF held = 0 THEN <<>> ELSE <<held>>)
        events == {n \in ToSet(taken) : IsEvent(n)}
    IN
    /\ TypeOK /\ Len(ring) = numberNodes
    /\ \A i \in DOMAIN ring : link[link[ring[i]].next].before = ring[i]
    /\ IsInjective(taken \o FreeChain) /\ ToSet(taken \o FreeChain) = 1..allocated
    /\ \A m, n \in events : link[m].e = link[n].e => m = n
    /\ IsInjective(freeEvents) /\ \A n \in events : link[n].e \notin ToSet(freeEvents)
    /\ {link[n].e : n \in events} \cup ToSet(freeEvents) = madeEvents

\* The queue as its users see it.
EntryOf(n) == [level |-> link[n].level, fine |-> link[n].fine, payload |-> Payload(n)]
Entries(s) == [i \in DOMAIN s |-> EntryOf(s[i])]
Optional(n) == IF n = 0 THEN <<>> ELSE <<EntryOf(n)>>

Abstract == INSTANCE SortedQueue WITH
    Entry     <- [level : Level, fine : EventUse.fine \cup PlainUse.fine \cup {0, 1},
                  payload : Particle \cup {ProcessStar}],
    queue     <- Entries(Chain),
    held      <- Optional(held),
    unvisited <- IF toVisit = 0 THEN <<>> ELSE Entries(Follow(link, lastReference, toVisit)),
    visited   <- Optional(cursor)

\* The pointers implement the sorted queue: every insertion goes to its place
\* whatever mixture of insertions, push-backs and extractions came before,
\* and a scan meets every entry once, in order, also when it extracts some.
\* A queue that put has made has no order, and the two searches may then end
\* at different places: each one ends where it should.
EntryFor(p, v, fv) == [level |-> v, fine |-> fv, payload |-> p]
ImplementsSortedQueue ==
    /\ Abstract!Spec
    /\ [][\A p \in Use.particle, v \in Level, fv \in Fine :
              /\ PushTail(p, v, fv) => Abstract!LevelPut(EntryFor(p, v, fv))
              /\ PushHead(p, v, fv) => Abstract!LevelTup(EntryFor(p, v, fv))]_vars

\* initialize() returns to the plasma the particles of the Events it frees,
\* and these are the ones still queued, each once, and none that a port has
\* taken over from its event.
ParticlesDieOnce ==
    [][Initialize /\ eventClass =>
          LET dying == [i \in DOMAIN freeEvents' |-> eventParticle[freeEvents'[i]]]
          IN  IsInjective(dying) /\ ToSet(dying) = Queued \ {ProcessStar}]_vars
=============================================================================
