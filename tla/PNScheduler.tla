---------------------------- MODULE PNScheduler ----------------------------
(***************************************************************************)
(* The process-network scheduler: domains/pn/kernel/PNScheduler.cc and     *)
(* PNThread.cc, driven by the run, cont and wrapup commands of PTcl.  Each *)
(* star runs in a thread that fires once per iteration; the main thread    *)
(* starts an iteration, lets the stars run until none can, and grows a     *)
(* full geodesic when the stars stopped because a writer is blocked.  The  *)
(* geodesics are the atomic channels of BoundedChannels.                   *)
(***************************************************************************)
EXTENDS BoundedChannels, PNStars, SequencesExt

CONSTANTS
    Modes,      \* the ways the program is run
    Delays,     \* Delays[g]: the values of g's initial particles
    Stream      \* Stream[g]: what g carries by the stream equations

\* Every star has its ports, a geodesic has one writer, and a galaxy has stars.
ASSUME GalaxyAssumption ==
    /\ \A s \in Star :
          /\ In[s] \in Seq(Geodesic) /\ Out[s] \in Seq(Geodesic)
          /\ Kind[s] \in {"DelayInt", "Commutator", "Distributor", "Merge", "SDF"}
          /\ Kind[s] # "SDF" => In[s] # <<>> /\ Out[s] # <<>>
          /\ Kind[s] = "Merge" => Len(In[s]) = 2
    /\ \A s, t \in Star : s # t => Outputs(s) \cap Outputs(t) = {}
    /\ \A m \in Modes : m.stars \subseteq Star /\ m.stars # {} /\ m.arcs \subseteq Geodesic

ASSUME DelayAssumption ==
    /\ Delays \in [Geodesic -> Seq(Int)]
    /\ NumInit = [g \in Geodesic |-> Len(Delays[g])]

VARIABLES
    mode,       \* how the program is run, a member of Modes, with the fields
                \*   stars, arcs: those of the galaxy that is run
                \*   strict: SCHED_FIFO priorities are in force
                \*   mayHalt: a star, the user or an error may request a halt
                \*   stops: bound, the arguments of run and cont
                \*   maxCap: bound, the capacities, needed without strict only
    hist,       \* hist[g]: the particles that entered g since setup
    reg,        \* reg[g]: the particle in the buffer of g's reader
    thread,     \* thread[s]: "absent", "live" or "done"
    code,       \* code[s]: what s still has to do in begin or in a firing
    status,     \* status[s]: what the last star.run() of s is to return
    fired,      \* fired[s]: the iteration of the last firing of s (i)
    mpc,        \* where the main thread is
    iteration, currentTime, stopTime,
    halt, error \* the bits of SimControl::flags

starVars == <<hist, reg, thread, code, status, fired>>
mainVars == <<mpc, iteration, currentTime, stopTime>>
flagVars == <<halt, error>>
vars == <<mode, channelVars, starVars, mainVars, flagVars>>

Strict  == mode.strict
MaxStop == Max(mode.stops)

Live(s)    == thread[s] = "live"
Doing(s, o) == Live(s) /\ code[s] # <<>> /\ Head(code[s]).op = o
Target(s)  == Head(code[s]).geo
AtStart(s) == Live(s) /\ code[s] = <<>>
Advance(s) == code' = [code EXCEPT ![s] = Tail(@)]

InitReg == [g \in Geodesic |-> FirstInput(g)]

Init ==
    /\ mode \in Modes
    /\ ChannelInit
    /\ hist = Delays
    /\ reg = InitReg
    /\ thread = [s \in Star |-> "absent"]
    /\ code = [s \in Star |-> <<>>]
    /\ status = [s \in Star |-> TRUE]
    /\ fired = [s \in Star |-> 0]
    /\ mpc = "idle"
    /\ iteration = 0
    /\ currentTime = 0
    /\ stopTime = 0
    /\ halt = FALSE
    /\ error = FALSE

-----------------------------------------------------------------------------
(* The threads of the stars *)

\* With SCHED_FIFO the stars run only while the main thread has lowered its
\* priority or waits to join one of them.
StarsMayRun == Strict => mpc \in {"runAll", "deleting", "wrapup"}

CanMove(s) ==
    \/ AtStart(s) /\ (~status[s] \/ iteration > fired[s])
    \/ Doing(s, "get") /\ ~Empty(Target(s))
    \/ Doing(s, "put") /\ (Target(s) \notin full \/ Room(Target(s)))
    \/ Doing(s, "pre")
    \/ Doing(s, "post")

\* while (iteration <= i) start.wait(); i = iteration
StartFiring(s) ==
    /\ AtStart(s)
    /\ status[s]
    /\ iteration > fired[s]
    /\ fired' = [fired EXCEPT ![s] = iteration]
    /\ code' = [code EXCEPT ![s] = Firing(s)]
    /\ UNCHANGED <<channelVars, hist, reg, thread, status>>

\* while (star.run()): the thread ends when a firing saw a halt.
ExitThread(s) ==
    /\ AtStart(s)
    /\ ~status[s]
    /\ thread' = [thread EXCEPT ![s] = "done"]
    /\ UNCHANGED <<channelVars, hist, reg, code, status, fired>>

ReturnStatus(s) == status' = [status EXCEPT ![s] = ~halt]

\* if (!doPreActions(this)) return FALSE; go() -- and the data of the
\* synchronous outputs is sent even on error.
StarPre(s) ==
    /\ Doing(s, "pre")
    /\ ReturnStatus(s)
    /\ code' = [code EXCEPT ![s] =
                    IF ~halt THEN Go(s, reg) \o Tail(@)
                    ELSE IF Kind[s] = "SDF" THEN Sends(s, {}) ELSE <<>>]
    /\ UNCHANGED <<channelVars, hist, reg, thread, fired>>

StarPost(s) ==
    /\ Doing(s, "post")
    /\ ReturnStatus(s)
    /\ Advance(s)
    /\ UNCHANGED <<channelVars, hist, reg, thread, fired>>

StarGet(s) ==
    LET g == Target(s) IN
    /\ Doing(s, "get")
    /\ Get(g)
    /\ reg' = [reg EXCEPT ![g] = hist[g][Head(queue[g])]]
    /\ Advance(s)
    /\ UNCHANGED <<hist, thread, status, fired>>

StarPut(s) ==
    LET g == Target(s) IN
    /\ Doing(s, "put")
    /\ Put(g)
    /\ hist' = [hist EXCEPT ![g] = Append(@, Sent(s, Head(code[s]).from, reg))]
    /\ Advance(s)
    /\ UNCHANGED <<reg, thread, status, fired>>

\* The blocking part of slowPut: counted, and later not counted any more.
StarBlock(s)   == Doing(s, "put") /\ Block(Target(s)) /\ UNCHANGED starVars
StarUnblock(s) == Doing(s, "put") /\ Unblock(Target(s)) /\ UNCHANGED starVars

StarStep(s) ==
    /\ StarsMayRun
    /\ \/ StartFiring(s) \/ ExitThread(s) \/ StarPre(s) \/ StarPost(s)
       \/ StarGet(s) \/ StarPut(s) \/ StarBlock(s) \/ StarUnblock(s)
    /\ UNCHANGED <<mainVars, flagVars>>

-----------------------------------------------------------------------------
(* Simulation control *)

\* requestHalt, or (e) declareErrorHalt, by anyone while a command runs.
RequestHalt(e) ==
    /\ mode.mayHalt
    /\ mpc # "idle"
    /\ ~halt
    /\ halt' = TRUE
    /\ error' = (error \/ e)
    /\ UNCHANGED <<channelVars, starVars, mainVars>>

-----------------------------------------------------------------------------
(* The main thread *)

\* The run command: clearHalt, then the target makes a new scheduler and
\* deletes the old one, whose destructor deletes the threads.
Run(t) ==
    /\ mpc = "idle"
    /\ mpc' = "deleting"
    /\ stopTime' = t
    /\ halt' = FALSE
    /\ error' = FALSE
    /\ UNCHANGED <<channelVars, starVars, iteration, currentTime>>

\* The cont command: not after an error; without a scheduler, an error.
Scheduled == \E s \in Star : thread[s] # "absent"

Cont(t) ==
    /\ mpc = "idle"
    /\ ~error
    /\ stopTime' = stopTime + t
    /\ IF Scheduled
       THEN mpc' = "enter" /\ halt' = FALSE /\ UNCHANGED error
       ELSE UNCHANGED mpc /\ halt' = TRUE /\ error' = TRUE
    /\ UNCHANGED <<channelVars, starVars, iteration, currentTime>>

\* The wrapup command: not after an error; clearHalt, and the target deletes
\* its scheduler.
Wrapup ==
    /\ mpc = "idle"
    /\ ~error
    /\ mpc' = "wrapup"
    /\ halt' = FALSE
    /\ UNCHANGED <<channelVars, starVars, iteration, currentTime, stopTime, error>>

\* ThreadList::~ThreadList: a thread is cancelled where it waits.  Its writes
\* are over, but a blocked writer stays counted.
Cancel(s) ==
    /\ mpc \in {"deleting", "wrapup"}
    /\ Live(s)
    /\ ~CanMove(s)
    /\ thread' = [thread EXCEPT ![s] = "done"]
    /\ UNCHANGED <<channelVars, hist, reg, code, status, fired, mainVars, flagVars>>

NoThreads == \A s \in mode.stars : ~Live(s)

FinishWrapup ==
    /\ mpc = "wrapup"
    /\ NoThreads
    /\ mpc' = "idle"
    /\ thread' = [s \in Star |-> "absent"]
    /\ UNCHANGED <<channelVars, hist, reg, code, status, fired, iteration,
                   currentTime, stopTime, flagVars>>

\* PNScheduler::setup after deleteThreads; run goes on unless a halt was
\* requested meanwhile.
Setup ==
    /\ mpc = "deleting"
    /\ NoThreads
    /\ Reset
    /\ hist' = Delays
    /\ reg' = InitReg
    /\ thread' = [s \in Star |-> IF s \in mode.stars THEN "live" ELSE "absent"]
    /\ code' = [s \in Star |-> Begin(s)]
    /\ status' = [s \in Star |-> TRUE]
    /\ fired' = [s \in Star |-> 0]
    /\ iteration' = 0
    /\ currentTime' = 0
    /\ mpc' = IF halt THEN "idle" ELSE "enter"
    /\ UNCHANGED <<stopTime, flagVars>>

\* PNScheduler::run: an error if a halt is already requested.
Enter ==
    /\ mpc = "enter"
    /\ mpc' = IF halt THEN "idle" ELSE "loop"
    /\ error' = (error \/ halt)
    /\ UNCHANGED <<channelVars, starVars, iteration, currentTime, stopTime, halt>>

\* while (currentTime < stopTime && !haltRequested())
Loop ==
    /\ mpc = "loop"
    /\ IF currentTime < stopTime /\ ~halt
       THEN mpc' = "runAll" /\ iteration' = iteration + 1
       ELSE mpc' = "idle" /\ UNCHANGED iteration
    /\ UNCHANGED <<channelVars, starVars, currentTime, stopTime, flagVars>>

\* runAll returns when the main thread gets the processor back: under Strict,
\* when no star can move.
Quiet == \A s \in mode.stars : ~CanMove(s)

RunAllReturns ==
    /\ mpc = "runAll"
    /\ Strict => Quiet
    /\ mpc' = "check"
    /\ UNCHANGED <<channelVars, starVars, iteration, currentTime, stopTime, flagVars>>

\* The smallest full geodesics.  Without priorities the scan races with the
\* stars, and may see any geodesic full, or none.  (An operator whose name holds
\* _Bug is not part of the specification: it is a wrong version of the
\* definition after it, used to show that a property would notice.)
FullGeodesics_Bug == {g \in mode.arcs : Len(queue[g]) > cap[g]}
FullGeodesics     == {g \in mode.arcs : Len(queue[g]) >= cap[g]}

ToIncrease ==
    IF Strict
    THEN {g \in FullGeodesics : \A h \in FullGeodesics : cap[g] <= cap[h]}
    ELSE {g \in mode.arcs : cap[g] < mode.maxCap}

IncreaseBuffers ==
    \/ \E g \in ToIncrease : SetCapacity(g, cap[g] + 1)
    \/ (~Strict \/ ToIncrease = {}) /\ UNCHANGED channelVars

\* while (blockedOnFull() > 0 && !haltRequested()); currentTime += period
WritersBlocked_Bug1 == numFull > 1
WritersBlocked_Bug2 == numFull >= 0
WritersBlocked     == numFull > 0

Check ==
    /\ mpc = "check"
    /\ IF WritersBlocked /\ ~halt
       THEN IncreaseBuffers /\ mpc' = "runAll" /\ UNCHANGED currentTime
       ELSE /\ mpc' = "loop" /\ currentTime' = currentTime + 1
            /\ UNCHANGED channelVars
    /\ UNCHANGED <<starVars, iteration, stopTime, flagVars>>

MainStep == Setup \/ FinishWrapup \/ Enter \/ Loop \/ RunAllReturns \/ Check

Next ==
    /\ \/ \E s \in mode.stars : StarStep(s) \/ Cancel(s)
       \/ MainStep
       \/ \E t \in mode.stops : Run(t) \/ (stopTime + t <= MaxStop /\ Cont(t))
       \/ Wrapup
       \/ \E e \in BOOLEAN : RequestHalt(e)
    /\ UNCHANGED mode

Spec == Init /\ [][Next]_vars

(***************************************************************************)
(* Fairness: the main thread goes on while it can, some star goes on while *)
(* one can, and so do the cancelled threads.  No star is favoured, and     *)
(* commands and halts are nobody's duty.                                   *)
(***************************************************************************)
FairSpec ==
    /\ Spec
    /\ WF_vars(MainStep /\ UNCHANGED mode)
    /\ WF_vars((\E s \in mode.stars : StarStep(s)) /\ UNCHANGED mode)
    /\ WF_vars((\E s \in mode.stars : Cancel(s)) /\ UNCHANGED mode)

-----------------------------------------------------------------------------
(* Properties *)

TypeOK ==
    /\ mode \in Modes
    /\ \A g \in Geodesic : \A i \in DOMAIN queue[g] : queue[g][i] \in 1..Len(hist[g])
    /\ \A g \in Geodesic : sent[g] = Len(hist[g])
    /\ cap \in [Geodesic -> Nat \ {0}]
    /\ full \subseteq Geodesic
    /\ numFull \in Nat
    /\ hist \in [Geodesic -> Seq(Int)]
    /\ reg \in [Geodesic -> Int]
    /\ thread \in [Star -> {"absent", "live", "done"}]
    /\ DOMAIN code = Star
    /\ status \in [Star -> BOOLEAN]
    /\ fired \in [Star -> 0..iteration]
    /\ mpc \in {"idle", "deleting", "wrapup", "enter", "loop", "runAll", "check"}
    /\ iteration \in Nat
    /\ currentTime \in 0..MaxStop
    /\ stopTime \in 0..MaxStop
    /\ {halt, error} \subseteq BOOLEAN

\* Kahn's principle: whatever the interleaving, the capacities and the
\* moment of a halt, a geodesic carries a prefix of the stream that the
\* galaxy's equations define -- unless an SDF star was stopped before its go,
\* which sends the data of its outputs all the same.
KahnPrinciple ==
    /\ TypeOK
    /\ \/ \A g \in mode.arcs : IsPrefix(hist[g], Stream[g])
       \/ \E s \in mode.stars : Kind[s] = "SDF" /\ ~status[s]

\* With priorities, an iteration that no halt cuts short ends with every star
\* either waiting for the next one, having fired in this one, or waiting for a
\* particle.  No star is left waiting for room.
IterationIsComplete ==
    [][Strict /\ mpc = "check" /\ mpc' = "loop" /\ ~halt =>
        \A s \in mode.stars : Live(s) =>
            \/ AtStart(s) /\ fired[s] = iteration
            \/ Doing(s, "get") /\ Empty(Target(s))]_vars

\* Whenever the scheduler is in control of a galaxy that is set up, numFull
\* is the number of live threads blocked in slowPut.
BlockedWriters == {s \in mode.stars : Doing(s, "put") /\ Target(s) \in full}

BlockedWritersAreCounted ==
    mpc \notin {"deleting", "wrapup"} /\ Scheduled => numFull = Cardinality(BlockedWriters)

\* With priorities, the scheduler raises a capacity only when the stars have
\* stopped for lack of room: no star can move, one is blocked on a full
\* geodesic, and it was one of the smallest geodesics without room that grew,
\* by one.
GrowthIsNeeded ==
    [][Strict /\ mpc = "check" /\ cap' # cap =>
        /\ Quiet
        /\ BlockedWriters # {}
        /\ \E g \in mode.arcs :
              /\ ~Room(g)
              /\ \A h \in mode.arcs : Room(h) \/ cap[h] >= cap[g]
              /\ cap' = [cap EXCEPT ![g] = @ + 1]]_vars

\* Every command returns to the user: iterations end, buffers do not grow for
\* ever, threads can be joined, and a halt stops the run.
CommandsReturn == (mpc # "idle") ~> (mpc = "idle")

\* The comment on the cont command says of clearHalt that "we still want to
\* continue": a run that was continued has the threads to run with.
ContinuedRunHasThreads == mpc = "loop" /\ ~halt => \A s \in mode.stars : Live(s)
=============================================================================
