# Ptolemy Classic in TLA+

Models, model-checking runs and proofs for the run-time kernel of Ptolemy Classic.
All paths below are relative to `src/ptclassic/src/` of the repository.

Ptolemy simulates a *galaxy*: a graph of *stars* (actors) whose *portholes* are
joined by *geodesics* (queues of particles). A *domain* gives the graph its meaning:
its scheduler decides which star runs when. Three domains are modelled here. In PN,
process networks, every star runs in a POSIX thread of its own, geodesics are
bounded channels that block both ends, and a main thread detects deadlock and
enlarges buffers. In DE, discrete events, a queue ordered by time and depth decides,
and simultaneous events are what is hard. In SDF, synchronous dataflow, a schedule
is computed before the run. What they share, the control of a running simulation by
halts, actions, signals and the user interface, is modelled as well.

## 1. Inventory

### Components, their state and their operations

| Component | Source | State | Operations |
|---|---|---|---|
| PN geodesic | `domains/pn/kernel/PNGeodesic.{cc,h}` | the queue `pstack` and its size `sz`, the capacity `cap`, a monitor with two conditions, the static counter `numFull` with a gate of its own | `makeLock`, `slowPut`, `slowGet`, `setCapacity`, `blockedOnFull`, `resetFull` |
| Thread layer | `thread/posix/`, `kernel/PtThread.*` | mutexes, conditions, thread priorities, the list of threads | `lock`, `unlock`, `wait`, `notifyAll`, `initialize`, `runAll`, `terminate`, `~ThreadList` |
| PN scheduler | `domains/pn/kernel/PNScheduler.cc` | `iteration`, `currentTime`, `stopTime`, the threads | `setup`, `run`, `increaseBuffers`, `createThreads`, `deleteThreads`, `resetStopTime` |
| PN star threads | `domains/pn/kernel/PNThread.cc` | the iteration last fired | `SyncDataFlowProcess::run`, `DataFlowProcess::run` |
| PN stars, firing | `domains/pn/kernel/PNStar.cc`, `kernel/DataFlowStar.cc`, `kernel/Star.cc`, `domains/pn/stars/` | the particle in each input buffer, star states | `begin`, `go`, `run` |
| Particle transport | `kernel/PortHole.cc`, `kernel/Geodesic.cc`, `kernel/CircularBuffer.*` | buffers, initial particles | `getParticle`, `putParticle`, `initialize` |
| PN target | `domains/pn/kernel/PNTarget.cc` | the scheduler | `setup`, `run`, `wrapup` |
| Interpreter commands | `ptcl/PTcl.cc` | the universe, its stop time | `run`, `cont`, `wrapup`, graph editing |
| Event queue | `kernel/PriorityQueue.*`, `domains/de/kernel/EventQueue.*` | a ring of links, free lists of links and events | `levelput`, `leveltup`, `put`, `get`, `getLastElem`, `pushBack`, `next`, `extract`, `initialize` |
| Calendar queue | `domains/de/kernel/CalendarQueue.*` | buckets of a day each, the position of the search | `levelput`, `NextEvent`, `pushBack`, `Resize`, `NewInterval`, `initialize` |
| DE port depths | `domains/de/kernel/DEScheduler.cc` | the depth of each port | `checkDelayFreeLoop`, `computeDepth` |
| DE schedulers | `domains/de/kernel/DEScheduler.cc`, `CQScheduler.cc`, `DEPortHole.cc` | the queue, the current and the stop time, the new data of each port | `setup`, `run`, `fetchEvent`, `resortEvents`, `sendData`, `getSimulEvent` |
| DE stars | `domains/de/stars/` | completion time, star states | `begin`, `go` |
| SDF scheduler | `domains/sdf/kernel/SDFScheduler.cc`, `kernel/DataFlowStar.cc` | repetitions, the schedule, the iterations done | `setup`, `repetitions`, `computeSchedule`, `run`, `runOnce` |
| Simulation control | `kernel/SimControl.*` | the bits of `flags`, action lists, interrupt and poll functions, the poll flag and its timer | `requestHalt`, `declareErrorHalt`, `clearHalt`, `doPreActions`, `doPostActions`, `processFlags`, `catchInt`, `setPollAction` |
| Gates and gate keepers | `kernel/PtGate.*`, `kernel/Error.cc` | all registered gates, the error gate | `enableAll`, `disableAll`, `makeNew`, `CriticalSection` |
| PN wormholes | `domains/pn/kernel/PNWormhole.cc`, `PNEventHorizon.cc`, `kernel/EventHorizon.cc` | an inner galaxy and scheduler, the current and stop time at the border | `go`, `run`, `receiveData`, `sendData` |
| Particle memory | `kernel/Plasma.cc`, `kernel/Message.cc` | free lists, reference counts | `get`, `put`, `writableCopy`, envelope assignment |
| SDF loop schedulers | `domains/sdf/loopScheduler/` | clusters | `setup` |
| DDF, BDF, SR, FSM schedulers | `domains/*/kernel/` | schedules | `setup`, `run` |
| Code generation, user interface, ptlang, gthreads | `domains/cg*`, `pigilib`, `ptlang`, ... | - | not part of a simulation, or a port of another component |

### How they interact

    PTcl run/cont/wrapup ── PNTarget ── PNScheduler (main thread)
         │ clearHalt                      │ runAll, setCapacity, deleteThreads
         ▼                                ▼
     SimControl flags ◄── star threads ── slowPut/slowGet ── PNGeodesic
         ▲        doPre/PostActions   (one thread per star)   │ numFull
         │                                ▲                   ▼
         │                                └── start condition, blockedOnFull()
         ├── poll function (Tk events), SIGINT, SIGALRM
         │
         ├── DEScheduler / CQScheduler ── Star::run ── DEPortHole ──┐
         │        └── EventQueue / CalendarQueue ◄── pushTail ──────┘
         │
         └── SDFScheduler ── the schedule ── Star::run ── Geodesic

* `PTcl::run` clears the halt bit, makes the target set up and run. The PN target
  deletes the old scheduler, whose destructor cancels and joins every thread, and
  makes a new one; its `setup` initialises the geodesics, calls `resetFull`,
  replaces monitors and conditions and starts one thread per star.
* `PNScheduler::run` increments `iteration`, wakes the start condition and calls
  `runAll`, which lowers the priority of the main thread: it gets the processor back
  when no star can run. If `blockedOnFull()` then is positive, `increaseBuffers`
  adds one to the smallest full geodesic and `runAll` is called again; otherwise the
  iteration is over.
* A star's thread waits for `iteration` to pass the last one it fired in, receives,
  checks for a halt, fires, checks again, sends. It blocks in `slowGet` and
  `slowPut`. It leaves for good when a firing saw a halt.
* A writer that finds its geodesic full increments `numFull` before it waits and
  decrements it when it has found room. That counter is all the scheduler knows
  about why the stars stopped.
* A DE star sends by `pushTail`: the particle enters the scheduler's queue with the
  time it is for and the depth of the port it goes to. `run` takes the first event,
  gathers the simultaneous ones for the same star from the queue, and fires it; what
  a port cannot take goes back into the queue.
* `SDFScheduler::setup` computes how often each star fires in an iteration and an
  order of the firings; `run` repeats it until the stop time.
* Around every firing `doPreActions` and `doPostActions` of `SimControl` apply the
  registered actions; `haltRequested` in between processes the other flags, which
  may call the poll function, hence the user interface, hence any of the commands.

### What is hard, and what must hold

| Component | Hard behaviour | Correct when |
|---|---|---|
| PN geodesic | writer, reader and `setCapacity` race around two conditions; waits wake spuriously or are cancelled; `numFull` is shared by all geodesics, under a second lock | the queue is FIFO and loses nothing; `slowPut` keeps to the capacity; no wake-up is lost; no gate is shared or left locked; `numFull` counts the blocked writers exactly; blocked threads go on when they can |
| PN scheduler | the thread order is arbitrary; bounded buffers add deadlocks that Kahn's networks do not have; priorities are trusted, not checked; a halt can come at any point; `cont` reuses threads that may have ended | what flows on the geodesics is determined by the graph alone; an iteration never ends with a star waiting for room; a capacity grows only on an artificial deadlock; every command returns; a continued run really runs |
| Event queue | pointers of a ring, a last reference that survives between calls, two free lists, extraction while scanning | it is a sorted sequence; nothing is lost, leaked or used twice |
| Calendar queue | events behind the search position, years, resizing while events are out | `get` returns the earliest event |
| DE depths | recursion that marks ports while it visits them | delay-free loops are found, no others; the depth is the longest path |
| DE schedulers, stars | simultaneous events over paths of different length, feedback, phases, queue surgery while extracting; a halt or stop between firings | a star sees everything that is to come at a time; values do not depend on ties, stops or scheduler; a halt loses no more than it must |
| SDF scheduler | rates that only agree round a loop; stars put off until their successors are through; halts inside an iteration | repetitions least, schedules complete and admissible, a deadlock is real, no firing starves |
| Simulation control | the signal handler writes `flags` without the gate; callbacks run with the gate held; actions change the list they are in | no halt is lost or ignored, nobody waits for a gate it holds, actions run in turn |
| PN wormholes | `numFull` and the gates are shared by nested schedulers | an inner `run` ends whatever the outer galaxy does |
| Particle memory | sharing by reference count | no message freed in use, none leaked |

`PROJECT.json` lists the hazards one by one with their lines, and the properties
that watch each.

## 2. Modules

| Module | Models |
|---|---|
| `PNGeodesic` | the geodesics and the threads that use them, at the level of mutexes and conditions |
| `BoundedChannels` | what the geodesics promise: atomic, bounded FIFO channels and a count of blocked writers |
| `PNStars` | what the stars do at their ports, as sequences of operations |
| `PNScheduler` | the main thread, the star threads, halts and the commands, on top of `BoundedChannels` and `PNStars` |
| `KahnStreams` | the denotation of a galaxy: the least solution of its stream equations |
| `SortedQueue` | what `PriorityQueue.h` promises: a sequence ordered by level and fine level, and what may be done at its ends and during a scan |
| `EventQueue` | `PriorityQueue` and `EventQueue` at the level of pointers and free lists; implements `SortedQueue` |
| `EarliestFirst` | what `CalendarQueue.h` promises: the earliest event first |
| `CalendarQueue` | buckets, search position, resizing; implements `EarliestFirst` |
| `SequenceParts` | the part of a sequence at given places, which the DE modules use |
| `DEGalaxy` | graphs of DE stars: triggers, `before` relations, longest paths, what can reach what |
| `DEDepth` | `checkDelayFreeLoop` and `computeDepth`, recursion and marks included |
| `DEStars` | the `go` methods of eleven stars |
| `DEScheduler` | `setup`, the runs and the ports under either scheduler, over the orders of the two abstract queues |
| `DESchedulersAgree` | a reference execution and another of the same galaxy |
| `DEResort` | `resortEvents` |
| `SimControl` | flags, gate, actions, poll function, timer, signals, threads |
| `SDFGraph` | dataflow graphs, and what a scheduler has to find |
| `SDFScheduler` | how the SDF scheduler finds it, and its runs |
| `PNGeodesicProofs`, `PNSchedulerProofs`, `EventQueueProofs`, `CalendarQueueProofs`, `DESchedulerProofs`, `SimControlProofs`, `SDFSchedulerProofs` | theorems and their proofs |
| `SequenceLemmas` | lemmas that several of these need: smallest elements, sequences as sets of places, parts of sequences, the existence of recursively defined functions |
| `MC*` | small instances for TLC |

The layers meet in abstract specifications. `PNGeodesic` is shown to implement
`BoundedChannels` (by TLC and by proof), and `PNScheduler` extends that: it treats a
put as one step and its blocking as two (`Block`, `Unblock`), and stays small enough
for whole galaxies. `EventQueue` and `CalendarQueue` are shown to implement
`SortedQueue` and `EarliestFirst` (by TLC and by proof); `DEScheduler` keeps a
sequence in the order that these define. `DEScheduler` fires with the depths that
`DEDepth` is shown to compute.

An operator whose name ends in `_Bug`, a number after it perhaps, or `_Flat` stands
before some definitions. It is no part of the specification: it is a wrong version
of the definition after it, and shows what a property would notice.

### PNGeodesic

One action per stretch of code between two points where another thread can
interfere: `EnterPut` takes the monitor and tests for room; `EnterFullGate` takes
the gate of `numFull` and reads it, `IncrFull` and `DecrFull` write it back (so a
missing gate would lose an update); `WaitFull` and `WaitEmpty` go to sleep and free
the monitor in one step, as `pthread_cond_wait` does; `Wake` takes it again;
`PutTail` and `TakeHead` end the call and notify. The main thread's `SetCapacity`
needs the monitor; `DeleteThreads`, `Cancel` and `Setup` are `deleteThreads`,
`PosixThread::terminate` and the rest of `PNScheduler::setup`. A thread is cancelled
only at a cancellation point: asleep on a condition, or between two operations (the
start condition). A cancelled writer stays in `numFull` until `resetFull`, as in the
code.

| Variable | In the code |
|---|---|
| `gate`, `notEmpty`, `notFull` | `PNGeodesic::gate`, the waiters of `notEmpty` and `notFull` |
| `pstack`, `sz`, `cap` | the members of `Geodesic` and `PNGeodesic`; a particle is the number of its put |
| `fullGate`, `numFull`, `local` | the statics, and the register that holds `numFull` between read and write |
| `pc`, `at` | where the thread of each star is, on which geodesic |
| `sent`, `rcvd` | history, for the properties |

### PNScheduler and PNStars

A star's `code` is the sequence of operations it has still to do in `begin` or in
the current firing: `get`, `put`, and the halt checks `pre` and `post`. For an SDF
star `Firing` is receive on all inputs, `pre`, `go`, `post`, send on all outputs
(`DataFlowStar::run`); for the four PN stars, whose ports are all dynamic, it is
`pre`, `go`, `post`, and `go` does its own receives and sends. Because `go` can
depend on the data (`Merge` reads again from whichever input was smaller), it is put
into `code` when `pre` succeeds. When a halt makes `pre` fail, an SDF star skips
`go` and still sends, as `DataFlowStar::run` does.

`mpc` is the main thread's place: `idle` between commands; `deleting` and `wrapup`
while threads are joined; `enter`, `loop`, `runAll`, `check` inside
`PNScheduler::run`. `mode` says how the program is run: which galaxy, whether a halt
may be requested, up to which stop times. With `mode.strict`, stars move only while
the main thread has lowered its priority or is joining, and `runAll` returns only
when nobody can move: what SCHED_FIFO priorities on one processor give. Without,
nothing orders the threads, and `IncreaseBuffers` may grow any geodesic or none,
which covers every outcome of a scan that races with the stars.

`RequestHalt` is anybody's `requestHalt` or error, at any point of a command.

### EventQueue and CalendarQueue

`EventQueue` has one action per method. `link` is the memory of the `LevelLink`
objects, `lastNode` the ring's entry, `lastReference` the iterator's place,
`freeLinkHead` the list of unused links; events have a free list of their own.
`eventClass` chooses the class: a plain `PriorityQueue`, or an `EventQueue` whose
links carry `Event` records, or process stars when the fine level is 0. The
insertion actions search for the place from the side from which the code searches,
so the order among equals is a result. After `put`, which appends without looking at
levels, a queue has no order and the two searches may stop at different places:
`ImplementsSortedQueue` then says of each where it stops. The environment keeps to
the protocol of the users: a link taken with `get` is pushed back or freed before
the next call, nothing is inserted during a scan.

`CalendarQueue` keeps the fields of the object in the record `q`. `NextEvent`
searches a year of buckets from the last position (`Due`, `Found`) and falls back to
`DirectSearch`; `Resize` copies every event into new buckets with the width that
`NewInterval` samples from the next events. Times are whole multiples of 1/480 and
those of events multiples of 24 of these, so that every interval and bucket border
computed from them is a whole number.

### DEDepth, DEScheduler, DESchedulersAgree, DEResort

`DEDepth` sets up one galaxy: `checkDelayFreeLoop` with its recursion over ports, in
which the depths -1, 1 and 0 mark a port as new, in progress and done, and
`computeDepth` that overwrites them. `DEScheduler` starts with the depths as the
longest paths. Its `Fire` is one turn of the loop in `run`: take the first event,
gather (`Gather`) the simultaneous events of that star as the scheduler in use does,
fire, send, and fire again for a new phase while the star asks for it.
`HaltBeforeGo` is the halt that `doPreActions` meets: the star does not fire, and
the event it was given is gone.

| Variable | In the code |
|---|---|
| `queue` | the queue, in the order in which the events are to leave |
| `input` | `dataNew`, the current particle, `moreData` and `inQue` of each port |
| `star` | `completionTime` and the members of each star |
| `pc` | what the last `run` ended with, or that it is at work |
| `sent`, `fired` | history, for the properties |

`address` is the order of the stars in memory: `CalendarQueue` breaks ties by
pointers. The executions are those of the constant `Cases`: a galaxy, a scheduler,
an order in memory and a way of running the program each; `CasesAssumption` says
what a galaxy is (`IsGalaxy`): ports joined one to one, stars with the ports and
parameters of their kind, a delay at the clocks' own arcs only, and no delay-free
loop, since `setup` refuses one. `DESchedulersAgree` runs the same galaxy first by
`DEScheduler` without a stop on the way, as the reference, then by either scheduler
with any stops and halts; a property compares what was sent. `DEResort` moves the
events of a queue out and back under new depths, as `resortEvents` does.

### SimControl

Every thread is a small machine (`th[t]`) that follows `Star::run`: `Look` is the
test of `haltRequested`, `ProcessFlags` to `RearmTimer` the function of that name,
`DoActions`, `ApplyAction`, `AfterAction` the loop over an action list whose
iterator has been moved on. A change of the flag word is a read and a write
(`ReadToAsk`, `SetHalt`; `ClearInterrupt`), so an unprotected one can lose a bit;
`CatchInterrupt` and `HandlerReturns` are the signal handler, which strikes between
any two of these in some thread and takes no gate. `mode` chooses threads, gates,
poll function, actions and which commands may come from stars, scripts of actions,
and events handled by the poll function. `due` and `cut` are history: the actions a
traversal has still to apply, and whether the next of them was cancelled.

### SDFGraph and SDFScheduler

`SDFGraph` defines, without an algorithm, what counts: the content of an arc after
given firings, balance, the least iteration of a connected part, admissible
schedules, schedulability. `SDFScheduler` has the algorithm. `StartSubgraph`,
`ReptArc`, `ReturnSubgraph`, `Normalize` are `repetitions()`: the recursion from
port to port is the explicit `stack`, the fractions and the common denominator are
those of the code. `NewPass`, `TryStar`, `TryDeferred`, `EndPass` are
`computeSchedule` with its deferred firing. `Enter`, `Loop`, `FireStar`,
`EndIteration` are `run` and `runOnce`, which a halt leaves anywhere, `Run` and
`Cont` the commands.

### Abstractions

* PN: one token per port and firing (block size 1). SDF stars in PN compute `gain *
  input`; their side effects are left out.
* `pushBack` of a geodesic has no caller and is left out.
* Among equally small full geodesics `increaseBuffers` takes the first its iterators
  meet; the model may take any.
* The stop time of a run is a whole number of schedule periods, and the period is 1.
* `PNScheduler` and `SDFScheduler` keep the halt and error bits of the flags; the
  rest of simulation control is in `SimControl`.
* `onInt` of `SimControl` has no user, and is left out.
* Times are whole numbers: what the rounding of `double` does is not modelled.
* Graph editing between commands is left out: a galaxy does not change, except for
  the depths in `DEResort`.

## 3. Runs

| Run | Instance and bounds | Shows |
|---|---|---|
| `geodesic_loop` | two stars in a loop, one initial particle, at most 2 puts and capacity 2; every interleaving, spurious wake-up, cancellation and set-up | gates, FIFO order, capacity, `numFull`, no lost wake-up, the refinement of `BoundedChannels`; blocked threads go on, cancelling ends |
| `kahn_demos` | the demo Kahn74fig2, commands up to 5 iterations; Kahn77fig4 without the factor 5, 8 iterations; a Commutator that sends two particles where its Fork takes one, with halts, up to 3 iterations; the same without priorities, capacities up to 2 | Kahn's principle, complete iterations, growth only on artificial deadlock, exact `numFull`, every command returns |
| `cont_after_halt` | the powers of two (DelayInt, gain, Fork, Printer), halts | finding 1 (expected violation) |
| `event_queue` | up to 3 links, two levels, two fine levels, two or three particles, both classes | refinement of `SortedQueue`; no link, event or particle is lost or used twice |
| `calendar_queue` | three uses: 3 events told apart by time, depth, address and age, 2 of them out; 6 events of three days of which two share a bucket, mixed with push-backs; 9 events, with which the calendar grows and shrinks | refinement of `EarliestFirst`; the buckets and the search position are consistent |
| `de_depth` | all galaxies of up to 3 stars of eight kinds and 4 arcs, wired in every way, with or without one delay | delay-free loops are found and no others, an undefined order is reported, the depth is the longest path |
| `de_galaxies` | 38 galaxies of up to 8 stars: counters, samplers, FIFO queues, with inputs over paths of different length at the same times; `DEScheduler`, and `CQScheduler` with six orders of the stars in memory; stops {1, 3}, one halt after a firing. Samplers and a two-level Merge with halts before and after a firing and time scale 1/2, stops {2, 3} | counts, samples and queued data are exact; the signals are determined by the galaxy; each halt loses at most one event |
| `de_statistics_doc` | a Statistics star whose inputs and demands coincide | finding 2 (expected violation) |
| `de_resort_doc` | all queues of up to 4 events on two arcs and times, all new depths | finding 3 (expected violation) |
| `sim_control` | one thread whose actions register and cancel actions; one with the poll function of the run control panel and an interrupt; two threads with gates, error, halt and signal; two threads with the panel; 2 or 3 commands and at most 1 signal in a run | actions run in turn and once; no halt is lost; all threads leave; the poll function goes on |
| `sim_actions_doc` | the second of these | finding 4 (expected violation) |
| `sdf_scheduler` | 1707 galaxies: loops of two stars with all rates 1..3 and several delays, bypasses of three stars, a chain in a loop with a self-loop and a part of its own, with halts; stop arguments {1, 2} | repetitions least, schedules complete and admissible, deadlocks real, no star starves, every command returns |

The properties are stated with comments at the end of each module. The central ones:

* `KahnPrinciple` compares what every geodesic carried with the least solution of
  the galaxy's stream equations, computed in `KahnStreams` without threads, buffers
  or iterations. The one exception it states is real: an SDF star stopped before
  `go` sends a particle it did not compute.
* `BlockedWritersAreCounted` relates the counter to the threads that are blocked;
  `IterationIsComplete` and `GrowthIsNeeded` say that the scheduler draws the right
  conclusion from it, in both directions.
* `CausesComeFirst` is what depths are for: a star does not fire while an event at
  that time can still send it another. `CountsAreExact`, `SamplesAreLatest` and
  `QueuedDataIsAccountedFor` compare what stars put with all that was ever sent to
  them, with no mention of ports, phases or firings. `SignalsAreDetermined` compares
  two executions, event by event.
* `HaltIsKept` and `EveryoneHalts` follow a halt through read-modify-writes of
  several threads and a signal handler. Their exceptions are stated as states of the
  model and are observations in section 4: a handler that is late, and a poll
  function that waits for the gate it holds.
* `RepetitionsAreLeast` and `DeadlockIsReal` compare an algorithm with its
  specification: the least solution in each connected part, and the absence of any
  order of firings, found by exploring all of them.
* The two `CommandsReturn` are liveness of the whole: no iteration grows buffers for
  ever, threads can be joined wherever they are, a halt ends a run; the passes of
  `computeSchedule` come to an end although stars are put off again and again.

### Bounds, and why they are enough

`MaxPut` and `MaxCap` bound `PNGeodesic`, which has no other unbounded value. Two
puts over capacities 1 and 2 with an initial particle on the way back reach every
combination of full, empty, blocked and just enlarged. The theorems of section 5
need no bound. In `PNScheduler` the bound is the time: `mode.stops` for one command
and its maximum for a run with its continuations. In Kahn74fig2 five iterations go
once round the loop and force one geodesic to grow; in Kahn77fig4 eight iterations
reach the first number that both inputs of the Merge carry (6 = 2*3 = 3*2), so its
equal case is taken. The Commutator's loop needs growth in its first iteration
already. `maxCap` matters without `strict` only: with it, capacities are bounded by
need. `Horizon` cuts the reference streams at a length no run reaches.

Three links give an event queue a head, a middle and a tail, and extraction at each.
The particles of an event queue are symmetric; those of the calendar are not, as
their order counts. Six events over three days in two buckets make the search skip a
day of another year; nine exceed the threshold at which the number of buckets
doubles, and taking them out crosses the one at which it halves.

The galaxies of `de_galaxies` are chosen so that the events to be gathered arrive
over one, two and three stars; stops at 1 and 3 fall on and between events.
`MaxStars` and `MaxArcs` of `de_depth` cover every wiring of two-input stars in a
loop with a third. In `sim_control` three commands are an action that registers,
cancels itself and cancels the next one. In `sdf_scheduler` the rates 1..3 include
coprime, equal and multiple rates; `Bound` = 9 is the largest repetition they can
give.

Deadlock checking is off where the system may really stop: in `PNGeodesic` every
star can be waiting for a particle; in `PNScheduler`, `SDFScheduler` and
`SimControl` nobody has to give a further command; a depth search and a galaxy's
execution end. It is on for both queues: a queue that has anything to do can do it.

### Fairness

`PNGeodesic`: the threads are SCHED_FIFO of one priority
(`PosixThread::initialize`), so a thread that wants a mutex gets it in turn although
others take it in between: strong fairness of each thread's steps inside a call, and
of its cancellation. Calls, spurious wake-ups, `setCapacity` and set-ups are
nobody's duty.

`PNScheduler`: weak fairness of the main thread, of "some star's thread moves" and
of "some thread is cancelled". That is weaker than priorities, which let a thread
run until it blocks: a processor that is not idle is all that is needed, because a
channel has one writer and one reader and each star fires once per iteration.

`SimControl`: weak fairness of each thread's own code; a signal handler returns and
a timer expires. A gate may go to any thread that waits for it. `SDFScheduler` is
one sequential program: weak fairness of its next step. Commands, halts, signals and
the events of the user interface are fair nowhere.

## 4. Findings

1. `ptcl/PTcl.cc:614-616` clears the halt bit in `cont`, because "we still want to
   continue". In PN the stars that saw the halt have left their loop
   (`PNThread.cc:73`) and no `setup` makes new threads, so the continued iterations
   let time pass without them.
2. `domains/de/stars/DEStatistics.pl:75` returns at a demand before the other inputs
   are read, and the next phase throws them away. When inputs and demands come
   together no demand is answered, although the description (lines 5-7) says that an
   output is generated when a demand is received.
3. `domains/de/kernel/DEScheduler.cc:506` puts resorted events back at the head of
   the queue, twice: they end in their old order, with new depths. The comment at
   line 486 says "Resort events according to new fine levels." `CQScheduler` does
   sort.
4. `kernel/SimControl.cc:120` fetches an action and moves the iterator on before the
   loop's condition calls `haltRequested`, hence the poll function, whose Tk events
   can cancel that very action: a deleted action and link are used. The comment at
   lines 123-125 says that the iterator is moved first so that actions may remove
   themselves.

Observations made on the way, without a run of their own:

* `domains/pn/kernel/PNGeodesic.h:73` calls `blockedOnFull()` the "Number of full
  geodesics." The code counts blocked writers: a full geodesic whose writer has not
  tried again is not counted. The scheduler needs what the code does: a loop that
  ends only when no geodesic is full would grow buffers that need no room.
* `kernel/SimControl.cc:171`: with the gates enabled, a poll function that asks for
  an abort waits for the gate that its caller holds. `EveryoneHalts` and
  `PollGoesOn` except that state (`WaitsForItself`).
* `kernel/SimControl.cc:242`: the signal handler of one thread can overwrite a halt
  that another thread sets at the same time. `HaltIsKept` excepts exactly that
  (`HandlerIsLate`).
* `domains/de/kernel/DEStar.cc:144`: a halt before `go` loses the events of that
  firing; `HaltsLoseOneEventEach` bounds the loss.
* `domains/de/kernel/DEScheduler.cc:377`: with a time scale other than 1, the
  current time after a stop is not a time of this scheduler, and `cont` can report
  an event in the past.
* `CQScheduler` gathers only the simultaneous events that are adjacent in its queue,
  so a star can fire more often for the same events. In `de_galaxies` what it sends
  is the same.
* A halt inside an iteration of an SDF galaxy leaves it unable to `cont`: "SDF
  Scheduler has no galaxy to run", which is safe (`NoStarStarves`) but is not
  continuing.
* A writer that a halt leaves blocked in PN is still blocked, and counted, when
  `cont` enters the loop.

## 5. Proofs

Seven modules hold theorems, an eighth lemmas that they share. The theorems are about
every galaxy and every number of stars, threads, actions, links, events and commands
that the assumptions admit.

| Module | Theorem | States |
|---|---|---|
| `PNGeodesicProofs` | `TypeCorrect` | `[]TypeOK`; in particular `numFull` is never negative |
| | `GatesExclude` | `[]MutualExclusion` |
| | `FirstInFirstOut` | `[]InOrder` |
| | `CapacityHolds` | `[]WithinCapacity` |
| | `NumFullIsExact` | `[]NumFullCountsWriters` |
| | `WakeupsArrive` | `[]NoLostWakeup` |
| | `Refinement` | `ImplementsChannels`: `PNGeodesic` implements `BoundedChannels` |
| `PNSchedulerProofs` | `Invariance` | the inductive invariant |
| | `NumFullIsExact` | `[]BlockedWritersAreCounted` |
| | `IterationsEnd` | `IterationIsComplete` |
| | `CapacitiesGrowWhenNeeded` | `GrowthIsNeeded` |
| `EventQueueProofs` | `EveryLinkIsAccounted` | `[]StoreIsAccounted` |
| | `PointersImplementSortedQueue` | `ImplementsSortedQueue`: `EventQueue` implements `SortedQueue` |
| | `ClearedParticlesDieOnce` | `ParticlesDieOnce` |
| `CalendarQueueProofs` | `CalendarStaysConsistent` | `[]CalendarIsConsistent` |
| | `NextEventsAreNotPast` | `[]NoEventFromThePast` |
| | `CalendarImplementsEarliestFirst` | `ImplementsEarliestFirst`: `CalendarQueue` implements `EarliestFirst` |
| `DESchedulerProofs` | `NoEventIsInThePast` | `[]NoError`, the types included |
| | `SimultaneousEventsAreOrdered` | `[]CausesComeFirst` |
| | `HaltsLoseOneEventAtMost` | `[]HaltsLoseOneEventEach` |
| | `FIFOQueuesLoseNothing` | `[]QueuedDataIsAccountedFor` |
| `SimControlProofs` | `Invariance` | the inductive invariant about flags and gate |
| | `HaltStays` | `HaltIsKept` |
| | `ActionsAreApplied` | `[]ActionsRunInTurn` |
| `SDFSchedulerProofs` | `SearchBalances` | the repetitions that are found balance every arc |
| | `AcceptedSchedulesAreComplete` | `[]ScheduleIsComplete` |
| | `RunsDoNotStarve` | `[]NoStarStarves` |
| | `ReportedDeadlocksAreReal` | `[]DeadlockIsReal` |

**PNGeodesic.** Assumptions: the set of stars is finite and `NoThread` is none of
them (`StarAssumption`); each geodesic has one source and one destination
(`PortAssumption`); initial particles and bounds are natural numbers
(`NumInitAssumption`, `BoundAssumption`). The inductive invariant `IInv` is the
conjunction of the six properties and three facts they need. `PortInUse`: a thread
inside `slowPut` is the source of the geodesic it works on, so two writers never
meet on one geodesic. `RoomIsStable`: what a writer found out about the room holds
as long as it keeps the monitor: no room on its way to being counted, room on its
way to the append. `WithinCapacity` and the refinement need that across the gate of
`numFull`. `LocalIsNumFull`: a thread inside that gate has read the current value,
without which the write-back would not be an increment. Counting is the hard part:
`CountingStep` shows that each step changes the set of counted writers by the thread
that moved, and uses the cardinality facts of the library; `CountedIsPositive` keeps
the decrement from underflowing. The steps that preserve each conjunct are one lemma
each, with one proof step per action; `Acquire`, `Release`, `StayInside` and
`StayOutside` are the four ways an action can relate to the gates. For the
refinement the blocked geodesics are those at which a counted writer works;
`IncrFull` maps to `Block`, `DecrFull` to `Unblock`, `PutTail` to `Put`, `TakeHead`
to `Get`, `SetCapacity` and `Setup` to themselves, all others to stuttering.

**PNScheduler.** Assumptions: stars have ports of the galaxy and a geodesic has one
writer (`GalaxyAssumption`); initial particles are integers (`DelayAssumption`).
`IInv` is `Typed` (the types that are needed, and that a star's `code` only puts to
its own outputs), `RunsAreScheduled`, `WritersAreKnown` (the geodesics in `full` are
those of blocked live writers, and `numFull` is their number) and `StarsHaveStopped`
(with priorities, when the main thread checks, no star can move). A firing replaces
the code of a star by any sequence of operations on its ports, so the proof does not
depend on what the stars compute. `GrowthIsNeeded` follows because a positive count
of blocked writers gives one, and its geodesic has no room since no star can move.

**EventQueue.** Assumptions: there are links, levels and fine levels are integers, a
particle put into the queue of a scheduler has a fine level other than 0, and the
mark of a process star is no particle (`QueueAssumption`). The inductive invariant
`IInv` says that there are two sequences of links, the ring `s`, head first, and the
free list `t`, for which:

* the `next` and `before` pointers of `s` close a ring that `lastNode` enters at its
  last link (`Ring`), and the `next` pointers of `t` end in the null pointer
  (`Free`), neither with a repetition;
* every link ever made is in `s`, in `t` or in the hands of the caller, and in one
  of these only; `numberNodes` is the length of `s` (`Store`);
* while a scan is under way, what it has still to visit is the end of `s`, and
  `lastReference` is the link before that, also after the link that it was at has
  been extracted (`Scan`);
* every `Event` record belongs to one used link or is in the list of free ones, and
  holds a particle no other holds (`Events`).

Without the first two a pointer that is overwritten could belong to two lists;
without the third, extraction during a scan could leave `lastReference` on a link
that is free already. `RingInsert`, `RingRemove`, `FreePush` and `FreePop` say what
the assignments to the pointers do to the two sequences; `LevelputStopIs` and
`LeveltupStopIs` where the two searches end, in a queue with or without order. The
abstract queue is read from the pointers by following them (`At`, a recursive
function): `RingIs` and `ListIs` show that this yields `s` and `t`. Then there is
one lemma for each action, which shows the invariant and the step of `SortedQueue`
together.

**CalendarQueue.** Assumption: levels are natural numbers, multiples of 24, the other
fields integers, the bounds natural (`LevelAssumption`). The invariant says of the
calendar (`Well`): it is positioned at the day of `lastTime`; no event is from before
`lastTime`; each is in the bucket of its day and each bucket is in order; the counter
of events is exact; the events inside and those taken out differ in their numbers.
`InsertWell` shows that an insertion before the position moves the position back,
`SearchFinds` and `DirectSearchWell` that the search of a year, or the direct one
after it, takes the first event in the order of time, depth, address and age:
`DueIsDay` is the point where comparing with the top of a bucket is seen to be
comparing days. `ResizeWell` takes the events over into new buckets, whatever the
width is that the sample of `NewInterval` leads to, as long as it is not zero
(`NewIntervalIs`).

**DEScheduler.** Assumption: `CasesAssumption`, of section 2. The theorems are about
any such galaxy, either scheduler, any order of the stars in memory, any stop times
and halts; the execution that `DESchedulersAgree` compares with the reference takes
these steps and no others. The proof has three layers.

* *Recursive definitions.* The depths, a gathering, the stars' loops and the sending
  are recursive functions, and TLA+ gives such a function a meaning only if there
  is one. `DagRecursion` shows that there is one along an acyclic relation, from
  the smallest elements of sets of numbers; with it `Depths` characterizes the
  depths: a port is strictly deeper than those it reaches, and no less deep than
  the one it is to be before. What `AllReached` yields is deeper likewise.
* *One firing.* `Sound` says what a `go` may do: put at its outputs at the firing's
  time or later, through the outputs that its new inputs trigger, read what is
  there. One lemma for each of the eleven stars shows it. `GatherKeeps` follows the
  offers of a gathering; `SendOrder` is shown to keep the order of the puts of each
  output.
* *The run.* `Timely` is the invariant behind the first two theorems: no event is
  earlier than the last firing (`InTime`), which needs that a clock is not ahead of
  its own event and a delay not further than its delay (`Clocked`); and the events
  simultaneous with the last firing are no less deep than its least deep new event
  (`CausesFirst`). That makes `CausesComeFirst` inductive: what a firing sends at its
  own time is deeper than the input it came from, and the queue is in order.

The other two compare what was sent along an arc with what is queued. `Accountable`
adds to `Timely` that an arc's events in the queue are the last ones sent along it
(`Followed`), which needs that a star puts in the order of time (`Bounded`: nothing
queued is later than its sender has got to). Then `FirePasses` says of every arc how
many events a firing takes and which it sends: the first of the arc, in order, all
of the simultaneous ones when the star reads them all, although a port holds one
particle and the others are fetched from the middle of the queue. `RampKeepsUp` and
`DataAccountedFor` count with that: each event taken by a `Ramp` is answered or was
lost to one of the halts; the values that a `FIFOQueue` has taken can be divided
into two subsequences, accepted and overflown. That no port still has its mark of a
new event from an earlier firing (`NoneStale`) is why a particle is not read twice;
a halt before `go` is what breaks it. The lemmas about `Enqueue` and `Dequeue`
hold for any number of data and demands.

**SimControl.** Assumption: more than one thread fires stars only with the gates
enabled (`ModesAssumption`). The invariant says that whoever changes the flags holds
the gate (`GateIsHeld`), and that what a thread (`ReadIsFresh`) or a handler
(`HandlerIsFresh`) has read of the flags and will write back still has every halt in
it; with one thread, because a handler returns before the thread goes on.
`ThreadsAreRecords` and `OthersAreOver` carry the types that this needs. A second
invariant, `TurnInv`, is about the actions: no action is twice in a list; and as long
as the one that a traversal will go to next has not been cancelled, what it has
still to apply (`due`) is the rest of the list from there on, whatever has been
registered and cancelled meanwhile (`InTurn`). `TurnAfterRegister` and
`TurnAfterCancel` are the two ways in which an action changes the list under the
traversal that runs it.

**SDFScheduler.** Assumption: arcs join stars of the galaxy, rates are positive,
delays natural (`GraphsAssumption`). `RateInv` says of the search from port to port:
no star is on the stack twice (`CallsAreNested`); the ends of every arc at a port
already examined agree as fractions, every denominator divides the common one, and
every star before the iterator has been seen (`SearchIsSound`); after the scaling,
every arc is in balance (`RepetitionsBalance`). It rests on lemmas about `Gcd`,
`Lcm` and `Simplified`, proved from the smallest element of a set of natural
numbers. `PassInv` says of the passes: the token counts are those of the firings
scheduled so far (`ScheduleIsSimulated`), each of these had its particles, no star
exceeds its repetitions (`NoneTooOften`), `passValue` tells whether some star is
short of them (`PassTellsTheTruth`), and so an accepted schedule is complete
(`AllAreScheduled`); of the run: the data on the arcs are those of the firings so
far (`RunIsAdmissible`). `SearchBalances` closes the circle: firings that balance
every arc bring the delays back. For a deadlock, `DeadlockIsSeen` says that once the
passes give up, every star has had its repetitions or lacks particles.
`FireableStays` is why their order does not matter: what others fire takes nothing
from a star. So firings that leave no star to fire are as far as any order gets
(`StuckIsFurthest`): in any other order, the first firing to go further would have
been possible here.

Only model-checked:

* liveness, whose proofs under fairness are out of the prover's reach;
* `KahnPrinciple`, an induction over data: `KahnStreams` is recursive and stays so;
* `RepetitionsAreLeast`: that the repetitions balance every arc is proved, that no
  smaller ones do is not, as it needs facts about prime factors;
* the three properties of `DEDepth`, which is written with recursive operators, as
  the code is: the marks of the search are passed from call to call;
* `CountsAreExact`, `SamplesAreLatest` and `SignalsAreDetermined`. The first two need
  that a star with a `before` relation has all simultaneous events of its other
  inputs when the last input fires it, which is a step from `CausesComeFirst` and
  `FirePasses`; the third compares two executions in which the stars fire in
  different orders, and needs a commutation argument on top.

## 6. Plan

Done: single PN galaxies; simulation control; event and calendar queue; DE depths,
schedulers and eleven stars; the SDF scheduler; proofs about PN, the two queues, the
DE schedulers, simulation control and SDF. Next, in this order:

1. Proofs: what the counters and samplers put; `RepetitionsAreLeast`.
2. `PNNested`: two schedulers with shared `numFull` and gates, event horizons
   (`PNEventHorizon::getStopTime`, `PNWormhole::run`), `enableAll` and `makeNew`
   during a run. Does an inner `run` end? Two galaxies of two stars, two iterations.
3. `PortBuffer`: `CircularBuffer` and `PortHole` with several tokens, against a
   window on the stream; with it block sizes in PN and `previous()` in SDF.
4. DE wormholes: `DEWormhole`, process stars in the queue, the stop time of an inner
   scheduler.
5. `Particles`: Plasma free lists and `Envelope` reference counts, two holders.
6. The dynamic dataflow scheduler against `SDFGraph`, and clustering against the
   schedule it rewrites.

## 7. Not modelled

* PN wormholes and event horizons, particle memory, the SDF loop schedulers, the
  DDF, BDF, SR and FSM schedulers: in the plan or after it. Two hazards of the
  first, in `PROJECT.json`, have no property yet.
* Of PN: `Sift` and `Splice`, which splice new processes into a running galaxy, and
  with them `DataFlowProcess::run`; the control stars `EndCase`, `LastOfN`,
  `ModuloInt`.
* Of DE: the wormholes, the mutable calendar queue, the repeat, priority and
  resource-contention stars with their schedulers, and the stars beyond the eleven,
  which treat simultaneous events as one of these does.
* The conversion to `int` in `domains/de/kernel/CalendarQueue.cc:156` overflows for
  a time far beyond the width of a day; the model computes with whole numbers of any
  size.
* `adjustSampleRates` at the border of an SDF wormhole, and `compileRun`, which
  writes code.
* Code generation (`domains/cg*`), which writes programs from SDF schedules and has
  no concurrency of its own; the `gthreads` port of the thread layer (the same
  interface); the star preprocessor `ptlang`; the user interfaces (`pigilib`, `vem`,
  `octtools`, `tycho`, `pxgraph`); libraries, compatibility headers and vendored
  code. These are most of the repository's lines, and none of its scheduling.
