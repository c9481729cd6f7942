------------------------- MODULE PNSchedulerProofs -------------------------
(***************************************************************************)
(* Proofs about PNScheduler, for any galaxy of its stars, any number of    *)
(* iterations, and any sequence of commands and halts.                     *)
(***************************************************************************)
EXTENDS PNScheduler, FiniteSetTheorems, TLAPS

\* What a method of s does is a sequence of these operations.
Operation(s) ==
    [op : {"pre", "post"}] \cup [op : {"get"}, geo : Geodesic]
    \cup [op : {"put"}, geo : Outputs(s), from : SUBSET Geodesic]

\* The part of TypeOK that the proofs need, and what the code of a star may be.
Typed ==
    /\ mode \in Modes
    /\ queue \in [Geodesic -> Seq(Nat)]
    /\ cap \in [Geodesic -> Nat]
    /\ sent \in [Geodesic -> Nat]
    /\ DOMAIN code = Star
    /\ \A s \in Star : code[s] \in Seq(Operation(s))
    /\ thread \in [Star -> {"absent", "live", "done"}]
    /\ status \in [Star -> BOOLEAN]
    /\ iteration \in Nat
    /\ fired \in [Star -> 0..iteration]
    /\ mpc \in {"idle", "deleting", "wrapup", "enter", "loop", "runAll", "check"}

Deleting == mpc \in {"deleting", "wrapup"}

\* A run needs a galaxy that is set up.
RunsAreScheduled == mpc \in {"enter", "loop", "runAll", "check"} => Scheduled

\* The geodesics in full have a blocked writer, and numFull is the number of
\* these.
WritersAreKnown ==
    ~Deleting /\ Scheduled =>
        /\ IsFiniteSet(BlockedWriters)
        /\ numFull = Cardinality(BlockedWriters)
        /\ \A g \in full : \E s \in BlockedWriters : Target(s) = g

\* The main thread checks only when the stars have stopped.
StarsHaveStopped == Strict /\ mpc = "check" => Quiet

IInv == Typed /\ RunsAreScheduled /\ WritersAreKnown /\ StarsHaveStopped

-----------------------------------------------------------------------------
(* The code of the stars *)

LEMMA OutputsAreGeodesics ==
  ASSUME NEW s \in Star
  PROVE  /\ Outputs(s) \subseteq Geodesic
         /\ Inputs(s) \in SUBSET Geodesic
  BY GalaxyAssumption DEF Outputs, Inputs

LEMMA ReceivesType ==
  ASSUME NEW s \in Star
  PROVE  Receives(s) \in Seq(Operation(s))
  BY GalaxyAssumption DEF Receives, Receive, Operation

LEMMA SendsType ==
  ASSUME NEW s \in Star, NEW from \in SUBSET Geodesic
  PROVE  Sends(s, from) \in Seq(Operation(s))
  BY GalaxyAssumption DEF Sends, Send, Operation, Outputs

LEMMA BeginType ==
  ASSUME NEW s \in Star
  PROVE  Begin(s) \in Seq(Operation(s))
  BY ReceivesType DEF Begin

LEMMA FiringType ==
  ASSUME NEW s \in Star
  PROVE  Firing(s) \in Seq(Operation(s))
<1>1. <<PreActions, PostActions>> \in Seq(Operation(s))
  BY DEF PreActions, PostActions, Operation
<1> QED
  BY <1>1, ReceivesType, SendsType, OutputsAreGeodesics
     DEF Firing, SynchronousRun, DynamicRun

LEMMA GoType ==
  ASSUME NEW s \in Star
  PROVE  Go(s, reg) \in Seq(Operation(s))
<1>1. CASE Kind[s] = "DelayInt"
  <2>0. Go(s, reg) = DelayGo(s)
    BY <1>1 DEF Go
  <2>1. Send(Out[s][1], Inputs(s)) \in Operation(s) /\ Receive(In[s][1]) \in Operation(s)
    BY <1>1, GalaxyAssumption, OutputsAreGeodesics DEF Send, Receive, Operation, Outputs
  <2> QED
    BY <2>0, <2>1 DEF DelayGo
<1>2. CASE Kind[s] = "Commutator"
  <2>0. Go(s, reg) = CommutatorGo(s)
    BY <1>2 DEF Go
  <2> DEFINE n == 2 * Len(In[s])
  <2>1. ASSUME NEW k \in 1..n
        PROVE  LET g == In[s][(k + 1) \div 2] IN
               /\ Receive(g) \in Operation(s)
               /\ Send(Out[s][1], {g}) \in Operation(s)
    <3>1. (k + 1) \div 2 \in DOMAIN In[s]
      BY GalaxyAssumption
    <3> QED
      BY <1>2, <3>1, GalaxyAssumption DEF Send, Receive, Operation, Outputs
  <2>2. n \in Nat
    BY GalaxyAssumption
  <2>3. CommutatorGo(s) \in [1..n -> Operation(s)]
    BY <2>1 DEF CommutatorGo
  <2> HIDE DEF n
  <2> QED
    BY <2>0, <2>2, <2>3
<1>3. CASE Kind[s] = "Distributor"
  <2>0. Go(s, reg) = DistributorGo(s)
    BY <1>3 DEF Go
  <2> DEFINE n == 2 * Len(Out[s])
  <2>1. ASSUME NEW k \in 1..n
        PROVE  /\ Receive(In[s][1]) \in Operation(s)
               /\ k % 2 # 1 => Send(Out[s][k \div 2], Inputs(s)) \in Operation(s)
    <3>1. k % 2 # 1 => k \div 2 \in DOMAIN Out[s]
      BY GalaxyAssumption
    <3> QED
      BY <1>3, <3>1, GalaxyAssumption, OutputsAreGeodesics DEF Send, Receive, Operation, Outputs
  <2>2. n \in Nat
    BY GalaxyAssumption
  <2>3. DistributorGo(s) \in [1..n -> Operation(s)]
    BY <2>1 DEF DistributorGo
  <2> HIDE DEF n
  <2> QED
    BY <2>0, <2>2, <2>3
<1>4. CASE Kind[s] = "Merge"
  <2>0. Go(s, reg) = MergeGo(s, reg)
    BY <1>4 DEF Go
  <2>1. /\ Send(Out[s][1], Inputs(s)) \in Operation(s)
        /\ Receive(In[s][1]) \in Operation(s)
        /\ Receive(In[s][2]) \in Operation(s)
    BY <1>4, GalaxyAssumption, OutputsAreGeodesics DEF Send, Receive, Operation, Outputs
  <2> QED
    BY <2>0, <2>1 DEF MergeGo
<1>5. CASE Kind[s] = "SDF"
  BY <1>5 DEF Go
<1> QED
  BY <1>1, <1>2, <1>3, <1>4, <1>5, GalaxyAssumption

-----------------------------------------------------------------------------
(* Types *)

LEMMA ModeType ==
  ASSUME Typed
  PROVE  mode.stars \subseteq Star /\ mode.stars # {} /\ mode.arcs \subseteq Geodesic
  BY GalaxyAssumption DEF Typed

\* The first operation of a star that has something to do, and the rest.
LEMMA CodeType ==
  ASSUME Typed, NEW s \in Star, code[s] # <<>>
  PROVE  /\ Head(code[s]) \in Operation(s)
         /\ Tail(code[s]) \in Seq(Operation(s))
  BY DEF Typed

LEMMA TargetType ==
  ASSUME Typed, NEW s \in Star
  PROVE  /\ Doing(s, "put") => Target(s) \in Outputs(s) /\ Target(s) \in Geodesic
         /\ Doing(s, "get") => Target(s) \in Geodesic
  BY CodeType, OutputsAreGeodesics DEF Operation, Doing, Target

LEMMA CodeStep ==
  ASSUME Typed, NEW s \in Star, NEW c \in Seq(Operation(s)),
         code' = [code EXCEPT ![s] = c]
  PROVE  DOMAIN code' = Star /\ \A t \in Star : code'[t] \in Seq(Operation(t))
  BY DEF Typed

LEMMA InitialTypes ==
  /\ Initially \in [Geodesic -> Seq(Nat)]
  /\ NumInit \in [Geodesic -> Nat]
<1>1. \A g \in Geodesic : NumInit[g] \in Nat
  BY DelayAssumption
<1>2. ASSUME NEW g \in Geodesic PROVE [i \in 1..NumInit[g] |-> i] \in Seq(Nat)
  BY <1>1
<1> QED
  BY <1>1, <1>2, DelayAssumption DEF Initially

LEMMA TypedInit == Init => Typed
<1> SUFFICES ASSUME Init PROVE Typed
  OBVIOUS
<1>1. \A s \in Star : <<>> \in Seq(Operation(s))
  OBVIOUS
<1> QED
  BY <1>1, InitialTypes DEF Init, ChannelInit, Typed

LEMMA TypedStep == Typed /\ [Next]_vars => Typed'
<1> SUFFICES ASSUME Typed, [Next]_vars PROVE Typed'
  OBVIOUS
<1> USE DEF Typed, channelVars, starVars, mainVars, flagVars
<1>1. ASSUME NEW s \in mode.stars, StarStep(s), UNCHANGED mode PROVE Typed'
  <2> s \in Star
    BY ModeType
  <2>0. UNCHANGED <<mode, iteration, mpc>>
    BY <1>1 DEF StarStep
  <2>1. CASE StartFiring(s)
    BY <2>0, <2>1, CodeStep, FiringType DEF StartFiring
  <2>2. CASE ExitThread(s)
    BY <2>0, <2>2 DEF ExitThread
  <2>3. CASE StarPre(s)
    <3>1. Sends(s, {}) \in Seq(Operation(s)) /\ Go(s, reg) \in Seq(Operation(s))
      BY SendsType, GoType
    <3>2. Tail(code[s]) \in Seq(Operation(s))
      BY <2>3, CodeType DEF StarPre, Doing
    <3> DEFINE c == IF ~halt THEN Go(s, reg) \o Tail(code[s])
                   ELSE IF Kind[s] = "SDF" THEN Sends(s, {}) ELSE <<>>
    <3>3. c \in Seq(Operation(s)) /\ code' = [code EXCEPT ![s] = c]
      <4>1. Go(s, reg) \o Tail(code[s]) \in Seq(Operation(s))
        BY <3>1, <3>2
      <4>2. c \in Seq(Operation(s))
        BY <3>1, <4>1
      <4> QED
        BY <2>3, <4>2 DEF StarPre
    <3> HIDE DEF c
    <3>4. status' \in [Star -> BOOLEAN]
      BY <2>3 DEF StarPre, ReturnStatus
    <3> QED
      BY <2>0, <2>3, <3>3, <3>4, CodeStep DEF StarPre
  <2>4. CASE StarPost(s)
    <3>1. status' \in [Star -> BOOLEAN]
      BY <2>4 DEF StarPost, ReturnStatus
    <3> QED
      BY <2>0, <2>4, <3>1, CodeType, CodeStep DEF StarPost, Doing, Advance
  <2>5. CASE StarGet(s)
    <3>1. queue' \in [Geodesic -> Seq(Nat)]
      BY <2>5, TargetType DEF StarGet, Get, Empty
    <3> QED
      BY <2>0, <2>5, <3>1, CodeType, CodeStep DEF StarGet, Get, Doing, Advance
  <2>6. CASE StarPut(s)
    <3>1. queue' \in [Geodesic -> Seq(Nat)] /\ sent' \in [Geodesic -> Nat]
      BY <2>6, TargetType DEF StarPut, Put, WithTail
    <3> QED
      BY <2>0, <2>6, <3>1, CodeType, CodeStep DEF StarPut, Put, Doing, Advance
  <2>7. CASE StarBlock(s)
    BY <2>0, <2>7 DEF StarBlock, Block
  <2>8. CASE StarUnblock(s)
    BY <2>0, <2>8 DEF StarUnblock, Unblock
  <2> QED
    BY <1>1, <2>1, <2>2, <2>3, <2>4, <2>5, <2>6, <2>7, <2>8 DEF StarStep
<1>2. ASSUME NEW s \in mode.stars, Cancel(s), UNCHANGED mode PROVE Typed'
  BY <1>2 DEF Cancel
<1>3. CASE Setup /\ UNCHANGED mode
  <2>1. queue' \in [Geodesic -> Seq(Nat)] /\ sent' \in [Geodesic -> Nat] /\ UNCHANGED cap
    BY <1>3, InitialTypes DEF Setup, Reset, Reinitialize
  <2>2. DOMAIN code' = Star /\ \A s \in Star : code'[s] \in Seq(Operation(s))
    BY <1>3, BeginType DEF Setup
  <2> QED
    BY <1>3, <2>1, <2>2 DEF Setup
<1>4. CASE FinishWrapup /\ UNCHANGED mode
  BY <1>4 DEF FinishWrapup
<1>5. CASE Enter /\ UNCHANGED mode
  BY <1>5 DEF Enter
<1>6. CASE Loop /\ UNCHANGED mode
  BY <1>6 DEF Loop
<1>7. CASE RunAllReturns /\ UNCHANGED mode
  BY <1>7 DEF RunAllReturns
<1>8. CASE Check /\ UNCHANGED mode
  <2>1. UNCHANGED <<queue, sent>> /\ cap' \in [Geodesic -> Nat]
    BY <1>8 DEF Check, IncreaseBuffers, SetCapacity
  <2> QED
    BY <1>8, <2>1 DEF Check
<1>9. ASSUME UNCHANGED mode, NEW t \in mode.stops, Run(t) \/ Cont(t) PROVE Typed'
  BY <1>9 DEF Run, Cont
<1>10. CASE Wrapup /\ UNCHANGED mode
  BY <1>10 DEF Wrapup
<1>11. ASSUME UNCHANGED mode, NEW e \in BOOLEAN, RequestHalt(e) PROVE Typed'
  BY <1>11 DEF RequestHalt
<1>12. CASE UNCHANGED vars
  BY <1>12 DEF vars
<1> QED
  BY <1>1, <1>2, <1>3, <1>4, <1>5, <1>6, <1>7, <1>8, <1>9, <1>10, <1>11, <1>12
     DEF Next, MainStep

-----------------------------------------------------------------------------
(* The writers *)

\* A star that is not blocked, and is the only one to do something, is not
\* blocked afterwards as long as the set full stays as it is: another star's
\* geodesic is not one of its own.
LEMMA OthersStep ==
  ASSUME Typed, Typed', WritersAreKnown, ~Deleting, Scheduled,
         NEW s \in mode.stars, s \notin BlockedWriters,
         UNCHANGED <<mode, full>>,
         \A t \in Star : t # s => code'[t] = code[t] /\ thread'[t] = thread[t]
  PROVE  /\ BlockedWriters' = BlockedWriters
         /\ \A t \in BlockedWriters : Target(t)' = Target(t)
<1>0. mode.stars \subseteq Star
  BY ModeType
<1>1. ASSUME NEW t \in BlockedWriters
      PROVE  t \in BlockedWriters' /\ Target(t)' = Target(t)
  BY <1>0 DEF BlockedWriters, Doing, Live, Target
<1>2. ASSUME NEW t \in BlockedWriters' PROVE t \in BlockedWriters
  <2>1. CASE t = s
    <3> DEFINE o == Head(code'[s])
    <3>1. code'[s] \in Seq(Operation(s)) /\ code'[s] # <<>> /\ o.op = "put" /\ o.geo \in full
      BY <1>0, <2>1 DEF BlockedWriters, Doing, Target, Typed
    <3>2. o.geo \in Outputs(s)
      BY <3>1 DEF Operation
    <3>3. PICK w \in BlockedWriters : Target(w) = o.geo
      BY <3>1 DEF WritersAreKnown
    <3>4. w \in Star /\ w # s /\ Target(w) \in Outputs(w)
      BY <1>0, TargetType DEF BlockedWriters
    <3> QED
      BY <1>0, <3>2, <3>3, <3>4, GalaxyAssumption
  <2>2. CASE t # s
    BY <1>0, <2>2 DEF BlockedWriters, Doing, Live, Target
  <2> QED
    BY <2>1, <2>2
<1> QED
  BY <1>1, <1>2

LEMMA WritersInit == Init => WritersAreKnown
  BY ModeType, TypedInit DEF Init, WritersAreKnown, Scheduled

LEMMA WritersStep == IInv /\ [Next]_vars => WritersAreKnown'
<1> SUFFICES ASSUME IInv, [Next]_vars, ~Deleting', Scheduled'
    PROVE  WritersAreKnown'
  BY DEF WritersAreKnown
<1> USE DEF IInv, channelVars, starVars, mainVars, flagVars
<1>0. Typed /\ Typed' /\ mode.stars \subseteq Star
  BY TypedStep, ModeType
<1>1. ASSUME NEW s \in mode.stars, StarStep(s), UNCHANGED mode
      PROVE  WritersAreKnown'
  <2>0. /\ UNCHANGED <<mode, mpc>> /\ ~Deleting
        /\ \A t \in Star : t # s => code'[t] = code[t] /\ thread'[t] = thread[t]
    BY <1>0, <1>1 DEF StarStep, Deleting, Typed, StartFiring, ExitThread, StarPre, StarPost,
         StarGet, StarPut, StarBlock, StarUnblock, Advance
  <2>1. Scheduled
    BY <1>1, <1>0 DEF StarStep, Scheduled, Live, StartFiring, ExitThread, AtStart, StarPre,
         StarPost, StarGet, StarPut, StarBlock, StarUnblock, Doing
  <2>2. ASSUME s \notin BlockedWriters, UNCHANGED <<full, numFull>> PROVE WritersAreKnown'
    BY <1>0, <2>0, <2>1, <2>2, OthersStep DEF WritersAreKnown, Deleting
  <2>3. CASE StartFiring(s)
    BY <2>2, <2>3 DEF StartFiring, AtStart, BlockedWriters, Doing
  <2>4. CASE ExitThread(s)
    BY <2>2, <2>4 DEF ExitThread, AtStart, BlockedWriters, Doing
  <2>5. CASE StarPre(s) \/ StarPost(s)
    BY <2>2, <2>5 DEF StarPre, StarPost, BlockedWriters, Doing
  <2>6. CASE StarGet(s)
    BY <2>2, <2>6 DEF StarGet, Get, BlockedWriters, Doing
  <2>7. CASE StarPut(s)
    BY <2>2, <2>7 DEF StarPut, Put, BlockedWriters
  <2>8. ASSUME Doing(s, "put"), NEW t \in mode.stars, t # s, Doing(t, "put")
        PROVE  Target(t) # Target(s)
    BY <1>0, <2>8, TargetType, GalaxyAssumption
  <2>9. CASE StarBlock(s)
    <3>1. s \notin BlockedWriters /\ BlockedWriters' = BlockedWriters \cup {s}
      BY <1>0, <2>0, <2>8, <2>9 DEF StarBlock, Block, BlockedWriters, Doing, Live, Target
    <3>2. /\ IsFiniteSet(BlockedWriters)
          /\ numFull = Cardinality(BlockedWriters)
          /\ \A g \in full : \E w \in BlockedWriters : Target(w) = g
      BY <2>0, <2>1 DEF WritersAreKnown
    <3>3. IsFiniteSet(BlockedWriters') /\ numFull' = Cardinality(BlockedWriters')
      BY <2>9, <3>1, <3>2, FS_AddElement, FS_CardinalityType DEF StarBlock, Block
    <3>4. \A g \in full' : \E w \in BlockedWriters' : Target(w)' = g
      BY <2>9, <3>1, <3>2 DEF StarBlock, Block, Target
    <3> QED
      BY <3>3, <3>4 DEF WritersAreKnown
  <2>10. CASE StarUnblock(s)
    <3>1. s \in BlockedWriters /\ BlockedWriters' = BlockedWriters \ {s}
      BY <1>0, <2>0, <2>8, <2>10 DEF StarUnblock, Unblock, BlockedWriters, Doing, Live, Target
    <3>2. /\ IsFiniteSet(BlockedWriters)
          /\ numFull = Cardinality(BlockedWriters)
          /\ \A g \in full : \E w \in BlockedWriters : Target(w) = g
      BY <2>0, <2>1 DEF WritersAreKnown
    <3>3. IsFiniteSet(BlockedWriters') /\ numFull' = Cardinality(BlockedWriters')
      BY <2>10, <3>1, <3>2, FS_RemoveElement, FS_CardinalityType DEF StarUnblock, Unblock
    <3>4. \A g \in full' : \E w \in BlockedWriters' : Target(w)' = g
      BY <2>10, <3>1, <3>2 DEF StarUnblock, Unblock, Target
    <3> QED
      BY <3>3, <3>4 DEF WritersAreKnown
  <2> QED
    BY <1>1, <2>3, <2>4, <2>5, <2>6, <2>7, <2>9, <2>10 DEF StarStep
<1>2. ASSUME UNCHANGED <<mode, full, numFull, code, thread>>, ~Deleting
      PROVE  WritersAreKnown'
  <2>1. BlockedWriters' = BlockedWriters /\ \A s \in mode.stars : Target(s)' = Target(s)
    BY <1>2 DEF BlockedWriters, Doing, Live, Target
  <2>2. Scheduled
    BY <1>2 DEF Scheduled
  <2> QED
    BY <1>2, <2>1, <2>2 DEF WritersAreKnown, BlockedWriters
<1>3. ASSUME NEW s \in mode.stars, Cancel(s) PROVE FALSE
  BY <1>3 DEF Cancel, Deleting
<1>4. CASE Setup /\ UNCHANGED mode
  <2>1. full' = {} /\ numFull' = 0
    BY <1>4 DEF Setup, Reset, ResetFull
  <2>2. BlockedWriters' = {}
    BY <2>1 DEF BlockedWriters
  <2> QED
    BY <2>1, <2>2, FS_EmptySet DEF WritersAreKnown
<1>5. CASE FinishWrapup
  BY <1>5 DEF FinishWrapup, Scheduled
<1>6. CASE (Enter \/ Loop \/ RunAllReturns) /\ UNCHANGED mode
  <2>1. UNCHANGED <<full, numFull, code, thread>> /\ ~Deleting
    BY <1>6 DEF Enter, Loop, RunAllReturns, Deleting
  <2> QED
    BY <1>2, <1>6, <2>1
<1>7. CASE Check /\ UNCHANGED mode
  <2>1. UNCHANGED <<full, numFull, code, thread>> /\ ~Deleting
    BY <1>7 DEF Check, IncreaseBuffers, SetCapacity, Deleting
  <2> QED
    BY <1>2, <1>7, <2>1
<1>8. ASSUME UNCHANGED mode, NEW t \in mode.stops, Run(t) \/ Cont(t) PROVE WritersAreKnown'
  BY <1>2, <1>8 DEF Run, Cont, Deleting
<1>9. CASE Wrapup
  BY <1>9 DEF Wrapup, Deleting
<1>10. ASSUME UNCHANGED mode, NEW e \in BOOLEAN, RequestHalt(e) PROVE WritersAreKnown'
  BY <1>2, <1>10 DEF RequestHalt, Deleting
<1>11. CASE UNCHANGED vars
  <2>1. UNCHANGED <<mode, full, numFull, code, thread>> /\ ~Deleting
    BY <1>11 DEF vars, Deleting
  <2> QED
    BY <1>2, <2>1
<1> QED
  BY <1>1, <1>3, <1>4, <1>5, <1>6, <1>7, <1>8, <1>9, <1>10, <1>11 DEF Next, MainStep

-----------------------------------------------------------------------------
(* The main thread *)

LEMMA ScheduledStep == IInv /\ [Next]_vars => RunsAreScheduled'
<1> SUFFICES ASSUME IInv, [Next]_vars PROVE RunsAreScheduled'
  OBVIOUS
<1> USE DEF IInv, channelVars, starVars, mainVars, flagVars, RunsAreScheduled
<1>0. Typed /\ mode.stars \subseteq Star /\ mode.stars # {}
  BY ModeType
<1>1. ASSUME NEW s \in mode.stars, StarStep(s) PROVE RunsAreScheduled'
  <2>1. UNCHANGED mpc /\ thread'[s] # "absent"
    BY <1>0, <1>1 DEF StarStep, Live, StartFiring, ExitThread, AtStart, StarPre,
         StarPost, StarGet, StarPut, StarBlock, StarUnblock, Doing, Typed
  <2> QED
    BY <1>0, <2>1 DEF Scheduled
<1>2. ASSUME NEW s \in mode.stars, Cancel(s) PROVE RunsAreScheduled'
  BY <1>2 DEF Cancel
<1>3. CASE Setup
  BY <1>0, <1>3 DEF Setup, Scheduled
<1>4. CASE FinishWrapup
  BY <1>4 DEF FinishWrapup
<1>5. CASE Enter \/ Loop \/ RunAllReturns \/ Check
  BY <1>5 DEF Enter, Loop, RunAllReturns, Check, Scheduled
<1>6. ASSUME NEW t \in mode.stops, Run(t) \/ Cont(t) PROVE RunsAreScheduled'
  BY <1>6 DEF Run, Cont, Scheduled
<1>7. CASE Wrapup
  BY <1>7 DEF Wrapup
<1>8. ASSUME NEW e \in BOOLEAN, RequestHalt(e) PROVE RunsAreScheduled'
  BY <1>8 DEF RequestHalt, Scheduled
<1>9. CASE UNCHANGED vars
  BY <1>9 DEF vars, Scheduled
<1> QED
  BY <1>1, <1>2, <1>3, <1>4, <1>5, <1>6, <1>7, <1>8, <1>9 DEF Next, MainStep

LEMMA StoppedStep == IInv /\ [Next]_vars => StarsHaveStopped'
<1> SUFFICES ASSUME IInv, [Next]_vars, Strict', mpc' = "check" PROVE Quiet'
  BY DEF StarsHaveStopped
<1> USE DEF IInv, channelVars, starVars, mainVars, flagVars
<1>0. mode' = mode /\ Strict
  BY DEF Next, vars, Strict
<1>1. ASSUME Quiet, UNCHANGED <<channelVars, starVars, iteration>> PROVE Quiet'
  BY <1>0, <1>1 DEF Quiet, CanMove, AtStart, Doing, Live, Target, Empty, Room
<1>2. ASSUME NEW s \in mode.stars, StarStep(s) PROVE FALSE
  BY <1>0, <1>2 DEF StarStep, StarsMayRun
<1>3. CASE RunAllReturns
  BY <1>0, <1>1, <1>3 DEF RunAllReturns
<1>4. ASSUME NEW e \in BOOLEAN, RequestHalt(e) PROVE Quiet'
  BY <1>0, <1>1, <1>4 DEF RequestHalt, StarsHaveStopped
<1>5. CASE UNCHANGED vars
  BY <1>0, <1>1, <1>5 DEF vars, StarsHaveStopped
<1> QED
  BY <1>2, <1>3, <1>4, <1>5
     DEF Next, MainStep, Cancel, Setup, FinishWrapup, Enter, Loop, Check, Run, Cont, Wrapup

LEMMA InvInit == Init => IInv
  BY TypedInit, WritersInit DEF IInv, RunsAreScheduled, StarsHaveStopped, Init

LEMMA InvStep == IInv /\ [Next]_vars => IInv'
  BY TypedStep, WritersStep, ScheduledStep, StoppedStep DEF IInv

THEOREM Invariance == Spec => []IInv
  BY InvInit, InvStep, PTL DEF Spec

-----------------------------------------------------------------------------
(* Results *)

\* For any galaxy: whenever the scheduler is in control, numFull is the number
\* of the writers blocked in slowPut, whatever was cancelled, set up again,
\* halted or continued before.
THEOREM NumFullIsExact == Spec => []BlockedWritersAreCounted
<1>1. IInv => BlockedWritersAreCounted
  BY DEF IInv, WritersAreKnown, Deleting, BlockedWritersAreCounted
<1> QED
  BY <1>1, Invariance, PTL

\* For any galaxy: with priorities, an iteration that no halt cuts short leaves
\* no star waiting for room.
THEOREM IterationsEnd == Spec => IterationIsComplete
<1> DEFINE Ends == Strict /\ mpc = "check" /\ mpc' = "loop" /\ ~halt =>
        \A s \in mode.stars : Live(s) =>
            \/ AtStart(s) /\ fired[s] = iteration
            \/ Doing(s, "get") /\ Empty(Target(s))
<1>1. ASSUME IInv, [Next]_vars PROVE [Ends]_vars
  <2> SUFFICES ASSUME Strict, mpc = "check", mpc' = "loop", ~halt, NEW s \in mode.stars, Live(s)
      PROVE  \/ AtStart(s) /\ fired[s] = iteration
             \/ Doing(s, "get") /\ Empty(Target(s))
    OBVIOUS
  <2>1. Typed /\ s \in Star /\ ~CanMove(s)
    BY <1>1, ModeType DEF IInv, StarsHaveStopped, Quiet
  <2>2. numFull <= 0
    <3>1. Check
      BY <1>1 DEF Next, vars, mainVars, StarStep, Cancel, MainStep, Setup, FinishWrapup, Enter,
           Loop, RunAllReturns, Run, Cont, Wrapup, RequestHalt
    <3>2. ~WritersBlocked
      BY <3>1 DEF Check
    <3>3. numFull \in Nat
      BY <1>1, FS_CardinalityType DEF IInv, WritersAreKnown, RunsAreScheduled, Deleting
    <3> QED
      BY <3>2, <3>3 DEF WritersBlocked
  <2>3. BlockedWriters = {}
    BY <1>1, <2>2, FS_EmptySet, FS_CardinalityType
       DEF IInv, WritersAreKnown, RunsAreScheduled, Deleting
  <2>4. CASE code[s] = <<>>
    <3>1. AtStart(s) /\ ~(iteration > fired[s])
      BY <2>1, <2>4 DEF CanMove, AtStart
    <3>2. iteration \in Nat /\ fired[s] \in 0..iteration
      BY <2>1 DEF Typed
    <3> QED
      BY <3>1, <3>2
  <2>5. CASE code[s] # <<>>
    <3>1. Doing(s, "get") \/ Doing(s, "put")
      <4>1. Head(code[s]).op \in {"pre", "post", "get", "put"}
        BY <2>1, <2>5, CodeType DEF Operation
      <4> QED
        BY <2>1, <2>5, <4>1 DEF CanMove, Doing
    <3>2. ~Doing(s, "put")
      BY <2>1, <2>3 DEF CanMove, BlockedWriters
    <3> QED
      BY <2>1, <3>1, <3>2 DEF CanMove
  <2> QED
    BY <2>4, <2>5
<1> QED
  BY <1>1, Invariance, PTL DEF IterationIsComplete, Spec

\* For any galaxy: with priorities, a capacity is raised only on an artificial
\* deadlock, and then one of the smallest of the geodesics without room, by one.
THEOREM CapacitiesGrowWhenNeeded == Spec => GrowthIsNeeded
<1> DEFINE Grows == Strict /\ mpc = "check" /\ cap' # cap =>
        /\ Quiet
        /\ BlockedWriters # {}
        /\ \E g \in mode.arcs :
              /\ ~Room(g)
              /\ \A h \in mode.arcs : Room(h) \/ cap[h] >= cap[g]
              /\ cap' = [cap EXCEPT ![g] = @ + 1]
<1>1. ASSUME IInv, [Next]_vars PROVE [Grows]_vars
  <2> SUFFICES ASSUME Strict, mpc = "check", cap' # cap
      PROVE  Grows
    OBVIOUS
  <2>1. Typed /\ mode.arcs \subseteq Geodesic /\ Quiet
    BY <1>1, ModeType DEF IInv, StarsHaveStopped
  <2>2. Check
    BY <1>1 DEF Next, vars, channelVars, StarStep, StarsMayRun, Cancel, MainStep, Setup,
         FinishWrapup, Enter, Loop, RunAllReturns, Run, Cont, Wrapup, RequestHalt
  <2>3. WritersBlocked /\ IncreaseBuffers
    BY <2>2 DEF Check, channelVars
  <2>4. BlockedWriters # {}
    BY <1>1, <2>3, FS_EmptySet
       DEF IInv, WritersAreKnown, RunsAreScheduled, Deleting, WritersBlocked
  <2>5. PICK g \in ToIncrease : SetCapacity(g, cap[g] + 1)
    BY <2>3 DEF IncreaseBuffers, channelVars
  <2>6. /\ g \in FullGeodesics
        /\ \A h \in FullGeodesics : cap[g] <= cap[h]
    BY <2>5 DEF ToIncrease
  <2>7. \A h \in mode.arcs : h \in FullGeodesics <=> ~Room(h)
    <3>1. \A h \in mode.arcs : queue[h] \in Seq(Nat) /\ cap[h] \in Nat
      BY <2>1 DEF Typed
    <3> QED
      BY <3>1 DEF FullGeodesics, Room
  <2>8. \A h \in mode.arcs : Room(h) \/ cap[h] >= cap[g]
    <3>1. \A h \in mode.arcs : cap[h] \in Nat
      BY <2>1 DEF Typed
    <3>2. g \in mode.arcs
      BY <2>6 DEF FullGeodesics
    <3> QED
      BY <2>6, <2>7, <3>1, <3>2
  <2>9. cap' = [cap EXCEPT ![g] = @ + 1]
    BY <2>5 DEF SetCapacity
  <2> QED
    BY <2>1, <2>4, <2>6, <2>7, <2>8, <2>9 DEF FullGeodesics
<1> QED
  BY <1>1, Invariance, PTL DEF GrowthIsNeeded, Spec
=============================================================================
