-------------------------- MODULE PNGeodesicProofs --------------------------
(***************************************************************************)
(* Proofs about PNGeodesic, for any galaxy, any number of stars and any    *)
(* bounds.                                                                 *)
(***************************************************************************)
EXTENDS PNGeodesic, FiniteSetTheorems, TLAPS

\* A star inside slowPut is the one at the output port of the geodesic.
PortInUse ==
    \A s \in Star : pc[s] \in PutPoint => Src[at[s]] = s

\* What a writer has found out about the room on its geodesic stays true as
\* long as it keeps the monitor.
RoomIsStable ==
    \A s \in Star :
        /\ pc[s] \in {"incr", "incrStore"} => sz[at[s]] >= cap[at[s]]
        /\ pc[s] \in {"decr", "decrStore", "append"} => sz[at[s]] < cap[at[s]]

\* A thread inside the gate of numFull holds its value.
LocalIsNumFull ==
    \A s \in Star : pc[s] \in InFullGate => local[s] = numFull

IInv ==
    /\ TypeOK
    /\ MutualExclusion
    /\ InOrder
    /\ PortInUse
    /\ RoomIsStable
    /\ WithinCapacity
    /\ LocalIsNumFull
    /\ NumFullCountsWriters
    /\ NoLostWakeup

\* The particles of a new geodesic are 1, 2, ..., n.
LEMMA InitialParticlesType ==
  ASSUME NEW n \in Nat
  PROVE  /\ InitialParticles(n) \in Seq(Nat)
         /\ Len(InitialParticles(n)) = n
         /\ \A i \in 1..n : InitialParticles(n)[i] = i
  BY DEF InitialParticles

\* A counted writer is one of numFull.
LEMMA CountedIsPositive ==
  ASSUME NEW s \in Counted
  PROVE  Cardinality(Counted) \in Nat \ {0}
<1>1. IsFiniteSet(Counted)
  BY FS_Subset, StarAssumption DEF Counted
<1> QED
  BY <1>1, FS_CardinalityType, FS_EmptySet

\* Each action keeps the domains of the variables.
LEMMA TypeStep == IInv /\ [Next]_vars => TypeOK'
<1> SUFFICES ASSUME IInv, [Next]_vars PROVE TypeOK'
  OBVIOUS
<1> USE DEF IInv, TypeOK, Location, PutPoint, GetPoint, Goto, Lock, Unlock, LockFull,
            UnlockFull, NotifyNotEmpty, NotifyNotFull, geoVars, condVars, fullVars
<1>1. ASSUME NEW s \in Star, NEW g \in Geodesic, CallPut(s, g) PROVE TypeOK'
  BY <1>1 DEF CallPut
<1>2. ASSUME NEW s \in Star, EnterPut(s) PROVE TypeOK'
  BY <1>2 DEF EnterPut
<1>3. ASSUME NEW s \in Star, EnterFullGate(s) PROVE TypeOK'
  BY <1>3 DEF EnterFullGate
<1>4. ASSUME NEW s \in Star, IncrFull(s) PROVE TypeOK'
  <2>1. numFull' \in Nat
    BY <1>4 DEF IncrFull, NumFullUp
  <2> QED
    BY <1>4, <2>1 DEF IncrFull
<1>5. ASSUME NEW s \in Star, DecrFull(s) PROVE TypeOK'
  <2>1. numFull' \in Nat
    <3>1. s \in Counted /\ local[s] = numFull /\ numFull = Cardinality(Counted)
      BY <1>5 DEF DecrFull, LocalIsNumFull, NumFullCountsWriters, Counted, InFullGate
    <3> QED
      BY <1>5, <3>1, CountedIsPositive DEF DecrFull
  <2> QED
    BY <1>5, <2>1 DEF DecrFull
<1>6. ASSUME NEW s \in Star, WaitFull(s) PROVE TypeOK'
  BY <1>6 DEF WaitFull
<1>7. ASSUME NEW s \in Star, LeaveFullLoop(s) PROVE TypeOK'
  BY <1>7 DEF LeaveFullLoop
<1>8. ASSUME NEW s \in Star, PutTail(s) PROVE TypeOK'
  <2>1. WithTail(at[s]) \in Seq(Nat)
    BY DEF WithTail
  <2>2. pstack' \in [Geodesic -> Seq(Nat)]
    <3>1. /\ pstack' = [pstack EXCEPT ![at[s]] = WithTail(at[s])]
          /\ pstack \in [Geodesic -> Seq(Nat)]
      BY <1>8 DEF PutTail
    <3> QED
      BY ONLY <2>1, <3>1
  <2>3. sz' \in [Geodesic -> Nat] /\ sent' \in [Geodesic -> Nat]
    <3>1. /\ at[s] \in Geodesic
          /\ sz' = [sz EXCEPT ![at[s]] = @ + 1] /\ sz \in [Geodesic -> Nat]
          /\ sent' = [sent EXCEPT ![at[s]] = @ + 1] /\ sent \in [Geodesic -> Nat]
      BY <1>8 DEF PutTail
    <3> QED
      BY ONLY <3>1
  <2> QED
    BY <1>8, <2>2, <2>3 DEF PutTail
<1>9. ASSUME NEW s \in Star, NEW g \in Geodesic, CallGet(s, g) PROVE TypeOK'
  BY <1>9 DEF CallGet
<1>10. ASSUME NEW s \in Star, EnterGet(s) PROVE TypeOK'
  BY <1>10 DEF EnterGet
<1>11. ASSUME NEW s \in Star, WaitEmpty(s) PROVE TypeOK'
  BY <1>11 DEF WaitEmpty
<1>12. ASSUME NEW s \in Star, TakeHead(s) PROVE TypeOK'
  <2>1. Tail(pstack[at[s]]) \in Seq(Nat) /\ sz[at[s]] - 1 \in Nat
    BY <1>12, SMTT(30) DEF TakeHead, InOrder
  <2>2. pstack' \in [Geodesic -> Seq(Nat)] /\ sz' \in [Geodesic -> Nat]
    BY <1>12, <2>1 DEF TakeHead
  <2>3. rcvd' \in [Geodesic -> Nat] /\ notFull' \in [Geodesic -> SUBSET Star]
    BY <1>12, SMTT(30) DEF TakeHead
  <2> QED
    BY <1>12, <2>2, <2>3 DEF TakeHead
<1>13. ASSUME NEW s \in Star, Wake(s) PROVE TypeOK'
  BY <1>13 DEF Wake, AfterWait
<1>14. ASSUME NEW s \in Star, SpuriousWakeup(s) PROVE TypeOK'
  BY <1>14 DEF SpuriousWakeup
<1>15. ASSUME NEW s \in Star, Cancel(s) PROVE TypeOK'
  BY <1>15 DEF Cancel, CleanupHandler
<1>16. ASSUME NEW g \in Geodesic, NEW c \in (cap[g] + 1)..MaxCap, SetCapacity(g, c)
       PROVE  TypeOK'
  <2>1. c \in Nat
    OBVIOUS
  <2> QED
    BY <1>16, <2>1 DEF SetCapacity
<1>17. CASE DeleteThreads
  BY <1>17 DEF DeleteThreads
<1>18. CASE Setup
  <2>1. pstack' \in [Geodesic -> Seq(Nat)]
    BY <1>18, InitialParticlesType, NumInitAssumption DEF Setup
  <2> QED
    BY <1>18, <2>1, NumInitAssumption DEF Setup, ResetFull
<1>19. CASE UNCHANGED vars
  BY <1>19 DEF vars
<1> QED
  BY <1>1, <1>2, <1>3, <1>4, <1>5, <1>6, <1>7, <1>8, <1>9, <1>10, <1>11, <1>12,
     <1>13, <1>14, <1>15, <1>16, <1>17, <1>18, <1>19 DEF Next, StarStep

\* Taking the free monitor of at[s] keeps the gates exclusive.
LEMMA Acquire ==
  ASSUME TypeOK, MutualExclusion, NEW s \in Star, NEW l \in InGate \ InFullGate,
         pc[s] \notin InGate, Lock(s), Goto(s, l), UNCHANGED <<at, fullGate>>
  PROVE  MutualExclusion'
<1> USE DEF TypeOK, MutualExclusion, Lock, Goto
<1>1. ASSUME NEW t \in Star, pc'[t] \in InGate
      PROVE  gate'[at'[t]] = t
  <2>1. CASE t = s
    BY <2>1
  <2>2. CASE t # s
    <3>1. gate[at[t]] = t
      BY <1>1, <2>2
    <3>2. at[t] # at[s]
      BY <3>1, StarAssumption
    <3> QED
      BY <3>1, <3>2
  <2> QED
    BY <2>1, <2>2
<1>2. ASSUME NEW g \in Geodesic, gate'[g] \in Star
      PROVE  pc'[gate'[g]] \in InGate /\ at'[gate'[g]] = g
  <2>1. CASE g = at[s]
    BY <2>1
  <2>2. CASE g # at[s]
    <3>1. gate'[g] = gate[g] /\ pc[gate[g]] \in InGate /\ at[gate[g]] = g
      BY <1>2, <2>2
    <3>2. gate[g] # s
      BY <2>2, <3>1
    <3> QED
      BY <1>2, <3>1, <3>2
  <2> QED
    BY <2>1, <2>2
<1>3. ASSUME NEW t \in Star
      PROVE  pc'[t] \in InFullGate <=> fullGate' = t
  <2>1. InFullGate \subseteq InGate
    BY DEF InFullGate, InGate
  <2>2. CASE t = s
    BY <2>1, <2>2
  <2>3. CASE t # s
    BY <2>3
  <2> QED
    BY <2>2, <2>3
<1> QED
  BY <1>1, <1>2, <1>3

\* A step of a star that is, before and after, outside the gates.
LEMMA StayOutside ==
  ASSUME TypeOK, MutualExclusion, NEW s \in Star, NEW l \in Location \ InGate,
         NEW h \in Geodesic, pc[s] \notin InGate, Goto(s, l),
         at' = [at EXCEPT ![s] = h], UNCHANGED <<gate, fullGate>>
  PROVE  MutualExclusion'
<1> USE DEF TypeOK, MutualExclusion, Goto
<1>1. ASSUME NEW t \in Star, pc'[t] \in InGate
      PROVE  gate'[at'[t]] = t
  <2>1. t # s /\ pc'[t] = pc[t] /\ at'[t] = at[t]
    BY <1>1
  <2> QED
    BY <1>1, <2>1
<1>2. ASSUME NEW g \in Geodesic, gate'[g] \in Star
      PROVE  pc'[gate'[g]] \in InGate /\ at'[gate'[g]] = g
  <2>1. pc[gate[g]] \in InGate /\ at[gate[g]] = g /\ gate[g] # s
    BY <1>2
  <2> QED
    BY <1>2, <2>1
<1>3. ASSUME NEW t \in Star
      PROVE  pc'[t] \in InFullGate <=> fullGate' = t
  <2>1. InFullGate \subseteq InGate
    BY DEF InFullGate, InGate
  <2>2. CASE t = s
    BY <2>1, <2>2
  <2>3. CASE t # s
    BY <2>3
  <2> QED
    BY <2>2, <2>3
<1> QED
  BY <1>1, <1>2, <1>3

\* A step by which a star leaves the monitor of at[s].
LEMMA Release ==
  ASSUME TypeOK, MutualExclusion, NEW s \in Star, NEW l \in Location \ InGate,
         pc[s] \in InGate \ InFullGate, Goto(s, l), Unlock(s),
         UNCHANGED <<at, fullGate>>
  PROVE  MutualExclusion'
<1> USE DEF TypeOK, MutualExclusion, Goto, Unlock
<1>1. ASSUME NEW t \in Star, pc'[t] \in InGate
      PROVE  gate'[at'[t]] = t
  <2>1. t # s /\ pc[t] \in InGate /\ gate[at[t]] = t /\ at'[t] = at[t]
    BY <1>1
  <2>2. at[t] # at[s]
    BY <2>1
  <2> QED
    BY <2>1, <2>2
<1>2. ASSUME NEW g \in Geodesic, gate'[g] \in Star
      PROVE  pc'[gate'[g]] \in InGate /\ at'[gate'[g]] = g
  <2>1. g # at[s] /\ gate'[g] = gate[g]
    BY <1>2, StarAssumption
  <2>2. pc[gate[g]] \in InGate /\ at[gate[g]] = g /\ gate[g] # s
    BY <1>2, <2>1
  <2> QED
    BY <1>2, <2>1, <2>2
<1>3. ASSUME NEW t \in Star
      PROVE  pc'[t] \in InFullGate <=> fullGate' = t
  <2>1. InFullGate \subseteq InGate
    BY DEF InFullGate, InGate
  <2>2. CASE t = s
    BY <2>1, <2>2
  <2>3. CASE t # s
    BY <2>3
  <2> QED
    BY <2>2, <2>3
<1> QED
  BY <1>1, <1>2, <1>3

\* A step inside the monitor of at[s] that stays there and may take or leave
\* the gate of numFull.
LEMMA StayInside ==
  ASSUME TypeOK, MutualExclusion, NEW s \in Star, NEW l \in InGate,
         pc[s] \in InGate, Goto(s, l), UNCHANGED <<gate, at>>,
         \/ pc[s] \notin InFullGate /\ l \notin InFullGate /\ UNCHANGED fullGate
         \/ fullGate = NoThread /\ l \in InFullGate /\ fullGate' = s
         \/ pc[s] \in InFullGate /\ l \notin InFullGate /\ fullGate' = NoThread
  PROVE  MutualExclusion'
<1> USE DEF TypeOK, MutualExclusion, Goto
<1>1. ASSUME NEW t \in Star, pc'[t] \in InGate
      PROVE  gate'[at'[t]] = t
  BY <1>1
<1>2. ASSUME NEW g \in Geodesic, gate'[g] \in Star
      PROVE  pc'[gate'[g]] \in InGate /\ at'[gate'[g]] = g
  BY <1>2
<1>3. ASSUME NEW t \in Star
      PROVE  pc'[t] \in InFullGate <=> fullGate' = t
  BY StarAssumption
<1> QED
  BY <1>1, <1>2, <1>3

\* Each action keeps monitors and the gate of numFull exclusive.
LEMMA MutexStep == TypeOK /\ MutualExclusion /\ [Next]_vars => MutualExclusion'
<1> SUFFICES ASSUME TypeOK, MutualExclusion, [Next]_vars
             PROVE  MutualExclusion'
  OBVIOUS
<1> USE DEF InGate, InFullGate, fullVars
<1>a. \A s \in Star : at[s] \in Geodesic /\ [at EXCEPT ![s] = at[s]] = at
  BY DEF TypeOK
<1>1. ASSUME NEW s \in Star, NEW g \in Geodesic, CallPut(s, g) \/ CallGet(s, g)
      PROVE  MutualExclusion'
  BY <1>1, StayOutside DEF CallPut, CallGet, Location, PutPoint, GetPoint
<1>2. ASSUME NEW s \in Star, EnterPut(s) PROVE MutualExclusion'
  <2>1. PICK l \in {"incr", "append"} : Goto(s, l)
    BY <1>2 DEF EnterPut
  <2> QED
    BY <1>2, <2>1, Acquire DEF EnterPut
<1>3. ASSUME NEW s \in Star, EnterFullGate(s) PROVE MutualExclusion'
  <2>1. PICK l \in InFullGate : Goto(s, l)
    BY <1>3 DEF EnterFullGate
  <2> QED
    BY <1>3, <2>1, StayInside DEF EnterFullGate, LockFull
<1>4. ASSUME NEW s \in Star, IncrFull(s) PROVE MutualExclusion'
  BY <1>4, StayInside DEF IncrFull, UnlockFull
<1>5. ASSUME NEW s \in Star, DecrFull(s) PROVE MutualExclusion'
  BY <1>5, StayInside DEF DecrFull, UnlockFull
<1>6. ASSUME NEW s \in Star, LeaveFullLoop(s) PROVE MutualExclusion'
  BY <1>6, StayInside DEF LeaveFullLoop
<1>7. ASSUME NEW s \in Star, WaitFull(s) \/ WaitEmpty(s) PROVE MutualExclusion'
  BY <1>7, Release DEF WaitFull, WaitEmpty, Location, PutPoint, GetPoint
<1>8. ASSUME NEW s \in Star, PutTail(s) PROVE MutualExclusion'
  BY <1>8, Release DEF PutTail, Location
<1>9. ASSUME NEW s \in Star, TakeHead(s) PROVE MutualExclusion'
  BY <1>9, Release DEF TakeHead, Location
<1>10. ASSUME NEW s \in Star, EnterGet(s) PROVE MutualExclusion'
  BY <1>10, Acquire DEF EnterGet
<1>11. ASSUME NEW s \in Star, Wake(s) PROVE MutualExclusion'
  <2>1. PICK l \in {"fullLoop", "emptyLoop"} : Goto(s, l)
    BY <1>11 DEF Wake, AfterWait
  <2> QED
    BY <1>11, <2>1, Acquire DEF Wake, Waiting
<1>12. ASSUME NEW s \in Star, Cancel(s) PROVE MutualExclusion'
  <2>1. PICK l \in Cancelled : Goto(s, l)
    BY <1>12 DEF Cancel, Cancelled
  <2>2. l \in Location \ InGate /\ pc[s] \notin InGate
    BY <1>12 DEF Cancel, Cancelled, Waiting, Location, PutPoint
  <2>3. UNCHANGED <<gate, fullGate, at>>
    BY <1>12 DEF Cancel, CleanupHandler
  <2> QED
    BY <1>a, <2>1, <2>2, <2>3, StayOutside
<1>13. CASE Setup
  BY <1>13, StarAssumption DEF Setup, MutualExclusion
<1>14. ASSUME UNCHANGED <<gate, fullGate, pc, at>> PROVE MutualExclusion'
  BY <1>14 DEF MutualExclusion
<1> QED
  BY <1>1, <1>2, <1>3, <1>4, <1>5, <1>6, <1>7, <1>8, <1>9, <1>10, <1>11, <1>12,
     <1>13, <1>14
     DEF Next, StarStep, SpuriousWakeup, SetCapacity, DeleteThreads, vars

\* Each action keeps writers at their output ports.
LEMMA PortInUseStep == TypeOK /\ PortInUse /\ [Next]_vars => PortInUse'
<1> SUFFICES ASSUME TypeOK /\ PortInUse, [Next]_vars PROVE PortInUse'
  OBVIOUS
<1> USE DEF TypeOK, PortInUse, PutPoint, GetPoint, Goto, Waiting, Cancelled
<1>1. ASSUME NEW s \in Star, NEW g \in Geodesic, CallPut(s, g)
      PROVE  PortInUse'
  BY <1>1 DEF CallPut
<1>2. ASSUME NEW s \in Star, EnterPut(s) PROVE PortInUse'
  BY <1>2 DEF EnterPut
<1>3. ASSUME NEW s \in Star, EnterFullGate(s) PROVE PortInUse'
  BY <1>3 DEF EnterFullGate
<1>4. ASSUME NEW s \in Star, IncrFull(s) PROVE PortInUse'
  BY <1>4 DEF IncrFull, NumFullUp
<1>5. ASSUME NEW s \in Star, DecrFull(s) PROVE PortInUse'
  BY <1>5 DEF DecrFull
<1>6. ASSUME NEW s \in Star, WaitFull(s) PROVE PortInUse'
  BY <1>6 DEF WaitFull
<1>7. ASSUME NEW s \in Star, LeaveFullLoop(s) PROVE PortInUse'
  BY <1>7 DEF LeaveFullLoop
<1>8. ASSUME NEW s \in Star, PutTail(s) PROVE PortInUse'
  BY <1>8 DEF PutTail, WithTail
<1>9. ASSUME NEW s \in Star, NEW g \in Geodesic, CallGet(s, g)
      PROVE  PortInUse'
  BY <1>9 DEF CallGet
<1>10. ASSUME NEW s \in Star, EnterGet(s) PROVE PortInUse'
  BY <1>10 DEF EnterGet
<1>11. ASSUME NEW s \in Star, WaitEmpty(s) PROVE PortInUse'
  BY <1>11 DEF WaitEmpty
<1>12. ASSUME NEW s \in Star, TakeHead(s) PROVE PortInUse'
  BY <1>12 DEF TakeHead
<1>13. ASSUME NEW s \in Star, Wake(s) PROVE PortInUse'
  BY <1>13 DEF Wake, AfterWait
<1>14. ASSUME NEW s \in Star, SpuriousWakeup(s) PROVE PortInUse'
  BY <1>14 DEF SpuriousWakeup
<1>15. ASSUME NEW s \in Star, Cancel(s) PROVE PortInUse'
  BY <1>15 DEF Cancel, CleanupHandler
<1>16. ASSUME NEW g \in Geodesic, NEW c \in (cap[g] + 1)..MaxCap, SetCapacity(g, c)
      PROVE  PortInUse'
  BY <1>16 DEF SetCapacity
<1>17. CASE DeleteThreads
  BY <1>17 DEF DeleteThreads
<1>18. CASE Setup
  BY <1>18 DEF Setup, ResetFull
<1>19. CASE UNCHANGED vars
  BY <1>19 DEF vars
<1> QED
  BY <1>1, <1>2, <1>3, <1>4, <1>5, <1>6, <1>7, <1>8, <1>9, <1>10, <1>11, <1>12,
     <1>13, <1>14, <1>15, <1>16, <1>17, <1>18, <1>19 DEF Next, StarStep

\* Nobody changes sz or cap under a writer that holds the monitor.
LEMMA RoomIsStableStep ==
  TypeOK /\ MutualExclusion /\ RoomIsStable /\ [Next]_vars => RoomIsStable'
<1> SUFFICES ASSUME TypeOK, MutualExclusion, RoomIsStable, [Next]_vars
             PROVE  RoomIsStable'
  OBVIOUS
<1> USE DEF TypeOK, MutualExclusion, InGate, RoomIsStable, Goto, Waiting, Cancelled,
            geoVars
<1>1. ASSUME NEW s \in Star, NEW g \in Geodesic, CallPut(s, g)
      PROVE  RoomIsStable'
  BY <1>1, SMTT(30) DEF CallPut
<1>2. ASSUME NEW s \in Star, EnterPut(s) PROVE RoomIsStable'
  BY <1>2, SMTT(30) DEF EnterPut
<1>3. ASSUME NEW s \in Star, EnterFullGate(s) PROVE RoomIsStable'
  BY <1>3, SMTT(30) DEF EnterFullGate
<1>4. ASSUME NEW s \in Star, IncrFull(s) PROVE RoomIsStable'
  BY <1>4, SMTT(30) DEF IncrFull, NumFullUp
<1>5. ASSUME NEW s \in Star, DecrFull(s) PROVE RoomIsStable'
  BY <1>5, SMTT(30) DEF DecrFull
<1>6. ASSUME NEW s \in Star, WaitFull(s) PROVE RoomIsStable'
  BY <1>6, SMTT(30) DEF WaitFull
<1>7. ASSUME NEW s \in Star, LeaveFullLoop(s) PROVE RoomIsStable'
  BY <1>7, SMTT(30) DEF LeaveFullLoop
<1>8. ASSUME NEW s \in Star, PutTail(s) PROVE RoomIsStable'
  BY <1>8, StarAssumption, SMTT(30) DEF PutTail, WithTail
<1>9. ASSUME NEW s \in Star, NEW g \in Geodesic, CallGet(s, g)
      PROVE  RoomIsStable'
  BY <1>9, SMTT(30) DEF CallGet
<1>10. ASSUME NEW s \in Star, EnterGet(s) PROVE RoomIsStable'
  BY <1>10, SMTT(30) DEF EnterGet
<1>11. ASSUME NEW s \in Star, WaitEmpty(s) PROVE RoomIsStable'
  BY <1>11, SMTT(30) DEF WaitEmpty
<1>12. ASSUME NEW s \in Star, TakeHead(s) PROVE RoomIsStable'
  BY <1>12, StarAssumption, SMTT(30) DEF TakeHead
<1>13. ASSUME NEW s \in Star, Wake(s) PROVE RoomIsStable'
  BY <1>13, SMTT(30) DEF Wake, AfterWait
<1>14. ASSUME NEW s \in Star, SpuriousWakeup(s) PROVE RoomIsStable'
  BY <1>14 DEF SpuriousWakeup
<1>15. ASSUME NEW s \in Star, Cancel(s) PROVE RoomIsStable'
  <2>1. PICK l \in Cancelled : pc' = [pc EXCEPT ![s] = l]
    BY <1>15 DEF Cancel
  <2>2. UNCHANGED <<sz, cap, at>>
    BY <1>15 DEF Cancel
  <2> QED
    BY <2>1, <2>2
<1>16. ASSUME NEW g \in Geodesic, NEW c \in (cap[g] + 1)..MaxCap, SetCapacity(g, c)
      PROVE  RoomIsStable'
  <2>1. ASSUME NEW t \in Star, pc[t] \in InGate
        PROVE  at[t] # g
    BY <1>16, <2>1, StarAssumption DEF SetCapacity
  <2>2. \A t \in Star : pc[t] \in InGate => cap'[at[t]] = cap[at[t]]
    BY <1>16, <2>1 DEF SetCapacity
  <2> QED
    BY <1>16, <2>2 DEF SetCapacity
<1>17. CASE DeleteThreads
  BY <1>17 DEF DeleteThreads
<1>18. CASE Setup
  BY <1>18, StarAssumption DEF Setup, ResetFull
<1>19. CASE UNCHANGED vars
  BY <1>19 DEF vars
<1> QED
  BY <1>1, <1>2, <1>3, <1>4, <1>5, <1>6, <1>7, <1>8, <1>9, <1>10, <1>11, <1>12,
     <1>13, <1>14, <1>15, <1>16, <1>17, <1>18, <1>19 DEF Next, StarStep

\* Whoever makes room or brings a particle wakes the sleepers.
LEMMA NoLostWakeupStep == TypeOK /\ NoLostWakeup /\ [Next]_vars => NoLostWakeup'
<1> SUFFICES ASSUME TypeOK /\ NoLostWakeup, [Next]_vars PROVE NoLostWakeup'
  OBVIOUS
<1> USE DEF TypeOK, NoLostWakeup, Goto, Waiting, Cancelled, geoVars, condVars,
            NotifyNotFull, NotifyNotEmpty
<1>1. ASSUME NEW s \in Star, NEW g \in Geodesic, CallPut(s, g)
      PROVE  NoLostWakeup'
  BY <1>1 DEF CallPut
<1>2. ASSUME NEW s \in Star, EnterPut(s) PROVE NoLostWakeup'
  BY <1>2 DEF EnterPut
<1>3. ASSUME NEW s \in Star, EnterFullGate(s) PROVE NoLostWakeup'
  BY <1>3 DEF EnterFullGate
<1>4. ASSUME NEW s \in Star, IncrFull(s) PROVE NoLostWakeup'
  BY <1>4 DEF IncrFull, NumFullUp
<1>5. ASSUME NEW s \in Star, DecrFull(s) PROVE NoLostWakeup'
  BY <1>5 DEF DecrFull
<1>6. ASSUME NEW s \in Star, WaitFull(s) PROVE NoLostWakeup'
  BY <1>6 DEF WaitFull
<1>7. ASSUME NEW s \in Star, LeaveFullLoop(s) PROVE NoLostWakeup'
  BY <1>7 DEF LeaveFullLoop
<1>8. ASSUME NEW s \in Star, PutTail(s) PROVE NoLostWakeup'
  BY <1>8, SMTT(30) DEF PutTail, WithTail
<1>9. ASSUME NEW s \in Star, NEW g \in Geodesic, CallGet(s, g)
      PROVE  NoLostWakeup'
  BY <1>9 DEF CallGet
<1>10. ASSUME NEW s \in Star, EnterGet(s) PROVE NoLostWakeup'
  BY <1>10 DEF EnterGet
<1>11. ASSUME NEW s \in Star, WaitEmpty(s) PROVE NoLostWakeup'
  BY <1>11 DEF WaitEmpty
<1>12. ASSUME NEW s \in Star, TakeHead(s) PROVE NoLostWakeup'
  BY <1>12, SMTT(30) DEF TakeHead
<1>13. ASSUME NEW s \in Star, Wake(s) PROVE NoLostWakeup'
  BY <1>13 DEF Wake, AfterWait
<1>14. ASSUME NEW s \in Star, SpuriousWakeup(s) PROVE NoLostWakeup'
  BY <1>14 DEF SpuriousWakeup
<1>15. ASSUME NEW s \in Star, Cancel(s) PROVE NoLostWakeup'
  BY <1>15 DEF Cancel, CleanupHandler
<1>16. ASSUME NEW g \in Geodesic, NEW c \in (cap[g] + 1)..MaxCap, SetCapacity(g, c)
      PROVE  NoLostWakeup'
  BY <1>16, SMTT(30) DEF SetCapacity
<1>17. CASE DeleteThreads
  BY <1>17 DEF DeleteThreads
<1>18. CASE Setup
  BY <1>18 DEF Setup, ResetFull
<1>19. CASE UNCHANGED vars
  BY <1>19 DEF vars
<1> QED
  BY <1>1, <1>2, <1>3, <1>4, <1>5, <1>6, <1>7, <1>8, <1>9, <1>10, <1>11, <1>12,
     <1>13, <1>14, <1>15, <1>16, <1>17, <1>18, <1>19 DEF Next, StarStep

\* The particles on a geodesic change only where the code changes them.
LEMMA QueueFrame ==
  ASSUME [Next]_vars
  PROVE  \/ UNCHANGED <<pstack, sz, sent, rcvd>>
         \/ \E s \in Star : PutTail(s) \/ TakeHead(s)
         \/ Setup
<1> USE DEF geoVars
<1>1. ASSUME NEW s \in Star, StarStep(s), ~PutTail(s), ~TakeHead(s)
      PROVE  UNCHANGED geoVars
  BY <1>1 DEF StarStep, EnterPut, EnterFullGate, IncrFull, DecrFull, WaitFull,
     LeaveFullLoop, EnterGet, WaitEmpty, Wake
<1> QED
  BY <1>1 DEF Next, vars, CallPut, CallGet, SpuriousWakeup, Cancel, SetCapacity,
     DeleteThreads

\* Each action keeps sz, pstack and the two counts of particles in step.
LEMMA InOrderStep == TypeOK /\ InOrder /\ [Next]_vars => InOrder'
<1> SUFFICES ASSUME TypeOK, InOrder, [Next]_vars, NEW g \in Geodesic
             PROVE  /\ sz'[g] = Len(pstack'[g])
                    /\ sent'[g] = rcvd'[g] + sz'[g]
                    /\ \A i \in 1..Len(pstack'[g]) : pstack'[g][i] = rcvd'[g] + i
  BY DEF InOrder
<1>a. /\ pstack[g] \in Seq(Nat) /\ sz[g] \in Nat /\ sent[g] \in Nat /\ rcvd[g] \in Nat
      /\ sz[g] = Len(pstack[g])
      /\ sent[g] = rcvd[g] + sz[g]
      /\ \A i \in 1..Len(pstack[g]) : pstack[g][i] = rcvd[g] + i
  BY DEF TypeOK, InOrder
<1>1. CASE UNCHANGED <<pstack, sz, sent, rcvd>>
  BY <1>1, <1>a
<1>2. ASSUME NEW s \in Star, PutTail(s), at[s] = g
      PROVE  /\ sz'[g] = Len(pstack'[g])
             /\ sent'[g] = rcvd'[g] + sz'[g]
             /\ \A i \in 1..Len(pstack'[g]) : pstack'[g][i] = rcvd'[g] + i
  <2>1. /\ pstack'[g] = Append(pstack[g], sent[g] + 1)
        /\ sz'[g] = sz[g] + 1 /\ sent'[g] = sent[g] + 1 /\ rcvd'[g] = rcvd[g]
    BY <1>2 DEF PutTail, WithTail, TypeOK
  <2> QED
    BY <1>a, <2>1, SMTT(30)
<1>3. ASSUME NEW s \in Star, TakeHead(s), at[s] = g
      PROVE  /\ sz'[g] = Len(pstack'[g])
             /\ sent'[g] = rcvd'[g] + sz'[g]
             /\ \A i \in 1..Len(pstack'[g]) : pstack'[g][i] = rcvd'[g] + i
  <2>1. /\ pstack'[g] = Tail(pstack[g]) /\ sz[g] >= 1
        /\ sz'[g] = sz[g] - 1 /\ sent'[g] = sent[g] /\ rcvd'[g] = rcvd[g] + 1
    BY <1>3 DEF TakeHead, TypeOK
  <2>2. /\ Len(pstack'[g]) = Len(pstack[g]) - 1
        /\ \A i \in 1..Len(pstack'[g]) : pstack'[g][i] = pstack[g][i + 1]
    BY <1>a, <2>1
  <2>3. sz'[g] = Len(pstack'[g]) /\ sent'[g] = rcvd'[g] + sz'[g]
    BY <1>a, <2>1, <2>2
  <2>4. ASSUME NEW i \in 1..Len(pstack'[g])
        PROVE  pstack'[g][i] = rcvd'[g] + i
    <3>1. i \in Nat /\ i + 1 \in 1..Len(pstack[g])
      BY <1>a, <2>1, <2>2
    <3> QED
      BY <1>a, <2>1, <2>2, <3>1, SMTT(30)
  <2> QED
    BY <2>3, <2>4
<1>4. ASSUME NEW s \in Star, PutTail(s) \/ TakeHead(s), at[s] # g
      PROVE  /\ pstack'[g] = pstack[g] /\ sz'[g] = sz[g]
             /\ sent'[g] = sent[g] /\ rcvd'[g] = rcvd[g]
  BY <1>4, SMTT(30) DEF PutTail, TakeHead, TypeOK
<1>5. CASE Setup
  <2>1. /\ pstack'[g] = InitialParticles(NumInit[g])
        /\ sz'[g] = NumInit[g] /\ sent'[g] = NumInit[g] /\ rcvd'[g] = 0
        /\ NumInit[g] \in Nat
    BY <1>5, NumInitAssumption DEF Setup
  <2>2. /\ Len(pstack'[g]) = NumInit[g]
        /\ \A i \in 1..NumInit[g] : pstack'[g][i] = i
    BY <2>1, InitialParticlesType
  <2> QED
    BY <2>1, <2>2
<1> QED
  BY <1>1, <1>2, <1>3, <1>4, <1>5, <1>a, QueueFrame

\* Each action keeps slowPut within the capacity.
LEMMA WithinCapacityStep ==
  TypeOK /\ RoomIsStable /\ WithinCapacity /\ [Next]_vars => WithinCapacity'
<1> SUFFICES ASSUME TypeOK, RoomIsStable, WithinCapacity, [Next]_vars,
                    NEW g \in Geodesic
             PROVE  sz'[g] <= cap'[g] \/ sz'[g] <= NumInit[g]
  BY DEF WithinCapacity
<1>a. /\ sz[g] <= cap[g] \/ sz[g] <= NumInit[g]
      /\ sz[g] \in Nat /\ cap[g] \in Nat /\ NumInit[g] \in Nat
  BY NumInitAssumption DEF WithinCapacity, TypeOK
<1>1. CASE UNCHANGED <<sz, cap>>
  BY <1>1, <1>a
<1>2. ASSUME NEW s \in Star, PutTail(s)
      PROVE  sz'[g] <= cap'[g] \/ sz'[g] <= NumInit[g]
  <2>1. sz[at[s]] < cap[at[s]] /\ cap' = cap
    BY <1>2 DEF PutTail, RoomIsStable
  <2>2. sz'[g] = IF at[s] = g THEN sz[g] + 1 ELSE sz[g]
    BY <1>2 DEF PutTail, TypeOK
  <2> QED
    BY <1>a, <2>1, <2>2
<1>3. ASSUME NEW s \in Star, TakeHead(s)
      PROVE  sz'[g] <= cap'[g] \/ sz'[g] <= NumInit[g]
  <2>1. cap' = cap /\ sz'[g] = IF at[s] = g THEN sz[g] - 1 ELSE sz[g]
    BY <1>3 DEF TakeHead, TypeOK
  <2> QED
    BY <1>a, <2>1
<1>4. ASSUME NEW h \in Geodesic, NEW c \in (cap[h] + 1)..MaxCap, SetCapacity(h, c)
      PROVE  sz'[g] <= cap'[g] \/ sz'[g] <= NumInit[g]
  <2>1. sz' = sz /\ c > cap[h] /\ cap'[g] = IF h = g THEN c ELSE cap[g]
    BY <1>4, SMTT(30) DEF SetCapacity, TypeOK
  <2>2. cap'[g] >= cap[g]
    BY <2>1, <1>a
  <2> QED
    BY <1>a, <2>1, <2>2
<1>5. CASE Setup
  BY <1>5, <1>a DEF Setup
<1>6. ASSUME NEW s \in Star, StarStep(s), ~PutTail(s), ~TakeHead(s)
      PROVE  UNCHANGED <<sz, cap>>
  BY <1>6 DEF StarStep, EnterPut, EnterFullGate, IncrFull, DecrFull, WaitFull,
     LeaveFullLoop, EnterGet, WaitEmpty, Wake, geoVars
<1> QED
  BY <1>1, <1>2, <1>3, <1>4, <1>5, <1>6 DEF Next, vars, CallPut, CallGet,
     SpuriousWakeup, Cancel, DeleteThreads, geoVars

\* Nobody changes numFull under a thread inside its gate.
LEMMA LocalStep ==
  TypeOK /\ MutualExclusion /\ LocalIsNumFull /\ [Next]_vars => LocalIsNumFull'
<1> SUFFICES ASSUME TypeOK, MutualExclusion, LocalIsNumFull, [Next]_vars
             PROVE  LocalIsNumFull'
  OBVIOUS
<1> USE DEF TypeOK, MutualExclusion, LocalIsNumFull, InFullGate, Goto, Waiting,
            Cancelled, fullVars
<1>1. ASSUME NEW s \in Star, NEW g \in Geodesic, CallPut(s, g)
      PROVE  LocalIsNumFull'
  BY <1>1 DEF CallPut
<1>2. ASSUME NEW s \in Star, EnterPut(s) PROVE LocalIsNumFull'
  BY <1>2 DEF EnterPut
<1>3. ASSUME NEW s \in Star, EnterFullGate(s) PROVE LocalIsNumFull'
  BY <1>3 DEF EnterFullGate
<1>4. ASSUME NEW s \in Star, IncrFull(s) PROVE LocalIsNumFull'
  BY <1>4 DEF IncrFull, NumFullUp
<1>5. ASSUME NEW s \in Star, DecrFull(s) PROVE LocalIsNumFull'
  BY <1>5 DEF DecrFull
<1>6. ASSUME NEW s \in Star, WaitFull(s) PROVE LocalIsNumFull'
  BY <1>6 DEF WaitFull
<1>7. ASSUME NEW s \in Star, LeaveFullLoop(s) PROVE LocalIsNumFull'
  BY <1>7 DEF LeaveFullLoop
<1>8. ASSUME NEW s \in Star, PutTail(s) PROVE LocalIsNumFull'
  BY <1>8 DEF PutTail, WithTail
<1>9. ASSUME NEW s \in Star, NEW g \in Geodesic, CallGet(s, g)
      PROVE  LocalIsNumFull'
  BY <1>9 DEF CallGet
<1>10. ASSUME NEW s \in Star, EnterGet(s) PROVE LocalIsNumFull'
  BY <1>10 DEF EnterGet
<1>11. ASSUME NEW s \in Star, WaitEmpty(s) PROVE LocalIsNumFull'
  BY <1>11 DEF WaitEmpty
<1>12. ASSUME NEW s \in Star, TakeHead(s) PROVE LocalIsNumFull'
  BY <1>12 DEF TakeHead
<1>13. ASSUME NEW s \in Star, Wake(s) PROVE LocalIsNumFull'
  BY <1>13 DEF Wake, AfterWait
<1>14. ASSUME NEW s \in Star, SpuriousWakeup(s) PROVE LocalIsNumFull'
  BY <1>14 DEF SpuriousWakeup
<1>15. ASSUME NEW s \in Star, Cancel(s) PROVE LocalIsNumFull'
  BY <1>15, SMTT(30) DEF Cancel, CleanupHandler
<1>16. ASSUME NEW g \in Geodesic, NEW c \in (cap[g] + 1)..MaxCap, SetCapacity(g, c)
      PROVE  LocalIsNumFull'
  BY <1>16 DEF SetCapacity
<1>17. CASE DeleteThreads
  BY <1>17 DEF DeleteThreads
<1>18. CASE Setup
  BY <1>18 DEF Setup, ResetFull
<1>19. CASE UNCHANGED vars
  BY <1>19 DEF vars
<1> QED
  BY <1>1, <1>2, <1>3, <1>4, <1>5, <1>6, <1>7, <1>8, <1>9, <1>10, <1>11, <1>12,
     <1>13, <1>14, <1>15, <1>16, <1>17, <1>18, <1>19 DEF Next, StarStep


\* The set of counted writers and numFull change only inside fullGate, or in
\* a new setup.
LEMMA CountFrame ==
  ASSUME TypeOK, [Next]_vars
  PROVE  \/ Counted' = Counted /\ UNCHANGED <<numFull, local>>
         \/ Counted' = Counted /\ \E s \in Star : EnterFullGate(s)
         \/ \E s \in Star : IncrFull(s) \/ DecrFull(s)
         \/ Setup
<1> DEFINE Same == Counted' = Counted /\ UNCHANGED <<numFull, local>>
<1> USE DEF Counted, TypeOK, Goto, fullVars
<1>1. ASSUME NEW s \in Star, NEW g \in Geodesic, CallPut(s, g) PROVE Same
  BY <1>1 DEF CallPut
<1>2. ASSUME NEW s \in Star, EnterPut(s) PROVE Same
  BY <1>2 DEF EnterPut
<1>3. ASSUME NEW s \in Star, EnterFullGate(s) PROVE Counted' = Counted
  BY <1>3 DEF EnterFullGate
<1>4. ASSUME NEW s \in Star, WaitFull(s) PROVE Same
  BY <1>4 DEF WaitFull
<1>5. ASSUME NEW s \in Star, LeaveFullLoop(s) PROVE Same
  BY <1>5 DEF LeaveFullLoop
<1>6. ASSUME NEW s \in Star, PutTail(s) PROVE Same
  BY <1>6 DEF PutTail
<1>7. ASSUME NEW s \in Star, NEW g \in Geodesic, CallGet(s, g) PROVE Same
  BY <1>7 DEF CallGet
<1>8. ASSUME NEW s \in Star, EnterGet(s) PROVE Same
  BY <1>8 DEF EnterGet
<1>9. ASSUME NEW s \in Star, WaitEmpty(s) PROVE Same
  BY <1>9 DEF WaitEmpty
<1>10. ASSUME NEW s \in Star, TakeHead(s) PROVE Same
  BY <1>10 DEF TakeHead
<1>11. ASSUME NEW s \in Star, Wake(s) PROVE Same
  BY <1>11 DEF Wake, AfterWait, Waiting
<1>12. ASSUME NEW s \in Star, SpuriousWakeup(s) PROVE Same
  BY <1>12 DEF SpuriousWakeup
<1>13. ASSUME NEW s \in Star, Cancel(s) PROVE Same
  BY <1>13 DEF Cancel, Waiting
<1>14. ASSUME NEW g \in Geodesic, NEW c \in (cap[g] + 1)..MaxCap, SetCapacity(g, c)
       PROVE  Same
  BY <1>14 DEF SetCapacity
<1>15. ASSUME DeleteThreads PROVE Same
  BY <1>15 DEF DeleteThreads
<1>16. ASSUME UNCHANGED vars PROVE Same
  BY <1>16 DEF vars
<1> HIDE DEF Same
<1>20. Same \/ (Counted' = Counted /\ \E s \in Star : EnterFullGate(s))
       \/ (\E s \in Star : IncrFull(s) \/ DecrFull(s)) \/ Setup
  BY <1>1, <1>2, <1>3, <1>4, <1>5, <1>6, <1>7, <1>8, <1>9, <1>10, <1>11, <1>12,
     <1>13, <1>14, <1>15, <1>16 DEF Next, StarStep
<1> QED
  BY <1>20 DEF Same

\* numFull follows the set of counted writers.
LEMMA CountingStep ==
  TypeOK /\ MutualExclusion /\ LocalIsNumFull /\ NumFullCountsWriters /\ [Next]_vars
    => NumFullCountsWriters'
<1> SUFFICES ASSUME TypeOK, MutualExclusion, LocalIsNumFull, NumFullCountsWriters,
                    [Next]_vars
             PROVE  numFull' = Cardinality(Counted')
  BY DEF NumFullCountsWriters
<1>a. IsFiniteSet(Counted) /\ numFull = Cardinality(Counted)
  BY FS_Subset, StarAssumption DEF Counted, NumFullCountsWriters
<1>1. CASE Counted' = Counted /\ UNCHANGED numFull
  BY <1>1, <1>a
<1>2. ASSUME NEW s \in Star, EnterFullGate(s), Counted' = Counted
      PROVE  numFull' = Cardinality(Counted')
  BY <1>2, <1>a DEF EnterFullGate
<1>3. ASSUME NEW s \in Star, IncrFull(s)
      PROVE  numFull' = Cardinality(Counted')
  <2>1. Counted' = Counted \cup {s} /\ s \notin Counted
    BY <1>3 DEF IncrFull, Goto, Counted, TypeOK
  <2>2. numFull' = numFull + 1
    BY <1>3 DEF IncrFull, NumFullUp, LocalIsNumFull, InFullGate
  <2> QED
    BY <1>a, <2>1, <2>2, FS_AddElement
<1>4. ASSUME NEW s \in Star, DecrFull(s)
      PROVE  numFull' = Cardinality(Counted')
  <2>1. Counted' = Counted \ {s} /\ s \in Counted
    BY <1>4 DEF DecrFull, Goto, Counted, TypeOK
  <2>2. numFull' = numFull - 1
    BY <1>4 DEF DecrFull, LocalIsNumFull, InFullGate
  <2> QED
    BY <1>a, <2>1, <2>2, FS_RemoveElement
<1>5. CASE Setup
  <2>1. Counted' = {} /\ numFull' = 0
    BY <1>5 DEF Setup, ResetFull, Counted
  <2> QED
    BY <2>1, FS_EmptySet
<1> QED
  BY <1>1, <1>2, <1>3, <1>4, <1>5, CountFrame

-----------------------------------------------------------------------------
(* The invariant *)

\* The initial states satisfy the invariant.
LEMMA InitInvariant == Init => IInv
<1> SUFFICES ASSUME Init PROVE IInv
  OBVIOUS
<1> USE DEF Init
<1>1. TypeOK
  BY InitialParticlesType, NumInitAssumption DEF TypeOK, Location
<1>2. MutualExclusion
  BY StarAssumption DEF MutualExclusion, InGate, InFullGate
<1>3. InOrder
  <2> SUFFICES ASSUME NEW g \in Geodesic
               PROVE  /\ sz[g] = Len(pstack[g])
                      /\ sent[g] = rcvd[g] + sz[g]
                      /\ \A i \in 1..Len(pstack[g]) : pstack[g][i] = rcvd[g] + i
    BY DEF InOrder
  <2>1. NumInit[g] \in Nat /\ pstack[g] = InitialParticles(NumInit[g])
    BY NumInitAssumption
  <2>2. /\ Len(pstack[g]) = NumInit[g]
        /\ \A i \in 1..NumInit[g] : pstack[g][i] = i
    BY <2>1, InitialParticlesType
  <2> QED
    BY <2>1, <2>2
<1>4. NumFullCountsWriters
  <2>1. Counted = {}
    BY DEF Counted
  <2> QED
    BY <2>1, FS_EmptySet DEF NumFullCountsWriters
<1>5. PortInUse /\ RoomIsStable /\ LocalIsNumFull /\ NoLostWakeup
  BY DEF PortInUse, RoomIsStable, LocalIsNumFull, NoLostWakeup, PutPoint, InFullGate
<1>6. WithinCapacity
  BY NumInitAssumption DEF WithinCapacity
<1> QED
  BY <1>1, <1>2, <1>3, <1>4, <1>5, <1>6 DEF IInv

\* Every step preserves the invariant.
LEMMA StepInvariant == IInv /\ [Next]_vars => IInv'
  BY TypeStep, MutexStep, InOrderStep, PortInUseStep, RoomIsStableStep,
     WithinCapacityStep, LocalStep, CountingStep, NoLostWakeupStep DEF IInv

\* The inductive invariant holds of every reachable state.
THEOREM Invariance == Spec => []IInv
  BY InitInvariant, StepInvariant, PTL DEF Spec

\* Every variable keeps its domain.
THEOREM TypeCorrect == Spec => []TypeOK
<1>1. IInv => TypeOK
  BY DEF IInv
<1> QED
  BY <1>1, Invariance, PTL

\* No two threads inside one monitor or inside the gate of numFull, and no gate
\* left locked by a thread that is asleep, cancelled or done.
THEOREM GatesExclude == Spec => []MutualExclusion
<1>1. IInv => MutualExclusion
  BY DEF IInv
<1> QED
  BY <1>1, Invariance, PTL

\* Particles leave a geodesic in the order they entered, once each.
THEOREM FirstInFirstOut == Spec => []InOrder
<1>1. IInv => InOrder
  BY DEF IInv
<1> QED
  BY <1>1, Invariance, PTL

\* slowPut never takes a geodesic past its capacity.
THEOREM CapacityHolds == Spec => []WithinCapacity
<1>1. IInv => WithinCapacity
  BY DEF IInv
<1> QED
  BY <1>1, Invariance, PTL

\* blockedOnFull() is the number of writers held up in slowPut.
THEOREM NumFullIsExact == Spec => []NumFullCountsWriters
<1>1. IInv => NumFullCountsWriters
  BY DEF IInv
<1> QED
  BY <1>1, Invariance, PTL

\* No reader or writer sleeps through the event it waits for.
THEOREM WakeupsArrive == Spec => []NoLostWakeup
<1>1. IInv => NoLostWakeup
  BY DEF IInv
<1> QED
  BY <1>1, Invariance, PTL

-----------------------------------------------------------------------------
(* The geodesics implement bounded channels *)

\* The geodesics with a counted writer: what Channels calls full.
FullGeodesics == {at[s] : s \in Counted}

\* A counted writer stays on its geodesic.
LEMMA FullFrame ==
  ASSUME TypeOK, [Next]_vars, Counted' = Counted
  PROVE  FullGeodesics' = FullGeodesics
<1>1. ASSUME NEW s \in Counted PROVE at'[s] = at[s]
  <2> USE DEF Counted
  <2>1. ASSUME NEW t \in Star, NEW g \in Geodesic, CallPut(t, g) \/ CallGet(t, g)
        PROVE  at'[s] = at[s]
    BY <2>1 DEF CallPut, CallGet, TypeOK
  <2>2. ASSUME NEW t \in Star, StarStep(t)
        PROVE  at'[s] = at[s]
    BY <2>2 DEF StarStep, EnterPut, EnterFullGate, IncrFull, DecrFull, WaitFull,
       LeaveFullLoop, PutTail, EnterGet, WaitEmpty, TakeHead, Wake
  <2> QED
    BY <2>1, <2>2 DEF Next, vars, SpuriousWakeup, Cancel, SetCapacity,
       DeleteThreads, Setup
<1> QED
  BY <1>1 DEF FullGeodesics

\* Init maps to the initial states of the channels.
LEMMA ChannelInitial == Init => Channels!ChannelInit
<1> SUFFICES ASSUME Init PROVE Channels!ChannelInit
  OBVIOUS
<1>1. Counted = {}
  BY DEF Init, Counted
<1> QED
  BY <1>1 DEF Init, InitialParticles, Channels!ChannelInit, Channels!Initially

\* Every step maps to a step of the channels or to none.
LEMMA ChannelStep ==
  IInv /\ [Next]_vars => [Channels!ChannelNext]_(Channels!channelVars)
<1> SUFFICES ASSUME IInv, [Next]_vars
             PROVE  Channels!ChannelNext \/ UNCHANGED Channels!channelVars
  OBVIOUS
<1> USE DEF FullGeodesics
<1>a. TypeOK /\ InOrder /\ PortInUse /\ RoomIsStable /\ LocalIsNumFull
  BY DEF IInv
<1>b. ASSUME NEW s \in Star, pc[s] \in PutPoint, s \notin Counted
      PROVE  at[s] \notin FullGeodesics
  BY <1>a, <1>b DEF Counted, PortInUse, PutPoint
<1>c. ASSUME UNCHANGED <<pstack, cap, sent, numFull>>, Counted' = Counted
      PROVE  UNCHANGED Channels!channelVars
  <2>1. FullGeodesics' = FullGeodesics
    BY <1>a, <1>c, FullFrame
  <2> QED
    BY <1>c, <2>1 DEF Channels!channelVars
<1>1. ASSUME NEW s \in Star, NEW h \in Geodesic, h = at[s], PutTail(s)
      PROVE  Channels!Put(h)
  <2>1. s \notin Counted /\ pc[s] \in PutPoint /\ Counted' = Counted
    BY <1>1, <1>a DEF PutTail, Counted, PutPoint, Goto, TypeOK
  <2>2. at[s] \notin FullGeodesics /\ FullGeodesics' = FullGeodesics
    BY <1>a, <1>b, <2>1, FullFrame
  <2>3. Len(pstack[at[s]]) < cap[at[s]]
    BY <1>1, <1>a DEF PutTail, InOrder, RoomIsStable, TypeOK
  <2> QED
    BY <1>1, <2>2, <2>3 DEF PutTail, WithTail, Channels!Put, Channels!WithTail, Channels!Room, fullVars
<1>2. ASSUME NEW s \in Star, NEW h \in Geodesic, h = at[s], TakeHead(s)
      PROVE  Channels!Get(h)
  <2>1. Counted' = Counted
    BY <1>2, <1>a DEF TakeHead, Counted, Goto, TypeOK
  <2>2. FullGeodesics' = FullGeodesics
    BY <1>a, <2>1, FullFrame
  <2>3. pstack[at[s]] # <<>>
    BY <1>2, <1>a DEF TakeHead, InOrder, TypeOK
  <2> QED
    BY <1>2, <2>2, <2>3 DEF TakeHead, Channels!Get, Channels!Empty, fullVars
<1>3. ASSUME NEW s \in Star, NEW h \in Geodesic, h = at[s], IncrFull(s)
      PROVE  Channels!Block(h)
  <2>1. s \notin Counted /\ pc[s] \in PutPoint /\ Counted' = Counted \cup {s} /\ at' = at
    BY <1>3, <1>a DEF IncrFull, Counted, PutPoint, Goto, TypeOK
  <2>2. at[s] \notin FullGeodesics /\ FullGeodesics' = FullGeodesics \cup {at[s]}
    BY <1>b, <2>1
  <2>3. ~(Len(pstack[at[s]]) < cap[at[s]])
    BY <1>3, <1>a DEF IncrFull, InOrder, RoomIsStable, TypeOK
  <2>4. numFull' = numFull + 1
    BY <1>3, <1>a DEF IncrFull, NumFullUp, LocalIsNumFull, InFullGate
  <2> QED
    BY <1>3, <2>2, <2>3, <2>4 DEF IncrFull, Channels!Block, Channels!Room, geoVars
<1>4. ASSUME NEW s \in Star, NEW h \in Geodesic, h = at[s], DecrFull(s)
      PROVE  Channels!Unblock(h)
  <2>1. s \in Counted /\ Counted' = Counted \ {s} /\ at' = at
    BY <1>4, <1>a DEF DecrFull, Counted, Goto, TypeOK
  <2>2. \A t \in Counted : at[t] = at[s] => t = s
    BY <1>a, <2>1 DEF Counted, PortInUse, PutPoint
  <2>3. at[s] \in FullGeodesics /\ FullGeodesics' = FullGeodesics \ {at[s]}
    BY <2>1, <2>2
  <2>4. Len(pstack[at[s]]) < cap[at[s]]
    BY <1>4, <1>a DEF DecrFull, InOrder, RoomIsStable, TypeOK
  <2>5. numFull' = numFull - 1
    BY <1>4, <1>a DEF DecrFull, LocalIsNumFull, InFullGate
  <2> QED
    BY <1>4, <2>3, <2>4, <2>5 DEF DecrFull, Channels!Unblock, Channels!Room, geoVars
<1>5. ASSUME NEW g \in Geodesic, NEW c \in (cap[g] + 1)..MaxCap, SetCapacity(g, c)
      PROVE  Channels!SetCapacity(g, cap'[g]) /\ cap'[g] > cap[g]
  <2>1. Counted' = Counted
    BY <1>5 DEF SetCapacity, Counted
  <2>2. FullGeodesics' = FullGeodesics
    BY <1>a, <2>1, FullFrame
  <2>3. cap'[g] = c /\ c > cap[g]
    BY <1>5, <1>a DEF SetCapacity, TypeOK
  <2> QED
    BY <1>5, <2>2, <2>3 DEF SetCapacity, Channels!SetCapacity, fullVars
<1>6. CASE Setup
  <2>1. Counted' = {}
    BY <1>6 DEF Setup, Counted
  <2>2. Channels!Reset
    BY <1>6, <2>1 DEF Setup, ResetFull, InitialParticles, Channels!Reset,
       Channels!Reinitialize, Channels!ResetFull, Channels!Initially
  <2> QED
    BY <2>2 DEF Channels!ChannelNext
<1>7. CASE Counted' = Counted /\ UNCHANGED <<pstack, cap, sent, numFull>>
  BY <1>7, <1>c
<1>8. ASSUME NEW s \in Star, StarStep(s)
      PROVE  UNCHANGED cap
  BY <1>8 DEF StarStep, EnterPut, EnterFullGate, IncrFull, DecrFull, WaitFull,
     LeaveFullLoop, PutTail, EnterGet, WaitEmpty, TakeHead, Wake, geoVars
<1>9. UNCHANGED cap
      \/ \E g \in Geodesic : \E c \in (cap[g] + 1)..MaxCap : SetCapacity(g, c)
  BY <1>8 DEF Next, vars, CallPut, CallGet, SpuriousWakeup, Cancel, DeleteThreads,
     Setup, geoVars
<1>10. \/ Counted' = Counted /\ UNCHANGED numFull
       \/ \E s \in Star : IncrFull(s) \/ DecrFull(s)
       \/ Setup
  BY <1>a, CountFrame DEF EnterFullGate
<1>11. \/ UNCHANGED <<pstack, sent>>
       \/ \E s \in Star : PutTail(s) \/ TakeHead(s)
       \/ Setup
  BY QueueFrame
<1>12. \A s \in Star : at[s] \in Geodesic
  BY <1>a DEF TypeOK
<1>13. ASSUME NEW g \in Geodesic,
              \/ Channels!Put(g) \/ Channels!Get(g)
              \/ Channels!Block(g) \/ Channels!Unblock(g)
              \/ cap'[g] > cap[g] /\ Channels!SetCapacity(g, cap'[g])
       PROVE  Channels!ChannelNext
  BY <1>13 DEF Channels!ChannelNext
<1>14. ASSUME NEW s \in Star, PutTail(s) \/ TakeHead(s) \/ IncrFull(s) \/ DecrFull(s)
       PROVE  Channels!ChannelNext
  <2>1. PICK h \in Geodesic : h = at[s]
    BY <1>12
  <2>2. Channels!Put(h) \/ Channels!Get(h) \/ Channels!Block(h) \/ Channels!Unblock(h)
    BY <1>1, <1>2, <1>3, <1>4, <1>14, <2>1
  <2> QED
    BY <1>13, <2>2
<1>15. ASSUME NEW g \in Geodesic, NEW c \in (cap[g] + 1)..MaxCap, SetCapacity(g, c)
       PROVE  Channels!ChannelNext
  BY <1>5, <1>13, <1>15
<1> QED
  BY <1>6, <1>7, <1>9, <1>10, <1>11, <1>14, <1>15

\* The geodesics, with their locks, conditions, cancellations and new setups,
\* implement bounded first-in first-out channels.
THEOREM Refinement == Spec => ImplementsChannels
  BY Invariance, ChannelInitial, ChannelStep, PTL
     DEF Spec, ImplementsChannels, Channels!ChannelSpec
=============================================================================
