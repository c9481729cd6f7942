-------------------------- MODULE SimControlProofs --------------------------
(***************************************************************************)
(* Proofs that a requested halt is kept and that the actions are applied   *)
(* in turn, for any threads, actions, commands and signals.  A thread that *)
(* changes the flags reads the word, then writes it; what it read must     *)
(* still hold every halt when it writes.  A thread that goes through a     *)
(* list stands at an action, or has moved on to the next one already, and  *)
(* what it has yet to apply is the rest of the list from there, whatever   *)
(* is cancelled or registered meanwhile.                                   *)
(***************************************************************************)
EXTENDS SimControl, SequenceLemmas, FiniteSetTheorems, TLAPS

\* The states of the threads are records; what is in them does not matter but
\* for the fields the proof is about.
ThreadsAreRecords ==
    /\ th = [t \in Thread |-> th[t]]
    /\ \A t \in Thread :
          th[t] = [pc |-> th[t].pc, at |-> th[t].at, side |-> th[t].side, a |-> th[t].a,
                   next |-> th[t].next, read |-> th[t].read, bits |-> th[t].bits,
                   back |-> th[t].back]

OthersAreOver ==
    /\ mode \in Modes
    /\ \A t \in Thread \ mode.threads : th[t].pc = "over"
    /\ handler.on \in mode.threads \cup {None}

\* With gates, a thread in processFlags or at |= holds the gate; a poll
\* function that asks for a halt holds it too, and so never gets it.
Holds(t) ==
    \/ th[t].pc \in {"clearing", "polling", "asking"}
    \/ th[t].pc = "ask" /\ th[t].back = "polling"

GateIsHeld ==
    \A t \in Thread :
        /\ th[t].pc \in {"ask", "asking"} => th[t].back \in {"firing", "acting", "polling"}
        /\ mode.gated /\ Holds(t) => gate = t
        /\ mode.gated /\ th[t].pc = "asking" => th[t].back # "polling"

\* Between reading the flags and writing them.
Changes(t) == th[t].pc \in {"clearing", "asking"}

ReadIsFresh ==
    \A t \in Thread : Changes(t) /\ "halt" \in flags => "halt" \in th[t].read

HandlerIsFresh ==
    handler.on # None =>
        /\ "halt" \in handler.read => "halt" \in flags
        /\ Cardinality(mode.threads) <= 1 /\ "halt" \in flags => "halt" \in handler.read

IInv == ThreadsAreRecords /\ OthersAreOver /\ GateIsHeld /\ ReadIsFresh /\ HandlerIsFresh

-----------------------------------------------------------------------------

LEMMA OnlyOne ==
  ASSUME NEW S, IsFiniteSet(S), Cardinality(S) <= 1, NEW x \in S, NEW y \in S
  PROVE  x = y
<1> SUFFICES ASSUME x # y PROVE FALSE
  OBVIOUS
<1>1. Cardinality({x}) = 1 /\ IsFiniteSet({x})
  BY FS_Singleton
<1>2. Cardinality({x} \cup {y}) = 2
  <2>1. y \notin {x}
    OBVIOUS
  <2> QED
    BY <1>1, <2>1, FS_AddElement
<1>3. Cardinality({x} \cup {y}) <= Cardinality(S)
  <2>1. {x} \cup {y} \subseteq S
    OBVIOUS
  <2> QED
    BY <2>1, FS_Subset
<1> QED
  BY <1>2, <1>3, FS_CardinalityType

\* Two threads do not change the flags at a time.
LEMMA OneChanges ==
  ASSUME IInv, NEW t \in Thread, NEW u \in Thread, Changes(t), Changes(u)
  PROVE  t = u
<1>1. t \in mode.threads /\ u \in mode.threads /\ mode \in Modes
  BY DEF IInv, OthersAreOver, Changes
<1>2. CASE mode.gated
  BY <1>2 DEF IInv, GateIsHeld, Holds, Changes
<1>3. CASE ~mode.gated
  <2>1. IsFiniteSet(mode.threads) /\ Cardinality(mode.threads) <= 1
    BY <1>1, <1>3, ModesAssumption, FS_CardinalityType
  <2> QED
    BY <1>1, <2>1, OnlyOne
<1> QED
  BY <1>2, <1>3

\* A thread does nothing while it runs a handler: alone, it loses no halt.
LEMMA AloneOrGated ==
  ASSUME IInv, NEW t \in Thread, th[t].pc # "over", handler.on # t, handler.on # None
  PROVE  ~(Cardinality(mode.threads) <= 1)
<1>1. t \in mode.threads /\ handler.on \in mode.threads /\ mode \in Modes
  BY DEF IInv, OthersAreOver
<1> QED
  BY <1>1, ModesAssumption, OnlyOne

LEMMA InvInit == Init => IInv
<1> SUFFICES ASSUME Init PROVE IInv
  OBVIOUS
<1>1. \A t \in Thread : th[t] \in {Idle, [Idle EXCEPT !.pc = "over"]}
  BY DEF Init
<1>2. ThreadsAreRecords
  <2>1. th = [t \in Thread |-> th[t]]
    BY DEF Init
  <2> QED
    BY <1>1, <2>1 DEF Idle, ThreadsAreRecords
<1>3. \A t \in Thread : th[t].pc \in {"look", "over"}
  BY <1>1 DEF Idle
<1>4. OthersAreOver
  BY DEF Init, Idle, OthersAreOver
<1> QED
  BY <1>2, <1>3, <1>4 DEF IInv, GateIsHeld, ReadIsFresh, HandlerIsFresh, Holds, Changes, Init

\* A step of a thread that leaves the flags alone and has left the gate.
LEMMA HarmlessStep ==
  ASSUME IInv, NEW t \in Thread, th[t].pc # "over",
         UNCHANGED <<mode, flags, handler>>,
         ThreadsAreRecords',
         \A u \in Thread : u # t => th'[u] = th[u],
         th'[t].pc \notin {"clearing", "polling", "asking", "ask"},
         gate' = gate \/ (Holds(t) /\ gate' = None)
  PROVE  IInv'
<1>1. OthersAreOver'
  BY DEF IInv, OthersAreOver
<1>2. GateIsHeld'
  BY ModesAssumption DEF IInv, GateIsHeld, Holds
<1>3. ReadIsFresh'
  BY DEF IInv, ReadIsFresh, Changes
<1>4. HandlerIsFresh'
  BY DEF IInv, HandlerIsFresh
<1> QED
  BY <1>1, <1>2, <1>3, <1>4 DEF IInv

LEMMA InvStep == IInv /\ [Next]_vars => IInv'
<1> SUFFICES ASSUME IInv, [Next]_vars PROVE IInv'
  OBVIOUS
<1> USE DEF IInv
<1>1. ASSUME NEW t \in Thread, Look(t) PROVE IInv'
  <2>1. /\ th[t].pc # "over" /\ UNCHANGED <<mode, flags, handler>>
        /\ gate' = gate \/ (Holds(t) /\ gate' = None)
        /\ ThreadsAreRecords'
        /\ \A u \in Thread : u # t => th'[u] = th[u]
        /\ th'[t].pc \notin {"clearing", "polling", "asking", "ask"}
    BY <1>1 DEF Look, Goto, At, ThreadsAreRecords
  <2> QED
    BY <2>1, HarmlessStep
<1>2. ASSUME NEW t \in Thread, NoPoll(t) \/ RearmTimer(t) PROVE IInv'
  <2>1. /\ th[t].pc # "over" /\ UNCHANGED <<mode, flags, handler>>
        /\ gate' = gate \/ (Holds(t) /\ gate' = None)
        /\ ThreadsAreRecords'
        /\ \A u \in Thread : u # t => th'[u] = th[u]
        /\ th'[t].pc \notin {"clearing", "polling", "asking", "ask"}
    BY <1>2 DEF NoPoll, RearmTimer, Leave, Holds, Goto, At, ThreadsAreRecords
  <2> QED
    BY <2>1, HarmlessStep
<1>3. ASSUME NEW t \in Thread, NextStar(t) PROVE IInv'
  <2>1. /\ th[t].pc # "over" /\ UNCHANGED <<mode, flags, handler>>
        /\ gate' = gate \/ (Holds(t) /\ gate' = None)
        /\ ThreadsAreRecords'
        /\ \A u \in Thread : u # t => th'[u] = th[u]
        /\ th'[t].pc \notin {"clearing", "polling", "asking", "ask"}
    <3>1. th[t].pc = "answer" /\ UNCHANGED <<mode, flags, handler, gate>>
      BY <1>3 DEF NextStar, At
    <3>2. CASE Goto(t, "over")
      BY <3>1, <3>2 DEF Goto, ThreadsAreRecords
    <3>3. CASE DoActions(t, "pre")
      BY <3>1, <3>3 DEF DoActions, Idle, ThreadsAreRecords
    <3> QED
      BY <1>3, <3>2, <3>3 DEF NextStar
  <2> QED
    BY <2>1, HarmlessStep
<1>4. ASSUME NEW t \in Thread, LeaveActions(t) PROVE IInv'
  <2>1. /\ th[t].pc # "over" /\ UNCHANGED <<mode, flags, handler>>
        /\ gate' = gate \/ (Holds(t) /\ gate' = None)
        /\ ThreadsAreRecords'
        /\ \A u \in Thread : u # t => th'[u] = th[u]
        /\ th'[t].pc \notin {"clearing", "polling", "asking", "ask"}
    BY <1>4 DEF LeaveActions, Idle, At, ThreadsAreRecords
  <2> QED
    BY <2>1, HarmlessStep
<1>5. ASSUME NEW t \in Thread, ApplyAction(t) PROVE IInv'
  <2>1. /\ th[t].pc # "over" /\ UNCHANGED <<mode, flags, handler>>
        /\ gate' = gate \/ (Holds(t) /\ gate' = None)
        /\ ThreadsAreRecords'
        /\ \A u \in Thread : u # t => th'[u] = th[u]
        /\ th'[t].pc \notin {"clearing", "polling", "asking", "ask"}
    BY <1>5 DEF ApplyAction, Goto, At, ThreadsAreRecords
  <2> QED
    BY <2>1, HarmlessStep
<1>6. ASSUME NEW t \in Thread, AfterAction(t) \/ AfterActions(t) PROVE IInv'
  <2>1. /\ th[t].pc # "over" /\ UNCHANGED <<mode, flags, handler>>
        /\ gate' = gate \/ (Holds(t) /\ gate' = None)
        /\ ThreadsAreRecords'
        /\ \A u \in Thread : u # t => th'[u] = th[u]
        /\ th'[t].pc \notin {"clearing", "polling", "asking", "ask"}
    <3>1. th[t].pc \in {"acting", "answer"} /\ UNCHANGED <<mode, flags, handler, gate>>
      BY <1>6 DEF AfterAction, AfterActions, At
    <3>2. CASE AfterAction(t)
      BY <3>1, <3>2 DEF AfterAction, Idle, ThreadsAreRecords
    <3>3. CASE th' = [th EXCEPT ![t] = Idle]
      BY <3>1, <3>3 DEF Idle, ThreadsAreRecords
    <3>4. CASE th' = [th EXCEPT ![t] = [Idle EXCEPT !.pc = "firing"]]
      BY <3>1, <3>4 DEF Idle, ThreadsAreRecords
    <3> QED
      BY <1>6, <3>2, <3>3, <3>4 DEF AfterActions
  <2> QED
    BY <2>1, HarmlessStep
<1>7. ASSUME NEW t \in Thread, EndGo(t) PROVE IInv'
  <2>1. /\ th[t].pc # "over" /\ UNCHANGED <<mode, flags, handler>>
        /\ gate' = gate \/ (Holds(t) /\ gate' = None)
        /\ ThreadsAreRecords'
        /\ \A u \in Thread : u # t => th'[u] = th[u]
        /\ th'[t].pc \notin {"clearing", "polling", "asking", "ask"}
    BY <1>7 DEF EndGo, DoActions, Idle, At, ThreadsAreRecords
  <2> QED
    BY <2>1, HarmlessStep
<1>8. ASSUME NEW t \in Thread, ProcessFlags(t) PROVE IInv'
  <2>1. /\ th[t].pc = "process" /\ t # handler.on /\ gate = None
        /\ UNCHANGED <<mode, flags, handler>>
        /\ gate' = IF mode.gated THEN t ELSE None
        /\ ThreadsAreRecords'
        /\ \A u \in Thread : u # t => th'[u] = th[u]
        /\ th'[t].pc \in {"clearing", "polling"}
        /\ th'[t].pc = "clearing" => th'[t].read = flags
    <3> DEFINE r == IF "interrupt" \in flags THEN flags ELSE {}
               p == IF "interrupt" \in flags THEN "clearing" ELSE "polling"
    <3>1. th' = [th EXCEPT ![t].pc = p, ![t].read = r]
      BY <1>8 DEF ProcessFlags
    <3>2. /\ ThreadsAreRecords' /\ th'[t] = [th[t] EXCEPT !.pc = p, !.read = r]
          /\ \A u \in Thread : u # t => th'[u] = th[u]
      BY <3>1 DEF ThreadsAreRecords
    <3>3. th'[t].pc = p /\ th'[t].read = r
      BY <3>2 DEF ThreadsAreRecords
    <3>4. /\ th[t].pc = "process" /\ t # handler.on /\ gate = None
          /\ UNCHANGED <<mode, flags, handler>>
          /\ gate' = IF mode.gated THEN t ELSE None
      BY <1>8 DEF ProcessFlags, At, Enter, GateFree
    <3> QED
      BY <3>2, <3>3, <3>4
  <2>2. GateIsHeld'
    BY <2>1, ModesAssumption DEF GateIsHeld, Holds
  <2>3. OthersAreOver' /\ ReadIsFresh' /\ HandlerIsFresh'
    BY <2>1 DEF OthersAreOver, ReadIsFresh, HandlerIsFresh, Changes
  <2> QED
    BY <2>1, <2>2, <2>3
<1>9. ASSUME NEW t \in Thread, ClearInterrupt(t) PROVE IInv'
  <2>1. /\ th[t].pc = "clearing" /\ t # handler.on
        /\ UNCHANGED <<mode, handler, gate>>
        /\ flags' = th[t].read \ {"interrupt"}
        /\ ThreadsAreRecords'
        /\ \A u \in Thread : u # t => th'[u] = th[u]
        /\ th'[t].pc = "polling"
    <3>1. th' = [th EXCEPT ![t].pc = "polling", ![t].read = {}]
      BY <1>9 DEF ClearInterrupt
    <3>2. /\ ThreadsAreRecords' /\ th'[t] = [th[t] EXCEPT !.pc = "polling", !.read = {}]
          /\ \A u \in Thread : u # t => th'[u] = th[u]
      BY <3>1 DEF ThreadsAreRecords
    <3>3. th'[t].pc = "polling"
      BY <3>2 DEF ThreadsAreRecords
    <3> QED
      BY <1>9, <3>2, <3>3 DEF ClearInterrupt, At
  <2>2. "halt" \in flags => "halt" \in flags'
    BY <2>1 DEF ReadIsFresh, Changes
  <2>3. \A u \in Thread : ~Changes(u)'
    BY <2>1, OneChanges DEF Changes
  <2>4. GateIsHeld' /\ OthersAreOver'
    BY <2>1 DEF GateIsHeld, Holds, OthersAreOver
  <2>5. HandlerIsFresh'
    BY <2>1, <2>2, AloneOrGated DEF HandlerIsFresh
  <2> QED
    BY <2>1, <2>3, <2>4, <2>5 DEF ReadIsFresh
<1>10. ASSUME NEW t \in Thread, NEW c \in DOMAIN Halts, AskHalt(t, c) PROVE IInv'
  <2>1. /\ th[t].pc \in {"firing", "acting", "polling"}
        /\ UNCHANGED <<mode, flags, handler, gate>>
        /\ ThreadsAreRecords'
        /\ \A u \in Thread : u # t => th'[u] = th[u]
        /\ th'[t].pc = "ask" /\ th'[t].back = th[t].pc
    <3>1. th[t].pc \in {"firing", "acting", "polling"}
      BY <1>10 DEF AskHalt, Commanding, May
    <3>2. th' = [th EXCEPT ![t].pc = "ask", ![t].back = th[t].pc, ![t].bits = Halts[c]]
      BY <1>10 DEF AskHalt
    <3>3. /\ ThreadsAreRecords' /\ th'[t] = [th[t] EXCEPT !.pc = "ask", !.back = th[t].pc, !.bits = Halts[c]]
          /\ \A u \in Thread : u # t => th'[u] = th[u]
      BY <3>2 DEF ThreadsAreRecords
    <3>4. th'[t].pc = "ask" /\ th'[t].back = th[t].pc
      BY <3>3 DEF ThreadsAreRecords
    <3> QED
      BY <1>10, <3>1, <3>3, <3>4 DEF AskHalt
  <2>2. GateIsHeld'
    BY <2>1 DEF GateIsHeld, Holds
  <2>3. OthersAreOver' /\ ReadIsFresh' /\ HandlerIsFresh'
    BY <2>1 DEF OthersAreOver, ReadIsFresh, HandlerIsFresh, Changes
  <2> QED
    BY <2>1, <2>2, <2>3
<1>11. ASSUME NEW t \in Thread, ReadToAsk(t) PROVE IInv'
  <2>1. /\ th[t].pc = "ask" /\ gate = None
        /\ UNCHANGED <<mode, flags, handler>>
        /\ gate' = IF mode.gated THEN t ELSE None
        /\ ThreadsAreRecords'
        /\ \A u \in Thread : u # t => th'[u] = th[u]
        /\ th'[t].pc = "asking" /\ th'[t].back = th[t].back /\ th'[t].read = flags
    <3>1. th' = [th EXCEPT ![t].pc = "asking", ![t].read = flags]
      BY <1>11 DEF ReadToAsk
    <3>2. /\ ThreadsAreRecords' /\ th'[t] = [th[t] EXCEPT !.pc = "asking", !.read = flags]
          /\ \A u \in Thread : u # t => th'[u] = th[u]
      BY <3>1 DEF ThreadsAreRecords
    <3>3. th'[t].pc = "asking" /\ th'[t].back = th[t].back /\ th'[t].read = flags
      BY <3>2 DEF ThreadsAreRecords
    <3> QED
      BY <1>11, <3>2, <3>3 DEF ReadToAsk, At, Enter, GateFree
  <2>2. GateIsHeld'
    BY <2>1, ModesAssumption DEF GateIsHeld, Holds
  <2>3. OthersAreOver' /\ ReadIsFresh' /\ HandlerIsFresh'
    BY <2>1 DEF OthersAreOver, ReadIsFresh, HandlerIsFresh, Changes
  <2> QED
    BY <2>1, <2>2, <2>3
<1>12. ASSUME NEW t \in Thread, SetHalt(t) PROVE IInv'
  <2>1. /\ th[t].pc = "asking" /\ t # handler.on
        /\ UNCHANGED <<mode, handler>> /\ gate' = None
        /\ flags' = th[t].read \cup th[t].bits
        /\ ThreadsAreRecords'
        /\ \A u \in Thread : u # t => th'[u] = th[u]
        /\ th'[t].pc = th[t].back
    <3>1. th' = [th EXCEPT ![t].pc = th[t].back, ![t].read = {}, ![t].bits = {}, ![t].back = "loop"]
      BY <1>12 DEF SetHalt
    <3>2. /\ ThreadsAreRecords' /\ th'[t] = [th[t] EXCEPT !.pc = th[t].back, !.read = {}, !.bits = {}, !.back = "loop"]
          /\ \A u \in Thread : u # t => th'[u] = th[u]
      BY <3>1 DEF ThreadsAreRecords
    <3>3. th'[t].pc = th[t].back
      BY <3>2 DEF ThreadsAreRecords
    <3> QED
      BY <1>12, <3>2, <3>3 DEF SetHalt, At, Leave
  <2>2. "halt" \in flags => "halt" \in flags'
    BY <2>1 DEF ReadIsFresh, Changes
  <2>3. \A u \in Thread : ~Changes(u)'
    BY <2>1, OneChanges DEF Changes, GateIsHeld
  <2>4. GateIsHeld'
    BY <2>1, ModesAssumption DEF GateIsHeld, Holds
  <2>5. OthersAreOver'
    BY <2>1 DEF OthersAreOver
  <2>6. HandlerIsFresh'
    BY <2>1, <2>2, AloneOrGated DEF HandlerIsFresh
  <2> QED
    BY <2>1, <2>3, <2>4, <2>5, <2>6 DEF ReadIsFresh
<1>13. ASSUME UNCHANGED <<mode, th, gate, flags, handler>> PROVE IInv'
  <2>1. ThreadsAreRecords' /\ OthersAreOver' /\ GateIsHeld'
    BY <1>13 DEF ThreadsAreRecords, OthersAreOver, GateIsHeld, Holds
  <2> QED
    BY <1>13, <2>1 DEF ReadIsFresh, HandlerIsFresh, Changes
<1>14. ASSUME NEW t \in Thread, CatchInterrupt(t) PROVE IInv'
  <2>1. ThreadsAreRecords' /\ OthersAreOver' /\ GateIsHeld'
    BY <1>14 DEF CatchInterrupt, ThreadsAreRecords, OthersAreOver, GateIsHeld, Holds
  <2> QED
    BY <1>14, <2>1 DEF CatchInterrupt, ReadIsFresh, HandlerIsFresh, Changes
<1>15. CASE HandlerReturns
  <2>1. ThreadsAreRecords' /\ OthersAreOver' /\ GateIsHeld'
    BY <1>15 DEF HandlerReturns, ThreadsAreRecords, OthersAreOver, GateIsHeld, Holds
  <2> QED
    BY <1>15, <2>1 DEF HandlerReturns, ReadIsFresh, HandlerIsFresh, Changes
<1>16. CASE TimerExpires
  BY <1>13, <1>16 DEF TimerExpires
<1>17. CASE RunAgain
  <2>1. /\ UNCHANGED <<mode, handler, gate>> /\ flags' = {} /\ handler.on = None
        /\ th' = [t \in Thread |-> IF t \in mode.threads THEN Idle ELSE th[t]]
        /\ \A t \in Thread : th[t].pc = "over"
    BY <1>17 DEF RunAgain, Over
  <2>2. ThreadsAreRecords'
    BY <2>1 DEF ThreadsAreRecords, Idle
  <2>3. \A t \in Thread : th'[t].pc \in {"look", "over"}
    BY <2>1 DEF Idle
  <2>4. OthersAreOver'
    BY <2>1 DEF OthersAreOver
  <2> QED
    BY <2>1, <2>2, <2>3, <2>4 DEF GateIsHeld, Holds, ReadIsFresh, HandlerIsFresh
<1>18. CASE UNCHANGED vars
  BY <1>13, <1>18 DEF vars
<1>19. ASSUME NEW t \in Thread, HaltRequested(t) \/ Run(t) PROVE IInv'
  BY <1>1, <1>2, <1>3, <1>4, <1>5, <1>6, <1>7, <1>8, <1>9, <1>11, <1>12, <1>19
     DEF HaltRequested, Run
<1>20. ASSUME NEW t \in Thread, Command(t) PROVE IInv'
  <2>1. ASSUME NEW b \in Action, Cancel(t, b) PROVE IInv'
    BY <1>13, <2>1 DEF Cancel
  <2>2. ASSUME NEW s \in Side, Register(t, s) PROVE IInv'
    BY <1>13, <2>2 DEF Register
  <2>3. CASE SetPollAction(t)
    BY <1>13, <2>3 DEF SetPollAction
  <2> QED
    BY <1>10, <1>20, <2>1, <2>2, <2>3 DEF Command
<1> QED
  BY <1>14, <1>15, <1>16, <1>17, <1>18, <1>19, <1>20 DEF Next

THEOREM Invariance == Spec => []IInv
  BY InvInit, InvStep, PTL DEF Spec

\* For any threads, actions, commands and signals: no step but clearHalt removes
\* a halt, unless another thread runs while one handles a signal.
THEOREM HaltStays == Spec => HaltIsKept
<1> DEFINE Keeps == ("halt" \in flags /\ "halt" \notin flags') => RunAgain \/ HandlerIsLate
<1>1. ASSUME IInv, [Next]_vars PROVE [Keeps]_vars
  <2> SUFFICES ASSUME "halt" \in flags, "halt" \notin flags', ~RunAgain PROVE HandlerIsLate
    OBVIOUS
  <2>1. ASSUME NEW t \in Thread, ClearInterrupt(t) \/ SetHalt(t) PROVE FALSE
    BY <1>1, <2>1 DEF IInv, ReadIsFresh, Changes, ClearInterrupt, SetHalt, At
  <2>2. HandlerReturns
    <3>1. flags' # flags
      OBVIOUS
    <3>2. ASSUME NEW t \in Thread, HaltRequested(t) \/ Run(t) PROVE FALSE
      BY <2>1, <3>1, <3>2 DEF HaltRequested, Run, Look, ProcessFlags, NoPoll, RearmTimer, NextStar,
         LeaveActions, ApplyAction, AfterAction, AfterActions, EndGo, ReadToAsk
    <3>3. ASSUME NEW t \in Thread, Command(t) \/ CatchInterrupt(t) PROVE FALSE
      BY <3>1, <3>3 DEF Command, AskHalt, Cancel, Register, SetPollAction, CatchInterrupt
    <3> QED
      BY <1>1, <3>1, <3>2, <3>3 DEF Next, vars, TimerExpires
  <2>3. handler.on # None /\ ~(Cardinality(mode.threads) <= 1)
    BY <1>1, <2>2 DEF HandlerReturns, IInv, HandlerIsFresh
  <2>4. Cardinality(mode.threads) \in Nat
    BY <1>1, ModesAssumption, FS_CardinalityType DEF IInv, OthersAreOver
  <2> QED
    BY <2>3, <2>4 DEF HandlerIsLate
<1> QED
  BY <1>1, Invariance, PTL DEF HaltIsKept, Spec

-----------------------------------------------------------------------------
(* Lists of actions *)

LEMMA ConcatenationIs ==
  ASSUME NEW S, NEW a \in Seq(S), NEW b \in Seq(S)
  PROVE  /\ a \o b \in Seq(S) /\ Len(a \o b) = Len(a) + Len(b)
         /\ \A i \in 1..(Len(a) + Len(b)) :
                (a \o b)[i] = IF i <= Len(a) THEN a[i] ELSE b[i - Len(a)]
  OBVIOUS

LEMMA RemoveFirstType ==
  ASSUME NEW S, NEW l \in Seq(S), NEW b
  PROVE  RemoveFirst(l, b) \in Seq(S)
<1>1. CASE \A i \in 1..Len(l) : l[i] # b
  BY <1>1 DEF RemoveFirst
<1>2. CASE \E i \in 1..Len(l) : l[i] = b
  <2> DEFINE I == {i \in 1..Len(l) : l[i] = b}
  <2>1. I # {} /\ I \subseteq Nat
    BY <1>2
  <2>2. \E x \in I : \A y \in I : x <= y
    <3> HIDE DEF I
    <3> QED
      BY <2>1, SmallestOne
  <2>3. Min(I) \in I
    <3> HIDE DEF I
    <3> QED
      BY <2>2 DEF Min
  <2>4. SelectInSeq(l, LAMBDA v : v = b) = Min(I)
    BY <2>1 DEF SelectInSeq
  <2>5. PICK q \in 1..Len(l) : q = SelectInSeq(l, LAMBDA v : v = b)
    BY <2>3, <2>4
  <2>6. RemoveFirst(l, b) = SubSeq(l, 1, q - 1) \o SubSeq(l, q + 1, Len(l))
    BY <1>2, <2>5 DEF RemoveFirst, RemoveAt
  <2>7. SubSeq(l, 1, q - 1) \in Seq(S) /\ SubSeq(l, q + 1, Len(l)) \in Seq(S)
    OBVIOUS
  <2>8. PICK x \in Seq(S), y \in Seq(S) :
            x = SubSeq(l, 1, q - 1) /\ y = SubSeq(l, q + 1, Len(l))
    BY <2>7
  <2> QED
    BY <2>6, <2>8
<1> QED
  BY <1>1, <1>2

\* An element that is there once leaves a gap, which closes.
LEMMA RemoveFirstIs ==
  ASSUME NEW S, NEW l \in Seq(S), IsInjective(l), NEW b
  PROVE  /\ RemoveFirst(l, b) \in Seq(S)
         /\ (\A i \in 1..Len(l) : l[i] # b) => RemoveFirst(l, b) = l
         /\ \A q \in 1..Len(l) : l[q] = b =>
                /\ Len(RemoveFirst(l, b)) = Len(l) - 1
                /\ \A i \in 1..(Len(l) - 1) :
                       RemoveFirst(l, b)[i] = IF i < q THEN l[i] ELSE l[i + 1]
<1>1. CASE \A i \in 1..Len(l) : l[i] # b
  <2>1. RemoveFirst(l, b) = l
    BY <1>1 DEF RemoveFirst
  <2> QED
    BY <1>1, <2>1
<1>2. ASSUME NEW q \in 1..Len(l), l[q] = b
      PROVE  /\ RemoveFirst(l, b) \in Seq(S)
             /\ Len(RemoveFirst(l, b)) = Len(l) - 1
             /\ \A i \in 1..(Len(l) - 1) :
                    RemoveFirst(l, b)[i] = IF i < q THEN l[i] ELSE l[i + 1]
  <2> DEFINE I == {i \in 1..Len(l) : l[i] = b}
  <2>1. I = {q}
    BY <1>2 DEF IsInjective
  <2>2. Min({q}) = q
    BY DEF Min
  <2>3. SelectInSeq(l, LAMBDA v : v = b) = q
    BY <2>1, <2>2 DEF SelectInSeq
  <2>4. RemoveFirst(l, b) = SubSeq(l, 1, q - 1) \o SubSeq(l, q + 1, Len(l))
    BY <1>2, <2>3 DEF RemoveFirst, RemoveAt
  <2>5. /\ SubSeq(l, 1, q - 1) \in Seq(S) /\ SubSeq(l, q + 1, Len(l)) \in Seq(S)
        /\ Len(SubSeq(l, 1, q - 1)) = q - 1 /\ Len(SubSeq(l, q + 1, Len(l))) = Len(l) - q
        /\ \A i \in 1..(q - 1) : SubSeq(l, 1, q - 1)[i] = l[i]
        /\ \A i \in 1..(Len(l) - q) : SubSeq(l, q + 1, Len(l))[i] = l[q + i]
    OBVIOUS
  <2>6. PICK x \in Seq(S), y \in Seq(S) :
            x = SubSeq(l, 1, q - 1) /\ y = SubSeq(l, q + 1, Len(l))
    BY <2>5
  <2>7. /\ x \o y \in Seq(S) /\ Len(x \o y) = Len(x) + Len(y)
        /\ \A i \in 1..(Len(x) + Len(y)) :
               (x \o y)[i] = IF i <= Len(x) THEN x[i] ELSE y[i - Len(x)]
    BY ConcatenationIs
  <2>8. Len(x) + Len(y) = Len(l) - 1 /\ Len(x) = q - 1 /\ Len(l) \in Nat
    <3>1. Len(x) = q - 1 /\ Len(y) = Len(l) - q
      BY <2>5, <2>6
    <3> QED
      BY <3>1
  <2>9. ASSUME NEW i \in 1..(Len(l) - 1)
        PROVE  (x \o y)[i] = IF i < q THEN l[i] ELSE l[i + 1]
    <3>1. CASE i < q
      <4>1. i \in 1..(q - 1) /\ i <= Len(x)
        BY <2>8, <3>1
      <4> QED
        BY <2>5, <2>6, <2>7, <2>8, <3>1, <4>1
    <3>2. CASE ~(i < q)
      <4>1. ~(i <= Len(x)) /\ i - Len(x) \in 1..(Len(l) - q) /\ q + (i - Len(x)) = i + 1
        BY <2>8, <3>2
      <4>2. y[i - Len(x)] = l[i + 1]
        BY <2>5, <2>6, <4>1
      <4> QED
        BY <2>7, <2>8, <3>2, <4>1, <4>2
    <3> QED
      BY <3>1, <3>2
  <2> QED
    BY <2>4, <2>6, <2>7, <2>8, <2>9
<1> QED
  BY <1>1, <1>2

LEMMA RemoveKeepsApart ==
  ASSUME NEW S, NEW l \in Seq(S), IsInjective(l), NEW b
  PROVE  IsInjective(RemoveFirst(l, b))
<1>1. CASE \A i \in 1..Len(l) : l[i] # b
  BY <1>1, RemoveFirstIs
<1>2. ASSUME NEW q \in 1..Len(l), l[q] = b PROVE IsInjective(RemoveFirst(l, b))
  <2>1. PICK r : r = RemoveFirst(l, b)
    OBVIOUS
  <2>2. /\ DOMAIN r = 1..(Len(l) - 1) /\ Len(l) \in Nat
        /\ \A i \in 1..(Len(l) - 1) : r[i] = IF i < q THEN l[i] ELSE l[i + 1]
    <3>1. r \in Seq(S) /\ Len(r) = Len(l) - 1
      BY <1>2, <2>1, RemoveFirstIs
    <3> QED
      BY <1>2, <2>1, <3>1, RemoveFirstIs
  <2>3. \A i, j \in 1..Len(l) : l[i] = l[j] => i = j
    BY DEF IsInjective
  <2>4. ASSUME NEW i \in 1..(Len(l) - 1), NEW j \in 1..(Len(l) - 1), r[i] = r[j] PROVE i = j
    BY <2>2, <2>3, <2>4
  <2> QED
    BY <2>1, <2>2, <2>4 DEF IsInjective
<1> QED
  BY <1>1, <1>2

\* d is a part of l that starts where l has a.
StartsAt(d, l, a, p) ==
    /\ p \in 1..Len(l) /\ l[p] = a
    /\ Len(d) <= Len(l) - p + 1
    /\ \A i \in 1..Len(d) : d[i] = l[p + i - 1]

LEMMA RemoveKeepsTurn ==
  ASSUME NEW S, NEW l \in Seq(S), IsInjective(l), NEW d \in Seq(S), NEW a, NEW b, a # b,
         NEW p, StartsAt(d, l, a, p)
  PROVE  \E k : StartsAt(RemoveFirst(d, b), RemoveFirst(l, b), a, k)
<1>1. /\ p \in 1..Len(l) /\ l[p] = a
      /\ Len(d) <= Len(l) - p + 1 /\ Len(d) \in Nat /\ Len(l) \in Nat
      /\ \A i \in 1..Len(d) : d[i] = l[p + i - 1]
      /\ \A i, j \in 1..Len(l) : l[i] = l[j] => i = j
      /\ DOMAIN d = 1..Len(d)
  BY DEF StartsAt, IsInjective
<1>2. IsInjective(d)
  <2>1. ASSUME NEW i \in 1..Len(d), NEW j \in 1..Len(d), d[i] = d[j] PROVE i = j
    <3>1. p + i - 1 \in 1..Len(l) /\ p + j - 1 \in 1..Len(l)
      BY <1>1
    <3>2. l[p + i - 1] = l[p + j - 1]
      BY <1>1, <2>1
    <3>3. p + i - 1 = p + j - 1
      BY <1>1, <3>1, <3>2
    <3> QED
      BY <1>1, <3>3
  <2> QED
    BY <1>1, <2>1 DEF IsInjective
<1>3. CASE \A i \in 1..Len(l) : l[i] # b
  <2>1. ASSUME NEW i \in 1..Len(d) PROVE d[i] # b
    <3>1. p + i - 1 \in 1..Len(l)
      BY <1>1
    <3> QED
      BY <1>1, <1>3, <3>1
  <2>2. RemoveFirst(d, b) = d /\ RemoveFirst(l, b) = l
    BY <1>2, <1>3, <2>1, RemoveFirstIs
  <2> QED
    BY <2>2
<1>4. ASSUME NEW q \in 1..Len(l), l[q] = b PROVE \E k : StartsAt(RemoveFirst(d, b), RemoveFirst(l, b), a, k)
  <2>1. PICK m, e : m = RemoveFirst(l, b) /\ e = RemoveFirst(d, b)
    OBVIOUS
  <2>2. /\ Len(m) = Len(l) - 1 /\ q # p
        /\ \A i \in 1..(Len(l) - 1) : m[i] = IF i < q THEN l[i] ELSE l[i + 1]
    BY <1>1, <1>4, <2>1, RemoveFirstIs
  <2>3. CASE \A i \in 1..Len(d) : d[i] # b
    <3>1. e = d
      BY <1>2, <2>1, <2>3, RemoveFirstIs
    <3>2. CASE q < p
      <4>1. p - 1 \in 1..Len(m) /\ m[p - 1] = l[p] /\ Len(d) <= Len(m) - (p - 1) + 1
        BY <1>1, <2>2, <3>2
      <4>2. ASSUME NEW i \in 1..Len(d) PROVE d[i] = m[(p - 1) + i - 1]
        <5>1. (p - 1) + i - 1 \in 1..(Len(l) - 1) /\ ~((p - 1) + i - 1 < q)
          BY <1>1, <3>2
        <5>2. m[(p - 1) + i - 1] = l[((p - 1) + i - 1) + 1]
          BY <2>2, <5>1
        <5>3. ((p - 1) + i - 1) + 1 = p + i - 1
          BY <1>1
        <5> QED
          BY <1>1, <5>2, <5>3
      <4>3. StartsAt(d, m, a, p - 1)
        BY <1>1, <4>1, <4>2 DEF StartsAt
      <4> QED
        BY <2>1, <3>1, <4>3
    <3>3. CASE q > p
      <4>1. q > p + Len(d) - 1
        <5> SUFFICES ASSUME q <= p + Len(d) - 1 PROVE FALSE
          BY <1>1
        <5>1. q - p + 1 \in 1..Len(d) /\ p + (q - p + 1) - 1 = q
          BY <1>1, <3>3
        <5>2. d[q - p + 1] = l[q]
          BY <1>1, <5>1
        <5> QED
          BY <1>4, <2>3, <5>1, <5>2
      <4>2. p \in 1..Len(m) /\ m[p] = l[p] /\ Len(d) <= Len(m) - p + 1
        <5>1. /\ p \in 1..Len(l) /\ q \in 1..Len(l) /\ Len(d) \in Nat /\ Len(l) \in Nat
              /\ Len(m) = Len(l) - 1
          BY <1>1, <1>4, <2>2
        <5>2. p \in 1..(Len(l) - 1) /\ p < q /\ Len(d) <= Len(m) - p + 1
          BY <3>3, <4>1, <5>1
        <5>3. m[p] = l[p]
          BY <2>2, <5>2
        <5> QED
          BY <5>1, <5>2, <5>3
      <4>3. ASSUME NEW i \in 1..Len(d) PROVE d[i] = m[p + i - 1]
        <5>1. p + i - 1 \in 1..(Len(l) - 1) /\ p + i - 1 < q
          <6>1. p \in Nat \ {0} /\ i \in 1..Len(d) /\ q \in 1..Len(l) /\ Len(d) \in Nat /\ Len(l) \in Nat
            BY <1>1, <1>4, <4>3
          <6> QED
            BY <4>1, <6>1
        <5> QED
          BY <1>1, <2>2, <5>1
      <4>4. StartsAt(d, m, a, p)
        BY <1>1, <4>2, <4>3 DEF StartsAt
      <4> QED
        BY <2>1, <3>1, <4>4
    <3> QED
      BY <1>1, <2>2, <3>2, <3>3
  <2>4. ASSUME NEW j \in 1..Len(d), d[j] = b PROVE \E k : StartsAt(e, m, a, k)
    <3>1. q = p + j - 1
      <4>1. p + j - 1 \in 1..Len(l) /\ d[j] = l[p + j - 1]
        <5>1. /\ p \in 1..Len(l) /\ j \in 1..Len(d) /\ Len(d) \in Nat /\ Len(l) \in Nat
              /\ Len(d) <= Len(l) - p + 1
          BY <1>1
        <5>2. p + j - 1 \in 1..Len(l)
          BY <5>1
        <5> QED
          BY <1>1, <5>2
      <4>2. PICK k \in 1..Len(l) : k = p + j - 1
        BY <4>1
      <4>3. l[q] = l[k] /\ q \in DOMAIN l /\ k \in DOMAIN l
        BY <1>4, <2>4, <4>1, <4>2
      <4>4. q = k
        BY <4>3 DEF IsInjective
      <4> QED
        BY <4>2, <4>4
    <3>2. /\ Len(e) = Len(d) - 1
          /\ \A i \in 1..(Len(d) - 1) : e[i] = IF i < j THEN d[i] ELSE d[i + 1]
      BY <1>2, <2>1, <2>4, RemoveFirstIs
    <3>3. q > p
      BY <1>1, <2>2, <3>1
    <3>4. ASSUME NEW i \in 1..(Len(d) - 1) PROVE e[i] = m[p + i - 1]
      <4>1. p \in Nat /\ i \in Nat /\ j \in Nat /\ q \in Nat
        BY <1>1
      <4>2. p + i - 1 \in 1..(Len(l) - 1) /\ (i < j => p + i - 1 < q) /\ (p + i - 1 < q => i < j)
        BY <1>1, <3>1, <4>1
      <4>3. /\ i \in 1..Len(d) /\ i + 1 \in 1..Len(d)
            /\ p + (i + 1) - 1 = (p + i - 1) + 1
        BY <1>1
      <4>4. d[i] = l[p + i - 1] /\ d[i + 1] = l[(p + i - 1) + 1]
        BY <1>1, <4>3
      <4> QED
        BY <2>2, <3>2, <4>2, <4>4
    <3>5. p \in 1..(Len(l) - 1) /\ m[p] = l[p] /\ Len(d) - 1 <= Len(m) - p + 1
      BY <1>1, <2>2, <3>3
    <3>6. StartsAt(e, m, a, p)
      BY <1>1, <2>2, <3>2, <3>4, <3>5 DEF StartsAt
    <3> QED
      BY <3>6
  <2> QED
    BY <2>1, <2>3, <2>4
<1> QED
  BY <1>3, <1>4

-----------------------------------------------------------------------------
(* Types *)

ThreadState ==
    [pc : {"look", "process", "clearing", "polling", "answer", "firing", "acting", "ask",
           "asking", "over", "broken"},
     at : {"loop", "action", "leave"}, side : Side, a : Action \cup {None},
     next : Action \cup {None}, read : SUBSET Bit, bits : SUBSET Bit,
     back : {"loop", "firing", "acting", "polling"}]

LEMMA IdleType == Idle \in ThreadState
  BY DEF Idle, ThreadState, Side

LEMMA ListType ==
  ASSUME TypeOK, NEW t \in Thread
  PROVE  /\ th[t] \in ThreadState /\ th[t].side \in Side
         /\ list[th[t].side] \in Seq(Action) /\ due[t] \in Seq(Action)
  BY DEF TypeOK, ThreadState

LEMMA Heads ==
  ASSUME NEW S, NEW l \in Seq(S), l # <<>>
  PROVE  /\ Head(l) = l[1] /\ l[1] \in S /\ Len(l) \in Nat \ {0} /\ Tail(l) \in Seq(S)
         /\ Len(Tail(l)) = Len(l) - 1 /\ \A i \in 1..(Len(l) - 1) : Tail(l)[i] = l[i + 1]
  OBVIOUS

LEMMA SuccessorType ==
  ASSUME NEW l \in Seq(Action), NEW q \in 1..Len(l)
  PROVE  Successor(l, l[q]) \in Action \cup {None}
<1>1. PICK i : i = CHOOSE j \in DOMAIN l : l[j] = l[q]
  OBVIOUS
<1>2. i \in 1..Len(l)
  BY <1>1
<1> QED
  BY <1>1, <1>2 DEF Successor

LEMMA DoActionsType ==
  ASSUME TypeOK, NEW t \in Thread, NEW s \in Side, DoActions(t, s)
  PROVE  /\ th' \in [Thread -> ThreadState] /\ due' \in [Thread -> Seq(Action)]
         /\ cut' \in [Thread -> BOOLEAN]
<1>1. PICK l : l = list[s]
  OBVIOUS
<1>2. l \in Seq(Action)
  BY <1>1 DEF TypeOK
<1>3. PICK h : h = IF l = <<>> THEN None ELSE Head(l)
  OBVIOUS
<1>4. h \in Action \cup {None}
  BY <1>2, <1>3, Heads
<1>5. [Idle EXCEPT !.side = s, !.at = IF l = <<>> THEN "leave" ELSE "action", !.a = h] \in ThreadState
  BY <1>4 DEF Idle, ThreadState
<1>6. /\ th \in [Thread -> ThreadState] /\ due \in [Thread -> Seq(Action)]
      /\ cut \in [Thread -> BOOLEAN]
  BY DEF TypeOK, ThreadState
<1> QED
  BY <1>1, <1>2, <1>3, <1>5, <1>6 DEF DoActions

LEMMA TypeInit == Init => TypeOK
<1> SUFFICES ASSUME Init PROVE TypeOK
  OBVIOUS
<1>1. mode \in Modes /\ mode.list \in [Side -> Seq(Action)] /\ mode.polls \in BOOLEAN
      /\ mode.commands \in Nat /\ mode.signals \in Nat
  BY ModesAssumption DEF Init
<1>2. th \in [Thread -> ThreadState]
  <2>1. [Idle EXCEPT !.pc = "over"] \in ThreadState
    BY DEF Idle, ThreadState, Side
  <2> QED
    BY <2>1, IdleType DEF Init
<1>3. <<>> \in Seq(Action)
  OBVIOUS
<1> QED
  BY <1>1, <1>2, <1>3 DEF Init, TypeOK, ThreadState

\* A step of one thread that leaves the lists alone.
LEMMA ThreadStepType ==
  ASSUME TypeOK, NEW t \in Thread, NEW x \in ThreadState, th' = [th EXCEPT ![t] = x],
         UNCHANGED <<mode, list, handler>>,
         flags' \subseteq Bit, pollflag' \in BOOLEAN, onPoll' \in BOOLEAN,
         alarm' \in {"off", "armed", "pending"}, gate' \in Thread \cup {None},
         left' \in [commands : Nat, signals : Nat],
         due' \in [Thread -> Seq(Action)], cut' \in [Thread -> BOOLEAN]
  PROVE  TypeOK'
<1>1. th' \in [Thread -> ThreadState]
  BY DEF TypeOK, ThreadState
<1> QED
  BY <1>1 DEF TypeOK, ThreadState

LEMMA CommandType ==
  ASSUME TypeOK, NEW t \in Thread, NEW c, Commanding(t, c)
  PROVE  left' \in [commands : Nat, signals : Nat] /\ th[t].pc \in {"firing", "acting", "polling"}
<1>1. left \in [commands : Nat, signals : Nat] /\ left.commands > 0
  BY DEF TypeOK, Commanding
<1>2. left' = [left EXCEPT !.commands = @ - 1]
  BY DEF Commanding
<1>3. left' \in [commands : Nat, signals : Nat]
  BY <1>1, <1>2
<1>4. th[t].pc \in {"firing", "acting", "polling"}
  BY DEF Commanding, May
<1> QED
  BY <1>3, <1>4

LEMMA TypeStep == IInv /\ TypeOK /\ [Next]_vars => TypeOK'
<1> SUFFICES ASSUME IInv, TypeOK, [Next]_vars PROVE TypeOK'
  OBVIOUS
<1>1. /\ mode \in Modes /\ flags \subseteq Bit /\ pollflag \in BOOLEAN /\ onPoll \in BOOLEAN
      /\ alarm \in {"off", "armed", "pending"} /\ gate \in Thread \cup {None}
      /\ list \in [Side -> Seq(Action)] /\ th \in [Thread -> ThreadState]
      /\ handler \in [on : Thread \cup {None}, read : SUBSET Bit]
      /\ left \in [commands : Nat, signals : Nat]
      /\ due \in [Thread -> Seq(Action)] /\ cut \in [Thread -> BOOLEAN]
  BY DEF TypeOK, ThreadState
<1>2. ASSUME NEW t \in Thread, Look(t) PROVE TypeOK'
  <2>1. PICK x : x = [th[t] EXCEPT !.pc = IF flags # {} \/ pollflag' THEN "process" ELSE "answer"]
    OBVIOUS
  <2>2. th[t] \in ThreadState
    BY <1>1
  <2>3. x \in ThreadState
    BY <1>1, <1>2, <2>1, <2>2 DEF Look, ThreadState
  <2>4. th' = [th EXCEPT ![t] = x]
    BY <1>2, <2>1 DEF Look, Goto
  <2> QED
    BY <1>1, <1>2, <2>3, <2>4, ThreadStepType DEF Look
<1>3. ASSUME NEW t \in Thread, ProcessFlags(t) PROVE TypeOK'
  <2>1. PICK x : x = [th[t] EXCEPT !.pc = IF "interrupt" \in flags THEN "clearing" ELSE "polling",
                         !.read = IF "interrupt" \in flags THEN flags ELSE {}]
    OBVIOUS
  <2>2. th[t] \in ThreadState
    BY <1>1
  <2>3. x \in ThreadState
    BY <1>1, <1>3, <2>1, <2>2 DEF ProcessFlags, ThreadState
  <2>4. th' = [th EXCEPT ![t] = x]
    BY <1>3, <2>1 DEF ProcessFlags, Goto
  <2> QED
    BY <1>1, <1>3, <2>3, <2>4, ThreadStepType DEF ProcessFlags, Enter
<1>4. ASSUME NEW t \in Thread, ClearInterrupt(t) PROVE TypeOK'
  <2>1. PICK x : x = [th[t] EXCEPT !.pc = "polling", !.read = {}]
    OBVIOUS
  <2>2. th[t] \in ThreadState
    BY <1>1
  <2>3. x \in ThreadState
    BY <1>1, <1>4, <2>1, <2>2 DEF ClearInterrupt, ThreadState
  <2>4. th' = [th EXCEPT ![t] = x]
    BY <1>4, <2>1 DEF ClearInterrupt, Goto
  <2>5. flags' \subseteq Bit
    BY <1>4, <2>2 DEF ClearInterrupt, ThreadState
  <2> QED
    BY <1>1, <1>4, <2>3, <2>4, <2>5, ThreadStepType DEF ClearInterrupt
<1>5. ASSUME NEW t \in Thread, NoPoll(t) PROVE TypeOK'
  <2>1. PICK x : x = [th[t] EXCEPT !.pc = "answer"]
    OBVIOUS
  <2>2. th[t] \in ThreadState
    BY <1>1
  <2>3. x \in ThreadState
    BY <1>1, <1>5, <2>1, <2>2 DEF NoPoll, ThreadState
  <2>4. th' = [th EXCEPT ![t] = x]
    BY <1>5, <2>1 DEF NoPoll, Goto
  <2> QED
    BY <1>1, <1>5, <2>3, <2>4, ThreadStepType DEF NoPoll, Leave
<1>6. ASSUME NEW t \in Thread, RearmTimer(t) PROVE TypeOK'
  <2>1. PICK x : x = [th[t] EXCEPT !.pc = "answer"]
    OBVIOUS
  <2>2. th[t] \in ThreadState
    BY <1>1
  <2>3. x \in ThreadState
    BY <1>1, <1>6, <2>1, <2>2 DEF RearmTimer, ThreadState
  <2>4. th' = [th EXCEPT ![t] = x]
    BY <1>6, <2>1 DEF RearmTimer, Goto
  <2> QED
    BY <1>1, <1>6, <2>3, <2>4, ThreadStepType DEF RearmTimer, Leave
<1>7. ASSUME NEW t \in Thread, LeaveActions(t) PROVE TypeOK'
  <2>1. PICK x : x = [Idle EXCEPT !.side = th[t].side, !.at = "leave"]
    OBVIOUS
  <2>2. th[t] \in ThreadState
    BY <1>1
  <2>3. x \in ThreadState
    BY <1>1, <1>7, <2>1, <2>2 DEF LeaveActions, ThreadState, Idle
  <2>4. th' = [th EXCEPT ![t] = x]
    BY <1>7, <2>1 DEF LeaveActions, Goto
  <2>5. due' \in [Thread -> Seq(Action)] /\ cut' \in [Thread -> BOOLEAN]
    BY <1>1, <1>7 DEF LeaveActions
  <2> QED
    BY <1>1, <1>7, <2>3, <2>4, <2>5, ThreadStepType DEF LeaveActions
<1>8. ASSUME NEW t \in Thread, AfterAction(t) PROVE TypeOK'
  <2>1. PICK x : x = [Idle EXCEPT !.side = th[t].side, !.at = "action", !.a = th[t].next]
    OBVIOUS
  <2>2. th[t] \in ThreadState
    BY <1>1
  <2>3. x \in ThreadState
    BY <1>1, <1>8, <2>1, <2>2 DEF AfterAction, ThreadState, Idle
  <2>4. th' = [th EXCEPT ![t] = x]
    BY <1>8, <2>1 DEF AfterAction, Goto
  <2> QED
    BY <1>1, <1>8, <2>3, <2>4, ThreadStepType DEF AfterAction
<1>9. ASSUME NEW t \in Thread, AfterActions(t) PROVE TypeOK'
  <2>1. PICK x : x = IF ~Halted /\ th[t].side = "pre" THEN [Idle EXCEPT !.pc = "firing"] ELSE Idle
    OBVIOUS
  <2>2. th[t] \in ThreadState
    BY <1>1
  <2>3. x \in ThreadState
    BY <1>1, <1>9, <2>1, <2>2 DEF AfterActions, ThreadState, Idle, Side
  <2>4. th' = [th EXCEPT ![t] = x]
    BY <1>9, <2>1 DEF AfterActions, Goto
  <2> QED
    BY <1>1, <1>9, <2>3, <2>4, ThreadStepType DEF AfterActions
<1>10. ASSUME NEW t \in Thread, NEW c \in DOMAIN Halts, AskHalt(t, c) PROVE TypeOK'
  <2>1. PICK x : x = [th[t] EXCEPT !.pc = "ask", !.back = th[t].pc, !.bits = Halts[c]]
    OBVIOUS
  <2>2. th[t] \in ThreadState
    BY <1>1
  <2>3. x \in ThreadState
    <3>1. Halts[c] \subseteq Bit
      BY DEF Halts, Bit
    <3>2. th[t].pc \in {"firing", "acting", "polling"}
      BY <1>10, CommandType DEF AskHalt
    <3> QED
      BY <2>1, <2>2, <3>1, <3>2 DEF ThreadState
  <2>4. th' = [th EXCEPT ![t] = x]
    BY <1>10, <2>1 DEF AskHalt, Goto
  <2>5. left' \in [commands : Nat, signals : Nat]
    BY <1>10, CommandType DEF AskHalt
  <2> QED
    BY <1>1, <1>10, <2>3, <2>4, <2>5, ThreadStepType DEF AskHalt
<1>11. ASSUME NEW t \in Thread, ReadToAsk(t) PROVE TypeOK'
  <2>1. PICK x : x = [th[t] EXCEPT !.pc = "asking", !.read = flags]
    OBVIOUS
  <2>2. th[t] \in ThreadState
    BY <1>1
  <2>3. x \in ThreadState
    BY <1>1, <1>11, <2>1, <2>2 DEF ReadToAsk, ThreadState
  <2>4. th' = [th EXCEPT ![t] = x]
    BY <1>11, <2>1 DEF ReadToAsk, Goto
  <2> QED
    BY <1>1, <1>11, <2>3, <2>4, ThreadStepType DEF ReadToAsk, Enter
<1>12. ASSUME NEW t \in Thread, SetHalt(t) PROVE TypeOK'
  <2>1. PICK x : x = [th[t] EXCEPT !.pc = th[t].back, !.read = {}, !.bits = {}, !.back = "loop"]
    OBVIOUS
  <2>2. th[t] \in ThreadState
    BY <1>1
  <2>3. x \in ThreadState
    <3>1. th[t].back \in {"firing", "acting", "polling"}
      BY <1>12 DEF SetHalt, At, IInv, GateIsHeld
    <3> QED
      BY <2>1, <2>2, <3>1 DEF ThreadState
  <2>4. th' = [th EXCEPT ![t] = x]
    BY <1>12, <2>1 DEF SetHalt, Goto
  <2>5. flags' \subseteq Bit
    BY <1>12, <2>2 DEF SetHalt, ThreadState
  <2> QED
    BY <1>1, <1>12, <2>3, <2>4, <2>5, ThreadStepType DEF SetHalt, Leave
<1>13. ASSUME NEW t \in Thread, NextStar(t) PROVE TypeOK'
  <2>1. CASE Goto(t, "over") /\ UNCHANGED <<due, cut>>
    <3>1. th' \in [Thread -> ThreadState]
      <4>1. th[t] \in ThreadState
        BY <1>1
      <4>2. [th[t] EXCEPT !.pc = "over"] \in ThreadState
        BY <4>1 DEF ThreadState
      <4> QED
        BY <1>1, <2>1, <4>2 DEF Goto
    <3> QED
      BY <1>1, <1>13, <2>1, <3>1 DEF NextStar, TypeOK, ThreadState
  <2>2. CASE DoActions(t, "pre")
    <3>1. /\ th' \in [Thread -> ThreadState] /\ due' \in [Thread -> Seq(Action)]
          /\ cut' \in [Thread -> BOOLEAN]
      BY <2>2, DoActionsType DEF Side
    <3> QED
      BY <1>1, <1>13, <3>1 DEF NextStar, TypeOK, ThreadState
  <2> QED
    BY <1>13, <2>1, <2>2 DEF NextStar
<1>14. ASSUME NEW t \in Thread, EndGo(t) PROVE TypeOK'
  <2>1. /\ th' \in [Thread -> ThreadState] /\ due' \in [Thread -> Seq(Action)]
        /\ cut' \in [Thread -> BOOLEAN]
    BY <1>14, DoActionsType DEF EndGo, Side
  <2> QED
    BY <1>1, <1>14, <2>1 DEF EndGo, TypeOK, ThreadState
<1>15. ASSUME NEW t \in Thread, ApplyAction(t) PROVE TypeOK'
  <2>1. PICK l, a : l = list[th[t].side] /\ a = th[t].a
    OBVIOUS
  <2>2. l \in Seq(Action) /\ th[t] \in ThreadState
    BY <2>1, ListType
  <2>3. th' \in [Thread -> ThreadState]
    <3>1. CASE a \in {l[i] : i \in DOMAIN l}
      <4>1. th' = [th EXCEPT ![t].pc = "acting", ![t].next = Successor(l, a)]
        BY <1>15, <2>1, <3>1 DEF ApplyAction
      <4>2. Successor(l, a) \in Action \cup {None}
        BY <2>2, <3>1, SuccessorType
      <4>3. [th[t] EXCEPT !.pc = "acting", !.next = Successor(l, a)] \in ThreadState
        BY <2>2, <4>2 DEF ThreadState
      <4> QED
        BY <1>1, <4>1, <4>3
    <3>2. CASE a \notin {l[i] : i \in DOMAIN l}
      <4>1. Goto(t, "broken")
        BY <1>15, <2>1, <3>2 DEF ApplyAction
      <4>2. [th[t] EXCEPT !.pc = "broken"] \in ThreadState
        BY <2>2 DEF ThreadState
      <4> QED
        BY <1>1, <4>1, <4>2 DEF Goto
    <3> QED
      BY <3>1, <3>2
  <2>4. due' \in [Thread -> Seq(Action)]
    <3>1. due' = [due EXCEPT ![t] = IF @ # <<>> /\ Head(@) = a THEN Tail(@) ELSE @]
      BY <1>15, <2>1 DEF ApplyAction
    <3>2. due[t] # <<>> => Tail(due[t]) \in Seq(Action)
      BY <1>1, Heads
    <3> QED
      BY <1>1, <3>1, <3>2
  <2> QED
    BY <1>1, <1>15, <2>3, <2>4 DEF ApplyAction, TypeOK, ThreadState
<1>16. ASSUME NEW t \in Thread, NEW s \in Side, Register(t, s) PROVE TypeOK'
  <2>1. PICK b \in Action : list' = [list EXCEPT ![s] = Append(@, b)]
    BY <1>16 DEF Register
  <2>2. list' \in [Side -> Seq(Action)]
    BY <1>1, <2>1
  <2> QED
    BY <1>1, <1>16, <2>2, CommandType DEF Register, TypeOK, ThreadState
<1>17. ASSUME NEW t \in Thread, SetPollAction(t) PROVE TypeOK'
  BY <1>1, <1>17, CommandType DEF SetPollAction, TypeOK, ThreadState
<1>18. ASSUME NEW t \in Thread, CatchInterrupt(t) PROVE TypeOK'
  <2>1. left' \in [commands : Nat, signals : Nat]
    <3>1. left.signals > 0 /\ left' = [left EXCEPT !.signals = @ - 1]
      BY <1>18 DEF CatchInterrupt
    <3> QED
      BY <1>1, <3>1
  <2>2. handler' \in [on : Thread \cup {None}, read : SUBSET Bit]
    BY <1>1, <1>18 DEF CatchInterrupt
  <2> QED
    BY <1>1, <1>18, <2>1, <2>2 DEF CatchInterrupt, TypeOK, ThreadState
<1>19. CASE HandlerReturns
  BY <1>1, <1>19 DEF HandlerReturns, Bit, TypeOK, ThreadState
<1>20. CASE TimerExpires
  BY <1>1, <1>20 DEF TimerExpires, TypeOK, ThreadState
<1>21. CASE RunAgain
  <2>1. th' \in [Thread -> ThreadState]
    BY <1>1, <1>21, IdleType DEF RunAgain
  <2>2. left' \in [commands : Nat, signals : Nat]
    BY <1>1, <1>21, ModesAssumption DEF RunAgain
  <2>3. due' \in [Thread -> Seq(Action)]
    BY <1>21 DEF RunAgain
  <2> QED
    BY <1>1, <1>21, <2>1, <2>2, <2>3 DEF RunAgain, TypeOK, ThreadState
<1>22. CASE UNCHANGED vars
  BY <1>22 DEF vars, TypeOK
<1>23. ASSUME NEW t \in Thread, NEW b \in Action, Cancel(t, b) PROVE TypeOK'
  <2>1. /\ list' = [s \in Side |-> RemoveFirst(list[s], b)]
        /\ due' = [u \in Thread |-> RemoveFirst(due[u], b)]
        /\ cut' = [u \in Thread |-> cut[u] \/ Pending(u) = b]
    BY <1>23 DEF Cancel
  <2>2. list' \in [Side -> Seq(Action)] /\ due' \in [Thread -> Seq(Action)]
    BY <1>1, <2>1, RemoveFirstType
  <2>3. cut' \in [Thread -> BOOLEAN]
    BY <1>1, <2>1
  <2> QED
    BY <1>1, <1>23, <2>2, <2>3, CommandType DEF Cancel, TypeOK, ThreadState
<1>24. ASSUME NEW t \in Thread, HaltRequested(t) \/ Run(t) PROVE TypeOK'
  BY <1>2, <1>3, <1>4, <1>5, <1>6, <1>7, <1>8, <1>9, <1>11, <1>12, <1>13, <1>14, <1>15, <1>24
     DEF HaltRequested, Run
<1>25. ASSUME NEW t \in Thread, Command(t) PROVE TypeOK'
  BY <1>10, <1>16, <1>23, <1>17, <1>25 DEF Command
<1> QED
  BY <1>18, <1>19, <1>20, <1>21, <1>22, <1>24, <1>25 DEF Next
-----------------------------------------------------------------------------
(* The traversals *)

Where(t) ==
    /\ "acting" \in {th[t].pc, th[t].back} => th[t].at = "action"
    /\ th[t].pc \notin {"ask", "asking"} => th[t].back = "loop"

\* What a thread still owes is the part of its list from the action that it will
\* go to next.
InTurn(t) ==
    th[t].at = "action" /\ ~cut[t] =>
        IF Pending(t) = None THEN due[t] = <<>>
        ELSE \E p : StartsAt(due[t], list[th[t].side], Pending(t), p)

BrokenByCancel(t) == th[t].pc = "broken" => th[t].at = "action" /\ cut[t]

TurnInv ==
    /\ \A s \in Side : IsInjective(list[s])
    /\ \A t \in Thread : Where(t) /\ InTurn(t) /\ BrokenByCancel(t)

LEMMA TurnInit == Init => TurnInv
<1> SUFFICES ASSUME Init PROVE TurnInv
  OBVIOUS
<1>1. \A t \in Thread : th[t].pc \in {"look", "over"} /\ th[t].at = "loop" /\ th[t].back = "loop"
  BY DEF Init, Idle
<1>2. \A s \in Side : IsInjective(list[s])
  BY ModesAssumption DEF Init
<1> QED
  BY <1>1, <1>2 DEF TurnInv, Where, InTurn, BrokenByCancel

\* A step of one thread.
LEMMA TurnOfOne ==
  ASSUME TurnInv, NEW t \in Thread, UNCHANGED list,
         \A u \in Thread : u # t => th'[u] = th[u] /\ due'[u] = due[u] /\ cut'[u] = cut[u],
         Where(t)', InTurn(t)', BrokenByCancel(t)'
  PROVE  TurnInv'
<1>1. ASSUME NEW u \in Thread, u # t PROVE (Where(u) /\ InTurn(u) /\ BrokenByCancel(u))'
  <2>1. th'[u] = th[u] /\ due'[u] = due[u] /\ cut'[u] = cut[u]
    BY <1>1
  <2>2. Where(u) /\ InTurn(u) /\ BrokenByCancel(u)
    BY DEF TurnInv
  <2> QED
    BY <2>1, <2>2 DEF Where, InTurn, BrokenByCancel, Pending
<1>2. \A s \in Side : IsInjective(list'[s])
  BY DEF TurnInv
<1> QED
  BY <1>1, <1>2 DEF TurnInv

\* It is where it was in the list.
LEMMA TurnStays ==
  ASSUME TurnInv, NEW t \in Thread, UNCHANGED <<list, due, cut>>,
         \A u \in Thread : u # t => th'[u] = th[u],
         Where(t)', th'[t].at = th[t].at, th'[t].side = th[t].side,
         Pending(t)' = Pending(t), th'[t].pc # "broken"
  PROVE  TurnInv'
<1>1. InTurn(t)
  BY DEF TurnInv
<1>2. InTurn(t)' /\ BrokenByCancel(t)'
  BY <1>1 DEF InTurn, BrokenByCancel
<1> QED
  BY <1>2, TurnOfOne

\* It is not in a list.
LEMMA TurnIsOver ==
  ASSUME TurnInv, NEW t \in Thread, UNCHANGED list,
         \A u \in Thread : u # t => th'[u] = th[u] /\ due'[u] = due[u] /\ cut'[u] = cut[u],
         Where(t)', th'[t].at # "action", th'[t].pc # "broken"
  PROVE  TurnInv'
<1>1. InTurn(t)' /\ BrokenByCancel(t)'
  BY DEF InTurn, BrokenByCancel
<1> QED
  BY <1>1, TurnOfOne

\* It starts at the head of the list, and owes all of it.
LEMMA TurnBegins ==
  ASSUME TypeOK, TurnInv, NEW t \in Thread, NEW s \in Side, DoActions(t, s), UNCHANGED list
  PROVE  TurnInv'
<1>1. PICK l \in Seq(Action) : l = list[s]
  BY DEF TypeOK
<1>2. PICK h : h = IF l = <<>> THEN None ELSE Head(l)
  OBVIOUS
<1>3. th'[t] = [Idle EXCEPT !.side = s, !.at = IF l = <<>> THEN "leave" ELSE "action", !.a = h]
  BY <1>1, <1>2 DEF DoActions, TypeOK
<1>4. /\ th'[t].pc = "look" /\ th'[t].back = "loop" /\ th'[t].side = s /\ th'[t].a = h
      /\ th'[t].at = IF l = <<>> THEN "leave" ELSE "action"
  BY <1>3 DEF Idle
<1>5. due'[t] = l
      /\ \A u \in Thread : u # t => th'[u] = th[u] /\ due'[u] = due[u] /\ cut'[u] = cut[u]
  BY <1>1 DEF DoActions, TypeOK
<1>6. Where(t)' /\ BrokenByCancel(t)'
  BY <1>4 DEF Where, BrokenByCancel
<1>7. CASE l = <<>>
  BY <1>4, <1>5, <1>6, <1>7, TurnIsOver
<1>8. CASE l # <<>>
  <2>1. StartsAt(l, l, h, 1)
    BY <1>2, <1>8, Heads DEF StartsAt
  <2>2. h # None
    BY <1>2, <1>8, Heads, ModesAssumption
  <2>3. Pending(t)' = h
    BY <1>4 DEF Pending
  <2>4. InTurn(t)'
    BY <1>1, <1>4, <1>5, <2>1, <2>2, <2>3 DEF InTurn
  <2> QED
    BY <1>5, <1>6, <2>4, TurnOfOne
<1> QED
  BY <1>7, <1>8

\* The action that a thread goes to is in the list, and once it is applied the
\* next one in the list is due.
LEMMA TurnGoesOn == ASSUME TypeOK, TurnInv, NEW t \in Thread, ApplyAction(t) PROVE TurnInv'
<1> DEFINE a == th[t].a
<1>1. PICK l \in Seq(Action), d \in Seq(Action) : l = list[th[t].side] /\ d = due[t] /\ a = th[t].a
  BY ListType
<1> HIDE DEF a
<1>2. /\ th[t].pc = "answer" /\ th[t].at = "action" /\ a # None /\ UNCHANGED <<list, cut>>
      /\ IF a \in {l[i] : i \in DOMAIN l}
         THEN th' = [th EXCEPT ![t].pc = "acting", ![t].next = Successor(l, a)]
         ELSE Goto(t, "broken")
      /\ due' = [due EXCEPT ![t] = IF d # <<>> /\ Head(d) = a THEN Tail(d) ELSE d]
  BY <1>1 DEF ApplyAction, At
<1>3. /\ th \in [Thread -> ThreadState] /\ th[t] \in ThreadState
      /\ due \in [Thread -> Seq(Action)] /\ cut \in [Thread -> BOOLEAN]
  BY DEF TypeOK, ThreadState
<1>4. th[t].back = "loop" /\ Pending(t) = a
  BY <1>1, <1>2 DEF TurnInv, Where, Pending
<1>5. /\ \A u \in Thread : u # t => th'[u] = th[u] /\ due'[u] = due[u] /\ cut'[u] = cut[u]
      /\ due'[t] = IF d # <<>> /\ Head(d) = a THEN Tail(d) ELSE d
  BY <1>2, <1>3 DEF Goto
<1>6. ~cut[t] => \E p : StartsAt(d, l, a, p)
  BY <1>1, <1>2, <1>4 DEF TurnInv, InTurn
<1>7. CASE a \notin {l[i] : i \in DOMAIN l}
  <2>1. cut[t]
    BY <1>6, <1>7 DEF StartsAt
  <2>2. th'[t] = [th[t] EXCEPT !.pc = "broken"]
    BY <1>2, <1>3, <1>7 DEF Goto
  <2>3. th'[t].pc = "broken" /\ th'[t].at = "action" /\ th'[t].back = "loop" /\ cut'[t]
    BY <1>2, <1>3, <1>4, <2>1, <2>2 DEF ThreadState
  <2>4. Where(t)' /\ InTurn(t)' /\ BrokenByCancel(t)'
    BY <2>3 DEF Where, InTurn, BrokenByCancel
  <2> QED
    BY <1>2, <1>5, <2>4, TurnOfOne
<1>8. CASE a \in {l[i] : i \in DOMAIN l}
  <2>1. PICK n : n = Successor(l, a)
    OBVIOUS
  <2>2. th'[t] = [th[t] EXCEPT !.pc = "acting", !.next = n]
    BY <1>2, <1>3, <1>8, <2>1
  <2>3. /\ th'[t].pc = "acting" /\ th'[t].at = "action" /\ th'[t].back = "loop"
        /\ th'[t].side = th[t].side /\ th'[t].next = n
    BY <1>2, <1>3, <1>4, <2>2 DEF ThreadState
  <2>4. Pending(t)' = n /\ Where(t)' /\ BrokenByCancel(t)'
    BY <2>3 DEF Pending, Where, BrokenByCancel
  <2>5. ASSUME ~cut[t]
        PROVE  IF n = None THEN due'[t] = <<>> ELSE \E p : StartsAt(due'[t], l, n, p)
    <3>1. PICK p : StartsAt(d, l, a, p)
      BY <1>6, <2>5
    <3>2. /\ p \in 1..Len(l) /\ l[p] = a /\ Len(l) \in Nat /\ Len(d) \in Nat
          /\ Len(d) <= Len(l) - p + 1
          /\ \A i \in 1..Len(d) : d[i] = l[p + i - 1]
          /\ \A i \in 1..Len(l) : l[i] \in Action
      BY <3>1 DEF StartsAt
    <3>3. \A i \in DOMAIN l : l[i] = a => i = p
      BY <1>1, <1>3, <3>2 DEF TurnInv, IsInjective, ThreadState
    <3>4. PICK c : c = CHOOSE i \in DOMAIN l : l[i] = a
      OBVIOUS
    <3>5. c = p
      <4>1. p \in DOMAIN l
        BY <3>2
      <4>2. c \in DOMAIN l /\ l[c] = a
        BY <3>2, <3>4, <4>1
      <4> QED
        BY <3>3, <4>2
    <3>6. n = IF p = Len(l) THEN None ELSE l[p + 1]
      <4>1. n = IF c = Len(l) THEN None ELSE l[c + 1]
        BY <2>1, <3>4 DEF Successor
      <4> QED
        BY <3>5, <4>1
    <3>7. PICK e \in Seq(Action) : e = due'[t]
      BY <1>5, Heads
    <3>8. d # <<>> => Head(d) = a
      <4>1. d # <<>> => Head(d) = d[1] /\ 1 \in 1..Len(d)
        BY Heads
      <4> QED
        BY <3>2, <4>1
    <3>9. d = <<>> => e = <<>>
      BY <1>5, <3>7
    <3>10. d # <<>> => /\ Len(e) = Len(d) - 1
                       /\ \A i \in 1..(Len(d) - 1) : e[i] = d[i + 1]
      BY <1>5, <3>7, <3>8, Heads
    <3>11. CASE d = <<>>
      <4>1. e = <<>> /\ Len(e) = 0
        BY <3>9, <3>11
      <4>2. CASE p = Len(l)
        BY <3>6, <3>7, <4>1, <4>2
      <4>3. CASE p # Len(l)
        <5>1. StartsAt(e, l, n, p + 1)
          BY <3>2, <3>6, <4>1, <4>3 DEF StartsAt
        <5> QED
          BY <3>2, <3>6, <3>7, <4>3, <5>1, ModesAssumption
      <4> QED
        BY <4>2, <4>3
    <3>12. CASE d # <<>>
      <4>1. CASE p = Len(l)
        <5>1. Len(e) = 0
          BY <3>2, <3>10, <3>12, <4>1, Heads
        <5>2. e = <<>>
          BY <5>1
        <5> QED
          BY <3>6, <3>7, <4>1, <5>2
      <4>2. CASE p # Len(l)
        <5>1. ASSUME NEW i \in 1..(Len(d) - 1) PROVE e[i] = l[(p + 1) + i - 1]
          <6>1. i + 1 \in 1..Len(d) /\ p + (i + 1) - 1 = (p + 1) + i - 1
            BY <3>2
          <6> QED
            BY <3>2, <3>10, <3>12, <6>1
        <5>2. p + 1 \in 1..Len(l) /\ Len(e) <= Len(l) - (p + 1) + 1 /\ l[p + 1] = n
          BY <3>2, <3>6, <3>10, <3>12, <4>2
        <5>3. StartsAt(e, l, n, p + 1)
          BY <3>10, <3>12, <5>1, <5>2 DEF StartsAt
        <5> QED
          BY <3>2, <3>6, <3>7, <4>2, <5>3, ModesAssumption
      <4> QED
        BY <4>1, <4>2
    <3> QED
      BY <3>11, <3>12
  <2>6. InTurn(t)'
    BY <1>1, <1>2, <2>3, <2>4, <2>5 DEF InTurn
  <2> QED
    BY <1>2, <1>5, <2>4, <2>6, TurnOfOne
<1> QED
  BY <1>7, <1>8

\* An action that is cancelled leaves the list and what is due.
LEMMA TurnAfterCancel ==
  ASSUME TypeOK, TurnInv, NEW t \in Thread, NEW b \in Action, Cancel(t, b)
  PROVE  TurnInv'
<1>1. /\ list' = [s \in Side |-> RemoveFirst(list[s], b)]
      /\ due' = [u \in Thread |-> RemoveFirst(due[u], b)]
      /\ cut' = [u \in Thread |-> cut[u] \/ Pending(u) = b]
      /\ UNCHANGED th
  BY DEF Cancel
<1>2. ASSUME NEW s \in Side PROVE IsInjective(list'[s])
  <2>1. list[s] \in Seq(Action) /\ IsInjective(list[s])
    BY DEF TypeOK, TurnInv
  <2>2. list'[s] = RemoveFirst(list[s], b)
    BY <1>1
  <2> QED
    BY <2>1, <2>2, RemoveKeepsApart
<1>3. ASSUME NEW u \in Thread PROVE (Where(u) /\ InTurn(u) /\ BrokenByCancel(u))'
  <2>1. Where(u) /\ InTurn(u) /\ BrokenByCancel(u)
    BY DEF TurnInv
  <2>2. Pending(u)' = Pending(u) /\ cut'[u] = (cut[u] \/ Pending(u) = b)
    BY <1>1 DEF Pending
  <2>3. Where(u)' /\ BrokenByCancel(u)'
    BY <1>1, <2>1, <2>2 DEF Where, BrokenByCancel
  <2>4. ASSUME th[u].at = "action", ~cut'[u]
        PROVE  IF Pending(u) = None THEN due'[u] = <<>>
               ELSE \E p : StartsAt(due'[u], list'[th[u].side], Pending(u), p)
    <3>1. PICK s \in Side, l \in Seq(Action), d \in Seq(Action) :
              s = th[u].side /\ l = list[s] /\ d = due[u]
      BY ListType
    <3>2. /\ IsInjective(l) /\ ~cut[u] /\ Pending(u) # b
          /\ due'[u] = RemoveFirst(d, b) /\ list'[s] = RemoveFirst(l, b)
      BY <1>1, <2>2, <2>4, <3>1 DEF TurnInv
    <3>3. CASE Pending(u) = None
      <4>1. d = <<>>
        BY <2>1, <2>4, <3>1, <3>2, <3>3 DEF InTurn
      <4>2. RemoveFirst(d, b) = <<>>
        BY <4>1 DEF RemoveFirst
      <4> QED
        BY <3>2, <3>3, <4>2
    <3>4. CASE Pending(u) # None
      <4>1. PICK p : StartsAt(d, l, Pending(u), p)
        BY <2>1, <2>4, <3>1, <3>2, <3>4 DEF InTurn
      <4>2. \E k : StartsAt(RemoveFirst(d, b), RemoveFirst(l, b), Pending(u), k)
        BY <3>2, <4>1, RemoveKeepsTurn
      <4> QED
        BY <3>1, <3>2, <3>4, <4>2
    <3> QED
      BY <3>3, <3>4
  <2>5. InTurn(u)'
    BY <1>1, <2>2, <2>4 DEF InTurn
  <2> QED
    BY <2>3, <2>5
<1> QED
  BY <1>2, <1>3 DEF TurnInv

\* An action that is registered is the last of its list.
LEMMA TurnAfterRegister ==
  ASSUME TypeOK, TurnInv, NEW t \in Thread, NEW s \in Side, Register(t, s)
  PROVE  TurnInv'
<1>1. PICK b \in Action : b \notin Listed /\ list' = [list EXCEPT ![s] = Append(@, b)]
  BY DEF Register
<1>2. UNCHANGED <<th, due, cut>> /\ list \in [Side -> Seq(Action)]
  BY DEF Register, TypeOK
<1>3. PICK l \in Seq(Action) : l = list[s]
  BY <1>2
<1>4. /\ list'[s] = Append(l, b) /\ \A r \in Side : r # s => list'[r] = list[r]
      /\ Len(Append(l, b)) = Len(l) + 1 /\ Len(l) \in Nat /\ DOMAIN l = 1..Len(l)
      /\ DOMAIN Append(l, b) = 1..(Len(l) + 1)
      /\ \A i \in 1..Len(l) : Append(l, b)[i] = l[i]
      /\ Append(l, b)[Len(l) + 1] = b
  BY <1>1, <1>2, <1>3
<1>5. IsInjective(Append(l, b))
  <2>1. \A i \in 1..Len(l) : l[i] # b
    BY <1>1, <1>3, <1>4 DEF Listed
  <2>2. \A i, j \in 1..Len(l) : l[i] = l[j] => i = j
    BY <1>3, <1>4 DEF TurnInv, IsInjective
  <2>3. PICK m : m = Append(l, b)
    OBVIOUS
  <2>4. ASSUME NEW i \in 1..(Len(l) + 1), NEW j \in 1..(Len(l) + 1), m[i] = m[j] PROVE i = j
    <3>1. i \in 1..Len(l) \/ i = Len(l) + 1
      BY <1>4
    <3>2. j \in 1..Len(l) \/ j = Len(l) + 1
      BY <1>4
    <3> QED
      BY <1>4, <2>1, <2>2, <2>3, <2>4, <3>1, <3>2
  <2> QED
    BY <1>4, <2>3, <2>4 DEF IsInjective
<1>6. \A r \in Side : IsInjective(list'[r])
  BY <1>3, <1>4, <1>5 DEF TurnInv
<1>7. ASSUME NEW u \in Thread PROVE (Where(u) /\ InTurn(u) /\ BrokenByCancel(u))'
  <2>1. Where(u) /\ InTurn(u) /\ BrokenByCancel(u)
    BY DEF TurnInv
  <2>2. Pending(u)' = Pending(u) /\ Where(u)' /\ BrokenByCancel(u)'
    BY <1>2, <2>1 DEF Pending, Where, BrokenByCancel
  <2>3. ASSUME NEW p, StartsAt(due[u], list[th[u].side], Pending(u), p)
        PROVE  StartsAt(due[u], list'[th[u].side], Pending(u), p)
    <3>1. th[u].side \in Side /\ due[u] \in Seq(Action)
      BY ListType
    <3>2. CASE th[u].side = s
      <4>1. StartsAt(due[u], l, Pending(u), p)
        BY <1>3, <2>3, <3>2
      <4>2. /\ p \in 1..Len(l) /\ Len(due[u]) \in Nat /\ Len(due[u]) <= Len(l) - p + 1
            /\ l[p] = Pending(u)
            /\ \A i \in 1..Len(due[u]) : p + i - 1 \in 1..Len(l) /\ due[u][i] = l[p + i - 1]
        BY <1>4, <3>1, <4>1 DEF StartsAt
      <4>3. StartsAt(due[u], Append(l, b), Pending(u), p)
        BY <1>4, <4>2 DEF StartsAt
      <4> QED
        BY <1>4, <3>2, <4>3
    <3>3. CASE th[u].side # s
      BY <1>4, <2>3, <3>1, <3>3
    <3> QED
      BY <3>2, <3>3
  <2>4. InTurn(u)'
    BY <1>2, <2>1, <2>2, <2>3 DEF InTurn
  <2> QED
    BY <2>2, <2>4
<1> QED
  BY <1>6, <1>7 DEF TurnInv

LEMMA TurnStep == IInv /\ TypeOK /\ TurnInv /\ [Next]_vars => TurnInv'
<1> SUFFICES ASSUME IInv, TypeOK, TurnInv, [Next]_vars PROVE TurnInv'
  OBVIOUS
<1>1. \A t \in Thread : th[t] \in ThreadState /\ Where(t)
  BY ListType DEF TurnInv
<1>2. ASSUME NEW t \in Thread, Look(t) PROVE TurnInv'
  <2>1. PICK x : x = [th[t] EXCEPT !.pc = IF flags # {} \/ pollflag' THEN "process" ELSE "answer"]
    OBVIOUS
  <2>2. th[t] \in ThreadState /\ th' = [th EXCEPT ![t] = x] /\ UNCHANGED <<list, due, cut>>
    BY <1>1, <1>2, <2>1 DEF Look, Goto
  <2>3. /\ th'[t] = x /\ \A u \in Thread : u # t => th'[u] = th[u]
    BY <2>2 DEF TypeOK
  <2>4. /\ Where(t)' /\ x.at = th[t].at /\ x.side = th[t].side
        /\ Pending(t)' = Pending(t) /\ x.pc # "broken"
    BY <1>1, <1>2, <2>1, <2>2, <2>3 DEF Look, At, Where, Pending, ThreadState
  <2> QED
    BY <2>2, <2>3, <2>4, TurnStays
<1>3. ASSUME NEW t \in Thread, ProcessFlags(t) PROVE TurnInv'
  <2>1. PICK x : x = [th[t] EXCEPT !.pc = IF "interrupt" \in flags THEN "clearing" ELSE "polling",
                         !.read = IF "interrupt" \in flags THEN flags ELSE {}]
    OBVIOUS
  <2>2. th[t] \in ThreadState /\ th' = [th EXCEPT ![t] = x] /\ UNCHANGED <<list, due, cut>>
    BY <1>1, <1>3, <2>1 DEF ProcessFlags, Goto
  <2>3. /\ th'[t] = x /\ \A u \in Thread : u # t => th'[u] = th[u]
    BY <2>2 DEF TypeOK
  <2>4. /\ x.pc \in {"clearing", "polling"} /\ x.back = th[t].back
        /\ x.at = th[t].at /\ x.side = th[t].side /\ x.a = th[t].a /\ x.next = th[t].next
    BY <2>1, <2>2 DEF ThreadState
  <2>5. /\ Where(t)' /\ x.at = th[t].at /\ x.side = th[t].side
        /\ Pending(t)' = Pending(t) /\ x.pc # "broken"
    BY <1>1, <1>3, <2>2, <2>3, <2>4 DEF ProcessFlags, At, Where, Pending
  <2> QED
    BY <2>2, <2>3, <2>4, <2>5, TurnStays
<1>4. ASSUME NEW t \in Thread, ClearInterrupt(t) PROVE TurnInv'
  <2>1. PICK x : x = [th[t] EXCEPT !.pc = "polling", !.read = {}]
    OBVIOUS
  <2>2. th[t] \in ThreadState /\ th' = [th EXCEPT ![t] = x] /\ UNCHANGED <<list, due, cut>>
    BY <1>1, <1>4, <2>1 DEF ClearInterrupt, Goto
  <2>3. /\ th'[t] = x /\ \A u \in Thread : u # t => th'[u] = th[u]
    BY <2>2 DEF TypeOK
  <2>4. /\ x.pc = "polling" /\ x.back = th[t].back
        /\ x.at = th[t].at /\ x.side = th[t].side /\ x.a = th[t].a /\ x.next = th[t].next
    BY <2>1, <2>2 DEF ThreadState
  <2>5. /\ Where(t)' /\ x.at = th[t].at /\ x.side = th[t].side
        /\ Pending(t)' = Pending(t) /\ x.pc # "broken"
    BY <1>1, <1>4, <2>2, <2>3, <2>4 DEF ClearInterrupt, At, Where, Pending
  <2> QED
    BY <2>2, <2>3, <2>4, <2>5, TurnStays
<1>5. ASSUME NEW t \in Thread, NoPoll(t) PROVE TurnInv'
  <2>1. PICK x : x = [th[t] EXCEPT !.pc = "answer"]
    OBVIOUS
  <2>2. th[t] \in ThreadState /\ th' = [th EXCEPT ![t] = x] /\ UNCHANGED <<list, due, cut>>
    BY <1>1, <1>5, <2>1 DEF NoPoll, Goto
  <2>3. /\ th'[t] = x /\ \A u \in Thread : u # t => th'[u] = th[u]
    BY <2>2 DEF TypeOK
  <2>4. /\ Where(t)' /\ x.at = th[t].at /\ x.side = th[t].side
        /\ Pending(t)' = Pending(t) /\ x.pc # "broken"
    BY <1>1, <1>5, <2>1, <2>2, <2>3 DEF NoPoll, At, Where, Pending, ThreadState
  <2> QED
    BY <2>2, <2>3, <2>4, TurnStays
<1>6. ASSUME NEW t \in Thread, RearmTimer(t) PROVE TurnInv'
  <2>1. PICK x : x = [th[t] EXCEPT !.pc = "answer"]
    OBVIOUS
  <2>2. th[t] \in ThreadState /\ th' = [th EXCEPT ![t] = x] /\ UNCHANGED <<list, due, cut>>
    BY <1>1, <1>6, <2>1 DEF RearmTimer, Goto
  <2>3. /\ th'[t] = x /\ \A u \in Thread : u # t => th'[u] = th[u]
    BY <2>2 DEF TypeOK
  <2>4. /\ Where(t)' /\ x.at = th[t].at /\ x.side = th[t].side
        /\ Pending(t)' = Pending(t) /\ x.pc # "broken"
    BY <1>1, <1>6, <2>1, <2>2, <2>3 DEF RearmTimer, At, Where, Pending, ThreadState
  <2> QED
    BY <2>2, <2>3, <2>4, TurnStays
<1>7. ASSUME NEW t \in Thread, AfterAction(t) PROVE TurnInv'
  <2>1. PICK x : x = [Idle EXCEPT !.side = th[t].side, !.at = "action", !.a = th[t].next]
    OBVIOUS
  <2>2. th[t] \in ThreadState /\ th' = [th EXCEPT ![t] = x] /\ UNCHANGED <<list, due, cut>>
    BY <1>1, <1>7, <2>1 DEF AfterAction, Goto
  <2>3. /\ th'[t] = x /\ \A u \in Thread : u # t => th'[u] = th[u]
    BY <2>2 DEF TypeOK
  <2>4. /\ Where(t)' /\ x.at = th[t].at /\ x.side = th[t].side
        /\ Pending(t)' = Pending(t) /\ x.pc # "broken"
    BY <1>1, <1>7, <2>1, <2>2, <2>3 DEF AfterAction, At, Where, Pending, ThreadState, Idle
  <2> QED
    BY <2>2, <2>3, <2>4, TurnStays
<1>8. ASSUME NEW t \in Thread, NEW c \in DOMAIN Halts, AskHalt(t, c) PROVE TurnInv'
  <2>1. PICK x : x = [th[t] EXCEPT !.pc = "ask", !.back = th[t].pc, !.bits = Halts[c]]
    OBVIOUS
  <2>2. th[t] \in ThreadState /\ th' = [th EXCEPT ![t] = x] /\ UNCHANGED <<list, due, cut>>
    BY <1>1, <1>8, <2>1 DEF AskHalt, Goto
  <2>3. /\ th'[t] = x /\ \A u \in Thread : u # t => th'[u] = th[u]
    BY <2>2 DEF TypeOK
  <2>4. /\ x.pc = "ask" /\ x.back = th[t].pc
        /\ x.at = th[t].at /\ x.side = th[t].side /\ x.a = th[t].a /\ x.next = th[t].next
    BY <2>1, <2>2 DEF ThreadState
  <2>5. /\ Where(t)' /\ x.at = th[t].at /\ x.side = th[t].side
        /\ Pending(t)' = Pending(t) /\ x.pc # "broken"
    BY <1>1, <1>8, <2>2, <2>3, <2>4 DEF AskHalt, At, Where, Pending, Commanding, May
  <2> QED
    BY <2>2, <2>3, <2>4, <2>5, TurnStays
<1>9. ASSUME NEW t \in Thread, ReadToAsk(t) PROVE TurnInv'
  <2>1. PICK x : x = [th[t] EXCEPT !.pc = "asking", !.read = flags]
    OBVIOUS
  <2>2. th[t] \in ThreadState /\ th' = [th EXCEPT ![t] = x] /\ UNCHANGED <<list, due, cut>>
    BY <1>1, <1>9, <2>1 DEF ReadToAsk, Goto
  <2>3. /\ th'[t] = x /\ \A u \in Thread : u # t => th'[u] = th[u]
    BY <2>2 DEF TypeOK
  <2>4. /\ x.pc = "asking" /\ x.back = th[t].back
        /\ x.at = th[t].at /\ x.side = th[t].side /\ x.a = th[t].a /\ x.next = th[t].next
    BY <2>1, <2>2 DEF ThreadState
  <2>5. /\ Where(t)' /\ x.at = th[t].at /\ x.side = th[t].side
        /\ Pending(t)' = Pending(t) /\ x.pc # "broken"
    BY <1>1, <1>9, <2>2, <2>3, <2>4 DEF ReadToAsk, At, Where, Pending
  <2> QED
    BY <2>2, <2>3, <2>4, <2>5, TurnStays
<1>10. ASSUME NEW t \in Thread, SetHalt(t) PROVE TurnInv'
  <2>1. PICK x : x = [th[t] EXCEPT !.pc = th[t].back, !.read = {}, !.bits = {}, !.back = "loop"]
    OBVIOUS
  <2>2. th[t] \in ThreadState /\ th' = [th EXCEPT ![t] = x] /\ UNCHANGED <<list, due, cut>>
    BY <1>1, <1>10, <2>1 DEF SetHalt, Goto
  <2>3. /\ th'[t] = x /\ \A u \in Thread : u # t => th'[u] = th[u]
    BY <2>2 DEF TypeOK
  <2>4. /\ x.pc = th[t].back /\ x.back = "loop"
        /\ x.at = th[t].at /\ x.side = th[t].side /\ x.a = th[t].a /\ x.next = th[t].next
    BY <2>1, <2>2 DEF ThreadState
  <2>5. /\ Where(t)' /\ x.at = th[t].at /\ x.side = th[t].side
        /\ Pending(t)' = Pending(t) /\ x.pc # "broken"
    BY <1>1, <1>10, <2>2, <2>3, <2>4 DEF SetHalt, At, Where, Pending, IInv, GateIsHeld
  <2> QED
    BY <2>2, <2>3, <2>4, <2>5, TurnStays
<1>11. ASSUME NEW t \in Thread, NextStar(t) PROVE TurnInv'
  <2>1. CASE Goto(t, "over") /\ UNCHANGED <<due, cut>>
    <3>1. th'[t] = [th[t] EXCEPT !.pc = "over"] /\ \A u \in Thread : u # t => th'[u] = th[u]
      BY <2>1 DEF Goto, TypeOK
    <3>2. Where(t)' /\ th'[t].at # "action" /\ th'[t].pc # "broken"
      BY <1>1, <1>11, <3>1 DEF NextStar, At, Where, ThreadState
    <3> QED
      BY <1>11, <2>1, <3>1, <3>2, TurnIsOver DEF NextStar
  <2>2. CASE DoActions(t, "pre")
    BY <1>11, <2>2, TurnBegins DEF NextStar, Side
  <2> QED
    BY <1>11, <2>1, <2>2 DEF NextStar
<1>12. ASSUME NEW t \in Thread, EndGo(t) PROVE TurnInv'
  BY <1>12, TurnBegins DEF EndGo, Side
<1>13. ASSUME NEW t \in Thread, LeaveActions(t) PROVE TurnInv'
  <2>1. /\ th'[t] = [Idle EXCEPT !.side = th[t].side, !.at = "leave"] /\ UNCHANGED list
        /\ \A u \in Thread : u # t => th'[u] = th[u] /\ due'[u] = due[u] /\ cut'[u] = cut[u]
    BY <1>13 DEF LeaveActions, TypeOK
  <2>2. Where(t)' /\ th'[t].at # "action" /\ th'[t].pc # "broken"
    BY <2>1 DEF Idle, Where
  <2> QED
    BY <2>1, <2>2, TurnIsOver
<1>14. ASSUME NEW t \in Thread, AfterActions(t) PROVE TurnInv'
  <2>1. /\ th'[t] \in {Idle, [Idle EXCEPT !.pc = "firing"]} /\ UNCHANGED list
        /\ \A u \in Thread : u # t => th'[u] = th[u] /\ due'[u] = due[u] /\ cut'[u] = cut[u]
    BY <1>14 DEF AfterActions, TypeOK
  <2>2. Where(t)' /\ th'[t].at # "action" /\ th'[t].pc # "broken"
    BY <2>1 DEF Idle, Where
  <2> QED
    BY <2>1, <2>2, TurnIsOver
<1>15. ASSUME UNCHANGED <<th, list, due, cut>> PROVE TurnInv'
  BY <1>15 DEF TurnInv, Where, InTurn, BrokenByCancel, Pending
<1>16. CASE RunAgain
  <2>1. /\ UNCHANGED <<list, cut>>
        /\ \A t \in Thread : /\ th[t].pc = "over" /\ due'[t] = <<>>
                              /\ th'[t] = IF t \in mode.threads THEN Idle ELSE th[t]
    BY <1>16 DEF RunAgain, Over
  <2>2. ASSUME NEW t \in Thread PROVE (Where(t) /\ InTurn(t) /\ BrokenByCancel(t))'
    <3>1. CASE t \in mode.threads
      BY <2>1, <3>1 DEF Idle, Where, InTurn, BrokenByCancel
    <3>2. CASE t \notin mode.threads
      <4>1. th'[t] = th[t] /\ Where(t) /\ InTurn(t) /\ th[t].pc = "over" /\ Pending(t)' = Pending(t)
        BY <2>1, <3>2 DEF TurnInv, Pending
      <4>2. ASSUME NEW p, StartsAt(due[t], list[th[t].side], Pending(t), p)
            PROVE  StartsAt(<<>>, list[th[t].side], Pending(t), p)
        <5>1. list[th[t].side] \in Seq(Action)
          BY ListType
        <5> QED
          BY <4>2, <5>1 DEF StartsAt
      <4> QED
        BY <2>1, <4>1, <4>2 DEF Where, InTurn, BrokenByCancel
    <3> QED
      BY <3>1, <3>2
  <2> QED
    BY <2>1, <2>2 DEF TurnInv
<1>17. ASSUME NEW t \in Thread, HaltRequested(t) \/ Run(t) PROVE TurnInv'
  BY <1>2, <1>3, <1>4, <1>5, <1>6, <1>7, <1>9, <1>10, <1>11, <1>12, <1>13, <1>14, <1>17,
     TurnGoesOn DEF HaltRequested, Run
<1>18. ASSUME NEW t \in Thread, Command(t) PROVE TurnInv'
  <2>1. CASE SetPollAction(t)
    BY <1>15, <2>1 DEF SetPollAction
  <2> QED
    BY <1>8, <1>18, <2>1, TurnAfterCancel, TurnAfterRegister DEF Command
<1>19. ASSUME NEW t \in Thread, CatchInterrupt(t) PROVE TurnInv'
  BY <1>15, <1>19 DEF CatchInterrupt
<1>20. HandlerReturns \/ TimerExpires \/ UNCHANGED vars => TurnInv'
  BY <1>15 DEF HandlerReturns, TimerExpires, vars
<1> QED
  BY <1>16, <1>17, <1>18, <1>19, <1>20 DEF Next

\* A thread applies the actions of its list in turn, whatever is registered and
\* cancelled meanwhile and by whom, and only when the action that it was to go to
\* has been cancelled does it go to one that is deleted.
THEOREM ActionsAreApplied == Spec => []ActionsRunInTurn
<1>1. IInv /\ TypeOK /\ TurnInv => ActionsRunInTurn
  <2> SUFFICES ASSUME TypeOK, TurnInv, NEW t \in Thread, th[t].at = "action", ~cut[t]
      PROVE  IF Pending(t) = None THEN due[t] = <<>>
             ELSE due[t] = <<>> \/ Head(due[t]) = Pending(t)
    BY DEF ActionsRunInTurn, TurnInv, BrokenByCancel
  <2>1. due[t] \in Seq(Action) /\ list[th[t].side] \in Seq(Action) /\ InTurn(t)
    BY ListType DEF TurnInv
  <2>2. CASE Pending(t) = None
    BY <2>1, <2>2 DEF InTurn
  <2>3. ASSUME Pending(t) # None, due[t] # <<>> PROVE Head(due[t]) = Pending(t)
    <3>1. PICK p : StartsAt(due[t], list[th[t].side], Pending(t), p)
      BY <2>1, <2>3 DEF InTurn
    <3>2. Head(due[t]) = due[t][1] /\ 1 \in 1..Len(due[t])
      BY <2>1, <2>3, Heads
    <3> QED
      BY <3>1, <3>2 DEF StartsAt
  <2> QED
    BY <2>2, <2>3
<1>2. Init => TypeOK /\ TurnInv
  BY TypeInit, TurnInit
<1>3. IInv /\ TypeOK /\ TurnInv /\ [Next]_vars => (TypeOK /\ TurnInv)'
  BY TypeStep, TurnStep
<1> QED
  BY <1>1, <1>2, <1>3, Invariance, PTL DEF Spec
=============================================================================
