----------------------------- MODULE SimControl -----------------------------
(***************************************************************************)
(* kernel/SimControl.cc: the flags by which a run is told to halt, the     *)
(* pre- and post-actions around the firing of a star, and the poll         *)
(* function by which a run handles the events of the user interface.  One  *)
(* or more threads fire stars until they see a halt; signals strike        *)
(* between any two instructions; with threads the flags have a gate        *)
(* (GateKeeper::enableAll), which is a mutex that is not recursive.        *)
(* setInterrupt has no caller, so that onInt is never set.                 *)
(***************************************************************************)
EXTENDS SequencesExt, FiniteSets, Naturals

CONSTANTS
    Thread,     \* the threads that fire stars
    Action,     \* the SimActions there can be
    Modes,      \* the ways the program is run
    None

Side == {"pre", "post"}

\* Threads fire stars together only with the gates enabled, and every action
\* that is registered is a new object.
ASSUME ModesAssumption ==
    /\ None \notin Thread \cup Action
    /\ \A m \in Modes :
          /\ m.threads \subseteq Thread /\ IsFiniteSet(m.threads)
          /\ Cardinality(m.threads) > 1 => m.gated
          /\ m.polls \in BOOLEAN /\ m.commands \in Nat /\ m.signals \in Nat
          /\ m.list \in [Side -> Seq(Action)]
          /\ \A s \in Side : IsInjective(m.list[s])

Bit  == {"halt", "error", "interrupt", "abort"}

VARIABLES
    mode,       \* how the program is run, a member of Modes, with the fields
                \*   threads: those that fire stars
                \*   gated: the gates are enabled
                \*   polls: a poll function is installed
                \*   list: the actions registered before the run
                \*   stars, scripts, events: the commands that stars, actions
                \*     and events of the user interface may give
                \*   commands, signals: bounds on their number in a run
    flags,      \* SimControl::flags, the set of its bits
    pollflag,   \* SimControl::pollflag
    alarm,      \* the timer and SIGALRM: "off", "armed" or "pending"
    onPoll,     \* there is a poll function
    gate,       \* the thread that holds SimControl::gate, or None
    list,       \* list[side]: preList and postList
    th,         \* th[t]: where thread t is
    handler,    \* the thread that intCatcher interrupts, or None, and what it read
    left,       \* bounds: the commands and signals that may still come
    due,        \* history: due[t], the actions that t still owes its traversal
    cut         \* history: cut[t], an action was cancelled when t was to go to it

vars == <<mode, flags, pollflag, alarm, onPoll, gate, list, th, handler, left, due, cut>>

Halts == [halt |-> {"halt"}, error |-> {"error", "halt"}, abort |-> {"error", "halt", "abort"}]

Listed == {b \in Action : \E s \in Side : b \in {list[s][i] : i \in DOMAIN list[s]}}

\* ListIter::next, from a link that is still in the list.
Successor(l, a) ==
    LET i == CHOOSE i \in DOMAIN l : l[i] = a
    IN  IF i = Len(l) THEN None ELSE l[i + 1]

\* The action that the iterator stands on and t will go to next.
Pending(t) ==
    IF "acting" \in {th[t].pc, th[t].back} THEN th[t].next ELSE th[t].a

Idle == [pc |-> "look", at |-> "loop", side |-> "pre", a |-> None, next |-> None,
         read |-> {}, bits |-> {}, back |-> "loop"]

TypeOK ==
    /\ mode \in Modes
    /\ flags \subseteq Bit
    /\ pollflag \in BOOLEAN /\ onPoll \in BOOLEAN
    /\ alarm \in {"off", "armed", "pending"}
    /\ gate \in Thread \cup {None}
    /\ list \in [Side -> Seq(Action)]
    /\ th \in [Thread -> [pc : {"look", "process", "clearing", "polling", "answer", "firing",
                                "acting", "ask", "asking", "over", "broken"},
                          at : {"loop", "action", "leave"}, side : Side,
                          a : Action \cup {None}, next : Action \cup {None},
                          read : SUBSET Bit, bits : SUBSET Bit,
                          back : {"loop", "firing", "acting", "polling"}]]
    /\ handler \in [on : Thread \cup {None}, read : SUBSET Bit]
    /\ left \in [commands : Nat, signals : Nat]
    /\ due \in [Thread -> Seq(Action)]
    /\ cut \in [Thread -> BOOLEAN]

Init ==
    /\ mode \in Modes
    /\ flags = {}
    /\ onPoll = mode.polls
    /\ pollflag = mode.polls
    /\ alarm = "off"
    /\ gate = None
    /\ list = mode.list
    /\ th = [t \in Thread |-> IF t \in mode.threads THEN Idle ELSE [Idle EXCEPT !.pc = "over"]]
    /\ handler = [on |-> None, read |-> {}]
    /\ left = [commands |-> mode.commands, signals |-> mode.signals]
    /\ due = [t \in Thread |-> <<>>]
    /\ cut = [t \in Thread |-> FALSE]

-----------------------------------------------------------------------------
(* Gates *)

\* CriticalSection: without gates nothing is taken, and a thread that holds the
\* gate and asks for it again waits for itself.
GateFree    == gate = None
Enter(t)    == GateFree /\ gate' = IF mode.gated THEN t ELSE None
Leave       == gate' = None

At(t, pc)   == th[t].pc = pc /\ handler.on # t
Goto(t, pc) == th' = [th EXCEPT ![t].pc = pc]

-----------------------------------------------------------------------------
(* haltRequested *)

\* if (flagValues() | getPollFlag()): readFlags and getPollFlag take the gate one
\* after the other, and getPollFlag lets a blocked SIGALRM through.
\* A halt that comes in between is seen by haltStatus.
Look(t) ==
    /\ At(t, "look")
    /\ GateFree
    /\ pollflag' = (pollflag \/ alarm = "pending")
    /\ alarm' = IF alarm = "pending" THEN "off" ELSE alarm
    /\ Goto(t, IF flags # {} \/ pollflag' THEN "process" ELSE "answer")
    /\ UNCHANGED <<mode, flags, onPoll, gate, list, handler, left, due, cut>>

\* processFlags: CriticalSection region(gate); if ((flags & interrupt) != 0)
ProcessFlags(t) ==
    /\ At(t, "process")
    /\ Enter(t)
    /\ th' = [th EXCEPT ![t].pc = IF "interrupt" \in flags THEN "clearing" ELSE "polling",
                        ![t].read = IF "interrupt" \in flags THEN flags ELSE {}]
    /\ UNCHANGED <<mode, flags, pollflag, alarm, onPoll, list, handler, left, due, cut>>

\* flags &= ~interrupt, of which the word was read one step before.
\* An operator whose name holds _Bug is not part of the specification: it is a
\* wrong version of the definition after it, used to show that a property
\* would notice.
ClearInterrupt_Bug(t) ==
    /\ At(t, "clearing")
    /\ flags' = {}
    /\ th' = [th EXCEPT ![t].pc = "polling", ![t].read = {}]
    /\ UNCHANGED <<mode, pollflag, alarm, onPoll, gate, list, handler, left, due, cut>>
ClearInterrupt(t) ==
    /\ At(t, "clearing")
    /\ flags' = th[t].read \ {"interrupt"}
    /\ th' = [th EXCEPT ![t].pc = "polling", ![t].read = {}]
    /\ UNCHANGED <<mode, pollflag, alarm, onPoll, gate, list, handler, left, due, cut>>

\* The end of processFlags without a poll function: pollflag = 0.
NoPoll(t) ==
    /\ At(t, "polling")
    /\ ~(pollflag /\ onPoll)
    /\ pollflag' = FALSE
    /\ Leave
    /\ Goto(t, "answer")
    /\ UNCHANGED <<mode, flags, alarm, onPoll, list, handler, left, due, cut>>

\* runEventsOnTimer has handled all events: setPollTimer clears the flag, starts
\* the timer again (a SIGALRM that is blocked stays so), and TRUE is returned.
RearmTimer_Bug(t) ==
    /\ At(t, "polling")
    /\ pollflag /\ onPoll
    /\ pollflag' = FALSE
    /\ Leave
    /\ Goto(t, "answer")
    /\ UNCHANGED <<mode, flags, alarm, onPoll, list, handler, left, due, cut>>
RearmTimer(t) ==
    /\ At(t, "polling")
    /\ pollflag /\ onPoll
    /\ pollflag' = FALSE
    /\ alarm' = IF alarm = "pending" THEN alarm ELSE "armed"
    /\ Leave
    /\ Goto(t, "answer")
    /\ UNCHANGED <<mode, flags, onPoll, list, handler, left, due, cut>>

-----------------------------------------------------------------------------
(* The traversal of the actions *)

\* haltStatus
Halted_Bug == flags = {"halt"}
Halted     == "halt" \in flags

\* doPreActions and doPostActions test the number of actions; internalDoActions
\* starts at the head of the list.
DoActions(t, s) ==
    LET l == list[s] IN
    /\ th' = [th EXCEPT ![t] = [Idle EXCEPT !.side = s,
                                            !.at = IF l = <<>> THEN "leave" ELSE "action",
                                            !.a  = IF l = <<>> THEN None ELSE Head(l)]]
    /\ due' = [due EXCEPT ![t] = l]
    /\ cut' = [cut EXCEPT ![t] = FALSE]

\* haltStatus at the loop of the scheduler, then doPreActions of the next star.
NextStar(t) ==
    /\ At(t, "answer") /\ th[t].at = "loop"
    /\ GateFree
    /\ IF Halted
       THEN Goto(t, "over") /\ UNCHANGED <<due, cut>>
       ELSE DoActions(t, "pre")
    /\ UNCHANGED <<mode, flags, pollflag, alarm, onPoll, gate, list, handler, left>>

\* while (!haltRequested() && a != 0), which is followed by another haltRequested.
LeaveActions(t) ==
    /\ At(t, "answer") /\ th[t].at = "action"
    /\ GateFree
    /\ Halted \/ th[t].a = None
    /\ th' = [th EXCEPT ![t] = [Idle EXCEPT !.side = th[t].side, !.at = "leave"]]
    /\ due' = [due EXCEPT ![t] = <<>>]
    /\ cut' = [cut EXCEPT ![t] = FALSE]
    /\ UNCHANGED <<mode, flags, pollflag, alarm, onPoll, gate, list, handler, left>>

\* temp = nextAction++; a->apply(which): every action in use is for all stars.
\* The link of a deleted action is gone, and anything may follow.
ApplyAction(t) ==
    LET l == list[th[t].side]
        a == th[t].a
    IN
    /\ At(t, "answer") /\ th[t].at = "action"
    /\ GateFree
    /\ ~Halted /\ a # None
    /\ IF a \in {l[i] : i \in DOMAIN l}
       THEN th' = [th EXCEPT ![t].pc = "acting", ![t].next = Successor(l, a)]
       ELSE Goto(t, "broken")
    /\ due' = [due EXCEPT ![t] = IF @ # <<>> /\ Head(@) = a THEN Tail(@) ELSE @]
    /\ UNCHANGED <<mode, flags, pollflag, alarm, onPoll, gate, list, handler, left, cut>>

\* a = temp
AfterAction_Bug(t) ==
    LET l == list[th[t].side] IN
    /\ At(t, "acting")
    /\ th' = [th EXCEPT ![t] = [Idle EXCEPT !.side = th[t].side, !.at = "action",
                  !.a = IF th[t].a \in {l[i] : i \in DOMAIN l} THEN Successor(l, th[t].a) ELSE None]]
    /\ UNCHANGED <<mode, flags, pollflag, alarm, onPoll, gate, list, handler, left, due, cut>>
AfterAction(t) ==
    /\ At(t, "acting")
    /\ th' = [th EXCEPT ![t] = [Idle EXCEPT !.side = th[t].side, !.at = "action",
                                            !.a = th[t].next]]
    /\ UNCHANGED <<mode, flags, pollflag, alarm, onPoll, gate, list, handler, left, due, cut>>

\* Star::run: if (!doPreActions(this)) return FALSE; go(); return doPostActions(this).
\* A scheduler whose star returned FALSE tests haltRequested again.
AfterActions(t) ==
    /\ At(t, "answer") /\ th[t].at = "leave"
    /\ GateFree
    /\ th' = [th EXCEPT ![t] = IF ~Halted /\ th[t].side = "pre"
                               THEN [Idle EXCEPT !.pc = "firing"] ELSE Idle]
    /\ UNCHANGED <<mode, flags, pollflag, alarm, onPoll, gate, list, handler, left, due, cut>>

EndGo(t) ==
    /\ At(t, "firing")
    /\ DoActions(t, "post")
    /\ UNCHANGED <<mode, flags, pollflag, alarm, onPoll, gate, list, handler, left>>

-----------------------------------------------------------------------------
(* Commands: of a star, of an action, of an event handled by the poll function *)

\* The commands that the code which t now runs may give.
May(t) == CASE th[t].pc = "firing"  -> mode.stars
            [] th[t].pc = "acting"  -> mode.scripts
            [] th[t].pc = "polling" -> mode.events
            [] OTHER -> {}

Commanding(t, c) ==
    /\ handler.on # t
    /\ c \in May(t)
    /\ th[t].pc = "polling" => pollflag /\ onPoll
    /\ left.commands > 0
    /\ left' = [left EXCEPT !.commands = @ - 1]

\* requestHalt, declareErrorHalt, declareAbortHalt: flags |= bits in the gate.
AskHalt(t, c) ==
    /\ c \in DOMAIN Halts
    /\ Commanding(t, c)
    /\ th' = [th EXCEPT ![t].pc = "ask", ![t].back = th[t].pc, ![t].bits = Halts[c]]
    /\ UNCHANGED <<mode, flags, pollflag, alarm, onPoll, gate, list, handler, due, cut>>

ReadToAsk(t) ==
    /\ At(t, "ask")
    /\ Enter(t)
    /\ th' = [th EXCEPT ![t].pc = "asking", ![t].read = flags]
    /\ UNCHANGED <<mode, flags, pollflag, alarm, onPoll, list, handler, left, due, cut>>

SetHalt(t) ==
    /\ At(t, "asking")
    /\ flags' = th[t].read \cup th[t].bits
    /\ Leave
    /\ th' = [th EXCEPT ![t].pc = th[t].back, ![t].read = {}, ![t].bits = {}, ![t].back = "loop"]
    /\ UNCHANGED <<mode, pollflag, alarm, onPoll, list, handler, left, due, cut>>

\* registerAction appends; an address is used again when no thread still has it.
Register(t, s) ==
    LET unused == Action \ (Listed \cup UNION {{th[u].a, th[u].next} : u \in Thread}) IN
    /\ Commanding(t, "register")
    /\ unused # {}
    /\ list' = [list EXCEPT ![s] = Append(@, CHOOSE b \in unused : TRUE)]
    /\ UNCHANGED <<mode, flags, pollflag, alarm, onPoll, gate, th, handler, due, cut>>

\* cancel removes the action from its list and deletes it.
Cancel(t, b) ==
    /\ Commanding(t, "cancel")
    /\ b \in Listed
    /\ list' = [s \in Side |-> RemoveFirst(list[s], b)]
    /\ due' = [u \in Thread |-> RemoveFirst(due[u], b)]
    /\ cut' = [u \in Thread |-> cut[u] \/ Pending(u) = b]
    /\ UNCHANGED <<mode, flags, pollflag, alarm, onPoll, gate, th, handler>>

\* setPollAction, by the run control panel: onPoll = f; pollflag = 1.
SetPollAction(t) ==
    /\ Commanding(t, "loop")
    /\ th[t].pc = "acting" /\ GateFree
    /\ onPoll' = ~onPoll
    /\ pollflag' = TRUE
    /\ UNCHANGED <<mode, flags, alarm, gate, list, th, handler, due, cut>>

-----------------------------------------------------------------------------
(* Signals, the timer and the next run *)

\* intCatcher: flags |= interrupt, on the stack of any thread and without the gate.
CatchInterrupt(t) ==
    /\ t \in mode.threads
    /\ handler.on = None
    /\ left.signals > 0
    /\ left' = [left EXCEPT !.signals = @ - 1]
    /\ handler' = [on |-> t, read |-> flags]
    /\ UNCHANGED <<mode, flags, pollflag, alarm, onPoll, gate, list, th, due, cut>>

HandlerReturns ==
    /\ handler.on # None
    /\ flags' = handler.read \cup {"interrupt"}
    /\ handler' = [on |-> None, read |-> {}]
    /\ UNCHANGED <<mode, pollflag, alarm, onPoll, gate, list, th, left, due, cut>>

\* SIGALRM is blocked but in getPollFlag.
TimerExpires ==
    /\ alarm = "armed"
    /\ alarm' = "pending"
    /\ UNCHANGED <<mode, flags, pollflag, onPoll, gate, list, th, handler, left, due, cut>>

Over == \A t \in Thread : th[t].pc = "over"

\* clearHalt, then the stars are run again.
RunAgain ==
    /\ Over /\ handler.on = None
    /\ flags' = {}
    /\ th' = [t \in Thread |-> IF t \in mode.threads THEN Idle ELSE th[t]]
    /\ left' = [commands |-> mode.commands, signals |-> mode.signals]
    /\ due' = [t \in Thread |-> <<>>]
    /\ UNCHANGED <<mode, pollflag, alarm, onPoll, gate, list, handler, cut>>

HaltRequested(t) ==
    Look(t) \/ ProcessFlags(t) \/ ClearInterrupt(t) \/ NoPoll(t) \/ RearmTimer(t)

Run(t) ==
    \/ NextStar(t) \/ LeaveActions(t) \/ ApplyAction(t) \/ AfterAction(t)
    \/ AfterActions(t) \/ EndGo(t)
    \/ ReadToAsk(t) \/ SetHalt(t)

Command(t) ==
    \/ \E c \in DOMAIN Halts : AskHalt(t, c)
    \/ \E b \in Action : Cancel(t, b)
    \/ \E s \in Side : Register(t, s)
    \/ SetPollAction(t)

Next ==
    \/ \E t \in Thread : HaltRequested(t) \/ Run(t) \/ Command(t) \/ CatchInterrupt(t)
    \/ HandlerReturns
    \/ TimerExpires
    \/ RunAgain

Spec == Init /\ [][Next]_vars

\* The threads run, a handler returns, and the timer expires.  A gate may go to
\* any of those that wait for it.
Fairness ==
    /\ \A t \in Thread : WF_vars(HaltRequested(t) \/ Run(t))
    /\ WF_vars(HandlerReturns)
    /\ WF_vars(TimerExpires)

FairSpec == Spec /\ Fairness

-----------------------------------------------------------------------------
(* Properties *)

\* internalDoActions applies the actions in the order in which they were
\* registered, none twice and none left out, although they may cancel themselves
\* and others and register new ones, and it goes to a deleted action only when
\* the one it was to go to has been cancelled.
ActionsRunInTurn ==
    /\ TypeOK
    /\ \A t \in Thread :
         /\ (th[t].at = "action" /\ ~cut[t]) =>
                IF Pending(t) = None THEN due[t] = <<>>
                ELSE due[t] = <<>> \/ Head(due[t]) = Pending(t)
         /\ th[t].pc = "broken" => cut[t]

\* A second thread wrote the word that the handler of a signal had read.
HandlerIsLate == Cardinality(mode.threads) > 1 /\ handler.on # None

\* A halt that was requested stays until clearHalt, whatever flags are processed
\* and whichever signals come, unless a signal is handled in one thread while
\* another sets the bit.
HaltIsKept ==
    [][("halt" \in flags /\ "halt" \notin flags') => RunAgain \/ HandlerIsLate]_vars

\* A thread waits for the gate that it holds: its poll function asked for a halt.
WaitsForItself(t) == th[t].pc = "ask" /\ gate = t

\* After a request for a halt, by whomever, every thread leaves its loop, unless
\* a poll function asks for one with the gates enabled, a traversal is broken or
\* the handler of a signal is late.
EveryoneHalts ==
    (\E t \in Thread : th[t].pc = "asking") ~>
        (Over \/ HandlerIsLate \/ \E t \in Thread : WaitsForItself(t) \/ th[t].pc = "broken")

\* While the poll function is there, it is called again and again, until the
\* run is over or one of the two mishaps.
PollGoesOn ==
    onPoll ~> (\/ \E t \in Thread : th[t].pc = "polling" /\ pollflag
               \/ Over \/ ~onPoll
               \/ \E t \in Thread : WaitsForItself(t) \/ th[t].pc = "broken")

\* An action that was cancelled is not used any more.
CancelledActionsAreNotUsed == \A t \in Thread : th[t].pc # "broken"
=============================================================================
