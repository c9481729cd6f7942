------------------------- MODULE DESchedulersAgree -------------------------
(***************************************************************************)
(* Two executions of one discrete-event galaxy: a reference, by            *)
(* DEScheduler in a single run, and then another by either scheduler, with *)
(* any addresses of the stars, any stop times on the way and halts.        *)
(***************************************************************************)
EXTENDS DEScheduler

VARIABLES refScheduler, refUse, refQueue, refInput, refStar, refTime, refStop, refHalts, refPc,
          refSent, refFired
refVars == <<refScheduler, refUse, refQueue, refInput, refStar, refTime, refStop, refHalts,
             refPc, refSent, refFired>>

Reference == INSTANCE DEScheduler WITH
    scheduler <- refScheduler, use <- refUse, queue <- refQueue, input <- refInput,
    star <- refStar, currentTime <- refTime, stopTime <- refStop, halts <- refHalts,
    pc <- refPc, sent <- refSent, fired <- refFired

\* The last stop time.
Horizon == Max(use.stops)
OneRun(u) == [stops |-> {Max(u.stops)}, halts |-> {}, maxHalts |-> 0, inverseTimeScale |-> 1]

\* A run has come to the horizon, or does not get there.
Finished(q, stop, at) ==
    \/ at \in {"dead", "error"}
    \/ at = "ready" /\ stop = Horizon /\ (q = <<>> \/ Head(q).level > Horizon)

ReferenceIsFinished == Finished(refQueue, refStop, refPc)

BothInit ==
    \E c \in Cases : /\ Setup(c.galaxy, c.scheduler, c.address, c.use)
                   /\ Reference!Setup(c.galaxy, "DE", c.address, OneRun(c.use))

RunReference == ~ReferenceIsFinished /\ Reference!Next /\ UNCHANGED vars
RunOther     == ReferenceIsFinished /\ Next /\ UNCHANGED refVars

BothSpec == BothInit /\ [][RunReference \/ RunOther]_<<vars, refVars>>

\* What the stars send, and when, is a matter of the galaxy alone: not of the
\* scheduler, of the addresses that break ties in the calendar queue, or of the
\* stops and halts of the run, as long as no halt keeps a star from its go().
SignalsAreDetermined ==
    Undisturbed /\ ReferenceIsFinished /\ Finished(queue, stopTime, pc)
    => sent = refSent /\ star = refStar
=============================================================================
