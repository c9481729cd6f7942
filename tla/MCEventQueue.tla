---------------------------- MODULE MCEventQueue ----------------------------
(* Small queues for EventQueue. *)
EXTENDS EventQueue, TLC

CONSTANTS p1, p2, p3

\* An event queue holds wormholes too.
DepthLevels == [particle |-> {p1, p2}, fine |-> {-2, -1}]
NoDepths    == [particle |-> {p1, p2, p3}, fine |-> {1, 2}]
AnyParticle == Permutations({p1, p2})
=============================================================================
