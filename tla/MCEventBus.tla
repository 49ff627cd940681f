----------------------------- MODULE MCEventBus -----------------------------
(* Small instances of EventBus. *)
EXTENDS EventBus, TLC

CONSTANTS a1, a2, a3, s1, s2, h1, t1, t2, d1

MCOneSubscriber  == <<s1>>
MCTwoSubscribers == <<s1, s2>>
MCHandlers       == <<h1>>

Symmetry == Permutations(Alarms) \cup Permutations(Tasks)
=============================================================================
