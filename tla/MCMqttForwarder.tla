-------------------------- MODULE MCMqttForwarder --------------------------
(* A small instance of MqttForwarder.  Its messages are interchangeable, so *)
(* it is enough to let them come in one order: what symmetry would do,      *)
(* which TLC does not combine with liveness.                                *)
EXTENDS MqttForwarder

CONSTANTS m1, m2, m3

ComeInOrder ==
    /\ m2 \in accepted' => m1 \in accepted'
    /\ m3 \in accepted' => m2 \in accepted'
=============================================================================
