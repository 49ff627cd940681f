----------------------------- MODULE WriteAhead -----------------------------
(***************************************************************************)
(* What the alarm outbox promises, with no queue, thread or dedup cache in *)
(* sight ("persist first, deliver afterwards", engine/event_bus.py): a     *)
(* subscriber only ever gets an alarm that a commit had already made       *)
(* durable.  A restart forgets what was delivered, never what was stored.  *)
(***************************************************************************)
CONSTANTS
    Alarms,       \* identities of alarm events
    Receivers     \* who is handed the alarms

VARIABLES
    stored,       \* alarms some commit has made durable
    got           \* <<receiver, alarm>> handed over since the last restart

vars == <<stored, got>>

Init == stored = {} /\ got = {}

Store(a) ==
    /\ stored' = stored \cup {a}
    /\ UNCHANGED got

Deliver(r, a) ==
    /\ a \in stored
    /\ got' = got \cup {<<r, a>>}
    /\ UNCHANGED stored

Restart ==
    /\ got' = {}
    /\ UNCHANGED stored

Next ==
    \/ \E a \in Alarms : Store(a)
    \/ \E r \in Receivers, a \in Alarms : Deliver(r, a)
    \/ Restart

Spec == Init /\ [][Next]_vars
=============================================================================
