-------------------------- MODULE MCAlarmLifecycle --------------------------
(* Small instances of AlarmLifecycle. *)
EXTENDS AlarmLifecycle

CONSTANTS a1, a2, u1, u2
=============================================================================
