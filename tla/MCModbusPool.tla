---------------------------- MODULE MCModbusPool ----------------------------
(* Small instances of ModbusPool. *)
EXTENDS ModbusPool, TLC

CONSTANTS d1, d2, h1, h2

\* Two devices behind one gateway.
OneHost == d1 :> h1 @@ d2 :> h1
NoBackup == d1 :> NoHost @@ d2 :> NoHost

\* The backup of the first device is the host of the second.
TwoHosts == d1 :> h1 @@ d2 :> h2
WithBackup == d1 :> h2 @@ d2 :> NoHost
=============================================================================
