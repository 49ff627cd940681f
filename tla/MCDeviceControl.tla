--------------------------- MODULE MCDeviceControl --------------------------
(* Small instances of DeviceControl. *)
EXTENDS DeviceControl, TLC

CONSTANTS a1, a2
=============================================================================
