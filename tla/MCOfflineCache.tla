--------------------------- MODULE MCOfflineCache ---------------------------
(* A small instance of OfflineCache. *)
EXTENDS OfflineCache

CONSTANT d1
=============================================================================
