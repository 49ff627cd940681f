----------------------------- MODULE MCBackhaul -----------------------------
(* Small instances of Backhaul. *)
EXTENDS Backhaul

CONSTANTS m1, m2, h1, h2
=============================================================================
