---------------------------- MODULE StoreForward ----------------------------
(***************************************************************************)
(* What a store-and-forward path to the north promises: a message that was *)
(* accepted is held until it is delivered, or until a rule the path names  *)
(* gives it up.  It never just disappears, and what was given up does not  *)
(* count as delivered.                                                     *)
(***************************************************************************)
CONSTANT Messages

VARIABLES held, delivered, dropped

vars == <<held, delivered, dropped>>

TypeOK == held \subseteq Messages /\ delivered \subseteq Messages /\ dropped \subseteq Messages

Init == held = {} /\ delivered = {} /\ dropped = {}

(* A message may be refused on arrival, and others may have to make room.  *)
Accept ==
    /\ \E m \in Messages \ (held \cup delivered \cup dropped) :
         \E gone \in SUBSET (held \cup {m}) :
            held' = (held \cup {m}) \ gone /\ dropped' = dropped \cup gone
    /\ UNCHANGED delivered

(* One message, or a batch.                                                *)
Deliver ==
    /\ \E sent \in SUBSET held : held' = held \ sent /\ delivered' = delivered \cup sent
    /\ UNCHANGED dropped

(* Several at once: a queue that is full, a crash.                         *)
GiveUp ==
    /\ \E gone \in SUBSET held : held' = held \ gone /\ dropped' = dropped \cup gone
    /\ UNCHANGED delivered

Next == Accept \/ Deliver \/ GiveUp

Spec == Init /\ [][Next]_vars
=============================================================================
