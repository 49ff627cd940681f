--------------------------- MODULE MqttForwarder ---------------------------
(***************************************************************************)
(* The MQTT forwarder (engine/mqtt_forwarder.py) with its offline cache: a *)
(* queue in memory, a publish loop, a SQLite table and a ring buffer       *)
(* (storage/ring_buffer.py) that both keep what could not be sent, and a   *)
(* replay task.  Priorities, payloads and the back-off are left out.       *)
(***************************************************************************)
EXTENDS Naturals, Sequences, FiniteSets, SequencesExt, Filters

CONSTANTS
    Messages,    \* events the bus hands over
    MaxQueue,    \* maxsize of _pub_queue
    MaxRows,     \* _max_queue_size
    MaxRing,     \* capacity of the ring buffer
    MaxRetries,  \* _max_retries
    Batch        \* records of one replay: 50

ASSUME BoundsAssumption == {MaxQueue, MaxRows, MaxRing, MaxRetries, Batch} \subseteq Nat \ {0}

VARIABLES
    broker,     \* the broker can be reached
    session,    \* the MQTT session of the current client is alive
    connected,  \* _connected
    loop,       \* _connect_loop: "away", or "online" inside the client's context
    accepted,   \* messages the handlers were given
    inbox,      \* _pub_queue
    pub,        \* what _publish_loop is doing
    rows,       \* table offline_queue, oldest first
    retries,    \* its retry_count column
    ring,       \* _ring_buffer
    replay,     \* _replay_task
    delivered,  \* history: messages the broker confirmed
    saved,      \* history: messages that had a row
    evicted,    \* history: messages whose row made room for a newer one
    dropped     \* history: messages lost in memory

vars == <<broker, session, connected, loop, accepted, inbox, pub, rows, retries, ring, replay,
          delivered, saved, evicted, dropped>>

network == <<broker, session, connected, loop>>
store == <<rows, retries, ring, saved, evicted, dropped>>

Idle == [pc |-> "idle"]
NoReplay == [pc |-> "none", todo |-> <<>>, ok |-> {}, bad |-> {}]
Looking == [NoReplay EXCEPT !.pc = "look"]

Rows == ToSet(rows)
RingMessages == {ring[i].msg : i \in DOMAIN ring}
Pending == Filter(ring, [msg : Messages, status : {"pending"}])

Init ==
    /\ broker = FALSE /\ session = FALSE /\ connected = FALSE /\ loop = "away"
    /\ accepted = {} /\ inbox = <<>> /\ pub = Idle
    /\ rows = <<>> /\ ring = <<>> /\ retries = [m \in Messages |-> 0]
    /\ replay = NoReplay
    /\ delivered = {} /\ saved = {} /\ evicted = {} /\ dropped = {}

-----------------------------------------------------------------------------
(* The broker and _connect_loop.                                           *)

BrokerComes ==
    /\ ~broker /\ broker' = TRUE
    /\ UNCHANGED <<session, connected, loop, accepted, inbox, pub, replay, delivered, store>>

(* Nothing tells the forwarder: it finds out when it publishes.            *)
BrokerGoes ==
    /\ broker
    /\ broker' = FALSE /\ session' = FALSE
    /\ UNCHANGED <<connected, loop, accepted, inbox, pub, replay, delivered, store>>

(* The client's context is left only when the forwarder stops.             *)
Connect ==
    /\ loop = "away" /\ broker
    /\ loop' = "online" /\ connected' = TRUE /\ session' = TRUE
    /\ replay' = Looking
    /\ UNCHANGED <<broker, accepted, inbox, pub, delivered, store>>

-----------------------------------------------------------------------------
(* _persist_message: to the table, where the oldest row makes room, and to *)
(* the ring, where the oldest record is overwritten.                       *)

MakeRoom == IF Len(rows) >= MaxRows THEN Tail(rows) ELSE rows

(* The room is made and the row is written in two calls, and either may    *)
(* fail: a table that cannot be counted or shortened grows all the same.   *)
PutRow(m) ==
    /\ rows' \in {Append(MakeRoom, m), Append(rows, m), MakeRoom, rows}
    /\ saved' = saved \cup ({m} \cap ToSet(rows'))
    /\ evicted' = evicted \cup (Rows \ ToSet(rows'))

\* Mutant of PutRing: the ring is not bounded.
PutRingUnbounded(m) ==
    /\ ring' = Append(ring, [msg |-> m, status |-> "pending"])
    /\ UNCHANGED dropped

PutRing(m) ==
    /\ ring' = Append(IF Len(ring) = MaxRing THEN Tail(ring) ELSE ring,
                      [msg |-> m, status |-> "pending"])
    /\ dropped' = IF Len(ring) = MaxRing THEN dropped \cup {Head(ring).msg} ELSE dropped

Persist(m) == PutRow(m) /\ PutRing(m) /\ UNCHANGED retries

(* The handlers of the bus.                                                *)
Accept ==
    \E m \in Messages \ accepted :
        /\ accepted' = accepted \cup {m}
        /\ IF Len(inbox) < MaxQueue
           THEN inbox' = Append(inbox, m) /\ UNCHANGED store
           ELSE Persist(m) /\ UNCHANGED inbox
        /\ UNCHANGED <<network, pub, replay, delivered>>

(* The bus gives up on a handler that waits for the table.                 *)
AcceptTimesOut ==
    \E m \in Messages \ accepted :
        /\ Len(inbox) = MaxQueue
        /\ accepted' = accepted \cup {m}
        /\ PutRow(m)
        /\ dropped' = dropped \cup {m}
        /\ UNCHANGED <<network, inbox, pub, retries, ring, replay, delivered>>

-----------------------------------------------------------------------------
(* _publish_loop, which lives as long as the client's context.             *)

Take ==
    /\ loop = "online" /\ pub = Idle /\ inbox # <<>>
    /\ inbox' = Tail(inbox)
    /\ pub' = [pc |-> IF connected THEN "send" ELSE "persist", msg |-> Head(inbox)]
    /\ UNCHANGED <<network, accepted, replay, delivered, store>>

Send ==
    /\ pub.pc = "send" /\ session
    /\ delivered' = delivered \cup {pub.msg}
    /\ pub' = Idle
    /\ UNCHANGED <<network, accepted, inbox, replay, store>>

(* "not currently connected".                                              *)
SendRefused ==
    /\ pub.pc = "send" /\ ~session
    /\ connected' = FALSE
    /\ pub' = [pub EXCEPT !.pc = "persist"]
    /\ UNCHANGED <<broker, session, loop, accepted, inbox, replay, delivered, store>>

\* Mutant of SendTimesOut: it is not counted, and not stored.
SendForgets ==
    /\ pub.pc = "send"
    /\ pub' = Idle
    /\ UNCHANGED <<network, accepted, inbox, replay, delivered, store>>

(* Any other error, a confirmation that does not come: it is only logged.  *)
SendTimesOut ==
    /\ pub.pc = "send"
    /\ dropped' = dropped \cup {pub.msg}
    /\ pub' = Idle
    /\ UNCHANGED <<network, accepted, inbox, rows, retries, ring, saved, evicted, replay, delivered>>

Store ==
    /\ pub.pc = "persist"
    /\ Persist(pub.msg)
    /\ pub' = Idle
    /\ UNCHANGED <<network, accepted, inbox, replay, delivered>>

-----------------------------------------------------------------------------
(* _replay_offline_queue: first the ring, and the table if the ring has    *)
(* nothing to send.                                                        *)

Mark(ms, status) ==
    [i \in DOMAIN ring |-> IF ring[i].msg \in ms THEN [ring[i] EXCEPT !.status = status] ELSE ring[i]]

MessagesOf(records) == [i \in DOMAIN records |-> records[i].msg]

First(s) == SubSeq(s, 1, IF Len(s) < Batch THEN Len(s) ELSE Batch)

LookAtRing ==
    /\ replay.pc = "look" /\ connected
    /\ IF Pending = <<>>
       THEN replay' = [replay EXCEPT !.pc = "select"] /\ UNCHANGED ring
       ELSE LET todo == MessagesOf(First(Pending))
            IN  /\ replay' = [NoReplay EXCEPT !.pc = "ring", !.todo = todo]
                /\ ring' = Mark(ToSet(todo), "syncing")
    /\ UNCHANGED <<network, accepted, inbox, pub, rows, retries, saved, evicted, dropped, delivered>>

(* The task ends with the connection.                                      *)
ReplayEnds ==
    /\ replay.pc = "look" /\ ~connected
    /\ replay' = NoReplay
    /\ UNCHANGED <<network, accepted, inbox, pub, delivered, store>>

(* The rows that have an attempt left, unless the query fails.             *)
SelectRows ==
    /\ replay.pc = "select"
    /\ LET todo == First(Filter(rows, {m \in Messages : retries[m] < MaxRetries}))
       IN  \/ replay' = Looking
           \/ todo # <<>> /\ replay' = [NoReplay EXCEPT !.pc = "rows", !.todo = todo]
    /\ UNCHANGED <<network, accepted, inbox, pub, delivered, store>>

Sending == replay.pc \in {"ring", "rows"} /\ replay.todo # <<>>

Resend ==
    /\ Sending /\ connected /\ session
    /\ delivered' = delivered \cup {Head(replay.todo)}
    /\ replay' = [replay EXCEPT !.todo = Tail(@), !.ok = @ \cup {Head(replay.todo)}]
    /\ UNCHANGED <<network, accepted, inbox, pub, store>>

(* The batch is broken off, the records behind the failed one are left.    *)
ResendFails ==
    /\ Sending /\ connected
    /\ replay' = [replay EXCEPT !.todo = <<>>, !.bad = {Head(replay.todo)}]
    /\ UNCHANGED <<network, accepted, inbox, pub, delivered, store>>

(* Records of the ring that are not sent any more become pending again.    *)
BreakOff ==
    /\ Sending /\ ~connected
    /\ replay' = [replay EXCEPT !.todo = <<>>, !.bad = IF replay.pc = "ring" THEN ToSet(replay.todo) ELSE {}]
    /\ UNCHANGED <<network, accepted, inbox, pub, delivered, store>>

Sent(pc) == replay.pc = pc /\ replay.todo = <<>>

(* mark_synced, then the rows go, then mark_failed.                        *)
MarkSynced ==
    /\ Sent("ring")
    /\ ring' = Filter(ring, [msg : Messages \ replay.ok, status : {"pending", "syncing"}])
    /\ replay' = [replay EXCEPT !.pc = "erase"]
    /\ UNCHANGED <<network, accepted, inbox, pub, rows, retries, saved, evicted, dropped, delivered>>

Without(ms) == Filter(rows, Messages \ ms)

\* Mutant of EraseRows: all rows of the batch go, the failed one too.
EraseBatch ==
    /\ replay.pc = "erase"
    /\ rows' = Without(replay.ok \cup replay.bad)
    /\ replay' = [replay EXCEPT !.pc = "fail"]
    /\ UNCHANGED <<network, accepted, inbox, pub, retries, ring, saved, evicted, dropped, delivered>>

EraseRows ==
    /\ replay.pc = "erase"
    /\ rows' = Without(replay.ok) \/ rows' = rows
    /\ replay' = [replay EXCEPT !.pc = "fail"]
    /\ UNCHANGED <<network, accepted, inbox, pub, retries, ring, saved, evicted, dropped, delivered>>

MarkFailed ==
    /\ replay.pc = "fail"
    /\ ring' = Mark(replay.bad, "pending")
    /\ replay' = Looking
    /\ UNCHANGED <<network, accepted, inbox, pub, rows, retries, saved, evicted, dropped, delivered>>

\* Mutant of FinishRows: what was sent stays in the table.
FinishRowsWithoutDelete ==
    /\ Sent("rows")
    /\ replay' = Looking
    /\ UNCHANGED <<network, accepted, inbox, pub, delivered, store>>

Counted == [m \in Messages |-> IF m \in replay.bad \cap Rows THEN retries[m] + 1 ELSE retries[m]]

(* What was sent is marked, then what failed is counted, then what is      *)
(* marked goes: the statement that fails ends it, with an entry in the log.*)
FinishRows ==
    /\ Sent("rows")
    /\ \/ UNCHANGED <<rows, retries>>
       \/ rows' = Without(replay.ok) /\ retries' \in {retries, Counted}
    /\ replay' = Looking
    /\ UNCHANGED <<network, accepted, inbox, pub, ring, saved, evicted, dropped, delivered>>

ReplayStep ==
    \/ LookAtRing \/ ReplayEnds \/ SelectRows \/ Resend \/ ResendFails \/ BreakOff
    \/ MarkSynced \/ EraseRows \/ MarkFailed \/ FinishRows

-----------------------------------------------------------------------------
(* stop and start, or a crash: the rows are put back into the ring, if     *)
(* they can be read.                                                       *)
InMemory == ToSet(inbox) \cup (IF pub = Idle THEN {} ELSE {pub.msg}) \cup RingMessages

Restored ==
    LET last == SubSeq(rows, IF Len(rows) > MaxRing THEN Len(rows) - MaxRing + 1 ELSE 1, Len(rows))
    IN  [i \in DOMAIN last |-> [msg |-> last[i], status |-> "pending"]]

Restart ==
    /\ loop' = "away" /\ connected' = FALSE /\ session' = FALSE
    /\ inbox' = <<>> /\ pub' = Idle /\ replay' = NoReplay
    /\ ring' \in {Restored, <<>>}
    /\ dropped' = dropped \cup InMemory
    /\ UNCHANGED <<broker, accepted, rows, retries, saved, evicted, delivered>>

Next ==
    \/ BrokerComes \/ BrokerGoes \/ Connect
    \/ Accept \/ AcceptTimesOut \/ Take \/ Send \/ SendRefused \/ SendTimesOut \/ Store
    \/ ReplayStep
    \/ Restart

Spec == Init /\ [][Next]_vars

(* The tasks keep running, the broker confirms some of what it gets while  *)
(* the session lasts, and the database answers now and then.               *)
FairSpec ==
    /\ Spec
    /\ WF_vars(Connect)
    /\ WF_vars(Take) /\ WF_vars(Send \/ SendRefused \/ SendTimesOut) /\ WF_vars(Store)
    /\ WF_vars(ReplayStep) /\ SF_vars(Resend)
    /\ SF_vars(SelectRows /\ replay'.pc = "rows")
    /\ SF_vars(EraseRows /\ rows' = Without(replay.ok))
    /\ SF_vars(FinishRows /\ rows' = Without(replay.ok) /\ retries' = Counted)

-----------------------------------------------------------------------------
(* Properties.                                                             *)

Records == [msg : Messages, status : {"pending", "syncing"}]

Replays ==
    [pc : {"none", "look", "select", "ring", "rows", "erase", "fail"},
     todo : Seq(Messages), ok : SUBSET Messages, bad : SUBSET Messages]

Places == InMemory \cup Rows \cup ToSet(replay.todo)

TypeOK ==
    /\ {broker, session, connected} \subseteq BOOLEAN
    /\ loop \in {"away", "online"}
    /\ accepted \subseteq Messages
    /\ Places \cup saved \cup delivered \cup evicted \cup dropped \subseteq accepted
    /\ inbox \in Seq(Messages) /\ IsInjective(inbox) /\ Len(inbox) <= MaxQueue
    /\ pub = Idle \/ pub \in [pc : {"send", "persist"}, msg : Messages]
    /\ rows \in Seq(Messages) /\ IsInjective(rows)
    /\ ring \in Seq(Records) /\ IsInjective(MessagesOf(ring)) /\ Len(ring) <= MaxRing
    /\ retries \in [Messages -> 0..MaxRetries]
    /\ replay \in Replays

(* The forwarder keeps the promise of a store-and-forward path.            *)
North == INSTANCE StoreForward WITH
    held      <- Places \ delivered,
    dropped   <- (dropped \cup evicted) \ (Places \cup delivered)

\* Every accepted message is delivered, stored, on its way, or given up by
\* one of the named rules: a row or a record that makes room, a publication
\* that fails for an unknown reason, a stop.
Promise == North!Spec

\* What reached the table survives every stop until the broker confirmed
\* it, or until its row had to make room.
DurableUntilDelivered == saved \subseteq Rows \cup delivered \cup evicted

\* As long as the session lasts, a stored row is sent and deleted, unless it
\* failed too often.
RowsDrain ==
    \A m \in Messages : m \in Rows ~> (m \notin Rows \/ ~session \/ retries[m] = MaxRetries)
=============================================================================
