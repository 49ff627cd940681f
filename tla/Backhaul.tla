------------------------------ MODULE Backhaul ------------------------------
(***************************************************************************)
(* The backhaul of events to integration clients                           *)
(* (engine/integration/backhaul.py) over the SQLite queue of               *)
(* storage/offline_queue.py.  An event handler broadcasts its message to   *)
(* the connected clients, or stores it; a loop sends again what is stored; *)
(* a new connection flushes what could not be stored.                      *)
(***************************************************************************)
EXTENDS Naturals, Sequences, FiniteSets, SequencesExt, Filters

CONSTANTS
    Messages,     \* events the bus hands over
    Handlers,     \* handlers of the bus that may run at once
    MaxRecords,   \* max_size_bytes // 512
    MaxFallback,  \* maxlen of _fallback_buffer
    MaxRetries,   \* purge_max_retries: 10
    MaxFailures,  \* max_retries of flush_buffer: 3
    Batch         \* size of dequeue_batch: 1000

ASSUME BoundsAssumption ==
    /\ {MaxRecords, MaxFallback, MaxRetries, MaxFailures, Batch} \subseteq Nat \ {0}
    /\ IsFiniteSet(Handlers)

VARIABLES
    link,      \* has_connections
    accepted,  \* messages the handlers were given
    hand,      \* what every handler is doing
    queue,     \* rows of offline_records, in the order of their ids
    retries,   \* their retries column
    fallback,  \* _fallback_buffer
    flush,     \* flush_buffer, run by the request of a new connection
    resend,    \* _resend_loop
    copies,    \* history: how often a message was delivered, up to 2
    dropped,   \* history: messages a rule gave up
    unsure     \* history: messages sent whose row was not deleted after that,
               \* or whose row is there although its commit failed

vars == <<link, accepted, hand, queue, retries, fallback, flush, resend, copies, dropped, unsure>>

None == [pc |-> "idle"]
Asleep == [pc |-> "sleep", todo |-> <<>>, ok |-> {}, bad |-> {}]

Rows == ToSet(queue)
Delivered == {m \in Messages : copies[m] > 0}

Init ==
    /\ link = FALSE
    /\ accepted = {} /\ dropped = {} /\ unsure = {}
    /\ hand = [h \in Handlers |-> None]
    /\ queue = <<>> /\ fallback = <<>>
    /\ retries = [m \in Messages |-> 0]
    /\ flush = None
    /\ resend = Asleep
    /\ copies = [m \in Messages |-> 0]

Deliver(m) == copies' = [copies EXCEPT ![m] = IF @ = 2 THEN 2 ELSE @ + 1]

Drop(ms) == dropped' = dropped \cup ms

Least(a, b) == IF a < b THEN a ELSE b

-----------------------------------------------------------------------------
(* _on_point_update, _on_device_status, _on_alarm, _send_or_buffer.        *)

Accept(h) ==
    /\ hand[h] = None
    /\ \E m \in Messages \ accepted :
         /\ accepted' = accepted \cup {m}
         /\ hand' = [hand EXCEPT ![h] = [pc |-> IF link THEN "broadcast" ELSE "insert", msg |-> m]]
    /\ UNCHANGED <<link, queue, retries, fallback, flush, resend, copies, dropped, unsure>>

\* Mutant of Broadcast: what was delivered is stored as well.
BroadcastAndStore(h) ==
    /\ hand[h].pc = "broadcast"
    /\ \/ link /\ Deliver(hand[h].msg)
       \/ UNCHANGED copies
    /\ hand' = [hand EXCEPT ![h].pc = "insert"]
    /\ UNCHANGED <<link, accepted, queue, retries, fallback, flush, resend, dropped, unsure>>

(* It is delivered when one client took it.                                *)
Broadcast(h) ==
    /\ hand[h].pc = "broadcast"
    /\ \/ link /\ Deliver(hand[h].msg) /\ hand' = [hand EXCEPT ![h] = None]
       \/ hand' = [hand EXCEPT ![h].pc = "insert"] /\ UNCHANGED copies
    /\ UNCHANGED <<link, accepted, queue, retries, fallback, flush, resend, dropped, unsure>>

(* enqueue: the row is committed, then _enforce_max_size counts the rows   *)
(* and deletes the oldest.                                                 *)
Insert(h) ==
    /\ hand[h].pc = "insert"
    /\ queue' = Append(queue, hand[h].msg)
    /\ hand' = [hand EXCEPT ![h] = [pc |-> "count", excess |-> 0]]
    /\ UNCHANGED <<link, accepted, retries, fallback, flush, resend, copies, dropped, unsure>>

(* A row whose commit failed goes with the next commit of the connection.  *)
InsertFails(h) ==
    /\ hand[h].pc = "insert"
    /\ \/ UNCHANGED <<queue, unsure>>
       \/ queue' = Append(queue, hand[h].msg) /\ unsure' = unsure \cup {hand[h].msg}
    /\ IF Len(fallback) = MaxFallback
       THEN fallback' = Append(Tail(fallback), hand[h].msg) /\ Drop({Head(fallback)})
       ELSE fallback' = Append(fallback, hand[h].msg) /\ UNCHANGED dropped
    /\ hand' = [hand EXCEPT ![h] = None]
    /\ UNCHANGED <<link, accepted, retries, flush, resend, copies>>

Excess == IF Len(queue) > MaxRecords THEN Len(queue) - MaxRecords ELSE 0

Count(h) ==
    /\ hand[h].pc = "count"
    /\ hand' = [hand EXCEPT ![h] = IF Excess = 0 THEN None ELSE [pc |-> "evict", excess |-> Excess]]
    /\ UNCHANGED <<link, accepted, queue, retries, fallback, flush, resend, copies, dropped, unsure>>

(* The rows may have been deleted by another handler in the meantime.      *)
Evict(h) ==
    LET n == Least(hand[h].excess, Len(queue))
    IN  /\ hand[h].pc = "evict"
        /\ queue' = SubSeq(queue, n + 1, Len(queue))
        /\ Drop(ToSet(SubSeq(queue, 1, n)))
        /\ hand' = [hand EXCEPT ![h] = None]
        /\ UNCHANGED <<link, accepted, retries, fallback, flush, resend, copies, unsure>>

(* The bus gives a handler 10 s.  An insert that was under way is made by  *)
(* the thread of the database all the same.                                *)
HandlerTimesOut(h) ==
    /\ hand[h].pc # "idle"
    /\ \/ /\ hand[h].pc = "insert"
          /\ queue' = Append(queue, hand[h].msg)
          /\ UNCHANGED dropped
       \/ /\ IF hand[h].pc \in {"broadcast", "insert"} THEN Drop({hand[h].msg}) ELSE UNCHANGED dropped
          /\ UNCHANGED queue
    /\ hand' = [hand EXCEPT ![h] = None]
    /\ UNCHANGED <<link, accepted, retries, fallback, flush, resend, copies, unsure>>

-----------------------------------------------------------------------------
(* register_connection and flush_buffer.                                   *)

(* A second flush at the same time shares the work of the first.           *)
Connect ==
    /\ link' = TRUE
    /\ flush' = IF flush # None \/ fallback = <<>> THEN flush ELSE [pc |-> "pop", failures |-> 0]
    /\ UNCHANGED <<accepted, hand, queue, retries, fallback, resend, copies, dropped, unsure>>

Disconnect ==
    /\ link
    /\ link' = FALSE
    /\ UNCHANGED <<accepted, hand, queue, retries, fallback, flush, resend, copies, dropped, unsure>>

Pop ==
    /\ flush.pc = "pop"
    /\ IF fallback = <<>> THEN flush' = None /\ UNCHANGED fallback
       ELSE /\ flush' = [pc |-> "send", failures |-> flush.failures, msg |-> Head(fallback)]
            /\ fallback' = Tail(fallback)
    /\ UNCHANGED <<link, accepted, hand, queue, retries, resend, copies, dropped, unsure>>

FlushSends ==
    /\ flush.pc = "send" /\ link
    /\ Deliver(flush.msg)
    /\ flush' = [pc |-> "pop", failures |-> 0]
    /\ UNCHANGED <<link, accepted, hand, queue, retries, fallback, resend, dropped, unsure>>

\* Mutant of PutBack: the limit is not kept.
PutBackUnbounded(m) == fallback' = <<m>> \o fallback /\ UNCHANGED dropped

(* appendleft: a full deque loses its other end.                           *)
PutBack(m) ==
    IF Len(fallback) = MaxFallback
    THEN fallback' = <<m>> \o Front(fallback) /\ Drop({Last(fallback)})
    ELSE fallback' = <<m>> \o fallback /\ UNCHANGED dropped

FlushFails ==
    /\ flush.pc = "send"
    /\ IF flush.failures + 1 = MaxFailures
       THEN /\ Drop({flush.msg})
            /\ flush' = [pc |-> "pop", failures |-> 0]
            /\ UNCHANGED fallback
       ELSE /\ PutBack(flush.msg)
            /\ flush' = [pc |-> "pop", failures |-> flush.failures + 1]
    /\ UNCHANGED <<link, accepted, hand, queue, retries, resend, copies, unsure>>

-----------------------------------------------------------------------------
(* _resend_loop and _resend_pending.                                       *)

(* The oldest rows may have expired; the exhausted ones go.  Only then is  *)
(* the connection looked at.                                               *)
Wake ==
    /\ resend.pc = "sleep"
    /\ \E n \in 0..Len(queue) :
         LET young == SubSeq(queue, n + 1, Len(queue))
             kept  == Filter(young, {m \in Messages : retries[m] < MaxRetries})
         IN  /\ queue' = kept
             /\ Drop(Rows \ ToSet(kept))
             /\ resend' = IF link /\ kept # <<>>
                          THEN [Asleep EXCEPT !.pc = "send",
                                              !.todo = SubSeq(kept, 1, Least(Batch, Len(kept)))]
                          ELSE Asleep
    /\ UNCHANGED <<link, accepted, hand, retries, fallback, flush, copies, unsure>>

SendNext ==
    /\ resend.pc = "send" /\ resend.todo # <<>>
    /\ LET m == Head(resend.todo)
       IN  \/ /\ link /\ Deliver(m)
              /\ resend' = [resend EXCEPT !.todo = Tail(@), !.ok = @ \cup {m}]
           \/ /\ resend' = [resend EXCEPT !.todo = Tail(@), !.bad = @ \cup {m}]
              /\ UNCHANGED copies
    /\ UNCHANGED <<link, accepted, hand, queue, retries, fallback, flush, dropped, unsure>>

BatchSent ==
    /\ resend.pc = "send" /\ resend.todo = <<>>
    /\ resend' = [resend EXCEPT !.pc = "ack"]
    /\ UNCHANGED <<link, accepted, hand, queue, retries, fallback, flush, copies, dropped, unsure>>

\* Mutant of Acknowledge: the whole batch is acknowledged.
AcknowledgeBatch ==
    /\ resend.pc = "ack"
    /\ queue' = Filter(queue, Messages \ (resend.ok \cup resend.bad))
    /\ resend' = [resend EXCEPT !.pc = "count"]
    /\ UNCHANGED <<link, accepted, hand, retries, fallback, flush, copies, dropped, unsure>>

Acknowledge ==
    /\ resend.pc = "ack"
    /\ queue' = Filter(queue, Messages \ resend.ok)
    /\ resend' = [resend EXCEPT !.pc = "count"]
    /\ UNCHANGED <<link, accepted, hand, retries, fallback, flush, copies, dropped, unsure>>

\* Mutant of CountRetry: a failed send leaves the count alone.
CountNoRetry ==
    /\ resend.pc = "count"
    /\ resend' = Asleep
    /\ UNCHANGED <<link, accepted, hand, queue, retries, fallback, flush, copies, dropped, unsure>>

CountRetry ==
    /\ resend.pc = "count"
    /\ retries' = [m \in Messages |-> IF m \in resend.bad \cap Rows THEN retries[m] + 1 ELSE retries[m]]
    /\ resend' = Asleep
    /\ UNCHANGED <<link, accepted, hand, queue, fallback, flush, copies, dropped, unsure>>

(* The database fails: the loop logs it and sleeps longer.                 *)
ResendFails ==
    /\ resend.pc \in {"ack", "count"}
    /\ unsure' = unsure \cup (resend.ok \cap Rows)
    /\ resend' = Asleep
    /\ UNCHANGED <<link, accepted, hand, queue, retries, fallback, flush, copies, dropped>>

-----------------------------------------------------------------------------
(* The process stops, or dies, and starts again: the rows are what is left.*)
InMemory ==
    ToSet(fallback)
    \cup {hand[h].msg : h \in {i \in Handlers : hand[i].pc \in {"broadcast", "insert"}}}
    \cup (IF flush.pc = "send" THEN {flush.msg} ELSE {})

Restart ==
    /\ link' = FALSE
    /\ hand' = [h \in Handlers |-> None]
    /\ fallback' = <<>>
    /\ flush' = None
    /\ resend' = Asleep
    /\ Drop(InMemory)
    /\ unsure' = unsure \cup (resend.ok \cap Rows)
    /\ UNCHANGED <<accepted, queue, retries, copies>>

HandlerStep(h) ==
    Accept(h) \/ Broadcast(h) \/ Insert(h) \/ InsertFails(h) \/ Count(h) \/ Evict(h)

FlushStep == Pop \/ FlushSends \/ FlushFails

Next ==
    \/ \E h \in Handlers : HandlerStep(h) \/ HandlerTimesOut(h)
    \/ Connect \/ Disconnect \/ FlushStep
    \/ Wake \/ SendNext \/ BatchSent \/ Acknowledge \/ CountRetry \/ ResendFails
    \/ Restart

Spec == Init /\ [][Next]_vars

(* The tasks keep running and the database does not fail every time.       *)
FairSpec ==
    /\ Spec
    /\ WF_vars(FlushStep) /\ WF_vars(Wake) /\ WF_vars(SendNext) /\ WF_vars(BatchSent)
    /\ SF_vars(Acknowledge) /\ SF_vars(CountRetry)

-----------------------------------------------------------------------------
(* Properties.                                                             *)

Carrying == [pc : {"broadcast", "insert"}, msg : Messages]

Counting == [pc : {"count", "evict"}, excess : Nat]

Flushes ==
    [pc : {"pop"}, failures : 0..(MaxFailures - 1)]
    \cup [pc : {"send"}, failures : 0..(MaxFailures - 1), msg : Messages]

Resends ==
    [pc : {"sleep", "send", "ack", "count"}, todo : Seq(Messages), ok : SUBSET Messages, bad : SUBSET Messages]

\* Where a message can be on its way.
Places == InMemory \cup Rows \cup ToSet(resend.todo)

TypeOK ==
    /\ link \in BOOLEAN
    /\ accepted \subseteq Messages /\ Places \cup Delivered \cup dropped \cup unsure \subseteq accepted
    /\ hand \in [Handlers -> {None} \cup Carrying \cup Counting]
    /\ queue \in Seq(Messages) /\ IsInjective(queue)
    /\ retries \in [Messages -> 0..MaxRetries]
    /\ fallback \in Seq(Messages) /\ Len(fallback) <= MaxFallback
    /\ flush \in {None} \cup Flushes
    /\ resend \in Resends
    /\ copies \in [Messages -> 0..2]

(* The backhaul keeps the promise of a store-and-forward path.             *)
North == INSTANCE StoreForward WITH
    held      <- Places \ Delivered,
    delivered <- Delivered,
    dropped   <- dropped \ (Places \cup Delivered)

\* Every accepted message is delivered, stored, on its way, or given up by
\* one of the named rules: an eviction, an expiry, the last retry, a full or
\* failing memory buffer, a handler out of time, a stop.
Promise == North!Spec

\* A message reaches the clients twice only when it was sent and the
\* deletion of its row did not follow, or when its row was written after all.
OnceUnlessUnsure == \A m \in Messages : copies[m] = 2 => m \in unsure

\* While clients stay connected no row stays for ever: it is sent, or
\* it fails often enough to be purged.
QueueDrains == \A m \in Messages : m \in Rows ~> (m \notin Rows \/ ~link)
=============================================================================
