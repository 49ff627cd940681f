------------------------------ MODULE EventBus ------------------------------
(***************************************************************************)
(* engine/event_bus.py and engine/alarm_outbox.py: the in-process event    *)
(* bus with its dedup cache, its bounded subscriber queues and the SQLite  *)
(* outbox of alarm events, through crashes, shutdowns and replays.         *)
(*                                                                         *)
(* One alarm event is its event_id "alarm:{alarm_id}:{action}", which is   *)
(* all the bus looks at.  A publish of an alarm is a coroutine that        *)
(* suspends at every await, one slot of Tasks each; a publish of any other *)
(* event never suspends before its handlers run, so it is a single step.   *)
(***************************************************************************)
EXTENDS Naturals, Sequences, FiniteSets

CONSTANTS
    Alarms,          \* event_ids of alarm events
    Data,            \* events without an event_id (points, device status)
    Subscribers,     \* names passed to subscribe()
    SubscriberSeq,   \* the same names, in the order of the _subscribers dict
    Handlers,        \* callbacks registered for "AlarmEvent"
    HandlerSeq,      \* the same callbacks, in registration order
    Tasks,           \* coroutines that may be inside publish() at once
    None,            \* no event
    MaxQueue,        \* MAX_QUEUE_SIZE
    MaxDedup,        \* _max_dedup_size
    MaxRecorded,     \* bound: dedup cache insertions per process lifetime
    MaxCommits,      \* bound: rows the outbox may hold
    MaxCrashes       \* bound: process deaths

ASSUME SizesAssumption ==
    /\ MaxQueue \in Nat \ {0}
    /\ MaxDedup \in Nat \ {0}
    /\ {MaxRecorded, MaxCommits, MaxCrashes} \subseteq Nat

ASSUME NamesAssumption ==
    /\ SubscriberSeq \in Seq(Subscribers) \ {<<>>}
    /\ HandlerSeq \in Seq(Handlers) \ {<<>>}
    /\ Alarms \cap Data = {}
    /\ None \notin Alarms \cup Data

VARIABLES
    phase,      \* "up", "stopping" (_shutting_down set), "closed" (outbox closed), "down"
    seen,       \* _seen_event_ids, oldest first
    outbox,     \* rows of alarm_outbox, by id
    late,       \* persists running in an executor thread nobody waits for any more
    queues,     \* the asyncio.Queue of each subscriber
    pub,        \* the coroutines inside publish()
    replay,     \* replay_and_clear in its executor thread
    crashes,    \* process deaths so far
    recorded,   \* history: every id this process put in `seen`, in order
    delivered,  \* history: <<subscriber, n>>, the alarm recorded[n] was enqueued
    erased,     \* history: alarms a replay ever deleted from the outbox
    wiped       \* history: those a replay of this process deleted

volatile == <<seen, late, queues, pub, replay>>
history  == <<recorded, delivered, erased, wiped>>
vars     == <<phase, outbox, crashes, volatile, history>>

Range(s) == {s[i] : i \in DOMAIN s}
Idle     == [pc |-> "idle", ev |-> None, n |-> 0, left |-> <<>>, origin |-> "live"]
NoReplay == [pc |-> "idle", rows |-> <<>>]

PubPc == {"idle", "persisting", "persisted", "enqueue", "handle"}

TypeOK ==
    /\ phase \in {"up", "stopping", "closed", "down"}
    /\ seen \in Seq(Alarms)
    /\ outbox \in Seq(Alarms)
    /\ late \subseteq Alarms
    /\ queues \in [Subscribers -> Seq(Alarms \cup Data)]
    /\ pub \in [Tasks -> [pc : PubPc, ev : Alarms \cup {None}, n : Nat,
                          left : Seq(Subscribers) \cup Seq(Handlers),
                          origin : {"live", "replay"}]]
    /\ \A t \in Tasks :
         /\ pub[t].pc # "idle" => pub[t].ev \in Alarms
         /\ pub[t].pc = "enqueue" => pub[t].left \in Seq(Subscribers) \ {<<>>}
         /\ pub[t].pc = "handle" => pub[t].left \in Seq(Handlers) \ {<<>>}
    /\ replay \in [pc : {"idle", "sending"}, rows : Seq(Alarms)]
    /\ crashes \in Nat
    /\ recorded \in Seq(Alarms)
    /\ delivered \subseteq Subscribers \X Nat
    /\ erased \subseteq Alarms
    /\ wiped \subseteq Alarms
    /\ \A s \in Subscribers : Len(queues[s]) <= MaxQueue

Init ==
    /\ phase = "up"
    /\ seen = <<>> /\ outbox = <<>> /\ late = {}
    /\ queues = [s \in Subscribers |-> <<>>]
    /\ pub = [t \in Tasks |-> Idle]
    /\ replay = NoReplay
    /\ crashes = 0
    /\ recorded = <<>> /\ delivered = {} /\ erased = {} /\ wiped = {}

-----------------------------------------------------------------------------
(* The dedup cache: insert, then evict the oldest entry once it is over.   *)

\* Mutant of Remember: the cache evicts one entry too early.
RememberEvictsEarly(a) ==
    LET grown == Append(seen, a)
    IN  IF Len(grown) >= MaxDedup THEN Tail(grown) ELSE grown

Remember(a) ==
    LET grown == Append(seen, a)
    IN  IF Len(grown) > MaxDedup THEN Tail(grown) ELSE grown

(* publish() of an alarm up to its first await, in the free slot t.        *)
(* An id still in the cache returns at once and leaves no trace.           *)
BeginPublish(t, a, origin) ==
    /\ phase = "up"
    /\ pub[t].pc = "idle"
    /\ a \notin Range(seen)
    /\ Len(recorded) < MaxRecorded
    /\ seen' = Remember(a)
    /\ recorded' = Append(recorded, a)
    /\ pub' = [pub EXCEPT ![t] = [pc |-> "persisting", ev |-> a, n |-> Len(recorded) + 1,
                                  left |-> <<>>, origin |-> origin]]

Publish(t, a) ==
    /\ BeginPublish(t, a, "live")
    /\ UNCHANGED <<phase, outbox, crashes, late, queues, replay,
                   delivered, erased, wiped>>

\* Mutant of PublishData: the full queue is not relieved of its oldest entry.
PublishDataUnbounded(d) ==
    /\ phase = "up"
    /\ queues' = [s \in Subscribers |->
                    IF s \in Range(SubscriberSeq) THEN Append(queues[s], d) ELSE queues[s]]
    /\ UNCHANGED <<phase, outbox, crashes, seen, late, pub, replay, history>>

(* publish() of an event that is not an alarm: a full queue loses its      *)
(* oldest entry, whatever that is, and the put that follows cannot fail.   *)
PublishData(d) ==
    /\ phase = "up"
    /\ queues' = [s \in Subscribers |->
                    IF s \in Range(SubscriberSeq)
                    THEN Append(IF Len(queues[s]) < MaxQueue THEN queues[s]
                                ELSE Tail(queues[s]), d)
                    ELSE queues[s]]
    /\ UNCHANGED <<phase, outbox, crashes, seen, late, pub, replay, history>>

-----------------------------------------------------------------------------
(* AlarmOutbox.persist in an executor thread, and publish() waiting 0.5 s. *)

Commit(a) ==
    /\ Len(outbox) < MaxCommits
    /\ outbox' = Append(outbox, a)

PersistCommits(t) ==
    /\ pub[t].pc = "persisting"
    /\ phase # "closed"
    /\ Commit(pub[t].ev)
    /\ pub' = [pub EXCEPT ![t].pc = "persisted"]
    /\ UNCHANGED <<phase, crashes, seen, late, queues, replay, history>>

\* Mutant of PersistFails: the False of persist is ignored, delivery goes on.
PersistFailsDelivers(t) ==
    /\ pub[t].pc = "persisting"
    /\ pub' = [pub EXCEPT ![t].pc = "enqueue", ![t].left = SubscriberSeq]
    /\ UNCHANGED <<phase, outbox, crashes, seen, late, queues, replay, history>>

(* persist returns False (the insert failed, or the connection is closed)  *)
(* and publish() returns without delivering.                               *)
PersistFails(t) ==
    /\ pub[t].pc = "persisting"
    /\ pub' = [pub EXCEPT ![t] = Idle]
    /\ UNCHANGED <<phase, outbox, crashes, seen, late, queues, replay, history>>

(* The answer reaches the coroutine: on to the subscribers, in a snapshot  *)
(* of the dict.                                                            *)
PersistReturns(t) ==
    /\ pub[t].pc = "persisted"
    /\ pub' = [pub EXCEPT ![t].pc = "enqueue", ![t].left = SubscriberSeq]
    /\ UNCHANGED <<phase, outbox, crashes, seen, late, queues, replay, history>>

(* publish() is abandoned while a thread works for it: a thread that has   *)
(* started runs on, one that has not is cancelled.                         *)
AbandonPersist(t) ==
    /\ \/ late' = late
       \/ pub[t].pc = "persisting" /\ late' = late \cup {pub[t].ev}
    /\ pub' = [pub EXCEPT ![t] = Idle]

\* Mutant of PersistTimesOut: a slow disk no longer stops the delivery.
PersistTimesOutDelivers(t) ==
    /\ pub[t].pc \in {"persisting", "persisted"}
    /\ pub' = [pub EXCEPT ![t].pc = "enqueue", ![t].left = SubscriberSeq]
    /\ late' = late \cup {pub[t].ev}
    /\ UNCHANGED <<phase, outbox, crashes, seen, queues, replay, history>>

PersistTimesOut(t) ==
    /\ pub[t].pc \in {"persisting", "persisted"}
    /\ AbandonPersist(t)
    /\ UNCHANGED <<phase, outbox, crashes, seen, queues, replay, history>>

LatePersist(a) ==
    /\ a \in late
    /\ late' = late \ {a}
    /\ \/ phase # "closed" /\ Commit(a)
       \/ UNCHANGED outbox
    /\ UNCHANGED <<phase, crashes, seen, queues, pub, replay, history>>

-----------------------------------------------------------------------------
(* publish() handing the alarm to the queues, then to the handlers.        *)

(* The receiver at the head of the list is done: the next one, or `next`.  *)
Advance(p, next) ==
    IF Len(p.left) > 1 THEN [p EXCEPT !.left = Tail(@)] ELSE next

ToHandlers(p) == [p EXCEPT !.pc = "handle", !.left = HandlerSeq]

EnqueueAlarm(t) ==
    LET p == pub[t]
        s == Head(p.left)
    IN  /\ p.pc = "enqueue"
        /\ Len(queues[s]) < MaxQueue
        /\ queues' = [queues EXCEPT ![s] = Append(@, p.ev)]
        /\ delivered' = delivered \cup {<<s, p.n>>}
        /\ pub' = [pub EXCEPT ![t] = Advance(p, ToHandlers(p))]
        /\ UNCHANGED <<phase, outbox, crashes, seen, late, replay,
                       recorded, erased, wiped>>

\* Mutant of EnqueueTimesOut: the put waits for room with no limit.
EnqueueTimesOutNever(t) ==
    /\ FALSE
    /\ UNCHANGED vars

(* One second without room: put_nowait fails and the alarm is dropped for  *)
(* this subscriber.                                                        *)
EnqueueTimesOut(t) ==
    LET p == pub[t]
    IN  /\ p.pc = "enqueue"
        /\ Len(queues[Head(p.left)]) = MaxQueue
        /\ pub' = [pub EXCEPT ![t] = Advance(p, ToHandlers(p))]
        /\ UNCHANGED <<phase, outbox, crashes, seen, late, queues, replay, history>>

(* A handler returns, runs into its 10 s limit, or raises and is called    *)
(* once more by a task of its own: on to the next one in every case.       *)
HandlerEnds(t) ==
    /\ pub[t].pc = "handle"
    /\ pub' = [pub EXCEPT ![t] = Advance(pub[t], Idle)]
    /\ UNCHANGED <<phase, outbox, crashes, seen, late, queues, replay, history>>

(* The task that awaits publish() is cancelled at whichever await it is.   *)
CancelPublish(t) ==
    /\ pub[t].pc # "idle"
    /\ pub[t].origin = "live"
    /\ AbandonPersist(t)
    /\ UNCHANGED <<phase, outbox, crashes, seen, queues, replay, history>>

Consume(s) ==
    /\ queues[s] # <<>>
    /\ queues' = [queues EXCEPT ![s] = Tail(@)]
    /\ UNCHANGED <<phase, outbox, crashes, seen, late, pub, replay, history>>

-----------------------------------------------------------------------------
(* replay_and_clear: select every row, publish them one by one, delete.    *)

ReplaySelect ==
    /\ phase = "up"
    /\ replay.pc = "idle"
    /\ replay' = [pc |-> "sending", rows |-> outbox]
    /\ UNCHANGED <<phase, outbox, crashes, seen, late, queues, pub, history>>

(* _sync_publish waits 2 s for the publish of the row before, longer than  *)
(* that publish can wait for its own persist.                              *)
PreviousRowDone ==
    \A t \in Tasks : pub[t].origin = "replay" => pub[t].pc \in {"enqueue", "handle"}

ReplayRow ==
    /\ replay.pc = "sending" /\ replay.rows # <<>>
    /\ PreviousRowDone
    /\ replay' = [replay EXCEPT !.rows = Tail(@)]
    /\ LET a == Head(replay.rows)
       IN  \/ \E t \in Tasks : BeginPublish(t, a, "replay")
           \/ /\ a \in Range(seen) \/ phase # "up"
              /\ UNCHANGED <<seen, recorded, pub>>
    /\ UNCHANGED <<phase, outbox, crashes, late, queues,
                   delivered, erased, wiped>>

(* DELETE FROM alarm_outbox: every row, those of the snapshot or not.  An  *)
(* error, which a closed connection always is, deletes nothing.            *)
ReplayClear ==
    /\ replay.pc = "sending" /\ replay.rows = <<>>
    /\ PreviousRowDone
    /\ replay' = NoReplay
    /\ \/ /\ phase # "closed"
          /\ outbox' = <<>>
          /\ erased' = erased \cup Range(outbox)
          /\ wiped' = wiped \cup Range(outbox)
       \/ UNCHANGED <<outbox, erased, wiped>>
    /\ UNCHANGED <<phase, crashes, seen, late, queues, pub, recorded, delivered>>

-----------------------------------------------------------------------------
(* shutdown() and the death of the process.                                *)

Shutdown ==
    /\ phase = "up"
    /\ phase' = "stopping"
    /\ UNCHANGED <<outbox, crashes, seen, late, queues, pub, replay, history>>

CloseOutbox ==
    /\ phase = "stopping"
    /\ phase' = "closed"
    /\ UNCHANGED <<outbox, crashes, volatile, history>>

Die ==
    /\ phase # "down"
    /\ crashes < MaxCrashes
    /\ phase' = "down"
    /\ crashes' = crashes + 1
    /\ seen' = <<>> /\ late' = {} /\ replay' = NoReplay
    /\ queues' = [s \in Subscribers |-> <<>>]
    /\ pub' = [t \in Tasks |-> Idle]
    /\ recorded' = <<>> /\ delivered' = {} /\ wiped' = {}
    /\ UNCHANGED <<outbox, erased>>

(* bootstrap: the subscribers are ready before the first replay runs.      *)
Restart ==
    /\ phase = "down"
    /\ phase' = "up"
    /\ UNCHANGED <<outbox, crashes, volatile, history>>

-----------------------------------------------------------------------------
TaskStep(t) ==
    \/ PersistCommits(t) \/ PersistFails(t) \/ PersistReturns(t) \/ PersistTimesOut(t)
    \/ EnqueueAlarm(t) \/ EnqueueTimesOut(t)
    \/ HandlerEnds(t)

ReplayStep == ReplayRow \/ ReplayClear

Next ==
    \/ \E t \in Tasks, a \in Alarms : Publish(t, a)
    \/ \E d \in Data : PublishData(d)
    \/ \E t \in Tasks : TaskStep(t) \/ CancelPublish(t)
    \/ \E a \in Alarms : LatePersist(a)
    \/ \E s \in Subscribers : Consume(s)
    \/ ReplaySelect \/ ReplayStep
    \/ Shutdown \/ CloseOutbox \/ Die \/ Restart

Spec == Init /\ [][Next]_vars

(* Every wait of a publish is bounded by a timer (0.5 s, 1 s and 10 s), so *)
(* it takes its next step whatever the subscribers do.  Nothing says that  *)
(* a subscriber ever reads its queue, that anybody publishes, or that the  *)
(* process stays up.                                                       *)
FairSpec == Spec /\ \A t \in Tasks : WF_vars(TaskStep(t))

-----------------------------------------------------------------------------
(* An alarm id is let through the dedup cache twice in one process life    *)
(* only if at least MaxDedup other ids went through in between: the cache  *)
(* holds the whole window and evicts oldest first, however the publishes   *)
(* of live tasks, replays and abandoned persists interleave.               *)
DedupWindow ==
    \A i, j \in DOMAIN recorded :
        i < j /\ recorded[i] = recorded[j] => j - i > MaxDedup

AlarmsInHand ==
    {pub[t].ev : t \in {u \in Tasks : pub[u].pc \in {"persisted", "enqueue", "handle"}}}
    \cup UNION {Range(queues[s]) \cap Alarms : s \in Subscribers}

(* Persist first, deliver afterwards: an alarm that is on its way to the   *)
(* subscribers, or waits in a queue for one of them, has a row in the      *)
(* outbox, so that a crash now does not lose it -- unless a replay of this *)
(* process has deleted that row.                                           *)
CrashSafe == AlarmsInHand \subseteq Range(outbox) \cup wiped

(* publish() always comes to an end, even when no subscriber ever reads.   *)
PublishTerminates == \A t \in Tasks : pub[t].pc # "idle" ~> pub[t].pc = "idle"

(* The abstract promise this module implements: an alarm reaches a         *)
(* subscriber only after a commit, and what is committed stays, crash or   *)
(* not, until a replay deletes it.                                         *)
Abstract == INSTANCE WriteAhead WITH
    Receivers <- Subscribers,
    stored    <- Range(outbox) \cup erased,
    got       <- {<<d[1], recorded[d[2]]>> : d \in delivered}
WriteAheadSpec == Abstract!Spec

Delivered == {recorded[d[2]] : d \in delivered}
Publishing == {pub[t].ev : t \in Tasks}

(* What the periodic replay is for (start_periodic_replay): an event that  *)
(* reached the outbox without being delivered is made up for by the next   *)
(* replay.  So a replay in a running process never deletes the row of an   *)
(* alarm that nobody got and nobody is publishing.                         *)
ReplayMakesUp ==
    [][phase = "up" => Range(outbox) \ Range(outbox') \subseteq Delivered \cup Publishing]_vars
=============================================================================
