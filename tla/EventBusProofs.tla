--------------------------- MODULE EventBusProofs ---------------------------
(***************************************************************************)
(* Theorems about EventBus, for every number of alarms, subscribers, tasks *)
(* and crashes and for every queue and dedup cache size.                   *)
(***************************************************************************)
EXTENDS EventBus, TLAPS

(* What Append and Tail do to the elements of a sequence.                  *)
LEMMA AppendElements ==
    ASSUME NEW S, NEW s \in Seq(S), NEW x \in S
    PROVE  /\ Append(s, x) \in Seq(S)
           /\ Len(Append(s, x)) = Len(s) + 1
           /\ Range(Append(s, x)) = Range(s) \cup {x}
<1>1. Append(s, x) \in Seq(S) /\ Len(Append(s, x)) = Len(s) + 1
  OBVIOUS
<1>2. Range(Append(s, x)) \subseteq Range(s) \cup {x}
  BY DEF Range
<1>3. Range(s) \cup {x} \subseteq Range(Append(s, x))
  <2>1. ASSUME NEW i \in DOMAIN s PROVE i \in DOMAIN Append(s, x) /\ Append(s, x)[i] = s[i]
    BY <2>1
  <2>2. Len(s) + 1 \in DOMAIN Append(s, x) /\ Append(s, x)[Len(s) + 1] = x
    OBVIOUS
  <2> QED
    BY <2>1, <2>2 DEF Range
<1> QED
  BY <1>1, <1>2, <1>3

LEMMA TailElements ==
    ASSUME NEW S, NEW s \in Seq(S), s # <<>>
    PROVE  /\ Head(s) \in S
           /\ Head(s) \in Range(s)
           /\ Tail(s) \in Seq(S)
           /\ Len(Tail(s)) = Len(s) - 1
           /\ \A i \in 1..Len(Tail(s)) : Tail(s)[i] = s[i + 1]
           /\ Range(Tail(s)) \subseteq Range(s)
<1>1. Len(s) \in Nat /\ Len(s) > 0 /\ DOMAIN s = 1..Len(s)
  OBVIOUS
<1>2. Head(s) = s[1] /\ 1 \in DOMAIN s
  BY <1>1
<1>3. /\ Tail(s) \in Seq(S)
      /\ Len(Tail(s)) = Len(s) - 1
      /\ \A i \in 1..Len(Tail(s)) : Tail(s)[i] = s[i + 1]
  BY <1>1
<1>4. ASSUME NEW i \in DOMAIN Tail(s) PROVE Tail(s)[i] \in Range(s)
  <2>1. i \in 1..Len(Tail(s)) /\ i + 1 \in DOMAIN s
    BY <1>1, <1>3
  <2> QED
    BY <2>1, <1>3 DEF Range
<1> QED
  BY <1>1, <1>2, <1>3, <1>4 DEF Range

LEMMA LongTail ==
    ASSUME NEW S, NEW s \in Seq(S), Len(s) > 1
    PROVE  Tail(s) \in Seq(S) /\ Tail(s) # <<>>
<1>1. Len(s) \in Nat /\ s # <<>>
  OBVIOUS
<1>2. Tail(s) \in Seq(S) /\ Len(Tail(s)) = Len(s) - 1
  BY <1>1, TailElements
<1>3. Len(Tail(s)) # 0
  BY <1>1, <1>2
<1>4. Len(<<>>) = 0
  OBVIOUS
<1> QED
  BY <1>2, <1>3, <1>4, Zenon

LEMMA RangeType ==
    ASSUME NEW S, NEW s \in Seq(S)
    PROVE  Range(s) \subseteq S
BY DEF Range

-----------------------------------------------------------------------------
LEMMA ConstantsType ==
    /\ MaxQueue \in Nat \ {0} /\ MaxDedup \in Nat \ {0}
    /\ SubscriberSeq \in Seq(Subscribers) /\ SubscriberSeq # <<>>
    /\ HandlerSeq \in Seq(Handlers) /\ HandlerSeq # <<>>
BY SizesAssumption, NamesAssumption

(* What TypeOK says of one task. *)
LEMMA TaskType ==
    ASSUME TypeOK, NEW t \in Tasks
    PROVE  /\ pub[t].pc \in PubPc
           /\ pub[t].n \in Nat
           /\ pub[t].ev \in Alarms \cup {None}
           /\ pub[t].origin \in {"live", "replay"}
           /\ pub[t].pc # "idle" => pub[t].ev \in Alarms
           /\ pub[t].pc = "enqueue" => pub[t].left \in Seq(Subscribers) \ {<<>>}
           /\ pub[t].pc = "handle" => pub[t].left \in Seq(Handlers) \ {<<>>}
BY DEF TypeOK

(* A task that enters state r keeps pub well typed. *)
TaskRecord == [pc : PubPc, ev : Alarms \cup {None}, n : Nat,
               left : Seq(Subscribers) \cup Seq(Handlers), origin : {"live", "replay"}]

GoodTask(r) ==
    /\ r \in TaskRecord
    /\ r.pc # "idle" => r.ev \in Alarms
    /\ r.pc = "enqueue" => r.left \in Seq(Subscribers) \ {<<>>}
    /\ r.pc = "handle" => r.left \in Seq(Handlers) \ {<<>>}

PubOK == pub \in [Tasks -> TaskRecord] /\ \A t \in Tasks : GoodTask(pub[t])

LEMMA IdleIsGood == GoodTask(Idle)
BY DEF GoodTask, TaskRecord, Idle, PubPc

LEMMA PubUpdate ==
    ASSUME TypeOK, NEW t \in Tasks, NEW r, GoodTask(r), pub' = [pub EXCEPT ![t] = r]
    PROVE  PubOK'
BY DEF TypeOK, PubOK, GoodTask, TaskRecord

LEMMA PubSame ==
    ASSUME TypeOK, pub' = pub
    PROVE  PubOK'
BY DEF TypeOK, PubOK, GoodTask, TaskRecord

LEMMA DedupType ==
    ASSUME TypeOK, NEW a \in Alarms
    PROVE  /\ Remember(a) \in Seq(Alarms)
           /\ Append(recorded, a) \in Seq(Alarms)
<1>1. Append(seen, a) \in Seq(Alarms) /\ Append(seen, a) # <<>>
  <2>1. seen \in Seq(Alarms) /\ Len(seen) \in Nat
    BY DEF TypeOK
  <2>2. Append(seen, a) \in Seq(Alarms) /\ Len(Append(seen, a)) = Len(seen) + 1
    BY <2>1, AppendElements
  <2>3. Len(Append(seen, a)) # 0 /\ Len(<<>>) = 0
    BY <2>1, <2>2
  <2> QED
    BY <2>2, <2>3, Zenon
<1>2. Tail(Append(seen, a)) \in Seq(Alarms)
  BY <1>1, TailElements
<1> QED
  BY <1>1, <1>2 DEF TypeOK, Remember

LEMMA BeginPublishType ==
    ASSUME TypeOK, NEW t \in Tasks, NEW a \in Alarms, NEW o \in {"live", "replay"},
           BeginPublish(t, a, o)
    PROVE  PubOK' /\ seen' \in Seq(Alarms) /\ recorded' \in Seq(Alarms)
<1> DEFINE r == [pc |-> "persisting", ev |-> a, n |-> Len(recorded) + 1,
                 left |-> <<>>, origin |-> o]
<1>1. GoodTask(r)
  BY DEF GoodTask, TaskRecord, PubPc, TypeOK
<1>2. pub' = [pub EXCEPT ![t] = r]
  BY DEF BeginPublish
<1>3. PubOK'
  BY <1>1, <1>2, PubUpdate
<1> QED
  BY <1>3, DedupType DEF BeginPublish

LEMMA AdvanceType ==
    ASSUME TypeOK, NEW t \in Tasks, pub[t].pc \in {"enqueue", "handle"},
           NEW next, GoodTask(next)
    PROVE  GoodTask(Advance(pub[t], next))
<1>1. CASE Len(pub[t].left) > 1
  <2> DEFINE r == [pub[t] EXCEPT !.left = Tail(@)]
  <2>1. Advance(pub[t], next) = r
    BY <1>1 DEF Advance
  <2>2. CASE pub[t].pc = "enqueue"
    <3>1. Tail(pub[t].left) \in Seq(Subscribers) /\ Tail(pub[t].left) # <<>>
      BY <2>2, <1>1, TaskType, LongTail
    <3> QED
      BY <2>1, <2>2, <3>1 DEF GoodTask, TaskRecord, TypeOK
  <2>3. CASE pub[t].pc = "handle"
    <3>1. Tail(pub[t].left) \in Seq(Handlers) /\ Tail(pub[t].left) # <<>>
      BY <2>3, <1>1, TaskType, LongTail
    <3> QED
      BY <2>1, <2>3, <3>1 DEF GoodTask, TaskRecord, TypeOK
  <2> QED
    BY <2>2, <2>3
<1>2. CASE ~(Len(pub[t].left) > 1)
  BY <1>2 DEF Advance
<1> QED
  BY <1>1, <1>2

(* From the last subscriber to the first handler. *)
LEMMA ToHandlersType ==
    ASSUME TypeOK, NEW t \in Tasks, pub[t].pc = "enqueue"
    PROVE  GoodTask(ToHandlers(pub[t]))
BY TaskType, ConstantsType DEF TypeOK, GoodTask, TaskRecord, PubPc, ToHandlers

-----------------------------------------------------------------------------
(* The rest of TypeOK, once pub is known to be well typed. *)
RestOK ==
    /\ phase \in {"up", "stopping", "closed", "down"}
    /\ seen \in Seq(Alarms)
    /\ outbox \in Seq(Alarms)
    /\ late \subseteq Alarms
    /\ queues \in [Subscribers -> Seq(Alarms \cup Data)]
    /\ replay \in [pc : {"idle", "sending"}, rows : Seq(Alarms)]
    /\ crashes \in Nat
    /\ recorded \in Seq(Alarms)
    /\ delivered \subseteq Subscribers \X Nat
    /\ erased \subseteq Alarms
    /\ wiped \subseteq Alarms
    /\ \A s \in Subscribers : Len(queues[s]) <= MaxQueue

LEMMA TypeParts == TypeOK <=> RestOK /\ PubOK
BY DEF TypeOK, RestOK, PubOK, GoodTask, TaskRecord

LEMMA TypePartsPrime == TypeOK' <=> RestOK' /\ PubOK'
BY DEF TypeOK, RestOK, PubOK, GoodTask, TaskRecord

LEMMA TaskStepType ==
    ASSUME TypeOK, NEW t \in Tasks, TaskStep(t) \/ CancelPublish(t)
    PROVE  TypeOK'
<1> USE TypeParts, TypePartsPrime
<1>1. CASE PersistCommits(t)
  <2> DEFINE r == [pub[t] EXCEPT !.pc = "persisted"]
  <2>1. pub[t].ev \in Alarms /\ GoodTask(r)
    BY <1>1, TaskType DEF PersistCommits, TypeOK, GoodTask, TaskRecord, PubPc
  <2>2. PubOK'
    BY <1>1, <2>1, PubUpdate DEF PersistCommits
  <2> QED
    BY <1>1, <2>1, <2>2 DEF PersistCommits, Commit, RestOK, history
<1>2. CASE PersistFails(t)
  <2>1. PubOK'
    BY <1>2, IdleIsGood, PubUpdate DEF PersistFails
  <2> QED
    BY <1>2, <2>1 DEF PersistFails, RestOK, history
<1>3. CASE PersistReturns(t)
  <2> DEFINE r == [pub[t] EXCEPT !.pc = "enqueue", !.left = SubscriberSeq]
  <2>1. GoodTask(r)
    BY <1>3, TaskType, ConstantsType DEF PersistReturns, TypeOK, GoodTask, TaskRecord, PubPc
  <2>2. pub' = [pub EXCEPT ![t] = r]
    BY <1>3 DEF PersistReturns, TypeOK
  <2>3. PubOK'
    BY <2>1, <2>2, PubUpdate
  <2> QED
    BY <1>3, <2>3 DEF PersistReturns, RestOK, history
<1>4. CASE PersistTimesOut(t) \/ CancelPublish(t)
  <2>1. AbandonPersist(t) /\ pub' = [pub EXCEPT ![t] = Idle]
    BY <1>4 DEF PersistTimesOut, CancelPublish, AbandonPersist
  <2>2. PubOK'
    BY <2>1, IdleIsGood, PubUpdate
  <2>3. late' \subseteq Alarms
    BY <2>1, TaskType DEF AbandonPersist, TypeOK
  <2> QED
    BY <1>4, <2>2, <2>3 DEF PersistTimesOut, CancelPublish, RestOK, history
<1>5. CASE EnqueueAlarm(t)
  <2> DEFINE s == Head(pub[t].left)
             r == ToHandlers(pub[t])
  <2>1. s \in Subscribers /\ pub[t].ev \in Alarms /\ pub[t].n \in Nat
    BY <1>5, TaskType, TailElements DEF EnqueueAlarm
  <2>2. pub' = [pub EXCEPT ![t] = Advance(pub[t], r)]
    BY <1>5 DEF EnqueueAlarm
  <2>3. GoodTask(Advance(pub[t], r))
    BY <1>5, ToHandlersType, AdvanceType DEF EnqueueAlarm
  <2>4. PubOK'
    BY <2>2, <2>3, PubUpdate
  <2>5. queues[s] \in Seq(Alarms \cup Data) /\ Len(queues[s]) < MaxQueue
    BY <1>5, <2>1 DEF EnqueueAlarm, RestOK
  <2>6. /\ Append(queues[s], pub[t].ev) \in Seq(Alarms \cup Data)
        /\ Len(Append(queues[s], pub[t].ev)) <= MaxQueue
    BY <2>1, <2>5, AppendElements, ConstantsType
  <2>7. queues' = [queues EXCEPT ![s] = Append(queues[s], pub[t].ev)]
    BY <1>5 DEF EnqueueAlarm
  <2>8. /\ queues' \in [Subscribers -> Seq(Alarms \cup Data)]
        /\ \A u \in Subscribers : Len(queues'[u]) <= MaxQueue
    BY <2>1, <2>6, <2>7 DEF RestOK
  <2>9. delivered' \subseteq Subscribers \X Nat
    BY <1>5, <2>1 DEF EnqueueAlarm, RestOK
  <2> QED
    BY <1>5, <2>4, <2>8, <2>9 DEF EnqueueAlarm, RestOK
<1>6. CASE EnqueueTimesOut(t)
  <2> DEFINE r == ToHandlers(pub[t])
  <2>1. pub' = [pub EXCEPT ![t] = Advance(pub[t], r)]
    BY <1>6 DEF EnqueueTimesOut
  <2>2. GoodTask(Advance(pub[t], r))
    BY <1>6, ToHandlersType, AdvanceType DEF EnqueueTimesOut
  <2>3. PubOK'
    BY <2>1, <2>2, PubUpdate
  <2> QED
    BY <1>6, <2>3 DEF EnqueueTimesOut, RestOK, history
<1>7. CASE HandlerEnds(t)
  <2>1. GoodTask(Advance(pub[t], Idle))
    BY <1>7, IdleIsGood, AdvanceType DEF HandlerEnds
  <2>2. PubOK'
    BY <1>7, <2>1, PubUpdate DEF HandlerEnds
  <2> QED
    BY <1>7, <2>2 DEF HandlerEnds, RestOK, history
<1> QED
  BY <1>1, <1>2, <1>3, <1>4, <1>5, <1>6, <1>7 DEF TaskStep

LEMMA DataType ==
    ASSUME TypeOK, NEW d \in Data, PublishData(d)
    PROVE  TypeOK'
<1> USE TypeParts, TypePartsPrime
<1> DEFINE room(s) == IF Len(queues[s]) < MaxQueue THEN queues[s] ELSE Tail(queues[s])
<1>1. ASSUME NEW s \in Subscribers
      PROVE  /\ Append(room(s), d) \in Seq(Alarms \cup Data)
             /\ Len(Append(room(s), d)) <= MaxQueue
  <2>1. queues[s] \in Seq(Alarms \cup Data) /\ Len(queues[s]) <= MaxQueue
    BY DEF RestOK
  <2>2. Len(queues[s]) \in Nat /\ MaxQueue \in Nat /\ MaxQueue > 0 /\ Len(<<>>) = 0
    BY <2>1, ConstantsType
  <2>3. room(s) \in Seq(Alarms \cup Data) /\ Len(room(s)) < MaxQueue
    <3>1. CASE Len(queues[s]) < MaxQueue
      BY <3>1, <2>1
    <3>2. CASE ~(Len(queues[s]) < MaxQueue)
      <4>1. queues[s] # <<>>
        BY <3>2, <2>1, <2>2
      <4> QED
        BY <4>1, <3>2, <2>1, <2>2, TailElements
    <3> QED
      BY <3>1, <3>2
  <2> HIDE DEF room
  <2> QED
    BY <2>2, <2>3, AppendElements
<1>2. queues' = [s \in Subscribers |->
                   IF s \in Range(SubscriberSeq) THEN Append(room(s), d) ELSE queues[s]]
  BY DEF PublishData
<1>3. /\ queues' \in [Subscribers -> Seq(Alarms \cup Data)]
      /\ \A s \in Subscribers : Len(queues'[s]) <= MaxQueue
  <2> HIDE DEF room
  <2> QED
    BY <1>1, <1>2 DEF RestOK
<1>4. PubOK'
  BY PubSame DEF PublishData
<1> QED
  BY <1>3, <1>4 DEF PublishData, RestOK, history

(* Every reachable state of EventBus is well typed, and no subscriber      *)
(* queue ever holds more than MaxQueue events.                             *)
THEOREM TypeCorrect == Spec => []TypeOK
<1>1. Init => TypeOK
  <2> SUFFICES ASSUME Init PROVE TypeOK
    OBVIOUS
  <2>1. PubOK
    BY IdleIsGood DEF Init, PubOK, GoodTask
  <2>2. RestOK
    BY ConstantsType DEF Init, RestOK, NoReplay
  <2> QED
    BY <2>1, <2>2, TypeParts
<1>2. TypeOK /\ [Next]_vars => TypeOK'
  <2> SUFFICES ASSUME TypeOK, [Next]_vars PROVE TypeOK'
    OBVIOUS
  <2> USE TypeParts, TypePartsPrime
  <2>1. ASSUME NEW t \in Tasks, NEW a \in Alarms, Publish(t, a) PROVE TypeOK'
    BY <2>1, BeginPublishType DEF Publish, RestOK
  <2>2. ASSUME NEW d \in Data, PublishData(d) PROVE TypeOK'
    BY <2>2, DataType
  <2>3. ASSUME NEW t \in Tasks, TaskStep(t) \/ CancelPublish(t) PROVE TypeOK'
    BY <2>3, TaskStepType
  <2>4. ASSUME NEW a \in Alarms, LatePersist(a) PROVE TypeOK'
    <3>1. PubOK'
      BY <2>4, PubSame DEF LatePersist
    <3>2. outbox' \in Seq(Alarms)
      <4>1. outbox \in Seq(Alarms)
        BY DEF TypeOK
      <4>2. Append(outbox, a) \in Seq(Alarms)
        BY <4>1
      <4> QED
        BY <2>4, <4>1, <4>2 DEF LatePersist, Commit
    <3> QED
      BY <2>4, <3>1, <3>2 DEF LatePersist, RestOK, history
  <2>5. ASSUME NEW s \in Subscribers, Consume(s) PROVE TypeOK'
    <3>1. PubOK'
      BY <2>5, PubSame DEF Consume
    <3>2. /\ Tail(queues[s]) \in Seq(Alarms \cup Data)
          /\ Len(Tail(queues[s])) <= MaxQueue
      <4>1. /\ queues[s] \in Seq(Alarms \cup Data) /\ queues[s] # <<>>
            /\ Len(queues[s]) \in Nat /\ Len(queues[s]) <= MaxQueue
        BY <2>5 DEF Consume, RestOK
      <4> QED
        BY <4>1, TailElements, ConstantsType
    <3> QED
      BY <2>5, <3>1, <3>2 DEF Consume, RestOK, history
  <2>6. CASE ReplaySelect
    <3>1. PubOK'
      BY <2>6, PubSame DEF ReplaySelect
    <3> QED
      BY <2>6, <3>1 DEF ReplaySelect, RestOK, history
  <2>7. CASE ReplayRow
    <3>1. /\ replay.rows \in Seq(Alarms) /\ replay.rows # <<>>
          /\ Head(replay.rows) \in Alarms /\ Tail(replay.rows) \in Seq(Alarms)
      BY <2>7, TailElements DEF ReplayRow, RestOK
    <3>2. PubOK' /\ seen' \in Seq(Alarms) /\ recorded' \in Seq(Alarms)
      <4>1. CASE \E t \in Tasks : BeginPublish(t, Head(replay.rows), "replay")
        BY <3>1, <4>1, BeginPublishType
      <4>2. CASE UNCHANGED <<seen, recorded, pub>>
        BY <4>2, PubSame DEF RestOK
      <4> QED
        BY <2>7, <4>1, <4>2 DEF ReplayRow
    <3>3. replay' \in [pc : {"idle", "sending"}, rows : Seq(Alarms)]
      BY <2>7, <3>1 DEF ReplayRow, RestOK
    <3> QED
      BY <2>7, <3>2, <3>3 DEF ReplayRow, RestOK
  <2>8. CASE ReplayClear
    <3>1. PubOK'
      BY <2>8, PubSame DEF ReplayClear
    <3>2. Range(outbox) \subseteq Alarms
      BY RangeType DEF RestOK
    <3> QED
      BY <2>8, <3>1, <3>2 DEF ReplayClear, NoReplay, RestOK
  <2>9. CASE Shutdown \/ CloseOutbox \/ Restart
    <3>1. PubOK'
      BY <2>9, PubSame DEF Shutdown, CloseOutbox, Restart, volatile
    <3> QED
      BY <2>9, <3>1 DEF Shutdown, CloseOutbox, Restart, volatile, history, RestOK
  <2>10. CASE Die
    <3>1. PubOK'
      BY <2>10, IdleIsGood DEF Die, PubOK, GoodTask
    <3> QED
      BY <2>10, <3>1, ConstantsType DEF Die, NoReplay, RestOK
  <2>11. CASE UNCHANGED vars
    <3>1. PubOK'
      BY <2>11, PubSame DEF vars, volatile
    <3> QED
      BY <2>11, <3>1 DEF vars, volatile, history, RestOK
  <2> QED
    BY <2>1, <2>2, <2>3, <2>4, <2>5, <2>6, <2>7, <2>8, <2>9, <2>10, <2>11
    DEF Next, ReplayStep
<1> QED
  BY <1>1, <1>2, PTL DEF Spec

-----------------------------------------------------------------------------
(* The dedup cache is the most recent part of the list of recorded ids: as *)
(* long as MaxDedup, or the whole list.                                    *)
CacheIsWindow ==
    /\ Len(seen) <= MaxDedup
    /\ Len(seen) <= Len(recorded)
    /\ Len(seen) = Len(recorded) \/ Len(seen) = MaxDedup
    /\ \A i \in 1..Len(seen) : seen[i] = recorded[Len(recorded) - Len(seen) + i]

DedupInv == TypeOK /\ CacheIsWindow /\ DedupWindow

(* A step leaves cache and list alone, records one more id, or starts      *)
(* the process afresh.                                                     *)
LEMMA DedupSteps ==
    ASSUME TypeOK, [Next]_vars
    PROVE  \/ UNCHANGED <<seen, recorded>>
           \/ \E a \in Alarms : /\ a \notin Range(seen)
                               /\ seen' = Remember(a)
                               /\ recorded' = Append(recorded, a)
           \/ seen' = <<>> /\ recorded' = <<>>
<1>1. ASSUME NEW t \in Tasks, NEW a \in Alarms, Publish(t, a)
      PROVE  a \notin Range(seen) /\ seen' = Remember(a) /\ recorded' = Append(recorded, a)
  BY <1>1 DEF Publish, BeginPublish
<1>2. ASSUME NEW t \in Tasks, TaskStep(t) \/ CancelPublish(t)
      PROVE  UNCHANGED <<seen, recorded>>
  BY <1>2 DEF TaskStep, PersistCommits, PersistFails, PersistReturns, PersistTimesOut,
              EnqueueAlarm, EnqueueTimesOut, HandlerEnds, CancelPublish, history
<1>3. ASSUME NEW d \in Data, PublishData(d) PROVE UNCHANGED <<seen, recorded>>
  BY <1>3 DEF PublishData, history
<1>4. ASSUME NEW a \in Alarms, LatePersist(a) PROVE UNCHANGED <<seen, recorded>>
  BY <1>4 DEF LatePersist, history
<1>5. ASSUME NEW s \in Subscribers, Consume(s) PROVE UNCHANGED <<seen, recorded>>
  BY <1>5 DEF Consume, history
<1>6. CASE ReplaySelect \/ ReplayClear \/ Shutdown \/ CloseOutbox \/ Restart
  BY <1>6 DEF ReplaySelect, ReplayClear, Shutdown, CloseOutbox, Restart, volatile, history
<1>7. CASE ReplayRow
  <2>1. CASE \E t \in Tasks : BeginPublish(t, Head(replay.rows), "replay")
    <3>1. Head(replay.rows) \in Alarms
      BY <1>7, TailElements DEF ReplayRow, TypeOK
    <3> QED
      BY <2>1, <3>1 DEF BeginPublish
  <2>2. CASE UNCHANGED <<seen, recorded, pub>>
    BY <2>2
  <2> QED
    BY <1>7, <2>1, <2>2 DEF ReplayRow
<1>8. CASE Die
  BY <1>8 DEF Die
<1>9. CASE UNCHANGED vars
  BY <1>9 DEF vars, volatile, history
<1> QED
  BY <1>1, <1>2, <1>3, <1>4, <1>5, <1>6, <1>7, <1>8, <1>9 DEF Next, ReplayStep

(* Recording an id the cache does not hold moves the window by one.        *)
LEMMA WindowMoves ==
    ASSUME DedupInv, NEW a \in Alarms, a \notin Range(seen),
           seen' = Remember(a), recorded' = Append(recorded, a)
    PROVE  CacheIsWindow' /\ DedupWindow'
<1> DEFINE N == Len(recorded)
           k == Len(seen)
           g == Append(seen, a)
<1>1. /\ seen \in Seq(Alarms) /\ recorded \in Seq(Alarms)
      /\ N \in Nat /\ k \in Nat /\ MaxDedup \in Nat /\ MaxDedup > 0
  BY ConstantsType DEF DedupInv, TypeOK
<1>2. /\ Len(recorded') = N + 1
      /\ recorded'[N + 1] = a
      /\ \A i \in 1..N : recorded'[i] = recorded[i]
      /\ DOMAIN recorded' = 1..(N + 1)
  BY <1>1
<1>3. /\ g \in Seq(Alarms) /\ g # <<>> /\ Len(g) = k + 1
      /\ g[k + 1] = a
      /\ \A i \in 1..k : g[i] = seen[i]
  <2>1. g \in Seq(Alarms) /\ Len(g) = k + 1 /\ Len(<<>>) = 0
    BY <1>1
  <2>2. g # <<>>
    BY <1>1, <2>1
  <2> QED
    BY <1>1, <2>1, <2>2
<1>4. CacheIsWindow'
  <2>1. CASE k + 1 > MaxDedup
    <3>1. seen' = Tail(g) /\ k = MaxDedup
      BY <2>1, <1>1, <1>3 DEF Remember, DedupInv, CacheIsWindow
    <3>2. Len(seen') = k /\ \A i \in 1..k : seen'[i] = g[i + 1]
      BY <3>1, <1>1, <1>3, TailElements
    <3>3. ASSUME NEW i \in 1..k PROVE seen'[i] = recorded'[(N + 1) - k + i]
      <4>1. CASE i = k
        BY <4>1, <3>2, <1>1, <1>2, <1>3
      <4>2. CASE i < k
        <5>1. i + 1 \in 1..k /\ seen'[i] = seen[i + 1]
          BY <4>2, <3>2, <1>1, <1>3
        <5>2. seen[i + 1] = recorded[N - k + (i + 1)] /\ N - k + (i + 1) \in 1..N
          BY <5>1, <1>1 DEF DedupInv, CacheIsWindow
        <5> QED
          BY <5>1, <5>2, <1>1, <1>2
      <4>3. i = k \/ i < k
        BY <1>1
      <4> QED
        BY <4>1, <4>2, <4>3, Zenon
    <3>4. /\ Len(seen') <= MaxDedup /\ Len(seen') <= Len(recorded')
          /\ Len(seen') = MaxDedup
      BY <3>1, <3>2, <1>1, <1>2 DEF DedupInv, CacheIsWindow
    <3>5. Len(seen') = k /\ Len(recorded') = N + 1
      BY <3>2, <1>2
    <3> QED
      BY <3>3, <3>4, <3>5, Zenon DEF CacheIsWindow
  <2>2. CASE ~(k + 1 > MaxDedup)
    <3>1. seen' = g /\ k = N
      BY <2>2, <1>1, <1>3 DEF Remember, DedupInv, CacheIsWindow
    <3>2. \A i \in 1..k : seen[i] = recorded[i]
      BY <3>1, <1>1 DEF DedupInv, CacheIsWindow
    <3>3. ASSUME NEW i \in 1..(k + 1) PROVE seen'[i] = recorded'[i]
      <4>1. CASE i = k + 1
        BY <4>1, <3>1, <1>2, <1>3
      <4>2. CASE i \in 1..k
        BY <4>2, <3>1, <3>2, <1>2, <1>3
      <4>3. i = k + 1 \/ i \in 1..k
        BY <1>1
      <4> QED
        BY <4>1, <4>2, <4>3, Zenon
    <3>4. Len(seen') = N + 1
      BY <3>1, <1>3
    <3> QED
      BY <3>1, <3>3, <3>4, <2>2, <1>1, <1>2 DEF CacheIsWindow
  <2> QED
    BY <2>1, <2>2
<1>5. DedupWindow'
  <2> SUFFICES ASSUME NEW i \in 1..(N + 1), NEW j \in 1..(N + 1),
                      i < j, recorded'[i] = recorded'[j]
               PROVE  j - i > MaxDedup
    BY <1>2 DEF DedupWindow
  <2>1. CASE j \in 1..N
    <3>1. i \in 1..N /\ DOMAIN recorded = 1..N
      BY <2>1, <1>1
    <3> QED
      BY <2>1, <3>1, <1>1, <1>2 DEF DedupInv, DedupWindow
  <2>2. CASE j = N + 1
    <3>1. i \in 1..N /\ recorded[i] = a
      BY <2>2, <1>1, <1>2
    <3>2. ~(i > N - k)
      <4>1. SUFFICES ASSUME i > N - k PROVE FALSE
        OBVIOUS
      <4>2. i - (N - k) \in 1..k /\ DOMAIN seen = 1..k
        BY <4>1, <3>1, <1>1 DEF DedupInv, CacheIsWindow
      <4>3. seen[i - (N - k)] = recorded[N - k + (i - (N - k))]
        BY <4>2 DEF DedupInv, CacheIsWindow
      <4>4. N - k + (i - (N - k)) = i
        BY <3>1, <1>1
      <4>5. a \in Range(seen)
        BY <4>2, <4>3, <4>4, <3>1 DEF Range
      <4> QED
        BY <4>5
    <3>3. k = N \/ k = MaxDedup
      BY DEF DedupInv, CacheIsWindow
    <3> QED
      BY <2>2, <3>1, <3>2, <3>3, <1>1
  <2>3. j \in 1..N \/ j = N + 1
    BY <1>1
  <2> QED
    BY <2>1, <2>2, <2>3, Zenon
<1> QED
  BY <1>4, <1>5

(* No alarm id passes the dedup cache twice within MaxDedup recordings.    *)
THEOREM DedupWindowHolds == Spec => []DedupWindow
<1>1. Init => CacheIsWindow /\ DedupWindow
  BY ConstantsType DEF Init, CacheIsWindow, DedupWindow
<1>2. TypeOK /\ TypeOK' /\ CacheIsWindow /\ DedupWindow /\ [Next]_vars
      => CacheIsWindow' /\ DedupWindow'
  <2> SUFFICES ASSUME TypeOK, CacheIsWindow, DedupWindow, [Next]_vars
               PROVE  CacheIsWindow' /\ DedupWindow'
    OBVIOUS
  <2>1. CASE UNCHANGED <<seen, recorded>>
    BY <2>1 DEF CacheIsWindow, DedupWindow
  <2>2. CASE \E a \in Alarms : /\ a \notin Range(seen)
                             /\ seen' = Remember(a)
                             /\ recorded' = Append(recorded, a)
    BY <2>2, WindowMoves DEF DedupInv
  <2>3. CASE seen' = <<>> /\ recorded' = <<>>
    BY <2>3, ConstantsType DEF CacheIsWindow, DedupWindow
  <2> QED
    BY <2>1, <2>2, <2>3, DedupSteps
<1> QED
  BY <1>1, <1>2, TypeCorrect, PTL DEF Spec

-----------------------------------------------------------------------------
(* The two ways a set of events in hand can be bounded by a set of rows X: *)
(* alarms a task carries past its persist, and alarms a queue holds.       *)
Carried(X) == \A t \in Tasks : pub[t].pc \in {"persisted", "enqueue", "handle"} => pub[t].ev \in X
Queued(X)  == \A s \in Subscribers : Range(queues[s]) \cap Alarms \subseteq X

LEMMA InHandParts == CrashSafe <=> Carried(Range(outbox) \cup wiped) /\ Queued(Range(outbox) \cup wiped)
BY DEF CrashSafe, AlarmsInHand, Carried, Queued

LEMMA InHandPartsPrime ==
    CrashSafe' <=> Carried(Range(outbox) \cup wiped)' /\ Queued(Range(outbox) \cup wiped)'
BY DEF CrashSafe, AlarmsInHand, Carried, Queued

LEMMA TaskStepCrashSafe ==
    ASSUME TypeOK, CrashSafe, NEW t \in Tasks, TaskStep(t) \/ CancelPublish(t)
    PROVE  CrashSafe'
<1> DEFINE X == Range(outbox) \cup wiped
<1>0. Carried(X) /\ Queued(X)
  BY InHandParts
<1> SUFFICES Carried(X)' /\ Queued(X)'
  BY InHandPartsPrime
<1>1. CASE PersistCommits(t)
  <2>1. outbox \in Seq(Alarms) /\ pub[t].ev \in Alarms /\ outbox' = Append(outbox, pub[t].ev)
    BY <1>1, TaskType DEF PersistCommits, Commit, TypeOK
  <2>2. Range(outbox') = Range(outbox) \cup {pub[t].ev}
    BY <2>1, AppendElements
  <2>3. X \subseteq X' /\ pub[t].ev \in X'
    BY <1>1, <2>2 DEF PersistCommits, history
  <2>4. Queued(X)'
    BY <1>0, <1>1, <2>3 DEF Queued, PersistCommits
  <2>5. Carried(X)'
    <3> HIDE DEF X
    <3> QED
      BY <1>0, <1>1, <2>3 DEF Carried, PersistCommits, TypeOK
  <2> QED
    BY <2>4, <2>5
<1>2. CASE PersistFails(t) \/ PersistTimesOut(t) \/ CancelPublish(t)
  <2>1. pub' = [pub EXCEPT ![t] = Idle] /\ UNCHANGED <<outbox, wiped, queues>>
    BY <1>2 DEF PersistFails, PersistTimesOut, CancelPublish, AbandonPersist, history
  <2> QED
    BY <1>0, <2>1 DEF Carried, Queued, Idle, TypeOK
<1>3. CASE PersistReturns(t)
  BY <1>0, <1>3 DEF PersistReturns, Carried, Queued, TypeOK, history
<1>4. CASE EnqueueAlarm(t)
  <2> DEFINE s == Head(pub[t].left)
             p == Advance(pub[t], ToHandlers(pub[t]))
  <2>1. s \in Subscribers /\ pub[t].ev \in Alarms /\ pub[t].ev \in X
    BY <1>0, <1>4, TaskType, TailElements DEF EnqueueAlarm, Carried
  <2>2. /\ queues[s] \in Seq(Alarms \cup Data)
        /\ queues' = [queues EXCEPT ![s] = Append(queues[s], pub[t].ev)]
        /\ UNCHANGED <<outbox, wiped>>
    BY <1>4, <2>1 DEF EnqueueAlarm, TypeOK
  <2>3. Range(Append(queues[s], pub[t].ev)) = Range(queues[s]) \cup {pub[t].ev}
    BY <2>1, <2>2, AppendElements
  <2>4. Queued(X)'
    BY <1>0, <2>1, <2>2, <2>3 DEF Queued, TypeOK
  <2>5. pub' = [pub EXCEPT ![t] = p] /\ p.ev = pub[t].ev
    BY <1>4 DEF EnqueueAlarm, Advance, ToHandlers, TypeOK
  <2>6. Carried(X)'
    <3> HIDE DEF p
    <3> QED
      BY <1>0, <2>1, <2>2, <2>5 DEF Carried, TypeOK
  <2> QED
    BY <2>4, <2>6
<1>5. CASE EnqueueTimesOut(t)
  <2> DEFINE p == Advance(pub[t], ToHandlers(pub[t]))
  <2>1. pub' = [pub EXCEPT ![t] = p] /\ p.ev = pub[t].ev /\ pub[t].pc = "enqueue"
    BY <1>5 DEF EnqueueTimesOut, Advance, ToHandlers, TypeOK
  <2> HIDE DEF p
  <2> QED
    BY <1>0, <1>5, <2>1 DEF EnqueueTimesOut, Carried, Queued, TypeOK, history
<1>6. CASE HandlerEnds(t)
  <2> DEFINE p == Advance(pub[t], Idle)
  <2>1. /\ pub' = [pub EXCEPT ![t] = p] /\ pub[t].pc = "handle"
        /\ p.pc \in {"persisted", "enqueue", "handle"} => p.ev = pub[t].ev
    BY <1>6 DEF HandlerEnds, Advance, Idle, TypeOK
  <2> HIDE DEF p
  <2> QED
    BY <1>0, <1>6, <2>1 DEF HandlerEnds, Carried, Queued, TypeOK, history
<1> QED
  BY <1>1, <1>2, <1>3, <1>4, <1>5, <1>6 DEF TaskStep

(* A publish that begins carries nothing past its persist yet. *)
LEMMA BeginPublishCrashSafe ==
    ASSUME TypeOK, CrashSafe, NEW t \in Tasks, NEW a \in Alarms, NEW o,
           BeginPublish(t, a, o), UNCHANGED <<outbox, wiped, queues>>
    PROVE  CrashSafe'
BY InHandParts, InHandPartsPrime DEF BeginPublish, Carried, Queued, TypeOK

(* Persist first, deliver afterwards: what is on its way to a subscriber   *)
(* or waits in its queue survives a crash, unless a replay deleted it.     *)
THEOREM CrashSafeHolds == Spec => []CrashSafe
<1>1. Init => CrashSafe
  BY DEF Init, CrashSafe, AlarmsInHand, Idle, Range
<1>2. TypeOK /\ CrashSafe /\ [Next]_vars => CrashSafe'
  <2> SUFFICES ASSUME TypeOK, CrashSafe, [Next]_vars PROVE CrashSafe'
    OBVIOUS
  <2> USE InHandParts, InHandPartsPrime
  <2>1. ASSUME NEW t \in Tasks, NEW a \in Alarms, Publish(t, a) PROVE CrashSafe'
    BY <2>1, BeginPublishCrashSafe DEF Publish
  <2>2. ASSUME NEW d \in Data, PublishData(d) PROVE CrashSafe'
    <3>1. ASSUME NEW s \in Subscribers
          PROVE  Range(queues'[s]) \cap Alarms \subseteq Range(queues[s]) \cap Alarms
      <4> DEFINE q == IF Len(queues[s]) < MaxQueue THEN queues[s] ELSE Tail(queues[s])
      <4>1. /\ queues[s] \in Seq(Alarms \cup Data) /\ Len(queues[s]) \in Nat
            /\ MaxQueue \in Nat /\ MaxQueue > 0 /\ Len(<<>>) = 0
        BY ConstantsType DEF TypeOK
      <4>2. q \in Seq(Alarms \cup Data) /\ Range(q) \subseteq Range(queues[s])
        <5>1. CASE Len(queues[s]) < MaxQueue
          BY <5>1, <4>1
        <5>2. CASE ~(Len(queues[s]) < MaxQueue)
          <6>1. queues[s] # <<>>
            BY <5>2, <4>1
          <6> QED
            BY <6>1, <5>2, <4>1, TailElements
        <5> QED
          BY <5>1, <5>2
      <4>3. queues'[s] = Append(q, d) \/ queues'[s] = queues[s]
        BY <2>2 DEF PublishData
      <4> HIDE DEF q
      <4>4. Range(Append(q, d)) = Range(q) \cup {d} /\ d \notin Alarms
        BY <4>2, AppendElements, NamesAssumption
      <4> QED
        BY <4>2, <4>3, <4>4
    <3> QED
      BY <2>2, <3>1 DEF PublishData, Carried, Queued, history
  <2>3. ASSUME NEW t \in Tasks, TaskStep(t) \/ CancelPublish(t) PROVE CrashSafe'
    BY <2>3, TaskStepCrashSafe
  <2>4. ASSUME NEW a \in Alarms, LatePersist(a) PROVE CrashSafe'
    <3>1. Range(outbox) \subseteq Range(outbox')
      <4>1. outbox \in Seq(Alarms)
        BY DEF TypeOK
      <4>2. Range(Append(outbox, a)) = Range(outbox) \cup {a}
        BY <4>1, AppendElements
      <4> QED
        BY <2>4, <4>2 DEF LatePersist, Commit
    <3> QED
      BY <2>4, <3>1 DEF LatePersist, Carried, Queued, history
  <2>5. ASSUME NEW s \in Subscribers, Consume(s) PROVE CrashSafe'
    <3>1. Range(Tail(queues[s])) \subseteq Range(queues[s])
      BY <2>5, TailElements DEF Consume, TypeOK
    <3> QED
      BY <2>5, <3>1 DEF Consume, Carried, Queued, TypeOK, history
  <2>6. CASE ReplaySelect \/ Shutdown \/ CloseOutbox \/ Restart
    BY <2>6 DEF ReplaySelect, Shutdown, CloseOutbox, Restart, Carried, Queued, volatile, history
  <2>7. CASE ReplayRow
    <3>1. Head(replay.rows) \in Alarms
      BY <2>7, TailElements DEF ReplayRow, TypeOK
    <3>2. CASE \E t \in Tasks : BeginPublish(t, Head(replay.rows), "replay")
      BY <2>7, <3>1, <3>2, BeginPublishCrashSafe DEF ReplayRow
    <3>3. CASE UNCHANGED <<seen, recorded, pub>>
      BY <2>7, <3>3 DEF ReplayRow, Carried, Queued
    <3> QED
      BY <2>7, <3>2, <3>3 DEF ReplayRow
  <2>8. CASE ReplayClear
    <3>1. Range(outbox) \cup wiped \subseteq Range(outbox') \cup wiped'
      BY <2>8 DEF ReplayClear
    <3> QED
      BY <2>8, <3>1 DEF ReplayClear, Carried, Queued
  <2>9. CASE Die
    BY <2>9 DEF Die, Idle, Carried, Queued, Range
  <2>10. CASE UNCHANGED vars
    BY <2>10 DEF vars, volatile, history, Carried, Queued
  <2> QED
    BY <2>1, <2>2, <2>3, <2>4, <2>5, <2>6, <2>7, <2>8, <2>9, <2>10 DEF Next, ReplayStep
<1> QED
  BY <1>1, <1>2, TypeCorrect, PTL DEF Spec

-----------------------------------------------------------------------------
(* What the refinement needs: a task remembers which recorded id it works  *)
(* for, past its persist that id is stored, and deliveries refer to        *)
(* recorded ids.                                                           *)
Stored == Range(outbox) \cup erased

TaskKnowsId ==
    \A t \in Tasks : pub[t].pc # "idle" =>
        pub[t].n \in 1..Len(recorded) /\ recorded[pub[t].n] = pub[t].ev

DeliveredRecorded == \A d \in delivered : d[2] \in 1..Len(recorded)

WriteAheadInv == TaskKnowsId /\ Carried(Stored) /\ DeliveredRecorded

Got == {<<d[1], recorded[d[2]]>> : d \in delivered}

(* Stored only ever grows, and grows by a commit. *)
LEMMA StoredSteps ==
    ASSUME TypeOK, [Next]_vars
    PROVE  Stored' = Stored \/ \E a \in Alarms : Stored' = Stored \cup {a}
<1>1. ASSUME NEW a \in Alarms, Commit(a), UNCHANGED erased
      PROVE  Stored' = Stored \cup {a}
  <2>1. outbox \in Seq(Alarms)
    BY DEF TypeOK
  <2>2. Range(Append(outbox, a)) = Range(outbox) \cup {a}
    BY <2>1, AppendElements
  <2> QED
    BY <1>1, <2>2 DEF Commit, Stored
<1>2. ASSUME UNCHANGED <<outbox, erased>> PROVE Stored' = Stored
  BY <1>2 DEF Stored
<1>3. ASSUME NEW t \in Tasks, TaskStep(t) \/ CancelPublish(t)
      PROVE  Stored' = Stored \/ \E a \in Alarms : Stored' = Stored \cup {a}
  <2>1. CASE PersistCommits(t)
    BY <2>1, <1>1, TaskType DEF PersistCommits, history
  <2> QED
    BY <1>2, <1>3, <2>1 DEF TaskStep, PersistFails, PersistReturns, PersistTimesOut,
       EnqueueAlarm, EnqueueTimesOut, HandlerEnds, CancelPublish, history
<1>4. ASSUME NEW a \in Alarms, LatePersist(a)
      PROVE  Stored' = Stored \/ \E b \in Alarms : Stored' = Stored \cup {b}
  BY <1>1, <1>2, <1>4 DEF LatePersist, history
<1>5. CASE ReplayClear
  <2>1. Range(<<>>) = {}
    BY DEF Range
  <2> QED
    BY <1>5, <1>2, <2>1 DEF ReplayClear, Stored
<1>6. ASSUME \/ \E t \in Tasks, a \in Alarms : Publish(t, a)
             \/ \E d \in Data : PublishData(d)
             \/ \E s \in Subscribers : Consume(s)
             \/ ReplaySelect \/ ReplayRow \/ Shutdown \/ CloseOutbox \/ Die \/ Restart
             \/ UNCHANGED vars
      PROVE  Stored' = Stored
  BY <1>2, <1>6 DEF Publish, PublishData, Consume, ReplaySelect, ReplayRow, Shutdown,
     CloseOutbox, Die, Restart, vars, volatile, history
<1> QED
  BY <1>3, <1>4, <1>5, <1>6 DEF Next, ReplayStep

(* A publish that begins records the id its task works for. *)
LEMMA BeginPublishInv ==
    ASSUME TypeOK, WriteAheadInv, NEW t \in Tasks, NEW a \in Alarms, NEW o,
           BeginPublish(t, a, o), UNCHANGED <<outbox, erased, delivered>>
    PROVE  WriteAheadInv' /\ Got' = Got
<1>1. /\ recorded \in Seq(Alarms) /\ recorded' = Append(recorded, a)
      /\ Len(recorded) \in Nat /\ Len(recorded') = Len(recorded) + 1
      /\ recorded'[Len(recorded) + 1] = a
      /\ \A i \in 1..Len(recorded) : recorded'[i] = recorded[i]
  BY DEF BeginPublish, TypeOK
<1>2. TaskKnowsId'
  BY <1>1 DEF WriteAheadInv, TaskKnowsId, BeginPublish, TypeOK
<1>3. Carried(Stored)'
  BY DEF WriteAheadInv, Carried, Stored, BeginPublish, TypeOK
<1>4. DeliveredRecorded'
  BY <1>1 DEF WriteAheadInv, DeliveredRecorded
<1>5. Got' = Got
  <2>1. \A d \in delivered : recorded'[d[2]] = recorded[d[2]]
    BY <1>1 DEF WriteAheadInv, DeliveredRecorded
  <2> QED
    BY <2>1 DEF Got
<1> QED
  BY <1>2, <1>3, <1>4, <1>5 DEF WriteAheadInv

(* What a step of a task makes of its record: past its persist it keeps    *)
(* its event and the number of its recorded id.                            *)
LEMMA TaskAfter ==
    ASSUME TypeOK, NEW t \in Tasks, TaskStep(t) \/ CancelPublish(t)
    PROVE  /\ \/ pub'[t].pc = "idle"
              \/ pub[t].pc # "idle" /\ pub'[t].n = pub[t].n /\ pub'[t].ev = pub[t].ev
           /\ PersistCommits(t) \/ \/ pub'[t].pc \in {"idle", "persisting"}
                                  \/ pub[t].pc \in {"persisted", "enqueue", "handle"}
<1>0. pub[t] \in TaskRecord /\ pub \in [Tasks -> TaskRecord]
  BY DEF TypeOK, TaskRecord
<1>1. CASE PersistCommits(t)
  <2>1. pub'[t] = [pub[t] EXCEPT !.pc = "persisted"] /\ pub[t].pc # "idle"
    BY <1>0, <1>1 DEF PersistCommits
  <2> QED
    BY <1>0, <1>1, <2>1 DEF TaskRecord
<1>2. CASE PersistFails(t) \/ PersistTimesOut(t) \/ CancelPublish(t)
  <2>1. pub'[t] = Idle
    BY <1>0, <1>2 DEF PersistFails, PersistTimesOut, CancelPublish, AbandonPersist
  <2> QED
    BY <2>1 DEF Idle
<1>3. CASE PersistReturns(t)
  <2>1. pub'[t] = [pub[t] EXCEPT !.pc = "enqueue", !.left = SubscriberSeq] /\ pub[t].pc = "persisted"
    BY <1>0, <1>3 DEF PersistReturns
  <2> QED
    BY <1>0, <2>1 DEF TaskRecord
<1>4. ASSUME NEW r \in {ToHandlers(pub[t]), Idle},
             pub' = [pub EXCEPT ![t] = Advance(pub[t], r)], pub[t].pc \in {"enqueue", "handle"}
      PROVE  /\ \/ pub'[t].pc = "idle"
                \/ pub[t].pc # "idle" /\ pub'[t].n = pub[t].n /\ pub'[t].ev = pub[t].ev
             /\ pub[t].pc \in {"persisted", "enqueue", "handle"}
  <2>1. pub'[t] \in {ToHandlers(pub[t]), Idle, [pub[t] EXCEPT !.left = Tail(@)]}
    BY <1>0, <1>4 DEF Advance
  <2>2. CASE pub'[t] = ToHandlers(pub[t])
    BY <1>0, <1>4, <2>2 DEF TaskRecord, ToHandlers
  <2>3. CASE pub'[t] = Idle
    BY <1>4, <2>3 DEF Idle
  <2>4. CASE pub'[t] = [pub[t] EXCEPT !.left = Tail(@)]
    BY <1>0, <1>4, <2>4 DEF TaskRecord
  <2> QED
    BY <2>1, <2>2, <2>3, <2>4
<1>5. CASE EnqueueAlarm(t) \/ EnqueueTimesOut(t)
  BY <1>4, <1>5 DEF EnqueueAlarm, EnqueueTimesOut
<1>6. CASE HandlerEnds(t)
  BY <1>4, <1>6 DEF HandlerEnds
<1> QED
  BY <1>1, <1>2, <1>3, <1>5, <1>6 DEF TaskStep

LEMMA TaskStepInv ==
    ASSUME TypeOK, WriteAheadInv, Stored \subseteq Stored',
           NEW t \in Tasks, TaskStep(t) \/ CancelPublish(t)
    PROVE  /\ WriteAheadInv'
           /\ \/ Got' = Got
              \/ \E s \in Subscribers, a \in Alarms :
                    a \in Stored /\ Got' = Got \cup {<<s, a>>} /\ Stored' = Stored
<1> DEFINE p == pub'[t]
<1>1. recorded' = recorded /\ \A u \in Tasks \ {t} : pub'[u] = pub[u]
  BY DEF TaskStep, PersistCommits, PersistFails, PersistReturns, PersistTimesOut, AbandonPersist,
     EnqueueAlarm, EnqueueTimesOut, HandlerEnds, CancelPublish, history, TypeOK
<1>2. p.pc # "idle" => pub[t].pc # "idle" /\ p.n = pub[t].n /\ p.ev = pub[t].ev
  BY TaskAfter
<1>3. p.pc \in {"persisted", "enqueue", "handle"} => p.ev \in Stored'
  <2>1. CASE PersistCommits(t)
    <3>1. outbox \in Seq(Alarms) /\ pub[t].ev \in Alarms
      BY <2>1, TaskType DEF PersistCommits, TypeOK
    <3>2. pub[t].ev \in Range(Append(outbox, pub[t].ev))
      BY <3>1, AppendElements
    <3> QED
      BY <2>1, <3>2 DEF PersistCommits, Commit, Stored, TypeOK
  <2>2. CASE ~PersistCommits(t)
    <3>1. p.pc \in {"persisted", "enqueue", "handle"}
          => pub[t].pc \in {"persisted", "enqueue", "handle"} /\ p.ev = pub[t].ev
      BY <2>2, TaskAfter
    <3> QED
      BY <3>1 DEF WriteAheadInv, Carried
  <2> QED
    BY <2>1, <2>2
<1>4. TaskKnowsId'
  BY <1>1, <1>2 DEF WriteAheadInv, TaskKnowsId
<1>5. Carried(Stored)'
  <2> SUFFICES ASSUME NEW u \in Tasks, pub'[u].pc \in {"persisted", "enqueue", "handle"}
               PROVE  pub'[u].ev \in Stored'
    BY DEF Carried
  <2> QED
    BY <1>1, <1>3 DEF WriteAheadInv, Carried
<1>6. CASE EnqueueAlarm(t)
  <2> DEFINE s == Head(pub[t].left)
             n == pub[t].n
  <2>1. s \in Subscribers /\ pub[t].ev \in Alarms
    BY <1>6, TaskType, TailElements DEF EnqueueAlarm
  <2>2. n \in 1..Len(recorded) /\ recorded[n] = pub[t].ev /\ pub[t].ev \in Stored
    BY <1>6 DEF EnqueueAlarm, WriteAheadInv, TaskKnowsId, Carried
  <2>3. delivered' = delivered \cup {<<s, n>>} /\ UNCHANGED <<recorded, outbox, erased>>
    BY <1>6 DEF EnqueueAlarm
  <2>4. Got' = Got \cup {<<s, pub[t].ev>>}
    <3> DEFINE f(d) == <<d[1], recorded[d[2]]>>
    <3>1. Got' = {f(d) : d \in delivered \cup {<<s, n>>}} /\ Got = {f(d) : d \in delivered}
      BY <2>3 DEF Got
    <3>2. f(<<s, n>>) = <<s, pub[t].ev>>
      BY <2>2
    <3> HIDE DEF f
    <3> QED
      BY <3>1, <3>2
  <2>5. DeliveredRecorded'
    BY <2>2, <2>3 DEF WriteAheadInv, DeliveredRecorded
  <2> QED
    BY <1>4, <1>5, <2>1, <2>2, <2>3, <2>4, <2>5 DEF WriteAheadInv, Stored
<1>7. CASE ~EnqueueAlarm(t)
  <2>1. UNCHANGED <<recorded, delivered>>
    BY <1>7 DEF TaskStep, PersistCommits, PersistFails, PersistReturns, PersistTimesOut,
       EnqueueTimesOut, HandlerEnds, CancelPublish, history
  <2> QED
    BY <1>4, <1>5, <2>1 DEF WriteAheadInv, DeliveredRecorded, Got
<1> QED
  BY <1>6, <1>7

LEMMA WriteAheadStep ==
    ASSUME TypeOK, WriteAheadInv, [Next]_vars
    PROVE  /\ WriteAheadInv'
           /\ \/ Got' = Got
              \/ Got' = {} /\ Stored' = Stored
              \/ \E s \in Subscribers, a \in Alarms :
                    a \in Stored /\ Got' = Got \cup {<<s, a>>} /\ Stored' = Stored
<1>0. Stored \subseteq Stored'
  BY StoredSteps
<1>1. ASSUME UNCHANGED <<pub, recorded, delivered>> PROVE WriteAheadInv' /\ Got' = Got
  BY <1>0, <1>1 DEF WriteAheadInv, TaskKnowsId, Carried, DeliveredRecorded, Got
<1>2. ASSUME NEW t \in Tasks, NEW a \in Alarms, Publish(t, a)
      PROVE  WriteAheadInv' /\ Got' = Got
  BY <1>2, BeginPublishInv DEF Publish
<1>3. ASSUME NEW t \in Tasks, TaskStep(t) \/ CancelPublish(t)
      PROVE  /\ WriteAheadInv'
             /\ \/ Got' = Got
                \/ \E s \in Subscribers, a \in Alarms :
                      a \in Stored /\ Got' = Got \cup {<<s, a>>} /\ Stored' = Stored
  BY <1>0, <1>3, TaskStepInv
<1>4. CASE ReplayRow
  <2>1. Head(replay.rows) \in Alarms
    BY <1>4, TailElements DEF ReplayRow, TypeOK
  <2>2. CASE \E t \in Tasks : BeginPublish(t, Head(replay.rows), "replay")
    BY <1>4, <2>1, <2>2, BeginPublishInv DEF ReplayRow
  <2>3. CASE UNCHANGED <<seen, recorded, pub>>
    BY <1>1, <1>4, <2>3 DEF ReplayRow
  <2> QED
    BY <1>4, <2>2, <2>3 DEF ReplayRow
<1>5. CASE Die
  <2>1. pub' = [t \in Tasks |-> Idle] /\ delivered' = {} /\ UNCHANGED <<outbox, erased>>
    BY <1>5 DEF Die
  <2>2. Got' = {} /\ Stored' = Stored
    BY <2>1 DEF Got, Stored
  <2> QED
    BY <2>1, <2>2 DEF WriteAheadInv, TaskKnowsId, Carried, DeliveredRecorded, Idle
<1>6. ASSUME \/ \E d \in Data : PublishData(d)
             \/ \E a \in Alarms : LatePersist(a)
             \/ \E s \in Subscribers : Consume(s)
             \/ ReplaySelect \/ ReplayClear \/ Shutdown \/ CloseOutbox \/ Restart
             \/ UNCHANGED vars
      PROVE  UNCHANGED <<pub, recorded, delivered>>
  BY <1>6 DEF PublishData, LatePersist, Consume, ReplaySelect, ReplayClear, Shutdown,
     CloseOutbox, Restart, vars, volatile, history
<1> QED
  BY <1>1, <1>2, <1>3, <1>4, <1>5, <1>6 DEF Next, ReplayStep

(* The bus and its outbox implement the abstract promise: an alarm reaches *)
(* a subscriber only after a commit, and what is committed stays, crash or *)
(* not, until a replay deletes it.                                         *)
THEOREM ImplementsWriteAhead == Spec => WriteAheadSpec
<1>1. Init => Abstract!Init /\ WriteAheadInv
  BY DEF Init, Abstract!Init, WriteAheadInv, TaskKnowsId, Carried, DeliveredRecorded, Idle, Range
<1>2. TypeOK /\ WriteAheadInv /\ [Next]_vars => WriteAheadInv' /\ [Abstract!Next]_(Abstract!vars)
  <2> SUFFICES ASSUME TypeOK, WriteAheadInv, [Next]_vars
               PROVE  WriteAheadInv' /\ [Abstract!Next]_(Abstract!vars)
    OBVIOUS
  <2>1. /\ Got' = Got \/ Stored' = Stored
        /\ Got' = Got \/ Got' = {} \/ \E s \in Subscribers, a \in Alarms :
                                      a \in Stored /\ Got' = Got \cup {<<s, a>>}
    BY WriteAheadStep
  <2>2. Stored' = Stored \/ \E a \in Alarms : Stored' = Stored \cup {a}
    BY StoredSteps
  <2>3. [Abstract!Next]_(Abstract!vars)
    BY <2>1, <2>2 DEF Abstract!Next, Abstract!vars, Abstract!Store, Abstract!Deliver,
                      Abstract!Restart, Stored, Got
  <2> QED
    BY <2>3, WriteAheadStep
<1> QED
  BY <1>1, <1>2, TypeCorrect, PTL DEF Spec, WriteAheadSpec, Abstract!Spec
=============================================================================
