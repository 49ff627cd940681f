------------------------ MODULE AlarmLifecycleProofs ------------------------
(***************************************************************************)
(* Theorems about AlarmLifecycle, for every number of alarms, of requests  *)
(* and of severities.                                                      *)
(***************************************************************************)
EXTENDS AlarmLifecycle, FiniteSetTheorems, TLAPS

(* Whoever is past its look at the table has an alarm in its hands, and a  *)
(* severity to write back is one.                                          *)
WorkHasAlarm ==
    \A p \in Procs :
        /\ work[p].pc \notin {"idle", "look", "create", "query"} => work[p].alarm \in Alarms
        /\ work[p].pc = "restore" => work[p].was \in Severities

(* Only the evaluator fires alarms.                                        *)
OnlyEvaluatorFires ==
    /\ \A p \in Procs : /\ work[p].pc \in {"filter", "record"} => work[p].act = "firing"
                        /\ work[p].pc \in {"recover", "restore"} => work[p].act = "recovered"
    /\ \A p \in Users : /\ work[p].pc \notin {"create", "filter", "record"}
                        /\ work[p].pc # "idle" => work[p].act # "firing"

(* Nothing is active when the evaluator inserts an alarm, and as long as   *)
(* its firing event is handled nothing but this alarm is.                  *)
NoRival ==
    LET w == work[Evaluator]
    IN  /\ w.pc = "create" => Active = {}
        /\ w.pc \in {"publish", "persist", "filter", "record", "notify"} /\ w.act = "firing"
             => Active \subseteq {w.alarm}

AtMostOne == \A a, b \in Active : a = b

Works == [pc : Pcs, alarm : Alarms \cup {NoAlarm}, act : Actions, was : 0..Top]
Timers == [pc : {"none", "failed", "sleep", "checked", "saving", "saved", "notifying"}, level : 0..Top]

LEMMA LevelTypes ==
    /\ Top \in Nat \ {0} /\ 0 \in 0..Top /\ RuleSeverity \in Severities /\ Severities \subseteq 0..Top
    /\ \A level \in 0..Top : Target(level) \in Severities
BY SeveritiesAssumption DEF Severities, Target

LEMMA EvaluatorIsAProc == Evaluator \in Procs /\ Users = Procs \ {Evaluator}
BY NamesAssumption DEF Procs

LEMMA InitTypes == Init => TypeOK /\ WorkHasAlarm
<1> SUFFICES ASSUME Init PROVE TypeOK /\ WorkHasAlarm
  OBVIOUS
<1>1. Free \in Works
  BY LevelTypes DEF Free, Works, Pcs, Actions
<1>2. work \in [Procs -> Works] /\ WorkHasAlarm
  BY <1>1 DEF Init, WorkHasAlarm, Free
<1>3. NoTimer \in Timers
  BY LevelTypes DEF NoTimer, Timers
<1>4. timer \in [Alarms -> Timers]
  BY <1>3 DEF Init
<1>5. original \in [Alarms -> 0..Top] /\ severity \in [Alarms -> Severities]
  BY LevelTypes DEF Init
<1>6. QED
  BY <1>2, <1>4, <1>5 DEF Init, TypeOK, Works, Timers

-----------------------------------------------------------------------------
(* Types.                                                                  *)

(* What happens to the work of one process.                                *)
LEMMA WorkStep ==
    ASSUME TypeOK, WorkHasAlarm, NEW p \in Procs, NEW w \in Works,
           w.pc \notin {"idle", "look", "create", "query"} => w.alarm \in Alarms,
           w.pc = "restore" => w.was \in Severities,
           work' = [work EXCEPT ![p] = w]
    PROVE  work' \in [Procs -> Works] /\ WorkHasAlarm'
BY DEF TypeOK, WorkHasAlarm, Works

LEMMA FreeStep ==
    ASSUME TypeOK, WorkHasAlarm, NEW p \in Procs, Done(p)
    PROVE  work' \in [Procs -> Works] /\ WorkHasAlarm'
<1>1. Free \in Works
  BY LevelTypes DEF Free, Works, Pcs, Actions
<1>2. QED
  BY <1>1, WorkStep DEF Done, Free

LEMMA GotoStep ==
    ASSUME TypeOK, WorkHasAlarm, NEW p \in Procs, NEW pc \in Pcs, Goto(p, pc),
           pc \notin {"idle", "look", "create", "query"} => work[p].alarm \in Alarms,
           pc # "restore"
    PROVE  work' \in [Procs -> Works] /\ WorkHasAlarm'
<1>1. work[p] \in Works
  BY DEF TypeOK, Works
<1>2. [work[p] EXCEPT !.pc = pc] \in Works
  BY <1>1 DEF Works
<1>3. work' = [work EXCEPT ![p] = [work[p] EXCEPT !.pc = pc]]
  BY DEF Goto
<1>4. QED
  BY <1>1, <1>2, <1>3, WorkStep DEF Works

LEMMA WithStep ==
    ASSUME TypeOK, WorkHasAlarm, NEW p \in Procs, NEW pc \in Pcs \ {"restore"}, NEW a \in Alarms,
           NEW act \in Actions, With(p, pc, a, act)
    PROVE  work' \in [Procs -> Works] /\ WorkHasAlarm'
<1>1. [pc |-> pc, alarm |-> a, act |-> act, was |-> 0] \in Works
  BY LevelTypes DEF Works
<1>2. QED
  BY <1>1, WorkStep DEF With

(* What a timer, a severity and a status become.                           *)
LEMMA CancelTypes ==
    ASSUME TypeOK, NEW a \in Alarms, CancelTimer(a)
    PROVE  timer' \in [Alarms -> Timers] /\ severity' \in [Alarms -> Severities]
<1>1. timer' \in [Alarms -> Timers]
  BY LevelTypes DEF CancelTimer, NoTimer, TypeOK, Timers
<1>2. severity' = severity \/ severity' = [severity EXCEPT ![a] = Target(timer[a].level)]
  BY DEF CancelTimer
<1>3. Target(timer[a].level) \in Severities
  BY LevelTypes DEF TypeOK
<1>4. QED
  BY <1>1, <1>2, <1>3 DEF TypeOK

LEMMA StartTypes ==
    ASSUME TypeOK, NEW a \in Alarms, NEW level \in 0..Top, StartTimer(a, level)
    PROVE  timer' \in [Alarms -> Timers]
BY DEF StartTimer, TypeOK, Timers

LEMMA InsertTypes ==
    ASSUME TypeOK, NEW a \in Alarms, InsertRow(a)
    PROVE  /\ status' \in [Alarms -> {"none", "firing", "acknowledged", "recovered", "deleted"}]
           /\ severity' \in [Alarms -> Severities]
BY LevelTypes DEF InsertRow, TypeOK

LEMMA WriteTypes ==
    ASSUME TypeOK, NEW a \in Alarms, NEW level \in Severities, WriteSeverity(a, level)
    PROVE  severity' \in [Alarms -> Severities] /\ spoiled' \subseteq Alarms
BY DEF WriteSeverity, Spoil, TypeOK

LEMMA NextTimerTypes ==
    ASSUME TypeOK, NEW a \in Alarms, NextTimer(a)
    PROVE  timer' \in [Alarms -> Timers]
<1>1. Target(timer[a].level) \in 0..Top
  BY LevelTypes DEF TypeOK
<1>2. CASE timer' = [timer EXCEPT ![a] = NoTimer]
  BY <1>2, LevelTypes DEF NoTimer, TypeOK, Timers
<1>3. CASE StartTimer(a, Target(timer[a].level))
  BY <1>1, <1>3, StartTypes
<1>4. QED
  BY <1>2, <1>3 DEF NextTimer

LEMMA EvaluationTypes == TypeOK /\ WorkHasAlarm /\ Evaluation => TypeOK' /\ WorkHasAlarm'
<1> SUFFICES ASSUME TypeOK, WorkHasAlarm, Evaluation PROVE TypeOK' /\ WorkHasAlarm'
  OBVIOUS
<1> USE EvaluatorIsAProc
<1>1. work \in [Procs -> Works] /\ NewAlarm \subseteq Alarms /\ Active \subseteq Alarms
  BY DEF TypeOK, Works, NewAlarm, Active
<1>2. CASE Match
  BY <1>2, GotoStep DEF Match, TypeOK, Works, Pcs
<1>3. CASE Look
  BY <1>3, GotoStep, FreeStep DEF Look, TypeOK, Works, Pcs
<1>4. CASE Create
  BY <1>1, <1>4, WithStep, InsertTypes DEF Create, TypeOK, Works, Pcs, Actions
<1>5. CASE Unmatch
  BY <1>5, WithStep, GotoStep DEF Unmatch, TypeOK, Works, Pcs, Actions
<1>6. CASE Query
  <2>1. PICK a \in Alarms \cup {NoAlarm} :
          cached' = a /\ IF a = NoAlarm THEN Done(Evaluator) ELSE With(Evaluator, "recover", a, "recovered")
    BY <1>1, <1>6 DEF Query, FiringAlarm
  <2>2. work' \in [Procs -> Works] /\ WorkHasAlarm'
    BY <2>1, WithStep, FreeStep DEF Pcs, Actions
  <2>3. QED
    BY <1>6, <2>1, <2>2 DEF Query, TypeOK, Works
<1>7. CASE QueryFails
  BY <1>7, FreeStep DEF QueryFails, TypeOK, Works
<1>8. CASE RecoverRow
  <2>1. work' \in [Procs -> Works] /\ WorkHasAlarm'
    BY <1>8, FreeStep, GotoStep DEF RecoverRow, At, WorkHasAlarm, Pcs
  <2>2. QED
    BY <1>8, <2>1 DEF RecoverRow, TypeOK, Works
<1>9. CASE CacheExpires
  BY <1>9 DEF CacheExpires, TypeOK, WorkHasAlarm
<1>10. CASE CancelEvaluation
  <2> DEFINE w == work[Evaluator]
  <2>1. w.pc \notin {"idle", "look", "create", "query"} => w.alarm \in Alarms
    BY DEF WorkHasAlarm
  <2>2. work' \in [Procs -> Works] /\ WorkHasAlarm'
    BY <1>10, <2>1, FreeStep, GotoStep DEF CancelEvaluation, Pcs
  <2>3. /\ status' \in [Alarms -> {"none", "firing", "acknowledged", "recovered", "deleted"}]
        /\ severity' \in [Alarms -> Severities] /\ spoiled' \subseteq Alarms
    <3>1. CASE w.pc = "create" /\ \E a \in NewAlarm : InsertRow(a) /\ Spoil(a)
      BY <1>1, <3>1, InsertTypes DEF Spoil, TypeOK
    <3>2. CASE /\ w.pc = "recover" /\ w.alarm \in Active
               /\ status' = [status EXCEPT ![w.alarm] = "recovered"]
               /\ Spoil(w.alarm) /\ UNCHANGED severity
      BY <1>1, <3>2 DEF Spoil, TypeOK
    <3>3. CASE /\ UNCHANGED <<status, severity>>
               /\ UNCHANGED spoiled \/ (w.pc \notin {"idle", "look", "create", "query"} /\ Spoil(w.alarm))
      BY <2>1, <3>3 DEF Spoil, TypeOK
    <3>4. QED
      BY <1>10, <3>1, <3>2, <3>3 DEF CancelEvaluation
  <2>4. QED
    BY <1>10, <2>2, <2>3 DEF CancelEvaluation, TypeOK, Works
<1>11. QED
  BY <1>2, <1>3, <1>4, <1>5, <1>6, <1>7, <1>8, <1>9, <1>10 DEF Evaluation

LEMMA PublishTypes ==
    ASSUME TypeOK, WorkHasAlarm, NEW p \in Procs, Publish(p) \/ PersistFails(p) \/ HandlerTimesOut(p)
    PROVE  TypeOK' /\ WorkHasAlarm'
<1> DEFINE a == work[p].alarm
<1>1. a \in Alarms /\ work[p].act \in Actions
  BY DEF Publish, PersistFails, HandlerTimesOut, At, WorkHasAlarm, TypeOK
<1>2. work' \in [Procs -> Works] /\ WorkHasAlarm'
  BY <1>1, FreeStep, GotoStep DEF Publish, PersistFails, HandlerTimesOut, Pcs
<1>3. seen' \subseteq Alarms \X Actions /\ spoiled' \subseteq Alarms
  BY <1>1 DEF Publish, PersistFails, HandlerTimesOut, Spoil, TypeOK
<1>4. QED
  BY <1>2, <1>3 DEF Publish, PersistFails, HandlerTimesOut, TypeOK, Works

LEMMA HandlerTypes ==
    ASSUME TypeOK, WorkHasAlarm, NEW p \in Procs, HandlerStep(p)
    PROVE  TypeOK' /\ WorkHasAlarm'
<1> DEFINE a == work[p].alarm
<1>1. a \in Alarms /\ work[p] \in Works
  BY DEF HandlerStep, HandleFiring, Silenced, NotSilenced, Record, FiringNotified, HandleRecovery, Restore,
         RecoveryNotified, HandleAcknowledgment, AcknowledgmentNotified, At, WorkHasAlarm, TypeOK, Works
<1>2. CASE HandleFiring(p)
  <2>1. work' \in [Procs -> Works] /\ WorkHasAlarm'
    BY <1>1, <1>2, FreeStep, GotoStep DEF HandleFiring, Pcs
  <2>2. QED
    BY <1>1, <1>2, <2>1 DEF HandleFiring, TypeOK, Works
<1>3. CASE Silenced(p) \/ NotSilenced(p)
  <2>1. work' \in [Procs -> Works] /\ WorkHasAlarm'
    BY <1>1, <1>3, FreeStep, GotoStep DEF Silenced, NotSilenced, Pcs
  <2>2. QED
    BY <1>3, <2>1 DEF Silenced, NotSilenced, TypeOK, Works
<1>4. CASE Record(p)
  <2>1. work' \in [Procs -> Works] /\ WorkHasAlarm'
    BY <1>1, <1>4, GotoStep DEF Record, Pcs
  <2>2. QED
    BY <1>1, <1>4, <2>1, InsertTypes DEF Record, Spoil, TypeOK, Works
<1>5. CASE FiringNotified(p)
  <2>1. work' \in [Procs -> Works] /\ WorkHasAlarm'
    BY <1>5, FreeStep DEF FiringNotified
  <2>2. timer' \in [Alarms -> Timers]
    BY <1>1, <1>5, StartTypes, LevelTypes DEF FiringNotified
  <2>3. QED
    BY <1>5, <2>1, <2>2 DEF FiringNotified, TypeOK, Works, Timers
<1>6. CASE HandleRecovery(p)
  <2> DEFINE w == [work[p] EXCEPT !.was = original[a],
                                  !.pc = IF original[a] > 0 THEN "restore" ELSE "notify"]
  <2>1. original[a] \in 0..Top
    BY <1>1 DEF TypeOK
  <2>2. w \in Works /\ w.alarm = a /\ w.was = original[a]
    BY <1>1, <2>1 DEF Works, Pcs
  <2>3. w.pc = "restore" => w.was \in Severities
    BY <1>1, <2>1, LevelTypes DEF Severities, Works
  <2>4. work' = [work EXCEPT ![p] = w]
    BY <1>6 DEF HandleRecovery
  <2>5. work' \in [Procs -> Works] /\ WorkHasAlarm'
    <3> HIDE DEF w
    <3>1. QED
      BY <1>1, <2>2, <2>3, <2>4, WorkStep
  <2>6. timer' \in [Alarms -> Timers] /\ severity' \in [Alarms -> Severities]
    BY <1>1, <1>6, CancelTypes DEF HandleRecovery
  <2>7. original' \in [Alarms -> 0..Top]
    <3>1. original' = [original EXCEPT ![a] = 0] /\ original \in [Alarms -> 0..Top]
      BY <1>6 DEF HandleRecovery, TypeOK
    <3>2. QED
      BY <3>1, LevelTypes
  <2>8. QED
    BY <1>6, <2>5, <2>6, <2>7 DEF HandleRecovery, TypeOK, Works, Timers
<1>7. CASE Restore(p)
  <2>1. work' \in [Procs -> Works] /\ WorkHasAlarm'
    BY <1>1, <1>7, GotoStep DEF Restore, Pcs
  <2>2. severity' \in [Alarms -> Severities] /\ spoiled' \subseteq Alarms
    BY <1>1, <1>7, WriteTypes DEF Restore, At, WorkHasAlarm
  <2>3. QED
    BY <1>7, <2>1, <2>2 DEF Restore, TypeOK, Works
<1>8. CASE RecoveryNotified(p) \/ AcknowledgmentNotified(p)
  <2>1. work' \in [Procs -> Works] /\ WorkHasAlarm'
    BY <1>8, FreeStep DEF RecoveryNotified, AcknowledgmentNotified
  <2>2. QED
    BY <1>8, <2>1 DEF RecoveryNotified, AcknowledgmentNotified, TypeOK, Works
<1>9. CASE HandleAcknowledgment(p)
  <2>1. work' \in [Procs -> Works] /\ WorkHasAlarm'
    BY <1>1, <1>9, GotoStep DEF HandleAcknowledgment, Pcs
  <2>2. timer' \in [Alarms -> Timers] /\ severity' \in [Alarms -> Severities]
    BY <1>1, <1>9, CancelTypes DEF HandleAcknowledgment
  <2>3. QED
    BY <1>9, <2>1, <2>2 DEF HandleAcknowledgment, TypeOK, Works, Timers
<1>10. QED
  BY <1>2, <1>3, <1>4, <1>5, <1>6, <1>7, <1>8, <1>9 DEF HandlerStep

LEMMA TimerTypes ==
    ASSUME TypeOK, WorkHasAlarm, NEW a \in Alarms, TimerStep(a)
    PROVE  TypeOK' /\ WorkHasAlarm'
<1>1. timer[a].level \in 0..Top /\ timer \in [Alarms -> Timers]
  BY DEF TypeOK, Timers
<1>2. WorkHasAlarm' /\ UNCHANGED <<condition, status, handled, cached, work>>
  BY DEF TimerStep, TimerWakes, TimerReadFails, Escalate, SaveSeverity, PublishEscalation, EscalationNotified,
         EscalationHandlerTimesOut, WorkHasAlarm
<1>3. timer' \in [Alarms -> Timers]
  <2>1. \/ \E pc \in {"checked", "saving", "saved", "notifying"} : timer' = [timer EXCEPT ![a].pc = pc]
        \/ \E t \in {NoTimer, FailedTimer} : timer' = [timer EXCEPT ![a] = t]
        \/ NextTimer(a)
    BY DEF TimerStep, TimerWakes, TimerReadFails, Escalate, SaveSeverity, PublishEscalation, EscalationNotified,
           EscalationHandlerTimesOut
  <2>2. CASE \E pc \in {"checked", "saving", "saved", "notifying"} : timer' = [timer EXCEPT ![a].pc = pc]
    BY <1>1, <2>2 DEF Timers
  <2>3. CASE \E t \in {NoTimer, FailedTimer} : timer' = [timer EXCEPT ![a] = t]
    BY <1>1, <2>3, LevelTypes DEF Timers, NoTimer, FailedTimer
  <2>4. QED
    BY <2>1, <2>2, <2>3, NextTimerTypes
<1>4. severity' \in [Alarms -> Severities] /\ spoiled' \subseteq Alarms
  <2>1. CASE SaveSeverity(a)
    BY <1>1, <2>1, WriteTypes, LevelTypes DEF SaveSeverity
  <2>2. CASE ~SaveSeverity(a)
    BY <2>2 DEF TimerStep, TimerWakes, TimerReadFails, Escalate, PublishEscalation, EscalationNotified,
                EscalationHandlerTimesOut, Spoil, TypeOK
  <2>3. QED
    BY <2>1, <2>2
<1>5. original' \in [Alarms -> 0..Top]
  BY <1>1 DEF TimerStep, TimerWakes, TimerReadFails, Escalate, Remember, SaveSeverity, PublishEscalation,
              EscalationNotified, EscalationHandlerTimesOut, TypeOK
<1>6. seen' \subseteq Alarms \X Actions
  BY DEF TimerStep, TimerWakes, TimerReadFails, Escalate, SaveSeverity, PublishEscalation, EscalationNotified,
         EscalationHandlerTimesOut, TypeOK, Actions
<1>7. QED
  BY <1>2, <1>3, <1>4, <1>5, <1>6 DEF TypeOK, Timers

LEMMA RequestTypes ==
    ASSUME TypeOK, WorkHasAlarm, NEW p \in Users, Request(p) \/ Forget(p) \/ Erase(p)
    PROVE  TypeOK' /\ WorkHasAlarm'
<1>0. p \in Procs
  BY DEF Procs
<1>1. CASE Request(p)
  <2>1. PICK a \in Alarms : Ack(p, a) \/ Clear(p, a) \/ Delete(p, a)
    BY <1>1 DEF Request
  <2>2. work' \in [Procs -> Works] /\ WorkHasAlarm'
    BY <1>0, <2>1, WithStep DEF Ack, Clear, Delete, Pcs, Actions
  <2>3. CASE Ack(p, a) \/ Clear(p, a)
    BY <2>2, <2>3 DEF Ack, Clear, TypeOK, Works
  <2>4. CASE Delete(p, a)
    <3>1. timer' \in [Alarms -> Timers] /\ severity' \in [Alarms -> Severities]
      BY <2>4, CancelTypes DEF Delete
    <3>2. original' \in [Alarms -> 0..Top]
      BY <2>4, LevelTypes DEF Delete, TypeOK
    <3>3. QED
      BY <2>2, <2>4, <3>1, <3>2 DEF Delete, TypeOK, Works, Timers
  <2>5. QED
    BY <2>1, <2>3, <2>4
<1>2. CASE Forget(p) \/ Erase(p)
  <2>1. work[p].alarm \in Alarms
    BY <1>0, <1>2 DEF Forget, Erase, At, WorkHasAlarm
  <2>2. work' \in [Procs -> Works] /\ WorkHasAlarm'
    BY <1>0, <1>2, <2>1, FreeStep, GotoStep DEF Forget, Erase, Pcs
  <2>3. QED
    BY <1>2, <2>1, <2>2 DEF Forget, Erase, Spoil, TypeOK, Works
<1>3. QED
  BY <1>1, <1>2

LEMMA TypesNext == TypeOK /\ WorkHasAlarm /\ [Next]_vars => TypeOK' /\ WorkHasAlarm'
<1> SUFFICES ASSUME TypeOK, WorkHasAlarm, [Next]_vars PROVE TypeOK' /\ WorkHasAlarm'
  OBVIOUS
<1>1. CASE ConditionChanges
  BY <1>1 DEF ConditionChanges, TypeOK, WorkHasAlarm
<1>2. CASE UNCHANGED vars
  BY <1>2 DEF vars, TypeOK, WorkHasAlarm
<1>3. QED
  BY <1>1, <1>2, EvaluationTypes, PublishTypes, HandlerTypes, TimerTypes, RequestTypes DEF Next

(* Every column, map and task of the alarms keeps its type, and severities *)
(* stay between the lowest and critical however far escalation goes.       *)
THEOREM TypesHold == Spec => []TypeOK
<1>1. Spec => [](TypeOK /\ WorkHasAlarm)
  BY InitTypes, TypesNext, PTL DEF Spec
<1>2. QED
  BY <1>1, PTL

-----------------------------------------------------------------------------
(* One active alarm.                                                       *)

IInv == TypeOK /\ WorkHasAlarm /\ OnlyEvaluatorFires /\ NoRival /\ AtMostOne

Alone == OnlyEvaluatorFires /\ NoRival /\ AtMostOne

(* A step that makes no alarm active and leaves the evaluator where it is, *)
(* or takes it to no more than it has looked at.                           *)
LEMMA ShrinkingStep ==
    ASSUME IInv, Active' \subseteq Active,
           work'[Evaluator].pc = "create" => work[Evaluator].pc = "create" \/ Active = {},
           work'[Evaluator].pc \in {"publish", "persist", "filter", "record", "notify"}
             /\ work'[Evaluator].act = "firing"
             => /\ work[Evaluator].pc \in {"publish", "persist", "filter", "record", "notify"}
                /\ work[Evaluator].act = "firing" /\ work[Evaluator].alarm = work'[Evaluator].alarm
    PROVE  NoRival' /\ AtMostOne'
BY DEF IInv, NoRival, AtMostOne

LEMMA InsertAlone ==
    ASSUME IInv, Active = {}, NEW a \in Alarms, InsertRow(a)
    PROVE  Active' = {a}
BY DEF IInv, TypeOK, InsertRow, Active

LEMMA EvaluationAlone == IInv /\ Evaluation => Alone'
<1> SUFFICES ASSUME IInv, Evaluation PROVE Alone'
  OBVIOUS
<1> USE EvaluatorIsAProc
<1>0. work \in [Procs -> Works] /\ NewAlarm \subseteq Alarms
  BY DEF IInv, TypeOK, Works, NewAlarm
<1>1. CASE Match \/ Look \/ Unmatch \/ Query \/ QueryFails \/ RecoverRow \/ CacheExpires
  <2>1. Active' \subseteq Active
    BY <1>1 DEF Match, Look, Unmatch, Query, QueryFails, RecoverRow, CacheExpires, Active, IInv, TypeOK
  <2>2. \/ work' = work
        \/ \E pc \in {"look", "query"} : Goto(Evaluator, pc)
        \/ Active = {} /\ Goto(Evaluator, "create")
        \/ At(Evaluator, "recover") /\ Goto(Evaluator, "publish")
        \/ Done(Evaluator)
        \/ \E a \in Alarms \cup {NoAlarm} : With(Evaluator, "recover", a, "recovered")
    BY <1>1 DEF Match, Look, Unmatch, Query, QueryFails, RecoverRow, CacheExpires, FiringAlarm, Active
  <2>3. OnlyEvaluatorFires'
    BY <1>0, <2>2 DEF IInv, OnlyEvaluatorFires, Goto, Done, With, Free, Works
  <2>4. At(Evaluator, "recover") => work[Evaluator].act # "firing"
    BY DEF At, IInv, OnlyEvaluatorFires
  <2>5. NoRival' /\ AtMostOne'
    BY <1>0, <2>1, <2>2, <2>4, ShrinkingStep DEF Goto, Done, With, Free, Works
  <2>6. QED
    BY <2>3, <2>5 DEF Alone
<1>2. CASE Create
  <2>1. PICK a \in Alarms : InsertRow(a) /\ With(Evaluator, "publish", a, "firing")
    BY <1>0, <1>2 DEF Create
  <2>2. Active' = {a}
    BY <1>2, <2>1, InsertAlone DEF Create, At, IInv, NoRival
  <2>3. NoRival' /\ AtMostOne' /\ OnlyEvaluatorFires'
    BY <1>0, <2>1, <2>2 DEF With, NoRival, AtMostOne, IInv, OnlyEvaluatorFires
  <2>4. QED
    BY <2>3 DEF Alone
<1>3. CASE CancelEvaluation
  <2> DEFINE w == work[Evaluator]
  <2>1. OnlyEvaluatorFires'
    BY <1>0, <1>3 DEF CancelEvaluation, IInv, OnlyEvaluatorFires, Goto, Done, Free, Works
  <2>2. CASE w.pc = "create"
    <3>1. Done(Evaluator) /\ Active = {}
      BY <1>3, <2>2 DEF CancelEvaluation, IInv, NoRival
    <3>2. (\E a \in NewAlarm : InsertRow(a)) \/ UNCHANGED status
      BY <1>3, <2>2 DEF CancelEvaluation
    <3>3. Active' = {} \/ \E a \in Alarms : Active' = {a}
      BY <1>0, <3>1, <3>2, InsertAlone DEF Active
    <3>4. QED
      BY <1>0, <2>1, <3>1, <3>3 DEF Alone, Done, Free, NoRival, AtMostOne
  <2>3. CASE w.pc # "create"
    <3>1. Active' \subseteq Active
      BY <1>3, <2>3 DEF CancelEvaluation, Active, IInv, TypeOK
    <3>2. \/ Done(Evaluator)
          \/ /\ w.pc \in {"persist", "filter", "record", "restore", "notify"} /\ w.act = "firing"
             /\ Goto(Evaluator, "publish")
      BY <1>3, <2>3 DEF CancelEvaluation
    <3>3. NoRival' /\ AtMostOne'
      BY <1>0, <3>1, <3>2, ShrinkingStep DEF Goto, Done, Free, Works, IInv, OnlyEvaluatorFires
    <3>4. QED
      BY <2>1, <3>3 DEF Alone
  <2>4. QED
    BY <2>2, <2>3
<1>4. QED
  BY <1>1, <1>2, <1>3 DEF Evaluation

(* The steps of the handlers and of the requests: only Record makes an     *)
(* alarm active, the one whose firing event is handled.                    *)
LEMMA ProcAlone ==
    ASSUME IInv, NEW p \in Procs,
           Publish(p) \/ PersistFails(p) \/ HandlerStep(p) \/ HandlerTimesOut(p)
    PROVE  Alone'
<1> USE EvaluatorIsAProc
<1>0. work \in [Procs -> Works]
  BY DEF IInv, TypeOK, Works
<1>1. CASE Record(p)
  <2> DEFINE a == work[p].alarm
  <2>1. p = Evaluator /\ Goto(p, "notify") /\ work[p].pc = "record" /\ work[p].act = "firing"
    BY <1>1 DEF Record, At, IInv, OnlyEvaluatorFires
  <2>2. Active \subseteq {a}
    BY <2>1 DEF IInv, NoRival
  <2>3. Active' \subseteq {a}
    BY <1>1, <2>2 DEF Record, InsertRow, Active, IInv, TypeOK
  <2>4. OnlyEvaluatorFires'
    BY <1>0, <2>1 DEF IInv, OnlyEvaluatorFires, Goto, Works
  <2>5. QED
    BY <1>0, <2>1, <2>3, <2>4 DEF Alone, NoRival, AtMostOne, Goto, Works
<1>2. CASE ~Record(p)
  <2> DEFINE w == work[p]
             n == work'[p]
  <2>1. /\ UNCHANGED status
        /\ work' = [work EXCEPT ![p] = n]
        /\ \/ n = Free
           \/ /\ n.act = w.act /\ n.alarm = w.alarm
              /\ w.pc \in {"publish", "persist", "filter", "restore"}
              /\ n.pc \in {"persist", "filter", "record", "restore", "notify"}
              /\ n.pc = "filter" => w.act = "firing"
              /\ n.pc = "record" => w.pc = "filter"
              /\ n.pc = "restore" => w.act = "recovered"
              /\ w.pc = "restore" => n.pc = "notify"
    <3>1. CASE Publish(p) \/ PersistFails(p) \/ HandlerTimesOut(p)
      BY <1>0, <3>1 DEF Publish, PersistFails, HandlerTimesOut, Done, Goto, At, Works
    <3>2. CASE HandleFiring(p) \/ Silenced(p) \/ NotSilenced(p) \/ FiringNotified(p)
      BY <1>0, <3>2 DEF HandleFiring, Silenced, NotSilenced, FiringNotified, Done, Goto, At, Works
    <3>3. CASE HandleRecovery(p)
      BY <1>0, <3>3 DEF HandleRecovery, At, Works
    <3>4. CASE Restore(p) \/ RecoveryNotified(p) \/ HandleAcknowledgment(p) \/ AcknowledgmentNotified(p)
      BY <1>0, <3>4 DEF Restore, RecoveryNotified, HandleAcknowledgment, AcknowledgmentNotified,
                        Done, Goto, At, Works
    <3>5. QED
      BY <1>2, <3>1, <3>2, <3>3, <3>4 DEF HandlerStep
  <2> HIDE DEF n, w
  <2>2. OnlyEvaluatorFires'
    BY <1>0, <2>1 DEF IInv, OnlyEvaluatorFires, Free, w
  <2>3. Active' \subseteq Active
    BY <2>1 DEF Active
  <2>4. NoRival' /\ AtMostOne'
    <3>1. CASE p = Evaluator
      BY <1>0, <2>1, <2>3, <3>1, ShrinkingStep DEF IInv, OnlyEvaluatorFires, Free, w, n
    <3>2. CASE p # Evaluator
      BY <1>0, <2>1, <2>3, <3>2, ShrinkingStep
    <3>3. QED
      BY <3>1, <3>2
  <2>5. QED
    BY <2>2, <2>4 DEF Alone
<1>3. QED
  BY <1>1, <1>2

LEMMA RequestAlone ==
    ASSUME IInv, NEW p \in Users, Request(p) \/ Forget(p) \/ Erase(p)
    PROVE  Alone'
<1> USE EvaluatorIsAProc
<1>0. work \in [Procs -> Works] /\ p \in Procs /\ p # Evaluator
  BY DEF IInv, TypeOK, Works
<1>1. Active' \subseteq Active
  BY DEF Request, Ack, Clear, Delete, Forget, Erase, Active, IInv, TypeOK
<1>2. \/ Done(p)
      \/ Goto(p, "erase") /\ At(p, "forget")
      \/ \E a \in Alarms, pc \in {"publish", "forget"}, act \in {"acknowledged", "recovered"} : With(p, pc, a, act)
  BY DEF Request, Ack, Clear, Delete, Forget, Erase
<1>3. OnlyEvaluatorFires'
  BY <1>0, <1>2 DEF IInv, OnlyEvaluatorFires, Goto, Done, With, At, Free, Works
<1>4. work'[Evaluator] = work[Evaluator]
  BY <1>0, <1>2 DEF Goto, Done, With
<1>5. NoRival' /\ AtMostOne'
  BY <1>1, <1>4, ShrinkingStep
<1>6. QED
  BY <1>3, <1>5 DEF Alone

LEMMA IInvNext == IInv /\ [Next]_vars => IInv'
<1> SUFFICES ASSUME IInv, [Next]_vars PROVE IInv'
  OBVIOUS
<1>1. TypeOK' /\ WorkHasAlarm'
  BY TypesNext DEF IInv
<1>2. ASSUME UNCHANGED <<status, work>> PROVE Alone'
  <2>1. Active' = Active /\ work' = work
    BY <1>2 DEF Active
  <2>2. QED
    BY <2>1 DEF IInv, OnlyEvaluatorFires, NoRival, AtMostOne, Alone
<1>3. ASSUME NEW a \in Alarms, TimerStep(a) PROVE Alone'
  <2>1. UNCHANGED <<status, work>>
    BY <1>3 DEF TimerStep, TimerWakes, TimerReadFails, Escalate, SaveSeverity, PublishEscalation, EscalationNotified,
                EscalationHandlerTimesOut
  <2>2. QED
    BY <1>2, <2>1
<1>4. Alone'
  BY <1>2, <1>3, EvaluationAlone, ProcAlone, RequestAlone DEF Next, ConditionChanges, vars
<1>5. QED
  BY <1>1, <1>4 DEF IInv, Alone

LEMMA InitAlone == Init => IInv
<1> SUFFICES ASSUME Init PROVE IInv
  OBVIOUS
<1>1. Active = {} /\ \A p \in Procs : work[p].pc = "idle"
  BY DEF Init, Active, Free
<1>2. QED
  BY <1>1, InitTypes, EvaluatorIsAProc DEF IInv, OnlyEvaluatorFires, NoRival, AtMostOne

(* A rule has at most one active alarm on a device, wherever an evaluation *)
(* is cancelled, and whatever is acknowledged, cleared or deleted in the   *)
(* meantime.                                                               *)
THEOREM OneActiveAlarm == Spec => []OneActive
<1>1. IInv => OneActive
  <2> SUFFICES ASSUME IInv PROVE Cardinality(Unresolved) <= 1
    BY DEF OneActive
  <2>1. Unresolved = {} \/ \E a : Unresolved = {a}
    BY DEF IInv, AtMostOne, Active, Unresolved
  <2>2. CASE Unresolved = {}
    BY <2>2, FS_EmptySet
  <2>3. ASSUME NEW a, Unresolved = {a} PROVE Cardinality(Unresolved) <= 1
    <3>1. Cardinality({a}) = 1
      BY FS_Singleton
    <3>2. QED
      BY <2>3, <3>1
  <2>4. QED
    BY <2>1, <2>2, <2>3
<1>2. QED
  BY <1>1, InitAlone, IInvNext, PTL DEF Spec
-----------------------------------------------------------------------------
(* What is remembered of a severity.                                       *)

(* Only the severity of the rule is ever remembered, and it is remembered  *)
(* from the first level on; severities do not fall below it.               *)
RememberedIsRules ==
    /\ \A a \in Alarms :
         /\ original[a] \in {0, RuleSeverity}
         /\ severity[a] >= RuleSeverity
         /\ timer[a].pc \notin {"none", "failed"} => timer[a].level >= RuleSeverity
         /\ \/ timer[a].pc \in {"saving", "saved", "notifying"}
            \/ timer[a].pc \notin {"none", "failed"} /\ timer[a].level # RuleSeverity
            => original[a] = RuleSeverity
    /\ \A p \in Procs : work[p].pc = "restore" => work[p].was = RuleSeverity

LEMMA LevelOrder ==
    /\ RuleSeverity \in Nat \ {0} /\ RuleSeverity \in 0..Top
    /\ \A level \in 0..Top : level >= RuleSeverity => Target(level) >= RuleSeverity
BY SeveritiesAssumption DEF Target

LEMMA HandlerRemembers ==
    ASSUME IInv, RememberedIsRules, NEW p \in Procs, HandlerStep(p)
    PROVE  RememberedIsRules'
<1> DEFINE a == work[p].alarm
<1>0. a \in Alarms /\ work \in [Procs -> Works] /\ timer \in [Alarms -> Timers]
  BY DEF HandlerStep, HandleFiring, Silenced, NotSilenced, Record, FiringNotified, HandleRecovery, Restore,
         RecoveryNotified, HandleAcknowledgment, AcknowledgmentNotified, At, WorkHasAlarm, TypeOK, Works, IInv,
         Timers
<1>1. CASE HandleFiring(p) \/ Silenced(p) \/ NotSilenced(p) \/ RecoveryNotified(p) \/ AcknowledgmentNotified(p)
  BY <1>0, <1>1 DEF HandleFiring, Silenced, NotSilenced, RecoveryNotified, AcknowledgmentNotified, Done, Goto,
                    Free, RememberedIsRules, Works
<1>2. CASE Record(p)
  BY <1>0, <1>2, LevelOrder DEF Record, InsertRow, Goto, RememberedIsRules, Works, IInv, TypeOK
<1>3. CASE FiringNotified(p)
  BY <1>0, <1>3, LevelOrder DEF FiringNotified, StartTimer, Done, Free, RememberedIsRules, Works, IInv, TypeOK
<1>4. CASE HandleRecovery(p)
  <2>1. timer[a].pc = "saving" => timer[a].level \in 0..Top /\ Target(timer[a].level) >= RuleSeverity
    BY <1>0, LevelOrder DEF RememberedIsRules, Timers
  <2>2. \A b \in Alarms : severity'[b] >= RuleSeverity
    BY <1>0, <1>4, <2>1 DEF HandleRecovery, CancelTimer, RememberedIsRules, IInv, TypeOK
  <2>3. \A q \in Procs : work'[q].pc = "restore" => work'[q].was = RuleSeverity
    BY <1>0, <1>4, LevelOrder DEF HandleRecovery, RememberedIsRules, Works
  <2>4. QED
    BY <1>0, <1>4, <2>2, <2>3, LevelOrder DEF HandleRecovery, CancelTimer, NoTimer, RememberedIsRules, IInv,
                                             TypeOK
<1>5. CASE Restore(p)
  <2>1. work[p].was = RuleSeverity /\ severity \in [Alarms -> Severities]
    BY <1>5 DEF Restore, At, RememberedIsRules, IInv, TypeOK, Procs
  <2>2. UNCHANGED <<original, timer>> /\ \A b \in Alarms : severity'[b] \in {severity[b], RuleSeverity}
    BY <1>5, <2>1 DEF Restore, WriteSeverity
  <2>3. \A q \in Procs : work'[q].pc = "restore" => work[q].pc = "restore" /\ work'[q].was = work[q].was
    BY <1>0, <1>5 DEF Restore, Goto, Works
  <2>4. QED
    BY <2>2, <2>3, LevelOrder DEF RememberedIsRules
<1>6. CASE HandleAcknowledgment(p)
  <2>1. timer[a].pc = "saving" => timer[a].level \in 0..Top /\ Target(timer[a].level) >= RuleSeverity
    BY <1>0, LevelOrder DEF RememberedIsRules, Timers
  <2>2. \A b \in Alarms : severity'[b] >= RuleSeverity
    BY <1>0, <1>6, <2>1 DEF HandleAcknowledgment, CancelTimer, RememberedIsRules, IInv, TypeOK
  <2>3. QED
    BY <1>0, <1>6, <2>2 DEF HandleAcknowledgment, CancelTimer, NoTimer, Goto, RememberedIsRules, Works, IInv,
                            TypeOK
<1>7. QED
  BY <1>1, <1>2, <1>3, <1>4, <1>5, <1>6 DEF HandlerStep

LEMMA TimerRemembers ==
    ASSUME IInv, RememberedIsRules, NEW a \in Alarms, TimerStep(a)
    PROVE  RememberedIsRules'
<1>0. /\ timer \in [Alarms -> Timers] /\ timer[a].level \in 0..Top /\ severity \in [Alarms -> Severities]
      /\ original \in [Alarms -> 0..Top]
  BY DEF IInv, TypeOK, Timers
<1>1. timer[a].pc \notin {"none", "failed"} => Target(timer[a].level) >= RuleSeverity
  BY <1>0, LevelOrder DEF RememberedIsRules
<1>2. CASE TimerWakes(a) \/ TimerReadFails(a)
  BY <1>0, <1>2 DEF TimerWakes, TimerReadFails, NoTimer, FailedTimer, RememberedIsRules, Timers
<1>3. CASE Escalate(a)
  BY <1>0, <1>3, LevelOrder DEF Escalate, Remember, RememberedIsRules, Timers
<1>4. CASE SaveSeverity(a)
  BY <1>0, <1>1, <1>4 DEF SaveSeverity, WriteSeverity, RememberedIsRules, Timers
<1>5. ASSUME NextTimer(a), timer[a].pc \in {"saved", "notifying"}, UNCHANGED <<severity, original, work>>
      PROVE  RememberedIsRules'
  BY <1>0, <1>1, <1>5 DEF NextTimer, StartTimer, NoTimer, RememberedIsRules, Timers
<1>6. CASE PublishEscalation(a)
  BY <1>0, <1>5, <1>6 DEF PublishEscalation, RememberedIsRules, Timers
<1>7. CASE EscalationNotified(a) \/ EscalationHandlerTimesOut(a)
  BY <1>5, <1>7 DEF EscalationNotified, EscalationHandlerTimesOut
<1>8. QED
  BY <1>2, <1>3, <1>4, <1>6, <1>7 DEF TimerStep

LEMMA RequestRemembers ==
    ASSUME IInv, RememberedIsRules, NEW p \in Users, Request(p) \/ Forget(p) \/ Erase(p)
    PROVE  RememberedIsRules'
<1>0. p \in Procs /\ work \in [Procs -> Works] /\ timer \in [Alarms -> Timers]
  BY DEF Procs, IInv, TypeOK, Works, Timers
<1>1. ASSUME NEW a \in Alarms, Delete(p, a) PROVE RememberedIsRules'
  <2>1. timer[a].pc = "saving" => timer[a].level \in 0..Top /\ Target(timer[a].level) >= RuleSeverity
    BY <1>0, LevelOrder DEF RememberedIsRules, Timers
  <2>2. \A b \in Alarms : severity'[b] >= RuleSeverity
    BY <1>0, <1>1, <2>1 DEF Delete, CancelTimer, RememberedIsRules, IInv, TypeOK
  <2>3. QED
    BY <1>0, <1>1, <2>2, LevelOrder DEF Delete, CancelTimer, NoTimer, With, RememberedIsRules, Works, IInv, TypeOK
<1>2. CASE (\E a \in Alarms : Ack(p, a) \/ Clear(p, a)) \/ Forget(p) \/ Erase(p)
  BY <1>0, <1>2 DEF Ack, Clear, Forget, Erase, With, Goto, Done, Free, RememberedIsRules, Works
<1>3. QED
  BY <1>1, <1>2 DEF Request

LEMMA RemembersNext == IInv /\ RememberedIsRules /\ [Next]_vars => RememberedIsRules'
<1> SUFFICES ASSUME IInv, RememberedIsRules, [Next]_vars PROVE RememberedIsRules'
  OBVIOUS
<1> USE EvaluatorIsAProc
<1>0. work \in [Procs -> Works]
  BY DEF IInv, TypeOK, Works
<1>1. CASE Evaluation
  <2>1. UNCHANGED <<original, timer>> /\ (UNCHANGED severity \/ \E a \in Alarms : InsertRow(a))
    BY <1>1 DEF Evaluation, Match, Look, Create, Unmatch, Query, QueryFails, RecoverRow, CacheExpires,
                CancelEvaluation, NewAlarm
  <2>2. \A q \in Procs : work'[q].pc = "restore" => work'[q] = work[q]
    BY <1>0, <1>1 DEF Evaluation, Match, Look, Create, Unmatch, Query, QueryFails, RecoverRow, CacheExpires,
                      CancelEvaluation, Goto, With, Done, Free, Works
  <2>3. \A a \in Alarms : severity'[a] >= RuleSeverity
    <3>1. CASE UNCHANGED severity
      BY <3>1 DEF RememberedIsRules
    <3>2. ASSUME NEW a \in Alarms, InsertRow(a) PROVE \A b \in Alarms : severity'[b] >= RuleSeverity
      BY <3>2, LevelOrder DEF InsertRow, RememberedIsRules, IInv, TypeOK
    <3>3. QED
      BY <2>1, <3>1, <3>2
  <2>4. \A q \in Procs : work'[q].pc = "restore" => work'[q].was = RuleSeverity
    BY <2>2 DEF RememberedIsRules
  <2>5. QED
    BY <2>1, <2>3, <2>4 DEF RememberedIsRules
<1>2. ASSUME NEW p \in Procs, Publish(p) \/ PersistFails(p) \/ HandlerTimesOut(p) PROVE RememberedIsRules'
  BY <1>0, <1>2 DEF Publish, PersistFails, HandlerTimesOut, Goto, Done, Free, RememberedIsRules, Works
<1>3. CASE ConditionChanges \/ UNCHANGED vars
  BY <1>3 DEF ConditionChanges, vars, RememberedIsRules
<1>4. QED
  BY <1>1, <1>2, <1>3, HandlerRemembers, TimerRemembers, RequestRemembers DEF Next
-----------------------------------------------------------------------------
(* What the events that were published did to an alarm.                    *)

\* Who has the event of this action about the alarm in hand, and where.
Carriers(a, act, pc) == {p \in Procs : work[p].alarm = a /\ work[p].act = act /\ work[p].pc = pc}

(* What is recovered by the evaluator has had a row, and the evaluator     *)
(* acknowledges and deletes nothing.                                       *)
EvaluatorKnows ==
    LET w == work[Evaluator]
    IN  /\ cached \in Alarms => status[cached] # "none"
        /\ w.pc = "recover" => status[w.alarm] # "none"
        /\ w.act # "acknowledged" /\ w.pc \notin {"forget", "erase"}

(* The event of a recovery follows the row.  As long as nobody has the     *)
(* event still to handle, nothing is remembered and no escalation is past  *)
(* its look at the row.                                                    *)
RecoveryTold(a) ==
    /\ <<a, "recovered">> \in seen \/ Carriers(a, "recovered", "publish") # {}
         => status[a] \in {"recovered", "deleted"}
    /\ status[a] = "recovered"
         => \/ <<a, "recovered">> \notin seen /\ Carriers(a, "recovered", "publish") # {}
            \/ Carriers(a, "recovered", "persist") # {}
            \/ original[a] = 0 /\ timer[a].pc \in {"none", "failed", "sleep"}

(* The event of an acknowledgement follows the row.  Once it has been      *)
(* handled, the only timer there is is a first one, not yet woken.         *)
AcknowledgmentTold(a) ==
    /\ <<a, "acknowledged">> \in seen \/ Carriers(a, "acknowledged", "publish") # {}
         => status[a] \in {"acknowledged", "recovered", "deleted"}
    /\ <<a, "acknowledged">> \in seen
         => \/ Carriers(a, "acknowledged", "persist") # {}
            \/ timer[a].pc \in {"none", "failed"}
            \/ timer[a].pc = "sleep" /\ timer[a].level = RuleSeverity

\* RaisedIsRemembered of one alarm.
Raised(a) ==
    severity[a] # RuleSeverity /\ status[a] # "deleted"
      => \/ original[a] = RuleSeverity
         \/ \E p \in Procs : work[p].alarm = a /\ work[p].pc \in {"restore", "forget", "erase"}

Told(a) == RecoveryTold(a) /\ AcknowledgmentTold(a) /\ Raised(a)

EInv == IInv /\ RememberedIsRules /\ EvaluatorKnows /\ \A a \in Alarms \ spoiled : Told(a)

LEMMA TimerTells ==
    ASSUME EInv, NEW b \in Alarms, TimerStep(b), NEW a \in Alarms \ spoiled'
    PROVE  Told(a)'
<1>0. /\ timer \in [Alarms -> Timers] /\ severity \in [Alarms -> Severities] /\ original \in [Alarms -> 0..Top]
      /\ a \in Alarms \ spoiled
  BY DEF EInv, IInv, TypeOK, Timers, TimerStep, TimerWakes, TimerReadFails, Escalate, SaveSeverity, PublishEscalation,
         EscalationNotified, EscalationHandlerTimesOut, WriteSeverity, Spoil
<1>1. /\ UNCHANGED <<status, work>>
      /\ (<<a, "recovered">> \in seen' <=> <<a, "recovered">> \in seen)
      /\ (<<a, "acknowledged">> \in seen' <=> <<a, "acknowledged">> \in seen)
  BY DEF TimerStep, TimerWakes, TimerReadFails, Escalate, SaveSeverity, PublishEscalation, EscalationNotified,
         EscalationHandlerTimesOut
<1>2. \A act, pc : Carriers(a, act, pc)' = Carriers(a, act, pc)
  BY <1>1 DEF Carriers
<1>3. Told(a)
  BY <1>0 DEF EInv
<1>4. CASE a # b
  <2>1. UNCHANGED <<timer[a], severity[a], original[a]>>
    BY <1>0, <1>4 DEF TimerStep, TimerWakes, TimerReadFails, Escalate, Remember, SaveSeverity, WriteSeverity,
           PublishEscalation, NextTimer, StartTimer, EscalationNotified, EscalationHandlerTimesOut
  <2>2. QED
    BY <1>1, <1>2, <1>3, <2>1 DEF Told, RecoveryTold, AcknowledgmentTold, Raised
<1>5. CASE a = b
  <2>1. CASE TimerWakes(a) \/ TimerReadFails(a)
    BY <1>0, <1>1, <1>2, <1>3, <2>1 DEF TimerWakes, TimerReadFails, MayEscalate, NoTimer, FailedTimer, Told,
                                        RecoveryTold, AcknowledgmentTold, Raised
  <2>2. CASE timer[a].pc \in {"checked", "saving", "saved", "notifying"}
    <3>1. /\ Carriers(a, "recovered", "persist") # {} \/ status[a] # "recovered"
             \/ (<<a, "recovered">> \notin seen /\ Carriers(a, "recovered", "publish") # {})
          /\ Carriers(a, "acknowledged", "persist") # {} \/ <<a, "acknowledged">> \notin seen
      BY <1>3, <2>2 DEF Told, RecoveryTold, AcknowledgmentTold
    <3>2. RecoveryTold(a)' /\ AcknowledgmentTold(a)'
      BY <1>1, <1>2, <1>3, <3>1 DEF Told, RecoveryTold, AcknowledgmentTold
    <3>3. original'[a] = RuleSeverity \/ UNCHANGED <<severity, original>>
      <4>1. original[a] \in {0, RuleSeverity} /\ (timer[a].level # RuleSeverity => original[a] = RuleSeverity)
            /\ (timer[a].pc \in {"saving", "saved", "notifying"} => original[a] = RuleSeverity)
        BY <2>2 DEF EInv, RememberedIsRules
      <4>2. CASE Escalate(a)
        BY <1>0, <4>1, <4>2, LevelOrder DEF Escalate, Remember
      <4>3. CASE ~Escalate(a)
        BY <1>5, <2>2, <4>1, <4>3 DEF TimerStep, TimerWakes, TimerReadFails, SaveSeverity, PublishEscalation, EscalationNotified,
               EscalationHandlerTimesOut
      <4>4. QED
        BY <4>2, <4>3
    <3>4. QED
      BY <1>1, <1>3, <3>2, <3>3 DEF Told, Raised
  <2>3. QED
    BY <1>5, <2>1, <2>2 DEF TimerStep, TimerWakes, TimerReadFails, Escalate, SaveSeverity,
                            PublishEscalation, EscalationNotified, EscalationHandlerTimesOut
<1>6. QED
  BY <1>4, <1>5

LEMMA PublishTells ==
    ASSUME EInv, NEW p \in Procs, Publish(p) \/ PersistFails(p) \/ HandlerTimesOut(p),
           NEW a \in Alarms \ spoiled'
    PROVE  Told(a)'
<1>0. /\ work \in [Procs -> Works] /\ a \in Alarms \ spoiled
      /\ UNCHANGED <<status, severity, original, timer>>
  BY DEF EInv, IInv, TypeOK, Works, Publish, PersistFails, HandlerTimesOut, Spoil
<1>1. Told(a)
  BY <1>0 DEF EInv
<1>2. work' = [work EXCEPT ![p] = work'[p]] /\ (work'[p] = Free \/ work'[p] = [work[p] EXCEPT !.pc = "persist"])
  BY <1>0 DEF Publish, PersistFails, HandlerTimesOut, Done, Goto
<1>3. Raised(a)'
  BY <1>0, <1>1, <1>2 DEF Told, Raised, Free, Publish, PersistFails, HandlerTimesOut, Spoil, At, Works
<1>4. CASE work[p].alarm # a \/ PersistFails(p) \/ HandlerTimesOut(p)
  <2>1. work[p].alarm # a
    BY <1>0, <1>4 DEF PersistFails, HandlerTimesOut, Spoil
  <2>2. /\ <<a, "recovered">> \in seen' <=> <<a, "recovered">> \in seen
        /\ <<a, "acknowledged">> \in seen' <=> <<a, "acknowledged">> \in seen
    BY <2>1 DEF Publish, PersistFails, HandlerTimesOut
  <2>3. work'[p].alarm # a
    BY <1>0, <1>2, <2>1, NamesAssumption DEF Free, Works
  <2>4. \A act, pc : Carriers(a, act, pc)' = Carriers(a, act, pc)
    BY <1>0, <1>2, <2>1, <2>3 DEF Carriers
  <2>5. QED
    BY <1>0, <1>1, <1>3, <2>2, <2>4 DEF Told, RecoveryTold, AcknowledgmentTold
<1>5. CASE work[p].alarm = a /\ Publish(p)
  <2>0. PICK act : act = work[p].act
    OBVIOUS
  <2>1. p \in Carriers(a, act, "publish") /\ seen' = seen \cup {<<a, act>>}
    BY <1>5, <2>0 DEF Publish, At, Carriers
  <2>2. <<a, act>> \notin seen => p \in Carriers(a, act, "persist")'
    BY <1>0, <1>5, <2>0 DEF Publish, Goto, Carriers, Works
  <2>3. ASSUME NEW t PROVE /\ Carriers(a, t, "publish")' \subseteq Carriers(a, t, "publish")
                           /\ t # act => Carriers(a, t, "publish")' = Carriers(a, t, "publish")
                           /\ Carriers(a, t, "persist") \subseteq Carriers(a, t, "persist")'
                           /\ t # act => (<<a, t>> \in seen' <=> <<a, t>> \in seen)
    BY <1>0, <1>2, <1>5, <2>0 DEF Carriers, Works, Free, Publish, At
  <2>4. RecoveryTold(a)'
    <3>1. CASE act = "recovered"
      BY <1>0, <1>1, <2>1, <2>2, <2>3, <3>1 DEF Told, RecoveryTold
    <3>2. CASE act # "recovered"
      BY <1>0, <1>1, <2>3, <3>2 DEF Told, RecoveryTold
    <3>3. QED
      BY <3>1, <3>2
  <2>5. AcknowledgmentTold(a)'
    <3>1. CASE act = "acknowledged"
      BY <1>0, <1>1, <2>1, <2>2, <2>3, <3>1 DEF Told, AcknowledgmentTold
    <3>2. CASE act # "acknowledged"
      BY <1>0, <1>1, <2>3, <3>2 DEF Told, AcknowledgmentTold
    <3>3. QED
      BY <3>1, <3>2
  <2>6. QED
    BY <1>3, <2>4, <2>5 DEF Told
<1>6. QED
  BY <1>4, <1>5

LEMMA HandlerTells ==
    ASSUME EInv, NEW p \in Procs, HandlerStep(p), NEW a \in Alarms \ spoiled'
    PROVE  Told(a)'
<1> USE DEF HandleFiring, Silenced, NotSilenced, Record, FiringNotified, HandleRecovery, Restore,
            RecoveryNotified, HandleAcknowledgment, AcknowledgmentNotified
<1>0. /\ work \in [Procs -> Works] /\ timer \in [Alarms -> Timers] /\ original \in [Alarms -> 0..Top]
      /\ status \in [Alarms -> {"none", "firing", "acknowledged", "recovered", "deleted"}]
      /\ severity \in [Alarms -> Severities]
  BY DEF EInv, IInv, TypeOK, Works, Timers
<1>1. work[p].alarm \in Alarms /\ work[p].pc \in {"persist", "filter", "record", "restore", "notify"}
  BY DEF HandlerStep, At, EInv, IInv, WorkHasAlarm
<1>2. a \in Alarms \ spoiled /\ Told(a)
  BY DEF HandlerStep, WriteSeverity, Spoil, EInv
<1>3. /\ UNCHANGED <<seen, cached>>
      /\ work' = [work EXCEPT ![p] = work'[p]]
      /\ work'[p] = Free \/ (/\ work'[p].alarm = work[p].alarm
                             /\ work'[p].pc \in {"filter", "record", "restore", "notify"})
  <2>1. CASE HandleRecovery(p)
    BY <1>0, <2>1 DEF Works
  <2>2. CASE ~HandleRecovery(p)
    BY <1>0, <2>2 DEF HandlerStep, Done, Goto, Works
  <2>3. QED
    BY <2>1, <2>2
<1>4. ASSUME NEW t
      PROVE  /\ Carriers(a, t, "publish")' = Carriers(a, t, "publish")
             /\ work[p].pc # "persist" \/ work[p].act # t \/ work[p].alarm # a
                  => Carriers(a, t, "persist")' = Carriers(a, t, "persist")
  BY <1>0, <1>1, <1>3 DEF Carriers, Free, Works
<1>5. UNCHANGED status[a]
  <2>1. CASE Record(p)
    BY <1>0, <1>1, <1>2, <2>1 DEF InsertRow, Spoil
  <2>2. CASE ~Record(p)
    BY <2>2 DEF HandlerStep
  <2>3. QED
    BY <2>1, <2>2
<1>6. CASE work[p].alarm # a
  <2>1. UNCHANGED <<severity[a], original[a], timer[a]>>
    BY <1>0, <1>1, <1>6 DEF HandlerStep, InsertRow, CancelTimer, StartTimer, WriteSeverity
  <2>2. Raised(a)'
    BY <1>0, <1>2, <1>3, <1>5, <1>6, <2>1 DEF Told, Raised
  <2>3. QED
    BY <1>2, <1>3, <1>4, <1>5, <1>6, <2>1, <2>2 DEF Told, RecoveryTold, AcknowledgmentTold
<1>7. CASE work[p].alarm = a
  <2>1. CASE \/ HandleFiring(p) \/ Silenced(p) \/ NotSilenced(p) \/ Record(p)
             \/ RecoveryNotified(p) \/ AcknowledgmentNotified(p)
    <3>1. UNCHANGED <<severity[a], original, timer>> /\ (work[p].pc = "persist" => work[p].act = "firing")
          /\ work[p].pc # "restore"
      BY <1>0, <1>2, <1>7, <2>1 DEF At, Spoil, InsertRow
    <3>2. Raised(a)'
      BY <1>0, <1>1, <1>2, <1>3, <1>5, <3>1 DEF Told, Raised
    <3>3. QED
      BY <1>2, <1>3, <1>4, <1>5, <3>1, <3>2 DEF Told, RecoveryTold, AcknowledgmentTold
  <2>2. CASE FiringNotified(p)
    <3>1. /\ UNCHANGED <<severity, original>> /\ work[p].pc = "notify"
          /\ timer'[a].pc = "sleep" /\ timer'[a].level = RuleSeverity
      BY <1>0, <1>7, <2>2 DEF At, StartTimer
    <3>2. Raised(a)'
      BY <1>0, <1>1, <1>2, <1>3, <1>5, <3>1 DEF Told, Raised
    <3>3. QED
      BY <1>2, <1>3, <1>4, <1>5, <3>1, <3>2 DEF Told, RecoveryTold, AcknowledgmentTold
  <2>3. CASE HandleRecovery(p)
    <3>1. /\ work[p].pc = "persist" /\ work[p].act = "recovered"
          /\ original'[a] = 0 /\ timer'[a].pc = "none"
      BY <1>0, <1>1, <1>7, <2>3 DEF At, CancelTimer, NoTimer
    <3>2. Raised(a)'
      <4>1. CASE original[a] = 0
        <5>1. timer[a].pc # "saving"
          BY <1>2, <4>1, LevelOrder DEF EInv, RememberedIsRules
        <5>2. UNCHANGED severity
          BY <1>7, <2>3, <5>1 DEF CancelTimer
        <5>3. QED
          BY <1>0, <1>2, <1>3, <1>5, <3>1, <4>1, <5>2, LevelOrder DEF Told, Raised
      <4>2. CASE original[a] # 0
        <5>1. work'[p].pc = "restore" /\ work'[p].alarm = a
          BY <1>0, <1>2, <1>7, <2>3, <4>2 DEF Works
        <5>2. QED
          BY <5>1 DEF Raised
      <4>3. QED
        BY <4>1, <4>2
    <3>3. QED
      BY <1>2, <1>3, <1>4, <1>5, <3>1, <3>2 DEF Told, RecoveryTold, AcknowledgmentTold
  <2>4. CASE Restore(p)
    <3>1. /\ work[p].pc = "restore" /\ work[p].was = RuleSeverity /\ UNCHANGED <<original, timer>>
          /\ status[a] = "deleted" \/ severity'[a] = RuleSeverity
      BY <1>0, <1>2, <1>7, <2>4 DEF At, WriteSeverity, Spoil, EInv, RememberedIsRules
    <3>2. Raised(a)'
      BY <1>5, <3>1 DEF Raised
    <3>3. QED
      BY <1>2, <1>3, <1>4, <1>5, <3>1, <3>2 DEF Told, RecoveryTold, AcknowledgmentTold
  <2>5. CASE HandleAcknowledgment(p)
    <3>1. /\ work[p].pc = "persist" /\ work[p].act = "acknowledged" /\ UNCHANGED original
          /\ timer'[a].pc = "none"
      BY <1>0, <1>1, <1>7, <2>5 DEF At, CancelTimer, NoTimer
    <3>2. UNCHANGED severity \/ original[a] = RuleSeverity
      BY <1>2, <1>7, <2>5 DEF CancelTimer, EInv, RememberedIsRules
    <3>3. Raised(a)'
      BY <1>0, <1>2, <1>3, <1>5, <3>1, <3>2 DEF Told, Raised
    <3>4. QED
      BY <1>2, <1>3, <1>4, <1>5, <3>1, <3>3 DEF Told, RecoveryTold, AcknowledgmentTold
  <2>6. QED
    BY <2>1, <2>2, <2>3, <2>4, <2>5 DEF HandlerStep
<1>8. QED
  BY <1>6, <1>7

LEMMA RequestTells ==
    ASSUME EInv, NEW p \in Users, Request(p) \/ Forget(p) \/ Erase(p), NEW a \in Alarms \ spoiled'
    PROVE  Told(a)'
<1>0. /\ p \in Procs /\ work \in [Procs -> Works] /\ timer \in [Alarms -> Timers]
      /\ original \in [Alarms -> 0..Top] /\ severity \in [Alarms -> Severities]
      /\ status \in [Alarms -> {"none", "firing", "acknowledged", "recovered", "deleted"}]
  BY DEF EInv, IInv, TypeOK, Works, Timers, Procs
<1>1. a \in Alarms \ spoiled /\ Told(a) /\ UNCHANGED seen
  BY DEF Request, Ack, Clear, Delete, Forget, Erase, Spoil, EInv
<1>2. ASSUME NEW b \in Alarms, Ack(p, b) \/ Clear(p, b) PROVE Told(a)'
  <2>1. PICK act \in {"acknowledged", "recovered"} :
          /\ With(p, "publish", b, act) /\ work[p].pc = "idle"
          /\ status' = [status EXCEPT ![b] = act] /\ status[b] \in {"firing", "acknowledged"}
          /\ act = "acknowledged" => status[b] = "firing"
    BY <1>2 DEF Ack, Clear, At, Active
  <2>2. UNCHANGED <<severity, original, timer>>
    BY <1>2 DEF Ack, Clear
  <2>3. Raised(a)'
    BY <1>0, <1>1, <2>1, <2>2 DEF Told, Raised, With
  <2>4. ASSUME NEW t
        PROVE  /\ Carriers(a, t, "publish")' = Carriers(a, t, "publish") \cup (IF a = b /\ t = act THEN {p} ELSE {})
               /\ Carriers(a, t, "persist")' = Carriers(a, t, "persist")
    BY <1>0, <2>1 DEF Carriers, With
  <2>5. CASE a # b
    BY <1>0, <1>1, <2>1, <2>2, <2>3, <2>4, <2>5 DEF Told, RecoveryTold, AcknowledgmentTold
  <2>6. CASE a = b /\ act = "recovered"
    BY <1>0, <1>1, <2>1, <2>2, <2>3, <2>4, <2>6 DEF Told, RecoveryTold, AcknowledgmentTold
  <2>7. CASE a = b /\ act = "acknowledged"
    BY <1>0, <1>1, <2>1, <2>2, <2>3, <2>4, <2>7 DEF Told, RecoveryTold, AcknowledgmentTold
  <2>8. QED
    BY <2>1, <2>5, <2>6, <2>7
<1>3. ASSUME NEW b \in Alarms, Delete(p, b) PROVE Told(a)'
  <2>1. /\ With(p, "forget", b, "recovered") /\ work[p].pc = "idle" /\ UNCHANGED status
        /\ original' = [original EXCEPT ![b] = 0] /\ timer' = [timer EXCEPT ![b] = NoTimer]
        /\ a # b => UNCHANGED severity[a]
    BY <1>0, <1>3 DEF Delete, At, CancelTimer
  <2>2. Raised(a)'
    <3>1. CASE a = b
      BY <1>0, <2>1, <3>1 DEF Raised, With
    <3>2. CASE a # b
      BY <1>0, <1>1, <2>1, <3>2 DEF Told, Raised, With
    <3>3. QED
      BY <3>1, <3>2
  <2>3. ASSUME NEW t
        PROVE  /\ Carriers(a, t, "publish")' = Carriers(a, t, "publish")
               /\ Carriers(a, t, "persist")' = Carriers(a, t, "persist")
    BY <1>0, <2>1 DEF Carriers, With
  <2>4. QED
    BY <1>0, <1>1, <2>1, <2>2, <2>3 DEF Told, RecoveryTold, AcknowledgmentTold, NoTimer
<1>4. CASE Forget(p) \/ Erase(p)
  <2>1. /\ UNCHANGED <<severity, original, timer>>
        /\ work[p].pc \in {"forget", "erase"}
        /\ status'[a] = status[a] \/ status'[a] = "deleted"
    BY <1>0, <1>4 DEF Forget, Erase, At
  <2>2. /\ work' = [work EXCEPT ![p] = work'[p]]
        /\ work'[p] = Free \/ (work'[p].alarm = work[p].alarm /\ work'[p].pc = "erase")
    BY <1>0, <1>4 DEF Forget, Erase, Done, Goto, Works
  <2>3. ASSUME NEW t
        PROVE  /\ Carriers(a, t, "publish")' = Carriers(a, t, "publish")
               /\ Carriers(a, t, "persist")' = Carriers(a, t, "persist")
    BY <1>0, <2>1, <2>2 DEF Carriers, Free
  <2>4. Raised(a)'
    <3>1. CASE Forget(p)
      BY <1>0, <1>1, <2>1, <3>1 DEF Told, Raised, Forget, Goto, Works
    <3>2. CASE Erase(p) /\ work[p].alarm = a
      BY <1>0, <1>1, <3>2 DEF Raised, Erase, Spoil
    <3>3. CASE Erase(p) /\ work[p].alarm # a
      BY <1>0, <1>1, <2>1, <3>3 DEF Told, Raised, Erase, Done
    <3>4. QED
      BY <1>4, <3>1, <3>2, <3>3
  <2>5. QED
    BY <1>1, <2>1, <2>3, <2>4 DEF Told, RecoveryTold, AcknowledgmentTold
<1>5. QED
  BY <1>2, <1>3, <1>4 DEF Request

LEMMA EvaluationTells ==
    ASSUME EInv, Evaluation, NEW a \in Alarms \ spoiled'
    PROVE  Told(a)'
<1> USE EvaluatorIsAProc
<1> DEFINE w == work[Evaluator]
<1>0. /\ work \in [Procs -> Works] /\ severity \in [Alarms -> Severities]
      /\ status \in [Alarms -> {"none", "firing", "acknowledged", "recovered", "deleted"}]
      /\ NewAlarm \subseteq {b \in Alarms : status[b] = "none"}
  BY DEF EInv, IInv, TypeOK, Works, NewAlarm
<1>1. a \in Alarms \ spoiled /\ Told(a) /\ UNCHANGED <<seen, original, timer>>
  BY DEF Evaluation, Match, Look, Create, Unmatch, Query, QueryFails, RecoverRow, CacheExpires, CancelEvaluation,
         Spoil, EInv
<1>2. /\ w.pc \notin {"forget", "erase"} /\ w.act # "acknowledged"
      /\ w.pc \in {"recover", "restore"} => w.act = "recovered"
      /\ w.pc = "recover" => w.alarm \in Alarms /\ status[w.alarm] # "none"
  BY DEF EInv, EvaluatorKnows, IInv, OnlyEvaluatorFires, WorkHasAlarm
\* What the events say of a, when the evaluator's own does not say it.
<1>3. ASSUME \/ status'[a] = status[a] /\ severity'[a] = severity[a]
             \/ status[a] = "none" /\ status'[a] = "firing" /\ severity'[a] = RuleSeverity,
             work' = [work EXCEPT ![Evaluator] = work'[Evaluator]],
             w.alarm # a \/ w.act \notin {"recovered", "acknowledged"} \/ w.pc \notin {"publish", "persist", "restore"},
             \/ work'[Evaluator].alarm # a
             \/ work'[Evaluator].act \notin {"recovered", "acknowledged"}
             \/ work'[Evaluator].pc \notin {"publish", "persist"}
      PROVE  Told(a)'
  <2>1. ASSUME NEW t \in {"recovered", "acknowledged"}
        PROVE  /\ Carriers(a, t, "publish")' = Carriers(a, t, "publish")
               /\ Carriers(a, t, "persist")' = Carriers(a, t, "persist")
    BY <1>0, <1>3, <2>1 DEF Carriers
  <2>2. Raised(a)'
    BY <1>0, <1>1, <1>2, <1>3 DEF Told, Raised
  <2>3. QED
    BY <1>1, <1>3, <2>1, <2>2 DEF Told, RecoveryTold, AcknowledgmentTold
<1>4. CASE Match \/ Look \/ Unmatch \/ Query \/ QueryFails \/ CacheExpires
  <2>1. UNCHANGED <<status, severity>>
    BY <1>4 DEF Match, Look, Unmatch, Query, QueryFails, CacheExpires
  <2>2. \/ UNCHANGED work
        \/ /\ w.pc \in {"idle", "look", "query"}
           /\ work' = [work EXCEPT ![Evaluator] = work'[Evaluator]]
           /\ work'[Evaluator].pc \in {"idle", "look", "create", "query", "recover"}
    BY <1>0, <1>4 DEF Match, Look, Unmatch, Query, QueryFails, CacheExpires, At, Goto, With, Done, Free, Works
  <2>3. CASE UNCHANGED work
    BY <1>1, <2>1, <2>3 DEF Told, RecoveryTold, AcknowledgmentTold, Raised, Carriers
  <2>4. QED
    BY <1>3, <2>1, <2>2, <2>3
<1>5. CASE Create
  <2>1. PICK b \in NewAlarm : InsertRow(b) /\ With(Evaluator, "publish", b, "firing")
    BY <1>5 DEF Create
  <2>2. work'[Evaluator].act = "firing" /\ work' = [work EXCEPT ![Evaluator] = work'[Evaluator]] /\ w.pc = "create"
    BY <1>0, <1>5, <2>1 DEF With, Create, At
  <2>3. QED
    BY <1>0, <1>3, <2>1, <2>2 DEF InsertRow
<1>6. CASE RecoverRow
  <2>1. /\ w.pc = "recover" /\ w.act = "recovered" /\ w.alarm \in Alarms /\ status[w.alarm] # "none"
        /\ UNCHANGED severity
        /\ status' = IF w.alarm \in Active THEN [status EXCEPT ![w.alarm] = "recovered"] ELSE status
        /\ IF status[w.alarm] = "deleted" THEN Done(Evaluator) ELSE Goto(Evaluator, "publish")
    BY <1>2, <1>6 DEF RecoverRow, At
  <2>2. work' = [work EXCEPT ![Evaluator] = work'[Evaluator]]
    BY <1>0, <2>1 DEF Done, Goto
  <2>3. CASE w.alarm # a \/ status[a] = "deleted"
    <3>1. status'[a] = status[a] /\ severity'[a] = severity[a]
      BY <1>0, <2>1, <2>3 DEF Active
    <3>2. work'[Evaluator].alarm # a \/ work'[Evaluator].pc = "idle"
      BY <1>0, <2>1, <2>3 DEF Done, Goto, Free, Works
    <3>3. QED
      BY <1>3, <2>1, <2>2, <3>1, <3>2
  <2>4. CASE w.alarm = a /\ status[a] # "deleted"
    <3>1. status'[a] = "recovered" /\ Goto(Evaluator, "publish")
      BY <1>0, <2>1, <2>4 DEF Active
    <3>2. Evaluator \in Carriers(a, "recovered", "publish")'
      BY <1>0, <2>1, <2>4, <3>1 DEF Goto, Carriers, Works
    <3>3. /\ Carriers(a, "acknowledged", "publish")' = Carriers(a, "acknowledged", "publish")
          /\ Carriers(a, "acknowledged", "persist")' = Carriers(a, "acknowledged", "persist")
          /\ Carriers(a, "recovered", "persist")' = Carriers(a, "recovered", "persist")
      BY <1>0, <2>1, <2>4, <3>1 DEF Goto, Carriers, Works
    <3>4. <<a, "recovered">> \in seen => status[a] = "recovered"
      BY <1>1, <2>4 DEF Told, RecoveryTold
    <3>5. RecoveryTold(a)'
      <4>1. CASE <<a, "recovered">> \notin seen
        BY <1>1, <3>1, <3>2, <4>1 DEF RecoveryTold
      <4>2. CASE <<a, "recovered">> \in seen
        BY <1>1, <3>1, <3>3, <3>4, <4>2 DEF Told, RecoveryTold
      <4>3. QED
        BY <4>1, <4>2
    <3>6. AcknowledgmentTold(a)'
      BY <1>1, <3>1, <3>3 DEF Told, AcknowledgmentTold
    <3>7. Raised(a)'
      BY <1>0, <1>1, <2>1, <2>4, <3>1 DEF Told, Raised, Goto
    <3>8. QED
      BY <3>5, <3>6, <3>7 DEF Told
  <2>5. QED
    BY <2>3, <2>4
<1>7. CASE CancelEvaluation
  <2>1. /\ work' = [work EXCEPT ![Evaluator] = work'[Evaluator]]
        /\ \/ work'[Evaluator] = Free
           \/ work'[Evaluator].act = "firing" /\ w.act = "firing"
    BY <1>0, <1>7 DEF CancelEvaluation, Goto, Done, Works
  <2>2. CASE w.pc = "create" /\ \E b \in NewAlarm : InsertRow(b) /\ Spoil(b)
    <3>1. status'[a] = status[a] /\ severity'[a] = severity[a]
      BY <1>0, <2>2 DEF InsertRow, Spoil
    <3>2. QED
      BY <1>3, <2>1, <2>2, <3>1 DEF Free
  <2>3. CASE /\ w.pc = "recover" /\ w.alarm \in Active
             /\ status' = [status EXCEPT ![w.alarm] = "recovered"]
             /\ Spoil(w.alarm) /\ UNCHANGED severity
    <3>1. status'[a] = status[a] /\ severity'[a] = severity[a]
      BY <1>0, <2>3 DEF Spoil
    <3>2. QED
      BY <1>3, <2>1, <2>3, <3>1 DEF Free
  <2>4. CASE /\ UNCHANGED <<status, severity>>
             /\ \/ w.pc = "publish" \/ (w.pc \in {"persist", "filter", "record", "restore", "notify"}
                                        /\ w.act = "recovered")
                => Spoil(w.alarm)
    <3>1. w.alarm # a \/ w.act \notin {"recovered", "acknowledged"} \/ w.pc \notin {"publish", "persist", "restore"}
      BY <1>2, <2>4 DEF Spoil
    <3>2. QED
      BY <1>3, <2>1, <2>4, <3>1 DEF Free
  <2>5. QED
    BY <1>7, <2>2, <2>3, <2>4 DEF CancelEvaluation
<1>8. QED
  BY <1>4, <1>5, <1>6, <1>7 DEF Evaluation

LEMMA EvaluatorKnowsNext == EInv /\ [Next]_vars => EvaluatorKnows'
<1> SUFFICES ASSUME EInv, [Next]_vars PROVE EvaluatorKnows'
  OBVIOUS
<1> USE EvaluatorIsAProc, NamesAssumption
<1>0. /\ work \in [Procs -> Works] /\ cached \in Alarms \cup {NoAlarm, Unknown}
      /\ status \in [Alarms -> {"none", "firing", "acknowledged", "recovered", "deleted"}]
      /\ \A p \in Procs : work[p].pc \notin {"idle", "look", "create", "query"} => work[p].alarm \in Alarms
  BY DEF EInv, IInv, TypeOK, Works, WorkHasAlarm
<1>1. CASE Evaluation
  <2> DEFINE w == work[Evaluator]
             n == work'[Evaluator]
  <2>1. \A a \in Alarms : status[a] # "none" => status'[a] # "none"
    BY <1>0, <1>1 DEF Evaluation, Match, Look, Create, Unmatch, Query, QueryFails, RecoverRow, CacheExpires,
                      CancelEvaluation, InsertRow, NewAlarm
  <2>2. cached' \in Alarms => cached' = cached \/ (cached' \in Active /\ UNCHANGED status)
    BY <1>0, <1>1 DEF Evaluation, Match, Look, Create, Unmatch, Query, QueryFails, RecoverRow, CacheExpires,
                      CancelEvaluation, FiringAlarm
  <2>3. n.pc = "recover" => \/ n = w
                            \/ n.alarm = cached /\ cached \in Alarms
                            \/ n.alarm \in Active /\ UNCHANGED status
    BY <1>0, <1>1 DEF Evaluation, Match, Look, Create, Unmatch, Query, QueryFails, RecoverRow, CacheExpires,
                      CancelEvaluation, FiringAlarm, Goto, With, Done, Free, Works
  <2>4. n.act # "acknowledged" /\ n.pc \notin {"forget", "erase"}
    BY <1>0, <1>1 DEF EInv, EvaluatorKnows, Evaluation, Match, Look, Create, Unmatch, Query, QueryFails, RecoverRow,
                      CacheExpires, CancelEvaluation, Goto, With, Done, Free, Works
  <2>5. \A a \in Active : a \in Alarms /\ status[a] # "none"
    BY DEF Active
  <2>6. w.pc = "recover" => w.alarm \in Alarms /\ status[w.alarm] # "none"
    BY <1>0 DEF EInv, EvaluatorKnows
  <2>7. cached \in Alarms => status[cached] # "none"
    BY DEF EInv, EvaluatorKnows
  <2> HIDE DEF n, w
  <2>8. cached' \in Alarms => status'[cached'] # "none"
    BY <2>1, <2>2, <2>5, <2>7
  <2>9. n.pc = "recover" => status'[n.alarm] # "none"
    BY <2>1, <2>3, <2>5, <2>6, <2>7
  <2>10. QED
    BY <2>4, <2>8, <2>9 DEF EvaluatorKnows, n
<1>2. ASSUME UNCHANGED cached, \A a \in Alarms : status[a] # "none" => status'[a] # "none",
             \/ work'[Evaluator] = work[Evaluator]
             \/ /\ work'[Evaluator].act \in {work[Evaluator].act, "firing"}
                /\ work'[Evaluator].pc \notin {"recover", "forget", "erase"}
      PROVE  EvaluatorKnows'
  BY <1>0, <1>2 DEF EInv, EvaluatorKnows
<1>3. ASSUME NEW p \in Procs, Publish(p) \/ PersistFails(p) \/ HandlerTimesOut(p) PROVE EvaluatorKnows'
  <2>1. UNCHANGED <<cached, status>>
    BY <1>3 DEF Publish, PersistFails, HandlerTimesOut
  <2>2. \/ work'[Evaluator] = work[Evaluator]
        \/ /\ work'[Evaluator].act \in {work[Evaluator].act, "firing"}
           /\ work'[Evaluator].pc \notin {"recover", "forget", "erase"}
    BY <1>0, <1>3 DEF Publish, PersistFails, HandlerTimesOut, Goto, Done, Free, Works
  <2>3. QED
    BY <1>2, <2>1, <2>2
<1>4. ASSUME NEW p \in Procs, HandlerStep(p) PROVE EvaluatorKnows'
  <2>1. UNCHANGED cached /\ \A a \in Alarms : status[a] # "none" => status'[a] # "none"
    BY <1>0, <1>4 DEF HandlerStep, HandleFiring, Silenced, NotSilenced, Record, FiringNotified, HandleRecovery,
           Restore, RecoveryNotified, HandleAcknowledgment, AcknowledgmentNotified, InsertRow
  <2>2. \/ work'[Evaluator] = work[Evaluator]
        \/ /\ work'[Evaluator].act \in {work[Evaluator].act, "firing"}
           /\ work'[Evaluator].pc \notin {"recover", "forget", "erase"}
    <3>1. CASE HandleRecovery(p)
      BY <1>0, <3>1 DEF HandleRecovery, Works
    <3>2. CASE ~HandleRecovery(p)
      BY <1>0, <1>4, <3>2 DEF HandlerStep, HandleFiring, Silenced, NotSilenced, Record, FiringNotified,
             Restore, RecoveryNotified, HandleAcknowledgment, AcknowledgmentNotified, Goto, Done, Free, Works
    <3>3. QED
      BY <3>1, <3>2
  <2>3. QED
    BY <1>2, <2>1, <2>2
<1>5. ASSUME NEW p \in Users, Request(p) \/ Forget(p) \/ Erase(p) PROVE EvaluatorKnows'
  <2>1. UNCHANGED cached /\ \A a \in Alarms : status[a] # "none" => status'[a] # "none"
    BY <1>0, <1>5 DEF Request, Ack, Clear, Delete, Forget, Erase
  <2>2. work'[Evaluator] = work[Evaluator]
    BY <1>0, <1>5 DEF Request, Ack, Clear, Delete, Forget, Erase, Goto, With, Done, Procs
  <2>3. QED
    BY <1>2, <2>1, <2>2
<1>6. ASSUME NEW a \in Alarms, TimerStep(a) PROVE EvaluatorKnows'
  BY <1>2, <1>6 DEF TimerStep, TimerWakes, TimerReadFails, Escalate, SaveSeverity,
                    PublishEscalation, EscalationNotified, EscalationHandlerTimesOut
<1>7. CASE ConditionChanges \/ UNCHANGED vars
  BY <1>2, <1>7 DEF ConditionChanges, vars
<1>8. QED
  BY <1>1, <1>3, <1>4, <1>5, <1>6, <1>7 DEF Next

LEMMA EInvNext == EInv /\ [Next]_vars => EInv'
<1> SUFFICES ASSUME EInv, [Next]_vars PROVE EInv'
  OBVIOUS
<1>1. IInv' /\ RememberedIsRules' /\ EvaluatorKnows'
  BY IInvNext, RemembersNext, EvaluatorKnowsNext DEF EInv
<1>2. ASSUME NEW a \in Alarms \ spoiled' PROVE Told(a)'
  <2>1. CASE ConditionChanges \/ UNCHANGED vars
    BY <2>1 DEF EInv, ConditionChanges, vars, Told, RecoveryTold, AcknowledgmentTold, Raised, Carriers
  <2>2. QED
    BY <2>1, EvaluationTells, PublishTells, HandlerTells, TimerTells, RequestTells DEF Next
<1>3. QED
  BY <1>1, <1>2 DEF EInv

LEMMA InitTells == Init => EInv
<1> SUFFICES ASSUME Init PROVE EInv
  OBVIOUS
<1>1. IInv
  BY InitAlone
<1>2. \A p \in Procs : work[p] = Free
  BY DEF Init
<1>3. RememberedIsRules
  BY <1>2, LevelOrder DEF Init, RememberedIsRules, Free, NoTimer
<1>4. EvaluatorKnows
  BY <1>2, EvaluatorIsAProc, NamesAssumption DEF Init, EvaluatorKnows, Free
<1>5. ASSUME NEW a \in Alarms PROVE Told(a)
  <2>1. /\ Carriers(a, "recovered", "publish") = {} /\ Carriers(a, "acknowledged", "publish") = {}
        /\ seen = {} /\ status[a] = "none" /\ severity[a] = RuleSeverity
    BY <1>2 DEF Carriers, Free, Init
  <2>2. QED
    BY <2>1 DEF Told, RecoveryTold, AcknowledgmentTold, Raised
<1>6. QED
  BY <1>1, <1>3, <1>4, <1>5 DEF EInv

LEMMA EInvHolds == Spec => []EInv
BY InitTells, EInvNext, PTL DEF Spec

(* Whatever a user, a timer or a cancelled evaluation does in between, the *)
(* severity a raised alarm had is remembered or in the hands of a handler. *)
THEOREM RaisedIsRememberedHolds == Spec => []RaisedIsRemembered
<1>1. EInv => RaisedIsRemembered
  BY DEF EInv, Told, Raised, RaisedIsRemembered
<1>2. QED
  BY <1>1, EInvHolds, PTL

(* An alarm that has recovered and that nothing is concerned with any more *)
(* has the severity of its rule, for any number of levels.                 *)
THEOREM SeverityComesBackHolds == Spec => []SeverityComesBack
<1>1. EInv => SeverityComesBack
  <2> SUFFICES ASSUME EInv, NEW a \in Alarms \ spoiled, status[a] = "recovered", Quiet(a)
               PROVE  severity[a] = RuleSeverity
    BY DEF SeverityComesBack
  <2>1. Carriers(a, "recovered", "publish") = {} /\ Carriers(a, "recovered", "persist") = {}
    BY DEF Quiet, Carriers
  <2>2. original[a] = 0
    BY <2>1 DEF EInv, Told, RecoveryTold
  <2>3. QED
    BY <2>2, LevelOrder DEF EInv, Told, Raised, Quiet
<1>2. QED
  BY <1>1, EInvHolds, PTL

(* Once the acknowledgement of an alarm has been handled, no step raises   *)
(* its severity, not even one of a timer started later.                    *)
THEOREM AcknowledgedStaysPutHolds == Spec => AcknowledgedStaysPut
<1> DEFINE Settled(a) == /\ <<a, "acknowledged">> \in seen /\ a \notin spoiled
                         /\ \A p \in Procs : ~(work[p].alarm = a /\ work[p].act = "acknowledged")
<1>1. ASSUME EInv, [Next]_vars, NEW a \in Alarms, Settled(a)
      PROVE  severity'[a] <= severity[a]
  <2>1. timer[a].pc \in {"none", "failed", "sleep"}
    BY <1>1 DEF EInv, Told, AcknowledgmentTold, Carriers
  <2>2. severity \in [Alarms -> Severities] /\ severity[a] >= RuleSeverity /\ severity[a] \in Nat
    BY <1>1 DEF EInv, IInv, TypeOK, RememberedIsRules, Severities
  <2>3. severity'[a] = severity[a] \/ severity'[a] = RuleSeverity
    <3>1. CASE Evaluation
      BY <2>2, <3>1 DEF Evaluation, Match, Look, Create, Unmatch, Query, QueryFails, RecoverRow, CacheExpires,
                        CancelEvaluation, InsertRow
    <3>2. ASSUME NEW p \in Procs, Publish(p) \/ PersistFails(p) \/ HandlerTimesOut(p)
          PROVE  severity'[a] = severity[a]
      BY <3>2 DEF Publish, PersistFails, HandlerTimesOut
    <3>3. ASSUME NEW p \in Procs, HandlerStep(p)
          PROVE  severity'[a] = severity[a] \/ severity'[a] = RuleSeverity
      <4>1. work[p].pc = "restore" => work[p].was = RuleSeverity
        BY <1>1 DEF EInv, RememberedIsRules
      <4>2. QED
        BY <2>1, <2>2, <3>3, <4>1 DEF HandlerStep, HandleFiring, Silenced, NotSilenced, Record, FiringNotified,
               HandleRecovery, Restore, RecoveryNotified, HandleAcknowledgment, AcknowledgmentNotified, At,
               InsertRow, CancelTimer, WriteSeverity
    <3>4. ASSUME NEW p \in Users, Request(p) \/ Forget(p) \/ Erase(p) PROVE severity'[a] = severity[a]
      BY <2>1, <2>2, <3>4 DEF Request, Ack, Clear, Delete, Forget, Erase, CancelTimer
    <3>5. ASSUME NEW b \in Alarms, TimerStep(b) PROVE severity'[a] = severity[a]
      BY <2>1, <2>2, <3>5 DEF TimerStep, TimerWakes, TimerReadFails, Escalate, SaveSeverity, WriteSeverity,
                              PublishEscalation, EscalationNotified, EscalationHandlerTimesOut
    <3>6. CASE ConditionChanges \/ UNCHANGED vars
      BY <3>6 DEF ConditionChanges, vars
    <3>7. QED
      BY <1>1, <3>1, <3>2, <3>3, <3>4, <3>5, <3>6 DEF Next
  <2>4. QED
    BY <2>2, <2>3, LevelOrder
<1>2. EInv /\ [Next]_vars => [\A a \in Alarms : Settled(a) => severity'[a] <= severity[a]]_vars
  BY <1>1
<1>3. QED
  BY <1>2, EInvHolds, PTL DEF Spec, AcknowledgedStaysPut
=============================================================================
