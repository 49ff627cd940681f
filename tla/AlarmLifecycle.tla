--------------------------- MODULE AlarmLifecycle ---------------------------
(***************************************************************************)
(* The alarms of one rule on one device: the rule evaluator                *)
(* (engine/evaluator.py) fires and recovers them, users acknowledge, clear *)
(* and delete them, the alarm service (services/alarm_service.py) notifies *)
(* and escalates them, AlarmRepo (storage/sqlite_repo.py) keeps the rows.  *)
(*                                                                         *)
(* Whoever publishes an alarm event runs the service's handler itself: the *)
(* steps of a handler are steps of the publisher, from one await to the    *)
(* next.  Statistics, names and channels are left out.                     *)
(***************************************************************************)
EXTENDS Naturals, FiniteSets

CONSTANTS
    Alarms,        \* alarm ids the database may hand out
    Users,         \* requests to the API that may be going on at once
    Evaluator,     \* the one evaluation loop
    NoAlarm,       \* "no such alarm", as the evaluator may have cached it
    Unknown,       \* no entry in _firing_cache
    RuleSeverity,  \* severity of the rule
    Top            \* "critical"; severities are numbered, worst last

ASSUME SeveritiesAssumption == Top \in Nat /\ RuleSeverity \in 1..Top

ASSUME NamesAssumption ==
    /\ {NoAlarm, Unknown} \cap Alarms = {} /\ NoAlarm # Unknown
    /\ Evaluator \notin Users

VARIABLES
    condition,   \* the rule's condition holds now
    status,      \* status column, "none" and "deleted" where there is no row
    severity,    \* severity column
    original,    \* _original_severities, 0 where there is no entry
    handled,     \* _handled_alarm_ids
    timer,       \* the task in _escalation_tasks
    cached,      \* _firing_cache
    seen,        \* the ids "alarm:{alarm_id}:{action}" the bus remembers
    work,        \* what the evaluator and every user is doing
    spoiled      \* history: alarms of which a write, an event or a handler was lost

vars == <<condition, status, severity, original, handled, timer, cached, seen, work,
          spoiled>>

Procs == Users \cup {Evaluator}

Severities == 1..Top

Actions == {"firing", "acknowledged", "recovered", "escalated"}

Pcs == {"idle", "look", "create", "query", "recover", "publish", "persist",
        "filter", "record", "restore", "notify", "forget", "erase"}

Free == [pc |-> "idle", alarm |-> NoAlarm, act |-> "firing", was |-> 0]
NoTimer == [pc |-> "none", level |-> 0]

\* No task any more either: its last one ended with an error.
FailedTimer == [pc |-> "failed", level |-> 0]

\* escalate_to of _escalation_configs: one level up.
Target(level) == IF level < Top THEN level + 1 ELSE Top

TypeOK ==
    /\ condition \in BOOLEAN
    /\ status \in [Alarms -> {"none", "firing", "acknowledged", "recovered", "deleted"}]
    /\ severity \in [Alarms -> Severities]
    /\ original \in [Alarms -> 0..Top]
    /\ handled \subseteq Alarms  /\ spoiled \subseteq Alarms
    /\ timer \in [Alarms -> [pc : {"none", "failed", "sleep", "checked", "saving", "saved",
                                   "notifying"}, level : 0..Top]]
    /\ cached \in Alarms \cup {NoAlarm, Unknown}
    /\ seen \subseteq Alarms \X Actions
    /\ work \in [Procs -> [pc : Pcs, alarm : Alarms \cup {NoAlarm}, act : Actions,
                           was : 0..Top]]

Init ==
    /\ condition = FALSE
    /\ status = [a \in Alarms |-> "none"]
    /\ severity = [a \in Alarms |-> RuleSeverity]
    /\ original = [a \in Alarms |-> 0]
    /\ handled = {} /\ spoiled = {} /\ seen = {}
    /\ timer = [a \in Alarms |-> NoTimer]
    /\ cached = Unknown
    /\ work = [p \in Procs |-> Free]

-----------------------------------------------------------------------------
(* AlarmRepo.                                                              *)

\* Mutant of Active: an acknowledged alarm is overlooked.
ActiveUnacknowledged == {a \in Alarms : status[a] = "firing"}

Active == {a \in Alarms : status[a] \in {"firing", "acknowledged"}}

\* Mutant of FiringAlarm: an acknowledged alarm is never answered.
FiringUnacknowledged == IF ActiveUnacknowledged = {} THEN {NoAlarm} ELSE ActiveUnacknowledged

\* What get_firing_by_rule_device may answer.
FiringAlarm == IF Active = {} THEN {NoAlarm} ELSE Active

Goto(p, pc) == work' = [work EXCEPT ![p].pc = pc]

With(p, pc, a, act) ==
    work' = [work EXCEPT ![p] = [pc |-> pc, alarm |-> a, act |-> act, was |-> 0]]

Done(p) == work' = [work EXCEPT ![p] = Free]

At(p, pc) == work[p].pc = pc

Spoil(a) == spoiled' = spoiled \cup {a}

-----------------------------------------------------------------------------
(* The evaluator, on an update of the rule's point: the condition holds.   *)

(* A rule that fired less than 5 s ago is skipped, which only makes this   *)
(* rarer.                                                                  *)
Match ==
    /\ condition /\ At(Evaluator, "idle")
    /\ cached' = Unknown
    /\ Goto(Evaluator, "look")
    /\ UNCHANGED <<condition, status, severity, original, handled, timer, seen, spoiled>>

(* An active alarm only counts one more trigger.                           *)
Look ==
    /\ At(Evaluator, "look")
    /\ \/ Active # {} /\ Done(Evaluator)
       \/ Active = {} /\ Goto(Evaluator, "create")
    /\ UNCHANGED <<condition, status, severity, original, handled, timer, cached, seen, spoiled>>

\* A random id that no row has had.
NewAlarm == LET unused == {a \in Alarms : status[a] = "none"}
            IN  IF unused = {} THEN {} ELSE {CHOOSE a \in unused : TRUE}

InsertRow(a) ==
    /\ status' = [status EXCEPT ![a] = "firing"]
    /\ severity' = [severity EXCEPT ![a] = RuleSeverity]

Create ==
    /\ At(Evaluator, "create")
    /\ \E a \in NewAlarm : InsertRow(a) /\ With(Evaluator, "publish", a, "firing")
    /\ UNCHANGED <<condition, original, handled, timer, cached, seen, spoiled>>

(* ... the condition does not hold: _get_firing_cached, and then recovery. *)

Unmatch ==
    /\ ~condition /\ At(Evaluator, "idle")
    /\ cached # NoAlarm
    /\ \/ cached = Unknown /\ Goto(Evaluator, "query")
       \/ cached \in Alarms /\ With(Evaluator, "recover", cached, "recovered")
    /\ UNCHANGED <<condition, status, severity, original, handled, timer, cached, seen, spoiled>>

Query ==
    /\ At(Evaluator, "query")
    /\ \E a \in FiringAlarm :
         /\ cached' = a
         /\ IF a = NoAlarm THEN Done(Evaluator)
            ELSE With(Evaluator, "recover", a, "recovered")
    /\ UNCHANGED <<condition, status, severity, original, handled, timer, seen, spoiled>>

(* A query that fails is cached as "no alarm".                             *)
QueryFails ==
    /\ At(Evaluator, "query")
    /\ cached' = NoAlarm
    /\ Done(Evaluator)
    /\ UNCHANGED <<condition, status, severity, original, handled, timer, seen, spoiled>>

(* A row that has recovered already is reported as a conflict, which the   *)
(* evaluator takes for a success and publishes.                            *)
RecoverRow ==
    LET a == work[Evaluator].alarm
    IN  /\ At(Evaluator, "recover")
        /\ cached' = Unknown
        /\ status' = IF a \in Active THEN [status EXCEPT ![a] = "recovered"] ELSE status
        /\ IF status[a] = "deleted" THEN Done(Evaluator) ELSE Goto(Evaluator, "publish")
        /\ UNCHANGED <<condition, severity, original, handled, timer, seen, spoiled>>

CacheExpires ==
    /\ cached # Unknown
    /\ cached' = Unknown
    /\ UNCHANGED <<condition, status, severity, original, handled, timer, seen, work, spoiled>>

(* The evaluation is cancelled after 5 s, or its database access fails.    *)
(* An insert or a recovery that was under way may have been committed.     *)
(* A firing event whose publication is cut short is published once more.   *)
CancelEvaluation ==
    LET w == work[Evaluator]
        Published == {"persist", "filter", "record", "restore", "notify"}
    IN  /\ w.pc # "idle"
        /\ \/ w.pc = "create" /\ \E a \in NewAlarm : InsertRow(a) /\ Spoil(a)
           \/ /\ w.pc = "recover" /\ w.alarm \in Active
              /\ status' = [status EXCEPT ![w.alarm] = "recovered"]
              /\ Spoil(w.alarm)
              /\ UNCHANGED severity
           \/ /\ IF w.pc = "publish" \/ (w.pc \in Published /\ w.act = "recovered")
                 THEN Spoil(w.alarm) ELSE UNCHANGED spoiled
              /\ UNCHANGED <<status, severity>>
        /\ IF w.pc \in Published /\ w.act = "firing"
           THEN Goto(Evaluator, "publish") ELSE Done(Evaluator)
        /\ UNCHANGED <<condition, original, handled, timer, cached, seen>>

-----------------------------------------------------------------------------
(* Publishing: an id the bus has seen is dropped.  What is remembered is   *)
(* remembered before the event is written to the outbox and handled.       *)
Publish(p) ==
    LET id == <<work[p].alarm, work[p].act>>
    IN  /\ At(p, "publish")
        /\ seen' = seen \cup {id}
        /\ IF id \in seen THEN Done(p) ELSE Goto(p, "persist")
        /\ UNCHANGED <<condition, status, severity, original, handled, timer, cached, spoiled>>

PersistFails(p) ==
    /\ At(p, "persist")
    /\ Spoil(work[p].alarm)
    /\ Done(p)
    /\ UNCHANGED <<condition, status, severity, original, handled, timer, cached, seen>>

(* The timer task is taken out and cancelled.  A severity it was writing   *)
(* may have reached the database.                                          *)
CancelTimer(a) ==
    /\ timer' = [timer EXCEPT ![a] = NoTimer]
    /\ \/ UNCHANGED severity
       \/ /\ timer[a].pc = "saving" /\ status[a] # "deleted"
          /\ severity' = [severity EXCEPT ![a] = Target(timer[a].level)]

StartTimer(a, level) == timer' = [timer EXCEPT ![a] = [pc |-> "sleep", level |-> level]]

-----------------------------------------------------------------------------
(* The handlers, from the delivery of the event on.                        *)

HandleFiring(p) ==
    LET a == work[p].alarm
    IN  /\ At(p, "persist") /\ work[p].act = "firing"
        /\ handled' = handled \cup {a}
        /\ IF a \in handled THEN Done(p) ELSE Goto(p, "filter")
        /\ UNCHANGED <<condition, status, severity, original, timer, cached, seen, spoiled>>

(* A suppression rule or a silence keeps the alarm quiet.                  *)
Silenced(p) ==
    LET a == work[p].alarm
    IN  /\ At(p, "filter")
        /\ handled' = handled \ {a}
        /\ Done(p)
        /\ UNCHANGED <<condition, status, severity, original, timer, cached, seen, spoiled>>

NotSilenced(p) ==
    /\ At(p, "filter")
    /\ Goto(p, "record")
    /\ UNCHANGED <<condition, status, severity, original, handled, timer, cached, seen, spoiled>>

(* A row that is not there is created from the event.                      *)
Record(p) ==
    LET a == work[p].alarm
    IN  /\ At(p, "record")
        /\ IF status[a] = "deleted" THEN InsertRow(a) /\ Spoil(a)
           ELSE UNCHANGED <<status, severity, spoiled>>
        /\ Goto(p, "notify")
        /\ UNCHANGED <<condition, original, handled, timer, cached, seen>>

(* The alarm may have recovered while its channels were served: its        *)
(* escalation is scheduled all the same.                                   *)
FiringNotified(p) ==
    LET a == work[p].alarm
    IN  /\ At(p, "notify") /\ work[p].act = "firing"
        /\ StartTimer(a, RuleSeverity)
        /\ Done(p)
        /\ UNCHANGED <<condition, status, severity, original, handled, cached, seen, spoiled>>

\* Mutant of HandleRecovery: the remembered severity is thrown away.
HandleRecoveryWithoutRestore(p) ==
    LET a == work[p].alarm
    IN  /\ At(p, "persist") /\ work[p].act = "recovered"
        /\ CancelTimer(a)
        /\ original' = [original EXCEPT ![a] = 0]
        /\ Goto(p, "notify")
        /\ UNCHANGED <<condition, status, handled, cached, seen, spoiled>>

HandleRecovery(p) ==
    LET a == work[p].alarm
    IN  /\ At(p, "persist") /\ work[p].act = "recovered"
        /\ CancelTimer(a)
        /\ original' = [original EXCEPT ![a] = 0]
        /\ work' = [work EXCEPT ![p].was = original[a],
                                ![p].pc = IF original[a] > 0 THEN "restore" ELSE "notify"]
        /\ UNCHANGED <<condition, status, handled, cached, seen, spoiled>>

(* update_severity swallows its errors.                                    *)
WriteSeverity(a, level) ==
    \/ /\ IF status[a] = "deleted" THEN UNCHANGED severity
          ELSE severity' = [severity EXCEPT ![a] = level]
       /\ UNCHANGED spoiled
    \/ Spoil(a) /\ UNCHANGED severity

Restore(p) ==
    LET w == work[p]
    IN  /\ At(p, "restore")
        /\ WriteSeverity(w.alarm, w.was)
        /\ Goto(p, "notify")
        /\ UNCHANGED <<condition, status, original, handled, timer, cached, seen>>

RecoveryNotified(p) ==
    /\ At(p, "notify") /\ work[p].act = "recovered"
    /\ handled' = handled \ {work[p].alarm}
    /\ Done(p)
    /\ UNCHANGED <<condition, status, severity, original, timer, cached, seen, spoiled>>

HandleAcknowledgment(p) ==
    /\ At(p, "persist") /\ work[p].act = "acknowledged"
    /\ CancelTimer(work[p].alarm)
    /\ Goto(p, "notify")
    /\ UNCHANGED <<condition, status, original, handled, cached, seen, spoiled>>

AcknowledgmentNotified(p) ==
    /\ At(p, "notify") /\ work[p].act = "acknowledged"
    /\ Done(p)
    /\ UNCHANGED <<condition, status, severity, original, handled, timer, cached, seen, spoiled>>

(* The bus gives a handler 10 s, more than an evaluation lasts.            *)
HandlerTimesOut(p) ==
    /\ p \in Users
    /\ work[p].pc \in {"restore", "notify"}
    /\ Spoil(work[p].alarm)
    /\ Done(p)
    /\ UNCHANGED <<condition, status, severity, original, handled, timer, cached, seen>>

-----------------------------------------------------------------------------
(* The escalation task of an alarm.                                        *)

\* Mutant of MayEscalate: the first level escalates what is acknowledged too.
MayEscalateActive(a) == a \in Active

MayEscalate(a) ==
    \/ status[a] = "firing"
    \/ status[a] = "acknowledged" /\ timer[a].level # RuleSeverity

TimerWakes(a) ==
    /\ timer[a].pc = "sleep"
    /\ timer' = [timer EXCEPT ![a] =
                   IF MayEscalate(a) THEN [@ EXCEPT !.pc = "checked"] ELSE NoTimer]
    /\ UNCHANGED <<condition, status, severity, original, handled, cached, seen, work, spoiled>>

(* The read of the status raises: the error is logged, the task ends, and  *)
(* nothing schedules another one for the alarm.                            *)
TimerReadFails(a) ==
    /\ timer[a].pc = "sleep"
    /\ timer' = [timer EXCEPT ![a] = FailedTimer]
    /\ UNCHANGED <<condition, status, severity, original, handled, cached, seen, work, spoiled>>

\* Mutant of Remember: every level is remembered, the last one is restored.
RememberLast(a) == original' = [original EXCEPT ![a] = timer[a].level]

Remember(a) == original' = [original EXCEPT ![a] = IF @ = 0 THEN timer[a].level ELSE @]

(* The status that was read may be out of date.                            *)
Escalate(a) ==
    /\ timer[a].pc = "checked"
    /\ Remember(a)
    /\ timer' = [timer EXCEPT ![a].pc = "saving"]
    /\ UNCHANGED <<condition, status, severity, handled, cached, seen, work, spoiled>>

SaveSeverity(a) ==
    /\ timer[a].pc = "saving"
    /\ WriteSeverity(a, Target(timer[a].level))
    /\ timer' = [timer EXCEPT ![a].pc = "saved"]
    /\ UNCHANGED <<condition, status, original, handled, cached, seen, work>>

\* Mutant of NextTimer: the finished task clears the entry of its successor.
NextTimerCleared(a) == timer' = [timer EXCEPT ![a] = NoTimer]

\* Mutant of NextTimer: the last level is not told apart.
NextTimerForever(a) == StartTimer(a, timer[a].level + 1)

NextTimer(a) ==
    LET target == Target(timer[a].level)
    IN  IF target = Top THEN timer' = [timer EXCEPT ![a] = NoTimer] ELSE StartTimer(a, target)

(* The id of the event is the same for every level.                        *)
PublishEscalation(a) ==
    /\ timer[a].pc = "saved"
    /\ seen' = seen \cup {<<a, "escalated">>}
    /\ \/ NextTimer(a)
       \/ <<a, "escalated">> \notin seen /\ timer' = [timer EXCEPT ![a].pc = "notifying"]
    /\ spoiled' = IF <<a, "escalated">> \notin seen /\ timer'[a].pc # "notifying"
                  THEN spoiled \cup {a} ELSE spoiled
    /\ UNCHANGED <<condition, status, severity, original, handled, cached, work>>

EscalationNotified(a) ==
    /\ timer[a].pc = "notifying"
    /\ NextTimer(a)
    /\ UNCHANGED <<condition, status, severity, original, handled, cached, seen, work, spoiled>>

EscalationHandlerTimesOut(a) ==
    /\ timer[a].pc = "notifying"
    /\ NextTimer(a)
    /\ Spoil(a)
    /\ UNCHANGED <<condition, status, severity, original, handled, cached, seen, work>>

TimerStep(a) ==
    \/ TimerWakes(a) \/ TimerReadFails(a) \/ Escalate(a) \/ SaveSeverity(a)
    \/ PublishEscalation(a) \/ EscalationNotified(a) \/ EscalationHandlerTimesOut(a)

-----------------------------------------------------------------------------
(* Requests of the API.                                                    *)

Ack(p, a) ==
    /\ At(p, "idle") /\ status[a] = "firing"
    /\ status' = [status EXCEPT ![a] = "acknowledged"]
    /\ With(p, "publish", a, "acknowledged")
    /\ UNCHANGED <<condition, severity, original, handled, timer, cached, seen, spoiled>>

Clear(p, a) ==
    /\ At(p, "idle") /\ a \in Active
    /\ status' = [status EXCEPT ![a] = "recovered"]
    /\ With(p, "publish", a, "recovered")
    /\ UNCHANGED <<condition, severity, original, handled, timer, cached, seen, spoiled>>

(* The memory of an alarm is forgotten first, its row goes last.           *)
Delete(p, a) ==
    /\ At(p, "idle") /\ status[a] \notin {"none", "deleted"}
    /\ original' = [original EXCEPT ![a] = 0]
    /\ CancelTimer(a)
    /\ With(p, "forget", a, "recovered")
    /\ UNCHANGED <<condition, status, handled, cached, seen, spoiled>>

Forget(p) ==
    /\ At(p, "forget")
    /\ handled' = handled \ {work[p].alarm}
    /\ Goto(p, "erase")
    /\ UNCHANGED <<condition, status, severity, original, timer, cached, seen, spoiled>>

Erase(p) ==
    LET a == work[p].alarm
    IN  /\ At(p, "erase")
        /\ \/ status' = [status EXCEPT ![a] = "deleted"] /\ UNCHANGED spoiled
           \/ UNCHANGED status /\ Spoil(a)
        /\ Done(p)
        /\ UNCHANGED <<condition, severity, original, handled, timer, cached, seen>>

ConditionChanges ==
    /\ condition' = ~condition
    /\ UNCHANGED <<status, severity, original, handled, timer, cached, seen, work, spoiled>>

-----------------------------------------------------------------------------
HandlerStep(p) ==
    \/ HandleFiring(p) \/ Silenced(p) \/ NotSilenced(p) \/ Record(p) \/ FiringNotified(p)
    \/ HandleRecovery(p) \/ Restore(p) \/ RecoveryNotified(p)
    \/ HandleAcknowledgment(p) \/ AcknowledgmentNotified(p)

Request(p) == \E a \in Alarms : Ack(p, a) \/ Clear(p, a) \/ Delete(p, a)

Evaluation ==
    \/ Match \/ Look \/ Create \/ Unmatch \/ Query \/ QueryFails \/ RecoverRow
    \/ CacheExpires \/ CancelEvaluation

Next ==
    \/ ConditionChanges
    \/ Evaluation
    \/ \E p \in Procs : Publish(p) \/ PersistFails(p) \/ HandlerStep(p) \/ HandlerTimesOut(p)
    \/ \E p \in Users : Request(p) \/ Forget(p) \/ Erase(p)
    \/ \E a \in Alarms : TimerStep(a)

Spec == Init /\ [][Next]_vars

(* Point values keep coming in, the evaluator and the timers are           *)
(* scheduled, and an evaluation that is tried again and again is not       *)
(* cancelled for ever.  Other requests of users may hang.                  *)
FairSpec ==
    /\ Spec
    /\ WF_vars(Unmatch \/ Look \/ Create \/ Publish(Evaluator) \/ HandlerStep(Evaluator))
    /\ WF_vars(CacheExpires) /\ SF_vars(Query) /\ SF_vars(RecoverRow)
    /\ \A p \in Users : WF_vars(Forget(p) \/ Erase(p))
    /\ \A a \in Alarms : WF_vars(TimerStep(a))

-----------------------------------------------------------------------------
(* Properties.                                                             *)

\* No request, no handler and no timer is concerned with the alarm.
Quiet(a) == timer[a].pc \in {"none", "failed"} /\ \A p \in Procs : work[p].alarm # a

Unresolved == {a \in Alarms : status[a] = "firing" \/ status[a] = "acknowledged"}

\* A rule has one active alarm on a device, however evaluations are cut
\* short between the look at the table and the insert into it.
OneActive == Cardinality(Unresolved) <= 1

\* Once an alarm has recovered and all its handlers have run, its row says
\* the severity of its rule again, whatever escalation was under way.
SeverityComesBack ==
    \A a \in Alarms : status[a] = "recovered" /\ Quiet(a) /\ a \notin spoiled
                     => severity[a] = RuleSeverity

\* A severity that escalation raised can be taken back: what it was is in
\* _original_severities, or in the hands of a handler, until the row goes.
RaisedIsRemembered ==
    \A a \in Alarms : severity[a] # RuleSeverity /\ status[a] # "deleted" /\ a \notin spoiled
                     => \/ original[a] = RuleSeverity
                        \/ \E p \in Procs : /\ work[p].alarm = a
                                            /\ work[p].pc \in {"restore", "forget", "erase"}

\* The handler of an acknowledgement stops the escalation for good: the
\* severity does not rise any more, not even by a timer started later.
AcknowledgedStaysPut ==
    [][\A a \in Alarms :
         /\ <<a, "acknowledged">> \in seen /\ a \notin spoiled
         /\ \A p \in Procs : ~(work[p].alarm = a /\ work[p].act = "acknowledged")
         => severity'[a] <= severity[a]]_vars

\* An alarm that is left alone climbs to the highest severity, level by
\* level, unless a timer could not read its status: that ends its escalation.
EscalationReachesTop ==
    \A a \in Alarms : timer[a].pc # "none" ~> (severity[a] = Top \/ status[a] # "firing"
                                             \/ a \in spoiled \/ timer[a].pc = "failed")

\* While the condition stays away, no alarm stays active.
ActiveEnds == (~condition /\ Unresolved # {}) ~> (condition \/ Unresolved = {})
=============================================================================
