--------------------------- MODULE DeviceControl ----------------------------
(***************************************************************************)
(* Who starts and stops the collection of a device: the device service     *)
(* (services/device_service.py), the command dispatcher of the platform    *)
(* integration (engine/integration/dispatcher.py), and the scheduler with  *)
(* its watchdog (engine/scheduler.py).  Everything they share is kept per  *)
(* device, so the model follows one device id.                             *)
(*                                                                         *)
(* An operation is a coroutine; a step of it runs from one await that      *)
(* really suspends to the next.                                            *)
(***************************************************************************)
EXTENDS Naturals

CONSTANTS
    Actors,        \* coroutines that may be inside an operation at once
    None,
    Loops,         \* collection tasks, numbered
    Drivers,       \* driver instances, numbered
    Overlaps       \* bound: the pairs of operations that may run at once

Operations == {"start", "stop", "push_start", "push_stop", "create", "delete", "interval",
               "reload"}

ASSUME NumbersAssumption ==
    /\ Loops \subseteq Nat \ {0} /\ Drivers \subseteq Nat \ {0} /\ None \notin Actors
    /\ \A p \in Overlaps : p \subseteq Operations

\* What a driver variable holds: an instance, or 0.
MaybeDriver == Drivers \cup {0}

\* A new task and a new driver instance are always different from what is held.
ASSUME FreshAssumption ==
    /\ \A k, l \in Loops \cup {0} : \E fresh \in Loops : fresh \notin {k, l}
    /\ \A d, e, f \in MaybeDriver, held \in [Actors -> MaybeDriver] :
         \E fresh \in Drivers : fresh \notin {d, e, f} /\ \A a \in Actors : held[a] # fresh

\* The pairs of operations the code keeps apart, or that cannot hurt each other.
SafePairs ==
    {{o, o} : o \in {"start", "stop", "push_stop", "reload", "create", "delete"}}
    \cup {{"stop", o} : o \in {"start", "push_stop", "interval", "reload", "create"}}
    \cup {{"push_stop", o} : o \in {"interval", "reload"}}
    \cup {{"create", o} : o \in {"push_start", "interval", "reload"}}

VARIABLES
    row,       \* status column of the device's row, or "absent"
    life,      \* status the lifecycle manager holds for the device, or "absent"
    driver,    \* _driver_instances[device_id], or 0
    task,      \* the loop in _tasks[device_id], or 0
    using,     \* the driver in _device_info[device_id], or 0
    running,   \* loop -> driver it reads from, for every loop not cancelled
    lock,      \* owner of the device's lock in _collect_locks
    big,       \* owner of the service's _lock, where it is held over a wait
    work,      \* what every actor is doing
    watch,     \* the watchdog of the scheduler
    failed     \* history: a step failed and its operation gave up half way

vars == <<row, life, driver, task, using, running, lock, big, work, watch, failed>>

Free  == [op |-> "none", pc |-> "idle", saw |-> "absent", drv |-> 0]
Quiet == [pc |-> "idle", snap |-> 0, drv |-> 0]

Starting == {"start", "push_start", "create", "interval", "reload"}
Stopping == {"stop", "push_stop", "delete"}

Pcs == {"idle", "checked", "recreate", "load", "connect", "waiting", "lifecycle",
        "status", "restart", "rollback", "undo", "forget", "sidecar"}

TypeOK ==
    /\ row \in {"absent", "online", "offline"}
    /\ life \in {"absent", "online", "offline"}
    /\ driver \in Drivers \cup {0} /\ using \in Drivers \cup {0}
    /\ task \in Loops \cup {0}
    /\ \E S \in SUBSET Loops : running \in [S -> Drivers]
    /\ lock \in Actors \cup {None} /\ big \in Actors \cup {None}
    /\ work \in [Actors -> [op : Starting \cup Stopping \cup {"none"}, pc : Pcs,
                            saw : {"absent", "online", "offline"},
                            drv : Drivers \cup {0}]]
    /\ watch \in [pc : {"idle", "seen", "waiting"}, snap : Loops \cup {0},
                  drv : Drivers \cup {0}]
    /\ failed \in BOOLEAN

\* The gateway is up; the device is not there, or was started and answers.
Init ==
    /\ \/ /\ row = "absent" /\ life = "absent" /\ driver = 0
          /\ task = 0 /\ using = 0 /\ running = [k \in {} |-> 0]
       \/ /\ row = "online" /\ life = "online"
          /\ driver = CHOOSE d \in Drivers : TRUE
          /\ task = CHOOSE l \in Loops : TRUE
          /\ using = driver
          /\ running = [k \in {task} |-> driver]
    /\ lock = None /\ big = None
    /\ work = [a \in Actors |-> Free]
    /\ watch = Quiet
    /\ failed = FALSE

-----------------------------------------------------------------------------
(* Steps of an operation.                                                  *)

At(a, ops, pc) == work[a].op \in ops /\ work[a].pc = pc

Goto(a, pc) == work' = [work EXCEPT ![a].pc = pc]

\* The operation ends and lets go of the locks it holds.
End(a) ==
    /\ work' = [work EXCEPT ![a] = Free]
    /\ lock' = IF lock = a THEN None ELSE lock
    /\ big'  = IF big = a THEN None ELSE big

NewLoop == CHOOSE l \in Loops \ ({task, watch.snap} \cup DOMAIN running) : TRUE

\* A new collection task of the driver d, in the dict whatever was there.
CreateTask(d) ==
    /\ task' = NewLoop
    /\ using' = d
    /\ running' = [k \in DOMAIN running \cup {NewLoop} |->
                     IF k = NewLoop THEN d ELSE running[k]]

\* stop_collect of the scheduler, up to its wait for the cancelled task.
PopTask ==
    /\ task' = 0 /\ using' = 0
    /\ running' = [k \in DOMAIN running \ {task} |-> running[k]]

\* After _tasks[device_id] is set: what is left of the operation.
AfterStart(a) ==
    IF work[a].op \in {"start", "push_start"}
    THEN Goto(a, "lifecycle") /\ UNCHANGED <<lock, big>>
    ELSE End(a)

(* start_collect of the scheduler with the driver d: a task that is there  *)
(* is stopped first, and that wait is the only one.                        *)
CallStart(a, d) ==
    \/ /\ task = 0
       /\ CreateTask(d)
       /\ AfterStart(a)
    \/ /\ task # 0
       /\ PopTask
       /\ work' = [work EXCEPT ![a].pc = "waiting", ![a].drv = d]
       /\ UNCHANGED <<lock, big>>

CallStop(a, next) ==
    /\ PopTask
    /\ Goto(a, next)
    /\ UNCHANGED <<lock, big>>

(* The cancelled task has ended (or five seconds have passed).             *)
OldTaskEnded(a) ==
    /\ At(a, Starting, "waiting")
    /\ CreateTask(work[a].drv)
    /\ AfterStart(a)
    /\ UNCHANGED <<row, life, driver, watch, failed>>

MayBegin(op) ==
    \A b \in Actors : work[b].op # "none" => {op, work[b].op} \in Overlaps

\* The operation reads the row and goes on when the read is answered.
Enter(a, op, pc, d) ==
    work' = [work EXCEPT ![a] = [op |-> op, pc |-> pc, saw |-> row, drv |-> d]]

-----------------------------------------------------------------------------
(* start_collect and stop_collect of the device service.                   *)

\* Mutant of TakeLock: two operations on the device at a time.
TakeLockNever(a) == lock' = lock

TakeLock(a) == lock = None /\ lock' = a

BeginLocked(a, op) ==
    /\ work[a] = Free /\ op \in {"start", "stop"}
    /\ MayBegin(op)
    /\ TakeLock(a)
    /\ Enter(a, op, "checked", 0)
    /\ UNCHANGED <<row, life, driver, task, using, running, big, watch, failed>>

StartChecked(a) ==
    /\ At(a, {"start"}, "checked")
    /\ \/ /\ \/ work[a].saw = "absent"
             \/ work[a].saw = "online" /\ driver # 0
          /\ End(a)
          /\ UNCHANGED <<task, using, running>>
       \/ /\ work[a].saw # "absent" /\ driver = 0
          /\ big = None /\ big' = a
          /\ Goto(a, "recreate")
          /\ UNCHANGED <<task, using, running, lock>>
       \/ /\ work[a].saw = "offline" /\ driver # 0
          /\ CallStart(a, driver)
    /\ UNCHANGED <<row, life, driver, watch, failed>>

NewDriver == CHOOSE d \in Drivers \ ({driver, using, watch.drv}
                                     \cup {work[b].drv : b \in Actors}) : TRUE

\* Mutant of RecreateFails: the error leaves _lock taken.
RecreateFailsLocked(a) ==
    /\ At(a, {"start"}, "recreate")
    /\ work' = [work EXCEPT ![a] = Free] /\ lock' = None
    /\ failed' = TRUE
    /\ UNCHANGED <<row, life, driver, task, using, running, big, watch>>

RecreateFails(a) ==
    /\ At(a, {"start"}, "recreate")
    /\ End(a)
    /\ failed' = TRUE
    /\ UNCHANGED <<row, life, driver, task, using, running, watch>>

(* _recreate_driver_instance, under _lock, which is free again before the  *)
(* scheduler is called.                                                    *)
Recreated(a) ==
    /\ At(a, {"start"}, "recreate")
    /\ driver' = NewDriver
    /\ \/ /\ task = 0 /\ CreateTask(NewDriver)
          /\ Goto(a, "lifecycle")
       \/ /\ task # 0 /\ PopTask
          /\ work' = [work EXCEPT ![a].pc = "waiting", ![a].drv = NewDriver]
    /\ big' = None
    /\ UNCHANGED <<row, life, lock, watch, failed>>

StopChecked(a) ==
    /\ At(a, {"stop"}, "checked")
    /\ \/ /\ work[a].saw # "online"
          /\ End(a)
          /\ UNCHANGED <<task, using, running>>
       \/ work[a].saw = "online" /\ CallStop(a, "lifecycle")
    /\ UNCHANGED <<row, life, driver, watch, failed>>

(* The status the operation ends with (a created device that does not      *)
(* answer is offline): first in the lifecycle manager ...                  *)
Outcome(a) ==
    IF \/ work[a].op \in Stopping
       \/ work[a].op = "create" /\ work[a].saw = "offline"
    THEN "offline" ELSE "online"

NextLife(a) == IF Outcome(a) = "offline" /\ life = "absent" THEN life ELSE Outcome(a)

Lifecycle(a) ==
    /\ work[a].pc = "lifecycle"
    /\ life' = NextLife(a)
    /\ Goto(a, IF work[a].op = "delete" THEN "forget" ELSE "status")
    /\ UNCHANGED <<row, driver, task, using, running, lock, big, watch, failed>>

(* ... which raises when it cannot persist a change of it, and takes the   *)
(* change back to "offline" where it held no status: the operation ends,   *)
(* except that a create rolls back and a cleanup goes on.                  *)
LifecycleFails(a) ==
    /\ work[a].pc = "lifecycle"
    /\ life # NextLife(a)
    /\ life' = IF life = "absent" THEN "offline" ELSE life
    /\ CASE work[a].op = "create"  -> Goto(a, "rollback") /\ UNCHANGED <<lock, big>>
         [] work[a].op = "delete" -> Goto(a, "forget") /\ UNCHANGED <<lock, big>>
         [] OTHER                  -> End(a)
    /\ failed' = TRUE
    /\ UNCHANGED <<row, driver, task, using, running, watch>>

(* ... then in the row: update_status logs an error and returns, so nobody *)
(* learns of a write that failed.                                          *)
Status(a) ==
    /\ work[a].pc = "status"
    /\ \/ /\ row' = IF row = "absent" THEN row ELSE Outcome(a)
          /\ UNCHANGED failed
       \/ failed' = TRUE /\ UNCHANGED row
    /\ IF work[a].op = "create" THEN CallStart(a, work[a].drv)
       ELSE End(a) /\ UNCHANGED <<task, using, running>>
    /\ UNCHANGED <<life, driver, watch>>

-----------------------------------------------------------------------------
(* device_control of the dispatcher: neither the lock nor the status is    *)
(* looked at.  It and update_device begin with a read of the row.          *)

BeginUnlocked(a, op) ==
    /\ work[a] = Free /\ op \in {"push_start", "push_stop", "interval", "reload"}
    /\ MayBegin(op)
    /\ Enter(a, op, "checked", 0)
    /\ UNCHANGED <<row, life, driver, task, using, running, lock, big, watch, failed>>

\* Mutant of PushStart: a driver that is not there is handed on.
PushStartUnchecked(a) ==
    /\ At(a, {"push_start"}, "checked") /\ big = None
    /\ \/ work[a].saw = "absent" /\ End(a) /\ UNCHANGED <<task, using, running>>
       \/ work[a].saw # "absent" /\ CallStart(a, driver)
    /\ UNCHANGED <<row, life, driver, watch, failed>>

PushStart(a) ==
    /\ At(a, {"push_start"}, "checked") /\ big = None
    /\ \/ /\ work[a].saw = "absent" \/ driver = 0
          /\ End(a)
          /\ UNCHANGED <<task, using, running>>
       \/ /\ work[a].saw # "absent" /\ driver # 0
          /\ CallStart(a, driver)
    /\ UNCHANGED <<row, life, driver, watch, failed>>

PushStop(a) ==
    /\ At(a, {"push_stop"}, "checked")
    /\ CallStop(a, "lifecycle")
    /\ UNCHANGED <<row, life, driver, watch, failed>>

-----------------------------------------------------------------------------
(* update_device: has_driver decides, the status does not.  A new interval *)
(* restarts the collection, a new configuration replaces the driver too.   *)

\* Nothing of the device runs: there is only the row to update.
UpdateRow(a) ==
    /\ At(a, {"interval", "reload"}, "checked") /\ big = None
    /\ work[a].saw = "absent" \/ driver = 0
    /\ End(a)
    /\ UNCHANGED <<row, life, driver, task, using, running, watch, failed>>

UpdateInterval(a) ==
    /\ At(a, {"interval"}, "checked") /\ big = None
    /\ work[a].saw # "absent" /\ driver # 0
    /\ CallStop(a, "restart")
    /\ UNCHANGED <<row, life, driver, watch, failed>>

RestartInterval(a) ==
    /\ At(a, {"interval"}, "restart") /\ big = None
    /\ \/ driver # 0 /\ CallStart(a, driver)
       \/ driver = 0 /\ End(a) /\ UNCHANGED <<task, using, running>>
    /\ UNCHANGED <<row, life, driver, watch, failed>>

UpdateConfig(a) ==
    /\ At(a, {"reload"}, "checked") /\ big = None
    /\ work[a].saw # "absent" /\ driver # 0
    /\ driver' = 0
    /\ PopTask
    /\ work' = [work EXCEPT ![a].pc = "restart", ![a].drv = driver]
    /\ UNCHANGED <<row, life, lock, big, watch, failed>>

(* The old driver has stopped; the row is read once more.                  *)
RestartConfig(a) ==
    /\ At(a, {"reload"}, "restart")
    /\ IF row = "absent" THEN End(a) ELSE Goto(a, "load") /\ UNCHANGED <<lock, big>>
    /\ UNCHANGED <<row, life, driver, task, using, running, watch, failed>>

\* Mutant of Load: the collection goes on with the instance that was stopped.
LoadKeepsOld(a) ==
    /\ At(a, {"reload"}, "load") /\ big = None
    /\ driver' = NewDriver
    /\ CallStart(a, work[a].drv)
    /\ UNCHANGED <<row, life, watch, failed>>

(* _load_driver_for_device with the new configuration, or else the old.    *)
Load(a) ==
    /\ At(a, {"reload"}, "load")
    /\ \/ /\ big = None
          /\ driver' = NewDriver
          /\ CallStart(a, NewDriver)
          /\ UNCHANGED failed
       \/ /\ UNCHANGED <<driver, task, using, running>>
          /\ failed' = TRUE
          /\ End(a)
    /\ UNCHANGED <<row, life, watch>>

-----------------------------------------------------------------------------
(* create_device, under _lock from start to end.                           *)

Create(a) ==
    /\ work[a] = Free
    /\ MayBegin("create")
    /\ row = "absent" /\ big = None
    /\ row' = "offline" /\ big' = a
    /\ Enter(a, "create", "connect", 0)
    /\ UNCHANGED <<life, driver, task, using, running, lock, watch, failed>>

Connect(a) ==
    /\ At(a, {"create"}, "connect")
    /\ \/ /\ driver' = NewDriver
          /\ \/ work' = [work EXCEPT ![a].pc = "lifecycle", ![a].drv = NewDriver]
             \/ work' = [work EXCEPT ![a].pc = "status", ![a].drv = NewDriver,
                                     ![a].saw = "offline"]
       \/ /\ Goto(a, "rollback")    \* driver.start() or add_device() raises
          /\ UNCHANGED driver
    /\ UNCHANGED <<row, life, task, using, running, lock, big, watch, failed>>

(* The row cannot be deleted: the device stays, with the driver it got.    *)
RollbackFails(a) ==
    /\ At(a, {"create"}, "rollback")
    /\ End(a)
    /\ failed' = TRUE
    /\ UNCHANGED <<row, life, driver, task, using, running, watch>>

(* The row is deleted and the collection stopped, then the driver.         *)
Rollback(a) ==
    /\ At(a, {"create"}, "rollback")
    /\ row' = "absent"
    /\ CallStop(a, "undo")
    /\ UNCHANGED <<life, driver, watch, failed>>

\* Mutant of Undo: the driver of the failed device stays registered.
UndoKeepsDriver(a) ==
    /\ At(a, {"create"}, "undo")
    /\ End(a)
    /\ UNCHANGED <<row, life, driver, task, using, running, watch, failed>>

Undo(a) ==
    /\ At(a, {"create"}, "undo")
    /\ driver' = 0
    /\ End(a)
    /\ UNCHANGED <<row, life, task, using, running, watch, failed>>

-----------------------------------------------------------------------------
(* delete_device: the row, and then a cleanup task of its own.             *)

Delete(a) ==
    /\ work[a] = Free
    /\ MayBegin("delete")
    /\ row # "absent"
    /\ row' = "absent"
    /\ work' = [work EXCEPT ![a] = [op |-> "delete", pc |-> "checked", saw |-> row,
                                    drv |-> driver]]
    /\ UNCHANGED <<life, driver, task, using, running, lock, big, watch, failed>>

Cleanup(a) ==
    /\ At(a, {"delete"}, "checked")
    /\ CallStop(a, "lifecycle")
    /\ UNCHANGED <<row, life, driver, watch, failed>>

(* remove_device of the lifecycle manager, whose error is only logged, and *)
(* the driver instance if it is still the one of the deleted device ...    *)
Forget(a) ==
    /\ At(a, {"delete"}, "forget")
    /\ \/ life' = "absent" /\ UNCHANGED failed
       \/ failed' = TRUE /\ UNCHANGED life
    /\ driver' = IF driver = work[a].drv THEN 0 ELSE driver
    /\ Goto(a, "sidecar")
    /\ UNCHANGED <<row, task, using, running, lock, big, watch>>

(* ... and last the entry in _collect_locks, whoever holds that lock.      *)
ForgetLock(a) ==
    /\ At(a, {"delete"}, "sidecar")
    /\ lock' = None
    /\ work' = [work EXCEPT ![a] = Free]
    /\ UNCHANGED <<row, life, driver, task, using, running, big, watch, failed>>

-----------------------------------------------------------------------------
(* _watchdog_loop, on a device whose loop has not come round for too long. *)

WatchSeesStale ==
    /\ watch.pc = "idle"
    /\ task # 0
    /\ watch' = [pc |-> "seen", snap |-> task, drv |-> using]
    /\ UNCHANGED <<row, life, driver, task, using, running, lock, big, work, failed>>

WatchCancels ==
    /\ watch.pc = "seen"
    /\ running' = [k \in DOMAIN running \ {watch.snap} |-> running[k]]
    /\ watch' = [watch EXCEPT !.pc = "waiting"]
    /\ UNCHANGED <<row, life, driver, task, using, lock, big, work, failed>>

\* Mutant of WatchRestarts: the dict is not looked at again.
WatchRestartsBlindly ==
    /\ watch.pc = "waiting"
    /\ CreateTask(watch.drv)
    /\ watch' = Quiet
    /\ UNCHANGED <<row, life, driver, lock, big, work, failed>>

WatchRestarts ==
    /\ watch.pc = "waiting"
    /\ \/ task = watch.snap /\ CreateTask(watch.drv)
       \/ task # watch.snap /\ UNCHANGED <<task, using, running>>
    /\ watch' = Quiet
    /\ UNCHANGED <<row, life, driver, lock, big, work, failed>>

-----------------------------------------------------------------------------
Step(a) ==
    \/ StartChecked(a) \/ RecreateFails(a) \/ Recreated(a) \/ OldTaskEnded(a)
    \/ StopChecked(a) \/ Lifecycle(a) \/ LifecycleFails(a) \/ Status(a)
    \/ PushStart(a) \/ PushStop(a)
    \/ UpdateRow(a) \/ UpdateInterval(a) \/ RestartInterval(a)
    \/ UpdateConfig(a) \/ RestartConfig(a) \/ Load(a)
    \/ Connect(a) \/ RollbackFails(a) \/ Rollback(a) \/ Undo(a)
    \/ Cleanup(a) \/ Forget(a) \/ ForgetLock(a)

Begin(a) ==
    \/ \E op \in {"start", "stop"} : BeginLocked(a, op)
    \/ \E op \in {"push_start", "push_stop", "interval", "reload"} : BeginUnlocked(a, op)
    \/ Create(a) \/ Delete(a)

Watchdog == WatchCancels \/ WatchRestarts

Next ==
    \/ \E a \in Actors : Begin(a) \/ Step(a)
    \/ WatchSeesStale \/ Watchdog

Spec == Init /\ [][Next]_vars

(* Every wait of an operation has a limit: 5 s for a cancelled task, 30 s  *)
(* for a driver, a database write or read otherwise.  A step that waits    *)
(* for _lock gets it: an asyncio.Lock serves its waiters in order.         *)
FairSpec == Spec /\ WF_vars(Watchdog) /\ \A a \in Actors : SF_vars(Step(a))

-----------------------------------------------------------------------------
Quiescent == watch = Quiet /\ \A a \in Actors : work[a] = Free

(* A device has one collection task: none goes on running that _tasks does *)
(* not know, which nobody could stop any more.                             *)
NoZombie == DOMAIN running \subseteq {task}

(* A device that says it is online is being collected, with the driver     *)
(* instance the service holds for it ("scheduler stopped but status still  *)
(* online" is what the lock is there to prevent), unless an operation      *)
(* failed half way.                                                        *)
OnlineIsCollected ==
    Quiescent /\ row = "online" /\ ~failed =>
        task \in DOMAIN running /\ running[task] = driver /\ life = "online"

(* A collection never goes on with a driver instance that was replaced,    *)
(* whatever the watchdog had seen before.                                  *)
NoStaleDriver == Quiescent => \A l \in DOMAIN running : running[l] = driver

(* A device whose row is gone leaves no collection and no driver instance  *)
(* behind, whatever failed on the way, and no status unless a step failed: *)
(* a create whose lifecycle write failed leaves "offline", a delete whose  *)
(* remove_device failed what was there.                                    *)
DeletedIsGone ==
    Quiescent /\ row = "absent" =>
        DOMAIN running = {} /\ driver = 0 /\ (life = "absent" \/ failed)

(* Every operation ends: no lock is left taken.                            *)
OperationsEnd == \A a \in Actors : work[a].op # "none" ~> work[a].op = "none"
=============================================================================
