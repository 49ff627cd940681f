# EdgeLite Gateway: a TLA+ model

EdgeLite is an industrial edge gateway: one asyncio process that polls devices through protocol
drivers, evaluates alarm rules on the points, keeps everything in SQLite, and forwards it to cloud
platforms. The code is Python, under `src/src/edgelite/`; every path below is relative to that
directory. This project models the parts of it whose correctness depends on what happens *between*
two awaits, two threads, two processes (before and after a crash) or two clients of one object, and
checks and proves what those parts promise.

## 1. Inventory

| Part | Code | State | Operations | What is hard |
|---|---|---|---|---|
| Event bus | `engine/event_bus.py` | dedup cache of event ids, bounded queues per subscriber, handlers | publish, replay, shutdown | every publish suspends at four kinds of await, each with a time limit; publishes of live tasks and of a replay interleave |
| Alarm outbox | `engine/alarm_outbox.py` | rows of a SQLite table of its own | persist, replay_and_clear, close | runs in executor threads that outlive the wait for them; crash between commit and delivery |
| Circuit breaker | `engine/circuit_breaker.py` | state, two counters, half-open slots | call, record_success, record_failure, reset, removal | the lock is free while a call runs: outcomes are counted in a later state than the one that let the call in |
| Cloud inference | `engine/edge_ai_inference.py` | a breaker it uses without `call()` | infer_cloud_fallback | shares the state machine, not its transitions |
| Device service | `services/device_service.py` | `_driver_instances`, `_collect_locks`, `_lock`, the device rows | create, update, delete (with a cleanup task), start, stop | check-then-act over several awaits, three kinds of serialisation, an id that is used again |
| Dispatcher | `engine/integration/dispatcher.py` | none | device control from the platform | works on the state of the device service without its lock |
| Scheduler | `engine/scheduler.py` | `_tasks`, `_device_info`, collection loops | start_collect, stop_collect, watchdog | a task is cancelled, awaited and replaced without a lock |
| Lifecycle manager | `engine/lifecycle.py` | status per device | transitions, with events | status, row and event change one after the other |
| Alarm service | `services/alarm_service.py` | escalation timers, original severities, handled ids | handlers of the four alarm events; acknowledge, clear, delete | a timer that is awake races every handler; handlers run under a time limit in whoever publishes |
| Rule evaluator | `engine/evaluator.py` | cache of firing alarms, duration windows | fire, recover | the cache is up to 5 s stale; an evaluation may be cancelled after its commit |
| Repositories | `storage/sqlite_repo.py`, `storage/database.py` | SQLite rows | CRUD, the alarm status machine | conditional updates; writes whose failure is swallowed |
| Offline queue, backhaul | `storage/offline_queue.py`, `engine/integration/backhaul.py` | rows to send, a fallback deque | accept, broadcast, store, flush, resend | crash between send and acknowledge; limits; two handlers evict at once |
| MQTT forwarder | `engine/mqtt_forwarder.py` | a queue in memory, a table, a ring with pending / syncing records | accept, publish, store, replay | three copies of one message; a replay that breaks off |
| Ring buffer | `storage/ring_buffer.py` | records with a status, bounded | put, get_pending, mark_synced, mark_failed, load_from_records | overwrites its oldest record, whatever its status |
| Offline cache | `storage/cache.py` | a table, its counter, a ring | add, restore, mark, delete by id | table, ring and counter change at different awaits; ids are used again |
| Time series storage | `storage/influx_storage.py` | availability, failure count | batch write, health check | availability changes between the check and the write |
| Modbus pool | `drivers/modbus_tcp.py` | counted clients per host, leases, reconnect tasks, watchdogs | add, remove, read, reconnect, clean up | five places close clients that others read from |
| Redundancy | `drivers/redundancy.py` | role, failure and stability counts per device | success, failure, active host | the switch changes the host under a reconnect that is going on |
| Driver watchdog | `engine/driver_watchdog.py` | heartbeat, back-off per device | heartbeat, check, reconnect | a reconnect sleeps while the device is unregistered |
| Command approval | `services/command_approval.py` | requests and their states | submit, approve, expire, execute | an expiry races an approval |
| Bootstrap | `bootstrap.py` | the service container | start in order, stop in reverse | the order decides who hears a replay |

The rest of the repository is drivers and wire protocols, HTTP and WebSocket handlers, numeric
pipelines (stream computing, learners, inference), configuration, accounts, and a Vue client;
`PROJECT.json` lists each of these parts with the reason it is left out.

**How they interact.** Everything runs on one event loop, except SQLite work, outbox work and some
drivers, which run in executor threads. The scheduler has one loop task per device: it reads the
driver through the breaker of the device and publishes what it got on the event bus. The bus hands
it to queues (evaluator, WebSocket) and to handlers (alarm service, MQTT forwarder, backhaul). The loop
then writes its points to InfluxDB, or into the offline cache, which a flush loop empties. The
evaluator fires alarms through the alarm service, which publishes them on the bus again, this time
through the outbox. The device service, the platform dispatcher and the scheduler's own watchdog
all start and stop the loop task of a device.

**What makes each part correct.** Bus: no alarm id passes twice within the window of the cache;
nobody gets an alarm a crash would lose; publish always ends. Breaker: thresholds are acted upon,
a trial is decided by its own outcomes, it comes back when the device does. Collection control: one
loop per device, driven by the driver instance the service holds, exactly when the status says so;
nothing left of a deleted device. Alarms: one active alarm per rule and device, an acknowledgement
ends the escalation, a severity that was raised can be taken back. Store and forward (backhaul,
forwarder, offline cache): a message is delivered, held, or given up by a rule that has a name, it
never just disappears. Modbus: no client is closed while it is read or can be handed out, and a
device whose host is there gets connected.

## 2. Modules

| Module | Models | Kind |
|---|---|---|
| `WriteAhead` | what the outbox promises: commit before delivery, nothing stored is forgotten | abstract specification |
| `EventBus` | event bus and outbox, with crash and restart | component; refines `WriteAhead` |
| `EventBusProofs` | four theorems about `EventBus` | proofs |
| `Breaker` | the decisions of one breaker, as functions of its state | pure operators |
| `CircuitBreaker` | a breaker and its concurrent clients, `call()` users and report-only users | component; uses `Breaker` |
| `DeviceControl` | device service, dispatcher, scheduler, watchdog and lifecycle on one device | composition of five parts |
| `DeviceControlProofs` | seven theorems about `DeviceControl` | proofs |
| `AlarmLifecycle` | evaluator, alarm service, alarm rows, users, timers, for one rule on one device | composition of four parts |
| `AlarmLifecycleProofs` | five theorems about `AlarmLifecycle` | proofs |
| `StoreForward` | what every path to the north promises | abstract specification |
| `StoreForwardProofs` | one theorem about `StoreForward`, and the lemmas the refinements share | proofs |
| `Filters` | the elements of a sequence that are in a set, as a function the provers can see into | pure operator |
| `Backhaul` | backhaul and offline queue | component; refines `StoreForward` |
| `BackhaulProofs` | four theorems about `Backhaul`, the refinement among them | proofs |
| `MqttForwarder` | forwarder, its table and its ring | component; refines `StoreForward` |
| `MqttForwarderProofs` | four theorems about `MqttForwarder`, the refinement among them | proofs |
| `OfflineCache` | collection loops, offline cache with its ring, flush loop, InfluxDB | composition of four parts; refines `StoreForward` |
| `CollectionProofs` | what stands around a collected point: five theorems about `CircuitBreaker`, four about `OfflineCache`, the refinement among them | proofs |
| `ModbusPool` | Modbus connections and link redundancy | composition of two parts |
| `ModbusPoolProofs` | three theorems about `ModbusPool` | proofs |
| `MC...` | the small instances | model values |

`PROJECT.json` ("map") gives the lines of code for every definition. A definition named
"Mutant of X" is X with a plausible bug in it; no specification uses it.

### EventBus

A publish of an alarm is a record in `pub` with a program counter: `persisting` (the executor thread
works), `persisted` (it committed, the coroutine has not heard), `enqueue` and `handle`, with the
receivers left to serve. Actions are the steps between awaits: `BeginPublish` (dedup check and
insertion up to the first await), `PersistCommits`, `PersistFails`, `PersistReturns`,
`PersistTimesOut` (0.5 s), `LatePersist` (the abandoned thread still commits), `EnqueueAlarm`,
`EnqueueTimesOut` (1 s), `HandlerEnds`, `CancelPublish`. Other events never suspend before their
handlers and are one step, `PublishData`. `ReplaySelect`, `ReplayRow` and `ReplayClear` are
`replay_and_clear` in its thread, whose publishes are ordinary publishes of origin `replay`. `Die`
clears everything but the table; `Restart` follows `bootstrap_ws`, where the subscribers are there
before the first replay. The payload of an event is abstracted: the bus only looks at its type and
its id. `recorded`, `delivered`, `erased` and `wiped` are history.

### Breaker and CircuitBreaker

`Breaker` has the four decisions taken under the lock (`MayRun`, `Admitted`, `OnSuccess`,
`OnFailure`). `CircuitBreaker` adds the clients: `Admit` is the first half of `call()`, `Succeed`,
`Fail` and `Abandon` (cancelled, or an excluded exception) its second half, any number of steps
later. Time is the flag `cooled`. Counters stop at their thresholds, since the code only compares
with `>=`. A client whose call was let in by the trial now going on is a `probe`; when the trial
ends, its other probes are `late`. `sick` says whether the protected device may fail.

### DeviceControl

One device, because every variable of the code involved is kept per device id (`row`, `life`,
`driver`, `task`, `using`) except `_lock` (`big`). An operation is a record in `work`, a step of it
runs from one await that really suspends to the next. `lock` is the per-device lock of
`_collect_locks`, taken by start and stop only; create holds `_lock` from start to end; the
dispatcher and update take neither. `running` maps every loop task that is not cancelled to the
driver it reads from, whether `_tasks` knows it or not. `watch` is the scheduler's watchdog.
The lifecycle manager is reduced to the status it ends with, one step that may fail; the loop task
to its existence. A status that cannot be persisted is taken back, to `offline` where there was none
(`lifecycle.py:144,167`), so a create that fails there leaves a status without a device
(`LifecycleFails`); the rollback of a create and the `remove_device` of a cleanup may fail as well
(`RollbackFails`, `Forget`).

Which operations run at once is the constant `Overlaps`. It is there because the code does not keep
all pairs apart, and what goes wrong then would hide everything else. All pairs were explored:

* keep every invariant: start with start, stop; stop with stop, push_stop, interval, reload, create;
  push_stop with push_stop, interval, reload; create with create, push_start, interval, reload;
  reload with reload; delete with delete. These are `SafePairs`, the instance of the passing run
  (which, with `{"create"}`, lets two creates compete) and the hypothesis of the theorems.
* break one: any pair with push_start except create; interval with interval, start, reload, delete;
  start with push_stop, reload, create, delete; create with push_stop, delete; reload with delete;
  stop and push_stop with delete, when they last longer than the delete and a re-creation.

The typical failure is `start_collect` of the scheduler: it pops the old task, waits for it up to
5 s, and then writes `_tasks` without looking again, so two of them leave a loop nobody can stop.

### AlarmLifecycle

A publisher of an alarm event runs the handler of the alarm service itself, so the evaluator and
every user request is a process in `work`, with a program counter that moves from await to await:
`look`, `create`, `publish`, `persist`, then the handler's own. `Publish` carries the id the bus
gives the event, `alarm:{alarm_id}:{action}`: an id in `seen` is dropped as a duplicate.
`CancelEvaluation` cuts an evaluation between any two awaits, also after the commit. `Unmatch`,
`Query`, `RecoverRow` and `CacheExpires` are the recovery through the 5 s cache, in which a failed
query is remembered as "no alarm". A timer is `sleep`, then `checked` (it has seen "firing"), then
`saving`: from there on no acknowledgement stops it. A timer whose read of the row raises ends with an entry in the
log and nobody makes it again (`TimerReadFails`, `failed`). Ack, clear and delete are the requests of the
API. Time limits and failed writes mark an alarm as `spoiled`: the code then gives up half way and
the properties about that alarm promise nothing.

### StoreForward, Backhaul, MqttForwarder and OfflineCache

`StoreForward` has three sets, `held`, `delivered` and `dropped`, and says that a message goes from
one to the next and nowhere else. The three paths define `held` as *where a message really is* (rows,
rings, queues, the hand of a handler, a batch under way), so that a message that fell out of all of
them would be a step `StoreForward` does not have. `dropped` collects what the named rules give up.
An arrival may make others leave in the same step, or the message itself: a handler whose message
goes straight into a full table or ring evicts the oldest one there, or cannot store it at all.

`Backhaul`: `Accept` and `Broadcast` are a handler of the bus, which stores its message when no
client takes it; `Insert` may commit, fail, or commit after all although it failed; `Count` and
`Evict` are the two halves of the size limit, which two handlers may enter together. A failed insert
puts the message into the `fallback` deque, emptied by the connection of a client (`FlushStep`). The
resend loop wakes, sends one row after the other, acknowledges, counts retries (`Wake`, `SendNext`,
`BatchSent`, `Acknowledge`, `CountRetry`, `ResendFails`). `copies` and `unsure` tell duplicates.

`MqttForwarder`: what is accepted goes to the queue, or to table and ring if the queue is full; the
publish loop sends or stores; the replay works the ring first and then the table, marks records
`syncing`, sends, and erases rows of what was confirmed. Every access to the table may fail and is then
logged: the row is not written, or written without making room, so that the table outgrows its limit
(`PutRow`); the replay finds no rows (`SelectRows`), or what it has sent stays and what it could not
send is not counted (`EraseRows`, `FinishRows`). The broker and the session may go between any
two steps; `connected` is what the forwarder believes.

`OfflineCache`: a collection loop writes its point, and when InfluxDB does not take it adds it to the
table (under the lock of the cache, with its eviction by the counter) and then to the ring; two
awaits, so the loop can be cancelled in between. The flush loop restores the ring from the table
once, and then takes a batch of pending records, writes, and either marks them synced and deletes
their rows by id, or marks them pending again. An id is one more than the last in the table
(`models/db.py:290` has no AUTOINCREMENT), so ids come back. Points in `Bad` have no value: they are
cached, but never sent. Points in `NotNumbers` were read as NaN or Infinity: they are sent, the storage
skips them and reports them as written, and so their record and their row go although InfluxDB never
had them; `skipped` says which. `available` and `fails` are what `write_points_batch` and `check_health`
leave behind. `saved`, `pushed`, `strayed` and `dropped` are history: what reached the table, what
made room there, what was given up elsewhere, and which points the ring may hold without the row their
record names (the restore puts a record into the ring twice, or a row makes room before its loop has
reached the ring).

### ModbusPool

A host stands for host and port, the key of the pool. `socket` is what a client is, whoever knows
it: connected, reconnecting by itself (pymodbus does), or closed. A pool entry counts its
references. Adding, removing, reading and the reconnect task of a device are actions from await to
await; `Watch` is the watchdog of a device, `ForceClose` and `CleanUp` the cleaning of clients that
were replaced. A reconnect that finds no configuration (`empty`: its device was removed while it was being
read) ends after its back-off. `redundancy` is the state the redundancy manager keeps; its failures and successes
are reported by the reconnect task only, as in the code; `ProbePrimary` is the probe that takes a
device back to its primary host.

## 3. Runs

| Run | Instance | Shows |
|---|---|---|
| `event_bus` | 2 alarms, 1 other event, 1 subscriber, 2 publishing tasks, queue of 1, dedup cache of 1, 3 cache insertions, 2 rows, 1 crash | `TypeOK`, `DedupWindow`, `CrashSafe`, refinement of `WriteAhead` |
| `event_bus_progress` | 2 subscribers with queues of 1 that may never be read, no crash, fairness | `PublishTerminates` |
| `event_bus_replay` | as `event_bus`, no crash | violation: `ReplayMakesUp` |
| `circuit_breaker` | 3 callers, 1 reporter, thresholds 2 and 2, 3 half-open slots, 1 abandoned probe per trial | `ThresholdsActedOn`, `NeverWedged`, `TripsOnStreak`, `ClosesOnTrial`, `Recovers` |
| `device_control` | 2 operations at a time, every pair of `SafePairs`, the watchdog, 4 loops, 6 drivers | `NoZombie`, `OnlineIsCollected`, `NoStaleDriver`, `DeletedIsGone`, `OperationsEnd` |
| `alarm_escalation` | 1 alarm, 2 users, the rule at the lowest of 3 severities | `SeverityComesBack`, `RaisedIsRemembered`, `AcknowledgedStaysPut`, `EscalationReachesTop`, `ActiveEnds` |
| `alarm_rule` | 2 alarms, 1 user, 1 severity | `OneActive` |
| `backhaul` | 2 messages, 2 handlers, a table of 1 row, a deque of 1, 1 retry, 2 failures, batch 2 | refinement of `StoreForward`, `OnceUnlessUnsure`, `QueueDrains` |
| `mqtt_forwarder` | 3 messages that come in one order, queue of 1, 2 rows, ring of 2, 1 retry, batch 2 | refinement of `StoreForward`, `DurableUntilDelivered`, `RowsDrain` |
| `offline_cache` | 3 points (one without a value, one that is NaN), 1 device, table of 2, ring of 3, batch 2, InfluxDB lost after 2 failures, 1 restart | refinement of `StoreForward`, `CachedIsKept`, `RingDrains` |
| `modbus_pool` | 2 devices, 2 hosts, the backup of the first is the host of the second, 7 clients, 1 attempt, thresholds 1, 1 outage, 1 removal | `PooledIsOpen`, `LeasedIsNotClosed`, `ComesBack` |
| `modbus_flapping` | 2 devices on 1 host, 2 attempts, 1 outage, no removal | violation: `Settles` |

Every passing run also checks the module's `TypeOK` (`BreakerTypeOK`), except where the run beside it does. The two
violations are disagreements between the code and its own comments; `PROJECT.json` ("findings")
quotes both sides.

**Bounds, and why they suffice.** Event bus: the hazards need one id to pass the cache twice with
another in between (3 insertions, cache of 1), a full queue (length 1), two publishes at once, and a
crash with a replay after it. The second subscriber only matters where a publish hangs, so it is in
the progress run. `MaxRecorded`, `MaxCommits` and `MaxCrashes` only cut executions short. Breaker:
three callers are enough to have one abandoned, one late and one current call at once; with
thresholds of 2 a counter has a value below, at and (capped) beyond its threshold. Device control:
two actors for pairs (that pairs suffice is what the theorems say, for any number of actors);
`NewLoop` and `NewDriver` take a number nobody holds, and 4 loops and 6 drivers leave one whatever is
held (`FreshAssumption`, which TLC evaluates); which number it is makes no difference. Alarms: two users are the least for one request to run
while another's handler is cut off; three severities give a second timer, made by the task of the
first; two alarms are needed only for `OneActive`, which escalation does not touch. Backhaul: one
row and one place in the deque, so that the second message already evicts. Forwarder: three
messages are the least that fill a queue of 1 and leave a batch of two. A failed eviction leaves
three rows in a table of two. With one attempt a row that fails is given up, unless the count of it fails
as well; with two attempts and two messages `RowsDrain` and the rest were checked, too. The messages are
interchangeable, so the run lets them come in one order (`ComeInOrder`, a constraint on actions that are
not fair): a symmetry reduction that is sound for liveness. Offline cache: the ring is
longer than a batch, so that a record can stay behind one; one eviction never empties the table, so
the ids go on, as with a tenth of 100000 rows. One loop is enough for `RingDrains`, since loops do not
wait for one another. They do meet in the table and in the ring, and one row may make room while the
loop of another is between the two: with two devices (and a ring of 2) `TypeOK`, `CachedIsKept` and
the refinement were checked to the end, too (388606 states, no error), and so they were with one device
and four points, two of them fit (1588144 states), which is too much for liveness. A row that is deleted by
another point's id takes two devices and four points. The theorems are
for any number of both. Modbus: 7 clients are
more than the devices, pool, stale clients and tasks of two devices can hold at once; the thresholds
are 1 so that a single outage switches over. `MaxOutages`, `MaxRemovals`, `MaxRestarts` only cut
executions short.

**Deadlock** is not checked in the `EventBus` runs, where the process may be down for good once
the crash bound is used up and all other bounds are exhausted. It is checked in the others.

**Fairness.** `EventBus`: weak fairness of the steps of a publish, each of which waits under a timer
(`wait_for` with 0.5, 1 and 10 s). No fairness for readers, publishers or the outbox.
`CircuitBreaker`: callers call again (collection loops are periodic), a call ends (every read has a
timeout), time passes. Nothing makes the device heal: `Recovers` is only about devices that have
healed. `DeviceControl`: weak fairness of the watchdog, whose wait is bounded; strong fairness of an
operation's steps, because a step may wait for `_lock`, an `asyncio.Lock`, which serves its waiters
in order. Beginning an operation is never fair.
`AlarmLifecycle`: weak fairness of the evaluator, which runs for every point, of the timers and of
the end of a delete; the cache expires; a query and the write of a recovery succeed again and again
(strong fairness: each may fail any number of times). `Backhaul`, `MqttForwarder`, `OfflineCache`:
weak fairness of the loops, which sleep and go on whatever happens, and strong fairness of the
calls that may fail, for a resource that is not broken for good: the database answers the SELECT of a
replay and takes its UPDATE and DELETE, the broker confirms, InfluxDB answers a health check and takes a
batch every now and then. Nothing makes a
client connect or a lost session return; `QueueDrains` and `RowsDrain` end when it goes.
`ModbusPool`: weak fairness of the cleaning, of a reconnect task (a chain of sleeps and connects with
time limits), of an addition under way and of reads, which are periodic and limited in time; pymodbus
reconnects when it can. Removing, adding and losing a host are never fair.

## 4. Theorems

All are proved by TLAPS for every value of the constants that satisfies the named assumptions.

`EventBusProofs` (from `SizesAssumption`, `NamesAssumption`):

* `TypeCorrect`: `Spec => []TypeOK`, inductive as it stands; it holds the bound on the queues.
* `DedupWindowHolds`: `Spec => []DedupWindow`. Not inductive. The strengthening says that the cache
  *is* the last `Len(seen)` entries of the history, that it is full as soon as the history is longer
  than the cache, and that the window property holds; a new id is not among the last `MaxDedup`
  then.
* `CrashSafeHolds`: `Spec => []CrashSafe`, inductive together with `TypeOK` because it speaks of
  the tasks past their commit and of the queues alike: a queue is filled from such a task only, and
  rows leave the table into `wiped` only (or the process dies and nothing is in hand any more).
* `ImplementsWriteAhead`: `Spec => WriteAheadSpec`, with `stored <- Range(outbox) \cup erased` and
  the deliveries of this process life for `got`. It needs the invariant `WriteAheadInv`: a task knows
  which entry of `recorded` it works for, past its commit that alarm is stored, and deliveries refer
  to entries of `recorded`.

`CollectionProofs`, of the breaker (from `ThresholdsAssumption`, `ClientsAssumption`):

* `TypeCorrect`: `BreakerSpec => []BreakerTypeOK`. (The names of `Init`, `Next`, `Spec` and `TypeOK` have
  a prefix in `CircuitBreaker`, since the module of the proofs extends both specifications.)
* `ThresholdsActedOnHolds`: `BreakerSpec => []ThresholdsActedOn`, inductive with the types.
* `NeverWedgedHolds`: under `MaxAbandoned + SuccessThreshold <= HalfOpenMax`,
  `BreakerSpec => []NeverWedged`. The invariant `SlotsAccounted` accounts for every slot of the trial: slots used are
  successes, abandoned probes and probes in flight. Without the hypothesis the code does wedge: a
  half-open slot is never returned, and a watchdog that cancels enough probes leaves a breaker that
  refuses every call until somebody resets it.
* `TripsOnStreakHolds`, `ClosesOnTrialHolds`: `BreakerSpec => TripsOnStreak` and `BreakerSpec => ClosesOnTrial`.
  Both are about a step and the outcomes before it, so the invariant must say what the two counters
  stand for (`CountsAreOutcomes`): the failures of a closed breaker are its *latest* outcomes, and the
  successes of a trial were all recorded since the trial began. An outcome of a call let in by an
  earlier state is counted like any other, and keeps it.

`DeviceControlProofs` (from `NumbersAssumption`, `FreshAssumption`; the first five under
`Overlaps \subseteq SafePairs`):

* `TypeOKHolds`, `NoZombieHolds`, `OnlineIsCollectedHolds`, `NoStaleDriverHolds`, `DeletedIsGoneHolds`.
  The hypothesis is the one the code needs: section 2 lists the pairs that break an invariant. What
  the theorems add to the run is that pairs are enough: three and more operations at once, any two of
  which may overlap, keep what two keep. `DeletedIsGone` and `OnlineIsCollected` say of the status of the
  lifecycle manager only what holds unless a step failed; that no loop and no driver is left of a device
  without a row holds whatever failed.
* The invariants say what is true at rest, hence nothing during an operation. `DInv` adds three parts to `TypeOK`.
  `Control`: which operations are at work together, who has the two locks, that a device is deleted
  once and that whoever works beside a create has not got past his first check (or has nothing left
  to stop). `Local`: for every operation and program counter, what has become of the device by then,
  e.g. a delete that has forgotten the driver has left no task. `Device`: the loop that runs is the
  one `_tasks` knows and reads from the driver of the service (or the watchdog is about to replace
  it), the watchdog's snapshot is of this task, and a device that is online without a loop, or gone
  with something left, has an operation under way that will see to it.
* `OneInServiceHolds`, `OneOnDeviceHolds`: what the two locks give when other pairs overlap too. Under
  `_lock` a create and the recreation of a driver exclude each other and themselves, whatever overlaps.
  The device's lock keeps its starts and stops apart under `DeletesAlone` only, i.e. no delete overlaps a start
  or a stop (a call that waits for the lock counts as one). The hypothesis is needed:
  `delete_device` ends with `_collect_locks.pop(device_id)`, and a start that comes then makes a
  lock of its own beside the holder of the old one (with the pair of delete and start allowed, TLC
  shows it in seven steps). The argument is one lemma, `StepHandles`: whatever a step of
  an operation does, it treats the locks in one of five ways.

`AlarmLifecycleProofs` (from `SeveritiesAssumption`, `NamesAssumption`):

* `TypesHold`: `Spec => []TypeOK`, together with `WorkHasAlarm`, which ties the alarm a process works
  on to its program counter.
* `OneActiveAlarm`: `Spec => []OneActive`, for any number of alarms and users. The look for an
  active alarm and the insert are two awaits, so `OneActive` alone is not inductive. `IInv` adds:
  nobody but the evaluator creates alarms (`OnlyEvaluatorFires`), nothing is active while it is about
  to insert, and nothing but its own alarm is while it publishes (`NoRival`). Users only take alarms
  out of the active ones, so their steps keep it.
* `RaisedIsRememberedHolds`, `SeverityComesBackHolds`: `Spec => []RaisedIsRemembered` and
  `Spec => []SeverityComesBack`. `EInv` adds to `IInv`: only the severity of the rule is ever
  remembered, from the first level of a timer on (`RememberedIsRules`); what the evaluator recovers
  has had a row (`EvaluatorKnows`); and, per alarm that is not spoiled, which events are published,
  which are in somebody's hand, and what the row, the timer and the memory say then (`Told`). The
  hard case is the escalation that looked at a firing row and saves after the recovery: the
  handler of the recovery cancels the timer in the step that takes the remembered severity, and from
  then on no timer of that alarm gets past its look at the row.
* `AcknowledgedStaysPutHolds`: `Spec => AcknowledgedStaysPut`, from the same invariant: once the
  acknowledgement is handled, the only timer the alarm can have is a first one, started by a firing
  handler that came late, and it finds the row acknowledged when it wakes.

`StoreForwardProofs`: `NothingDisappears` holds of every behaviour of `StoreForward`. Beside it stand
the lemmas the refinements cite. `GivingUpMaps`, `DeliveryMaps` and
`ArrivalMaps` take a step of a path, described by the places before and after, what was delivered and
what was given up, to a step of `StoreForward` or a stutter. `FilterGives`, `FilterHas`, `Filtered`
say what a filtered sequence has, that it keeps the order and repeats nothing. They descend to a
least counterexample (`Least`), since the induction theorems of the library are out of the provers'
reach. `Appended`, `Cut`, `Tailed` do the same for the other operations of a queue.

`MqttForwarderProofs` and `BackhaulProofs` (each from the `BoundsAssumption` of its module):

* `TypeOKHolds`: `Spec => []TypeOK`, which here includes the limits of every queue in memory (and of the
  table of the backhaul; that of the forwarder has no limit it always keeps), that no message is in a queue twice, and that nothing is anywhere that was not accepted.
* `PromiseHolds`: `Spec => Promise`, the refinement of `StoreForward`: of every action it is shown
  which places it moves messages between, and that those that leave all of them were delivered or
  given up. With `NothingDisappears` it follows that an accepted message is held, delivered or given
  up for ever after, for any messages, limits, batches and restarts. `AccountedHolds` states it over
  the variables of the two modules.
* Forwarder: `DurableUntilDeliveredHolds`. The invariant adds `StoredOnce` (what waits for its first
  attempt is neither in the table nor in the ring, and waits once) and `ReplayKnows` (what the replay
  takes for sent was sent, and what it still has in hand is stored, was delivered or was given up);
  without the second the deletion at its end could take a row that was never sent.
* Backhaul: `OnceUnlessUnsureHolds`. A count of copies says nothing about who is about to send, so the
  invariant follows a message that was not sent before: it is in one handler (`CarriedOnce`), once
  in the deque (`FallOnce`), or in the table, sent only if it is in the batch to be acknowledged
  (`RowsOnce`, `ResendKnows`); every way out of that marks the message `unsure`.

`CollectionProofs`, of the offline cache (from the `BoundsAssumption` of `OfflineCache`):

* `TypeOKHolds`, `CachedIsKeptHolds`, `PromiseHolds`, `AccountedHolds`: `Spec => []TypeOK`,
  `Spec => []CachedIsKept`, `Spec => Promise` and that every point ever collected is at a place,
  written or given up, for any devices, table, ring and batch. A point that is NaN or Infinity and that
  the storage skipped counts as given up, by a rule of its own.
* A row is deleted by an id that was noted long before, in the record of the ring and then in the
  batch, while other rows come and go and ids start again after an empty table. So the invariant has to
  say why the id still means the same point. `SameRow`: as long as a loop, the ring or the batch holds
  an id, no other point's row has it (`Means`), and a newer row stands in the table until it is gone, so
  that ids cannot start again: either the row itself is there, or one that `Outlasts` the record (it
  came later, its own record is behind it in the ring or not there, and it is not in the batch under
  way). `OnePlace` says that a point is in the ring, in the batch or in the hands of its loop, once.
  Both hold while nothing strayed, hence the condition of `CachedIsKept`; the types, the refinement and
  `AccountedHolds` need no such condition.
* Beside them: `Counted` (the counter never exceeds the rows, so making room never empties the table,
  the one case in which an eviction would start the ids again), `OneLoop` (a point is collected by one
  loop and has one row) and `InStep` (marks of the ring, batch and table agree: what is marked is in
  the batch, and a batch is deleted only after the storage wrote or skipped each of its points).
* The refinement is shown once for all actions: every step either takes in the next point, or confirms
  some, or gives some up (`Flow`), and each of the three maps to a step of `StoreForward`.

Each of these invariants was checked by TLC before it was proved, on the bounds of its run, that of
the backhaul with three messages as well (and `DInv` with three operations at once). With three
messages and limits of 1 TLC also refuted the refinement as `StoreForward` stood first: an arrival
that evicts at once was no step of it, and the smaller bounds never made one.

`ModbusPoolProofs` (from `HostAssumption`, `CountAssumption`):

* `TypesHold`, `PoolStaysOpen`, `LeasesHold`: `Spec => []TypeOK`, `Spec => []PooledIsOpen` and
  `Spec => LeasedIsNotClosed`. `IInv` is `TypeOK /\ PooledIsOpen /\ LeasedAreRead`: a client
  that is leased is being read by some device, so that its number is not given to a new client.
  `PooledIsOpen` is kept because every place that closes a client takes it out of its entry in the
  same step, or has replaced it there before.

**Only model-checked**: liveness (`PublishTerminates`, `Recovers`, `OperationsEnd`,
`EscalationReachesTop`, `ActiveEnds`, `QueueDrains`, `RowsDrain`, `RingDrains`, `ComesBack`), since
TLAPS has no `ENABLED`. Every invariant, action property and refinement of a passing run is a theorem.
Which pairs outside of `SafePairs` break what was explored with TLC, too.

## 5. Not modelled, inside the modelled parts

* `EventBus`: subscribing and registering at run time (done once, at start), the second call of a
  failed handler (a task of its own that touches nothing here), counters and logging. The backhaul
  and the MQTT forwarder register after the first replay of a start (`bootstrap.py:514`), which the
  model, where all handlers are there, does not show. System alerts: their ids are unique and come from the disk monitor
  only, but they take places in the dedup cache as alarms do (`event_bus.py:94-111`); `DedupWindow`
  counts insertions, so with alerts the window holds fewer alarms.
* `CircuitBreaker`: statistics (of which `total_open_duration` loses the time before a trial that
  fails, line 261), fallbacks, and `remove_breaker` being called before the loop is cancelled
  (`scheduler.py:295`), where a loop can make a new breaker that stays behind.
* `DeviceControl`: the collect loop, the lifecycle manager's own steps, a driver that serves several
  devices, sub-devices, import and batch operations. `failed` marks executions in which a step
  failed and the code gives up half way; `OnlineIsCollected` makes no promise about those, because
  `update_status` swallows its exceptions (`sqlite_repo.py:1243`) and nobody can tell.
* `AlarmLifecycle`: triggering and batches from the API, correlation, statistics, notifications.
  Suppression is a choice. An alarm whose handler or write failed is `spoiled` (see above). A restart of
  the process: the raised severity is in the row, but `_original_severities` and the timers are gone then,
  so `SeverityComesBack` and `RaisedIsRemembered` are about one life of the process.
* `Backhaul`: `OfflineQueue.flush`, which no caller can run (section 6); the dead band of points. `Connect` merges the
  two flushes a connection may begin at once (`endpoint.py:96-103`, `backhaul.py:363-371`) into one.
* `MqttForwarder`: the back-off, priorities, what a payload is. A crash that undoes what the replay marked
  and counted in a transaction whose commit had failed.
* `OfflineCache`: the second copy of a failed batch in the fallback storage (`sqlite_ts.py`) with its
  sync loop; opening that storage is assumed not to fail. The flush without a ring (it is on by
  default). The compaction of orphans, which are rows whose `put` into the ring failed: it does not.
  A cancellation between the commit and the counter.
* `ModbusPool`: wire protocol, segmentation of reads, values; writes lease a client as reads do, but a
  write without a connection also sets the status to `disconnected` and asks for no reconnect
  (`modbus_tcp.py:1493-1495, 1687-1689`), which is left out: the next read asks for it. The
  host and port of a key are one, since the backup port is not used (section 6).
* The repository has some 640 files, and most of them are outside of this project by their nature: some
  thirty drivers whose difficulty is a wire format, HTTP handlers, forms, numeric pipelines. What
  the map covers is therefore a small share of the lines; it is the share where steps of several
  tasks, and crashes, meet.

## 6. Disagreements seen while modelling

Two are runs: the periodic replay does not make up for a persist that timed out (`event_bus_replay`),
and two devices that share a client close it for each other for ever (`modbus_flapping`). The others were met while reading or exploring; the models show the step unless noted, and no property
forbids it.

*Event bus.* A full subscriber queue loses its oldest entry to an ordinary event even if it is an
alarm (`event_bus.py:384`; the comment at 320 says that other events are dropped first). The id of an escalation has
no severity in it (`event_bus.py:79-81`), so the second level's event is dropped as a duplicate, which
`alarm_service.py:621-625` means to prevent. A re-publish by `_fire_alarm` is dropped likewise.

*Breaker.* Cloud inference looks at `is_open` and never calls `call()` (`edge_ai_inference.py:1251`):
once open its breaker stays open. A loop that is still running can make a new breaker after
`remove_breaker` (`scheduler.py:295`).

*Collection control.* A new interval starts the collection of a stopped device, which still has its
driver (`device_service.py:329`). The dispatcher starts without the lock of the device
(`dispatcher.py:267`). The cleanup of a delete stops a device that was created again
(`device_service.py:469`). A create whose status cannot be persisted leaves the status `offline` of a device
that does not exist (`lifecycle.py:144,167`), for nothing removes it; if the delete of its rollback fails
too, row and driver stay (`device_service.py:227`).

*Alarms.* `_handled_alarm_ids` keeps an id when a delete or clear overtakes the firing handler. An
alarm that was deleted comes back when the insert of its creation follows. Recovery over the API
after a clear is always refused (`api/alarms.py:375`). One failed read of the status ends the escalation of
an alarm that is still firing, with nothing but a line in the log (`alarm_service.py:554-564, 674-685`).

*Backhaul.* What is in the fallback deque waits for a new connection, although the comment
(`backhaul.py:335`) speaks of the next retry. Two handlers over the limit evict twice
(`offline_queue.py:185-211`). A commit that fails leaves its row for the next commit, and the message
is in the deque as well. A handler out of time loses its message. The overflow of the deque is not
counted. `OfflineQueue.flush` is given a function of two arguments and calls it with one
(`mqtt_forwarder.py:404-412`).

*MQTT forwarder.* After a publish that is refused (553) the loop waits inside the context of the lost
client and looks at `_running` alone (436): the "waiting for the reconnect" of line 574 does not come
true before a restart. Rows whose retries are used up are neither sent nor deleted until then. The
count and the eviction of the table swallow their errors and the row is inserted all the same (691-714),
so the table outgrows its limit. A
replay that an exception interrupts leaves the rest of its batch `syncing` (774-779). `stop()` drops
the queue in memory.

*Offline cache.* A point that is NaN or Infinity is skipped by the storage, which reports the batch as
written even if nothing of it was left (`influx_storage.py:1047-1067`): the flush marks it synced, deletes its
row and logs it as written (`scheduler.py:1149-1155`). `delete_cached` says that it deletes what was resent
with success (`cache.py:517`). The collection lets such a value through (`scheduler.py:646`) and the
flush filters missing values only (1112). Records without a value go back to pending at every flush; a batch full of them at the
head of the ring holds up the rest (`scheduler.py:1111-1147`). A row that enters the ring twice, by the
restore and by the loop that collected it, is deleted twice, the second time perhaps with another
point's row, because its id came back: TLC finds it when `CachedIsKept` is checked without its
condition. With two loops there is a second way to it: `add_to_cache` lets go of its lock before it
puts the record into the ring, so the row can make room first; the table is emptied, another point gets
the id, and the flush of the late record deletes that point's row (two devices, four points). The counter is 0 until the restore has ended and is decremented for rows already evicted, so
the table may outgrow its limit; its calibration (`cache.py:564`) is never started. A row whose loop
was cancelled before the ring, or that did not fit at the restore, waits for the next restart. Read,
not modelled: the sync of the fallback storage passes over rows of a batch that failed and deletes
them (`influx_storage.py:1586`, `sqlite_ts.py:706`), skips a row at its offset, and never sends rows
older than a start without a stored offset (`sqlite_ts.py:208-229`).

*Modbus.* The flapping is a defect of the driver class, which documents that devices share clients
(`modbus_tcp.py:616`). `DeviceService` makes one driver instance, and with it one pool, for every device
(`device_service.py:100, 190, 1389, 1914`), so the gateway as it is wired does not meet it. When the last
attempt opens the circuit, a device that has just failed over is not tried on its backup: with one
attempt (the bound of `modbus_pool`) that is at once. A success on the backup counts as one of the primary (`redundancy.py:165-168`). The backup
port is not used. `_leased_clients` is a set, so the first of two readers to end takes the lease
of the other. `remove_device` leaves the reconnect task alive, which puts a client or a reference
back. `add_device` drops a disconnected client without closing it. A healthy client that was shared
is closed by force after 300 s. A device whose circuit opened without a client has no watchdog
(2835). `DriverWatchdog` is never given a driver.

*Elsewhere.* An OTA copy that fails half way is not among the files that are restored
(`ota_manager.py:268`).

## 7. Plan

Done: event bus with outbox, circuit breaker, collection control, alarms, backhaul, forwarder, offline
cache, Modbus pool with redundancy, each checked, and the safety of each proved. Next, in this order:

1. The pairs that `DeviceControl` does not keep apart: which of its invariants, beside the two about
   the locks, survive which of them.
2. The fallback storage of the time series with its sync loop, as a second path in `OfflineCache`.
3. `Lifecycle`: the order of status events, refined into the step `DeviceControl` uses.
4. `drivers/offline_sync.py` as a fourth path that refines `StoreForward`; the approval of commands;
   OTA updates with their rollback; handlers that register after the first replay.
