------------------------- MODULE DeviceControlProofs -------------------------
(***************************************************************************)
(* Theorems about DeviceControl, for every number of coroutines: what      *)
(* holds as long as only the pairs of operations of SafePairs run at once, *)
(* and, last, what the two locks give when other pairs do too.             *)
(***************************************************************************)
EXTENDS DeviceControl, TLAPS

Works == [op : Starting \cup Stopping \cup {"none"}, pc : Pcs, saw : {"absent", "online", "offline"},
          drv : Drivers \cup {0}]

Watches == [pc : {"idle", "seen", "waiting"}, snap : Loops \cup {0}, drv : Drivers \cup {0}]

\* The actor is inside an operation.
Busy(a) == work[a].op # "none"

-----------------------------------------------------------------------------
(* Who may be where.                                                       *)

OnlySafePairs == \A a, b \in Actors : a # b /\ Busy(a) /\ Busy(b) => {work[a].op, work[b].op} \in SafePairs

(* The two locks are with those who took them.                             *)
LocksHeld ==
    \A a \in Actors :
        /\ work[a].op \in {"start", "stop"} => lock = a
        /\ work[a].op = "create" \/ work[a].pc = "recreate" => big = a

(* A device is deleted once.                                               *)
OneDelete == \A a, b \in Actors : work[a].op = "delete" /\ work[b].op = "delete" => a = b

(* One reload is past its look at the driver.                              *)
Reloading(a) == work[a].op = "reload" /\ work[a].pc # "checked"

OneReload ==
    \A a, b \in Actors : Reloading(a) /\ Reloading(b) => a = b

(* While a device is created everybody else waits for it, or has nothing   *)
(* to stop.                                                                *)
OthersWait ==
    \A a, b \in Actors :
        a # b /\ work[a].op = "create" /\ Busy(b) =>
            work[b].pc = "checked" /\ (work[b].op = "stop" => work[b].saw # "online")

Control == OnlySafePairs /\ LocksHeld /\ OneDelete /\ OneReload /\ OthersWait

(* Where an operation is tells what has become of the device.              *)
Local(a) ==
    LET w == work[a]
    IN  /\ w.op = "none" => w = Free
        /\ w.op = "start" =>
             /\ w.pc \in {"checked", "recreate", "waiting", "lifecycle", "status"}
             /\ row = w.saw
             /\ w.pc # "checked" => row # "absent"
             /\ w.pc = "recreate" => driver = 0
        /\ w.op = "push_start" =>
             /\ w.pc \in {"checked", "waiting", "lifecycle", "status"}
             /\ w.pc # "checked" => row # "absent"
        /\ w.op \in {"start", "push_start"} =>
             /\ w.pc = "waiting" => task = 0 /\ w.drv = driver /\ driver # 0
             /\ w.pc \in {"lifecycle", "status"} => task # 0
             /\ w.pc = "status" => life = "online"
        /\ w.op \in {"stop", "push_stop"} => w.pc \in {"checked", "lifecycle", "status"}
        /\ w.op = "stop" => (w.saw = "online" \/ w.pc # "checked" => row # "absent")
        /\ w.op = "interval" =>
             /\ w.pc \in {"checked", "restart"}
             /\ w.pc = "restart" => task = 0 /\ driver # 0 /\ row # "absent"
        /\ w.op = "reload" =>
             /\ w.pc \in {"checked", "restart", "load"}
             /\ w.pc # "checked" => task = 0 /\ driver = 0 /\ row # "absent"
        /\ w.op = "create" =>
             /\ task = 0
             /\ w.pc \in {"connect", "lifecycle", "status", "rollback", "undo"}
             /\ w.pc = "connect" => driver = 0
             /\ w.pc \in {"connect", "lifecycle"} => w.saw # "offline"
             /\ w.pc \in {"lifecycle", "status"} => w.drv = driver /\ driver # 0
             /\ IF w.pc = "status" THEN w.saw # "offline" => life = "online" ELSE failed \/ life = "absent"
             /\ row = IF w.pc = "undo" THEN "absent" ELSE "offline"
        /\ w.op = "delete" =>
             /\ w.pc \in {"checked", "lifecycle", "forget", "sidecar"}
             /\ row = "absent"
             /\ w.pc # "checked" => task = 0
             /\ IF w.pc = "sidecar" THEN driver = 0 /\ (failed \/ life = "absent") ELSE w.drv = driver

-----------------------------------------------------------------------------
(* What the device is like, whoever is at work.                            *)

(* The only collection that runs is the one _tasks knows, with the driver  *)
(* of the service.                                                         *)
LoopKnown ==
    /\ DOMAIN running \subseteq {task} /\ 0 \notin DOMAIN running
    /\ IF task = 0 THEN using = 0
       ELSE /\ using = driver /\ driver # 0
            /\ task \in DOMAIN running \/ (watch.pc = "waiting" /\ watch.snap = task)
    /\ \A l \in DOMAIN running : running[l] = driver

WatchKnows ==
    /\ watch.pc = "idle" => watch = Quiet
    /\ watch.pc # "idle" => watch.snap # 0 /\ (watch.snap = task => watch.drv = using)
    /\ watch.pc = "waiting" => watch.snap \notin DOMAIN running

GoneOrGoing ==
    row = "absent" => \/ task = 0 /\ driver = 0 /\ (failed \/ life = "absent")
                      \/ \E a \in Actors : work[a].op \in {"create", "delete"}

Stops(a) == work[a].op \in {"stop", "push_stop"} /\ work[a].pc \in {"lifecycle", "status"}

Restarts(a) == work[a].op # "create" /\ work[a].pc \in {"waiting", "restart", "load"}

OnlineOrGoing ==
    row = "online" /\ ~failed =>
      /\ task # 0 \/ \E a \in Actors : Stops(a) \/ Restarts(a)
      /\ life = "online" \/ \E a \in Actors : Stops(a)

Device == LoopKnown /\ WatchKnows /\ GoneOrGoing /\ OnlineOrGoing

DInv == TypeOK /\ Control /\ (\A a \in Actors : Local(a)) /\ Device

-----------------------------------------------------------------------------
(* The pairs, each operation with those it may overlap.                    *)
LEMMA PairsAre ==
    ASSUME NEW o, NEW p, {o, p} \in SafePairs
    PROVE  /\ o = "start" => p \in {"start", "stop"}
           /\ o = "push_start" => p = "create"
           /\ o = "interval" => p \in {"stop", "push_stop", "create"}
           /\ o = "stop" => p \in {"start", "stop", "push_stop", "interval", "reload", "create"}
           /\ o = "push_stop" => p \in {"stop", "push_stop", "interval", "reload"}
           /\ o = "reload" => p \in {"reload", "stop", "push_stop", "create"}
           /\ o = "create" => p \in {"create", "stop", "push_start", "interval", "reload"}
           /\ o = "delete" => p = "delete"
<1>1. CASE o = p /\ o \in {"start", "stop", "push_stop", "reload", "create", "delete"}
  BY <1>1
<1>2. CASE \E q \in {"start", "push_stop", "interval", "reload", "create"} : {o, p} = {"stop", q}
  <2>1. PICK q \in {"start", "push_stop", "interval", "reload", "create"} : {o, p} = {"stop", q}
    BY <1>2
  <2>2. (o = "stop" /\ p = q) \/ (o = q /\ p = "stop")
    BY <2>1
  <2>3. QED
    BY <2>1, <2>2
<1>3. CASE \E q \in {"interval", "reload"} : {o, p} = {"push_stop", q}
  <2>1. PICK q \in {"interval", "reload"} : {o, p} = {"push_stop", q}
    BY <1>3
  <2>2. (o = "push_stop" /\ p = q) \/ (o = q /\ p = "push_stop")
    BY <2>1
  <2>3. QED
    BY <2>1, <2>2
<1>4. CASE \E q \in {"push_start", "interval", "reload"} : {o, p} = {"create", q}
  <2>1. PICK q \in {"push_start", "interval", "reload"} : {o, p} = {"create", q}
    BY <1>4
  <2>2. (o = "create" /\ p = q) \/ (o = q /\ p = "create")
    BY <2>1
  <2>3. QED
    BY <2>1, <2>2
<1>5. QED
  BY <1>1, <1>2, <1>3, <1>4 DEF SafePairs

(* Who starts or deletes a device is alone with it, and so is who goes on  *)
(* with a start that another system pushed.                                *)
LEMMA Alone ==
    ASSUME DInv, NEW a \in Actors, NEW b \in Actors, a # b, Busy(a), Busy(b)
    PROVE  /\ work[a].op \notin {"start", "delete"}
           /\ work[a].op = "push_start" => work[b].op = "create"
           /\ work[a].op = "interval" => work[b].op \in {"stop", "push_stop", "create"}
           /\ work[a].op = "stop" => work[b].op \in {"push_stop", "interval", "reload", "create"}
           /\ work[a].op = "push_stop" => work[b].op \in {"stop", "push_stop", "interval", "reload"}
           /\ work[a].op = "reload" => work[b].op \in {"reload", "stop", "push_stop", "create"}
           /\ work[a].op = "create" => work[b].op \in {"stop", "push_start", "interval", "reload"}
<1>1. {work[a].op, work[b].op} \in SafePairs
  BY DEF DInv, Control, OnlySafePairs
<1>2. ~(work[a].op \in {"start", "stop"} /\ work[b].op \in {"start", "stop"})
  BY DEF DInv, Control, LocksHeld
<1>3. ~(work[a].op = "create" /\ work[b].op = "create")
  BY DEF DInv, Control, LocksHeld
<1>4. ~(work[a].op = "delete" /\ work[b].op = "delete")
  BY DEF DInv, Control, OneDelete
<1>5. QED
  BY <1>1, <1>2, <1>3, <1>4, PairsAre

-----------------------------------------------------------------------------
(* New tasks and drivers, and what becomes of the one collection.          *)
LEMMA Names ==
    /\ 0 \notin Loops /\ 0 \notin Drivers /\ None \notin Actors
BY NumbersAssumption

LEMMA NewLoopIsNew ==
    ASSUME TypeOK, DOMAIN running \subseteq {task}
    PROVE  NewLoop \in Loops /\ NewLoop \notin {0, task, watch.snap}
<1>1. task \in Loops \cup {0} /\ watch.snap \in Loops \cup {0}
  BY DEF TypeOK
<1>2. Loops \ {task, watch.snap} # {}
  BY <1>1, FreshAssumption
<1>3. {task, watch.snap} \cup DOMAIN running = {task, watch.snap}
  OBVIOUS
<1>4. NewLoop \in Loops \ {task, watch.snap}
  BY <1>2, <1>3 DEF NewLoop
<1>5. QED
  BY <1>4, Names

LEMMA NewDriverIsDriver ==
    ASSUME TypeOK
    PROVE  NewDriver \in Drivers /\ NewDriver # 0
<1>1. [b \in Actors |-> work[b].drv] \in [Actors -> MaybeDriver] /\ watch.drv \in MaybeDriver
      /\ driver \in MaybeDriver /\ using \in MaybeDriver
  BY DEF TypeOK, MaybeDriver
<1>2. PICK held \in [Actors -> MaybeDriver] : held = [b \in Actors |-> work[b].drv]
  BY <1>1
<1>3. PICK d \in Drivers : d \notin {driver, using, watch.drv} /\ \A b \in Actors : held[b] # d
  BY <1>1, FreshAssumption
<1>4. d \in Drivers \ ({driver, using, watch.drv} \cup {work[b].drv : b \in Actors})
  BY <1>2, <1>3
<1>5. NewDriver \in Drivers \ ({driver, using, watch.drv} \cup {work[b].drv : b \in Actors})
  BY <1>4 DEF NewDriver
<1>6. QED
  BY <1>5, Names

RunningType == \E S \in SUBSET Loops : running \in [S -> Drivers]

LEMMA PopKeeps ==
    ASSUME DInv, PopTask, UNCHANGED watch
    PROVE  LoopKnown' /\ WatchKnows' /\ task' = 0 /\ using' = 0 /\ RunningType'
<1>1. DOMAIN running' = {} /\ running' = [k \in {} |-> running[k]]
  BY DEF PopTask, DInv, Device, LoopKnown
<1>2. RunningType'
  BY <1>1 DEF RunningType
<1>3. QED
  BY <1>1, <1>2 DEF PopTask, DInv, Device, LoopKnown, WatchKnows

LEMMA CreateKeeps ==
    ASSUME DInv, DOMAIN running = {}, NEW d \in Drivers, CreateTask(d), driver' = d,
           UNCHANGED watch \/ watch' = Quiet
    PROVE  LoopKnown' /\ WatchKnows' /\ task' \in Loops /\ task' # 0 /\ using' = d /\ RunningType'
<1>1. NewLoop \in Loops /\ NewLoop # 0 /\ NewLoop # watch.snap
  BY NewLoopIsNew DEF DInv, TypeOK
<1>2. PICK k : k = NewLoop
  OBVIOUS
<1>3. running' = [l \in {k} |-> d] /\ task' = k /\ using' = d
  <2>1. DOMAIN running \cup {k} = {k}
    OBVIOUS
  <2>2. running' = [l \in {k} |-> IF l = k THEN d ELSE running[l]]
    BY <1>2, <2>1 DEF CreateTask
  <2>3. QED
    BY <1>2, <2>2 DEF CreateTask
<1>4. RunningType' /\ DOMAIN running' = {k} /\ running'[k] = d
  BY <1>1, <1>2, <1>3 DEF RunningType
<1>5. d # 0
  BY Names
<1>6. LoopKnown'
  BY <1>1, <1>2, <1>3, <1>4, <1>5 DEF LoopKnown
<1>7. WatchKnows'
  BY <1>1, <1>2, <1>3, <1>4 DEF WatchKnows, DInv, Device, Quiet
<1>8. QED
  BY <1>1, <1>2, <1>3, <1>4, <1>6, <1>7

LEMMA SameKeeps ==
    ASSUME DInv, UNCHANGED <<task, using, running, watch>>, driver' = driver \/ task = 0
    PROVE  LoopKnown' /\ WatchKnows' /\ RunningType'
<1>1. task = 0 => DOMAIN running = {}
  BY DEF DInv, Device, LoopKnown
<1>2. RunningType'
  BY DEF RunningType, DInv, TypeOK
<1>3. QED
  BY <1>1, <1>2 DEF DInv, Device, LoopKnown, WatchKnows, RunningType, TypeOK

-----------------------------------------------------------------------------
(* What a step does to the others.                                         *)

LEMMA StepIsBusy ==
    ASSUME NEW a \in Actors, Step(a), Local(a)
    PROVE  Busy(a)
<1>1. work[a].op = "none" => work[a].pc = "idle"
  BY DEF Local, Free
<1>2. QED
  BY <1>1 DEF Step, StartChecked, RecreateFails, Recreated, OldTaskEnded, StopChecked, PushStart, PushStop,
         UpdateRow, UpdateInterval, RestartInterval, UpdateConfig, RestartConfig, Load, Connect, RollbackFails, Rollback,
         Undo, Cleanup, Forget, ForgetLock, At, Busy, Starting, Lifecycle, LifecycleFails, Status

(* While a device is created nobody else does more than give up.           *)
LEMMA BesideCreate ==
    ASSUME DInv, NEW a \in Actors, NEW b \in Actors, a # b, Step(a), work[b].op = "create"
    PROVE  End(a) /\ UNCHANGED <<row, life, driver, task, using, running, watch, failed>>
<1>1. Busy(a) /\ Busy(b)
  BY StepIsBusy DEF DInv, Busy
<1>2. work[a].pc = "checked" /\ (work[a].op = "stop" => work[a].saw # "online")
  BY <1>1 DEF DInv, Control, OthersWait
<1>3. work[a].op \in {"stop", "push_start", "interval", "reload"}
  BY <1>1, Alone
<1>4. big # None
  BY Names DEF DInv, Control, LocksHeld
<1>5. QED
  BY <1>2, <1>3, <1>4
  DEF Step, StartChecked, RecreateFails, Recreated, OldTaskEnded, StopChecked, PushStart, PushStop,
      UpdateRow, UpdateInterval, RestartInterval, UpdateConfig, RestartConfig, Load, Connect, RollbackFails, Rollback,
      Undo, Cleanup, Forget, ForgetLock, At, Starting, Lifecycle, LifecycleFails, Status

(* A step of an operation that stays in it, or ends it.                    *)
Moves(a) ==
    /\ \A b \in Actors \ {a} : work'[b] = work[b]
    /\ LET n == work'[a]
       IN  /\ n.op \in {"none", work[a].op}
           /\ n.op # "none" => n.pc # "checked"
           /\ n.op \in {"start", "stop"} => lock' = a
           /\ n.op = "create" \/ (n.op # "none" /\ n.pc = "recreate") => big' = a
           /\ n.op = "none" => n = Free
           /\ n.op = "reload" /\ work[a].pc = "checked" => driver # 0
    /\ \A b \in Actors \ {a} : Busy(b) => (lock = b => lock' = b) /\ (big = b => big' = b)

LEMMA ControlKept ==
    ASSUME DInv, NEW a \in Actors, Step(a), Moves(a)
    PROVE  Control'
<1> DEFINE n == work'[a]
<1>1. \A b \in Actors : work'[b].op \in {"none", work[b].op}
  BY DEF Moves
<1>2. OnlySafePairs'
  <2>1. \A b, c \in Actors : b # c /\ Busy(b) /\ Busy(c) => {work[b].op, work[c].op} \in SafePairs
    BY DEF DInv, Control, OnlySafePairs
  <2>2. QED
    BY <1>1, <2>1 DEF OnlySafePairs, Busy
<1>3. LocksHeld'
  BY DEF Moves, DInv, Control, LocksHeld, Local, Busy, Free
<1>4. OneDelete'
  BY DEF Moves, DInv, Control, OneDelete
<1>5. OneReload'
  <2>1. \A b, c \in Actors : b # c /\ Reloading(b)' /\ Reloading(c)' => FALSE
    <3>1. SUFFICES ASSUME NEW b \in Actors, NEW c \in Actors, b # c, Reloading(b)', Reloading(c)'
                   PROVE  FALSE
      OBVIOUS
    <3>2. CASE b # a /\ c # a
      BY <3>1, <3>2 DEF Moves, DInv, Control, OneReload, Reloading
    <3>3. \A e \in Actors : Reloading(e) => driver = 0
      BY DEF DInv, Local, Reloading
    <3>4. \A e \in Actors \ {a} : Reloading(a)' /\ Reloading(e)' => FALSE
      BY <3>3 DEF Moves, DInv, Control, OneReload, Reloading
    <3>5. QED
      BY <3>1, <3>2, <3>4
  <2>2. QED
    BY <2>1 DEF OneReload
<1>6. OthersWait'
  <2>1. SUFFICES ASSUME NEW c \in Actors, NEW b \in Actors, c # b, work'[c].op = "create", Busy(b)'
                 PROVE  work'[b].pc = "checked" /\ (work'[b].op = "stop" => work'[b].saw # "online")
    BY DEF OthersWait
  <2>2. work[c].op = "create" /\ Busy(b)
    BY <2>1, <1>1 DEF Busy
  <2>3. CASE a = b
    <3>1. End(a)
      BY <2>1, <2>2, <2>3, BesideCreate
    <3>2. QED
      BY <3>1, <2>1, <2>3 DEF End, Free, Busy, DInv, TypeOK
  <2>4. CASE a # b
    BY <2>1, <2>2, <2>4 DEF Moves, DInv, Control, OthersWait
  <2>5. QED
    BY <2>3, <2>4
<1>7. QED
  BY <1>2, <1>3, <1>4, <1>5, <1>6 DEF Control

(* What the others rely on.                                                *)
Spares(a) ==
    LET op == work[a].op
    IN  /\ op \in {"stop", "push_stop"} => task' \in {task, 0} /\ driver' = driver
        /\ op # "create" => (row # "absent" => row' # "absent")
        /\ op = "interval" => driver' = driver
        /\ op = "reload" /\ work[a].pc = "checked" /\ driver = 0 => UNCHANGED <<driver, task>>

LEMMA OthersKept ==
    ASSUME DInv, NEW a \in Actors, Step(a), Moves(a), Spares(a), NEW b \in Actors, a # b
    PROVE  Local(b)'
<1>1. work'[b] = work[b] /\ Local(b)
  BY DEF Moves, DInv
<1>2. CASE ~Busy(b)
  BY <1>1, <1>2 DEF Local, Busy, Free
<1>3. CASE Busy(b)
  <2>1. Busy(a)
    BY StepIsBusy DEF DInv
  <2>2. CASE work[b].op \in {"start", "delete", "push_start"} 
    <3>1. work[b].op = "push_start" /\ work[a].op = "create"
      BY <1>3, <2>1, <2>2, Alone
    <3>2. work[b].pc = "checked"
      BY <1>3, <3>1 DEF DInv, Control, OthersWait
    <3>3. QED
      BY <3>1, <3>2, <1>1 DEF Local
  <2>3. CASE work[b].op = "create"
    <3>1. UNCHANGED <<row, life, driver, task, failed>>
      BY <2>3, BesideCreate
    <3>2. QED
      BY <3>1, <2>3, <1>1 DEF Local
  <2>4. CASE work[b].op = "stop"
    <3>1. work[a].op = "create" => work[b].saw # "online" /\ work[b].pc = "checked"
      BY <2>4, <1>3 DEF DInv, Control, OthersWait
    <3>2. QED
      BY <3>1, <2>4, <1>1 DEF Local, Spares
  <2>5. CASE work[b].op = "push_stop"
    BY <2>5, <1>1 DEF Local
  <2>6. CASE work[b].op = "interval"
    <3>1. work[a].op \in {"stop", "push_stop", "create"}
      BY <2>1, <1>3, <2>6, Alone
    <3>2. work[a].op = "create" => work[b].pc = "checked"
      BY <2>6, <1>3 DEF DInv, Control, OthersWait
    <3>3. QED
      BY <3>1, <3>2, <2>6, <1>1 DEF Local, Spares
  <2>7. CASE work[b].op = "reload"
    <3>1. work[a].op \in {"reload", "stop", "push_stop", "create"}
      BY <2>1, <1>3, <2>7, Alone
    <3>2. work[a].op = "create" => work[b].pc = "checked"
      BY <2>7, <1>3 DEF DInv, Control, OthersWait
    <3>3. Reloading(b) /\ work[a].op = "reload" => work[a].pc = "checked"
      BY DEF Reloading, DInv, Control, OneReload
    <3>4. Reloading(b) => driver = 0 /\ task = 0
      BY <1>1 DEF Reloading, Local
    <3>5. QED
      BY <3>1, <3>2, <3>3, <3>4, <2>7, <1>1 DEF Local, Spares, Reloading
  <2>8. work[b].op \in Starting \cup Stopping \cup {"none"}
    BY DEF DInv, TypeOK
  <2>9. QED
    BY <1>3, <2>2, <2>3, <2>4, <2>5, <2>6, <2>7, <2>8 DEF Starting, Stopping, Busy
<1>4. QED
  BY <1>2, <1>3

(* What the helpers of the steps do to the actors.                         *)
Others(a) == \A b \in Actors \ {a} : work'[b] = work[b]

At1(a, op, pc, saw, drv) ==
    /\ work'[a].op = op /\ work'[a].pc = pc /\ work'[a].saw = saw /\ work'[a].drv = drv
    /\ work' \in [Actors -> Works]
    /\ Others(a)

LEMMA GotoGives ==
    ASSUME DInv, NEW a \in Actors, NEW pc \in Pcs, Goto(a, pc)
    PROVE  At1(a, work[a].op, pc, work[a].saw, work[a].drv)
<1>1. work \in [Actors -> Works] /\ work[a] \in Works
  BY DEF DInv, TypeOK, Works
<1>2. QED
  BY <1>1 DEF Goto, At1, Others, Works

LEMMA GotoWithGives ==
    ASSUME DInv, NEW a \in Actors, NEW pc \in Pcs, NEW d \in Drivers,
           work' = [work EXCEPT ![a].pc = pc, ![a].drv = d]
    PROVE  At1(a, work[a].op, pc, work[a].saw, d)
<1>1. work \in [Actors -> Works] /\ work[a] \in Works
  BY DEF DInv, TypeOK, Works
<1>2. QED
  BY <1>1 DEF At1, Others, Works

LEMMA FreeGives ==
    ASSUME DInv, NEW a \in Actors, work' = [work EXCEPT ![a] = Free]
    PROVE  At1(a, "none", "idle", "absent", 0) /\ work'[a] = Free
<1>1. work \in [Actors -> Works] /\ work[a] \in Works
  BY DEF DInv, TypeOK, Works
<1>2. Free \in Works
  BY DEF Free, Works, Pcs
<1>3. work' \in [Actors -> Works] /\ work'[a] = Free /\ Others(a)
  BY <1>1, <1>2 DEF Others
<1>4. QED
  BY <1>3 DEF At1, Free

LEMMA EndGives ==
    ASSUME DInv, NEW a \in Actors, End(a)
    PROVE  At1(a, "none", "idle", "absent", 0) /\ work'[a] = Free
BY FreeGives DEF End

LEMMA ShapeOK ==
    ASSUME DInv, RunningType', work' \in [Actors -> Works],
           task' \in Loops \cup {0}, using' \in Drivers \cup {0}, driver' \in Drivers \cup {0},
           row' \in {"absent", "online", "offline"}, life' \in {"absent", "online", "offline"},
           lock' \in Actors \cup {None}, big' \in Actors \cup {None}, failed' \in BOOLEAN,
           UNCHANGED watch \/ watch' = Quiet
    PROVE  TypeOK'
BY DEF DInv, TypeOK, RunningType, Works, Quiet

-----------------------------------------------------------------------------
(* One action after the other.                                             *)
Keeps(a) == TypeOK' /\ Moves(a) /\ Spares(a) /\ Local(a)' /\ Device'

(* An operation ends that has not got far, or with an error.               *)
LEMMA GivesUp ==
    ASSUME DInv, NEW a \in Actors, End(a), Busy(a), work[a].op \notin {"create", "delete"},
           UNCHANGED <<row, life, driver, task, using, running, watch>>,
           failed' = TRUE \/ (failed' = failed /\ work[a].pc = "checked")
    PROVE  Keeps(a)
<1>1. LoopKnown' /\ WatchKnows' /\ RunningType'
  BY SameKeeps
<1>2. At1(a, "none", "idle", "absent", 0) /\ work'[a] = Free
  BY EndGives
<1>3. TypeOK'
  BY <1>1, <1>2, ShapeOK DEF End, DInv, TypeOK, At1
<1>4. Moves(a) /\ Spares(a)
  BY <1>2 DEF End, At1, Others, Moves, Spares, Busy
<1>5. Local(a)'
  BY <1>2 DEF At1, Local
<1>6. GoneOrGoing'
  BY <1>2 DEF At1, Others, DInv, Device, GoneOrGoing
<1>7. OnlineOrGoing'
  BY <1>2 DEF At1, Others, DInv, Device, OnlineOrGoing, Stops, Restarts
<1>8. QED
  BY <1>1, <1>3, <1>4, <1>5, <1>6, <1>7 DEF Keeps, Device

LEMMA RecreateFailsKeeps ==
    ASSUME DInv, NEW a \in Actors, RecreateFails(a)
    PROVE  Keeps(a)
BY GivesUp DEF RecreateFails, At, Busy

LEMMA UpdateRowKeeps ==
    ASSUME DInv, NEW a \in Actors, UpdateRow(a)
    PROVE  Keeps(a)
BY GivesUp DEF UpdateRow, At, Busy

LEMMA LifecycleKeeps ==
    ASSUME DInv, NEW a \in Actors, Lifecycle(a)
    PROVE  Keeps(a)
<1>1. LoopKnown' /\ WatchKnows' /\ RunningType'
  BY SameKeeps DEF Lifecycle
<1>2. work[a] \in Works /\ work \in [Actors -> Works] /\ Local(a)
  BY DEF DInv, TypeOK, Works
<1>3. TypeOK'
  BY <1>1, <1>2 DEF Lifecycle, Goto, NextLife, Outcome, Free, DInv, TypeOK, Works, RunningType, Pcs
<1>4. Moves(a) /\ Spares(a)
  BY <1>2 DEF Lifecycle, Goto, Free, Moves, Spares, Local, At, Busy, DInv, Control, LocksHeld
<1>5. Local(a)'
  BY <1>2 DEF Lifecycle, Goto, NextLife, Outcome, Free, Local, Stopping
<1>6. GoneOrGoing'
  BY <1>2 DEF Lifecycle, Goto, NextLife, Outcome, Free, DInv, Device, GoneOrGoing, Local, Stopping, Starting, Works
<1>7. OnlineOrGoing'
  BY <1>2 DEF Lifecycle, Goto, NextLife, Outcome, Free, DInv, Device, OnlineOrGoing, Local, Stopping, Stops, Restarts,
     Starting, Works
<1>8. QED
  BY <1>1, <1>3, <1>4, <1>5, <1>6, <1>7 DEF Keeps, Device

LEMMA LifecycleFailsKeeps ==
    ASSUME DInv, NEW a \in Actors, LifecycleFails(a)
    PROVE  Keeps(a)
<1>1. LoopKnown' /\ WatchKnows' /\ RunningType'
  BY SameKeeps DEF LifecycleFails
<1>2. work[a] \in Works /\ work \in [Actors -> Works] /\ Local(a)
  BY DEF DInv, TypeOK, Works
<1>3. \/ /\ work[a].op = "create" /\ At1(a, "create", "rollback", work[a].saw, work[a].drv)
         /\ UNCHANGED <<lock, big>>
      \/ /\ work[a].op = "delete" /\ At1(a, "delete", "forget", work[a].saw, work[a].drv)
         /\ UNCHANGED <<lock, big>>
      \/ /\ work[a].op \notin {"create", "delete"} /\ At1(a, "none", "idle", "absent", 0)
         /\ work'[a] = Free /\ End(a)
  <2>1. CASE work[a].op = "create"
    BY <2>1, GotoGives DEF LifecycleFails, Pcs
  <2>2. CASE work[a].op = "delete"
    BY <2>2, GotoGives DEF LifecycleFails, Pcs
  <2>3. CASE work[a].op \notin {"create", "delete"}
    BY <2>3, EndGives DEF LifecycleFails
  <2>4. QED
    BY <2>1, <2>2, <2>3
<1>4. TypeOK'
  BY <1>1, <1>3, ShapeOK DEF LifecycleFails, End, DInv, TypeOK, At1
<1>5. Moves(a) /\ Spares(a)
  BY <1>2, <1>3 DEF LifecycleFails, End, At1, Others, Moves, Spares, Local, Busy, DInv, Control, LocksHeld
<1>6. Local(a)'
  BY <1>2, <1>3 DEF LifecycleFails, At1, Local
<1>7. GoneOrGoing'
  BY <1>2, <1>3 DEF LifecycleFails, At1, Others, DInv, Device, GoneOrGoing, Local
<1>8. OnlineOrGoing'
  BY DEF LifecycleFails, OnlineOrGoing
<1>9. QED
  BY <1>1, <1>4, <1>5, <1>6, <1>7, <1>8 DEF Keeps, Device

LEMMA RestartConfigKeeps ==
    ASSUME DInv, NEW a \in Actors, RestartConfig(a)
    PROVE  Keeps(a)
<1>1. Local(a) /\ work[a] \in Works
  BY DEF DInv, TypeOK, Works
<1>2. LoopKnown' /\ WatchKnows' /\ RunningType'
  BY <1>1, SameKeeps DEF RestartConfig, End
<1>3. At1(a, "reload", "load", work[a].saw, work[a].drv) /\ UNCHANGED <<lock, big>>
      /\ UNCHANGED <<row, life, driver, task, using, running, watch, failed>>
  BY <1>1, GotoGives DEF RestartConfig, Local, Pcs, At
<1>4. TypeOK'
  BY <1>1, <1>2, <1>3, ShapeOK DEF RestartConfig, DInv, TypeOK, At1
<1>5. Moves(a) /\ Spares(a)
  BY <1>1, <1>3 DEF RestartConfig, At, At1, Others, Moves, Spares, Local, Busy, DInv, Control, LocksHeld
<1>6. Local(a)'
  BY <1>1, <1>3 DEF RestartConfig, At, At1, Local
<1>7. GoneOrGoing'
  BY <1>1, <1>3 DEF RestartConfig, At, At1, Others, DInv, Device, GoneOrGoing, Local
<1>8. OnlineOrGoing'
  BY <1>1, <1>3 DEF RestartConfig, At, At1, Others, DInv, Device, OnlineOrGoing, Local, Stops, Restarts
<1>9. QED
  BY <1>2, <1>4, <1>5, <1>6, <1>7, <1>8 DEF Keeps, Device

LEMMA UndoKeeps ==
    ASSUME DInv, NEW a \in Actors, Undo(a)
    PROVE  Keeps(a)
<1>1. Local(a) /\ work[a] \in Works
  BY DEF DInv, TypeOK, Works
<1>2. LoopKnown' /\ WatchKnows' /\ RunningType'
  BY <1>1, SameKeeps DEF Undo, At, Local
<1>3. At1(a, "none", "idle", "absent", 0) /\ work'[a] = Free
  BY <1>1, EndGives DEF Undo
<1>4. TypeOK'
  BY <1>1, <1>2, <1>3, ShapeOK DEF Undo, DInv, TypeOK, At1, End
<1>5. Moves(a) /\ Spares(a)
  BY <1>1, <1>3 DEF Undo, At, At1, Others, Moves, Spares, Local, Busy, DInv, Control, LocksHeld, End
<1>6. Local(a)'
  BY <1>1, <1>3 DEF Undo, At, At1, Local, End
<1>7. GoneOrGoing'
  BY <1>1, <1>3 DEF Undo, At, At1, Others, DInv, Device, GoneOrGoing, Local, End
<1>8. OnlineOrGoing'
  BY <1>1, <1>3 DEF Undo, At, At1, Others, DInv, Device, OnlineOrGoing, Local, Stops, Restarts, End
<1>9. QED
  BY <1>2, <1>4, <1>5, <1>6, <1>7, <1>8 DEF Keeps, Device

LEMMA ForgetKeeps ==
    ASSUME DInv, NEW a \in Actors, Forget(a)
    PROVE  Keeps(a)
<1>1. Local(a) /\ work[a] \in Works
  BY DEF DInv, TypeOK, Works
<1>2. LoopKnown' /\ WatchKnows' /\ RunningType'
  BY <1>1, SameKeeps DEF Forget, At, Local
<1>3. At1(a, "delete", "sidecar", work[a].saw, work[a].drv)
  BY <1>1, GotoGives DEF Forget, Pcs, At
<1>4. TypeOK'
  BY <1>1, <1>2, <1>3, ShapeOK DEF Forget, DInv, TypeOK, At1
<1>5. Moves(a) /\ Spares(a)
  BY <1>1, <1>3 DEF Forget, At, At1, Others, Moves, Spares, Local, Busy, DInv, Control, LocksHeld
<1>6. Local(a)'
  BY <1>1, <1>3 DEF Forget, At, At1, Local
<1>7. GoneOrGoing'
  BY <1>1, <1>3 DEF Forget, At, At1, Others, DInv, Device, GoneOrGoing, Local
<1>8. OnlineOrGoing'
  BY <1>1, <1>3 DEF Forget, At, At1, Others, DInv, Device, OnlineOrGoing, Local, Stops, Restarts
<1>9. QED
  BY <1>2, <1>4, <1>5, <1>6, <1>7, <1>8 DEF Keeps, Device

LEMMA ForgetLockKeeps ==
    ASSUME DInv, NEW a \in Actors, ForgetLock(a)
    PROVE  Keeps(a)
<1>1. Local(a) /\ work[a] \in Works
  BY DEF DInv, TypeOK, Works
<1>2. LoopKnown' /\ WatchKnows' /\ RunningType'
  BY <1>1, SameKeeps DEF ForgetLock
<1>3. At1(a, "none", "idle", "absent", 0) /\ work'[a] = Free
  BY <1>1, FreeGives DEF ForgetLock
<1>4. TypeOK'
  BY <1>1, <1>2, <1>3, ShapeOK DEF ForgetLock, DInv, TypeOK, At1
<1>5. Moves(a) /\ Spares(a)
  <2>1. \A b \in Actors \ {a} : ~Busy(b)
    BY Alone DEF ForgetLock, At, Busy
  <2>2. QED
    BY <1>1, <1>3, <2>1 DEF ForgetLock, At, At1, Others, Moves, Spares
<1>6. Local(a)'
  BY <1>1, <1>3 DEF ForgetLock, At, At1, Local
<1>7. GoneOrGoing'
  BY <1>1, <1>3 DEF ForgetLock, At, At1, Others, DInv, Device, GoneOrGoing, Local
<1>8. OnlineOrGoing'
  BY <1>1, <1>3 DEF ForgetLock, At, At1, Others, DInv, Device, OnlineOrGoing, Local, Stops, Restarts
<1>9. QED
  BY <1>2, <1>4, <1>5, <1>6, <1>7, <1>8 DEF Keeps, Device

(* Who finds a driver, and nobody at a creation, finds the row too.        *)
LEMMA DriverHasRow ==
    ASSUME DInv, NEW a \in Actors, Busy(a), work[a].op # "delete", big = None, driver # 0
    PROVE  row # "absent"
<1>1. \A b \in Actors : work[b].op # "create"
  BY Names DEF DInv, Control, LocksHeld
<1>2. \A b \in Actors : work[b].op # "delete"
  BY Alone DEF Busy
<1>3. QED
  BY <1>1, <1>2 DEF DInv, Device, GoneOrGoing

LEMMA PushStopKeeps ==
    ASSUME DInv, NEW a \in Actors, PushStop(a)
    PROVE  Keeps(a)
<1>1. Local(a) /\ work[a] \in Works
  BY DEF DInv, TypeOK, Works
<1>2. LoopKnown' /\ WatchKnows' /\ RunningType'
  BY <1>1, PopKeeps DEF PushStop, CallStop
<1>3. At1(a, "push_stop", "lifecycle", work[a].saw, work[a].drv) /\ UNCHANGED <<lock, big>>
      /\ task' = 0 /\ using' = 0
  BY <1>1, GotoGives DEF PushStop, CallStop, PopTask, Pcs, At
<1>4. TypeOK'
  BY <1>1, <1>2, <1>3, ShapeOK DEF PushStop, DInv, TypeOK, At1
<1>5. Moves(a) /\ Spares(a)
  BY <1>1, <1>3 DEF PushStop, At, At1, Others, Moves, Spares, Local, Busy, DInv, Control, LocksHeld
<1>6. Local(a)'
  BY <1>1, <1>3 DEF PushStop, At, At1, Local
<1>7. GoneOrGoing'
  BY <1>1, <1>3 DEF PushStop, At, At1, Others, DInv, Device, GoneOrGoing, Local
<1>8. OnlineOrGoing'
  BY <1>1, <1>3 DEF PushStop, At, At1, Others, DInv, Device, OnlineOrGoing, Local, Stops, Restarts
<1>9. QED
  BY <1>2, <1>4, <1>5, <1>6, <1>7, <1>8 DEF Keeps, Device

LEMMA UpdateIntervalKeeps ==
    ASSUME DInv, NEW a \in Actors, UpdateInterval(a)
    PROVE  Keeps(a)
<1>1. Local(a) /\ work[a] \in Works
  BY DEF DInv, TypeOK, Works
<1>2. LoopKnown' /\ WatchKnows' /\ RunningType'
  BY <1>1, PopKeeps DEF UpdateInterval, CallStop
<1>3. At1(a, "interval", "restart", work[a].saw, work[a].drv) /\ UNCHANGED <<lock, big>>
      /\ task' = 0 /\ using' = 0
  BY <1>1, GotoGives DEF UpdateInterval, CallStop, PopTask, Pcs, At
<1>4. TypeOK'
  BY <1>1, <1>2, <1>3, ShapeOK DEF UpdateInterval, DInv, TypeOK, At1
<1>5. Moves(a) /\ Spares(a)
  BY <1>1, <1>3 DEF UpdateInterval, At, At1, Others, Moves, Spares, Local, Busy, DInv, Control, LocksHeld
<1>6. Local(a)'
  <2>1. row # "absent"
    BY DriverHasRow DEF UpdateInterval, At, Busy
  <2>2. QED
    BY <1>1, <1>3, <2>1 DEF UpdateInterval, At, At1, Local
<1>7. GoneOrGoing'
  BY <1>1, <1>3 DEF UpdateInterval, At, At1, Others, DInv, Device, GoneOrGoing, Local
<1>8. OnlineOrGoing'
  BY <1>1, <1>3 DEF UpdateInterval, At, At1, Others, DInv, Device, OnlineOrGoing, Local, Stops, Restarts
<1>9. QED
  BY <1>2, <1>4, <1>5, <1>6, <1>7, <1>8 DEF Keeps, Device

LEMMA UpdateConfigKeeps ==
    ASSUME DInv, NEW a \in Actors, UpdateConfig(a)
    PROVE  Keeps(a)
<1>1. Local(a) /\ work[a] \in Works
  BY DEF DInv, TypeOK, Works
<1>2. LoopKnown' /\ WatchKnows' /\ RunningType'
  BY <1>1, PopKeeps DEF UpdateConfig
<1>3. At1(a, "reload", "restart", work[a].saw, driver) /\ UNCHANGED <<lock, big>>
      /\ task' = 0 /\ using' = 0
  <2>1. driver \in Drivers /\ "restart" \in Pcs
    BY DEF UpdateConfig, DInv, TypeOK, Pcs
  <2>2. At1(a, work[a].op, "restart", work[a].saw, driver)
    BY <2>1, GotoWithGives DEF UpdateConfig
  <2>3. QED
    BY <2>2 DEF UpdateConfig, PopTask, At
<1>4. TypeOK'
  BY <1>1, <1>2, <1>3, ShapeOK DEF UpdateConfig, DInv, TypeOK, At1
<1>5. Moves(a) /\ Spares(a)
  BY <1>1, <1>3 DEF UpdateConfig, At, At1, Others, Moves, Spares, Local, Busy, DInv, Control, LocksHeld
<1>6. Local(a)'
  <2>1. row # "absent"
    BY DriverHasRow DEF UpdateConfig, At, Busy
  <2>2. QED
    BY <1>1, <1>3, <2>1 DEF UpdateConfig, At, At1, Local
<1>7. GoneOrGoing'
  BY <1>1, <1>3 DEF UpdateConfig, At, At1, Others, DInv, Device, GoneOrGoing, Local
<1>8. OnlineOrGoing'
  BY <1>1, <1>3 DEF UpdateConfig, At, At1, Others, DInv, Device, OnlineOrGoing, Local, Stops, Restarts
<1>9. QED
  BY <1>2, <1>4, <1>5, <1>6, <1>7, <1>8 DEF Keeps, Device

LEMMA RollbackFailsKeeps ==
    ASSUME DInv, NEW a \in Actors, RollbackFails(a)
    PROVE  Keeps(a)
<1>1. Local(a) /\ work[a] \in Works
  BY DEF DInv, TypeOK, Works
<1>2. LoopKnown' /\ WatchKnows' /\ RunningType'
  BY SameKeeps DEF RollbackFails
<1>3. At1(a, "none", "idle", "absent", 0) /\ work'[a] = Free
  BY <1>1, EndGives DEF RollbackFails
<1>4. TypeOK'
  BY <1>1, <1>2, <1>3, ShapeOK DEF RollbackFails, DInv, TypeOK, At1, End
<1>5. Moves(a) /\ Spares(a)
  BY <1>1, <1>3 DEF RollbackFails, At, At1, Others, Moves, Spares, Busy, End
<1>6. Local(a)'
  BY <1>3 DEF At1, Local
<1>7. GoneOrGoing'
  BY <1>1 DEF RollbackFails, At, Local, GoneOrGoing
<1>8. OnlineOrGoing'
  BY DEF RollbackFails, OnlineOrGoing
<1>9. QED
  BY <1>2, <1>4, <1>5, <1>6, <1>7, <1>8 DEF Keeps, Device

LEMMA RollbackKeeps ==
    ASSUME DInv, NEW a \in Actors, Rollback(a)
    PROVE  Keeps(a)
<1>1. Local(a) /\ work[a] \in Works
  BY DEF DInv, TypeOK, Works
<1>2. LoopKnown' /\ WatchKnows' /\ RunningType'
  BY <1>1, PopKeeps DEF Rollback, CallStop
<1>3. At1(a, "create", "undo", work[a].saw, work[a].drv) /\ UNCHANGED <<lock, big>>
      /\ task' = 0 /\ using' = 0
  BY <1>1, GotoGives DEF Rollback, CallStop, PopTask, Pcs, At
<1>4. TypeOK'
  BY <1>1, <1>2, <1>3, ShapeOK DEF Rollback, DInv, TypeOK, At1
<1>5. Moves(a) /\ Spares(a)
  BY <1>1, <1>3 DEF Rollback, At, At1, Others, Moves, Spares, Local, Busy, DInv, Control, LocksHeld
<1>6. Local(a)'
  BY <1>1, <1>3 DEF Rollback, At, At1, Local
<1>7. GoneOrGoing'
  BY <1>1, <1>3 DEF Rollback, At, At1, Others, DInv, Device, GoneOrGoing, Local
<1>8. OnlineOrGoing'
  BY <1>1, <1>3 DEF Rollback, At, At1, Others, DInv, Device, OnlineOrGoing, Local, Stops, Restarts
<1>9. QED
  BY <1>2, <1>4, <1>5, <1>6, <1>7, <1>8 DEF Keeps, Device

LEMMA CleanupKeeps ==
    ASSUME DInv, NEW a \in Actors, Cleanup(a)
    PROVE  Keeps(a)
<1>1. Local(a) /\ work[a] \in Works
  BY DEF DInv, TypeOK, Works
<1>2. LoopKnown' /\ WatchKnows' /\ RunningType'
  BY <1>1, PopKeeps DEF Cleanup, CallStop
<1>3. At1(a, "delete", "lifecycle", work[a].saw, work[a].drv) /\ UNCHANGED <<lock, big>>
      /\ task' = 0 /\ using' = 0
  BY <1>1, GotoGives DEF Cleanup, CallStop, PopTask, Pcs, At
<1>4. TypeOK'
  BY <1>1, <1>2, <1>3, ShapeOK DEF Cleanup, DInv, TypeOK, At1
<1>5. Moves(a) /\ Spares(a)
  BY <1>1, <1>3 DEF Cleanup, At, At1, Others, Moves, Spares, Local, Busy, DInv, Control, LocksHeld
<1>6. Local(a)'
  BY <1>1, <1>3 DEF Cleanup, At, At1, Local
<1>7. GoneOrGoing'
  BY <1>1, <1>3 DEF Cleanup, At, At1, Others, DInv, Device, GoneOrGoing, Local
<1>8. OnlineOrGoing'
  BY <1>1, <1>3 DEF Cleanup, At, At1, Others, DInv, Device, OnlineOrGoing, Local, Stops, Restarts
<1>9. QED
  BY <1>2, <1>4, <1>5, <1>6, <1>7, <1>8 DEF Keeps, Device

(* The two ways of start_collect: at once, or after a wait.                *)
Started(a) ==
    /\ task' # 0
    /\ IF work[a].op \in {"start", "push_start"}
       THEN At1(a, work[a].op, "lifecycle", work[a].saw, work[a].drv) /\ UNCHANGED <<lock, big>>
       ELSE At1(a, "none", "idle", "absent", 0) /\ work'[a] = Free /\ End(a)

LEMMA StartedGives ==
    ASSUME DInv, NEW a \in Actors, NEW d \in Drivers, task = 0, CreateTask(d), AfterStart(a), driver' = d,
           UNCHANGED watch
    PROVE  LoopKnown' /\ WatchKnows' /\ RunningType' /\ Started(a) /\ task' \in Loops /\ using' \in Drivers
<1>1. DOMAIN running = {}
  BY DEF DInv, Device, LoopKnown
<1>2. LoopKnown' /\ WatchKnows' /\ RunningType' /\ task' \in Loops /\ task' # 0 /\ using' = d
  BY <1>1, CreateKeeps
<1>3. Started(a)
  BY <1>2, GotoGives, EndGives DEF AfterStart, Started, Pcs
<1>4. QED
  BY <1>2, <1>3

LEMMA CallStartGives ==
    ASSUME DInv, NEW a \in Actors, NEW d \in Drivers, CallStart(a, d), driver' = d, UNCHANGED watch
    PROVE  /\ LoopKnown' /\ WatchKnows' /\ RunningType'
           /\ task' \in Loops \cup {0} /\ using' \in Drivers \cup {0}
           /\ \/ task = 0 /\ Started(a)
              \/ /\ task # 0 /\ task' = 0 /\ At1(a, work[a].op, "waiting", work[a].saw, d)
                 /\ UNCHANGED <<lock, big>>
<1>1. CASE task = 0
  BY <1>1, StartedGives DEF CallStart
<1>2. CASE task # 0
  BY <1>2, PopKeeps, GotoWithGives DEF CallStart, Pcs
<1>3. QED
  BY <1>1, <1>2

LEMMA OldTaskEndedKeeps ==
    ASSUME DInv, NEW a \in Actors, OldTaskEnded(a)
    PROVE  Keeps(a)
<1>1. Local(a) /\ work[a] \in Works
  BY DEF DInv, TypeOK, Works
<1>2. work[a].op \in {"start", "push_start"} /\ task = 0 /\ work[a].drv = driver /\ driver \in Drivers
  BY <1>1 DEF OldTaskEnded, At, Starting, Local, Works
<1>3. /\ LoopKnown' /\ WatchKnows' /\ RunningType' /\ task' \in Loops /\ using' \in Drivers
      /\ At1(a, work[a].op, "lifecycle", work[a].saw, work[a].drv) /\ UNCHANGED <<lock, big>> /\ task' # 0
  BY <1>2, StartedGives DEF OldTaskEnded, Started
<1>4. TypeOK'
  BY <1>3, ShapeOK DEF OldTaskEnded, DInv, TypeOK, At1
<1>5. Moves(a) /\ Spares(a)
  BY <1>1, <1>2, <1>3 DEF OldTaskEnded, At, At1, Others, Moves, Spares, Local, Busy, DInv, Control, LocksHeld
<1>6. Local(a)'
  BY <1>1, <1>2, <1>3 DEF OldTaskEnded, At, At1, Local
<1>7. GoneOrGoing'
  BY <1>1, <1>2, <1>3 DEF OldTaskEnded, At, At1, Others, DInv, Device, GoneOrGoing, Local
<1>8. OnlineOrGoing'
  BY <1>1, <1>2, <1>3 DEF OldTaskEnded, At, At1, Others, DInv, Device, OnlineOrGoing, Local, Stops, Restarts
<1>9. QED
  BY <1>3, <1>4, <1>5, <1>6, <1>7, <1>8 DEF Keeps, Device

LEMMA RecreatedKeeps ==
    ASSUME DInv, NEW a \in Actors, Recreated(a)
    PROVE  Keeps(a)
<1>1. Local(a) /\ work[a] \in Works /\ NewDriver \in Drivers
  BY NewDriverIsDriver DEF DInv, TypeOK, Works
<1>2. task = 0
  BY <1>1 DEF DInv, Device, LoopKnown, Local, Recreated, At
<1>3. /\ DOMAIN running = {} /\ CreateTask(NewDriver) /\ driver' = NewDriver /\ UNCHANGED watch
      /\ At1(a, "start", "lifecycle", work[a].saw, work[a].drv)
  BY <1>2, GotoGives DEF DInv, Device, LoopKnown, Recreated, Pcs, At
<1>4. /\ LoopKnown' /\ WatchKnows' /\ RunningType'
      /\ task' \in Loops /\ task' # 0 /\ using' \in Drivers /\ driver' \in Drivers
  BY <1>1, <1>3, CreateKeeps
<1>5. TypeOK'
  BY <1>3, <1>4, ShapeOK DEF Recreated, DInv, TypeOK, At1
<1>6. Moves(a) /\ Spares(a)
  <2>1. \A b \in Actors \ {a} : Busy(b) => big # b
    BY Names DEF DInv, Control, LocksHeld, Recreated, At
  <2>2. QED
    BY <1>1, <1>3, <2>1 DEF Recreated, At, At1, Others, Moves, Spares, Local, Busy, DInv, Control, LocksHeld
<1>7. Local(a)'
  BY <1>1, <1>3, <1>4 DEF Recreated, At, At1, Local
<1>8. GoneOrGoing'
  BY <1>1, <1>3, <1>4 DEF Recreated, At, At1, Others, DInv, Device, GoneOrGoing, Local
<1>9. OnlineOrGoing'
  BY <1>1, <1>3, <1>4 DEF Recreated, At, At1, Others, DInv, Device, OnlineOrGoing, Local, Stops, Restarts
<1>10. QED
  BY <1>4, <1>5, <1>6, <1>7, <1>8, <1>9 DEF Keeps, Device

LEMMA PushStartKeeps ==
    ASSUME DInv, NEW a \in Actors, PushStart(a)
    PROVE  Keeps(a)
<1>1. Local(a) /\ work[a] \in Works
  BY DEF DInv, TypeOK, Works
<1>2. CASE End(a) /\ UNCHANGED <<row, life, driver, task, using, running, watch>>
  BY <1>2, GivesUp DEF PushStart, At, Busy
<1>3. CASE CallStart(a, driver) /\ work[a].saw # "absent" /\ driver # 0
  <2>1. driver \in Drivers /\ row # "absent" /\ driver' = driver /\ UNCHANGED watch
    BY <1>3, DriverHasRow DEF PushStart, At, Busy, DInv, TypeOK
  <2>2. /\ LoopKnown' /\ WatchKnows' /\ RunningType'
        /\ task' \in Loops \cup {0} /\ using' \in Drivers \cup {0}
        /\ \/ task = 0 /\ Started(a)
           \/ /\ task # 0 /\ task' = 0 /\ At1(a, work[a].op, "waiting", work[a].saw, driver)
              /\ UNCHANGED <<lock, big>>
    BY <1>3, <2>1, CallStartGives DEF PushStart
  <2>3. TypeOK'
    BY <1>3, <2>1, <2>2, ShapeOK DEF PushStart, DInv, TypeOK, At1, Started, End
  <2>4. Moves(a) /\ Spares(a)
    BY <1>1, <1>3, <2>1, <2>2 DEF PushStart, At, At1, Others, Moves, Spares, Local, Busy, DInv, Control, LocksHeld, Started, End
  <2>5. Local(a)'
    BY <1>1, <1>3, <2>1, <2>2 DEF PushStart, At, At1, Local, Started
  <2>6. GoneOrGoing'
    BY <1>1, <1>3, <2>1, <2>2 DEF PushStart, At, At1, Others, DInv, Device, GoneOrGoing, Local, Started
  <2>7. OnlineOrGoing'
    BY <1>1, <1>3, <2>1, <2>2 DEF PushStart, At, At1, Others, DInv, Device, OnlineOrGoing, Local, Stops, Restarts, Started
  <2>8. QED
    BY <2>2, <2>3, <2>4, <2>5, <2>6, <2>7 DEF Keeps, Device
<1>4. QED
  BY <1>2, <1>3 DEF PushStart

LEMMA RestartIntervalKeeps ==
    ASSUME DInv, NEW a \in Actors, RestartInterval(a)
    PROVE  Keeps(a)
<1>1. Local(a) /\ work[a] \in Works
  BY DEF DInv, TypeOK, Works
<1>2. CASE CallStart(a, driver) /\ driver # 0
  <2>1. driver \in Drivers /\ task = 0 /\ row # "absent" /\ driver' = driver /\ UNCHANGED watch
    BY <1>1, <1>2 DEF RestartInterval, At, Local, DInv, TypeOK
  <2>2. /\ LoopKnown' /\ WatchKnows' /\ RunningType'
        /\ task' \in Loops \cup {0} /\ using' \in Drivers \cup {0}
        /\ \/ task = 0 /\ Started(a)
           \/ /\ task # 0 /\ task' = 0 /\ At1(a, work[a].op, "waiting", work[a].saw, driver)
              /\ UNCHANGED <<lock, big>>
    BY <1>2, <2>1, CallStartGives DEF RestartInterval
  <2>3. TypeOK'
    BY <1>2, <2>1, <2>2, ShapeOK DEF RestartInterval, DInv, TypeOK, At1, Started, End
  <2>4. Moves(a) /\ Spares(a)
    BY <1>1, <1>2, <2>1, <2>2 DEF RestartInterval, At, At1, Others, Moves, Spares, Local, Busy, DInv, Control, LocksHeld, Started, End
  <2>5. Local(a)'
    BY <1>1, <1>2, <2>1, <2>2 DEF RestartInterval, At, At1, Local, Started
  <2>6. GoneOrGoing'
    BY <1>1, <1>2, <2>1, <2>2 DEF RestartInterval, At, At1, Others, DInv, Device, GoneOrGoing, Local, Started
  <2>7. OnlineOrGoing'
    BY <1>1, <1>2, <2>1, <2>2 DEF RestartInterval, At, At1, Others, DInv, Device, OnlineOrGoing, Local, Stops, Restarts, Started
  <2>8. QED
    BY <2>2, <2>3, <2>4, <2>5, <2>6, <2>7 DEF Keeps, Device
<1>3. QED
  BY <1>1, <1>2 DEF RestartInterval, At, Local

LEMMA LoadKeeps ==
    ASSUME DInv, NEW a \in Actors, Load(a)
    PROVE  Keeps(a)
<1>1. Local(a) /\ work[a] \in Works
  BY DEF DInv, TypeOK, Works
<1>2. CASE End(a) /\ UNCHANGED <<row, life, driver, task, using, running, watch>> /\ failed' = TRUE
  BY <1>2, GivesUp DEF Load, At, Busy
<1>3. CASE CallStart(a, NewDriver) /\ driver' = NewDriver /\ UNCHANGED failed
  <2>1. NewDriver \in Drivers /\ task = 0 /\ row # "absent" /\ UNCHANGED watch
    BY <1>1, NewDriverIsDriver DEF Load, At, Local, DInv
  <2>2. /\ LoopKnown' /\ WatchKnows' /\ RunningType'
        /\ task' \in Loops \cup {0} /\ using' \in Drivers \cup {0}
        /\ \/ task = 0 /\ Started(a)
           \/ /\ task # 0 /\ task' = 0 /\ At1(a, work[a].op, "waiting", work[a].saw, NewDriver)
              /\ UNCHANGED <<lock, big>>
    BY <1>3, <2>1, CallStartGives DEF Load
  <2>3. TypeOK'
    BY <1>3, <2>1, <2>2, ShapeOK DEF Load, DInv, TypeOK, At1, Started, End
  <2>4. Moves(a) /\ Spares(a)
    BY <1>1, <1>3, <2>1, <2>2 DEF Load, At, At1, Others, Moves, Spares, Local, Busy, DInv, Control, LocksHeld, Started, End
  <2>5. Local(a)'
    BY <1>1, <1>3, <2>1, <2>2 DEF Load, At, At1, Local, Started
  <2>6. GoneOrGoing'
    BY <1>1, <1>3, <2>1, <2>2 DEF Load, At, At1, Others, DInv, Device, GoneOrGoing, Local, Started
  <2>7. OnlineOrGoing'
    BY <1>1, <1>3, <2>1, <2>2 DEF Load, At, At1, Others, DInv, Device, OnlineOrGoing, Local, Stops, Restarts, Started
  <2>8. QED
    BY <2>2, <2>3, <2>4, <2>5, <2>6, <2>7 DEF Keeps, Device
<1>4. QED
  BY <1>2, <1>3 DEF Load

LEMMA StartCheckedKeeps ==
    ASSUME DInv, NEW a \in Actors, StartChecked(a)
    PROVE  Keeps(a)
<1>1. Local(a) /\ work[a] \in Works
  BY DEF DInv, TypeOK, Works
<1>2. CASE End(a) /\ UNCHANGED <<row, life, driver, task, using, running, watch>> /\ failed' = failed
  BY <1>2, GivesUp DEF StartChecked, At, Busy
<1>3. CASE CallStart(a, driver) /\ work[a].saw = "offline" /\ driver # 0
  <2>1. driver \in Drivers /\ row = "offline" /\ driver' = driver /\ UNCHANGED watch
    BY <1>1, <1>3 DEF StartChecked, At, Local, DInv, TypeOK
  <2>2. /\ LoopKnown' /\ WatchKnows' /\ RunningType'
        /\ task' \in Loops \cup {0} /\ using' \in Drivers \cup {0}
        /\ \/ task = 0 /\ Started(a)
           \/ /\ task # 0 /\ task' = 0 /\ At1(a, work[a].op, "waiting", work[a].saw, driver)
              /\ UNCHANGED <<lock, big>>
    BY <1>3, <2>1, CallStartGives DEF StartChecked
  <2>3. TypeOK'
    BY <1>3, <2>1, <2>2, ShapeOK DEF StartChecked, DInv, TypeOK, At1, Started, End
  <2>4. Moves(a) /\ Spares(a)
    BY <1>1, <1>3, <2>1, <2>2 DEF StartChecked, At, At1, Others, Moves, Spares, Local, Busy, DInv, Control, LocksHeld, Started, End
  <2>5. Local(a)'
    BY <1>1, <1>3, <2>1, <2>2 DEF StartChecked, At, At1, Local, Started
  <2>6. GoneOrGoing'
    BY <1>1, <1>3, <2>1, <2>2 DEF StartChecked, At, At1, Others, DInv, Device, GoneOrGoing, Local, Started
  <2>7. OnlineOrGoing'
    BY <1>1, <1>3, <2>1, <2>2 DEF StartChecked, At, At1, Others, DInv, Device, OnlineOrGoing, Local, Stops, Restarts, Started
  <2>8. QED
    BY <2>2, <2>3, <2>4, <2>5, <2>6, <2>7 DEF Keeps, Device
<1>4. CASE big = None /\ big' = a /\ Goto(a, "recreate") /\ UNCHANGED <<task, using, running, lock>>
          /\ work[a].saw # "absent" /\ driver = 0
  <2>1. LoopKnown' /\ WatchKnows' /\ RunningType'
    BY <1>4, SameKeeps DEF StartChecked
  <2>2. At1(a, "start", "recreate", work[a].saw, work[a].drv)
    BY <1>4, GotoGives DEF StartChecked, Pcs, At
  <2>3. TypeOK'
    BY <1>4, <2>1, <2>2, ShapeOK DEF StartChecked, DInv, TypeOK, At1
  <2>4. Moves(a) /\ Spares(a)
    <3>1. \A b \in Actors \ {a} : big # b
      BY <1>4, Names
    <3>2. QED
      BY <1>1, <1>4, <2>2, <3>1 DEF StartChecked, At, At1, Others, Moves, Spares, Local, Busy, DInv, Control, LocksHeld
  <2>5. Local(a)'
    BY <1>1, <1>4, <2>2 DEF StartChecked, At, At1, Local
  <2>6. GoneOrGoing'
    BY <1>1, <1>4, <2>2 DEF StartChecked, At, At1, Others, DInv, Device, GoneOrGoing, Local
  <2>7. OnlineOrGoing'
    BY <1>1, <1>4, <2>2 DEF StartChecked, At, At1, Others, DInv, Device, OnlineOrGoing, Local, Stops, Restarts
  <2>8. QED
    BY <2>1, <2>3, <2>4, <2>5, <2>6, <2>7 DEF Keeps, Device
<1>5. QED
  BY <1>2, <1>3, <1>4 DEF StartChecked

LEMMA StopCheckedKeeps ==
    ASSUME DInv, NEW a \in Actors, StopChecked(a)
    PROVE  Keeps(a)
<1>1. Local(a) /\ work[a] \in Works
  BY DEF DInv, TypeOK, Works
<1>2. CASE End(a) /\ UNCHANGED <<task, using, running>>
  BY <1>2, GivesUp DEF StopChecked, At, Busy
<1>3. CASE work[a].saw = "online" /\ CallStop(a, "lifecycle")
  <2>1. LoopKnown' /\ WatchKnows' /\ RunningType' /\ task' = 0 /\ using' = 0
    BY <1>3, PopKeeps DEF StopChecked, CallStop
  <2>2. At1(a, "stop", "lifecycle", work[a].saw, work[a].drv) /\ UNCHANGED <<lock, big>>
    BY <1>3, GotoGives DEF StopChecked, CallStop, Pcs, At
  <2>3. TypeOK'
    BY <2>1, <2>2, ShapeOK DEF StopChecked, DInv, TypeOK, At1
  <2>4. Moves(a) /\ Spares(a)
    BY <1>1, <2>1, <2>2 DEF StopChecked, At, At1, Others, Moves, Spares, Local, Busy, DInv, Control, LocksHeld
  <2>5. Local(a)'
    BY <1>1, <1>3, <2>1, <2>2 DEF StopChecked, At, At1, Local
  <2>6. GoneOrGoing'
    BY <1>1, <1>3, <2>1, <2>2 DEF StopChecked, At, At1, Others, DInv, Device, GoneOrGoing, Local
  <2>7. OnlineOrGoing'
    BY <1>1, <1>3, <2>1, <2>2 DEF StopChecked, At, At1, Others, DInv, Device, OnlineOrGoing, Local, Stops, Restarts
  <2>8. QED
    BY <2>1, <2>3, <2>4, <2>5, <2>6, <2>7 DEF Keeps, Device
<1>4. QED
  BY <1>2, <1>3 DEF StopChecked

LEMMA StatusKeeps ==
    ASSUME DInv, NEW a \in Actors, Status(a)
    PROVE  Keeps(a)
<1>1. Local(a) /\ work[a] \in Works
  BY DEF DInv, TypeOK, Works
<1>2. CASE work[a].op = "create"
  <2>1. task = 0 /\ work[a].drv = driver /\ driver \in Drivers /\ row = "offline" /\ row' # "absent"
    BY <1>1, <1>2 DEF Status, Local, DInv, TypeOK, Outcome
  <2>2. /\ LoopKnown' /\ WatchKnows' /\ RunningType' /\ task' \in Loops \cup {0} /\ using' \in Drivers \cup {0}
        /\ Started(a)
    BY <1>2, <2>1, CallStartGives DEF Status
  <2>3. TypeOK'
    BY <1>2, <2>1, <2>2, ShapeOK DEF Status, DInv, TypeOK, At1, Started, End, Outcome
  <2>4. Moves(a) /\ Spares(a)
    BY <1>1, <1>2, <2>1, <2>2 DEF Status, At1, Others, Moves, Spares, Local, Busy, Started, End
  <2>5. Local(a)'
    BY <1>2, <2>2 DEF At1, Local, Started
  <2>6. GoneOrGoing'
    BY <2>1 DEF GoneOrGoing
  <2>7. OnlineOrGoing'
    BY <1>1, <1>2, <2>1, <2>2 DEF Status, At1, Others, OnlineOrGoing, Local, Stops, Restarts, Started, Outcome, Stopping
  <2>8. QED
    BY <2>2, <2>3, <2>4, <2>5, <2>6, <2>7 DEF Keeps, Device
<1>3. CASE work[a].op # "create"
  <2>1. LoopKnown' /\ WatchKnows' /\ RunningType'
    BY <1>3, SameKeeps DEF Status
  <2>2. At1(a, "none", "idle", "absent", 0) /\ work'[a] = Free /\ End(a)
    BY <1>3, EndGives DEF Status
  <2>3. TypeOK'
    BY <1>3, <2>1, <2>2, ShapeOK DEF Status, DInv, TypeOK, At1, End, Outcome
  <2>4. Moves(a) /\ Spares(a)
    BY <1>1, <1>3, <2>2 DEF Status, At1, Others, Moves, Spares, Local, Busy, End, Outcome
  <2>5. Local(a)'
    BY <2>2 DEF At1, Local
  <2>6. GoneOrGoing'
    BY <1>1, <1>3, <2>2 DEF Status, At1, Others, DInv, Device, GoneOrGoing, Local, Outcome
  <2>7. OnlineOrGoing'
    BY <1>1, <1>3, <2>2 DEF Status, At1, Others, DInv, Device, OnlineOrGoing, Local, Stops, Restarts, Outcome,
       Stopping, Works, Starting
  <2>8. QED
    BY <2>1, <2>3, <2>4, <2>5, <2>6, <2>7 DEF Keeps, Device
<1>4. QED
  BY <1>2, <1>3

LEMMA ConnectKeeps ==
    ASSUME DInv, NEW a \in Actors, Connect(a)
    PROVE  Keeps(a)
<1>1. Local(a) /\ work[a] \in Works /\ NewDriver \in Drivers /\ NewDriver # 0
  BY NewDriverIsDriver DEF DInv, TypeOK, Works
<1>2. LoopKnown' /\ WatchKnows' /\ RunningType'
  BY <1>1, SameKeeps DEF Connect, At, Local
<1>3. \/ driver' = NewDriver /\ At1(a, "create", "lifecycle", work[a].saw, NewDriver)
      \/ driver' = NewDriver /\ At1(a, "create", "status", "offline", NewDriver)
      \/ driver' = driver /\ At1(a, "create", "rollback", work[a].saw, work[a].drv)
  <2>1. CASE Goto(a, "rollback") /\ UNCHANGED driver
    BY <2>1, GotoGives DEF Connect, At, Pcs
  <2>2. CASE driver' = NewDriver /\ work' = [work EXCEPT ![a].pc = "lifecycle", ![a].drv = NewDriver]
    BY <1>1, <2>2, GotoWithGives DEF Connect, At, Pcs
  <2>3. CASE driver' = NewDriver
             /\ work' = [work EXCEPT ![a].pc = "status", ![a].drv = NewDriver, ![a].saw = "offline"]
    <3>1. work \in [Actors -> Works]
      BY DEF DInv, TypeOK, Works
    <3>2. QED
      BY <1>1, <2>3, <3>1 DEF Connect, At, At1, Others, Works, Pcs
  <2>4. QED
    BY <2>1, <2>2, <2>3 DEF Connect
<1>4. TypeOK'
  BY <1>1, <1>2, <1>3, ShapeOK DEF Connect, DInv, TypeOK, At1
<1>5. Moves(a) /\ Spares(a)
  BY <1>1, <1>3 DEF Connect, At, At1, Others, Moves, Spares, Local, Busy, DInv, Control, LocksHeld
<1>6. Local(a)'
  BY <1>1, <1>3 DEF Connect, At, At1, Local
<1>7. GoneOrGoing'
  BY <1>1 DEF Connect, At, GoneOrGoing, Local
<1>8. OnlineOrGoing'
  BY <1>1 DEF Connect, At, OnlineOrGoing, Local
<1>9. QED
  BY <1>2, <1>4, <1>5, <1>6, <1>7, <1>8 DEF Keeps, Device

LEMMA StepKeeps ==
    ASSUME DInv, NEW a \in Actors, Step(a)
    PROVE  DInv'
<1>1. Keeps(a)
  BY StartCheckedKeeps, RecreateFailsKeeps, RecreatedKeeps, OldTaskEndedKeeps, StopCheckedKeeps, LifecycleKeeps,
     LifecycleFailsKeeps, StatusKeeps, PushStartKeeps, PushStopKeeps, UpdateRowKeeps, UpdateIntervalKeeps,
     RestartIntervalKeeps, UpdateConfigKeeps, RestartConfigKeeps, LoadKeeps, ConnectKeeps, RollbackFailsKeeps,
     RollbackKeeps, UndoKeeps, CleanupKeeps, ForgetKeeps, ForgetLockKeeps
  DEF Step
<1>2. Control'
  BY <1>1, ControlKept DEF Keeps
<1>3. \A b \in Actors : Local(b)'
  BY <1>1, OthersKept DEF Keeps
<1>4. QED
  BY <1>1, <1>2, <1>3 DEF Keeps, DInv

-----------------------------------------------------------------------------
(* The operations begin.                                                   *)
LEMMA OthersAs ==
    ASSUME DInv, NEW a \in Actors, Others(a), UNCHANGED <<row, life, driver, task, failed>>
    PROVE  \A b \in Actors \ {a} : Local(b)'
BY DEF DInv, Others, Local

LEMMA BeginKeeps ==
    ASSUME DInv, Overlaps \subseteq SafePairs, NEW a \in Actors,
           NEW op \in {"start", "stop", "push_start", "push_stop", "interval", "reload"},
           BeginLocked(a, op) \/ (BeginUnlocked(a, op) /\ op \notin {"start", "stop"})
    PROVE  DInv'
<1>1. work \in [Actors -> Works] /\ work[a] = Free /\ work[a].op = "none"
  BY DEF DInv, TypeOK, Works, BeginLocked, BeginUnlocked, Free
<1>2. work' = [work EXCEPT ![a] = [op |-> op, pc |-> "checked", saw |-> row, drv |-> 0]]
  BY DEF BeginLocked, BeginUnlocked, Enter
<1>3. At1(a, op, "checked", row, 0)
  BY <1>1, <1>2 DEF At1, Others, Works, Pcs, Starting, Stopping, DInv, TypeOK
<1>4. /\ UNCHANGED <<row, life, driver, task, using, running, big, watch, failed>>
      /\ \A b \in Actors : Busy(b) => {op, work[b].op} \in SafePairs
      /\ IF op \in {"start", "stop"} THEN lock = None /\ lock' = a ELSE lock' = lock
  BY DEF BeginLocked, BeginUnlocked, MayBegin, TakeLock, Busy
<1>5. LoopKnown' /\ WatchKnows' /\ RunningType'
  BY <1>4, SameKeeps
<1>6. TypeOK'
  BY <1>3, <1>4, <1>5, ShapeOK DEF DInv, TypeOK, At1
<1>7. OnlySafePairs'
  <2>1. \A b \in Actors \ {a} : Busy(b) => {op, work[b].op} \in SafePairs /\ {work[b].op, op} \in SafePairs
    <3>1. \A b \in Actors : {op, work[b].op} = {work[b].op, op}
      OBVIOUS
    <3>2. QED
      BY <1>4, <3>1
  <2>2. QED
    BY <1>3, <2>1 DEF At1, Others, OnlySafePairs, Busy, DInv, Control
<1>8. LocksHeld'
  BY <1>3, <1>4, Names DEF At1, Others, LocksHeld, DInv, Control
<1>9. OneDelete' /\ OneReload'
  BY <1>3 DEF At1, Others, OneDelete, OneReload, Reloading, DInv, Control
<1>10. OthersWait'
  BY <1>3, <1>4 DEF At1, Others, OthersWait, DInv, Control, Busy, Local
<1>11. \A b \in Actors : Local(b)'
  <2>1. Local(a)'
    BY <1>3, <1>4 DEF At1, Local
  <2>2. QED
    BY <2>1, <1>3, <1>4, OthersAs DEF At1
<1>12. GoneOrGoing' /\ OnlineOrGoing'
  BY <1>1, <1>3, <1>4 DEF At1, Others, DInv, Device, GoneOrGoing, OnlineOrGoing, Stops, Restarts, Free
<1>13. QED
  BY <1>5, <1>6, <1>7, <1>8, <1>9, <1>10, <1>11, <1>12 DEF DInv, Control, Device

LEMMA CreateKeepsAll ==
    ASSUME DInv, Overlaps \subseteq SafePairs, NEW a \in Actors, Create(a)
    PROVE  DInv'
<1>1. work \in [Actors -> Works] /\ work[a] = Free /\ work[a].op = "none"
  BY DEF DInv, TypeOK, Works, Create, Free
<1>2. At1(a, "create", "connect", "absent", 0)
  BY <1>1 DEF At1, Others, Works, Pcs, Starting, Stopping, Create, Enter
<1>3. /\ UNCHANGED <<life, driver, task, using, running, lock, watch, failed>>
      /\ row = "absent" /\ row' = "offline" /\ big = None /\ big' = a
      /\ \A b \in Actors : Busy(b) => {"create", work[b].op} \in SafePairs
  BY DEF Create, MayBegin, Busy
<1>4. \A b \in Actors : Busy(b) => work[b].op \in {"stop", "push_start", "interval", "reload"}
  BY <1>3, PairsAre, Names DEF DInv, Control, LocksHeld
<1>5. \A b \in Actors : Busy(b) => work[b].pc = "checked" /\ (work[b].op = "stop" => work[b].saw # "online")
  BY <1>3, <1>4 DEF DInv, Local
<1>6. task = 0 /\ driver = 0 /\ (failed \/ life = "absent")
  BY <1>3, <1>4 DEF DInv, Device, GoneOrGoing, Busy
<1>7. LoopKnown' /\ WatchKnows' /\ RunningType'
  BY <1>3, SameKeeps
<1>8. TypeOK'
  BY <1>2, <1>3, <1>7, ShapeOK DEF DInv, TypeOK, At1
<1>9. OnlySafePairs'
  <2>1. \A b \in Actors \ {a} :
            Busy(b) => {"create", work[b].op} \in SafePairs /\ {work[b].op, "create"} \in SafePairs
    <3>1. \A b \in Actors : {"create", work[b].op} = {work[b].op, "create"}
      OBVIOUS
    <3>2. QED
      BY <1>3, <3>1
  <2>2. QED
    BY <1>2, <2>1 DEF At1, Others, OnlySafePairs, Busy, DInv, Control
<1>10. LocksHeld' /\ OneDelete' /\ OneReload'
  <2>1. LocksHeld'
    BY <1>2, <1>3, <1>4, <1>5 DEF At1, Others, LocksHeld, DInv, Control, Busy, Local, Free
  <2>2. OneDelete' /\ OneReload'
    BY <1>2 DEF At1, Others, OneDelete, OneReload, Reloading, DInv, Control
  <2>3. QED
    BY <2>1, <2>2
<1>11. OthersWait'
  BY <1>2, <1>4, <1>5 DEF At1, Others, OthersWait, Busy
<1>12. \A b \in Actors : Local(b)'
  <2>1. Local(a)'
    BY <1>2, <1>3, <1>6 DEF At1, Local
  <2>2. ASSUME NEW b \in Actors \ {a}
        PROVE  Local(b)'
    BY <1>2, <1>3, <1>4, <1>5 DEF At1, Others, Local, Busy, DInv
  <2>3. QED
    BY <2>1, <2>2
<1>13. GoneOrGoing' /\ OnlineOrGoing'
  BY <1>3 DEF GoneOrGoing, OnlineOrGoing
<1>14. QED
  BY <1>7, <1>8, <1>9, <1>10, <1>11, <1>12, <1>13 DEF DInv, Control, Device

LEMMA DeleteKeeps ==
    ASSUME DInv, Overlaps \subseteq SafePairs, NEW a \in Actors, Delete(a)
    PROVE  DInv'
<1>1. work \in [Actors -> Works] /\ work[a] = Free /\ work[a].op = "none" /\ row \in {"online", "offline"}
  BY DEF DInv, TypeOK, Works, Delete, Free
<1>2. At1(a, "delete", "checked", row, driver)
  <2>1. [op |-> "delete", pc |-> "checked", saw |-> row, drv |-> driver] \in Works
    BY DEF Works, Pcs, Starting, Stopping, DInv, TypeOK
  <2>2. QED
    BY <1>1, <2>1 DEF At1, Others, Delete
<1>3. /\ UNCHANGED <<life, driver, task, using, running, lock, big, watch, failed>>
      /\ row # "absent" /\ row' = "absent"
      /\ \A b \in Actors : Busy(b) => {"delete", work[b].op} \in SafePairs
  BY DEF Delete, MayBegin, Busy
<1>4. \A b \in Actors : ~Busy(b)
  BY <1>3, PairsAre DEF DInv, Local
<1>5. LoopKnown' /\ WatchKnows' /\ RunningType'
  BY <1>3, SameKeeps
<1>6. TypeOK'
  BY <1>2, <1>3, <1>5, ShapeOK DEF DInv, TypeOK, At1
<1>7. \A b \in Actors \ {a} : work'[b] = Free
  BY <1>2, <1>4 DEF At1, Others, Busy, DInv, Local
<1>8. Control'
  BY <1>2, <1>7 DEF At1, Control, OnlySafePairs, LocksHeld, OneDelete, OneReload, Reloading, OthersWait, Busy, Free
<1>9. \A b \in Actors : Local(b)'
  BY <1>2, <1>3, <1>7 DEF At1, Local, Free
<1>10. GoneOrGoing' /\ OnlineOrGoing'
  BY <1>2, <1>3 DEF At1, GoneOrGoing, OnlineOrGoing
<1>11. QED
  BY <1>5, <1>6, <1>8, <1>9, <1>10 DEF DInv, Device

-----------------------------------------------------------------------------
(* The watchdog leaves the operations alone.                               *)
LEMMA WatchdogKeeps ==
    ASSUME DInv, WatchSeesStale \/ WatchCancels \/ WatchRestarts
    PROVE  DInv'
<1>1. UNCHANGED <<row, life, driver, lock, big, work, failed>>
  BY DEF WatchSeesStale, WatchCancels, WatchRestarts
<1>2. /\ LoopKnown' /\ WatchKnows' /\ RunningType' /\ (task' = 0 <=> task = 0)
      /\ task' \in Loops \cup {0} /\ using' \in Drivers \cup {0}
      /\ watch' \in Watches
  <2>1. CASE WatchSeesStale
    BY <2>1 DEF WatchSeesStale, DInv, Device, LoopKnown, WatchKnows, TypeOK, Watches, RunningType
  <2>2. CASE WatchCancels
    <3>1. ASSUME watch.snap = task
          PROVE  DOMAIN running' = {}
      <4>1. DOMAIN running \ {watch.snap} = {}
        BY <3>1 DEF DInv, Device, LoopKnown
      <4>2. QED
        BY <2>2, <4>1 DEF WatchCancels
    <3>2. ASSUME watch.snap # task
          PROVE  running' = running
      <4>1. DOMAIN running \ {watch.snap} = DOMAIN running
        BY <3>2 DEF DInv, Device, LoopKnown
      <4>2. PICK S \in SUBSET Loops : running \in [S -> Drivers]
        BY DEF DInv, TypeOK
      <4>3. running = [k \in DOMAIN running |-> running[k]]
        BY <4>2
      <4>4. QED
        BY <2>2, <4>1, <4>3 DEF WatchCancels
    <3>3. DOMAIN running' = {} \/ running' = running
      BY <3>1, <3>2
    <3>4. QED
      BY <2>2, <3>3 DEF WatchCancels, DInv, Device, LoopKnown, WatchKnows, TypeOK, Watches, RunningType
  <2>3. CASE WatchRestarts /\ task = watch.snap
    <3>1. DOMAIN running = {} /\ watch.drv \in Drivers /\ driver' = watch.drv /\ CreateTask(watch.drv) /\ task # 0
          /\ watch' = Quiet
      BY <2>3 DEF WatchRestarts, DInv, Device, LoopKnown, WatchKnows, TypeOK
    <3>2. QED
      BY <3>1, CreateKeeps DEF Quiet, Watches
  <2>4. CASE WatchRestarts /\ task # watch.snap
    BY <2>4 DEF WatchRestarts, DInv, Device, LoopKnown, WatchKnows, TypeOK, Watches, RunningType, Quiet
  <2>5. QED
    BY <2>1, <2>2, <2>3, <2>4
<1>3. TypeOK'
  BY <1>1, <1>2 DEF DInv, TypeOK, RunningType, Watches
<1>4. Control'
  BY <1>1 DEF DInv, Control, OnlySafePairs, LocksHeld, OneDelete, OneReload, Reloading, OthersWait, Busy
<1>5. \A b \in Actors : Local(b)'
  <2>1. SUFFICES ASSUME NEW b \in Actors PROVE Local(b)'
    OBVIOUS
  <2>2. Local(b)
    BY DEF DInv
  <2>3. QED
    BY <1>1, <1>2, <2>2 DEF Local
<1>6. GoneOrGoing' /\ OnlineOrGoing'
  BY <1>1, <1>2 DEF DInv, Device, GoneOrGoing, OnlineOrGoing, Stops, Restarts
<1>7. QED
  BY <1>2, <1>3, <1>4, <1>5, <1>6 DEF DInv, Device

LEMMA InitGood == ASSUME Init PROVE DInv
<1>1. \A a \in Actors : work[a] = Free /\ Free \in Works
  BY DEF Init, Free, Works, Pcs
<1>2. Quiet \in Watches
  BY DEF Quiet, Watches
<1>3. row = "online" => driver \in Drivers /\ task \in Loops
  <2>1. PICK d \in Drivers : TRUE
    <3>1. 0 \in MaybeDriver /\ [a \in Actors |-> 0] \in [Actors -> MaybeDriver]
      BY DEF MaybeDriver
    <3>2. QED
      BY <3>1, FreshAssumption
  <2>2. PICK l \in Loops : TRUE
    <3>1. 0 \in Loops \cup {0}
      OBVIOUS
    <3>2. QED
      BY <3>1, FreshAssumption
  <2>3. QED
    BY <2>1, <2>2 DEF Init
<1>4. /\ row = "absent" => running = [k \in {} |-> 0]
      /\ row = "online" => running = [k \in {task} |-> driver]
  BY DEF Init
<1>5. RunningType
  BY <1>3, <1>4 DEF RunningType, Init
<1>6. LoopKnown
  BY <1>3, <1>4, Names DEF Init, LoopKnown
<1>7. TypeOK
  BY <1>1, <1>2, <1>3, <1>5 DEF Init, TypeOK, RunningType, Works, Watches
<1>8. WatchKnows
  BY DEF Init, WatchKnows, Quiet
<1>9. Control /\ \A a \in Actors : Local(a)
  BY <1>1 DEF Control, OnlySafePairs, LocksHeld, OneDelete, OneReload, Reloading, OthersWait, Busy, Local, Free
<1>10. GoneOrGoing /\ OnlineOrGoing
  BY <1>3, Names DEF Init, GoneOrGoing, OnlineOrGoing
<1>11. QED
  BY <1>6, <1>7, <1>8, <1>9, <1>10 DEF DInv, Device

-----------------------------------------------------------------------------
(* DInv is inductive, as long as the pairs that run at once are safe.      *)
LEMMA NextKeeps ==
    ASSUME DInv, Overlaps \subseteq SafePairs, [Next]_vars
    PROVE  DInv'
<1>1. CASE Next
  <2>1. ASSUME NEW a \in Actors, Begin(a)
        PROVE  DInv'
    BY <2>1, BeginKeeps, CreateKeepsAll, DeleteKeeps DEF Begin, BeginUnlocked
  <2>2. ASSUME NEW a \in Actors, Step(a)
        PROVE  DInv'
    BY <2>2, StepKeeps
  <2>3. CASE WatchSeesStale \/ Watchdog
    BY <2>3, WatchdogKeeps DEF Watchdog
  <2>4. QED
    BY <1>1, <2>1, <2>2, <2>3 DEF Next
<1>2. CASE UNCHANGED vars
  <2>1. UNCHANGED <<row, life, driver, task, using, running, lock, big, work, watch, failed>>
    BY <1>2 DEF vars
  <2>2. TypeOK' /\ Control'
    BY <2>1 DEF DInv, TypeOK, Control, OnlySafePairs, LocksHeld, OneDelete, OneReload, Reloading, OthersWait, Busy
  <2>3. \A a \in Actors : Local(a)'
    BY <2>1 DEF DInv, Local
  <2>4. Device'
    BY <2>1 DEF DInv, Device, LoopKnown, WatchKnows, GoneOrGoing, OnlineOrGoing, Stops, Restarts
  <2>5. QED
    BY <2>2, <2>3, <2>4 DEF DInv
<1>3. QED
  BY <1>1, <1>2

LEMMA DInvHolds ==
    ASSUME Overlaps \subseteq SafePairs
    PROVE  Spec => []DInv
<1>1. Init => DInv
  BY InitGood
<1>2. DInv /\ [Next]_vars => DInv'
  BY NextKeeps
<1>3. QED
  BY <1>1, <1>2, PTL DEF Spec

-----------------------------------------------------------------------------
(* The theorems.                                                           *)

(* Every variable keeps its type: a lock is with one operation or nobody,  *)
(* and the helpers of the scheduler always find a new task number.         *)
THEOREM TypeOKHolds ==
    ASSUME Overlaps \subseteq SafePairs
    PROVE  Spec => []TypeOK
<1>1. DInv => TypeOK
  BY DEF DInv
<1>2. QED
  BY <1>1, DInvHolds, PTL

(* start_collect, update_device, the dispatcher and the watchdog never     *)
(* leave a collection running that _tasks does not know.                   *)
THEOREM NoZombieHolds ==
    ASSUME Overlaps \subseteq SafePairs
    PROVE  Spec => []NoZombie
<1>1. DInv => NoZombie
  BY DEF DInv, Device, LoopKnown, NoZombie
<1>2. QED
  BY <1>1, DInvHolds, PTL

LEMMA QuietIs ==
    ASSUME Quiescent
    PROVE  watch.pc = "idle" /\ \A a \in Actors : work[a].op = "none" /\ work[a].pc = "idle"
BY DEF Quiescent, Quiet, Free

(* When every operation is over, a device whose row says online has its    *)
(* collection, with the driver of the service, and is online for the       *)
(* lifecycle manager, unless a step failed.                                *)
THEOREM OnlineIsCollectedHolds ==
    ASSUME Overlaps \subseteq SafePairs
    PROVE  Spec => []OnlineIsCollected
<1>1. DInv => OnlineIsCollected
  BY QuietIs DEF OnlineIsCollected, DInv, Device, LoopKnown, OnlineOrGoing, Stops, Restarts
<1>2. QED
  BY <1>1, DInvHolds, PTL

(* No collection reads from a driver instance that was replaced.           *)
THEOREM NoStaleDriverHolds ==
    ASSUME Overlaps \subseteq SafePairs
    PROVE  Spec => []NoStaleDriver
<1>1. DInv => NoStaleDriver
  BY DEF DInv, Device, LoopKnown, NoStaleDriver
<1>2. QED
  BY <1>1, DInvHolds, PTL

(* What is left of a deleted device, or of one that could not be created:  *)
(* no collection and no driver, and no status unless a step failed.        *)
THEOREM DeletedIsGoneHolds ==
    ASSUME Overlaps \subseteq SafePairs
    PROVE  Spec => []DeletedIsGone
<1>1. DInv => DeletedIsGone
  <2>1. SUFFICES ASSUME DInv, Quiescent, row = "absent"
                 PROVE  DOMAIN running = {} /\ driver = 0 /\ (life = "absent" \/ failed)
    BY DEF DeletedIsGone
  <2>2. task = 0 /\ driver = 0 /\ (life = "absent" \/ failed)
    BY <2>1, QuietIs DEF DInv, Device, GoneOrGoing
  <2>3. QED
    BY <2>1, <2>2 DEF DInv, Device, LoopKnown
<1>2. QED
  BY <1>1, DInvHolds, PTL
-----------------------------------------------------------------------------
(* What the two locks give.  From here on nothing is assumed of Overlaps   *)
(* but where a hypothesis says so.                                         *)

\* Inside `async with self._lock` over a wait.
InService(a) == work[a].op = "create" \/ work[a].pc = "recreate"

\* Inside `async with` the device's lock in _collect_locks.
OnDevice(a) == work[a].op \in {"start", "stop"}

Records ==
    work = [a \in Actors |-> [op |-> work[a].op, pc |-> work[a].pc,
                              saw |-> work[a].saw, drv |-> work[a].drv]]

ServiceLocked == Records /\ \A a \in Actors : InService(a) => big = a

\* The actor a is at pc of op, the others are where they were.
Goes(a, op, pc) == Records' /\ Others(a) /\ work'[a].op = op /\ work'[a].pc = pc

LEMMA RecordGoes ==
    ASSUME Records, NEW a \in Actors, NEW op, NEW pc, NEW saw, NEW d,
           work' = [work EXCEPT ![a] = [op |-> op, pc |-> pc, saw |-> saw, drv |-> d]]
    PROVE  Goes(a, op, pc)
BY DEF Goes, Others, Records

LEMMA FreeGoes ==
    ASSUME Records, NEW a \in Actors, work' = [work EXCEPT ![a] = Free]
    PROVE  Goes(a, "none", "idle")
BY RecordGoes DEF Free

LEMMA GotoGoes ==
    ASSUME Records, NEW a \in Actors, NEW pc, Goto(a, pc)
    PROVE  Goes(a, work[a].op, pc)
<1>1. [work[a] EXCEPT !.pc = pc] = [op |-> work[a].op, pc |-> pc, saw |-> work[a].saw, drv |-> work[a].drv]
  BY DEF Records
<1>2. QED
  BY <1>1, RecordGoes DEF Goto

LEMMA GotoWithGoes ==
    ASSUME Records, NEW a \in Actors, NEW pc, NEW d, work' = [work EXCEPT ![a].pc = pc, ![a].drv = d]
    PROVE  Goes(a, work[a].op, pc)
<1> DEFINE there == [work[a] EXCEPT !.pc = pc]
<1>1. /\ DOMAIN work = Actors /\ work = [b \in Actors |-> work[b]]
      /\ work[a] = [op |-> work[a].op, pc |-> work[a].pc, saw |-> work[a].saw, drv |-> work[a].drv]
  BY DEF Records
<1>2. there = [op |-> work[a].op, pc |-> pc, saw |-> work[a].saw, drv |-> work[a].drv]
  BY <1>1
<1>3. work' = [work EXCEPT ![a] = [there EXCEPT !.drv = d]]
  BY <1>1
<1> HIDE DEF there
<1>4. [there EXCEPT !.drv = d] = [op |-> work[a].op, pc |-> pc, saw |-> work[a].saw, drv |-> d]
  BY <1>2
<1>5. work' = [work EXCEPT ![a] = [op |-> work[a].op, pc |-> pc, saw |-> work[a].saw, drv |-> d]]
  BY <1>3, <1>4
<1>6. QED
  BY <1>5, RecordGoes

LEMMA GotoOfflineGoes ==
    ASSUME Records, NEW a \in Actors, NEW pc, NEW d, NEW saw,
           work' = [work EXCEPT ![a].pc = pc, ![a].drv = d, ![a].saw = saw]
    PROVE  Goes(a, work[a].op, pc)
<1> DEFINE there == [[work[a] EXCEPT !.pc = pc] EXCEPT !.drv = d]
<1>1. /\ DOMAIN work = Actors /\ work = [b \in Actors |-> work[b]]
      /\ work[a] = [op |-> work[a].op, pc |-> work[a].pc, saw |-> work[a].saw, drv |-> work[a].drv]
  BY DEF Records
<1>2. there = [op |-> work[a].op, pc |-> pc, saw |-> work[a].saw, drv |-> d]
  <2> DEFINE here == [work[a] EXCEPT !.pc = pc]
  <2>1. here = [op |-> work[a].op, pc |-> pc, saw |-> work[a].saw, drv |-> work[a].drv]
    BY <1>1
  <2> HIDE DEF here
  <2>2. [here EXCEPT !.drv = d] = [op |-> work[a].op, pc |-> pc, saw |-> work[a].saw, drv |-> d]
    BY <2>1
  <2>3. QED
    BY <2>2 DEF here
<1>3. work' = [work EXCEPT ![a] = [there EXCEPT !.saw = saw]]
  BY <1>1
<1> HIDE DEF there
<1>4. [there EXCEPT !.saw = saw] = [op |-> work[a].op, pc |-> pc, saw |-> saw, drv |-> d]
  BY <1>2
<1>5. work' = [work EXCEPT ![a] = [op |-> work[a].op, pc |-> pc, saw |-> saw, drv |-> d]]
  BY <1>3, <1>4
<1>6. QED
  BY <1>5, RecordGoes

\* One step of an operation, as the locks see it.
Handles(a) ==
    \/ Goes(a, "none", "idle") /\ lock' = (IF lock = a THEN None ELSE lock) /\ big' = (IF big = a THEN None ELSE big)
    \/ \E pc \in Pcs \ {"recreate"} : Goes(a, work[a].op, pc) /\ UNCHANGED <<lock, big>>
    \/ Goes(a, work[a].op, "recreate") /\ big = None /\ big' = a /\ UNCHANGED lock
    \/ \E pc \in Pcs \ {"recreate"} :
         At(a, {"start"}, "recreate") /\ Goes(a, work[a].op, pc) /\ big' = None /\ UNCHANGED lock
    \/ work[a].op = "delete" /\ Goes(a, "none", "idle") /\ lock' = None /\ UNCHANGED big

LEMMA EndHandles ==
    ASSUME Records, NEW a \in Actors, End(a)
    PROVE  Handles(a)
BY FreeGoes DEF End, Handles

LEMMA GotoHandles ==
    ASSUME Records, NEW a \in Actors, NEW pc \in Pcs \ {"recreate"}, Goto(a, pc), UNCHANGED <<lock, big>>
    PROVE  Handles(a)
BY GotoGoes DEF Handles

LEMMA CallStartHandles ==
    ASSUME Records, NEW a \in Actors, NEW d, CallStart(a, d)
    PROVE  Handles(a)
<1>1. CASE AfterStart(a)
  BY <1>1, EndHandles, GotoHandles DEF AfterStart, Pcs
<1>2. CASE work' = [work EXCEPT ![a].pc = "waiting", ![a].drv = d] /\ UNCHANGED <<lock, big>>
  BY <1>2, GotoWithGoes DEF Handles, Pcs
<1>3. QED
  BY <1>1, <1>2 DEF CallStart

LEMMA StepHandles ==
    ASSUME Records, NEW a \in Actors, Step(a)
    PROVE  Handles(a)
<1>1. CASE StartChecked(a)
  BY <1>1, EndHandles, GotoGoes, CallStartHandles DEF StartChecked, Handles
<1>2. CASE Recreated(a)
  <2>1. CASE Goto(a, "lifecycle")
    BY <1>2, <2>1, GotoGoes DEF Recreated, Handles, Pcs
  <2>2. CASE work' = [work EXCEPT ![a].pc = "waiting", ![a].drv = NewDriver]
    BY <1>2, <2>2, GotoWithGoes DEF Recreated, Handles, Pcs
  <2>3. QED
    BY <1>2, <2>1, <2>2 DEF Recreated
<1>3. CASE OldTaskEnded(a)
  BY <1>3, EndHandles, GotoHandles DEF OldTaskEnded, AfterStart, Pcs
<1>4. CASE Connect(a)
  <2>1. CASE Goto(a, "rollback")
    BY <1>4, <2>1, GotoHandles DEF Connect, Pcs
  <2>2. CASE work' = [work EXCEPT ![a].pc = "lifecycle", ![a].drv = NewDriver]
    BY <1>4, <2>2, GotoWithGoes DEF Connect, Handles, Pcs
  <2>3. CASE work' = [work EXCEPT ![a].pc = "status", ![a].drv = NewDriver, ![a].saw = "offline"]
    BY <1>4, <2>3, GotoOfflineGoes DEF Connect, Handles, Pcs
  <2>4. QED
    BY <1>4, <2>1, <2>2, <2>3 DEF Connect
<1>5. CASE UpdateConfig(a)
  BY <1>5, GotoWithGoes DEF UpdateConfig, Handles, Pcs
<1>6. CASE ForgetLock(a)
  BY <1>6, FreeGoes DEF ForgetLock, At, Handles
<1>7. CASE StopChecked(a) \/ PushStop(a) \/ UpdateInterval(a) \/ Rollback(a) \/ Cleanup(a)
  BY <1>7, EndHandles, GotoHandles DEF StopChecked, PushStop, UpdateInterval, Rollback, Cleanup, CallStop, Pcs
<1>8. CASE Status(a) \/ PushStart(a) \/ RestartInterval(a) \/ Load(a)
  BY <1>8, EndHandles, CallStartHandles DEF Status, PushStart, RestartInterval, Load
<1>9. CASE RecreateFails(a) \/ UpdateRow(a) \/ RollbackFails(a) \/ Undo(a)
  BY <1>9, EndHandles DEF RecreateFails, UpdateRow, RollbackFails, Undo
<1>10. CASE Lifecycle(a) \/ Forget(a)
  BY <1>10, GotoHandles DEF Lifecycle, Forget, Pcs
<1>11. CASE LifecycleFails(a) \/ RestartConfig(a)
  BY <1>11, EndHandles, GotoHandles DEF LifecycleFails, RestartConfig, Pcs
<1>12. QED
  BY <1>1, <1>2, <1>3, <1>4, <1>5, <1>6, <1>7, <1>8, <1>9, <1>10, <1>11 DEF Step

LEMMA ServiceLockedHolds == Spec => []ServiceLocked
<1>1. Init => ServiceLocked
  BY DEF Init, ServiceLocked, Records, InService, Free
<1>2. ServiceLocked /\ [Next]_vars => ServiceLocked'
  <2>1. SUFFICES ASSUME ServiceLocked, [Next]_vars PROVE ServiceLocked'
    OBVIOUS
  <2>2. ASSUME NEW a \in Actors, Step(a) PROVE ServiceLocked'
    <3>1. Handles(a)
      BY <2>1, <2>2, StepHandles DEF ServiceLocked
    <3>2. QED
      BY <2>1, <3>1, NumbersAssumption DEF ServiceLocked, Handles, Goes, Others, InService, At
  <2>3. ASSUME NEW a \in Actors, Begin(a) PROVE ServiceLocked'
    <3>1. CASE \E op \in Operations \ {"create"} : Goes(a, op, "checked") /\ UNCHANGED big
      BY <2>1, <3>1 DEF ServiceLocked, Goes, Others, InService
    <3>2. CASE Goes(a, "create", "connect") /\ big = None /\ big' = a
      BY <2>1, <3>2, NumbersAssumption DEF ServiceLocked, Goes, Others, InService
    <3>3. QED
      BY <2>1, <2>3, <3>1, <3>2, RecordGoes DEF ServiceLocked, Begin, BeginLocked, BeginUnlocked, Create, Delete, Enter, Operations
  <2>4. CASE UNCHANGED <<work, big>>
    BY <2>1, <2>4 DEF ServiceLocked, Records, InService
  <2>5. QED
    BY <2>1, <2>2, <2>3, <2>4 DEF Next, Watchdog, WatchSeesStale, WatchCancels, WatchRestarts, vars
<1>3. QED
  BY <1>1, <1>2, PTL DEF Spec

(* create_device and the recreation of a driver in start_collect exclude   *)
(* each other, and themselves.                                             *)
OneInService == \A a, b \in Actors : InService(a) /\ InService(b) => a = b

(* `async with self._lock` does what it is there for, whatever pairs of    *)
(* operations overlap: one at a time makes a driver for the device.        *)
THEOREM OneInServiceHolds == Spec => []OneInService
<1>1. ServiceLocked => OneInService
  BY DEF ServiceLocked, OneInService
<1>2. QED
  BY <1>1, ServiceLockedHolds, PTL

(* The device's lock needs a hypothesis: the end of delete_device drops    *)
(* the lock from _collect_locks, whoever holds it or waits for it, and the *)
(* next start makes another.                                               *)
DeletesAlone == \A p \in Overlaps : "delete" \in p => p \cap {"start", "stop"} = {}

DeviceLocked ==
    /\ Records
    /\ \A a \in Actors : OnDevice(a) => lock = a
    /\ \A a, b \in Actors : ~ (OnDevice(a) /\ work[b].op = "delete")

LEMMA DeviceLockedHolds ==
    ASSUME DeletesAlone
    PROVE  Spec => []DeviceLocked
<1>1. Init => DeviceLocked
  BY DEF Init, DeviceLocked, Records, OnDevice, Free
<1>2. DeviceLocked /\ [Next]_vars => DeviceLocked'
  <2>1. SUFFICES ASSUME DeviceLocked, [Next]_vars PROVE DeviceLocked'
    OBVIOUS
  <2>2. ASSUME NEW a \in Actors, Step(a) PROVE DeviceLocked'
    <3>1. Handles(a)
      BY <2>1, <2>2, StepHandles DEF DeviceLocked
    <3>2. QED
      BY <2>1, <3>1, NumbersAssumption DEF DeviceLocked, Handles, Goes, Others, OnDevice, At
  <2>3. ASSUME NEW a \in Actors, Begin(a) PROVE DeviceLocked'
    <3>1. CASE \E op \in {"start", "stop"} : Goes(a, op, "checked") /\ MayBegin(op) /\ lock = None /\ lock' = a
      <4>1. PICK op \in {"start", "stop"} : Goes(a, op, "checked") /\ MayBegin(op) /\ lock = None /\ lock' = a
        BY <3>1
      <4>2. ASSUME NEW b \in Actors PROVE work[b].op # "delete"
        BY <4>1, <4>2 DEF MayBegin, DeletesAlone, OnDevice
      <4>3. QED
        BY <2>1, <4>1, <4>2, NumbersAssumption DEF DeviceLocked, Goes, Others, OnDevice
    <3>2. CASE \E op \in Operations \ {"start", "stop"}, pc \in Pcs :
                 Goes(a, op, pc) /\ MayBegin(op) /\ UNCHANGED lock
      <4>1. PICK op \in Operations \ {"start", "stop"}, pc \in Pcs :
                Goes(a, op, pc) /\ MayBegin(op) /\ UNCHANGED lock
        BY <3>2
      <4>2. ASSUME NEW b \in Actors, OnDevice(b) PROVE op # "delete"
        BY <4>1, <4>2 DEF MayBegin, DeletesAlone, OnDevice
      <4>3. QED
        BY <2>1, <4>1, <4>2 DEF DeviceLocked, Goes, Others, OnDevice
    <3>3. QED
      BY <2>1, <2>3, <3>1, <3>2, RecordGoes
         DEF DeviceLocked, Begin, BeginLocked, BeginUnlocked, Create, Delete, TakeLock, Enter, Operations, Pcs
  <2>4. CASE UNCHANGED <<work, lock>>
    BY <2>1, <2>4 DEF DeviceLocked, Records, OnDevice
  <2>5. QED
    BY <2>1, <2>2, <2>3, <2>4 DEF Next, Watchdog, WatchSeesStale, WatchCancels, WatchRestarts, vars
<1>3. QED
  BY <1>1, <1>2, PTL DEF Spec

(* start_collect and stop_collect exclude each other, and themselves.      *)
OneOnDevice == \A a, b \in Actors : OnDevice(a) /\ OnDevice(b) => a = b

(* `async with lock` keeps the starts and stops of a device apart, as long *)
(* as no delete overlaps one, whatever else does.                          *)
THEOREM OneOnDeviceHolds ==
    ASSUME DeletesAlone
    PROVE  Spec => []OneOnDevice
<1>1. DeviceLocked => OneOnDevice
  BY DEF DeviceLocked, OneOnDevice
<1>2. QED
  BY <1>1, DeviceLockedHolds, PTL
=============================================================================
