---------------------------- MODULE OfflineCache ----------------------------
(***************************************************************************)
(* The way of a collected point into InfluxDB when InfluxDB comes and      *)
(* goes: the collection loops and the flush loop of engine/scheduler.py,   *)
(* the offline cache (storage/cache.py), which is a table and a ring       *)
(* buffer in memory (storage/ring_buffer.py), and the batch writes of      *)
(* storage/influx_storage.py.  The second copy, which a failed batch       *)
(* leaves in the local fallback storage, is left out.                      *)
(*                                                                         *)
(* Points are numbered as they are collected; values, tags and timestamps  *)
(* are left out, but for points that have no value, being read with a bad  *)
(* quality, and points whose value is NaN or infinite.                     *)
(***************************************************************************)
EXTENDS Naturals, Sequences, FiniteSets, SequencesExt, Filters

CONSTANTS
    Devices,      \* devices with a collection loop
    MaxPoints,    \* bound of the collected points
    Bad,          \* the ones without a value
    NotNumbers,   \* the ones read as NaN or Infinity
    MaxCache,     \* MAX_CACHE_SIZE: 100000
    Evicted,      \* rows that make room at once: a tenth of it
    MaxRing,      \* capacity of the ring buffer: 100000
    Batch,        \* records of one flush: 500
    MaxFails,     \* failed writes until InfluxDB counts as lost: 3
    MaxRestarts   \* bound of the restarts

ASSUME BoundsAssumption ==
    /\ {MaxPoints, MaxCache, Evicted, MaxRing, Batch, MaxFails, MaxRestarts} \subseteq Nat
    /\ 0 \notin {Evicted, MaxRing, Batch, MaxFails} /\ Evicted < MaxCache
    /\ Bad \cup NotNumbers \subseteq 1..MaxPoints /\ Bad \cap NotNumbers = {}

VARIABLES
    available, \* _available: InfluxDB takes points, as far as is known
    fails,     \* _fail_count
    written,   \* points InfluxDB has
    skipped,   \* history: points left out of a write that was reported as done
    read,      \* points collected so far
    loop,      \* the collection loops
    cached,    \* table cache_queue, by id
    count,     \* _cache_count
    ring,      \* _ring_buffer
    flush,     \* _cache_flush_loop
    restarts,
    saved,     \* history: points that had a row in the cache
    pushed,    \* history: points whose row made room for newer ones
    strayed,   \* history: points the ring may hold without the row of their id
    dropped    \* history: points a loop, the ring or a crash gave up

influx == <<available, fails, written, skipped>>
cache == <<cached, count, ring, saved, pushed>>

vars == <<influx, read, loop, cache, flush, restarts, strayed, dropped>>

Points == 1..MaxPoints

Sleeping == [pc |-> "sleep", point |-> 0, row |-> 0]
Idle(pc) == [pc |-> pc, rows |-> <<>>, points |-> <<>>]

PointsOf(records) == {records[i].point : i \in DOMAIN records}
LastId(rows) == IF rows = <<>> THEN 0 ELSE Last(rows).id
First(n, s) == SubSeq(s, 1, IF Len(s) < n THEN Len(s) ELSE n)
Less(n, k) == IF k < n THEN n - k ELSE 0

Init ==
    /\ available \in BOOLEAN
    /\ fails = 0 /\ written = {} /\ skipped = {}
    /\ read = 0 /\ loop = [d \in Devices |-> Sleeping]
    /\ cached = <<>> /\ count = 0 /\ ring = <<>> /\ flush = Idle("restore")
    /\ restarts = 0
    /\ saved = {} /\ pushed = {} /\ strayed = {} /\ dropped = {}

-----------------------------------------------------------------------------
(* write_points_batch and check_health.                                    *)

\* The storage writes no point without a value or with one that is no number.
Unfit == Bad \cup NotNumbers

(* A write that was begun, and what becomes of it: InfluxDB takes the      *)
(* points that are fit.  The others are skipped, and the write is reported *)
(* as done all the same, even if nothing was left to send ...              *)
WriteOk(ps) ==
    /\ written' = written \cup (ToSet(ps) \ Unfit)
    /\ skipped' = skipped \cup (ToSet(ps) \cap Unfit)
    /\ fails' = IF ToSet(ps) \subseteq Unfit THEN fails ELSE 0
    /\ UNCHANGED available

(* ... or it refuses them, or its answer does not come.                    *)
WriteFails(ps) ==
    /\ ToSet(ps) \ Unfit # {}
    /\ written' \in {written, written \cup (ToSet(ps) \ Unfit)}
    /\ fails' = IF fails < MaxFails THEN fails + 1 ELSE fails
    /\ available' = (available /\ fails' < MaxFails)
    /\ UNCHANGED skipped

Healthy == available' = TRUE /\ fails' = 0

Unhealthy == available' = FALSE /\ UNCHANGED fails

(* By the flush loop, the sync loop of the fallback, or the API.           *)
CheckHealth ==
    /\ Healthy \/ Unhealthy
    /\ UNCHANGED <<written, skipped, read, loop, cache, flush, restarts, strayed, dropped>>

-----------------------------------------------------------------------------
(* The collection loop of a device.                                        *)

Goto(d, pc) == loop' = [loop EXCEPT ![d].pc = pc]
Done(d) == loop' = [loop EXCEPT ![d] = Sleeping]

(* No write is begun while InfluxDB counts as lost.                        *)
Collect(d) ==
    /\ loop[d].pc = "sleep" /\ read < MaxPoints
    /\ read' = read + 1
    /\ loop' = [loop EXCEPT ![d] = [pc |-> IF available THEN "write" ELSE "cache",
                                   point |-> read + 1, row |-> 0]]
    /\ UNCHANGED <<influx, cache, flush, restarts, strayed, dropped>>

Write(d) ==
    LET p == loop[d].point
    IN  /\ loop[d].pc = "write"
        /\ (WriteOk(<<p>>) /\ Done(d)) \/ (WriteFails(<<p>>) /\ Goto(d, "cache"))
        /\ UNCHANGED <<read, cache, flush, restarts, strayed, dropped>>

\* The table counts its rows itself, and makes room by that count.
Full == count >= MaxCache

Kept == IF Full THEN SubSeq(cached, Evicted + 1, Len(cached)) ELSE cached

Outdated == PointsOf(cached) \ PointsOf(Kept)

\* Points whose loop is between the table and the ring.
Waiting == {loop[d].point : d \in {e \in Devices : loop[e].pc = "ring"}}

(* add_to_cache, under the lock of the cache: an id is one more than the   *)
(* last in the table.  A failed transaction changes nothing.               *)
AddToCache(d) ==
    /\ loop[d].pc = "cache"
    /\ \/ LET id == LastId(Kept) + 1
              p  == loop[d].point
          IN  /\ cached' = Append(Kept, [id |-> id, point |-> p])
              /\ count' = Less(count + 1, IF Full THEN Evicted ELSE 0)
              /\ saved' = saved \cup {p}
              /\ pushed' = pushed \cup Outdated
              /\ strayed' = strayed \cup (Outdated \cap Waiting)
              /\ loop' = [loop EXCEPT ![d] = [pc |-> "ring", point |-> p, row |-> id]]
       \/ Goto(d, "ring") /\ UNCHANGED <<cached, count, saved, pushed, strayed>>
    /\ UNCHANGED <<influx, read, ring, flush, restarts, dropped>>

New(row, point) == [row |-> row, point |-> point, status |-> "pending"]

\* Mutant of Put: the ring is not bounded.
PutUnbounded(record) == ring' = Append(ring, record) /\ UNCHANGED dropped

Put(record) ==
    /\ ring' = Append(IF Len(ring) = MaxRing THEN Tail(ring) ELSE ring, record)
    /\ dropped' = IF Len(ring) = MaxRing THEN dropped \cup {Head(ring).point} ELSE dropped

\* Mutant of PutRing: only what has a row in the table gets into the ring.
PutRingIfSaved(d) ==
    /\ loop[d].pc = "ring"
    /\ IF loop[d].row = 0 THEN UNCHANGED <<ring, dropped>>
       ELSE Put(New(loop[d].row, loop[d].point))
    /\ Done(d)
    /\ UNCHANGED <<influx, read, cached, count, saved, pushed, flush, restarts, strayed>>

(* ... and then the ring, where the oldest record is overwritten.          *)
PutRing(d) ==
    /\ loop[d].pc = "ring"
    /\ Put(New(loop[d].row, loop[d].point))
    /\ Done(d)
    /\ UNCHANGED <<influx, read, cached, count, saved, pushed, flush, restarts, strayed>>

(* The loop is cancelled with the device or by the watchdog, and made      *)
(* again; a write under way may still arrive.                              *)
Cancel(d) ==
    /\ loop[d].pc # "sleep"
    /\ \/ UNCHANGED written
       \/ loop[d].pc = "write" /\ written' = written \cup ({loop[d].point} \ Unfit)
    /\ dropped' = dropped \cup {loop[d].point}
    /\ Done(d)
    /\ UNCHANGED <<available, fails, skipped, read, cache, flush, restarts, strayed>>

Collection(d) == Collect(d) \/ Write(d) \/ AddToCache(d) \/ PutRing(d) \/ Cancel(d)

-----------------------------------------------------------------------------
(* The flush loop.                                                         *)

\* Records of the table that still fit into the ring.
Restorable == First(MaxRing - Len(ring), cached)

InRing == PointsOf(ring) \cup Waiting

(* restore_from_sqlite, once, beside the loops that collect.               *)
Restore ==
    /\ flush.pc = "restore"
    /\ ring' = ring \o [i \in DOMAIN Restorable |-> New(Restorable[i].id, Restorable[i].point)]
    /\ strayed' = strayed \cup (PointsOf(Restorable) \cap InRing)
    /\ count' = Len(cached)
    /\ flush' = Idle("sleep")
    /\ UNCHANGED <<influx, read, loop, cached, saved, pushed, restarts, dropped>>

Pending == {i \in DOMAIN ring : ring[i].status = "pending"}

\* The first records that are pending; the ones without a value stay so.
Chosen ==
    {i \in Pending : Cardinality({j \in Pending : j <= i}) <= Batch /\ ring[i].point \notin Bad}

Take ==
    /\ flush.pc = "sleep" /\ Chosen # {}
    /\ Healthy
    /\ LET records == Filter([i \in DOMAIN ring |-> i], Chosen)
       IN  flush' = [pc     |-> "write",
                     rows   |-> [i \in DOMAIN records |-> ring[records[i]].row],
                     points |-> [i \in DOMAIN records |-> ring[records[i]].point]]
    /\ ring' = [i \in DOMAIN ring |->
                  IF i \in Chosen THEN [ring[i] EXCEPT !.status = "syncing"] ELSE ring[i]]
    /\ UNCHANGED <<written, skipped, read, loop, cached, count, saved, pushed, restarts, strayed,
                   dropped>>

\* Mutant of FlushWrite: what write_points_batch returns is not looked at.
FlushWriteUnchecked ==
    /\ flush.pc = "write"
    /\ WriteOk(flush.points) \/ WriteFails(flush.points) \/ (~available /\ UNCHANGED influx)
    /\ flush' = [flush EXCEPT !.pc = "mark"]
    /\ UNCHANGED <<read, loop, cache, restarts, strayed, dropped>>

(* Collection loops may have found InfluxDB lost in the meantime.          *)
FlushWrite ==
    /\ flush.pc = "write"
    /\ \/ WriteOk(flush.points) /\ flush' = [flush EXCEPT !.pc = "mark"]
       \/ /\ WriteFails(flush.points) \/ (~available /\ UNCHANGED influx)
          /\ flush' = [flush EXCEPT !.pc = "fail"]
    /\ UNCHANGED <<read, loop, cache, restarts, strayed, dropped>>

(* Only this loop marks records, so the batch is what is marked now.       *)
MarkSynced ==
    /\ flush.pc = "mark"
    /\ ring' = Filter(ring, {r \in ToSet(ring) : r.status # "syncing"})
    /\ flush' = [flush EXCEPT !.pc = "delete"]
    /\ UNCHANGED <<influx, read, loop, cached, count, saved, pushed, restarts, strayed, dropped>>

\* Mutant of MarkFailed: the records stay marked.
MarkFailedNot ==
    /\ flush.pc = "fail"
    /\ flush' = Idle("sleep")
    /\ UNCHANGED <<influx, read, loop, cache, restarts, strayed, dropped>>

MarkFailed ==
    /\ flush.pc = "fail"
    /\ ring' = [i \in DOMAIN ring |-> [ring[i] EXCEPT !.status = "pending"]]
    /\ flush' = Idle("sleep")
    /\ UNCHANGED <<influx, read, loop, cached, count, saved, pushed, restarts, strayed, dropped>>

(* delete_cached: by id, and the ids are counted, whether there is a row   *)
(* or not.  It may fail, which is logged.                                  *)
DeleteCached ==
    LET ids == Filter(flush.rows, Nat \ {0})
    IN  /\ flush.pc = "delete"
        /\ \/ /\ cached' = Filter(cached, {r \in ToSet(cached) : r.id \notin ToSet(ids)})
              /\ count' = Less(count, Len(ids))
           \/ UNCHANGED <<cached, count>>
        /\ flush' = Idle("sleep")
        /\ UNCHANGED <<influx, read, loop, ring, saved, pushed, restarts, strayed, dropped>>

FlushStep == Restore \/ Take \/ FlushWrite \/ MarkSynced \/ MarkFailed \/ DeleteCached

-----------------------------------------------------------------------------
(* A crash, and the next start.                                            *)
InHand == {loop[d].point : d \in Devices} \ {0}

InMemory == InHand \cup PointsOf(ring) \cup ToSet(flush.points)

Restart ==
    /\ restarts < MaxRestarts
    /\ restarts' = restarts + 1
    /\ available' \in BOOLEAN
    /\ fails' = 0 /\ count' = 0 /\ ring' = <<>>
    /\ loop' = [d \in Devices |-> Sleeping]
    /\ flush' = Idle("restore")
    /\ dropped' = dropped \cup InMemory
    /\ UNCHANGED <<written, skipped, read, cached, saved, pushed, strayed>>

Next ==
    \/ \E d \in Devices : Collection(d)
    \/ CheckHealth \/ FlushStep
    \/ Restart

Spec == Init /\ [][Next]_vars

(* The flush loop keeps running, and InfluxDB answers and takes a batch    *)
(* every now and then.                                                     *)
FairSpec ==
    /\ Spec
    /\ WF_vars(FlushStep) /\ SF_vars(Take)
    /\ SF_vars(FlushWrite /\ flush'.pc = "mark")

-----------------------------------------------------------------------------
(* Properties.                                                             *)

Rows == [id : Nat \ {0}, point : Points]
Records == [row : Nat, point : Points, status : {"pending", "syncing"}]

\* In memory, in the table or both.
Places == InMemory \cup PointsOf(cached)

TypeOK ==
    /\ available \in BOOLEAN /\ fails \in 0..MaxFails
    /\ read \in 0..MaxPoints /\ restarts \in 0..MaxRestarts
    /\ Places \cup written \cup skipped \cup saved \cup pushed \cup strayed \cup dropped \subseteq 1..read
    /\ written \cap Unfit = {} /\ skipped \subseteq Unfit
    /\ loop \in [Devices -> {Sleeping} \cup [pc : {"write", "cache", "ring"}, point : Points, row : Nat]]
    /\ cached \in Seq(Rows) /\ count \in Nat
    /\ \A i, j \in DOMAIN cached : i < j => cached[i].id < cached[j].id
    /\ ring \in Seq(Records) /\ Len(ring) <= MaxRing
    /\ flush \in {Idle("restore"), Idle("sleep")}
                 \cup [pc : {"write", "mark", "fail", "delete"}, rows : Seq(Nat), points : Seq(Points \ Bad)]
    /\ Len(flush.rows) = Len(flush.points)

\* A point that reached the table of the cache is there until InfluxDB has
\* it, the storage skipped it as no number, or its row had to make room, across
\* restarts.  That holds until the ring may hold a point without its row: the
\* restore puts into the ring what a collection loop just put there, or a row
\* makes room before its loop reaches the ring.
CachedIsKept ==
    strayed = {} => saved \subseteq PointsOf(cached) \cup written \cup (skipped \cap NotNumbers) \cup pushed

(* The cache keeps the promise of a store-and-forward path.                *)
North == INSTANCE StoreForward WITH
    Messages  <- Points,
    held      <- Places \ written,
    delivered <- written,
    dropped   <- (dropped \cup pushed \cup skipped) \ (Places \cup written)

\* Every collected point is written, in hand or stored, or given up by one
\* of the named rules: no value, a value that is no number (the storage skips
\* both and reports them as written), a full table, a full ring, a loop that
\* is cancelled, a crash.
Promise == North!Spec

\* Records without a value stay in the ring and fill a whole batch.
Clogged == Cardinality({i \in DOMAIN ring : ring[i].point \in Bad}) >= Batch

\* A record does not stay in the ring: it is written, skipped, overwritten, or
\* the process stops, unless records without a value take up all of a batch.
RingDrains ==
    \A p \in Points \ Bad : p \in PointsOf(ring) ~> (p \notin PointsOf(ring) \/ Clogged)
=============================================================================
