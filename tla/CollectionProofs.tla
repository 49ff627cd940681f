------------------------- MODULE CollectionProofs ---------------------------
(***************************************************************************)
(* Theorems about what stands around the collection of a point: the        *)
(* offline cache, for every set of devices and all bounds, and the breaker *)
(* the collection loops call through, for every number of clients and      *)
(* every choice of the thresholds.                                         *)
(***************************************************************************)
EXTENDS OfflineCache, CircuitBreaker, FiniteSetTheorems, TLAPS

Path == INSTANCE StoreForwardProofs WITH
    Messages  <- Points,
    held      <- Places \ written,
    delivered <- written,
    dropped   <- (dropped \cup pushed \cup skipped) \ (Places \cup written)

-----------------------------------------------------------------------------
(* The inductive invariant.                                                *)

Table == ToSet(cached)

\* Rows in the order of their ids, and no point twice.
Sorted(rows) == \A i, j \in DOMAIN rows : i < j => rows[i].id < rows[j].id
Apart(records) == \A i, j \in DOMAIN records : records[i].point = records[j].point => i = j

\* The count of the rows does not exceed them, so that making room never
\* empties the table.
Counted == count <= Len(cached)

(* A point is collected by one loop and has one row, and what a loop has   *)
(* not cached yet is nowhere else.                                         *)
OneLoop ==
    /\ \A d, e \in Devices : d # e /\ loop[d] # Sleeping => loop[d].point # loop[e].point
    /\ Apart(cached)
    /\ \A d \in Devices : loop[d].pc \in {"write", "cache"} =>
         loop[d].row = 0 /\ loop[d].point \notin PointsOf(cached) \cup PointsOf(ring) \cup ToSet(flush.points)

\* What the storage has reported as written.
Settled == written \cup skipped

(* Marks, flush and table agree.                                           *)
InStep ==
    /\ flush.pc \in {"restore", "sleep", "delete"} => \A i \in DOMAIN ring : ring[i].status = "pending"
    /\ \A i \in DOMAIN ring : ring[i].status = "syncing" => ring[i].point \in ToSet(flush.points)
    /\ flush.pc \in {"mark", "delete"} => ToSet(flush.points) \subseteq Settled
    /\ ToSet(flush.points) \subseteq PointsOf(ring) \cup dropped \cup Settled
    /\ PointsOf(cached) \subseteq InMemory \cup dropped \cup Settled

(* A point is at one place between the table and the end of its flush.     *)
OnePlace ==
    /\ Apart(ring)
    /\ \A d \in Devices : loop[d].pc = "ring" => loop[d].point \notin PointsOf(ring) \cup ToSet(flush.points)
    /\ \A i \in DOMAIN ring : ring[i].status = "pending" => ring[i].point \notin ToSet(flush.points)

\* The id k is the one of p's row or of none, now and when ids go on.
Means(k, p) ==
    /\ \A r \in Table : r.id = k => r.point = p
    /\ \E r \in Table : r.id >= k

\* The row r will not go before the record at i of the ring.
Outlasts(r, i) ==
    /\ r.id > ring[i].row
    /\ ring[i].status = "pending" => r.point \notin ToSet(flush.points)
    /\ \A j \in DOMAIN ring : j < i => ring[j].point # r.point

HasRow(i) ==
    ring[i].row # 0 /\ ring[i].point \notin Bad =>
      /\ Means(ring[i].row, ring[i].point)
      /\ \E r \in Table : r.id = ring[i].row \/ Outlasts(r, i)

(* An id that a loop, the flush or a record of the ring holds is not given *)
(* to another point as long as it is held.                                 *)
SameRow ==
    /\ \A d \in Devices : loop[d].pc = "ring" /\ loop[d].row # 0 =>
         [id |-> loop[d].row, point |-> loop[d].point] \in Table
    /\ \A j \in DOMAIN flush.rows : flush.rows[j] # 0 => Means(flush.rows[j], flush.points[j])
    /\ \A i \in DOMAIN ring : HasRow(i)

IInv == TypeOK /\ Counted /\ OneLoop /\ InStep /\ (strayed = {} => OnePlace /\ SameRow) /\ CachedIsKept

-----------------------------------------------------------------------------
(* Sequences.                                                              *)

LEMMA Appended ==
    ASSUME NEW T, NEW s \in Seq(T), NEW x \in T
    PROVE  /\ Append(s, x) \in Seq(T) /\ Len(Append(s, x)) = Len(s) + 1
           /\ ToSet(Append(s, x)) = ToSet(s) \cup {x}
           /\ IsInjective(s) /\ x \notin ToSet(s) => IsInjective(Append(s, x))
BY Path!Appended DEF Path!ToSet, ToSet, Path!IsInjective, IsInjective

LEMMA Cut ==
    ASSUME NEW T, NEW s \in Seq(T), NEW a \in Nat \ {0}, NEW b \in Nat, b <= Len(s)
    PROVE  /\ SubSeq(s, a, b) \in Seq(T) /\ Len(SubSeq(s, a, b)) = IF a <= b THEN b - a + 1 ELSE 0
           /\ ToSet(SubSeq(s, a, b)) \subseteq ToSet(s)
           /\ IsInjective(s) => IsInjective(SubSeq(s, a, b))
           /\ \A i \in 1..Len(SubSeq(s, a, b)) : a - 1 + i \in 1..Len(s) /\ SubSeq(s, a, b)[i] = s[a - 1 + i]
BY Path!Cut DEF Path!ToSet, ToSet, Path!IsInjective, IsInjective

LEMMA Tailed ==
    ASSUME NEW T, NEW s \in Seq(T), s # <<>>
    PROVE  /\ Tail(s) \in Seq(T) /\ Head(s) \in T /\ Len(Tail(s)) = Len(s) - 1
           /\ ToSet(s) = {Head(s)} \cup ToSet(Tail(s))
           /\ IsInjective(s) => IsInjective(Tail(s)) /\ Head(s) \notin ToSet(Tail(s))
BY Path!Tailed DEF Path!ToSet, ToSet, Path!IsInjective, IsInjective

LEMMA Filtered ==
    ASSUME NEW T, NEW s \in Seq(T), NEW S
    PROVE  /\ Filter(s, S) \in Seq(T) /\ Len(Filter(s, S)) <= Len(s)
           /\ ToSet(Filter(s, S)) = ToSet(s) \cap S
           /\ IsInjective(s) => IsInjective(Filter(s, S))
BY Path!Filtered DEF Path!ToSet, ToSet, Path!IsInjective, IsInjective, Path!Filter, Filter

LEMMA FilterHas ==
    ASSUME NEW T, NEW s \in Seq(T), NEW S
    PROVE  /\ Filter(s, S) \in Seq(T)
           /\ Len(Filter(s, S)) <= Len(s)
           /\ \A i \in 1..Len(s) : s[i] \in S => \E k \in 1..Len(Filter(s, S)) : Filter(s, S)[k] = s[i]
           /\ \E at \in [1..Len(Filter(s, S)) -> 1..Len(s)] :
                /\ \A k \in 1..Len(Filter(s, S)) : Filter(s, S)[k] = s[at[k]] /\ s[at[k]] \in S
                /\ \A j, k \in 1..Len(Filter(s, S)) : j < k => at[j] < at[k]
<1>1. Path!Filter(s, S) = Filter(s, S)
  BY DEF Path!Filter, Filter
<1>2. QED
  BY <1>1, Path!FilterHas, SMTT(60)

LEMMA Listed ==
    ASSUME NEW T, NEW s \in Seq(T)
    PROVE  /\ DOMAIN s = 1..Len(s) /\ Len(s) \in Nat
           /\ ToSet(s) \subseteq T /\ \A i \in DOMAIN s : s[i] \in T /\ s[i] \in ToSet(s)
           /\ \A x \in ToSet(s) : \E i \in DOMAIN s : s[i] = x
           /\ PointsOf(s) = {x.point : x \in ToSet(s)}
<1>1. DOMAIN s = 1..Len(s) /\ Len(s) \in Nat /\ \A i \in DOMAIN s : s[i] \in T
  OBVIOUS
<1>2. QED
  BY <1>1 DEF ToSet, PointsOf

LEMMA Nothing == ToSet(<<>>) = {} /\ PointsOf(<<>>) = {} /\ DOMAIN <<>> = {} /\ Len(<<>>) = 0
BY DEF ToSet, PointsOf

LEMMA FirstIs ==
    ASSUME NEW T, NEW s \in Seq(T), NEW n \in Nat
    PROVE  /\ First(n, s) \in Seq(T) /\ ToSet(First(n, s)) \subseteq ToSet(s)
           /\ Len(First(n, s)) <= n /\ Len(First(n, s)) <= Len(s)
           /\ \A i \in 1..Len(First(n, s)) : i \in 1..Len(s) /\ First(n, s)[i] = s[i]
<1> DEFINE b == IF Len(s) < n THEN Len(s) ELSE n
<1>1. b \in Nat /\ b <= Len(s) /\ b <= n /\ 1 \in Nat \ {0} /\ Len(s) \in Nat
  OBVIOUS
<1>2. First(n, s) = SubSeq(s, 1, b)
  BY DEF First
<1> HIDE DEF b
<1>3. /\ SubSeq(s, 1, b) \in Seq(T) /\ Len(SubSeq(s, 1, b)) = IF 1 <= b THEN b - 1 + 1 ELSE 0
      /\ ToSet(SubSeq(s, 1, b)) \subseteq ToSet(s)
      /\ \A i \in 1..Len(SubSeq(s, 1, b)) : 1 - 1 + i \in 1..Len(s) /\ SubSeq(s, 1, b)[i] = s[1 - 1 + i]
  BY <1>1, Cut
<1>4. \A i \in 1..Len(SubSeq(s, 1, b)) : 1 - 1 + i = i
  BY <1>1, <1>3
<1>5. Len(SubSeq(s, 1, b)) = b
  BY <1>1, <1>3
<1>6. QED
  BY <1>1, <1>2, <1>3, <1>4, <1>5

LEMMA UpTo ==
    ASSUME NEW n \in Nat
    PROVE  IsFiniteSet(1..n) /\ Cardinality(1..n) = n
<1>1. 1 \in Int /\ n \in Int
  OBVIOUS
<1>2. IsFiniteSet(1..n) /\ Cardinality(1..n) = IF 1 > n THEN 0 ELSE n - 1 + 1
  BY <1>1, FS_Interval
<1>3. QED
  BY <1>2

(* Filter keeps the order.                                                 *)
LEMMA FilterAt ==
    ASSUME NEW T, NEW s \in Seq(T), NEW S, NEW f, f = Filter(s, S)
    PROVE  \E at \in [1..Len(f) -> 1..Len(s)] :
             /\ \A k \in 1..Len(f) : f[k] = s[at[k]] /\ s[at[k]] \in S
             /\ \A j, k \in 1..Len(f) : (j < k => at[j] < at[k]) /\ (at[j] = at[k] => j = k)
<1>1. f \in Seq(T)
  BY FilterHas
<1>2. PICK at \in [1..Len(f) -> 1..Len(s)] :
        /\ \A k \in 1..Len(f) : f[k] = s[at[k]] /\ s[at[k]] \in S
        /\ \A j, k \in 1..Len(f) : j < k => at[j] < at[k]
  BY FilterHas
<1>3. \A j, k \in 1..Len(f) : at[j] = at[k] => j = k
  <2>1. SUFFICES ASSUME NEW j \in 1..Len(f), NEW k \in 1..Len(f), at[j] = at[k] PROVE j = k
    OBVIOUS
  <2>2. Len(f) \in Nat /\ Len(s) \in Nat
    BY <1>1
  <2>3. ~(j < k) /\ ~(k < j)
    BY <1>2, <2>1, <2>2
  <2>4. QED
    BY <2>2, <2>3
<1>4. QED
  BY <1>2, <1>3

(* A sequence has no more elements than places.                            *)
LEMMA ElementsOf ==
    ASSUME NEW T, NEW s \in Seq(T)
    PROVE  IsFiniteSet(ToSet(s)) /\ Cardinality(ToSet(s)) <= Len(s)
<1>1. DOMAIN s = 1..Len(s) /\ Len(s) \in Nat
  OBVIOUS
<1>2. IsFiniteSet(1..Len(s)) /\ Cardinality(1..Len(s)) = Len(s)
  BY <1>1, UpTo
<1>3. s \in Surjection(1..Len(s), ToSet(s))
  BY <1>1 DEF Surjection, ToSet
<1>4. QED
  BY <1>1, <1>2, <1>3, FS_Surjection, FS_CardinalityType

(* Filter leaves out no more places than there are elements to leave out,  *)
(* if those are different.                                                 *)
LEMMA FilteredOut ==
    ASSUME NEW T, NEW s \in Seq(T), IsInjective(s), NEW S, NEW G, IsFiniteSet(G),
           NEW key \in [T -> G \cup Nat],
           \A x, y \in ToSet(s) : key[x] = key[y] => x = y,
           \A x \in ToSet(s) : x \notin S => key[x] \in G
    PROVE  Len(s) <= Len(Filter(s, S)) + Cardinality(G)
<1> DEFINE f == Filter(s, S)
           gone == {x \in ToSet(s) : x \notin S}
<1>1. f \in Seq(T) /\ ToSet(f) = ToSet(s) \cap S
  BY Filtered
<1>2. IsFiniteSet(ToSet(f)) /\ Cardinality(ToSet(f)) <= Len(f) /\ IsFiniteSet(ToSet(s))
  BY <1>1, ElementsOf
<1>3. Cardinality(ToSet(s)) = Len(s) /\ Len(s) \in Nat
  <2>1. DOMAIN s = 1..Len(s) /\ Len(s) \in Nat
    OBVIOUS
  <2>2. s \in Surjection(1..Len(s), ToSet(s)) /\ s \in Injection(1..Len(s), ToSet(s))
    BY <2>1 DEF Surjection, Injection, ToSet, IsInjective
  <2>3. IsFiniteSet(1..Len(s)) /\ Cardinality(1..Len(s)) = Len(s)
    BY <2>1, UpTo
  <2>4. Cardinality(ToSet(s)) = Cardinality(1..Len(s))
    BY <2>2, <2>3, FS_Surjection
  <2>5. QED
    BY <2>1, <2>3, <2>4
<1>4. IsFiniteSet(gone) /\ Cardinality(gone) <= Cardinality(G)
  <2>1. ToSet(s) \subseteq T
    BY Listed
  <2>2. [x \in gone |-> key[x]] \in Injection(gone, G)
    <3>1. [x \in gone |-> key[x]] \in [gone -> G]
      OBVIOUS
    <3>2. IsInjective([x \in gone |-> key[x]])
      BY DEF IsInjective
    <3>3. QED
      BY <3>1, <3>2 DEF Injection
  <2> HIDE DEF gone
  <2>3. QED
    BY <2>2, FS_Injection
<1>5. ToSet(s) = ToSet(f) \cup gone /\ ToSet(f) \cap gone = {}
  BY <1>1
<1> HIDE DEF gone
<1>6. Cardinality(ToSet(s)) = Cardinality(ToSet(f)) + Cardinality(gone)
  <2>1. Cardinality(ToSet(f) \cup gone) = Cardinality(ToSet(f)) + Cardinality(gone) - Cardinality(ToSet(f) \cap gone)
    BY <1>2, <1>4, FS_Union
  <2>2. Cardinality(ToSet(f) \cap gone) = 0
    BY <1>5, FS_EmptySet
  <2>3. Cardinality(ToSet(f)) \in Nat /\ Cardinality(gone) \in Nat
    BY <1>2, <1>4, FS_CardinalityType
  <2>4. QED
    BY <1>5, <2>1, <2>2, <2>3
<1>7. Cardinality(ToSet(f)) \in Nat /\ Cardinality(gone) \in Nat /\ Cardinality(G) \in Nat /\ Len(f) \in Nat
  BY <1>1, <1>2, <1>4, FS_CardinalityType
<1> HIDE DEF f
<1>8. Len(s) <= Len(f) + Cardinality(G)
  BY <1>2, <1>3, <1>4, <1>6, <1>7
<1>9. QED
  BY <1>8 DEF f

-----------------------------------------------------------------------------
(* The table, the ring and the loops.                                      *)

LEMMA Bounds ==
    /\ {MaxPoints, MaxCache, Evicted, MaxRing, Batch, MaxFails, MaxRestarts} \subseteq Nat
    /\ Evicted > 0 /\ MaxRing > 0 /\ Batch > 0 /\ MaxFails > 0 /\ Evicted < MaxCache
    /\ Bad \subseteq Points /\ Bad \subseteq Unfit
BY BoundsAssumption DEF Points, Unfit

(* Rows have different ids, none after the last.                           *)
LEMMA TableIs ==
    ASSUME TypeOK
    PROVE  /\ \A r, q \in Table : r.id = q.id => r = q
           /\ \A r \in Table : r \in Rows /\ r.id <= LastId(cached) /\ r.id # 0
           /\ LastId(cached) \in Nat /\ Len(cached) \in Nat
           /\ PointsOf(cached) = {r.point : r \in Table}
<1>1. /\ DOMAIN cached = 1..Len(cached) /\ Len(cached) \in Nat /\ Table \subseteq Rows
      /\ \A i \in DOMAIN cached : cached[i] \in Rows
      /\ \A r \in Table : \E i \in DOMAIN cached : cached[i] = r
      /\ PointsOf(cached) = {r.point : r \in Table}
      /\ \A i, j \in DOMAIN cached : i < j => cached[i].id < cached[j].id
  <2>1. cached \in Seq(Rows) /\ \A i, j \in DOMAIN cached : i < j => cached[i].id < cached[j].id
    BY DEF TypeOK
  <2>2. QED
    BY <2>1, Listed DEF Table
<1>2. \A i \in DOMAIN cached : cached[i].id \in Nat /\ cached[i].id # 0
  BY <1>1 DEF Rows
<1>3. \A i, j \in DOMAIN cached : cached[i].id = cached[j].id => i = j
  <2>1. SUFFICES ASSUME NEW i \in DOMAIN cached, NEW j \in DOMAIN cached, cached[i].id = cached[j].id
                 PROVE  i = j
    OBVIOUS
  <2>2. ~(i < j) /\ ~(j < i)
    BY <1>1, <1>2, <2>1
  <2>3. QED
    BY <1>1, <2>2
<1>4. LastId(cached) \in Nat /\ \A i \in DOMAIN cached : cached[i].id <= LastId(cached)
  <2>1. CASE cached = <<>>
    BY <1>1, <2>1 DEF LastId
  <2>2. CASE cached # <<>>
    <3>1. Len(cached) \in DOMAIN cached /\ LastId(cached) = cached[Len(cached)].id
      BY <1>1, <2>2 DEF LastId, Last
    <3>2. \A i \in DOMAIN cached : i = Len(cached) \/ i < Len(cached)
      BY <1>1
    <3>3. QED
      BY <1>1, <1>2, <3>1, <3>2
  <2>3. QED
    BY <2>1, <2>2
<1>5. QED
  BY <1>1, <1>2, <1>3, <1>4

(* What makes room are the oldest rows, never all of them.                 *)
LEMMA KeptIs ==
    ASSUME TypeOK, Counted
    PROVE  /\ Kept \in Seq(Rows) /\ ToSet(Kept) \subseteq Table /\ LastId(Kept) = LastId(cached)
           /\ Sorted(Kept) /\ (Apart(cached) => Apart(Kept))
           /\ PointsOf(Kept) = {r.point : r \in ToSet(Kept)} /\ PointsOf(Kept) \subseteq PointsOf(cached)
           /\ Len(Kept) \in Nat /\ Len(Kept) >= Less(count, IF Full THEN Evicted ELSE 0)
           /\ Full => count > Evicted
<1>1. /\ cached \in Seq(Rows) /\ count \in Nat /\ count <= Len(cached) /\ Len(cached) \in Nat
      /\ DOMAIN cached = 1..Len(cached) /\ \A i \in DOMAIN cached : cached[i] \in Rows /\ cached[i].id \in Nat
      /\ \A i, j \in DOMAIN cached : i < j => cached[i].id < cached[j].id
  <2>1. cached \in Seq(Rows) /\ count \in Nat /\ count <= Len(cached)
        /\ \A i, j \in DOMAIN cached : i < j => cached[i].id < cached[j].id
    BY DEF TypeOK, Counted
  <2>2. DOMAIN cached = 1..Len(cached) /\ Len(cached) \in Nat /\ \A i \in DOMAIN cached : cached[i] \in Rows
    BY <2>1
  <2>3. QED
    BY <2>1, <2>2 DEF Rows
<1>2. CASE ~Full
  <2>1. Kept = cached
    BY <1>2 DEF Kept
  <2>2. Less(count, 0) = count \/ Less(count, 0) = 0
    BY <1>1 DEF Less
  <2>3. QED
    BY <1>1, <1>2, <2>1, <2>2, Listed DEF Table, Sorted
<1>3. CASE Full
  <2>1. count > Evicted /\ Evicted \in Nat /\ Len(cached) > Evicted
    BY <1>1, <1>3, Bounds DEF Full
  <2>2. Evicted + 1 \in Nat \ {0} /\ Evicted + 1 <= Len(cached) /\ Len(cached) \in Nat
    BY <1>1, <2>1
  <2>3. Kept = SubSeq(cached, Evicted + 1, Len(cached))
    BY <1>3 DEF Kept
  <2>4. /\ Kept \in Seq(Rows) /\ Len(Kept) = Len(cached) - Evicted
        /\ ToSet(Kept) \subseteq ToSet(cached)
        /\ \A i \in 1..Len(Kept) : Evicted + i \in 1..Len(cached) /\ Kept[i] = cached[Evicted + i]
    <3> DEFINE a == Evicted + 1
               b == Len(cached)
    <3>1. a \in Nat \ {0} /\ b \in Nat /\ b <= Len(cached) /\ a <= b /\ b - a + 1 = Len(cached) - Evicted
      BY <1>1, <2>1, <2>2
    <3>2. \A i \in Nat : a - 1 + i = Evicted + i
      BY <2>1
    <3>3. Kept = SubSeq(cached, a, b)
      BY <2>3
    <3> HIDE DEF a, b
    <3>4. cached \in Seq(Rows)
      BY <1>1
    <3>5. /\ SubSeq(cached, a, b) \in Seq(Rows)
          /\ Len(SubSeq(cached, a, b)) = IF a <= b THEN b - a + 1 ELSE 0
          /\ ToSet(SubSeq(cached, a, b)) \subseteq ToSet(cached)
          /\ \A i \in 1..Len(SubSeq(cached, a, b)) :
               a - 1 + i \in 1..Len(cached) /\ SubSeq(cached, a, b)[i] = cached[a - 1 + i]
      BY <3>1, <3>4, Cut
    <3>6. Len(Kept) = Len(cached) - Evicted /\ \A i \in 1..Len(Kept) : i \in Nat
      BY <1>1, <2>1, <3>1, <3>3, <3>5
    <3>7. QED
      BY <3>2, <3>3, <3>5, <3>6
  <2>5. Len(Kept) = Len(cached) - Evicted /\ Len(Kept) \in Nat /\ Len(Kept) > 0 /\ DOMAIN Kept = 1..Len(Kept)
    BY <1>1, <2>1, <2>4
  <2>6. \A i \in DOMAIN Kept : Evicted + i \in DOMAIN cached /\ Kept[i] = cached[Evicted + i]
    BY <1>1, <2>1, <2>4, <2>5
  <2>7. \A i, j \in DOMAIN Kept : (i < j => Evicted + i < Evicted + j) /\ (Evicted + i = Evicted + j => i = j)
    BY <2>1, <2>5
  <2>8. LastId(Kept) = LastId(cached)
    <3>1. Kept # <<>> /\ cached # <<>>
      BY <2>1, <2>5, Nothing
    <3>2. Len(Kept) \in DOMAIN Kept /\ Evicted + Len(Kept) = Len(cached)
      BY <1>1, <2>1, <2>5
    <3>3. QED
      BY <2>6, <3>1, <3>2 DEF LastId, Last
  <2>9. Len(Kept) >= Less(count, Evicted)
    BY <1>1, <2>1, <2>5 DEF Less
  <2>10. PointsOf(Kept) = {r.point : r \in ToSet(Kept)} /\ PointsOf(cached) = {r.point : r \in Table}
    BY <1>1, <2>4, Listed DEF Table
  <2>11. Sorted(Kept) /\ (Apart(cached) => Apart(Kept))
    BY <1>1, <2>6, <2>7 DEF Sorted, Apart
  <2>12. QED
    BY <1>3, <2>1, <2>4, <2>5, <2>6, <2>7, <2>8, <2>9, <2>10, <2>11 DEF Table
<1>4. QED
  BY <1>2, <1>3

(* A new row has an id that no row had, not even one that made room.       *)
LEMMA RowAdded ==
    ASSUME TypeOK, Counted, NEW row \in Rows, row.id = LastId(Kept) + 1, row.point \notin PointsOf(cached),
           cached' = Append(Kept, row)
    PROVE  /\ cached' \in Seq(Rows) /\ Sorted(cached') /\ (Apart(cached) => Apart(cached'))
           /\ Table' = ToSet(Kept) \cup {row}
           /\ PointsOf(cached') = PointsOf(Kept) \cup {row.point}
           /\ Len(cached') = Len(Kept) + 1
           /\ \A r \in Table : r.id < row.id
<1>1. /\ Kept \in Seq(Rows) /\ ToSet(Kept) \subseteq Table /\ LastId(Kept) = LastId(cached)
      /\ Sorted(Kept) /\ (Apart(cached) => Apart(Kept))
      /\ PointsOf(Kept) \subseteq PointsOf(cached)
      /\ PointsOf(cached) = {r.point : r \in Table}
      /\ LastId(cached) \in Nat /\ \A r \in Table : r \in Rows /\ r.id <= LastId(cached)
  BY KeptIs, TableIs
<1>2. \A r \in Table : r.id \in Nat /\ r.id < row.id
  BY <1>1 DEF Rows
<1>3. /\ Append(Kept, row) \in Seq(Rows) /\ Len(Append(Kept, row)) = Len(Kept) + 1
      /\ ToSet(Append(Kept, row)) = ToSet(Kept) \cup {row}
  BY <1>1, Appended
<1>4. /\ DOMAIN Kept = 1..Len(Kept) /\ Len(Kept) \in Nat
      /\ \A i \in DOMAIN Kept : Kept[i] \in ToSet(Kept)
  BY <1>1, Listed
<1>5. /\ DOMAIN cached' = 1..(Len(Kept) + 1) /\ cached'[Len(Kept) + 1] = row
      /\ \A i \in DOMAIN Kept : cached'[i] = Kept[i]
  BY <1>1, <1>3, <1>4
<1>6. \A i \in DOMAIN cached' : i \in DOMAIN Kept \/ i = Len(Kept) + 1
  BY <1>4, <1>5
<1>7. \A i \in DOMAIN Kept : Kept[i].id < row.id /\ Kept[i].point # row.point /\ i < Len(Kept) + 1
  BY <1>1, <1>2, <1>4
<1>8. Sorted(cached')
  <2>1. SUFFICES ASSUME NEW i \in DOMAIN cached', NEW j \in DOMAIN cached', i < j
                 PROVE  cached'[i].id < cached'[j].id
    BY DEF Sorted
  <2>2. i \in DOMAIN Kept
    BY <1>4, <1>5, <2>1
  <2>3. QED
    BY <1>1, <1>5, <1>6, <1>7, <2>1, <2>2 DEF Sorted
<1>9. Apart(cached) => Apart(cached')
  BY <1>1, <1>5, <1>6, <1>7 DEF Apart
<1>10. PointsOf(cached') = {r.point : r \in ToSet(cached')} /\ PointsOf(Kept) = {r.point : r \in ToSet(Kept)}
  BY <1>1, <1>3, Listed
<1>11. QED
  BY <1>2, <1>3, <1>8, <1>9, <1>10 DEF Table

(* Rows are deleted by id, and no more than there are ids.                 *)
LEMMA RowsDeleted ==
    ASSUME TypeOK, Apart(cached), NEW ids \in Seq(Nat \ {0}),
           cached' = Filter(cached, {r \in ToSet(cached) : r.id \notin ToSet(ids)})
    PROVE  /\ cached' \in Seq(Rows) /\ Sorted(cached') /\ Apart(cached')
           /\ Table' = {r \in Table : r.id \notin ToSet(ids)}
           /\ Len(cached') \in Nat /\ Len(cached) <= Len(cached') + Len(ids)
<1> DEFINE S == {r \in ToSet(cached) : r.id \notin ToSet(ids)}
           f == Filter(cached, S)
<1>1. cached \in Seq(Rows) /\ Sorted(cached) /\ cached' = f
  BY DEF TypeOK, Sorted
<1>2. /\ f \in Seq(Rows) /\ Len(f) <= Len(cached) /\ ToSet(f) = ToSet(cached) \cap S
  BY <1>1, Filtered
<1>3. \E at \in [1..Len(f) -> 1..Len(cached)] :
        /\ \A k \in 1..Len(f) : f[k] = cached[at[k]] /\ cached[at[k]] \in S
        /\ \A j, k \in 1..Len(f) : (j < k => at[j] < at[k]) /\ (at[j] = at[k] => j = k)
  <2>1. f = Filter(cached, S)
    OBVIOUS
  <2> HIDE DEF f, S
  <2>2. QED
    BY <1>1, <2>1, FilterAt
<1>4. Table' = {r \in Table : r.id \notin ToSet(ids)}
  BY <1>1, <1>2 DEF Table
<1>5. Len(cached) <= Len(f) + Cardinality(ToSet(ids))
  <2> DEFINE key == [r \in Rows |-> r.id]
  <2>1. IsInjective(cached)
    BY DEF Apart, IsInjective
  <2>2. key \in [Rows -> ToSet(ids) \cup Nat]
    BY DEF Rows
  <2>3. ToSet(cached) \subseteq Rows /\ \A x, y \in ToSet(cached) : x.id = y.id => x = y
    BY TableIs DEF Table
  <2>4. \A x, y \in ToSet(cached) : key[x] = key[y] => x = y
    BY <2>3
  <2>5. \A x \in ToSet(cached) : x \notin S => key[x] \in ToSet(ids)
    BY <2>3
  <2>6. IsFiniteSet(ToSet(ids))
    BY ElementsOf
  <2> HIDE DEF key, S
  <2>7. QED
    BY <1>1, <2>1, <2>2, <2>4, <2>5, <2>6, FilteredOut
<1> HIDE DEF S, f
<1>6. Len(cached) <= Len(f) + Len(ids)
  <2>1. IsFiniteSet(ToSet(ids)) /\ Cardinality(ToSet(ids)) <= Len(ids)
    BY ElementsOf
  <2>2. Cardinality(ToSet(ids)) \in Nat
    BY <2>1, FS_CardinalityType
  <2>3. Len(ids) \in Nat /\ Len(f) \in Nat /\ Len(cached) \in Nat
    BY <1>1, <1>2
  <2>4. QED
    BY <1>5, <2>1, <2>2, <2>3
<1>7. DOMAIN f = 1..Len(f) /\ Len(f) \in Nat /\ DOMAIN cached = 1..Len(cached)
  BY <1>1, <1>2
<1>8. PICK at \in [1..Len(f) -> 1..Len(cached)] :
        /\ \A k \in 1..Len(f) : f[k] = cached[at[k]]
        /\ \A j, k \in 1..Len(f) : (j < k => at[j] < at[k]) /\ (at[j] = at[k] => j = k)
  BY <1>3
<1>9. Sorted(f)
  BY <1>1, <1>7, <1>8 DEF Sorted
<1>10. Apart(f)
  BY <1>7, <1>8 DEF Apart
<1>11. QED
  BY <1>1, <1>2, <1>4, <1>6, <1>7, <1>9, <1>10

-----------------------------------------------------------------------------
(* The ring.  A step leaves its records in their order.                    *)

\* The record at i was at k before, and what the flush has taken meanwhile
\* was before it.
Follows(i, k) ==
    /\ k \in DOMAIN ring
    /\ ring'[i].row = ring[k].row /\ ring'[i].point = ring[k].point
    /\ \A j \in DOMAIN ring' : j < i => \E m \in DOMAIN ring : m < k /\ ring'[j].point = ring[m].point
    /\ ring'[i].status = "pending" =>
         \A q \in ToSet(flush'.points) :
           \/ ring[k].status = "pending" /\ q \in ToSet(flush.points)
           \/ \E m \in DOMAIN ring : m < k /\ ring[m].point = q

LEMMA RowFollows ==
    ASSUME NEW i, NEW k, Follows(i, k), HasRow(k), Table' = Table
    PROVE  HasRow(i)'
<1>1. SUFFICES ASSUME ring'[i].row # 0, ring'[i].point \notin Bad
               PROVE  Means(ring[i].row, ring[i].point)' /\ \E r \in Table' : r.id = ring'[i].row \/ Outlasts(r, i)'
  BY DEF HasRow
<1>2. ring[k].row # 0 /\ ring[k].point \notin Bad
  BY <1>1 DEF Follows
<1>3. Means(ring[k].row, ring[k].point) /\ \E r \in Table : r.id = ring[k].row \/ Outlasts(r, k)
  BY <1>2 DEF HasRow
<1>4. Means(ring[i].row, ring[i].point)'
  BY <1>3 DEF Means, Follows
<1>5. PICK r \in Table : r.id = ring[k].row \/ Outlasts(r, k)
  BY <1>3
<1>6. CASE r.id = ring[k].row
  BY <1>4, <1>6 DEF Follows
<1>7. CASE Outlasts(r, k)
  <2>1. Outlasts(r, i)'
    BY <1>7 DEF Outlasts, Follows
  <2>2. QED
    BY <1>4, <2>1
<1>8. QED
  BY <1>5, <1>6, <1>7

LEMMA RingIs ==
    ASSUME TypeOK
    PROVE  /\ ring \in Seq(Records) /\ DOMAIN ring = 1..Len(ring) /\ Len(ring) \in Nat /\ Len(ring) <= MaxRing
           /\ \A i \in DOMAIN ring : /\ ring[i] \in Records /\ ring[i].row \in Nat /\ ring[i].point \in Points
                                     /\ ring[i].status \in {"pending", "syncing"}
           /\ PointsOf(ring) = {ring[i].point : i \in DOMAIN ring}
<1>1. ring \in Seq(Records) /\ Len(ring) <= MaxRing
  BY DEF TypeOK
<1>2. DOMAIN ring = 1..Len(ring) /\ Len(ring) \in Nat /\ \A i \in DOMAIN ring : ring[i] \in Records
  BY <1>1
<1>3. QED
  BY <1>1, <1>2 DEF Records, PointsOf

(* A new record comes last; the first one may go.                          *)
LEMMA PutIs ==
    ASSUME TypeOK, NEW rec \in Records, Put(rec), flush' = flush
    PROVE  /\ ring' \in Seq(Records) /\ Len(ring') <= MaxRing
           /\ DOMAIN ring' = 1..Len(ring') /\ Len(ring') \in Nat /\ ring'[Len(ring')] = rec
           /\ \A i \in DOMAIN ring' : i = Len(ring') \/ \E k \in DOMAIN ring : ring'[i] = ring[k] /\ Follows(i, k)
           /\ Apart(ring) /\ rec.point \notin PointsOf(ring) => Apart(ring')
           /\ PointsOf(ring') \subseteq PointsOf(ring) \cup {rec.point} /\ rec.point \in PointsOf(ring')
           /\ PointsOf(ring) \subseteq PointsOf(ring') \cup dropped'
           /\ dropped \subseteq dropped' /\ dropped' \subseteq dropped \cup PointsOf(ring)
<1> DEFINE shift == IF Len(ring) = MaxRing THEN 1 ELSE 0
           left == IF Len(ring) = MaxRing THEN Tail(ring) ELSE ring
<1>1. /\ ring \in Seq(Records) /\ DOMAIN ring = 1..Len(ring) /\ Len(ring) \in Nat /\ Len(ring) <= MaxRing
      /\ PointsOf(ring) = {ring[i].point : i \in DOMAIN ring}
      /\ MaxRing \in Nat /\ MaxRing > 0
  BY RingIs, Bounds
<1>2. shift \in {0, 1}
  OBVIOUS
<1>3. /\ left \in Seq(Records) /\ Len(left) = Len(ring) - shift /\ Len(left) < MaxRing
      /\ \A i \in 1..Len(left) : i + shift \in DOMAIN ring /\ left[i] = ring[i + shift]
      /\ \A i \in DOMAIN ring : i - shift \in 1..Len(left) \/ ring[i].point \in dropped'
      /\ dropped \subseteq dropped' /\ dropped' \subseteq dropped \cup PointsOf(ring)
  <2>1. CASE Len(ring) = MaxRing
    <3>1. ring # <<>> /\ shift = 1 /\ left = Tail(ring) /\ Head(ring) = ring[1] /\ 1 \in DOMAIN ring
      BY <1>1, <2>1
    <3>2. Tail(ring) \in Seq(Records) /\ Len(Tail(ring)) = Len(ring) - 1
          /\ \A i \in 1..Len(Tail(ring)) : Tail(ring)[i] = ring[i + 1]
      <4>1. ring \in Seq(Records) /\ ring # <<>>
        BY <1>1, <3>1
      <4>2. Tail(ring) \in Seq(Records) /\ Len(Tail(ring)) = Len(ring) - 1
        BY <4>1, Tailed
      <4>3. QED
        BY <4>1, <4>2
    <3>3. dropped' = dropped \cup {ring[1].point}
      BY <2>1, <3>1 DEF Put
    <3>4. \A i \in DOMAIN ring : i = 1 \/ i - 1 \in 1..Len(Tail(ring))
      BY <1>1, <3>2
    <3> HIDE DEF shift, left
    <3>5. QED
      BY <1>1, <2>1, <3>1, <3>2, <3>3, <3>4
  <2>2. CASE Len(ring) # MaxRing
    <3>1. shift = 0 /\ left = ring /\ dropped' = dropped
      BY <2>2 DEF Put
    <3> HIDE DEF shift, left
    <3>2. \A i \in DOMAIN ring : i + 0 = i /\ i - 0 = i /\ i \in 1..Len(ring)
      BY <1>1
    <3>3. Len(left) = Len(ring) - shift /\ Len(left) < MaxRing
      <4>1. Len(ring) \in Nat /\ Len(ring) <= MaxRing /\ MaxRing \in Nat
        BY <1>1
      <4>2. Len(ring) \in Nat /\ Len(ring) < MaxRing
        BY <2>2, <4>1
      <4>3. QED
        BY <3>1, <4>2
    <3>4. \A i \in DOMAIN ring : i + shift = i /\ i - shift = i
      BY <3>1, <3>2
    <3>5. 1..Len(left) = DOMAIN ring
      BY <1>1, <3>1
    <3>6. QED
      BY <1>1, <3>1, <3>3, <3>4, <3>5
  <2>3. QED
    BY <2>1, <2>2
<1>4. ring' = Append(left, rec)
  BY DEF Put
<1> HIDE DEF left, shift
<1>5. /\ ring' \in Seq(Records) /\ Len(ring') = Len(left) + 1 /\ ring'[Len(ring')] = rec
      /\ \A i \in 1..Len(left) : ring'[i] = left[i]
      /\ DOMAIN ring' = 1..Len(ring') /\ Len(left) \in Nat /\ Len(ring') \in Nat
  BY <1>3, <1>4
<1>6. \A i \in DOMAIN ring' : i # Len(ring') => /\ i \in 1..Len(left)
                                                /\ i + shift \in DOMAIN ring /\ ring'[i] = ring[i + shift]
  BY <1>3, <1>5
<1>7. ASSUME NEW i \in DOMAIN ring', i # Len(ring')
      PROVE  Follows(i, i + shift)
  <2>1. i + shift \in DOMAIN ring /\ ring'[i] = ring[i + shift] /\ i \in Nat
    BY <1>5, <1>6, <1>7
  <2>2. ASSUME NEW j \in DOMAIN ring', j < i
        PROVE  \E m \in DOMAIN ring : m < i + shift /\ ring'[j].point = ring[m].point
    <3>1. j # Len(ring') /\ j + shift < i + shift
      BY <1>2, <1>5, <2>2
    <3>2. j + shift \in DOMAIN ring /\ ring'[j] = ring[j + shift]
      BY <1>6, <3>1
    <3>3. QED
      BY <3>1, <3>2
  <2>3. QED
    BY <2>1, <2>2 DEF Follows
<1>8. ASSUME Apart(ring), rec.point \notin PointsOf(ring)
      PROVE  Apart(ring')
  <2>1. \A i, j \in DOMAIN ring' : i + shift = j + shift => i = j
    BY <1>2, <1>5
  <2>2. \A i \in DOMAIN ring' : i # Len(ring') => ring'[i].point # rec.point
    BY <1>1, <1>6, <1>8
  <2>3. SUFFICES ASSUME NEW i \in DOMAIN ring', NEW j \in DOMAIN ring', ring'[i].point = ring'[j].point
                 PROVE  i = j
    BY DEF Apart
  <2>4. CASE i = Len(ring') \/ j = Len(ring')
    BY <1>5, <2>2, <2>3, <2>4
  <2>5. CASE i # Len(ring') /\ j # Len(ring')
    <3>1. i + shift = j + shift
      BY <1>6, <1>8, <2>3, <2>5 DEF Apart
    <3>2. QED
      BY <2>1, <3>1
  <2>6. QED
    BY <2>4, <2>5
<1>9. PointsOf(ring') = {ring'[i].point : i \in DOMAIN ring'} /\ Len(ring') \in DOMAIN ring'
  BY <1>5 DEF PointsOf
<1>10. PointsOf(ring') \subseteq PointsOf(ring) \cup {rec.point} /\ rec.point \in PointsOf(ring')
  <2>1. \A i \in DOMAIN ring' : ring'[i].point = rec.point \/ ring'[i].point \in PointsOf(ring)
    BY <1>1, <1>5, <1>6
  <2>2. QED
    BY <1>5, <1>9, <2>1
<1>11. PointsOf(ring) \subseteq PointsOf(ring') \cup dropped'
  <2>1. SUFFICES ASSUME NEW i \in DOMAIN ring, ring[i].point \notin dropped'
                 PROVE  ring[i].point \in PointsOf(ring')
    BY <1>1
  <2>2. i - shift \in 1..Len(left) /\ i - shift + shift = i
    <3>1. i - shift \in 1..Len(left)
      BY <1>3, <2>1
    <3>2. i \in Nat
      BY <1>1
    <3>3. QED
      BY <1>2, <3>1, <3>2
  <2>3. i - shift \in DOMAIN ring' /\ ring'[i - shift] = ring[i]
    BY <1>3, <1>5, <2>2
  <2>4. QED
    BY <1>9, <2>3
<1>12. \A i \in DOMAIN ring' : i = Len(ring') \/ \E k \in DOMAIN ring : ring'[i] = ring[k] /\ Follows(i, k)
  BY <1>6, <1>7
<1>13. Len(ring') <= MaxRing
  BY <1>1, <1>3, <1>5
<1>14. QED
  BY <1>3, <1>5, <1>8, <1>10, <1>11, <1>12, <1>13

(* The restore adds records for the oldest rows.                           *)
LEMMA RestoreIs ==
    ASSUME TypeOK, Restore
    PROVE  /\ ring' \in Seq(Records) /\ Len(ring') <= MaxRing
           /\ \A i \in DOMAIN ring' : \/ i \in DOMAIN ring /\ ring'[i] = ring[i] /\ Follows(i, i)
                                      \/ \E r \in Table : ring'[i] = New(r.id, r.point)
           /\ Apart(ring) /\ Apart(cached) /\ PointsOf(Restorable) \cap PointsOf(ring) = {} => Apart(ring')
           /\ PointsOf(ring') = PointsOf(ring) \cup PointsOf(Restorable)
           /\ PointsOf(Restorable) \subseteq PointsOf(cached)
<1> DEFINE s == Restorable
           new == [i \in DOMAIN s |-> New(s[i].id, s[i].point)]
           n == Len(ring)
<1>1. /\ ring \in Seq(Records) /\ DOMAIN ring = 1..n /\ n \in Nat /\ n <= MaxRing /\ MaxRing \in Nat
      /\ PointsOf(ring) = {ring[i].point : i \in DOMAIN ring}
  BY RingIs, Bounds
<1>2. cached \in Seq(Rows)
  BY DEF TypeOK
<1>3. /\ s \in Seq(Rows) /\ Len(s) <= MaxRing - n /\ ToSet(s) \subseteq Table
      /\ \A i \in 1..Len(s) : i \in 1..Len(cached) /\ s[i] = cached[i]
  <2>1. MaxRing - n \in Nat
    BY <1>1
  <2>2. QED
    BY <1>2, <2>1, FirstIs DEF Restorable, Table
<1> HIDE DEF s
<1>4. /\ DOMAIN s = 1..Len(s) /\ Len(s) \in Nat
      /\ \A i \in DOMAIN s : s[i] \in Rows /\ s[i] \in ToSet(s)
      /\ PointsOf(s) = {s[i].point : i \in DOMAIN s}
  BY <1>3, Listed DEF PointsOf
<1>5. new \in Seq(Records) /\ Len(new) = Len(s)
  <2>1. \A i \in DOMAIN s : New(s[i].id, s[i].point) \in Records
    BY <1>4 DEF New, Rows, Records
  <2>2. new \in [1..Len(s) -> Records]
    BY <1>4, <2>1
  <2>3. QED
    BY <1>4, <2>2
<1>6. ring' = ring \o new
  BY DEF Restore, s
<1>7. \A i \in 1..Len(s) : new[i] = New(s[i].id, s[i].point)
  BY <1>4
<1> HIDE DEF new
<1>8. /\ ring' \in Seq(Records) /\ Len(ring') = n + Len(s) /\ DOMAIN ring' = 1..(n + Len(s))
      /\ \A i \in 1..n : ring'[i] = ring[i]
      /\ \A i \in 1..Len(s) : ring'[n + i] = new[i]
  <2>1. Len(new) \in Nat
    BY <1>5
  <2>2. ring \in Seq(Records) /\ new \in Seq(Records) /\ n \in Nat
    BY <1>1, <1>5
  <2>3. /\ ring \o new \in Seq(Records) /\ Len(ring \o new) = n + Len(new)
        /\ \A i \in 1..n : (ring \o new)[i] = ring[i]
        /\ \A i \in 1..Len(new) : (ring \o new)[n + i] = new[i]
    BY <2>1, <2>2
  <2>4. QED
    BY <1>5, <1>6, <2>3
<1> HIDE DEF n
<1>9. \A i \in DOMAIN ring' : i \in 1..n \/ (i - n \in 1..Len(s) /\ n + (i - n) = i)
  BY <1>1, <1>4, <1>8
<1>10. \A i \in 1..Len(s) : n + i \in DOMAIN ring'
  BY <1>1, <1>4, <1>8
<1>11. \A i \in 1..n : i \in DOMAIN ring'
  BY <1>1, <1>4, <1>8
<1>12. flush'.points = <<>>
  BY DEF Restore, Idle
<1>13. ASSUME NEW i \in 1..n
       PROVE  i \in DOMAIN ring /\ ring'[i] = ring[i] /\ Follows(i, i)
  <2>1. ASSUME NEW j \in DOMAIN ring', j < i PROVE j \in DOMAIN ring /\ ring'[j].point = ring[j].point
    <3>1. j \in 1..n
      BY <1>1, <1>4, <1>8, <2>1
    <3>2. QED
      BY <1>1, <1>8, <3>1
  <2>2. QED
    BY <1>1, <1>8, <1>12, <2>1, Nothing DEF Follows
<1>14. ASSUME NEW i \in 1..Len(s)
       PROVE  s[i] \in Table /\ ring'[n + i] = New(s[i].id, s[i].point) /\ ring'[n + i].point = s[i].point
  <2>1. i \in DOMAIN s /\ s[i] \in ToSet(s) /\ s[i] \in Rows
    BY <1>4
  <2>2. ring'[n + i] = New(s[i].id, s[i].point)
    BY <1>7, <1>8
  <2>3. New(s[i].id, s[i].point).point = s[i].point
    BY DEF New
  <2>4. QED
    BY <1>3, <2>1, <2>2, <2>3
<1>15. \A i \in DOMAIN ring' : \/ i \in DOMAIN ring /\ ring'[i] = ring[i] /\ Follows(i, i)
                               \/ \E r \in Table : ring'[i] = New(r.id, r.point)
  <2>1. SUFFICES ASSUME NEW i \in DOMAIN ring', i \notin 1..n
                 PROVE  \E r \in Table : ring'[i] = New(r.id, r.point)
    BY <1>13
  <2>2. i - n \in 1..Len(s) /\ n + (i - n) = i
    BY <1>9, <2>1
  <2>3. QED
    BY <1>14, <2>2
<1>16. PointsOf(ring') = PointsOf(ring) \cup PointsOf(s)
  <2>1. PointsOf(ring') = {ring'[i].point : i \in DOMAIN ring'}
    BY DEF PointsOf
  <2>2. \A i \in DOMAIN ring' : ring'[i].point \in PointsOf(ring) \cup PointsOf(s)
    <3>1. \A i \in 1..n : ring'[i].point \in PointsOf(ring)
      BY <1>1, <1>8
    <3>2. \A i \in 1..Len(s) : ring'[n + i].point \in PointsOf(s)
      BY <1>4, <1>14
    <3>3. QED
      BY <1>9, <3>1, <3>2
  <2>3. PointsOf(ring) \subseteq PointsOf(ring')
    BY <1>1, <1>8, <1>11, <2>1
  <2>4. PointsOf(s) \subseteq PointsOf(ring')
    BY <1>4, <1>10, <1>14, <2>1
  <2>5. QED
    BY <2>1, <2>2, <2>3, <2>4
<1>17. ASSUME Apart(ring), Apart(cached), PointsOf(s) \cap PointsOf(ring) = {}
       PROVE  Apart(ring')
  <2>1. \A i, j \in 1..Len(s) : ring'[n + i].point = ring'[n + j].point => i = j
    <3>1. \A i, j \in 1..Len(s) : cached[i].point = cached[j].point => i = j
      BY <1>2, <1>3, <1>17 DEF Apart
    <3>2. QED
      BY <1>3, <1>14, <3>1
  <2>2. \A i \in 1..n, j \in 1..Len(s) : ring'[i].point # ring'[n + j].point
    <3>1. \A i \in 1..n : ring'[i].point \in PointsOf(ring)
      BY <1>1, <1>8
    <3>2. \A j \in 1..Len(s) : ring'[n + j].point \in PointsOf(s)
      BY <1>4, <1>14
    <3>3. QED
      BY <1>17, <3>1, <3>2
  <2>3. \A i, j \in 1..n : ring'[i].point = ring'[j].point => i = j
    BY <1>1, <1>8, <1>17 DEF Apart
  <2>4. SUFFICES ASSUME NEW i \in DOMAIN ring', NEW j \in DOMAIN ring', ring'[i].point = ring'[j].point
                 PROVE  i = j
    BY DEF Apart
  <2>5. CASE i \in 1..n /\ j \in 1..n
    BY <2>3, <2>4, <2>5
  <2>6. CASE i \in 1..n /\ j \notin 1..n
    BY <1>9, <2>2, <2>4, <2>6
  <2>7. CASE i \notin 1..n /\ j \in 1..n
    BY <1>9, <2>2, <2>4, <2>7
  <2>8. CASE i \notin 1..n /\ j \notin 1..n
    <3>1. i - n \in 1..Len(s) /\ n + (i - n) = i /\ j - n \in 1..Len(s) /\ n + (j - n) = j
      BY <1>9, <2>8
    <3>2. i - n = j - n
      BY <2>1, <2>4, <3>1
    <3>3. QED
      BY <3>1, <3>2
  <2>9. QED
    BY <2>5, <2>6, <2>7, <2>8
<1>18. Len(ring') <= MaxRing
  BY <1>1, <1>3, <1>4, <1>8 DEF n
<1>19. PointsOf(s) \subseteq PointsOf(cached)
  BY <1>2, <1>3, <1>4, Listed DEF Table
<1>20. QED
  BY <1>8, <1>15, <1>16, <1>17, <1>18, <1>19 DEF s

(* Marks change nothing but the status.                                    *)
LEMMA Relabelled ==
    ASSUME TypeOK, DOMAIN ring' = DOMAIN ring, ring' = [i \in DOMAIN ring |-> ring'[i]],
           \A i \in DOMAIN ring : /\ ring'[i] \in Records
                                  /\ ring'[i].row = ring[i].row /\ ring'[i].point = ring[i].point
    PROVE  /\ ring' \in Seq(Records) /\ Len(ring') <= MaxRing
           /\ PointsOf(ring') = PointsOf(ring) /\ (Apart(ring) => Apart(ring'))
           /\ \A i \in DOMAIN ring' : i \in DOMAIN ring
                /\ \A j \in DOMAIN ring' : j < i => \E m \in DOMAIN ring : m < i /\ ring'[j].point = ring[m].point
<1>1. DOMAIN ring = 1..Len(ring) /\ Len(ring) \in Nat /\ Len(ring) <= MaxRing
      /\ PointsOf(ring) = {ring[i].point : i \in DOMAIN ring}
  BY RingIs
<1>2. ring' \in Seq(Records) /\ Len(ring') = Len(ring)
  <2>1. ring' \in [1..Len(ring) -> Records]
    BY <1>1
  <2>2. QED
    BY <1>1, <2>1
<1>3. PointsOf(ring') = PointsOf(ring)
  BY DEF PointsOf
<1>4. Apart(ring) => Apart(ring')
  BY DEF Apart
<1>5. QED
  BY <1>1, <1>2, <1>3, <1>4

LEMMA MarkFailedIs ==
    ASSUME TypeOK, MarkFailed
    PROVE  /\ ring' \in Seq(Records) /\ Len(ring') <= MaxRing
           /\ \A i \in DOMAIN ring' : i \in DOMAIN ring /\ ring'[i].status = "pending" /\ Follows(i, i)
           /\ PointsOf(ring') = PointsOf(ring) /\ (Apart(ring) => Apart(ring'))
<1>1. /\ ring' = [i \in DOMAIN ring |-> [ring[i] EXCEPT !.status = "pending"]]
      /\ flush'.points = <<>>
  BY DEF MarkFailed, Idle
<1>2. \A i \in DOMAIN ring : ring[i] \in Records
  BY RingIs
<1>3. \A i \in DOMAIN ring : /\ ring'[i] \in Records /\ ring'[i].status = "pending"
                             /\ ring'[i].row = ring[i].row /\ ring'[i].point = ring[i].point
  BY <1>1, <1>2 DEF Records
<1>4. DOMAIN ring' = DOMAIN ring /\ ring' = [i \in DOMAIN ring |-> ring'[i]]
  BY <1>1
<1>5. /\ ring' \in Seq(Records) /\ Len(ring') <= MaxRing
      /\ PointsOf(ring') = PointsOf(ring) /\ (Apart(ring) => Apart(ring'))
      /\ \A i \in DOMAIN ring' : i \in DOMAIN ring
           /\ \A j \in DOMAIN ring' : j < i => \E m \in DOMAIN ring : m < i /\ ring'[j].point = ring[m].point
  BY <1>3, <1>4, Relabelled
<1>6. \A i \in DOMAIN ring' : Follows(i, i)
  BY <1>1, <1>3, <1>5, Nothing DEF Follows
<1>7. QED
  BY <1>3, <1>5, <1>6

(* What was marked leaves the ring.                                        *)
LEMMA MarkSyncedIs ==
    ASSUME TypeOK, MarkSynced
    PROVE  /\ ring' \in Seq(Records) /\ Len(ring') <= MaxRing
           /\ \A i \in DOMAIN ring' : \E k \in DOMAIN ring :
                ring'[i] = ring[k] /\ ring'[i].status = "pending" /\ Follows(i, k)
           /\ PointsOf(ring') \subseteq PointsOf(ring)
           /\ \A i \in DOMAIN ring : ring[i].status # "syncing" => ring[i].point \in PointsOf(ring')
           /\ Apart(ring) => Apart(ring')
<1> DEFINE S == {r \in ToSet(ring) : r.status # "syncing"}
<1>1. /\ ring \in Seq(Records) /\ DOMAIN ring = 1..Len(ring) /\ Len(ring) \in Nat /\ Len(ring) <= MaxRing
      /\ \A i \in DOMAIN ring : ring[i].status \in {"pending", "syncing"}
  BY RingIs
<1>2. ring' = Filter(ring, S) /\ flush'.points = flush.points
  <2>1. flush \in [pc : {"write", "mark", "fail", "delete"}, rows : Seq(Nat), points : Seq(Points \ Bad)]
    BY DEF TypeOK, MarkSynced, Idle
  <2>2. QED
    BY <2>1 DEF MarkSynced
<1>3. \A i \in DOMAIN ring : (ring[i] \in S) <=> (ring[i].status # "syncing")
  BY DEF ToSet
<1> HIDE DEF S
<1>4. /\ ring' \in Seq(Records) /\ Len(ring') <= Len(ring)
      /\ \A i \in 1..Len(ring) : ring[i] \in S => \E k \in 1..Len(ring') : ring'[k] = ring[i]
  BY <1>1, <1>2, FilterHas
<1>5. PICK at \in [1..Len(ring') -> 1..Len(ring)] :
        /\ \A k \in 1..Len(ring') : ring'[k] = ring[at[k]] /\ ring[at[k]] \in S
        /\ \A j, k \in 1..Len(ring') : (j < k => at[j] < at[k]) /\ (at[j] = at[k] => j = k)
  BY <1>1, <1>2, FilterAt
<1>6. DOMAIN ring' = 1..Len(ring') /\ Len(ring') \in Nat
  BY <1>4
<1>7. ASSUME NEW i \in DOMAIN ring'
      PROVE  at[i] \in DOMAIN ring /\ ring'[i] = ring[at[i]] /\ ring'[i].status = "pending" /\ Follows(i, at[i])
  <2>1. at[i] \in DOMAIN ring /\ ring'[i] = ring[at[i]] /\ ring[at[i]].status = "pending"
    BY <1>1, <1>3, <1>5, <1>6
  <2>2. ASSUME NEW j \in DOMAIN ring', j < i
        PROVE  \E m \in DOMAIN ring : m < at[i] /\ ring'[j].point = ring[m].point
    BY <1>1, <1>5, <1>6, <2>2
  <2>3. QED
    BY <1>2, <2>1, <2>2 DEF Follows
<1>8. PointsOf(ring') \subseteq PointsOf(ring)
  BY <1>7 DEF PointsOf
<1>9. ASSUME NEW i \in DOMAIN ring, ring[i].status # "syncing"
      PROVE  ring[i].point \in PointsOf(ring')
  BY <1>1, <1>3, <1>4, <1>6, <1>9 DEF PointsOf
<1>10. Apart(ring) => Apart(ring')
  BY <1>5, <1>6, <1>7 DEF Apart
<1>11. Len(ring') <= MaxRing
  <2>1. Len(ring') \in Nat /\ Len(ring) \in Nat /\ Len(ring') <= Len(ring) /\ Len(ring) <= MaxRing /\ MaxRing \in Nat
    BY <1>1, <1>4, <1>6, Bounds
  <2>2. QED
    BY <2>1
<1>12. QED
  BY <1>4, <1>7, <1>8, <1>9, <1>10, <1>11

(* The flush takes what is pending in its order: what has a value and is   *)
(* left comes after it.                                                    *)
LEMMA ChosenFirst ==
    ASSUME TypeOK, NEW i \in Pending, i \notin Chosen, ring[i].point \notin Bad, NEW c \in Chosen
    PROVE  c < i
<1> DEFINE upto(k) == {j \in Pending : j <= k}
<1>1. /\ DOMAIN ring = 1..Len(ring) /\ Len(ring) \in Nat /\ Pending \subseteq DOMAIN ring
      /\ Batch \in Nat /\ c \in Pending
  BY RingIs, Bounds DEF Pending, Chosen
<1>2. Cardinality(upto(c)) <= Batch /\ ~(Cardinality(upto(i)) <= Batch)
  BY DEF Chosen
<1>3. SUFFICES ASSUME i <= c PROVE FALSE
  BY <1>1
<1>4. upto(i) \subseteq upto(c)
  <2>1. \A j \in Pending : j \in Nat /\ i \in Nat /\ c \in Nat
    BY <1>1
  <2>2. QED
    BY <1>3, <2>1
<1>5. IsFiniteSet(upto(c)) /\ IsFiniteSet(upto(i))
  <2>1. IsFiniteSet(1..Len(ring)) /\ upto(c) \subseteq 1..Len(ring) /\ upto(i) \subseteq 1..Len(ring)
    BY <1>1, UpTo
  <2> HIDE DEF upto
  <2>2. QED
    BY <2>1, FS_Subset
<1> HIDE DEF upto
<1>6. Cardinality(upto(i)) <= Cardinality(upto(c)) /\ Cardinality(upto(i)) \in Nat /\ Cardinality(upto(c)) \in Nat
  BY <1>4, <1>5, FS_Subset, FS_CardinalityType
<1>7. QED
  BY <1>1, <1>2, <1>6

LEMMA TakeIs ==
    ASSUME TypeOK, Take
    PROVE  /\ ring' \in Seq(Records) /\ Len(ring') <= MaxRing
           /\ PointsOf(ring') = PointsOf(ring) /\ (Apart(ring) => Apart(ring'))
           /\ flush' \in [pc : {"write"}, rows : Seq(Nat), points : Seq(Points \ Bad)]
           /\ Len(flush'.rows) = Len(flush'.points)
           /\ \A j \in DOMAIN flush'.rows : \E i \in DOMAIN ring :
                flush'.rows[j] = ring[i].row /\ flush'.points[j] = ring[i].point /\ ring[i].point \notin Bad
           /\ ToSet(flush'.points) = {ring[i].point : i \in Chosen} /\ Chosen \subseteq DOMAIN ring
           /\ \A i \in DOMAIN ring' : /\ i \in DOMAIN ring /\ ring'[i].point = ring[i].point
                                      /\ ring'[i].row = ring[i].row
                                      /\ ring'[i].status = IF i \in Chosen THEN "syncing" ELSE ring[i].status
                                      /\ (ring[i].point \notin Bad => Follows(i, i))
<1> DEFINE all == [i \in DOMAIN ring |-> i]
           records == Filter(all, Chosen)
<1>1. /\ DOMAIN ring = 1..Len(ring) /\ Len(ring) \in Nat
      /\ \A i \in DOMAIN ring : ring[i] \in Records /\ ring[i].row \in Nat /\ ring[i].point \in Points
                                /\ ring[i].status \in {"pending", "syncing"}
  BY RingIs
<1>2. Chosen \subseteq DOMAIN ring /\ \A i \in Chosen : ring[i].point \in Points \ Bad
  BY <1>1 DEF Chosen, Pending
<1>3. all \in Seq(DOMAIN ring) /\ ToSet(all) = DOMAIN ring
  <2>1. all \in [1..Len(ring) -> DOMAIN ring]
    BY <1>1
  <2>2. QED
    BY <1>1, <2>1 DEF ToSet
<1> HIDE DEF all
<1>4. records \in Seq(DOMAIN ring) /\ ToSet(records) = Chosen
  <2> DEFINE T == DOMAIN ring
  <2>1. all \in Seq(T)
    BY <1>3
  <2> HIDE DEF T
  <2>2. records \in Seq(T) /\ ToSet(records) = ToSet(all) \cap Chosen
    BY <2>1, Filtered
  <2>3. QED
    BY <1>2, <1>3, <2>2 DEF T
<1>5. /\ flush' = [pc     |-> "write",
                   rows   |-> [i \in DOMAIN records |-> ring[records[i]].row],
                   points |-> [i \in DOMAIN records |-> ring[records[i]].point]]
      /\ ring' = [i \in DOMAIN ring |-> IF i \in Chosen THEN [ring[i] EXCEPT !.status = "syncing"] ELSE ring[i]]
      /\ flush.pc = "sleep"
  BY DEF Take, all
<1> HIDE DEF records
<1>6. /\ DOMAIN records = 1..Len(records) /\ Len(records) \in Nat
      /\ \A j \in DOMAIN records : records[j] \in Chosen
      /\ \A i \in Chosen : \E j \in DOMAIN records : records[j] = i
  BY <1>4, Listed
<1>7. \A j \in DOMAIN records : /\ records[j] \in DOMAIN ring /\ ring[records[j]].row \in Nat
                                /\ ring[records[j]].point \in Points \ Bad
  BY <1>1, <1>2, <1>6
<1>8. /\ flush'.rows \in [1..Len(records) -> Nat] /\ flush'.points \in [1..Len(records) -> Points \ Bad]
      /\ \A j \in DOMAIN records : flush'.rows[j] = ring[records[j]].row /\ flush'.points[j] = ring[records[j]].point
  BY <1>5, <1>6, <1>7
<1>9. /\ flush'.rows \in Seq(Nat) /\ flush'.points \in Seq(Points \ Bad)
      /\ Len(flush'.rows) = Len(records) /\ Len(flush'.points) = Len(records)
      /\ DOMAIN flush'.rows = DOMAIN records /\ DOMAIN flush'.points = DOMAIN records
  BY <1>6, <1>8
<1>10. flush' \in [pc : {"write"}, rows : Seq(Nat), points : Seq(Points \ Bad)]
  BY <1>5, <1>9
<1>11. \A j \in DOMAIN flush'.rows : \E i \in DOMAIN ring :
         flush'.rows[j] = ring[i].row /\ flush'.points[j] = ring[i].point /\ ring[i].point \notin Bad
  BY <1>7, <1>8, <1>9
<1>12. ToSet(flush'.points) = {ring[i].point : i \in Chosen}
  <2>1. ToSet(flush'.points) = {flush'.points[j] : j \in DOMAIN records}
    BY <1>9 DEF ToSet
  <2>2. \A j \in DOMAIN records : records[j] \in Chosen /\ flush'.points[j] = ring[records[j]].point
    BY <1>6, <1>8
  <2>3. \A i \in Chosen : \E j \in DOMAIN records : flush'.points[j] = ring[i].point
    BY <1>6, <1>8
  <2>4. QED
    BY <2>1, <2>2, <2>3
<1>13. \A i \in DOMAIN ring : /\ ring'[i] \in Records
                              /\ ring'[i].row = ring[i].row /\ ring'[i].point = ring[i].point
                              /\ ring'[i].status = IF i \in Chosen THEN "syncing" ELSE ring[i].status
  <2>1. SUFFICES ASSUME NEW i \in DOMAIN ring
                 PROVE  /\ ring'[i] \in Records
                        /\ ring'[i].row = ring[i].row /\ ring'[i].point = ring[i].point
                        /\ ring'[i].status = IF i \in Chosen THEN "syncing" ELSE ring[i].status
    OBVIOUS
  <2>2. ring[i] \in Records
    BY <1>1
  <2>3. CASE i \in Chosen
    <3>1. ring'[i] = [ring[i] EXCEPT !.status = "syncing"]
      BY <1>5, <2>3
    <3>2. QED
      BY <2>2, <2>3, <3>1 DEF Records
  <2>4. CASE i \notin Chosen
    BY <1>5, <2>2, <2>4
  <2>5. QED
    BY <2>3, <2>4
<1>14. DOMAIN ring' = DOMAIN ring /\ ring' = [i \in DOMAIN ring |-> ring'[i]]
  BY <1>5
<1>15. /\ ring' \in Seq(Records) /\ Len(ring') <= MaxRing
       /\ PointsOf(ring') = PointsOf(ring) /\ (Apart(ring) => Apart(ring'))
       /\ \A i \in DOMAIN ring' : i \in DOMAIN ring
            /\ \A j \in DOMAIN ring' : j < i => \E m \in DOMAIN ring : m < i /\ ring'[j].point = ring[m].point
  BY <1>13, <1>14, Relabelled
<1>16. ASSUME NEW i \in DOMAIN ring', ring[i].point \notin Bad
       PROVE  Follows(i, i)
  <2>1. ASSUME ring'[i].status = "pending", NEW q \in ToSet(flush'.points)
        PROVE  \E m \in DOMAIN ring : m < i /\ ring[m].point = q
    <3>1. i \in Pending /\ i \notin Chosen
      BY <1>13, <1>14, <2>1 DEF Pending
    <3>2. PICK c \in Chosen : ring[c].point = q
      BY <1>12, <2>1
    <3>3. c < i
      BY <1>16, <3>1, <3>2, ChosenFirst
    <3>4. QED
      BY <1>2, <3>2, <3>3
  <2>2. QED
    BY <1>13, <1>14, <1>15, <2>1 DEF Follows
<1>17. QED
  BY <1>2, <1>9, <1>10, <1>11, <1>12, <1>13, <1>14, <1>15, <1>16

-----------------------------------------------------------------------------
(* The collection loops.                                                   *)

Loops == {Sleeping} \cup [pc : {"write", "cache", "ring"}, point : Points, row : Nat]

LEMMA LoopIs ==
    ASSUME TypeOK, NEW d \in Devices
    PROVE  /\ loop[d] \in Loops /\ loop[d].row \in Nat
           /\ loop[d].pc = "sleep" <=> loop[d] = Sleeping
           /\ loop[d] # Sleeping => /\ loop[d] \in [pc : {"write", "cache", "ring"}, point : Points, row : Nat]
                                    /\ loop[d].point \in InHand /\ loop[d].point \in Points /\ loop[d].point # 0
                                    /\ loop[d].point \in 1..read
<1>1. loop[d] \in Loops
  BY DEF TypeOK, Loops
<1>2. loop[d].row \in Nat /\ (loop[d].pc = "sleep" <=> loop[d] = Sleeping)
  BY <1>1 DEF Loops, Sleeping
<1>3. ASSUME loop[d] # Sleeping
      PROVE  /\ loop[d] \in [pc : {"write", "cache", "ring"}, point : Points, row : Nat]
             /\ loop[d].point \in InHand /\ loop[d].point \in Points /\ loop[d].point # 0
  <2>1. loop[d] \in [pc : {"write", "cache", "ring"}, point : Points, row : Nat]
    BY <1>1, <1>3 DEF Loops
  <2>2. loop[d].point \in Points /\ loop[d].point # 0
    BY <2>1 DEF Points
  <2>3. QED
    BY <2>1, <2>2 DEF InHand
<1>4. InHand \subseteq 1..read
  BY DEF TypeOK, Places, InMemory
<1>5. QED
  BY <1>1, <1>2, <1>3, <1>4

LEMMA LoopMoves ==
    ASSUME TypeOK, OneLoop, NEW d \in Devices, NEW l \in Loops, loop' = [loop EXCEPT ![d] = l],
           l = Sleeping \/ (loop[d] # Sleeping /\ l.point = loop[d].point) \/ l.point \notin InHand
    PROVE  /\ loop' \in [Devices -> Loops]
           /\ loop'[d] = l /\ \A e \in Devices : e # d => loop'[e] = loop[e]
           /\ \A e, f \in Devices : e # f /\ loop'[e] # Sleeping => loop'[e].point # loop'[f].point
           /\ InHand' \subseteq InHand \cup {l.point} /\ (l = Sleeping => InHand' \subseteq InHand)
           /\ InHand \subseteq InHand' \cup {loop[d].point}
           /\ l # Sleeping => l.point \in InHand'
           /\ l.pc # "ring" => Waiting' \subseteq Waiting
<1>1. loop \in [Devices -> Loops]
  BY DEF TypeOK, Loops
<1>2. /\ loop' \in [Devices -> Loops]
      /\ loop'[d] = l /\ \A e \in Devices : e # d => loop'[e] = loop[e]
  BY <1>1
<1>3. \A k \in Loops : k # Sleeping => k.point # 0
  BY DEF Loops, Points
<1>4. Sleeping.point = 0
  BY DEF Sleeping
<1>5. \A e, f \in Devices : e # f /\ loop'[e] # Sleeping => loop'[e].point # loop'[f].point
  <2>1. SUFFICES ASSUME NEW e \in Devices, NEW f \in Devices, e # f, loop'[e] # Sleeping
                 PROVE  loop'[e].point # loop'[f].point
    OBVIOUS
  <2>2. \A x, y \in Devices : x # y /\ loop[x] # Sleeping => loop[x].point # loop[y].point
    BY DEF OneLoop
  <2>3. \A x \in Devices : loop[x] # Sleeping => loop[x].point \in InHand
    BY LoopIs
  <2>4. loop'[e].point # 0
    BY <1>2, <1>3, <2>1
  <2>5. CASE loop'[f] = Sleeping
    BY <1>4, <2>4, <2>5
  <2>6. CASE loop'[f] # Sleeping /\ e # d /\ f # d
    BY <1>2, <2>1, <2>2, <2>6
  <2>7. CASE loop'[f] # Sleeping /\ e = d
    BY <1>2, <2>1, <2>2, <2>3, <2>7
  <2>8. CASE loop'[f] # Sleeping /\ f = d
    BY <1>2, <2>1, <2>2, <2>3, <2>8
  <2>9. QED
    BY <2>5, <2>6, <2>7, <2>8
<1>6. InHand' = {loop'[e].point : e \in Devices} \ {0} /\ InHand = {loop[e].point : e \in Devices} \ {0}
  BY DEF InHand
<1>7. /\ InHand' \subseteq InHand \cup {l.point} /\ (l = Sleeping => InHand' \subseteq InHand)
      /\ InHand \subseteq InHand' \cup {loop[d].point}
  BY <1>2, <1>4, <1>6
<1>8. l # Sleeping => l.point \in InHand'
  BY <1>2, <1>3, <1>6
<1>9. l.pc # "ring" => Waiting' \subseteq Waiting
  BY <1>2 DEF Waiting
<1>10. QED
  BY <1>2, <1>5, <1>7, <1>8, <1>9

LEMMA GotoIs ==
    ASSUME TypeOK, NEW d \in Devices, loop[d] # Sleeping, NEW pc \in {"write", "cache", "ring"}, Goto(d, pc)
    PROVE  \E l \in Loops : /\ loop' = [loop EXCEPT ![d] = l] /\ l # Sleeping /\ l.pc = pc
                            /\ l.point = loop[d].point /\ l.row = loop[d].row
<1>1. loop[d] \in [pc : {"write", "cache", "ring"}, point : Points, row : Nat]
  BY LoopIs
<1>2. [loop[d] EXCEPT !.pc = pc] \in Loops
  BY <1>1 DEF Loops
<1>3. loop' = [loop EXCEPT ![d] = [loop[d] EXCEPT !.pc = pc]]
  BY DEF Goto, TypeOK
<1>4. QED
  BY <1>1, <1>2, <1>3 DEF Sleeping

-----------------------------------------------------------------------------
(* Every step keeps the invariant, and is one of three kinds of step of    *)
(* the path: a point comes in, some are confirmed, some are given up.      *)

Lost == dropped \cup pushed \cup skipped

TakesIn ==
    /\ written' = written /\ Lost' = Lost
    /\ Places' = Places \cup {read + 1} /\ read + 1 \in Points /\ read' = read + 1

Confirms ==
    /\ written \subseteq written' /\ written' \subseteq written \cup Places
    /\ Places' \subseteq Places /\ Places \ Places' \subseteq written'
    /\ Lost \subseteq Lost' /\ Lost' \ (Places' \cup written') = Lost \ (Places' \cup written')
    /\ read' = read

GivesUp ==
    /\ written' = written /\ Places' \subseteq Places
    /\ Lost \subseteq Lost' /\ Lost' \subseteq Lost \cup Places \cup written
    /\ Places \ Places' \subseteq Lost' \cup written
    /\ read' = read

Flow == TakesIn \/ Confirms \/ GivesUp

LEMMA StoreStays ==
    ASSUME SameRow, cached' = cached, ring' = ring, flush'.rows = flush.rows, flush'.points = flush.points,
           \A d \in Devices : loop'[d].pc = "ring" /\ loop'[d].row # 0 => loop'[d] = loop[d]
    PROVE  SameRow'
<1>1. Table' = Table
  BY DEF Table
<1>2. \A d \in Devices : loop'[d].pc = "ring" /\ loop'[d].row # 0 =>
        [id |-> loop'[d].row, point |-> loop'[d].point] \in Table
  BY DEF SameRow
<1>3. \A j \in DOMAIN flush.rows : flush.rows[j] # 0 => Means(flush.rows[j], flush.points[j])
  BY DEF SameRow
<1>4. \A j \in DOMAIN flush'.rows : flush'.rows[j] # 0 => Means(flush.rows[j], flush.points[j])'
  BY <1>1, <1>3 DEF Means
<1>5. ASSUME NEW i \in DOMAIN ring PROVE HasRow(i)'
  <2>1. HasRow(i)
    BY <1>5 DEF SameRow
  <2>2. QED
    BY <1>1, <2>1 DEF HasRow, Means, Outlasts
<1>6. QED
  BY <1>1, <1>2, <1>4, <1>5 DEF SameRow

(* A loop moves on, to the ring without a row, and leaves the rest alone.  *)
LEMMA LoopStep ==
    ASSUME IInv, NEW d \in Devices, NEW l \in Loops, loop' = [loop EXCEPT ![d] = l],
           UNCHANGED <<cache, flush, restarts, strayed>>,
           \/ l = Sleeping
           \/ loop[d] # Sleeping /\ l.point = loop[d].point
           \/ loop[d] = Sleeping /\ l.point \notin Places,
           l.pc \in {"write", "cache"} => l.row = 0 /\ (loop[d].pc \in {"write", "cache"} \/ l.point \notin Places),
           l.pc = "ring" => l.row = 0 /\ loop[d].pc = "cache" /\ l.point = loop[d].point,
           available' \in BOOLEAN, fails' \in 0..MaxFails, read' \in 0..MaxPoints, read <= read',
           l # Sleeping => l.point \in 1..read',
           written \subseteq written', written' \ written \subseteq 1..read' \ Unfit,
           skipped \subseteq skipped', skipped' \ skipped \subseteq 1..read' \cap Unfit,
           dropped \subseteq dropped', dropped' \subseteq 1..read',
           l = Sleeping => loop[d].point \in Settled' \cup dropped'
    PROVE  /\ IInv'
           /\ Places' \subseteq Places \cup {l.point} /\ (l = Sleeping => Places' \subseteq Places)
           /\ Places \subseteq Places' \cup {loop[d].point} /\ (l # Sleeping => l.point \in Places')
<1> DEFINE Stored == PointsOf(cached) \cup PointsOf(ring) \cup ToSet(flush.points)
<1>1. TypeOK /\ Counted /\ OneLoop /\ InStep /\ CachedIsKept /\ (strayed = {} => OnePlace /\ SameRow)
  BY DEF IInv
<1>2. cached' = cached /\ ring' = ring /\ flush' = flush /\ count' = count /\ saved' = saved /\ pushed' = pushed
      /\ strayed' = strayed /\ restarts' = restarts
  BY DEF cache
<1>3. Places = InHand \cup Stored
  BY DEF Places, InMemory
<1>4. Stored' = Stored /\ Places' = InHand' \cup Stored
  BY <1>2 DEF Places, InMemory
<1>5. l.point \notin Places => l.point \notin InHand
  BY <1>3
<1>6. /\ loop' \in [Devices -> Loops]
      /\ loop'[d] = l /\ \A e \in Devices : e # d => loop'[e] = loop[e]
      /\ \A e, f \in Devices : e # f /\ loop'[e] # Sleeping => loop'[e].point # loop'[f].point
      /\ InHand' \subseteq InHand \cup {l.point} /\ (l = Sleeping => InHand' \subseteq InHand)
      /\ InHand \subseteq InHand' \cup {loop[d].point}
      /\ l # Sleeping => l.point \in InHand'
  BY <1>1, <1>5, LoopMoves
<1>7. Places' \subseteq Places \cup {l.point} /\ (l = Sleeping => Places' \subseteq Places)
      /\ Places \subseteq Places' \cup {loop[d].point} /\ (l # Sleeping => l.point \in Places')
  BY <1>3, <1>4, <1>6
<1>8. 1..read \subseteq 1..read'
  <2>1. read \in Nat /\ read' \in Nat
    BY <1>1, Bounds DEF TypeOK
  <2>2. QED
    BY <2>1
<1>9. TypeOK'
  <2>1. Places \cup written \cup skipped \cup saved \cup pushed \cup strayed \cup dropped \subseteq 1..read
    BY <1>1 DEF TypeOK
  <2>2. Places' \cup written' \cup skipped' \cup saved' \cup pushed' \cup strayed' \cup dropped' \subseteq 1..read'
    BY <1>2, <1>7, <1>8, <2>1
  <2>3. written' \cap Unfit = {} /\ skipped' \subseteq Unfit
    BY <1>1 DEF TypeOK
  <2>4. QED
    BY <1>1, <1>2, <1>6, <2>2, <2>3 DEF TypeOK, Loops
<1>10. OneLoop'
  <2>1. Apart(cached)'
    BY <1>1, <1>2 DEF OneLoop, Apart
  <2>2. ASSUME NEW e \in Devices, loop'[e].pc \in {"write", "cache"}
        PROVE  loop'[e].row = 0 /\ loop'[e].point \notin Stored
    <3>1. \A f \in Devices : loop[f].pc \in {"write", "cache"} => loop[f].row = 0 /\ loop[f].point \notin Stored
      BY <1>1 DEF OneLoop
    <3>2. CASE e # d
      BY <1>6, <2>2, <3>1, <3>2
    <3>3. CASE e = d
      <4>1. l # Sleeping
        BY <1>6, <2>2, <3>3 DEF Sleeping
      <4>2. QED
        BY <1>3, <1>6, <2>2, <3>1, <3>3, <4>1
    <3>4. QED
      BY <3>2, <3>3
  <2>3. QED
    BY <1>2, <1>6, <2>1, <2>2 DEF OneLoop
<1>11. InStep'
  <2>1. InHand \subseteq InHand' \cup Settled' \cup dropped' \cup {0}
    <3>1. l # Sleeping => loop[d].point \in InHand' \/ loop[d].point = 0 \/ loop[d] = Sleeping
      BY <1>1, <1>6, LoopIs
    <3>2. loop[d] = Sleeping => loop[d].point = 0
      BY DEF Sleeping
    <3>3. QED
      BY <1>6, <3>1, <3>2
  <2>2. 0 \notin InHand
    BY DEF InHand
  <2>3. InMemory = InHand \cup PointsOf(ring) \cup ToSet(flush.points)
        /\ InMemory' = InHand' \cup PointsOf(ring) \cup ToSet(flush.points)
    BY <1>2 DEF InMemory
  <2>4. InMemory \subseteq InMemory' \cup Settled' \cup dropped' /\ Settled \subseteq Settled'
    BY <2>1, <2>2, <2>3 DEF Settled
  <2>5. QED
    BY <1>1, <1>2, <2>4 DEF InStep
<1>12. ASSUME strayed' = {} PROVE OnePlace' /\ SameRow'
  <2>1. OnePlace /\ SameRow
    BY <1>1, <1>2, <1>12
  <2>2. \A e \in Devices : loop'[e].pc = "ring" /\ loop'[e].row # 0 => loop'[e] = loop[e]
    BY <1>6
  <2>3. SameRow'
    BY <1>2, <2>1, <2>2, StoreStays
  <2>4. \A e \in Devices : loop'[e].pc = "ring" => loop'[e].point \notin PointsOf(ring) \cup ToSet(flush.points)
    BY <1>1, <1>6, <2>1 DEF OnePlace, OneLoop
  <2>5. QED
    BY <1>2, <2>1, <2>3, <2>4 DEF OnePlace, Apart
<1>13. Counted' /\ CachedIsKept'
  BY <1>1, <1>2 DEF Counted, CachedIsKept
<1>14. QED
  BY <1>7, <1>9, <1>10, <1>11, <1>12, <1>13 DEF IInv

LEMMA CollectStep ==
    ASSUME IInv, NEW d \in Devices, Collect(d)
    PROVE  IInv' /\ TakesIn
<1> DEFINE l == [pc |-> IF available THEN "write" ELSE "cache", point |-> read + 1, row |-> 0]
<1>1. /\ TypeOK /\ read \in Nat /\ MaxPoints \in Nat /\ read < MaxPoints /\ read' = read + 1
      /\ Places \cup written \cup dropped \subseteq 1..read
      /\ available \in BOOLEAN /\ fails \in 0..MaxFails
  BY Bounds DEF IInv, TypeOK, Collect
<1>2. read + 1 \in Points /\ read + 1 \notin Places /\ 1..read \subseteq 1..read'
      /\ read' \in 0..MaxPoints /\ read <= read' /\ read + 1 \in 1..read'
  BY <1>1 DEF Points
<1>3. /\ loop' = [loop EXCEPT ![d] = l]
      /\ UNCHANGED <<influx, cache, flush, restarts, strayed, dropped>>
      /\ loop[d].pc = "sleep"
  BY DEF Collect
<1>4. l \in Loops /\ l.pc \in {"write", "cache"} /\ l.row = 0 /\ l.point = read + 1 /\ l # Sleeping
  BY <1>1, <1>2 DEF Loops, Sleeping
<1>5. loop[d] = Sleeping /\ loop[d].point = 0
  BY <1>1, <1>3, LoopIs DEF Sleeping
<1>6. /\ available' \in BOOLEAN /\ fails' \in 0..MaxFails
      /\ written' = written /\ skipped' = skipped /\ dropped' = dropped
      /\ dropped' \subseteq 1..read'
  BY <1>1, <1>2, <1>3 DEF influx
<1> HIDE DEF l
<1>7. /\ IInv'
      /\ Places' \subseteq Places \cup {l.point}
      /\ Places \subseteq Places' \cup {loop[d].point} /\ l.point \in Places'
  BY <1>2, <1>3, <1>4, <1>5, <1>6, LoopStep
<1>8. 0 \notin Places
  BY <1>1
<1>9. Places' = Places \cup {read + 1}
  BY <1>4, <1>5, <1>7, <1>8
<1>10. QED
  BY <1>1, <1>2, <1>3, <1>6, <1>7, <1>9 DEF TakesIn, Lost, cache

LEMMA WriteStep ==
    ASSUME IInv, NEW d \in Devices, Write(d)
    PROVE  IInv' /\ (Confirms \/ GivesUp)
<1> DEFINE p == loop[d].point
<1>1. /\ TypeOK /\ read \in 0..MaxPoints /\ read \in Nat
      /\ Places \cup written \cup dropped \subseteq 1..read
      /\ available \in BOOLEAN /\ fails \in 0..MaxFails /\ MaxFails \in Nat
  BY Bounds DEF IInv, TypeOK
<1>2. /\ loop[d].pc = "write" /\ UNCHANGED <<cache, flush, restarts, strayed, dropped>> /\ read' = read
  BY DEF Write
<1>3. loop[d] # Sleeping /\ p \in Places /\ p \in 1..read /\ loop[d].row = 0
  BY <1>1, <1>2, LoopIs DEF Sleeping, IInv, OneLoop, Places, InMemory
<1>4. ToSet(<<p>>) = {p}
  BY DEF ToSet
<1>5. Lost = dropped \cup pushed \cup skipped /\ Lost' = dropped \cup pushed \cup skipped'
  BY <1>2 DEF Lost, cache
<1>6. CASE WriteOk(<<p>>) /\ Done(d)
  <2>1. /\ written' = written \cup ({p} \ Unfit) /\ skipped' = skipped \cup ({p} \cap Unfit)
        /\ fails' \in 0..MaxFails /\ available' = available
        /\ loop' = [loop EXCEPT ![d] = Sleeping]
    BY <1>1, <1>4, <1>6 DEF WriteOk, Done
  <2>2. Sleeping \in Loops /\ Sleeping.pc = "sleep"
    BY DEF Loops, Sleeping
  <2>3. /\ written \subseteq written' /\ written' \ written \subseteq 1..read' \ Unfit
        /\ skipped \subseteq skipped' /\ skipped' \ skipped \subseteq 1..read' \cap Unfit
        /\ dropped \subseteq dropped' /\ dropped' \subseteq 1..read' /\ p \in Settled'
    BY <1>1, <1>2, <1>3, <2>1 DEF Settled
  <2>4. IInv' /\ Places' \subseteq Places /\ Places \subseteq Places' \cup {p}
    <3>1. available' \in BOOLEAN /\ fails' \in 0..MaxFails /\ read' \in 0..MaxPoints /\ read <= read'
      BY <1>1, <1>2, <2>1
    <3>2. QED
      BY <1>2, <2>1, <2>2, <2>3, <3>1, LoopStep
  <2>5. CASE p \in Unfit
    BY <1>2, <1>3, <1>5, <2>1, <2>4, <2>5 DEF GivesUp
  <2>6. CASE p \notin Unfit
    BY <1>2, <1>3, <1>5, <2>1, <2>4, <2>6 DEF Confirms
  <2>7. QED
    BY <2>4, <2>5, <2>6
<1>7. CASE WriteFails(<<p>>) /\ Goto(d, "cache")
  <2>1. /\ written \subseteq written' /\ written' \subseteq written \cup ({p} \ Unfit) /\ skipped' = skipped
        /\ fails' \in 0..MaxFails /\ available' \in BOOLEAN
    BY <1>1, <1>4, <1>7 DEF WriteFails
  <2>2. PICK l \in Loops : /\ loop' = [loop EXCEPT ![d] = l] /\ l # Sleeping /\ l.pc = "cache"
                           /\ l.point = p /\ l.row = 0
    BY <1>1, <1>3, <1>7, GotoIs
  <2>3. /\ written' \ written \subseteq 1..read' \ Unfit
        /\ skipped \subseteq skipped' /\ skipped' \ skipped \subseteq 1..read' \cap Unfit
        /\ dropped \subseteq dropped' /\ dropped' \subseteq 1..read' /\ l.point \in 1..read'
    BY <1>1, <1>2, <1>3, <2>1, <2>2
  <2>4. IInv' /\ Places' \subseteq Places \cup {p} /\ Places \subseteq Places' \cup {p} /\ p \in Places'
    <3>1. available' \in BOOLEAN /\ fails' \in 0..MaxFails /\ read' \in 0..MaxPoints /\ read <= read'
      BY <1>1, <1>2, <2>1
    <3>2. QED
      BY <1>2, <1>3, <2>1, <2>2, <2>3, <3>1, LoopStep
  <2>5. QED
    BY <1>2, <1>3, <1>5, <2>1, <2>4 DEF Confirms
<1>8. QED
  BY <1>6, <1>7 DEF Write

LEMMA CancelStep ==
    ASSUME IInv, NEW d \in Devices, Cancel(d)
    PROVE  IInv' /\ (Confirms \/ GivesUp)
<1> DEFINE p == loop[d].point
<1>1. /\ TypeOK /\ read \in 0..MaxPoints /\ read \in Nat
      /\ Places \cup written \cup dropped \subseteq 1..read
      /\ available \in BOOLEAN /\ fails \in 0..MaxFails
  BY Bounds DEF IInv, TypeOK
<1>2. /\ loop[d].pc # "sleep" /\ UNCHANGED <<available, fails, skipped, cache, flush, restarts, strayed>> /\ read' = read
      /\ dropped' = dropped \cup {p} /\ loop' = [loop EXCEPT ![d] = Sleeping]
      /\ written \subseteq written' /\ written' \subseteq written \cup ({p} \ Unfit)
  BY DEF Cancel, Done
<1>3. loop[d] # Sleeping /\ p \in Places /\ p \in 1..read
  BY <1>1, <1>2, LoopIs DEF Sleeping, Places, InMemory
<1>4. Sleeping \in Loops /\ Sleeping.pc = "sleep"
  BY DEF Loops, Sleeping
<1>5. IInv' /\ Places' \subseteq Places /\ Places \subseteq Places' \cup {p}
  <2>1. /\ written' \ written \subseteq 1..read' \ Unfit
        /\ skipped \subseteq skipped' /\ skipped' \ skipped \subseteq 1..read' \cap Unfit
        /\ dropped \subseteq dropped' /\ dropped' \subseteq 1..read' /\ p \in Settled' \cup dropped'
    BY <1>1, <1>2, <1>3
  <2>2. available' \in BOOLEAN /\ fails' \in 0..MaxFails /\ read' \in 0..MaxPoints /\ read <= read'
    BY <1>1, <1>2
  <2>3. QED
    BY <1>1, <1>2, <1>3, <1>4, <2>1, <2>2, LoopStep
<1>6. Lost' = Lost \cup {p}
  BY <1>2 DEF Lost, cache
<1>7. CASE written' = written
  BY <1>2, <1>3, <1>5, <1>6, <1>7 DEF GivesUp
<1>8. CASE written' # written
  <2>1. written' = written \cup {p}
    BY <1>2, <1>8
  <2>2. QED
    BY <1>2, <1>3, <1>5, <1>6, <2>1 DEF Confirms
<1>9. QED
  BY <1>5, <1>7, <1>8

(* What is known of InfluxDB changes, or nothing does.                     *)
LEMMA HealthStep ==
    ASSUME IInv, UNCHANGED <<written, skipped, read, loop, cache, flush, restarts, strayed, dropped>>,
           available' \in BOOLEAN, fails' \in 0..MaxFails
    PROVE  IInv' /\ GivesUp
<1>1. UNCHANGED <<written, skipped, read, loop, cache, flush, restarts, strayed, dropped>>
      /\ available' \in BOOLEAN /\ fails' \in 0..MaxFails
  OBVIOUS
<1>2. /\ PointsOf(cached)' = PointsOf(cached) /\ InHand' = InHand /\ Table' = Table
      /\ InMemory' = InMemory /\ Places' = Places
  <2>1. loop' = loop /\ cached' = cached /\ ring' = ring /\ flush' = flush
    BY <1>1 DEF cache
  <2>2. InHand' = InHand /\ Table' = Table /\ PointsOf(cached)' = PointsOf(cached)
    BY <2>1 DEF InHand, Table
  <2>3. QED
    BY <2>1, <2>2 DEF InMemory, Places
<1>3. TypeOK'
  BY <1>1, <1>2 DEF IInv, TypeOK, cache
<1>4. SameRow => SameRow'
  BY <1>1, StoreStays DEF cache
<1>5. (Counted => Counted') /\ (CachedIsKept => CachedIsKept') /\ Lost' = Lost
  BY <1>1 DEF cache, Counted, CachedIsKept, Lost
<1>6. (OneLoop => OneLoop') /\ (OnePlace => OnePlace')
  BY <1>1 DEF cache, OneLoop, OnePlace, Apart
<1>7. InStep => InStep'
  BY <1>1, <1>2 DEF cache, InStep, Settled
<1>8. GivesUp
  BY <1>1, <1>2, <1>5 DEF GivesUp
<1>9. QED
  BY <1>1, <1>3, <1>4, <1>5, <1>6, <1>7, <1>8 DEF IInv

LEMMA CheckHealthStep ==
    ASSUME IInv, CheckHealth
    PROVE  IInv' /\ GivesUp
<1>1. fails \in 0..MaxFails /\ MaxFails \in Nat
  BY Bounds DEF IInv, TypeOK
<1>2. available' \in BOOLEAN /\ fails' \in 0..MaxFails
  <2>1. fails' = 0 \/ fails' = fails
    BY DEF CheckHealth, Healthy, Unhealthy
  <2>2. available' = TRUE \/ available' = FALSE
    BY DEF CheckHealth, Healthy, Unhealthy
  <2>3. available' \in BOOLEAN
    BY <2>2, Zenon
  <2>4. QED
    BY <1>1, <2>1, <2>3
<1>3. UNCHANGED <<written, skipped, read, loop, cache, flush, restarts, strayed, dropped>>
  BY DEF CheckHealth
<1>4. QED
  BY <1>2, <1>3, HealthStep

-----------------------------------------------------------------------------
(* The steps of the flush loop.                                            *)

LEMMA FlushIs ==
    ASSUME TypeOK
    PROVE  /\ flush.pc \in {"restore", "sleep", "write", "mark", "fail", "delete"}
           /\ flush.pc \in {"restore", "sleep"} => /\ flush.rows = <<>> /\ flush.points = <<>>
                                                   /\ ToSet(flush.points) = {}
           /\ flush.pc \in {"write", "mark", "fail", "delete"} =>
                flush \in [pc : {"write", "mark", "fail", "delete"}, rows : Seq(Nat), points : Seq(Points \ Bad)]
           /\ Len(flush.rows) = Len(flush.points)
           /\ flush.rows \in Seq(Nat) /\ flush.points \in Seq(Points \ Bad)
           /\ \A j \in DOMAIN flush.rows : flush.points[j] \in ToSet(flush.points)
<1>1. /\ flush \in {Idle("restore"), Idle("sleep")}
                   \cup [pc : {"write", "mark", "fail", "delete"}, rows : Seq(Nat), points : Seq(Points \ Bad)]
      /\ Len(flush.rows) = Len(flush.points)
  BY DEF TypeOK
<1>2. CASE flush \in {Idle("restore"), Idle("sleep")}
  <2>1. flush.pc \in {"restore", "sleep"} /\ flush.rows = <<>> /\ flush.points = <<>>
    BY <1>2 DEF Idle
  <2>2. QED
    BY <1>1, <2>1, Nothing
<1>3. CASE flush \in [pc : {"write", "mark", "fail", "delete"}, rows : Seq(Nat), points : Seq(Points \ Bad)]
  <2>1. flush.rows \in Seq(Nat) /\ flush.points \in Seq(Points \ Bad)
    BY <1>3
  <2>2. DOMAIN flush.rows = DOMAIN flush.points
    BY <1>1, <2>1
  <2>3. \A j \in DOMAIN flush.rows : flush.points[j] \in ToSet(flush.points)
    BY <2>2 DEF ToSet
  <2>4. QED
    BY <1>1, <1>3, <2>1, <2>3
<1>4. QED
  BY <1>1, <1>2, <1>3

LEMMA IdleIs == \A pc : Idle(pc).pc = pc /\ Idle(pc).rows = <<>> /\ Idle(pc).points = <<>>
BY DEF Idle

(* The flush loop works on the ring.                                       *)
LEMMA MarkStep ==
    ASSUME IInv, UNCHANGED <<written, skipped, read, loop, cached, count, saved, pushed, restarts, strayed, dropped>>,
           available' \in BOOLEAN, fails' \in 0..MaxFails,
           ring' \in Seq(Records), Len(ring') <= MaxRing,
           flush' \in {Idle("restore"), Idle("sleep")}
                 \cup [pc : {"write", "mark", "fail", "delete"}, rows : Seq(Nat), points : Seq(Points \ Bad)],
           Len(flush'.rows) = Len(flush'.points),
           PointsOf(ring') \subseteq PointsOf(ring),
           ToSet(flush'.points) \subseteq ToSet(flush.points) \cup PointsOf(ring),
           PointsOf(ring) \cup ToSet(flush.points)
             \subseteq PointsOf(ring') \cup ToSet(flush'.points) \cup Settled \cup dropped,
           Apart(ring) => Apart(ring'),
           flush'.pc \in {"restore", "sleep", "delete"} => \A i \in DOMAIN ring' : ring'[i].status = "pending",
           \A i \in DOMAIN ring' : ring'[i].status = "syncing" => ring'[i].point \in ToSet(flush'.points),
           flush'.pc \in {"mark", "delete"} => ToSet(flush'.points) \subseteq Settled,
           ToSet(flush'.points) \subseteq PointsOf(ring') \cup dropped \cup Settled,
           OnePlace => \A i \in DOMAIN ring' : ring'[i].status = "pending" => ring'[i].point \notin ToSet(flush'.points),
           SameRow => \A j \in DOMAIN flush'.rows : flush'.rows[j] # 0 => Means(flush'.rows[j], flush'.points[j]),
           \A i \in DOMAIN ring' : ring'[i].point \notin Bad => \E k \in DOMAIN ring : Follows(i, k)
    PROVE  IInv' /\ GivesUp
<1>1. TypeOK /\ Counted /\ OneLoop /\ InStep /\ CachedIsKept /\ (strayed = {} => OnePlace /\ SameRow)
  BY DEF IInv
<1>2. /\ PointsOf(cached)' = PointsOf(cached) /\ InHand' = InHand /\ Table' = Table
      /\ Places = InHand \cup PointsOf(ring) \cup ToSet(flush.points) \cup PointsOf(cached)
      /\ Places' = InHand \cup PointsOf(ring') \cup ToSet(flush'.points) \cup PointsOf(cached)
      /\ InMemory = InHand \cup PointsOf(ring) \cup ToSet(flush.points)
      /\ InMemory' = InHand \cup PointsOf(ring') \cup ToSet(flush'.points)
  BY DEF InHand, Table, Places, InMemory
<1>3. Places' \subseteq Places /\ InMemory \subseteq InMemory' \cup Settled \cup dropped /\ Settled' = Settled
  BY <1>2 DEF Settled
<1>4. TypeOK'
  <2>1. Places \cup written \cup skipped \cup saved \cup pushed \cup strayed \cup dropped \subseteq 1..read
    BY <1>1 DEF TypeOK
  <2>2. Places' \cup written' \cup skipped' \cup saved' \cup pushed' \cup strayed' \cup dropped' \subseteq 1..read'
    BY <1>3, <2>1
  <2>3. QED
    BY <1>1, <2>2 DEF TypeOK
<1>5. Counted' /\ CachedIsKept' /\ Lost' = Lost
  BY <1>1 DEF Counted, CachedIsKept, Lost
<1>6. OneLoop'
  <2>1. Apart(cached)'
    BY <1>1 DEF OneLoop, Apart
  <2>2. QED
    BY <1>1, <2>1 DEF OneLoop
<1>7. InStep'
  BY <1>1, <1>2, <1>3 DEF InStep
<1>8. ASSUME strayed' = {} PROVE OnePlace' /\ SameRow'
  <2>1. OnePlace /\ SameRow
    BY <1>1, <1>8
  <2>2. OnePlace'
    BY <2>1 DEF OnePlace, Apart
  <2>3. \A j \in DOMAIN flush'.rows : flush'.rows[j] # 0 => Means(flush.rows[j], flush.points[j])'
    BY <1>2, <2>1 DEF Means
  <2>4. ASSUME NEW i \in DOMAIN ring' PROVE HasRow(i)'
    <3>1. CASE ring'[i].point \in Bad
      BY <3>1 DEF HasRow
    <3>2. CASE ring'[i].point \notin Bad
      <4>1. PICK k \in DOMAIN ring : Follows(i, k)
        BY <2>4, <3>2
      <4>2. HasRow(k)
        BY <2>1 DEF SameRow
      <4>3. QED
        BY <1>2, <4>1, <4>2, RowFollows
    <3>3. QED
      BY <3>1, <3>2
  <2>5. \A d \in Devices : loop'[d].pc = "ring" /\ loop'[d].row # 0 =>
         [id |-> loop'[d].row, point |-> loop'[d].point] \in Table'
    BY <1>2, <2>1 DEF SameRow
  <2>6. QED
    BY <2>2, <2>3, <2>4, <2>5 DEF SameRow
<1>9. GivesUp
  BY <1>2, <1>3, <1>5 DEF GivesUp, Lost, Settled
<1>10. QED
  BY <1>4, <1>5, <1>6, <1>7, <1>8, <1>9 DEF IInv

LEMMA TakeStep ==
    ASSUME IInv, Take
    PROVE  IInv' /\ GivesUp
<1>1. TypeOK /\ InStep /\ MaxFails \in Nat
  BY Bounds DEF IInv
<1>2. /\ UNCHANGED <<written, skipped, read, loop, cached, count, saved, pushed, restarts, strayed, dropped>>
      /\ flush.pc = "sleep" /\ fails' = 0 /\ available' = TRUE
  BY DEF Take, Healthy
<1>3. available' \in BOOLEAN
  BY <1>2, Zenon
<1>4. ToSet(flush.points) = {} /\ \A i \in DOMAIN ring : ring[i].status = "pending"
  BY <1>1, <1>2, FlushIs DEF InStep
<1>5. /\ ring' \in Seq(Records) /\ Len(ring') <= MaxRing
      /\ PointsOf(ring') = PointsOf(ring) /\ (Apart(ring) => Apart(ring'))
      /\ flush' \in [pc : {"write"}, rows : Seq(Nat), points : Seq(Points \ Bad)]
      /\ Len(flush'.rows) = Len(flush'.points)
      /\ \A j \in DOMAIN flush'.rows : \E i \in DOMAIN ring :
           flush'.rows[j] = ring[i].row /\ flush'.points[j] = ring[i].point /\ ring[i].point \notin Bad
      /\ ToSet(flush'.points) = {ring[i].point : i \in Chosen} /\ Chosen \subseteq DOMAIN ring
      /\ \A i \in DOMAIN ring' : /\ i \in DOMAIN ring /\ ring'[i].point = ring[i].point
                                 /\ ring'[i].row = ring[i].row
                                 /\ ring'[i].status = IF i \in Chosen THEN "syncing" ELSE ring[i].status
                                 /\ (ring[i].point \notin Bad => Follows(i, i))
  BY <1>1, TakeIs
<1>6. ToSet(flush'.points) \subseteq PointsOf(ring)
  BY <1>1, <1>5, RingIs
<1>7. \A i \in DOMAIN ring' : ring'[i].status = "syncing" => ring'[i].point \in ToSet(flush'.points)
  BY <1>4, <1>5
<1>8. ASSUME OnePlace
      PROVE  \A i \in DOMAIN ring' : ring'[i].status = "pending" => ring'[i].point \notin ToSet(flush'.points)
  <2>1. SUFFICES ASSUME NEW i \in DOMAIN ring', i \notin Chosen, NEW c \in Chosen, ring[i].point = ring[c].point
                 PROVE  FALSE
    BY <1>5
  <2>2. i = c
    BY <1>5, <1>8, <2>1 DEF OnePlace, Apart
  <2>3. QED
    BY <2>1, <2>2
<1>9. ASSUME SameRow
      PROVE  \A j \in DOMAIN flush'.rows : flush'.rows[j] # 0 => Means(flush'.rows[j], flush'.points[j])
  <2>1. \A i \in DOMAIN ring : ring[i].row # 0 /\ ring[i].point \notin Bad => Means(ring[i].row, ring[i].point)
    BY <1>9 DEF SameRow, HasRow
  <2>2. SUFFICES ASSUME NEW j \in DOMAIN flush'.rows, flush'.rows[j] # 0
                 PROVE  Means(flush'.rows[j], flush'.points[j])
    OBVIOUS
  <2>3. PICK i \in DOMAIN ring :
          flush'.rows[j] = ring[i].row /\ flush'.points[j] = ring[i].point /\ ring[i].point \notin Bad
    BY <1>5
  <2>4. Means(ring[i].row, ring[i].point)
    BY <2>1, <2>2, <2>3
  <2>5. QED
    BY <2>3, <2>4
<1>10. flush'.pc = "write"
       /\ flush' \in [pc : {"write", "mark", "fail", "delete"}, rows : Seq(Nat), points : Seq(Points \ Bad)]
  BY <1>5
<1>11. \A i \in DOMAIN ring' : ring'[i].point \notin Bad => \E k \in DOMAIN ring : Follows(i, k)
  BY <1>5
<1>12. fails' \in 0..MaxFails
  BY <1>1, <1>2
<1>13. QED
  BY <1>2, <1>3, <1>4, <1>5, <1>6, <1>7, <1>8, <1>9, <1>10, <1>11, <1>12, MarkStep

LEMMA MarkSyncedStep ==
    ASSUME IInv, MarkSynced
    PROVE  IInv' /\ GivesUp
<1>1. TypeOK /\ InStep
  BY DEF IInv
<1>2. /\ UNCHANGED <<available, fails, written, skipped, read, loop, cached, count, saved, pushed, restarts, strayed, dropped>>
      /\ flush.pc = "mark" /\ flush' = [flush EXCEPT !.pc = "delete"]
  BY DEF MarkSynced, influx
<1>3. available' \in BOOLEAN /\ fails' \in 0..MaxFails
  BY <1>1, <1>2 DEF TypeOK
<1>4. /\ flush \in [pc : {"write", "mark", "fail", "delete"}, rows : Seq(Nat), points : Seq(Points \ Bad)]
      /\ Len(flush.rows) = Len(flush.points)
  BY <1>1, <1>2, FlushIs
<1>5. /\ flush' \in [pc : {"write", "mark", "fail", "delete"}, rows : Seq(Nat), points : Seq(Points \ Bad)]
      /\ flush'.rows = flush.rows /\ flush'.points = flush.points /\ flush'.pc = "delete"
  BY <1>2, <1>4
<1>6. /\ ring' \in Seq(Records) /\ Len(ring') <= MaxRing
      /\ \A i \in DOMAIN ring' : \E k \in DOMAIN ring :
           ring'[i] = ring[k] /\ ring'[i].status = "pending" /\ Follows(i, k)
      /\ PointsOf(ring') \subseteq PointsOf(ring)
      /\ \A i \in DOMAIN ring : ring[i].status # "syncing" => ring[i].point \in PointsOf(ring')
      /\ Apart(ring) => Apart(ring')
  BY <1>1, MarkSyncedIs
<1>7. ToSet(flush.points) \subseteq Settled
      /\ \A i \in DOMAIN ring : ring[i].status = "syncing" => ring[i].point \in ToSet(flush.points)
  BY <1>1, <1>2 DEF InStep
<1>8. PointsOf(ring) \subseteq PointsOf(ring') \cup ToSet(flush.points)
  <2>1. PointsOf(ring) = {ring[i].point : i \in DOMAIN ring}
    BY <1>1, RingIs
  <2>2. QED
    BY <1>6, <1>7, <2>1
<1>9. OnePlace => \A i \in DOMAIN ring' : ring'[i].status = "pending" => ring'[i].point \notin ToSet(flush'.points)
  BY <1>5, <1>6 DEF OnePlace
<1>10. SameRow => \A j \in DOMAIN flush'.rows : flush'.rows[j] # 0 => Means(flush'.rows[j], flush'.points[j])
  BY <1>5 DEF SameRow
<1>11. /\ \A i \in DOMAIN ring' : ring'[i].status = "pending"
       /\ \A i \in DOMAIN ring' : ring'[i].point \notin Bad => \E k \in DOMAIN ring : Follows(i, k)
  BY <1>6
<1>12. PointsOf(ring) \cup ToSet(flush.points)
         \subseteq PointsOf(ring') \cup ToSet(flush'.points) \cup Settled \cup dropped
  BY <1>5, <1>8
<1>13. QED
  BY <1>2, <1>3, <1>4, <1>5, <1>6, <1>7, <1>9, <1>10, <1>11, <1>12, MarkStep

LEMMA MarkFailedStep ==
    ASSUME IInv, MarkFailed
    PROVE  IInv' /\ GivesUp
<1>1. TypeOK /\ InStep
  BY DEF IInv
<1>2. /\ UNCHANGED <<available, fails, written, skipped, read, loop, cached, count, saved, pushed, restarts, strayed, dropped>>
      /\ flush' = Idle("sleep")
  BY DEF MarkFailed, influx
<1>3. available' \in BOOLEAN /\ fails' \in 0..MaxFails
  BY <1>1, <1>2 DEF TypeOK
<1>4. flush'.pc = "sleep" /\ flush'.rows = <<>> /\ flush'.points = <<>> /\ ToSet(flush'.points) = {}
      /\ Len(flush'.rows) = Len(flush'.points) /\ DOMAIN flush'.rows = {}
  BY <1>2, IdleIs, Nothing
<1>5. /\ ring' \in Seq(Records) /\ Len(ring') <= MaxRing
      /\ \A i \in DOMAIN ring' : i \in DOMAIN ring /\ ring'[i].status = "pending" /\ Follows(i, i)
      /\ PointsOf(ring') = PointsOf(ring) /\ (Apart(ring) => Apart(ring'))
  BY <1>1, MarkFailedIs
<1>6. ToSet(flush.points) \subseteq PointsOf(ring) \cup dropped \cup Settled
  BY <1>1 DEF InStep
<1>7. /\ \A i \in DOMAIN ring' : ring'[i].status = "pending"
      /\ \A i \in DOMAIN ring' : \E k \in DOMAIN ring : Follows(i, k)
  BY <1>5
<1>8. QED
  BY <1>2, <1>3, <1>4, <1>5, <1>6, <1>7, MarkStep

(* The batch is written, or not: its points are in the ring as they were.  *)
LEMMA FlushWriteStep ==
    ASSUME IInv, FlushWrite
    PROVE  IInv' /\ Confirms
<1>1. TypeOK /\ Counted /\ OneLoop /\ InStep /\ CachedIsKept /\ (strayed = {} => OnePlace /\ SameRow)
      /\ MaxFails \in Nat /\ fails \in 0..MaxFails /\ available \in BOOLEAN
  BY Bounds DEF IInv, TypeOK
<1>2. /\ flush.pc = "write"
      /\ UNCHANGED <<read, loop, cached, count, ring, saved, pushed, restarts, strayed, dropped>>
      /\ \/ WriteOk(flush.points) /\ flush' = [flush EXCEPT !.pc = "mark"]
         \/ WriteFails(flush.points) /\ flush' = [flush EXCEPT !.pc = "fail"]
         \/ UNCHANGED influx /\ flush' = [flush EXCEPT !.pc = "fail"]
  BY DEF FlushWrite, cache
<1>3. flush \in [pc : {"write", "mark", "fail", "delete"}, rows : Seq(Nat), points : Seq(Points \ Bad)]
  BY <1>1, <1>2, FlushIs
<1>4. /\ flush' \in [pc : {"mark", "fail"}, rows : Seq(Nat), points : Seq(Points \ Bad)]
      /\ flush'.rows = flush.rows /\ flush'.points = flush.points
  BY <1>2, <1>3
<1>5. ToSet(flush.points) \ Unfit \subseteq ToSet(flush.points) /\ ToSet(flush.points) \cap Bad = {}
  BY <1>3, Listed
<1>6. /\ written \subseteq written' /\ written' \subseteq written \cup (ToSet(flush.points) \ Unfit)
      /\ skipped \subseteq skipped' /\ skipped' \subseteq skipped \cup (ToSet(flush.points) \cap Unfit)
      /\ Settled \subseteq Settled' /\ (flush'.pc = "mark" => ToSet(flush.points) \subseteq Settled')
  <2>1. flush'.pc = "mark" => WriteOk(flush.points)
    BY <1>2, <1>3
  <2>2. /\ written \subseteq written' /\ written' \subseteq written \cup (ToSet(flush.points) \ Unfit)
        /\ skipped \subseteq skipped' /\ skipped' \subseteq skipped \cup (ToSet(flush.points) \cap Unfit)
    BY <1>2 DEF WriteOk, WriteFails, influx
  <2>3. QED
    BY <2>1, <2>2 DEF WriteOk, Settled
<1>7. fails' \in 0..MaxFails /\ available' \in BOOLEAN
  <2>1. fails' \in 0..MaxFails
    BY <1>1, <1>2 DEF WriteOk, WriteFails, influx
  <2>2. available' \in BOOLEAN
    BY <1>1, <1>2 DEF WriteOk, WriteFails, influx
  <2>3. QED
    BY <2>1, <2>2
<1>8. /\ PointsOf(cached)' = PointsOf(cached) /\ InHand' = InHand /\ Table' = Table
      /\ InMemory' = InMemory /\ Places' = Places
      /\ ToSet(flush.points) \subseteq Places
      /\ Lost \subseteq Lost' /\ Lost' \subseteq Lost \cup Places
  <2>1. PointsOf(cached)' = PointsOf(cached) /\ InHand' = InHand /\ Table' = Table
    BY <1>2 DEF InHand, Table
  <2>2. InMemory' = InMemory /\ Places' = Places /\ ToSet(flush.points) \subseteq Places
    BY <1>2, <1>4, <2>1 DEF InMemory, Places
  <2>3. QED
    BY <1>2, <1>6, <2>1, <2>2 DEF Lost
<1>9. TypeOK'
  <2>1. Places \cup written \cup skipped \cup saved \cup pushed \cup strayed \cup dropped \subseteq 1..read
        /\ written \cap Unfit = {} /\ skipped \subseteq Unfit
    BY <1>1 DEF TypeOK
  <2>2. Places' \cup written' \cup skipped' \cup saved' \cup pushed' \cup strayed' \cup dropped' \subseteq 1..read'
        /\ written' \cap Unfit = {} /\ skipped' \subseteq Unfit
    BY <1>2, <1>5, <1>6, <1>8, <2>1
  <2>3. Len(flush'.rows) = Len(flush'.points)
    BY <1>1, <1>4, FlushIs
  <2>4. QED
    BY <1>1, <1>2, <1>4, <1>7, <2>2, <2>3 DEF TypeOK
<1>10. Counted' /\ CachedIsKept'
  BY <1>1, <1>2, <1>6 DEF Counted, CachedIsKept
<1>11. OneLoop' /\ (OnePlace => OnePlace')
  BY <1>1, <1>2, <1>4 DEF OneLoop, OnePlace, Apart
<1>12. InStep'
  <2>1. flush'.pc \in {"mark", "fail"}
    BY <1>4
  <2>2. QED
    BY <1>1, <1>2, <1>4, <1>6, <1>8, <2>1 DEF InStep
<1>13. SameRow => SameRow'
  BY <1>2, <1>4, StoreStays
<1>14. Confirms
  BY <1>2, <1>6, <1>8 DEF Confirms
<1>15. QED
  BY <1>1, <1>2, <1>9, <1>10, <1>11, <1>12, <1>13, <1>14 DEF IInv

LEMMA RestoreStep ==
    ASSUME IInv, Restore
    PROVE  IInv' /\ GivesUp
<1>1. TypeOK /\ Counted /\ OneLoop /\ InStep /\ CachedIsKept /\ (strayed = {} => OnePlace /\ SameRow)
  BY DEF IInv
<1>2. /\ UNCHANGED <<available, fails, written, skipped, read, loop, cached, saved, pushed, restarts, dropped>>
      /\ flush.pc = "restore" /\ flush' = Idle("sleep") /\ count' = Len(cached)
      /\ strayed' = strayed \cup (PointsOf(Restorable) \cap InRing)
  BY DEF Restore, influx
<1>3. /\ flush'.pc = "sleep" /\ flush'.rows = <<>> /\ flush'.points = <<>> /\ ToSet(flush'.points) = {}
      /\ Len(flush'.rows) = Len(flush'.points) /\ DOMAIN flush'.rows = {} /\ ToSet(flush.points) = {}
  BY <1>1, <1>2, IdleIs, Nothing, FlushIs
<1>4. /\ ring' \in Seq(Records) /\ Len(ring') <= MaxRing
      /\ \A i \in DOMAIN ring' : \/ i \in DOMAIN ring /\ ring'[i] = ring[i] /\ Follows(i, i)
                                 \/ \E r \in Table : ring'[i] = New(r.id, r.point)
      /\ Apart(ring) /\ Apart(cached) /\ PointsOf(Restorable) \cap PointsOf(ring) = {} => Apart(ring')
      /\ PointsOf(ring') = PointsOf(ring) \cup PointsOf(Restorable)
      /\ PointsOf(Restorable) \subseteq PointsOf(cached)
  BY <1>1, RestoreIs
<1>5. /\ InHand' = InHand /\ Table' = Table /\ Lost' = Lost
      /\ Places = InHand \cup PointsOf(ring) \cup PointsOf(cached)
      /\ Places' = InHand \cup PointsOf(ring') \cup PointsOf(cached)
      /\ InMemory = InHand \cup PointsOf(ring) /\ InMemory' = InHand \cup PointsOf(ring')
  <2>1. InHand' = InHand /\ Table' = Table /\ Lost' = Lost
    BY <1>2 DEF InHand, Table, Lost
  <2>2. QED
    BY <1>2, <1>3, <2>1 DEF Places, InMemory
<1>6. Places' = Places /\ InMemory \subseteq InMemory'
  BY <1>4, <1>5
<1>7. TypeOK'
  <2>1. Places \cup written \cup skipped \cup saved \cup pushed \cup strayed \cup dropped \subseteq 1..read
    BY <1>1 DEF TypeOK
  <2>2. PointsOf(Restorable) \subseteq Places
    BY <1>4, <1>5
  <2>3. Places' \cup written' \cup skipped' \cup saved' \cup pushed' \cup strayed' \cup dropped' \subseteq 1..read'
    BY <1>2, <1>6, <2>1, <2>2
  <2>4. count' \in Nat
    BY <1>1, <1>2, TableIs
  <2>5. QED
    BY <1>1, <1>2, <1>3, <1>4, <2>3, <2>4 DEF TypeOK
<1>8. Counted'
  <2>1. Len(cached) \in Nat
    BY <1>1, TableIs
  <2>2. QED
    BY <1>2, <2>1 DEF Counted
<1>9. OneLoop'
  <2>1. Apart(cached)'
    BY <1>1, <1>2 DEF OneLoop, Apart
  <2>2. \A d \in Devices : loop[d].pc \in {"write", "cache"} =>
          loop[d].row = 0 /\ loop[d].point \notin PointsOf(cached) \cup PointsOf(ring) \cup ToSet(flush.points)
    BY <1>1 DEF OneLoop
  <2>3. \A d \in Devices : loop'[d].pc \in {"write", "cache"} =>
          loop'[d].row = 0 /\ loop'[d].point \notin PointsOf(cached) \cup PointsOf(ring') \cup ToSet(flush'.points)
    BY <1>2, <1>3, <1>4, <2>2
  <2>4. QED
    BY <1>1, <1>2, <2>1, <2>3 DEF OneLoop
<1>10. \A i \in DOMAIN ring' : ring'[i].status = "pending"
  <2>1. \A i \in DOMAIN ring : ring[i].status = "pending"
    BY <1>1, <1>2 DEF InStep
  <2>2. QED
    BY <1>4, <2>1 DEF New
<1>11. InStep'
  BY <1>1, <1>2, <1>3, <1>6, <1>10 DEF InStep, Settled
<1>12. ASSUME strayed' = {} PROVE OnePlace' /\ SameRow'
  <2>1. OnePlace /\ SameRow /\ PointsOf(Restorable) \cap InRing = {}
    BY <1>1, <1>2, <1>12
  <2>2. PointsOf(Restorable) \cap PointsOf(ring) = {} /\ PointsOf(Restorable) \cap Waiting = {}
    BY <2>1 DEF InRing
  <2>3. Apart(ring')
    BY <1>1, <1>4, <2>1, <2>2 DEF OnePlace, OneLoop
  <2>4. \A d \in Devices : loop[d].pc = "ring" => loop[d].point \in Waiting
    BY DEF Waiting
  <2>5. \A d \in Devices : loop'[d].pc = "ring" => loop'[d].point \notin PointsOf(ring') \cup ToSet(flush'.points)
    BY <1>2, <1>3, <1>4, <2>1, <2>2, <2>4 DEF OnePlace
  <2>6. OnePlace'
    BY <1>3, <2>3, <2>5 DEF OnePlace
  <2>7. ASSUME NEW i \in DOMAIN ring' PROVE HasRow(i)'
    <3>1. CASE i \in DOMAIN ring /\ ring'[i] = ring[i] /\ Follows(i, i)
      <4>1. HasRow(i)
        BY <2>1, <3>1 DEF SameRow
      <4>2. QED
        BY <1>5, <3>1, <4>1, RowFollows
    <3>2. CASE \E r \in Table : ring'[i] = New(r.id, r.point)
      <4>1. PICK r \in Table : ring'[i] = New(r.id, r.point)
        BY <3>2
      <4>2. ring'[i].row = r.id /\ ring'[i].point = r.point
        BY <4>1 DEF New
      <4>3. (\A q \in Table : q.id = r.id => q = r) /\ r.id \in Nat
        BY <1>1, <4>1, TableIs DEF Rows
      <4>4. Means(ring[i].row, ring[i].point)'
        BY <1>5, <4>1, <4>2, <4>3 DEF Means
      <4>5. QED
        BY <1>5, <4>1, <4>2, <4>4 DEF HasRow
    <3>3. QED
      BY <1>4, <3>1, <3>2
  <2>8. \A d \in Devices : loop'[d].pc = "ring" /\ loop'[d].row # 0 =>
         [id |-> loop'[d].row, point |-> loop'[d].point] \in Table'
    BY <1>2, <1>5, <2>1 DEF SameRow
  <2>9. QED
    BY <1>3, <2>6, <2>7, <2>8 DEF SameRow
<1>13. CachedIsKept'
  BY <1>1, <1>2 DEF CachedIsKept
<1>14. GivesUp
  BY <1>2, <1>5, <1>6 DEF GivesUp
<1>15. QED
  BY <1>7, <1>8, <1>9, <1>11, <1>12, <1>13, <1>14 DEF IInv

LEMMA PutRingStep ==
    ASSUME IInv, NEW d \in Devices, PutRing(d)
    PROVE  IInv' /\ GivesUp
<1> DEFINE p == loop[d].point
           rec == New(loop[d].row, p)
<1>1. TypeOK /\ Counted /\ OneLoop /\ InStep /\ CachedIsKept /\ (strayed = {} => OnePlace /\ SameRow)
  BY DEF IInv
<1>2. /\ UNCHANGED <<available, fails, written, skipped, read, cached, count, saved, pushed, flush, restarts, strayed>>
      /\ loop[d].pc = "ring" /\ loop' = [loop EXCEPT ![d] = Sleeping] /\ Put(rec)
  BY DEF PutRing, influx, Done
<1>3. loop[d] # Sleeping /\ p \in InHand /\ p \in Points /\ loop[d].row \in Nat
  BY <1>1, <1>2, LoopIs DEF Sleeping
<1>4. rec \in Records /\ rec.row = loop[d].row /\ rec.point = p /\ rec.status = "pending"
  BY <1>3 DEF New, Records
<1> HIDE DEF rec
<1>5. /\ ring' \in Seq(Records) /\ Len(ring') <= MaxRing
      /\ \A i \in DOMAIN ring' : i = Len(ring') \/ \E k \in DOMAIN ring : ring'[i] = ring[k] /\ Follows(i, k)
      /\ ring'[Len(ring')] = rec
      /\ Apart(ring) /\ rec.point \notin PointsOf(ring) => Apart(ring')
      /\ PointsOf(ring') \subseteq PointsOf(ring) \cup {rec.point} /\ rec.point \in PointsOf(ring')
      /\ PointsOf(ring) \subseteq PointsOf(ring') \cup dropped'
      /\ dropped \subseteq dropped' /\ dropped' \subseteq dropped \cup PointsOf(ring)
  BY <1>1, <1>2, <1>4, PutIs
<1>6. Sleeping \in Loops /\ Sleeping.pc = "sleep" /\ Sleeping.row = 0
  BY DEF Loops, Sleeping
<1>7. /\ loop' \in [Devices -> Loops]
      /\ loop'[d] = Sleeping /\ \A e \in Devices : e # d => loop'[e] = loop[e]
      /\ \A e, f \in Devices : e # f /\ loop'[e] # Sleeping => loop'[e].point # loop'[f].point
      /\ InHand' \subseteq InHand /\ InHand \subseteq InHand' \cup {p}
  BY <1>1, <1>2, <1>6, LoopMoves
<1>8. /\ Table' = Table /\ PointsOf(cached') = PointsOf(cached) /\ ToSet(flush'.points) = ToSet(flush.points)
      /\ Places = InHand \cup PointsOf(ring) \cup ToSet(flush.points) \cup PointsOf(cached)
      /\ Places' = InHand' \cup PointsOf(ring') \cup ToSet(flush.points) \cup PointsOf(cached)
      /\ InMemory = InHand \cup PointsOf(ring) \cup ToSet(flush.points)
      /\ InMemory' = InHand' \cup PointsOf(ring') \cup ToSet(flush.points)
      /\ Lost = dropped \cup pushed \cup skipped /\ Lost' = dropped' \cup pushed \cup skipped
  <2>1. Table' = Table /\ cached' = cached /\ flush' = flush /\ pushed' = pushed /\ skipped' = skipped
    BY <1>2 DEF Table
  <2>2. QED
    BY <2>1 DEF Places, InMemory, Lost
<1>9. Places' \subseteq Places /\ Places \subseteq Places' \cup dropped' /\ InMemory \subseteq InMemory' \cup dropped'
  BY <1>3, <1>4, <1>5, <1>7, <1>8
<1>10. TypeOK'
  <2>1. Places \cup written \cup skipped \cup saved \cup pushed \cup strayed \cup dropped \subseteq 1..read
    BY <1>1 DEF TypeOK
  <2>2. Places' \cup written' \cup skipped' \cup saved' \cup pushed' \cup strayed' \cup dropped' \subseteq 1..read'
    BY <1>2, <1>5, <1>8, <1>9, <2>1
  <2>3. QED
    BY <1>1, <1>2, <1>5, <1>7, <2>2 DEF TypeOK, Loops
<1>11. \A e \in Devices : e # d /\ loop'[e] # Sleeping => loop'[e].point # p
  <2>1. \A e \in Devices : e # d /\ loop[e] # Sleeping => loop[e].point # p
    BY <1>1 DEF OneLoop
  <2>2. QED
    BY <1>7, <2>1
<1>12. OneLoop'
  <2>1. Apart(cached)'
    BY <1>1, <1>2 DEF OneLoop, Apart
  <2>2. \A e \in Devices : loop[e].pc \in {"write", "cache"} =>
          loop[e].row = 0 /\ loop[e].point \notin PointsOf(cached) \cup PointsOf(ring) \cup ToSet(flush.points)
    BY <1>1 DEF OneLoop
  <2>3. ASSUME NEW e \in Devices, loop'[e].pc \in {"write", "cache"}
        PROVE  loop'[e].row = 0 /\ loop'[e].point \notin PointsOf(cached) \cup PointsOf(ring') \cup ToSet(flush.points)
    <3>1. e # d /\ loop'[e] # Sleeping /\ loop'[e] = loop[e]
      BY <1>6, <1>7, <2>3
    <3>2. QED
      BY <1>4, <1>5, <1>11, <2>2, <2>3, <3>1
  <2>4. QED
    BY <1>2, <1>7, <1>8, <2>1, <2>3 DEF OneLoop
<1>13. InStep'
  <2>1. \A i \in DOMAIN ring' : ring'[i].status = "pending" \/ \E k \in DOMAIN ring : ring'[i] = ring[k]
    BY <1>4, <1>5
  <2>2. (\A i \in DOMAIN ring : ring[i].status = "pending") => \A i \in DOMAIN ring' : ring'[i].status = "pending"
    BY <2>1
  <2>3. \A i \in DOMAIN ring' : ring'[i].status = "syncing" => ring'[i].point \in ToSet(flush.points)
    <3>1. \A i \in DOMAIN ring : ring[i].status = "syncing" => ring[i].point \in ToSet(flush.points)
      BY <1>1 DEF InStep
    <3>2. QED
      BY <2>1, <3>1
  <2>s. Settled' = Settled
    BY <1>2 DEF Settled
  <2>4. ToSet(flush.points) \subseteq PointsOf(ring') \cup dropped' \cup Settled
    BY <1>1, <1>5 DEF InStep
  <2>5. PointsOf(cached) \subseteq InMemory' \cup dropped' \cup Settled
    BY <1>1, <1>5, <1>9 DEF InStep
  <2>6. QED
    BY <1>1, <1>2, <2>s, <2>2, <2>3, <2>4, <2>5 DEF InStep
<1>14. ASSUME strayed' = {} PROVE OnePlace' /\ SameRow'
  <2>1. OnePlace /\ SameRow /\ p \notin PointsOf(ring) \cup ToSet(flush.points)
    BY <1>1, <1>2, <1>14 DEF OnePlace
  <2>2. Apart(ring')
    BY <1>4, <1>5, <2>1 DEF OnePlace
  <2>3. ASSUME NEW e \in Devices, loop'[e].pc = "ring"
        PROVE  e # d /\ loop'[e] = loop[e] /\ loop'[e].point \notin PointsOf(ring') \cup ToSet(flush.points)
    <3>1. e # d /\ loop'[e] # Sleeping /\ loop'[e] = loop[e]
      BY <1>6, <1>7, <2>3
    <3>2. loop[e].point \notin PointsOf(ring) \cup ToSet(flush.points)
      BY <2>1, <2>3, <3>1 DEF OnePlace
    <3>3. QED
      BY <1>4, <1>5, <1>11, <3>1, <3>2
  <2>4. \A i \in DOMAIN ring' : ring'[i].status = "pending" => ring'[i].point \notin ToSet(flush.points)
    <3>1. \A i \in DOMAIN ring : ring[i].status = "pending" => ring[i].point \notin ToSet(flush.points)
      BY <2>1 DEF OnePlace
    <3>2. QED
      BY <1>4, <1>5, <2>1, <3>1
  <2>5. OnePlace'
    BY <1>8, <2>2, <2>3, <2>4 DEF OnePlace
  <2>6. ASSUME NEW i \in DOMAIN ring' PROVE HasRow(i)'
    <3>1. CASE \E k \in DOMAIN ring : ring'[i] = ring[k] /\ Follows(i, k)
      <4>1. PICK k \in DOMAIN ring : Follows(i, k)
        BY <3>1
      <4>2. HasRow(k)
        BY <2>1 DEF SameRow
      <4>3. QED
        BY <1>8, <4>1, <4>2, RowFollows
    <3>2. CASE i = Len(ring')
      <4>1. ring'[i].row = loop[d].row /\ ring'[i].point = p
        BY <1>4, <1>5, <3>2
      <4>2. SUFFICES ASSUME loop[d].row # 0 PROVE HasRow(i)'
        BY <4>1 DEF HasRow
      <4>3. PICK r \in Table : r.id = loop[d].row /\ r.point = p
        BY <1>2, <2>1, <4>2 DEF SameRow
      <4>4. (\A q \in Table : q.id = r.id => q = r) /\ r.id \in Nat
        BY <1>1, <4>3, TableIs DEF Rows
      <4>5. Means(ring[i].row, ring[i].point)'
        BY <1>8, <4>1, <4>3, <4>4 DEF Means
      <4>6. QED
        BY <1>8, <4>1, <4>3, <4>5 DEF HasRow
    <3>3. QED
      BY <1>5, <3>1, <3>2
  <2>7. \A e \in Devices : loop'[e].pc = "ring" /\ loop'[e].row # 0 =>
         [id |-> loop'[e].row, point |-> loop'[e].point] \in Table'
    BY <1>8, <2>1, <2>3 DEF SameRow
  <2>8. \A j \in DOMAIN flush'.rows : flush'.rows[j] # 0 => Means(flush.rows[j], flush.points[j])'
    BY <1>2, <1>8, <2>1 DEF SameRow, Means
  <2>9. QED
    BY <2>5, <2>6, <2>7, <2>8 DEF SameRow
<1>15. Counted' /\ CachedIsKept'
  BY <1>1, <1>2 DEF Counted, CachedIsKept
<1>16. GivesUp
  BY <1>2, <1>5, <1>8, <1>9 DEF GivesUp
<1>17. QED
  BY <1>10, <1>12, <1>13, <1>14, <1>15, <1>16 DEF IInv

(* What is deleted has the id of a record reported as written, and so, as  *)
(* long as nothing strayed, its point.                                     *)
LEMMA DeleteCachedStep ==
    ASSUME IInv, DeleteCached
    PROVE  IInv' /\ GivesUp
<1> DEFINE F == ToSet(flush.points)
<1>1. TypeOK /\ Counted /\ OneLoop /\ InStep /\ CachedIsKept /\ (strayed = {} => OnePlace /\ SameRow)
  BY DEF IInv
<1>2. /\ UNCHANGED <<available, fails, written, skipped, read, loop, ring, saved, pushed, restarts, strayed, dropped>>
      /\ flush.pc = "delete" /\ flush' = Idle("sleep")
  BY DEF DeleteCached, influx
<1>3. /\ flush'.pc = "sleep" /\ flush'.rows = <<>> /\ flush'.points = <<>> /\ ToSet(flush'.points) = {}
      /\ Len(flush'.rows) = Len(flush'.points) /\ DOMAIN flush'.rows = {}
  BY <1>2, IdleIs, Nothing
<1>s. Settled' = Settled
  BY <1>2 DEF Settled
<1>4. F \subseteq Settled /\ \A i \in DOMAIN ring : ring[i].status = "pending"
  BY <1>1, <1>2 DEF InStep
<1> DEFINE ids == Filter(flush.rows, Nat \ {0})
<1>5. /\ ids \in Seq(Nat \ {0}) /\ Len(ids) \in Nat
      /\ \A k \in ToSet(ids) : \E j \in DOMAIN flush.rows : flush.rows[j] = k /\ k # 0
  <2>1. flush.rows \in Seq(Nat)
    BY <1>1, FlushIs
  <2>2. ids \in Seq(Nat) /\ ToSet(ids) = ToSet(flush.rows) \cap (Nat \ {0})
    BY <2>1, Filtered
  <2> HIDE DEF ids
  <2>3. DOMAIN ids = 1..Len(ids) /\ Len(ids) \in Nat /\ \A j \in DOMAIN ids : ids[j] \in ToSet(ids)
    BY <2>2, Listed
  <2>4. ids \in Seq(Nat \ {0})
    <3>1. ids \in [1..Len(ids) -> Nat \ {0}]
      BY <2>2, <2>3
    <3>2. QED
      BY <2>3, <3>1
  <2>5. \A k \in ToSet(flush.rows) : \E j \in DOMAIN flush.rows : flush.rows[j] = k
    BY <2>1, Listed
  <2>6. QED
    BY <2>2, <2>3, <2>4, <2>5
<1>6. \/ /\ cached' = Filter(cached, {r \in ToSet(cached) : r.id \notin ToSet(ids)})
         /\ count' = Less(count, Len(ids))
      \/ cached' = cached /\ count' = count
  BY DEF DeleteCached
<1> HIDE DEF ids
<1>7. /\ cached \in Seq(Rows) /\ Sorted(cached) /\ Apart(cached) /\ count \in Nat /\ count <= Len(cached)
      /\ Len(cached) \in Nat
  BY <1>1, TableIs DEF TypeOK, Sorted, OneLoop, Counted
<1>8. /\ cached' \in Seq(Rows) /\ Sorted(cached') /\ Apart(cached') /\ count' \in Nat /\ count' <= Len(cached')
      /\ Table' \subseteq Table /\ \A r \in Table : r \in Table' \/ r.id \in ToSet(ids)
  <2>1. CASE cached' = Filter(cached, {r \in ToSet(cached) : r.id \notin ToSet(ids)})
             /\ count' = Less(count, Len(ids))
    <3>1. /\ cached' \in Seq(Rows) /\ Sorted(cached') /\ Apart(cached')
          /\ Table' = {r \in Table : r.id \notin ToSet(ids)}
          /\ Len(cached') \in Nat /\ Len(cached) <= Len(cached') + Len(ids)
      BY <1>1, <1>5, <1>7, <2>1, RowsDeleted
    <3>2. count' \in Nat /\ count' <= Len(cached')
      BY <1>5, <1>7, <2>1, <3>1 DEF Less
    <3>3. QED
      BY <3>1, <3>2
  <2>2. CASE cached' = cached /\ count' = count
    BY <1>7, <2>2 DEF Table, Sorted, Apart
  <2>3. QED
    BY <1>6, <2>1, <2>2
<1>9. PointsOf(cached) = {r.point : r \in Table} /\ PointsOf(cached') = {r.point : r \in Table'}
      /\ PointsOf(cached') \subseteq PointsOf(cached)
  BY <1>7, <1>8, Listed DEF Table
<1>10. /\ InHand' = InHand /\ Lost' = Lost
       /\ Places = InHand \cup PointsOf(ring) \cup F \cup PointsOf(cached)
       /\ Places' = InHand \cup PointsOf(ring) \cup PointsOf(cached')
       /\ InMemory = InHand \cup PointsOf(ring) \cup F /\ InMemory' = InHand \cup PointsOf(ring)
  <2>1. InHand' = InHand /\ Lost' = Lost
    BY <1>2 DEF InHand, Lost
  <2>2. QED
    BY <1>2, <1>3, <2>1 DEF Places, InMemory
<1>11. PointsOf(cached) \subseteq InMemory \cup dropped \cup Settled
  BY <1>1 DEF InStep
<1>12. Places' \subseteq Places /\ Places \subseteq Places' \cup dropped \cup Settled
       /\ PointsOf(cached') \subseteq InMemory' \cup dropped \cup Settled
  BY <1>4, <1>9, <1>10, <1>11
<1>13. TypeOK'
  <2>1. Places \cup written \cup skipped \cup saved \cup pushed \cup strayed \cup dropped \subseteq 1..read
    BY <1>1 DEF TypeOK
  <2>2. Places' \cup written' \cup skipped' \cup saved' \cup pushed' \cup strayed' \cup dropped' \subseteq 1..read'
    BY <1>2, <1>12, <2>1
  <2>3. QED
    BY <1>1, <1>2, <1>3, <1>8, <2>2 DEF TypeOK, Sorted
<1>14. OneLoop'
  <2>1. \A d \in Devices : loop[d].pc \in {"write", "cache"} =>
          loop[d].row = 0 /\ loop[d].point \notin PointsOf(cached) \cup PointsOf(ring) \cup ToSet(flush.points)
    BY <1>1 DEF OneLoop
  <2>2. \A d \in Devices : loop[d].pc \in {"write", "cache"} =>
          loop[d].row = 0 /\ loop[d].point \notin PointsOf(cached') \cup PointsOf(ring) \cup ToSet(flush'.points)
    BY <1>3, <1>9, <2>1
  <2>3. QED
    BY <1>1, <1>2, <1>8, <2>2 DEF OneLoop
<1>15. InStep'
  BY <1>1, <1>2, <1>3, <1>s, <1>4, <1>12 DEF InStep
<1>16. ASSUME strayed = {} PROVE \A r \in Table : r \in Table' \/ r.point \in F
  <2>1. SUFFICES ASSUME NEW r \in Table, r \notin Table' PROVE r.point \in F
    OBVIOUS
  <2>2. PICK j \in DOMAIN flush.rows : flush.rows[j] = r.id /\ flush.rows[j] # 0
    BY <1>5, <1>8, <2>1
  <2>3. Means(flush.rows[j], flush.points[j])
    BY <1>1, <1>16, <2>2 DEF SameRow
  <2>4. flush.points[j] \in F
    BY <1>1, FlushIs
  <2>5. QED
    BY <2>1, <2>2, <2>3, <2>4 DEF Means
<1>17. ASSUME strayed' = {} PROVE OnePlace' /\ SameRow'
  <2>1. OnePlace /\ SameRow /\ \A r \in Table : r \in Table' \/ r.point \in F
    BY <1>1, <1>2, <1>16, <1>17
  <2>2. OnePlace'
    BY <1>2, <1>3, <2>1 DEF OnePlace, Apart
  <2>3. ASSUME NEW d \in Devices, loop'[d].pc = "ring", loop'[d].row # 0
        PROVE  [id |-> loop'[d].row, point |-> loop'[d].point] \in Table'
    <3>1. [id |-> loop[d].row, point |-> loop[d].point] \in Table
      BY <1>2, <2>1, <2>3 DEF SameRow
    <3>2. loop[d].point \notin F
      BY <1>2, <2>1, <2>3 DEF OnePlace
    <3>3. QED
      BY <1>2, <2>1, <3>1, <3>2
  <2>4. ASSUME NEW i \in DOMAIN ring PROVE HasRow(i)'
    <3>1. SUFFICES ASSUME ring[i].row # 0, ring[i].point \notin Bad
                   PROVE  Means(ring[i].row, ring[i].point)' /\ \E r \in Table' : r.id = ring[i].row \/ Outlasts(r, i)'
      BY <1>2 DEF HasRow
    <3>2. Means(ring[i].row, ring[i].point) /\ \E r \in Table : r.id = ring[i].row \/ Outlasts(r, i)
      BY <2>1, <2>4, <3>1 DEF SameRow, HasRow
    <3>3. PICK r \in Table : r.id = ring[i].row \/ Outlasts(r, i)
      BY <3>2
    <3>4. ring[i].point \notin F /\ ring[i].status = "pending"
      BY <1>4, <2>1, <2>4 DEF OnePlace
    <3>5. r.point \notin F
      BY <3>2, <3>3, <3>4 DEF Means, Outlasts
    <3>6. r \in Table'
      BY <2>1, <3>3, <3>5
    <3>7. r.id >= ring[i].row
      <4>1. r.id \in Nat /\ ring[i].row \in Nat
        BY <1>1, <2>4, <3>3, TableIs, RingIs DEF Rows
      <4>2. QED
        BY <3>3, <4>1 DEF Outlasts
    <3>8. Means(ring[i].row, ring[i].point)'
      BY <1>2, <1>8, <3>2, <3>6, <3>7 DEF Means
    <3>9. Outlasts(r, i) => Outlasts(r, i)'
      BY <1>2, <1>3 DEF Outlasts
    <3>10. QED
      BY <3>3, <3>6, <3>8, <3>9
  <2>5. QED
    BY <1>2, <1>3, <2>2, <2>3, <2>4 DEF SameRow
<1>18. CachedIsKept'
  <2>1. strayed = {} => PointsOf(cached) \subseteq PointsOf(cached') \cup F
    BY <1>9, <1>16
  <2>2. F \subseteq written \cup (skipped \cap NotNumbers)
    <3>1. F \cap Bad = {}
      BY <1>1, FlushIs, Listed
    <3>2. skipped \subseteq Bad \cup NotNumbers
      BY <1>1 DEF TypeOK, Unfit
    <3>3. QED
      BY <1>4, <3>1, <3>2 DEF Settled
  <2>3. QED
    BY <1>1, <1>2, <2>1, <2>2 DEF CachedIsKept
<1>19. Counted'
  BY <1>8 DEF Counted
<1>20. GivesUp
  BY <1>2, <1>10, <1>12 DEF GivesUp, Lost, Settled
<1>21. QED
  BY <1>13, <1>14, <1>15, <1>17, <1>18, <1>19, <1>20 DEF IInv

LEMMA RestartStep ==
    ASSUME IInv, Restart
    PROVE  IInv' /\ GivesUp
<1>1. TypeOK /\ Counted /\ OneLoop /\ InStep /\ CachedIsKept
  BY DEF IInv
<1>2. /\ UNCHANGED <<written, skipped, read, cached, saved, pushed, strayed>>
      /\ available' \in BOOLEAN /\ fails' = 0 /\ count' = 0 /\ ring' = <<>>
      /\ loop' = [d \in Devices |-> Sleeping] /\ flush' = Idle("restore")
      /\ dropped' = dropped \cup InMemory /\ restarts' = restarts + 1 /\ restarts < MaxRestarts
  BY DEF Restart
<1>3. /\ flush'.pc = "restore" /\ flush'.rows = <<>> /\ flush'.points = <<>> /\ ToSet(flush'.points) = {}
      /\ Len(flush'.rows) = Len(flush'.points) /\ DOMAIN flush'.rows = {}
      /\ PointsOf(ring') = {} /\ DOMAIN ring' = {} /\ Len(ring') = 0
  BY <1>2, IdleIs, Nothing
<1>4. \A d \in Devices : loop'[d] = Sleeping /\ loop'[d].point = 0 /\ loop'[d].pc = "sleep"
  BY <1>2 DEF Sleeping
<1>5. InHand' = {} /\ PointsOf(cached)' = PointsOf(cached) /\ Places' = PointsOf(cached)
      /\ Places = InMemory \cup PointsOf(cached) /\ Lost' = Lost \cup InMemory
  <2>1. InHand' = {}
    BY <1>4 DEF InHand
  <2>2. QED
    BY <1>2, <1>3, <2>1 DEF Places, InMemory, Lost
<1>6. TypeOK'
  <2>1. Places \cup written \cup skipped \cup saved \cup pushed \cup strayed \cup dropped \subseteq 1..read
    BY <1>1 DEF TypeOK
  <2>2. Places' \cup written' \cup skipped' \cup saved' \cup pushed' \cup strayed' \cup dropped' \subseteq 1..read'
    BY <1>2, <1>5, <2>1
  <2>3. ring' \in Seq(Records) /\ Len(ring') <= MaxRing
    BY <1>2, <1>3, Bounds
  <2>4. fails' \in 0..MaxFails /\ restarts' \in 0..MaxRestarts
    <3>1. MaxFails \in Nat /\ MaxRestarts \in Nat /\ restarts \in 0..MaxRestarts
      BY <1>1, Bounds DEF TypeOK
    <3>2. QED
      BY <1>2, <3>1
  <2>5. loop' \in [Devices -> {Sleeping} \cup [pc : {"write", "cache", "ring"}, point : Points, row : Nat]]
    BY <1>2
  <2>6. QED
    BY <1>1, <1>2, <1>3, <2>2, <2>3, <2>4, <2>5 DEF TypeOK
<1>7. Counted'
  <2>1. Len(cached) \in Nat
    BY <1>1, TableIs
  <2>2. QED
    BY <1>2, <2>1 DEF Counted
<1>8. OneLoop'
  BY <1>1, <1>2, <1>4 DEF OneLoop, Apart
<1>9. InStep'
  BY <1>1, <1>2, <1>3 DEF InStep, Settled
<1>10. OnePlace' /\ SameRow'
  BY <1>3, <1>4 DEF OnePlace, SameRow, Apart
<1>11. CachedIsKept'
  BY <1>1, <1>2 DEF CachedIsKept
<1>12. GivesUp
  BY <1>2, <1>5 DEF GivesUp
<1>13. QED
  BY <1>6, <1>7, <1>8, <1>9, <1>10, <1>11, <1>12 DEF IInv

(* The new row is the last to go: it stands behind every record whose row  *)
(* had to make room.                                                       *)
LEMMA RowAddedStep ==
    ASSUME IInv, NEW d \in Devices, NEW row, row = [id |-> LastId(Kept) + 1, point |-> loop[d].point],
           loop[d].pc = "cache",
           cached' = Append(Kept, row), count' = Less(count + 1, IF Full THEN Evicted ELSE 0),
           saved' = saved \cup {row.point}, pushed' = pushed \cup Outdated,
           strayed' = strayed \cup (Outdated \cap Waiting),
           loop' = [loop EXCEPT ![d] = [pc |-> "ring", point |-> loop[d].point, row |-> row.id]],
           UNCHANGED <<influx, read, ring, flush, restarts, dropped>>
    PROVE  IInv' /\ GivesUp
<1> DEFINE p == loop[d].point
           l == [pc |-> "ring", point |-> p, row |-> row.id]
<1>1. TypeOK /\ Counted /\ OneLoop /\ InStep /\ CachedIsKept /\ (strayed = {} => OnePlace /\ SameRow)
  BY DEF IInv
<1>2. UNCHANGED <<available, fails, written, skipped, read, ring, flush, restarts, dropped>>
  BY DEF influx
<1>3. /\ loop[d] \in [pc : {"write", "cache", "ring"}, point : Points, row : Nat]
      /\ p \in InHand /\ p \in Points /\ p \in 1..read /\ loop[d] # Sleeping
      /\ p \notin PointsOf(cached) \cup PointsOf(ring) \cup ToSet(flush.points)
  BY <1>1, LoopIs DEF Sleeping, OneLoop
<1>4. /\ Kept \in Seq(Rows) /\ ToSet(Kept) \subseteq Table /\ LastId(Kept) = LastId(cached)
      /\ Apart(cached) /\ PointsOf(Kept) = {r.point : r \in ToSet(Kept)}
      /\ PointsOf(Kept) \subseteq PointsOf(cached)
      /\ Len(Kept) \in Nat /\ Len(Kept) >= Less(count, IF Full THEN Evicted ELSE 0)
      /\ Full => count > Evicted
      /\ LastId(cached) \in Nat
  BY <1>1, KeptIs, TableIs DEF OneLoop
<1>5. row \in Rows /\ row.id = LastId(Kept) + 1 /\ row.point = p /\ row.id \in Nat \ {0}
  BY <1>3, <1>4 DEF Rows
<1>6. /\ cached' \in Seq(Rows) /\ Sorted(cached') /\ Apart(cached')
      /\ Table' = ToSet(Kept) \cup {row}
      /\ PointsOf(cached') = PointsOf(Kept) \cup {p}
      /\ Len(cached') = Len(Kept) + 1
      /\ \A r \in Table : r.id < row.id
  BY <1>1, <1>3, <1>4, <1>5, RowAdded
<1>7. count' \in Nat /\ count' <= Len(cached')
  <2>1. count \in Nat /\ Evicted \in Nat
    BY <1>1, Bounds DEF TypeOK
  <2>2. QED
    BY <1>4, <1>6, <2>1 DEF Less
<1>8. l \in Loops /\ loop' = [loop EXCEPT ![d] = l] /\ l # Sleeping /\ l.point = p /\ l.pc = "ring" /\ l.row = row.id
  <2>1. l \in Loops /\ l # Sleeping
    BY <1>3, <1>5 DEF Loops, Sleeping
  <2>2. QED
    BY <2>1
<1> HIDE DEF l
<1>9. /\ loop' \in [Devices -> Loops]
      /\ loop'[d] = l /\ \A e \in Devices : e # d => loop'[e] = loop[e]
      /\ \A e, f \in Devices : e # f /\ loop'[e] # Sleeping => loop'[e].point # loop'[f].point
      /\ InHand' = InHand
  <2>1. /\ loop' \in [Devices -> Loops]
        /\ loop'[d] = l /\ \A e \in Devices : e # d => loop'[e] = loop[e]
        /\ \A e, f \in Devices : e # f /\ loop'[e] # Sleeping => loop'[e].point # loop'[f].point
        /\ InHand' \subseteq InHand \cup {l.point} /\ InHand \subseteq InHand' \cup {p} /\ l.point \in InHand'
    <3>1. l \in Loops /\ loop' = [loop EXCEPT ![d] = l] /\ l # Sleeping /\ loop[d] # Sleeping /\ l.point = loop[d].point
      BY <1>3, <1>8
    <3>2. QED
      BY <1>1, <3>1, LoopMoves
  <2>2. l.point = p /\ p \in InHand
    BY <1>3, <1>8
  <2>3. InHand' \subseteq InHand /\ InHand \subseteq InHand'
    BY <2>1, <2>2
  <2>4. QED
    BY <2>1, <2>3
<1>10. \A e \in Devices : e # d /\ loop[e] # Sleeping => loop[e].point # p
  BY <1>1 DEF OneLoop
<1>11. /\ InMemory' = InMemory /\ Places = InMemory \cup PointsOf(cached)
       /\ Places' = InMemory \cup PointsOf(Kept) \cup {p} /\ p \in InMemory
       /\ Lost' = Lost \cup Outdated /\ Outdated = PointsOf(cached) \ PointsOf(Kept)
  <2>1. InMemory' = InMemory /\ p \in InMemory
    BY <1>2, <1>3, <1>9 DEF InMemory
  <2>2. Lost' = Lost \cup Outdated /\ Outdated = PointsOf(cached) \ PointsOf(Kept)
    BY <1>2 DEF Lost, Outdated
  <2>3. QED
    BY <1>6, <2>1, <2>2 DEF Places
<1>12. Places' \subseteq Places /\ Places \subseteq Places' \cup Outdated /\ Outdated \subseteq Places
  BY <1>4, <1>11
<1>13. TypeOK'
  <2>1. Places \cup written \cup skipped \cup saved \cup pushed \cup strayed \cup dropped \subseteq 1..read
    BY <1>1 DEF TypeOK
  <2>2. Places' \cup written' \cup skipped' \cup saved' \cup pushed' \cup strayed' \cup dropped' \subseteq 1..read'
    BY <1>2, <1>3, <1>5, <1>12, <2>1
  <2>3. QED
    BY <1>1, <1>2, <1>6, <1>7, <1>9, <2>2 DEF TypeOK, Sorted, Loops
<1>14. OneLoop'
  <2>1. \A e \in Devices : loop[e].pc \in {"write", "cache"} =>
          loop[e].row = 0 /\ loop[e].point \notin PointsOf(cached) \cup PointsOf(ring) \cup ToSet(flush.points)
    BY <1>1 DEF OneLoop
  <2>2. ASSUME NEW e \in Devices, loop'[e].pc \in {"write", "cache"}
        PROVE  loop'[e].row = 0 /\ loop'[e].point \notin PointsOf(cached') \cup PointsOf(ring) \cup ToSet(flush.points)
    <3>1. e # d /\ loop'[e] = loop[e] /\ loop[e] # Sleeping
      BY <1>8, <1>9, <2>2 DEF Sleeping
    <3>2. QED
      BY <1>4, <1>6, <1>10, <2>1, <2>2, <3>1
  <2>3. QED
    BY <1>2, <1>6, <1>9, <2>2 DEF OneLoop
<1>15. InStep'
  <2>s. Settled' = Settled
    BY <1>2 DEF Settled
  <2>1. PointsOf(cached') \subseteq InMemory' \cup dropped \cup Settled
    BY <1>1, <1>4, <1>6, <1>11 DEF InStep
  <2>2. QED
    BY <1>1, <1>2, <2>s, <2>1 DEF InStep
<1>16. ASSUME strayed' = {} PROVE OnePlace' /\ SameRow'
  <2>1. OnePlace /\ SameRow /\ Outdated \cap Waiting = {}
    BY <1>1, <1>16
  <2>2. \A e \in Devices : loop'[e].pc = "ring" => loop'[e].point \notin PointsOf(ring) \cup ToSet(flush.points)
    BY <1>3, <1>8, <1>9, <2>1 DEF OnePlace
  <2>3. OnePlace'
    BY <1>2, <2>1, <2>2 DEF OnePlace, Apart
  <2>4. ASSUME NEW k \in Nat, NEW q, Means(k, q)
        PROVE  k < row.id /\ (\A r \in Table' : r.id = k => r.point = q) /\ \E r \in Table' : r.id >= k
    <3>1. \A r \in Table : r.id \in Nat
      BY <1>1, TableIs DEF Rows
    <3>2. k < row.id
      BY <1>5, <1>6, <2>4, <3>1 DEF Means
    <3>3. row \in Table' /\ row.id >= k /\ row.id # k
      BY <1>5, <1>6, <3>2
    <3>4. \A r \in Table' : r.id = k => r.point = q
      BY <1>4, <1>6, <2>4, <3>3 DEF Means
    <3>5. QED
      BY <3>2, <3>3, <3>4 DEF Means
  <2>5. ASSUME NEW e \in Devices, loop'[e].pc = "ring", loop'[e].row # 0
        PROVE  [id |-> loop'[e].row, point |-> loop'[e].point] \in Table'
    <3>1. CASE e = d
      BY <1>6, <1>8, <1>9, <3>1
    <3>2. CASE e # d
      <4>1. loop'[e] = loop[e]
        BY <1>9, <3>2
      <4> DEFINE r == [id |-> loop[e].row, point |-> loop[e].point]
      <4>2. r \in Table /\ loop[e].point \in Waiting
        BY <2>1, <2>5, <4>1 DEF SameRow, Waiting
      <4>3. r.point \in PointsOf(cached) /\ r.point \in Waiting
        BY <1>1, <4>2, TableIs
      <4>4. r.point \in PointsOf(Kept)
        BY <1>11, <2>1, <4>3
      <4> HIDE DEF r
      <4>5. PICK q \in ToSet(Kept) : q.point = r.point
        BY <1>4, <4>4
      <4>6. q \in Table /\ cached \in Seq(Rows)
        BY <1>1, <1>4 DEF TypeOK
      <4>7. PICK i \in DOMAIN cached, j \in DOMAIN cached : cached[i] = q /\ cached[j] = r
        BY <4>2, <4>6, Listed DEF Table
      <4>8. q = r
        BY <1>4, <4>5, <4>7 DEF Apart
      <4>9. QED
        BY <1>6, <4>1, <4>5, <4>8 DEF r
    <3>3. QED
      BY <3>1, <3>2
  <2>6. ASSUME NEW j \in DOMAIN flush.rows, flush.rows[j] # 0
        PROVE  Means(flush.rows[j], flush.points[j])'
    <3>1. flush.rows[j] \in Nat
      BY <1>1, FlushIs
    <3>2. Means(flush.rows[j], flush.points[j])
      BY <2>1, <2>6 DEF SameRow
    <3>3. /\ \A r \in Table' : r.id = flush.rows[j] => r.point = flush.points[j]
          /\ \E r \in Table' : r.id >= flush.rows[j]
      BY <2>4, <3>1, <3>2
    <3>4. QED
      BY <1>2, <3>3 DEF Means
  <2>7. ASSUME NEW i \in DOMAIN ring PROVE HasRow(i)'
    <3>1. SUFFICES ASSUME ring[i].row # 0, ring[i].point \notin Bad
                   PROVE  Means(ring[i].row, ring[i].point)' /\ \E r \in Table' : r.id = ring[i].row \/ Outlasts(r, i)'
      BY <1>2 DEF HasRow
    <3>2. Means(ring[i].row, ring[i].point) /\ ring[i].row \in Nat
      BY <1>1, <2>1, <2>7, <3>1, RingIs DEF SameRow, HasRow
    <3>3. ring[i].row < row.id /\ Means(ring[i].row, ring[i].point)'
      <4>1. /\ ring[i].row < row.id
            /\ \A r \in Table' : r.id = ring[i].row => r.point = ring[i].point
            /\ \E r \in Table' : r.id >= ring[i].row
        BY <2>4, <3>2
      <4>2. QED
        BY <1>2, <4>1 DEF Means
    <3>4. \A j \in DOMAIN ring : ring[j].point # p
      BY <1>1, <1>3, RingIs
    <3>5. row.id > ring[i].row
      BY <1>5, <3>2, <3>3
    <3>6. Outlasts(row, i)'
      BY <1>2, <1>3, <1>5, <3>4, <3>5 DEF Outlasts
    <3>7. QED
      BY <1>6, <3>3, <3>6
  <2>8. QED
    BY <1>2, <2>3, <2>5, <2>6, <2>7 DEF SameRow
<1>17. CachedIsKept'
  <2>1. PointsOf(cached) \subseteq PointsOf(cached') \cup Outdated
    BY <1>6, <1>11
  <2>2. QED
    BY <1>1, <1>2, <1>5, <1>6, <2>1 DEF CachedIsKept
<1>18. Counted'
  BY <1>7 DEF Counted
<1>19. GivesUp
  BY <1>2, <1>11, <1>12 DEF GivesUp
<1>20. QED
  BY <1>13, <1>14, <1>15, <1>16, <1>17, <1>18, <1>19 DEF IInv

LEMMA AddToCacheStep ==
    ASSUME IInv, NEW d \in Devices, AddToCache(d)
    PROVE  IInv' /\ GivesUp
<1> DEFINE row == [id |-> LastId(Kept) + 1, point |-> loop[d].point]
<1>1. loop[d].pc = "cache" /\ UNCHANGED <<influx, read, ring, flush, restarts, dropped>>
  BY DEF AddToCache
<1>2. CASE /\ cached' = Append(Kept, row) /\ count' = Less(count + 1, IF Full THEN Evicted ELSE 0)
           /\ saved' = saved \cup {loop[d].point} /\ pushed' = pushed \cup Outdated
           /\ strayed' = strayed \cup (Outdated \cap Waiting)
           /\ loop' = [loop EXCEPT ![d] = [pc |-> "ring", point |-> loop[d].point, row |-> LastId(Kept) + 1]]
  <2>1. row.id = LastId(Kept) + 1 /\ row.point = loop[d].point
    OBVIOUS
  <2>2. QED
    BY <1>1, <1>2, <2>1, RowAddedStep
<1>3. CASE Goto(d, "ring") /\ UNCHANGED <<cached, count, saved, pushed, strayed>>
  <2>1. /\ TypeOK /\ read \in 0..MaxPoints /\ read \in Nat
        /\ Places \cup written \cup dropped \subseteq 1..read
        /\ available \in BOOLEAN /\ fails \in 0..MaxFails
    BY Bounds DEF IInv, TypeOK
  <2>2. loop[d] # Sleeping /\ loop[d].point \in 1..read /\ loop[d].point \in Places /\ loop[d].row = 0
    BY <1>1, <2>1, LoopIs DEF Sleeping, IInv, OneLoop, Places, InMemory
  <2>3. PICK l \in Loops : /\ loop' = [loop EXCEPT ![d] = l] /\ l # Sleeping /\ l.pc = "ring"
                           /\ l.point = loop[d].point /\ l.row = 0
    BY <1>3, <2>1, <2>2, GotoIs
  <2>4. /\ UNCHANGED <<cache, flush, restarts, strayed>> /\ written' = written /\ dropped' = dropped
        /\ skipped' = skipped /\ read' = read /\ fails' = fails /\ pushed' = pushed
    BY <1>1, <1>3 DEF influx, cache
  <2>5. available' \in BOOLEAN
    BY <1>1, <2>1 DEF influx
  <2>6. fails' \in 0..MaxFails /\ read' \in 0..MaxPoints /\ read <= read' /\ l.point \in 1..read'
        /\ dropped' \subseteq 1..read' /\ written' \ written = {} /\ skipped' \ skipped = {}
    BY <2>1, <2>2, <2>3, <2>4
  <2>7. /\ IInv' /\ Places' \subseteq Places \cup {l.point}
        /\ Places \subseteq Places' \cup {loop[d].point} /\ l.point \in Places'
    BY <1>1, <2>2, <2>3, <2>4, <2>5, <2>6, LoopStep
  <2>8. Places' = Places /\ Lost' = Lost
    BY <2>2, <2>3, <2>4, <2>7 DEF Lost
  <2>9. QED
    BY <2>4, <2>7, <2>8 DEF GivesUp
<1>4. QED
  BY <1>2, <1>3 DEF AddToCache

-----------------------------------------------------------------------------
(* The invariant holds.                                                    *)

LEMMA Beginning == Init => IInv /\ Places = {} /\ read = 0
<1> SUFFICES ASSUME Init PROVE IInv /\ Places = {} /\ read = 0
  OBVIOUS
<1>1. /\ available \in BOOLEAN /\ fails = 0 /\ written = {} /\ skipped = {} /\ read = 0
      /\ loop = [d \in Devices |-> Sleeping] /\ cached = <<>> /\ count = 0 /\ ring = <<>>
      /\ flush = Idle("restore") /\ restarts = 0
      /\ saved = {} /\ pushed = {} /\ strayed = {} /\ dropped = {}
  BY DEF Init
<1>2. /\ flush.pc = "restore" /\ flush.rows = <<>> /\ flush.points = <<>> /\ ToSet(flush.points) = {}
      /\ Len(flush.rows) = Len(flush.points) /\ DOMAIN flush.rows = {}
      /\ PointsOf(ring) = {} /\ DOMAIN ring = {} /\ Len(ring) = 0
      /\ PointsOf(cached) = {} /\ DOMAIN cached = {} /\ Len(cached) = 0
  BY <1>1, IdleIs, Nothing
<1>3. \A d \in Devices : loop[d] = Sleeping /\ loop[d].point = 0 /\ loop[d].pc = "sleep"
  BY <1>1 DEF Sleeping
<1>4. InHand = {} /\ InMemory = {} /\ Places = {}
  <2>1. InHand = {}
    BY <1>3 DEF InHand
  <2>2. QED
    BY <1>2, <2>1 DEF InMemory, Places
<1>5. TypeOK
  <2>1. MaxFails \in Nat /\ MaxRestarts \in Nat /\ MaxPoints \in Nat /\ MaxRing \in Nat
    BY Bounds
  <2>2. fails \in 0..MaxFails /\ restarts \in 0..MaxRestarts /\ read \in 0..MaxPoints /\ count \in Nat
        /\ Len(ring) <= MaxRing
    BY <1>1, <1>2, <2>1
  <2>3. ring \in Seq(Records) /\ cached \in Seq(Rows)
    BY <1>1
  <2>4. loop \in [Devices -> {Sleeping} \cup [pc : {"write", "cache", "ring"}, point : Points, row : Nat]]
    BY <1>1
  <2>5. QED
    BY <1>1, <1>2, <1>4, <2>2, <2>3, <2>4 DEF TypeOK
<1>6. Counted /\ OneLoop /\ InStep /\ CachedIsKept
  BY <1>1, <1>2, <1>3 DEF Counted, OneLoop, Apart, InStep, CachedIsKept
<1>7. OnePlace /\ SameRow
  BY <1>2, <1>3 DEF OnePlace, SameRow, Apart
<1>8. QED
  BY <1>1, <1>4, <1>5, <1>6, <1>7 DEF IInv

LEMMA InvNext == IInv /\ [Next]_vars => IInv' /\ Flow
<1> SUFFICES ASSUME IInv, [Next]_vars PROVE IInv' /\ Flow
  OBVIOUS
<1>1. ASSUME NEW d \in Devices, Collection(d) PROVE IInv' /\ Flow
  BY <1>1, CollectStep, WriteStep, AddToCacheStep, PutRingStep, CancelStep DEF Collection, Flow
<1>2. CASE CheckHealth
  BY <1>2, CheckHealthStep DEF Flow
<1>3. CASE FlushStep
  BY <1>3, RestoreStep, TakeStep, FlushWriteStep, MarkSyncedStep, MarkFailedStep, DeleteCachedStep
     DEF FlushStep, Flow
<1>4. CASE Restart
  BY <1>4, RestartStep DEF Flow
<1>5. CASE UNCHANGED vars
  <2>1. UNCHANGED <<written, skipped, read, loop, cache, flush, restarts, strayed, dropped>>
        /\ available' \in BOOLEAN /\ fails' \in 0..MaxFails
    BY <1>5 DEF vars, influx, IInv, TypeOK
  <2>2. QED
    BY <2>1, HealthStep DEF Flow
<1>6. QED
  BY <1>1, <1>2, <1>3, <1>4, <1>5 DEF Next

LEMMA InvHolds == Spec => []IInv
<1>1. Init => IInv
  BY Beginning
<1>2. QED
  BY <1>1, InvNext, PTL DEF Spec

-----------------------------------------------------------------------------
(* OfflineCache is type correct: the ids of the table grow with its rows,  *)
(* the ring never exceeds its capacity, and nothing is held, written or    *)
(* given up that was not collected.                                        *)
THEOREM TypeOKHolds == Spec => []TypeOK
<1>1. IInv => TypeOK
  BY DEF IInv
<1>2. QED
  BY <1>1, InvHolds, PTL

(* A point add_to_cache put into the table is there until InfluxDB has it, *)
(* the storage skipped it as no number, or its row made room, however      *)
(* often InfluxDB refuses it, the delete fails or the process restarts, as *)
(* long as nothing strayed.                                                *)
THEOREM CachedIsKeptHolds == Spec => []CachedIsKept
<1>1. IInv => CachedIsKept
  BY DEF IInv
<1>2. QED
  BY <1>1, InvHolds, PTL

-----------------------------------------------------------------------------
LEMMA FlowMaps == IInv /\ Flow => [Path!Next]_(Path!vars)
<1> SUFFICES ASSUME IInv, Flow PROVE Path!Next
  OBVIOUS
<1>1. CASE GivesUp
  <2>1. Path!GivesUp(Places, Places', written, Lost, Lost')
    BY <1>1 DEF GivesUp, Lost, Path!GivesUp
  <2>2. QED
    BY <2>1, Path!GivingUpMaps DEF Path!Next
<1>2. CASE TakesIn
  <2>1. read + 1 \in Points /\ read + 1 \notin Places \cup written \cup Lost
    <3>1. read \in Nat /\ Places \cup written \cup Lost \subseteq 1..read
      BY Bounds DEF IInv, TypeOK, Lost
    <3>2. QED
      BY <1>2, <3>1 DEF TakesIn
  <2>2. Path!TakesIn(Places, Places', written, Lost, Lost', read + 1)
    BY <1>2, <2>1 DEF TakesIn, Lost, Path!TakesIn
  <2>3. QED
    BY <2>1, <2>2, Path!ArrivalMaps DEF Path!Next
<1>3. CASE Confirms
  <2>1. Path!Confirms(Places, Places', written, written', Lost)
    BY <1>3 DEF Confirms, Lost, Path!Confirms
  <2>2. QED
    BY <2>1, Path!DeliveryMaps DEF Path!Next
<1>4. QED
  BY <1>1, <1>2, <1>3 DEF Flow

LEMMA PathIsNorth == (Path!Init <=> North!Init) /\ ([Path!Next]_(Path!vars) <=> [North!Next]_(North!vars))
BY DEF Path!Init, North!Init, Path!Next, North!Next, Path!vars, North!vars,
       Path!Accept, North!Accept, Path!Deliver, North!Deliver, Path!GiveUp, North!GiveUp

(* The cache implements the store-and-forward path: every step of the      *)
(* loops, the flush, the health check or a crash takes in the next point,  *)
(* confirms points InfluxDB took, gives points up by one of the named      *)
(* rules, or leaves the path as it is.                                     *)
THEOREM PromiseHolds == Spec => Promise
<1>1. Init => North!Init
  BY Beginning DEF Init, North!Init
<1>2. IInv /\ [Next]_vars => [North!Next]_(North!vars)
  BY InvNext, FlowMaps, PathIsNorth
<1>3. QED
  BY <1>1, <1>2, InvHolds, PTL DEF Spec, Promise, North!Spec

(* Every point collected so far is at one of its places, written, or given *)
(* up by one of the named rules, one of which is that the storage skips    *)
(* what has no value or one that is no number.                             *)
Accounted == 1..read \subseteq Places \cup written \cup Lost

(* No step of collection, caching or flushing loses a point without a      *)
(* trace, strayed or not.                                                  *)
THEOREM AccountedHolds == Spec => []Accounted
<1>1. Init => Accounted
  BY Beginning DEF Accounted
<1>2. IInv /\ Accounted /\ [Next]_vars => Accounted'
  <2>1. SUFFICES ASSUME IInv, Accounted, Flow PROVE Accounted'
    BY InvNext
  <2>2. CASE GivesUp
    BY <2>1, <2>2 DEF Accounted, GivesUp
  <2>3. CASE TakesIn
    <3>1. read \in Nat
      BY <2>1, Bounds DEF IInv, TypeOK
    <3>2. 1..read' \subseteq 1..read \cup {read + 1}
      BY <2>3, <3>1 DEF TakesIn
    <3>3. QED
      BY <2>1, <2>3, <3>2 DEF Accounted, TakesIn
  <2>4. CASE Confirms
    BY <2>1, <2>4 DEF Accounted, Confirms
  <2>5. QED
    BY <2>1, <2>2, <2>3, <2>4 DEF Flow
<1>3. QED
  BY <1>1, <1>2, InvHolds, PTL DEF Spec

-----------------------------------------------------------------------------
(* The breaker: the theorems from here on are about CircuitBreaker.        *)

(* The decisions of the breaker return breakers.                           *)
LEMMA FreshType == Fresh \in BreakerSet
BY ThresholdsAssumption DEF Fresh, BreakerSet, CircuitStates

LEMMA HalfOpenType ==
    ASSUME NEW b \in BreakerSet
    PROVE  HalfOpen(b) \in BreakerSet
<1>1. 0 \in 0..HalfOpenMax /\ 0 \in 0..SuccessThreshold /\ 0 \in 0..FailureThreshold
  BY ThresholdsAssumption
<1> QED
  BY <1>1 DEF HalfOpen, BreakerSet, CircuitStates

LEMMA AdmittedType ==
    ASSUME NEW b \in BreakerSet, MayRun(b)
    PROVE  Admitted(b) \in BreakerSet
<1>1. CASE b.state = "closed"
  BY <1>1 DEF Admitted
<1>2. CASE b.state = "open"
  <2>1. HalfOpen(b) \in BreakerSet /\ 1 \in 0..HalfOpenMax
    BY HalfOpenType, ThresholdsAssumption
  <2>2. Admitted(b) = [HalfOpen(b) EXCEPT !.probes = 1]
    BY <1>2 DEF Admitted
  <2> QED
    BY <2>1, <2>2 DEF BreakerSet
<1>3. CASE b.state = "half_open"
  <2>1. b.probes \in Nat /\ b.probes < HalfOpenMax
    BY <1>3 DEF MayRun, BreakerSet
  <2>2. b.probes + 1 \in 0..HalfOpenMax
    BY <2>1, ThresholdsAssumption
  <2>3. Admitted(b) = [b EXCEPT !.probes = b.probes + 1]
    BY <1>3 DEF Admitted
  <2> QED
    BY <2>2, <2>3 DEF BreakerSet
<1> QED
  BY <1>1, <1>2, <1>3 DEF BreakerSet, CircuitStates

LEMMA CountUpType ==
    ASSUME NEW m \in Nat, NEW n \in 0..m
    PROVE  CountUp(n, m) \in 0..m
BY DEF CountUp

LEMMA OnSuccessType ==
    ASSUME NEW b \in BreakerSet
    PROVE  OnSuccess(b) \in BreakerSet
<1> DEFINE counted == [b EXCEPT !.failures = 0,
                                !.successes = CountUp(b.successes, SuccessThreshold)]
<1>1. CountUp(b.successes, SuccessThreshold) \in 0..SuccessThreshold
  BY CountUpType, ThresholdsAssumption DEF BreakerSet
<1>2. 0 \in 0..FailureThreshold
  BY ThresholdsAssumption
<1>3. counted \in BreakerSet
  BY <1>1, <1>2 DEF BreakerSet
<1>4. OnSuccess(b) = Fresh \/ OnSuccess(b) = counted
  BY DEF OnSuccess
<1> QED
  BY <1>3, <1>4, FreshType

LEMMA OnFailureType ==
    ASSUME NEW b \in BreakerSet
    PROVE  OnFailure(b) \in BreakerSet
<1> DEFINE counted == [b EXCEPT !.failures = CountUp(b.failures, FailureThreshold),
                                !.successes = 0]
<1>1. CountUp(b.failures, FailureThreshold) \in 0..FailureThreshold
  BY CountUpType, ThresholdsAssumption DEF BreakerSet
<1>2. 0 \in 0..SuccessThreshold
  BY ThresholdsAssumption
<1>3. counted \in BreakerSet
  BY <1>1, <1>2 DEF BreakerSet
<1>4. \/ OnFailure(b) = [counted EXCEPT !.state = "open", !.cooled = FALSE]
      \/ OnFailure(b) = counted
  BY DEF OnFailure
<1>5. [counted EXCEPT !.state = "open", !.cooled = FALSE] \in BreakerSet
  <2> HIDE DEF counted
  <2> QED
    BY <1>3 DEF BreakerSet, CircuitStates
<1> QED
  BY <1>3, <1>4, <1>5

(* What every outcome does to the bookkeeping around the breaker.          *)
LEMMA BecomeType ==
    ASSUME BreakerTypeOK, NEW b \in BreakerSet, NEW c \in Clients, NEW o \in {"ok", "fail"},
           Become(b, c, o)
    PROVE  BreakerTypeOK'
<1>1. call' \in [Clients -> CallKinds]
  BY DEF BreakerTypeOK, Become, CallKinds
<1>2. outcomes' \in Seq({"ok", "fail"})
  <2>1. Append(outcomes, o) \in Seq({"ok", "fail"}) /\ Append(outcomes, o) # <<>>
    BY DEF BreakerTypeOK
  <2>2. Tail(Append(outcomes, o)) \in Seq({"ok", "fail"})
    BY <2>1
  <2>3. Latest(Append(outcomes, o)) \in Seq({"ok", "fail"})
    BY <2>1, <2>2 DEF Latest
  <2> QED
    BY <2>3 DEF Become
<1> QED
  BY <1>1, <1>2 DEF BreakerTypeOK, Become

-----------------------------------------------------------------------------
(* CircuitBreaker is type correct.                                         *)
THEOREM TypeCorrect == BreakerSpec => []BreakerTypeOK
<1>1. BreakerInit => BreakerTypeOK
  <2> SUFFICES ASSUME BreakerInit PROVE BreakerTypeOK
    OBVIOUS
  <2>1. 0 \in 0..MaxAbandoned
    BY ClientsAssumption
  <2> QED
    BY <2>1, FreshType DEF BreakerInit, BreakerTypeOK, CallKinds
<1>2. BreakerTypeOK /\ [BreakerNext]_breakerVars => BreakerTypeOK'
  <2> SUFFICES ASSUME BreakerTypeOK, [BreakerNext]_breakerVars PROVE BreakerTypeOK'
    OBVIOUS
  <2>1. ASSUME NEW c \in Clients, Admit(c) PROVE BreakerTypeOK'
    <3>1. breaker' \in BreakerSet
      BY <2>1, AdmittedType DEF Admit, BreakerTypeOK
    <3>2. abandoned' \in 0..MaxAbandoned
      BY <2>1, ClientsAssumption DEF Admit, BreakerTypeOK
    <3> QED
      BY <2>1, <3>1, <3>2 DEF Admit, BreakerTypeOK, CallKinds
  <2>2. ASSUME NEW c \in Clients, Post(c) PROVE BreakerTypeOK'
    BY <2>2 DEF Post, BreakerTypeOK, CallKinds
  <2>3. ASSUME NEW c \in Clients, Finish(c) PROVE BreakerTypeOK'
    <3>1. CASE Succeed(c)
      <4>1. OnSuccess(breaker) \in BreakerSet
        BY OnSuccessType DEF BreakerTypeOK
      <4> QED
        BY <3>1, <4>1, BecomeType DEF Succeed
    <3>2. CASE Fail(c)
      <4>1. OnFailure(breaker) \in BreakerSet
        BY OnFailureType DEF BreakerTypeOK
      <4> QED
        BY <3>2, <4>1, BecomeType DEF Fail
    <3> QED
      BY <2>3, <3>1, <3>2 DEF Finish
  <2>4. ASSUME NEW c \in Clients, Abandon(c) PROVE BreakerTypeOK'
    <3>1. abandoned' \in 0..MaxAbandoned
      BY <2>4, ClientsAssumption DEF Abandon, BreakerTypeOK
    <3> QED
      BY <2>4, <3>1 DEF Abandon, BreakerTypeOK, CallKinds
  <2>5. CASE CoolDown
    BY <2>5 DEF CoolDown, BreakerTypeOK, BreakerSet
  <2>6. CASE Reset \/ RemoveBreaker
    <3>1. breaker' \in BreakerSet
      BY <2>6, FreshType DEF Reset, RemoveBreaker
    <3>2. call' \in [Clients -> CallKinds]
      BY <2>6 DEF Reset, RemoveBreaker, BreakerTypeOK, CallKinds
    <3>3. outcomes' = <<>> /\ UNCHANGED <<sick, abandoned>>
      BY <2>6 DEF Reset, RemoveBreaker
    <3>4. outcomes' \in Seq({"ok", "fail"})
      BY <3>3
    <3> QED
      BY <3>1, <3>2, <3>3, <3>4 DEF BreakerTypeOK
  <2>7. CASE Heal
    BY <2>7 DEF Heal, BreakerTypeOK
  <2>8. CASE UNCHANGED breakerVars
    BY <2>8 DEF breakerVars, BreakerTypeOK
  <2> QED
    BY <2>1, <2>2, <2>3, <2>4, <2>5, <2>6, <2>7, <2>8 DEF BreakerNext
<1> QED
  BY <1>1, <1>2, PTL DEF BreakerSpec

-----------------------------------------------------------------------------
(* A reached threshold is acted upon, whatever calls are still in flight.  *)
THEOREM ThresholdsActedOnHolds == BreakerSpec => []ThresholdsActedOn
<1>1. BreakerInit => ThresholdsActedOn
  BY ThresholdsAssumption DEF BreakerInit, Fresh, ThresholdsActedOn
<1>2. BreakerTypeOK /\ ThresholdsActedOn /\ [BreakerNext]_breakerVars => ThresholdsActedOn'
  <2> SUFFICES ASSUME BreakerTypeOK, ThresholdsActedOn, [BreakerNext]_breakerVars
               PROVE  ThresholdsActedOn'
    OBVIOUS
  <2>1. ASSUME NEW c \in Clients, Admit(c) PROVE ThresholdsActedOn'
    BY <2>1, ThresholdsAssumption
       DEF Admit, MayRun, Admitted, HalfOpen, BreakerTypeOK, BreakerSet, CircuitStates,
           ThresholdsActedOn
  <2>2. ASSUME NEW c \in Clients, Succeed(c) PROVE ThresholdsActedOn'
    BY <2>2, ThresholdsAssumption
       DEF Succeed, Become, OnSuccess, CountUp, Fresh, BreakerTypeOK, BreakerSet, CircuitStates,
           ThresholdsActedOn
  <2>3. ASSUME NEW c \in Clients, Fail(c) PROVE ThresholdsActedOn'
    BY <2>3, ThresholdsAssumption
       DEF Fail, Become, OnFailure, CountUp, BreakerTypeOK, BreakerSet, CircuitStates,
           ThresholdsActedOn
  <2>4. CASE CoolDown
    BY <2>4 DEF CoolDown, BreakerTypeOK, BreakerSet, ThresholdsActedOn
  <2>5. CASE Reset \/ RemoveBreaker
    BY <2>5, ThresholdsAssumption DEF Reset, RemoveBreaker, Fresh, ThresholdsActedOn
  <2>6. ASSUME UNCHANGED breaker PROVE ThresholdsActedOn'
    BY <2>6 DEF ThresholdsActedOn
  <2> QED
    BY <2>1, <2>2, <2>3, <2>4, <2>5, <2>6
       DEF BreakerNext, Finish, Post, Abandon, Heal, breakerVars
<1> QED
  BY <1>1, <1>2, TypeCorrect, PTL DEF BreakerSpec

-----------------------------------------------------------------------------
(* The slots of a trial, accounted for: each one taken was a success, an   *)
(* abandoned probe, or is in flight.  A failure ends the trial, so it      *)
(* leaves nothing to account for.                                          *)
SlotsAccounted ==
    /\ breaker.state # "half_open" => ProbesInFlight = {}
    /\ breaker.state = "half_open" =>
         breaker.probes <= breaker.successes + abandoned + Cardinality(ProbesInFlight)

LEMMA ProbesFinite ==
    IsFiniteSet(ProbesInFlight) /\ Cardinality(ProbesInFlight) \in Nat
<1>1. IsFiniteSet(Clients)
  BY ClientsAssumption, FS_Union DEF Clients
<1>2. ProbesInFlight \in SUBSET Clients
  BY DEF ProbesInFlight
<1>3. IsFiniteSet(ProbesInFlight)
  BY <1>1, <1>2, FS_Subset
<1> QED
  BY <1>3, FS_CardinalityType

(* The outcome of a call leaves the other probes in flight, unless it ends *)
(* the trial.                                                              *)
LEMMA BecomeProbes ==
    ASSUME BreakerTypeOK, NEW b, NEW c \in Clients, NEW o, Become(b, c, o)
    PROVE  ProbesInFlight' = IF breaker.state = "half_open" /\ b.state # "half_open"
                             THEN {} ELSE ProbesInFlight \ {c}
BY DEF BreakerTypeOK, Become, ProbesInFlight, CallKinds

(* A half-open breaker always has a slot left or a probe in flight, if no  *)
(* more probes of a trial are abandoned than the trial can spare.          *)
THEOREM NeverWedgedHolds ==
    ASSUME MaxAbandoned + SuccessThreshold <= HalfOpenMax
    PROVE  BreakerSpec => []NeverWedged
<1>1. BreakerInit => SlotsAccounted
  BY DEF BreakerInit, Fresh, SlotsAccounted, ProbesInFlight
<1>2. BreakerTypeOK /\ ThresholdsActedOn /\ SlotsAccounted /\ [BreakerNext]_breakerVars => SlotsAccounted'
  <2> SUFFICES ASSUME BreakerTypeOK, ThresholdsActedOn, SlotsAccounted, [BreakerNext]_breakerVars
               PROVE  SlotsAccounted'
    OBVIOUS
  <2>t. /\ breaker.state \in CircuitStates
        /\ breaker.probes \in Nat /\ breaker.successes \in Nat /\ abandoned \in Nat
    BY ThresholdsAssumption, ClientsAssumption DEF BreakerTypeOK, BreakerSet
  <2>f. IsFiniteSet(ProbesInFlight) /\ Cardinality(ProbesInFlight) \in Nat
    BY ProbesFinite
  <2>1. ASSUME NEW c \in Clients, Admit(c) PROVE SlotsAccounted'
    <3>1. CASE breaker.state = "closed"
      <4>1. breaker' = breaker /\ ProbesInFlight' = ProbesInFlight
        BY <2>1, <3>1 DEF Admit, Admitted, ProbesInFlight, BreakerTypeOK, CallKinds
      <4> QED
        BY <3>1, <4>1 DEF SlotsAccounted
    <3>2. CASE breaker.state = "open"
      <4>1. breaker'.state = "half_open" /\ breaker'.probes = 1
            /\ breaker'.successes = 0 /\ abandoned' = 0
        BY <2>1, <3>2 DEF Admit, Admitted, HalfOpen, BreakerTypeOK, BreakerSet
      <4>2. ProbesInFlight' = ProbesInFlight \cup {c} /\ ProbesInFlight = {}
        BY <2>1, <3>2 DEF Admit, SlotsAccounted, ProbesInFlight, BreakerTypeOK, CallKinds
      <4>3. Cardinality(ProbesInFlight') = 1
        BY <4>2, FS_AddElement, FS_EmptySet
      <4> QED
        BY <4>1, <4>3 DEF SlotsAccounted
    <3>3. CASE breaker.state = "half_open"
      <4>1. /\ breaker'.state = "half_open" /\ breaker'.probes = breaker.probes + 1
            /\ breaker'.successes = breaker.successes /\ abandoned' = abandoned
        BY <2>1, <3>3 DEF Admit, Admitted, BreakerTypeOK, BreakerSet
      <4>2. ProbesInFlight' = ProbesInFlight \cup {c} /\ c \notin ProbesInFlight
        BY <2>1, <3>3 DEF Admit, ProbesInFlight, BreakerTypeOK, CallKinds
      <4>3. Cardinality(ProbesInFlight') = Cardinality(ProbesInFlight) + 1
        BY <2>f, <4>2, FS_AddElement
      <4> QED
        BY <2>t, <2>f, <3>3, <4>1, <4>3 DEF SlotsAccounted
    <3> QED
      BY <2>t, <3>1, <3>2, <3>3 DEF CircuitStates
  <2>2. ASSUME NEW c \in Clients, Post(c) PROVE SlotsAccounted'
    <3>1. ProbesInFlight' = ProbesInFlight
      BY <2>2 DEF Post, ProbesInFlight, BreakerTypeOK, CallKinds
    <3> QED
      BY <2>2, <3>1 DEF Post, SlotsAccounted
  <2>3. ASSUME NEW c \in Clients, Succeed(c) PROVE SlotsAccounted'
    <3>1. breaker' = OnSuccess(breaker) /\ abandoned' = abandoned
      BY <2>3 DEF Succeed, Become
    <3>2. ProbesInFlight' = IF breaker.state = "half_open" /\ breaker'.state # "half_open"
                            THEN {} ELSE ProbesInFlight \ {c}
      BY <2>3, <3>1, BecomeProbes DEF Succeed
    <3>3. CASE breaker'.state # "half_open"
      <4>1. breaker.state # "half_open" => ProbesInFlight \ {c} = {}
        BY DEF SlotsAccounted
      <4> QED
        BY <3>2, <3>3, <4>1 DEF SlotsAccounted
    <3>4. CASE breaker'.state = "half_open"
      <4>1. /\ breaker.state = "half_open" /\ breaker'.probes = breaker.probes
            /\ breaker'.successes = breaker.successes + 1
        BY <3>1, <3>4, ThresholdsAssumption
           DEF OnSuccess, CountUp, Fresh, ThresholdsActedOn, BreakerTypeOK, BreakerSet
      <4>2. ProbesInFlight' = ProbesInFlight \ {c}
        BY <3>2, <3>4
      <4>3. Cardinality(ProbesInFlight') >= Cardinality(ProbesInFlight) - 1
            /\ Cardinality(ProbesInFlight') \in Int
        BY <2>f, <4>2, FS_RemoveElement
      <4> QED
        BY <2>t, <2>f, <3>1, <3>4, <4>1, <4>3 DEF SlotsAccounted
    <3> QED
      BY <3>3, <3>4
  <2>4. ASSUME NEW c \in Clients, Fail(c) PROVE SlotsAccounted'
    <3>1. breaker'.state # "half_open"
      BY <2>4, <2>t
         DEF Fail, Become, OnFailure, CircuitStates, BreakerTypeOK, BreakerSet
    <3>2. ProbesInFlight' = IF breaker.state = "half_open" /\ breaker'.state # "half_open"
                            THEN {} ELSE ProbesInFlight \ {c}
      <4>1. Become(breaker', c, "fail")
        BY <2>4 DEF Fail, Become
      <4> QED
        BY <4>1, BecomeProbes
    <3>3. ProbesInFlight' = {}
      BY <3>1, <3>2 DEF SlotsAccounted
    <3> QED
      BY <3>1, <3>3 DEF SlotsAccounted
  <2>5. ASSUME NEW c \in Clients, Abandon(c) PROVE SlotsAccounted'
    <3>1. ProbesInFlight' = ProbesInFlight \ {c} /\ breaker' = breaker
      BY <2>5 DEF Abandon, ProbesInFlight, BreakerTypeOK, CallKinds
    <3>2. CASE call[c] = "probe"
      <4>1. c \in ProbesInFlight /\ abandoned' = abandoned + 1
        BY <2>5, <3>2 DEF Abandon, ProbesInFlight
      <4>2. Cardinality(ProbesInFlight') = Cardinality(ProbesInFlight) - 1
        BY <2>f, <3>1, <4>1, FS_RemoveElement
      <4> QED
        BY <2>t, <2>f, <3>1, <4>1, <4>2 DEF SlotsAccounted
    <3>3. CASE call[c] # "probe"
      <4>1. ProbesInFlight' = ProbesInFlight /\ abandoned' = abandoned
        BY <2>5, <3>1, <3>3 DEF Abandon, ProbesInFlight
      <4> QED
        BY <3>1, <4>1 DEF SlotsAccounted
    <3> QED
      BY <3>2, <3>3
  <2>6. CASE CoolDown
    <3>1. /\ breaker'.state = "open" /\ breaker.state = "open"
          /\ ProbesInFlight' = ProbesInFlight
      BY <2>6 DEF CoolDown, BreakerTypeOK, BreakerSet, ProbesInFlight
    <3> QED
      BY <3>1 DEF SlotsAccounted
  <2>7. CASE Reset \/ RemoveBreaker
    <3>1. breaker'.state = "closed" /\ ProbesInFlight' = {}
      BY <2>7 DEF Reset, RemoveBreaker, Fresh, ProbesInFlight, BreakerTypeOK, CallKinds
    <3> QED
      BY <3>1 DEF SlotsAccounted
  <2>8. ASSUME UNCHANGED <<breaker, call, abandoned>> PROVE SlotsAccounted'
    BY <2>8 DEF SlotsAccounted, ProbesInFlight
  <2> QED
    BY <2>1, <2>2, <2>3, <2>4, <2>5, <2>6, <2>7, <2>8
       DEF BreakerNext, Finish, Heal, breakerVars
<1>3. BreakerTypeOK /\ ThresholdsActedOn /\ SlotsAccounted => NeverWedged
  <2> SUFFICES ASSUME BreakerTypeOK, ThresholdsActedOn, SlotsAccounted,
                      breaker.state = "half_open", ProbesInFlight = {}
               PROVE  breaker.probes < HalfOpenMax
    BY DEF NeverWedged
  <2>1. breaker.probes <= breaker.successes + abandoned + 0
    BY FS_EmptySet DEF SlotsAccounted
  <2>2. breaker.successes < SuccessThreshold /\ abandoned <= MaxAbandoned
    BY DEF ThresholdsActedOn, BreakerTypeOK
  <2>3. /\ breaker.probes \in Nat /\ breaker.successes \in Nat /\ abandoned \in Nat
        /\ {MaxAbandoned, SuccessThreshold, HalfOpenMax} \subseteq Nat
    BY ThresholdsAssumption, ClientsAssumption DEF BreakerTypeOK, BreakerSet
  <2> QED
    BY <2>1, <2>2, <2>3
<1> QED
  BY <1>1, <1>2, <1>3, TypeCorrect, ThresholdsActedOnHolds, PTL DEF BreakerSpec

-----------------------------------------------------------------------------
(* What the counts stand for: the failures of a closed breaker are its     *)
(* latest outcomes, the successes of a trial were all recorded during it.  *)
CountsAreOutcomes ==
    /\ Len(outcomes) <= OutcomesKept
    /\ breaker.state = "closed" =>
         /\ breaker.failures <= Len(outcomes)
         /\ \A i \in Len(outcomes) - breaker.failures + 1 .. Len(outcomes) : outcomes[i] = "fail"
    /\ breaker.state = "half_open" => breaker.successes <= Len(outcomes)

(* One more outcome, and the oldest one dropped if there are too many.     *)
LEMMA LatestOfAppend ==
    ASSUME NEW s \in Seq({"ok", "fail"}), NEW o \in {"ok", "fail"}, Len(s) <= OutcomesKept,
           NEW t, t = Latest(Append(s, o))
    PROVE  /\ t \in Seq({"ok", "fail"})
           /\ \/ Len(t) = Len(s) + 1 /\ Len(s) < OutcomesKept
                 /\ \A i \in 1..Len(s) : t[i] = s[i]
              \/ Len(t) = Len(s) /\ Len(s) = OutcomesKept
                 /\ \A i \in 1..Len(s) - 1 : t[i] = s[i + 1]
           /\ Len(t) > 0 /\ t[Len(t)] = o
<1> DEFINE u == Append(s, o)
<1>1. /\ OutcomesKept \in Nat \ {0} /\ Len(s) \in Nat
      /\ u \in Seq({"ok", "fail"}) /\ Len(u) = Len(s) + 1 /\ u[Len(s) + 1] = o
      /\ \A i \in 1..Len(s) : u[i] = s[i]
  BY ThresholdsAssumption DEF OutcomesKept
<1> HIDE DEF u
<1>2. CASE Len(u) <= OutcomesKept
  <2>1. t = u
    BY <1>1, <1>2 DEF Latest, u
  <2>2. QED
    BY <1>1, <1>2, <2>1
<1>3. CASE Len(u) > OutcomesKept
  <2>1. t = Tail(u)
    BY <1>3 DEF Latest, u
  <2>2. u # <<>>
    BY <1>1
  <2>3. t \in Seq({"ok", "fail"}) /\ Len(t) = Len(u) - 1 /\ \A i \in 1..Len(t) : t[i] = u[i + 1]
    BY <1>1, <2>1, <2>2
  <2>4. QED
    BY <1>1, <1>3, <2>3
<1>4. QED
  BY <1>1, <1>2, <1>3

LEMMA CountsInit == BreakerInit => CountsAreOutcomes
<1> SUFFICES ASSUME BreakerInit PROVE CountsAreOutcomes
  OBVIOUS
<1>1. breaker = Fresh /\ outcomes = <<>> /\ OutcomesKept \in Nat
  BY ThresholdsAssumption DEF BreakerInit, OutcomesKept
<1>2. QED
  BY <1>1 DEF CountsAreOutcomes, Fresh

LEMMA CountsNext ==
    BreakerTypeOK /\ ThresholdsActedOn /\ CountsAreOutcomes /\ [BreakerNext]_breakerVars => CountsAreOutcomes'
<1> SUFFICES ASSUME BreakerTypeOK, ThresholdsActedOn, CountsAreOutcomes, [BreakerNext]_breakerVars
             PROVE  CountsAreOutcomes'
  OBVIOUS
<1>t. /\ FailureThreshold \in Nat \ {0} /\ SuccessThreshold \in Nat \ {0}
      /\ OutcomesKept = FailureThreshold + SuccessThreshold
      /\ breaker.state \in CircuitStates /\ breaker.failures \in Nat /\ breaker.successes \in Nat
      /\ outcomes \in Seq({"ok", "fail"}) /\ Len(outcomes) \in Nat /\ Len(outcomes) <= OutcomesKept
  BY ThresholdsAssumption DEF BreakerTypeOK, BreakerSet, OutcomesKept, CountsAreOutcomes
<1>1. ASSUME NEW c \in Clients, Admit(c) PROVE CountsAreOutcomes'
  <2>1. CASE breaker.state = "open"
    <3>1. breaker'.state = "half_open" /\ breaker'.successes = 0 /\ outcomes' = <<>>
      BY <1>1, <2>1 DEF Admit, Admitted, HalfOpen, BreakerTypeOK, BreakerSet
    <3>2. QED
      BY <1>t, <3>1 DEF CountsAreOutcomes
  <2>2. CASE breaker.state # "open"
    <3>1. /\ breaker'.state = breaker.state /\ breaker'.failures = breaker.failures
          /\ breaker'.successes = breaker.successes /\ outcomes' = outcomes
      BY <1>1, <1>t, <2>2 DEF Admit, Admitted, BreakerTypeOK, BreakerSet, CircuitStates
    <3>2. QED
      BY <3>1 DEF CountsAreOutcomes
  <2>3. QED
    BY <2>1, <2>2
<1>2. ASSUME NEW c \in Clients, Succeed(c) PROVE CountsAreOutcomes'
  <2>1. CASE breaker'.state # breaker.state
    <3>1. breaker' = Fresh /\ outcomes' = <<>>
      BY <1>2, <2>1 DEF Succeed, Become, OnSuccess, BreakerTypeOK, BreakerSet
    <3>2. QED
      BY <1>t, <3>1 DEF CountsAreOutcomes, Fresh
  <2>2. CASE breaker'.state = breaker.state
    <3>1. /\ outcomes' = Latest(Append(outcomes, "ok"))
          /\ breaker.state = "closed" => breaker'.failures = 0
          /\ breaker.state = "half_open" => breaker'.successes = breaker.successes + 1
      BY <1>2, <1>t, <2>2 DEF Succeed, Become, OnSuccess, CountUp, Fresh, ThresholdsActedOn, BreakerTypeOK, BreakerSet
    <3>2. Len(outcomes') \in Nat /\ Len(outcomes') <= OutcomesKept /\ Len(outcomes') >= Len(outcomes)
          /\ (Len(outcomes') = Len(outcomes) + 1 \/ Len(outcomes) = OutcomesKept)
      BY <1>t, <3>1, LatestOfAppend
    <3>3. breaker.state = "half_open" => breaker.successes < SuccessThreshold /\ breaker.successes <= Len(outcomes)
      BY DEF ThresholdsActedOn, CountsAreOutcomes
    <3>4. QED
      BY <1>t, <2>2, <3>1, <3>2, <3>3 DEF CountsAreOutcomes
  <2>3. QED
    BY <2>1, <2>2
<1>3. ASSUME NEW c \in Clients, Fail(c) PROVE CountsAreOutcomes'
  <2>1. CASE breaker'.state # breaker.state
    <3>1. breaker'.state = "open" /\ outcomes' = <<>>
      BY <1>3, <2>1 DEF Fail, Become, OnFailure, BreakerTypeOK, BreakerSet
    <3>2. QED
      BY <1>t, <3>1 DEF CountsAreOutcomes
  <2>2. CASE breaker'.state = breaker.state
    <3>1. /\ outcomes' = Latest(Append(outcomes, "fail")) /\ breaker.state # "half_open"
          /\ breaker.state = "closed" => breaker'.failures = breaker.failures + 1
      BY <1>3, <1>t, <2>2 DEF Fail, Become, OnFailure, CountUp, ThresholdsActedOn, BreakerTypeOK, BreakerSet
    <3>2. PICK t : t = outcomes'
      OBVIOUS
    <3>3. /\ t \in Seq({"ok", "fail"}) /\ Len(t) \in Nat
          /\ \/ Len(t) = Len(outcomes) + 1 /\ Len(outcomes) < OutcomesKept
                /\ \A i \in 1..Len(outcomes) : t[i] = outcomes[i]
             \/ Len(t) = Len(outcomes) /\ Len(outcomes) = OutcomesKept
                /\ \A i \in 1..Len(outcomes) - 1 : t[i] = outcomes[i + 1]
          /\ Len(t) > 0 /\ t[Len(t)] = "fail"
      BY <1>t, <3>1, <3>2, LatestOfAppend
    <3>4. CASE breaker.state # "closed"
      BY <1>t, <2>2, <3>1, <3>2, <3>3, <3>4 DEF CountsAreOutcomes
    <3>5. CASE breaker.state = "closed"
      <4>1. /\ breaker.failures < FailureThreshold /\ breaker.failures <= Len(outcomes)
            /\ \A i \in Len(outcomes) - breaker.failures + 1 .. Len(outcomes) : outcomes[i] = "fail"
        BY <3>5 DEF ThresholdsActedOn, CountsAreOutcomes
      <4>2. breaker.failures + 1 <= Len(t) /\ Len(t) <= OutcomesKept
        BY <1>t, <3>3, <4>1
      <4>3. ASSUME NEW i \in Len(t) - breaker.failures .. Len(t) PROVE t[i] = "fail"
        <5>1. CASE i = Len(t)
          BY <3>3, <5>1
        <5>2. CASE i < Len(t) /\ Len(t) = Len(outcomes) + 1 /\ \A j \in 1..Len(outcomes) : t[j] = outcomes[j]
          <6>1. i \in 1..Len(outcomes) /\ i \in Len(outcomes) - breaker.failures + 1 .. Len(outcomes)
            BY <1>t, <4>1, <5>2
          <6>2. QED
            BY <4>1, <5>2, <6>1
        <5>3. CASE i < Len(t) /\ Len(t) = Len(outcomes) /\ Len(outcomes) = OutcomesKept
                   /\ \A j \in 1..Len(outcomes) - 1 : t[j] = outcomes[j + 1]
          <6>1. i \in 1..Len(outcomes) - 1 /\ i + 1 \in Len(outcomes) - breaker.failures + 1 .. Len(outcomes)
            BY <1>t, <4>1, <5>3
          <6>2. QED
            BY <4>1, <5>3, <6>1
        <5>4. QED
          BY <1>t, <3>3, <5>1, <5>2, <5>3
      <4>4. \A i \in Len(t) - (breaker.failures + 1) + 1 .. Len(t) : t[i] = "fail"
        BY <1>t, <3>3, <4>3
      <4>5. QED
        BY <2>2, <3>1, <3>2, <3>5, <4>2, <4>4 DEF CountsAreOutcomes
    <3>6. QED
      BY <3>4, <3>5
  <2>3. QED
    BY <2>1, <2>2
<1>4. CASE CoolDown
  BY <1>4 DEF CoolDown, BreakerTypeOK, BreakerSet, CountsAreOutcomes
<1>5. CASE Reset \/ RemoveBreaker
  <2>1. breaker' = Fresh /\ outcomes' = <<>>
    BY <1>5 DEF Reset, RemoveBreaker
  <2>2. QED
    BY <1>t, <2>1 DEF CountsAreOutcomes, Fresh
<1>6. ASSUME UNCHANGED <<breaker, outcomes>> PROVE CountsAreOutcomes'
  BY <1>6 DEF CountsAreOutcomes
<1>7. QED
  BY <1>1, <1>2, <1>3, <1>4, <1>5, <1>6 DEF BreakerNext, Finish, Post, Abandon, Heal, breakerVars

LEMMA CountsHold == BreakerSpec => [](BreakerTypeOK /\ ThresholdsActedOn /\ CountsAreOutcomes)
BY CountsInit, CountsNext, TypeCorrect, ThresholdsActedOnHolds, PTL DEF BreakerSpec

(* A closed breaker opens on FailureThreshold failures in a row and on     *)
(* nothing less, whichever clients report them and whatever late outcomes  *)
(* of earlier days come in between.                                        *)
THEOREM TripsOnStreakHolds == BreakerSpec => TripsOnStreak
<1> DEFINE Streak == /\ Len(outcomes) >= FailureThreshold - 1
                     /\ \A i \in Len(outcomes) - FailureThreshold + 2 .. Len(outcomes) : outcomes[i] = "fail"
<1>1. ASSUME BreakerTypeOK, ThresholdsActedOn, CountsAreOutcomes, BreakerNext,
             breaker.state = "closed", breaker'.state = "open"
      PROVE  Streak
  <2>1. PICK c \in Clients : Fail(c)
    <3>1. ASSUME NEW c \in Clients, Admit(c) PROVE FALSE
      BY <1>1, <3>1 DEF Admit, Admitted
    <3>2. ASSUME NEW c \in Clients, Succeed(c) PROVE FALSE
      BY <1>1, <3>2 DEF Succeed, Become, OnSuccess, BreakerTypeOK, BreakerSet
    <3>3. ~(Reset \/ RemoveBreaker)
      BY <1>1 DEF Reset, RemoveBreaker, Fresh
    <3>4. ~UNCHANGED breaker /\ ~CoolDown
      BY <1>1 DEF CoolDown
    <3>5. QED
      BY <1>1, <3>1, <3>2, <3>3, <3>4 DEF BreakerNext, Finish, Post, Abandon, Heal
  <2>2. breaker.failures = FailureThreshold - 1
    BY <1>1, <2>1, ThresholdsAssumption DEF Fail, Become, OnFailure, CountUp, ThresholdsActedOn, BreakerTypeOK, BreakerSet
  <2>3. QED
    BY <1>1, <2>2, ThresholdsAssumption DEF CountsAreOutcomes, BreakerTypeOK
<1>2. BreakerTypeOK /\ ThresholdsActedOn /\ CountsAreOutcomes /\ [BreakerNext]_breakerVars
        => [breaker.state = "closed" /\ breaker'.state = "open" => Streak]_breakerVars
  BY <1>1
<1>3. QED
  BY <1>2, CountsHold, PTL DEF BreakerSpec, TripsOnStreak

(* A trial closes the breaker only on SuccessThreshold successes of its    *)
(* own.                                                                    *)
THEOREM ClosesOnTrialHolds == BreakerSpec => ClosesOnTrial
<1>1. ASSUME BreakerTypeOK, ThresholdsActedOn, CountsAreOutcomes, NEW c \in Clients, Succeed(c),
             breaker.state = "half_open", breaker'.state = "closed"
      PROVE  Len(outcomes) >= SuccessThreshold - 1
  <2>1. breaker.successes >= SuccessThreshold - 1 /\ breaker.successes \in Nat
    BY <1>1, ThresholdsAssumption DEF Succeed, Become, OnSuccess, CountUp, BreakerTypeOK, BreakerSet
  <2>2. QED
    BY <1>1, <2>1, ThresholdsAssumption DEF CountsAreOutcomes, BreakerTypeOK
<1>2. BreakerTypeOK /\ ThresholdsActedOn /\ CountsAreOutcomes /\ [BreakerNext]_breakerVars
        => [breaker.state = "half_open" /\ breaker'.state = "closed" /\ (\E c \in Clients : Succeed(c)) =>
              Len(outcomes) >= SuccessThreshold - 1]_breakerVars
  BY <1>1
<1>3. QED
  BY <1>2, CountsHold, PTL DEF BreakerSpec, ClosesOnTrial
=============================================================================
