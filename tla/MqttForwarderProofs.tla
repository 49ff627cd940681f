------------------------- MODULE MqttForwarderProofs -------------------------
(***************************************************************************)
(* Theorems about MqttForwarder, for every set of messages and all bounds. *)
(***************************************************************************)
EXTENDS MqttForwarder, TLAPS

(* StoreForwardProofs, for the forwarder.                                  *)
Path == INSTANCE StoreForwardProofs WITH
    held      <- Places \ delivered,
    dropped   <- (dropped \cup evicted) \ (Places \cup delivered)

-----------------------------------------------------------------------------
(* The inductive invariant.                                                *)

\* What is in memory only, and not in the ring.
Unstored == ToSet(inbox) \cup (IF pub = Idle THEN {} ELSE {pub.msg})

(* A message is stored once: what waits for its first attempt is neither   *)
(* in the table nor in the ring, and waits once.                           *)
StoredOnce ==
    /\ Unstored \cap (Rows \cup RingMessages) = {}
    /\ pub # Idle => pub.msg \notin ToSet(inbox)

(* The replay knows what it has in hand: rows that have an attempt left,   *)
(* messages that are still stored or have made room since, and of what it  *)
(* takes for sent nothing that was not.                                    *)
ReplayKnows ==
    /\ replay.pc \in {"none", "look", "select"} => replay.todo = <<>>
    /\ replay.pc = "rows" => \A m \in ToSet(replay.todo) \cup replay.bad : retries[m] < MaxRetries
    /\ replay.ok \subseteq delivered
    /\ ToSet(replay.todo) \subseteq Rows \cup RingMessages \cup delivered \cup dropped \cup evicted

IInv == TypeOK /\ StoredOnce /\ ReplayKnows /\ DurableUntilDelivered

-----------------------------------------------------------------------------
(* Sequences.                                                              *)

LEMMA Appended ==
    ASSUME NEW T, NEW s \in Seq(T), NEW x \in T
    PROVE  /\ Append(s, x) \in Seq(T) /\ Len(Append(s, x)) = Len(s) + 1
           /\ ToSet(Append(s, x)) = ToSet(s) \cup {x}
           /\ IsInjective(s) /\ x \notin ToSet(s) => IsInjective(Append(s, x))
BY Path!Appended DEF Path!ToSet, ToSet, Path!IsInjective, IsInjective

LEMMA Cut ==
    ASSUME NEW T, NEW s \in Seq(T), NEW a \in Nat \ {0}, NEW b \in Nat, b <= Len(s)
    PROVE  /\ SubSeq(s, a, b) \in Seq(T) /\ Len(SubSeq(s, a, b)) = IF a <= b THEN b - a + 1 ELSE 0
           /\ ToSet(SubSeq(s, a, b)) \subseteq ToSet(s)
           /\ IsInjective(s) => IsInjective(SubSeq(s, a, b))
           /\ \A i \in 1..Len(SubSeq(s, a, b)) : a - 1 + i \in 1..Len(s) /\ SubSeq(s, a, b)[i] = s[a - 1 + i]
BY Path!Cut DEF Path!ToSet, ToSet, Path!IsInjective, IsInjective

LEMMA Tailed ==
    ASSUME NEW T, NEW s \in Seq(T), s # <<>>
    PROVE  /\ Tail(s) \in Seq(T) /\ Head(s) \in T /\ Len(Tail(s)) = Len(s) - 1
           /\ ToSet(s) = {Head(s)} \cup ToSet(Tail(s))
           /\ IsInjective(s) => IsInjective(Tail(s)) /\ Head(s) \notin ToSet(Tail(s))
BY Path!Tailed DEF Path!ToSet, ToSet, Path!IsInjective, IsInjective

LEMMA Filtered ==
    ASSUME NEW T, NEW s \in Seq(T), NEW S
    PROVE  /\ Filter(s, S) \in Seq(T) /\ Len(Filter(s, S)) <= Len(s)
           /\ ToSet(Filter(s, S)) = ToSet(s) \cap S
           /\ IsInjective(s) => IsInjective(Filter(s, S))
BY Path!Filtered DEF Path!ToSet, ToSet, Path!IsInjective, IsInjective, Path!Filter, Filter

LEMMA FilterHas ==
    ASSUME NEW T, NEW s \in Seq(T), NEW S
    PROVE  /\ Filter(s, S) \in Seq(T)
           /\ Len(Filter(s, S)) <= Len(s)
           /\ \A i \in 1..Len(s) : s[i] \in S => \E k \in 1..Len(Filter(s, S)) : Filter(s, S)[k] = s[i]
           /\ \E at \in [1..Len(Filter(s, S)) -> 1..Len(s)] :
                /\ \A k \in 1..Len(Filter(s, S)) : Filter(s, S)[k] = s[at[k]] /\ s[at[k]] \in S
                /\ \A j, k \in 1..Len(Filter(s, S)) : j < k => at[j] < at[k]
<1>1. Path!Filter(s, S) = Filter(s, S)
  BY DEF Path!Filter, Filter
<1>2. QED
  BY <1>1, Path!FilterHas

-----------------------------------------------------------------------------
(* The ring: its records, and the messages they are for.                   *)

MessagesIn(r) == ToSet(MessagesOf(r))

RingOK(r) == r \in Seq(Records) /\ IsInjective(MessagesOf(r)) /\ Len(r) <= MaxRing

LEMMA RingIs == RingMessages = MessagesIn(ring) /\ RingMessages' = MessagesIn(ring')
BY DEF RingMessages, MessagesIn, MessagesOf, ToSet

LEMMA RecordsHave ==
    ASSUME NEW r \in Seq(Records)
    PROVE  /\ MessagesOf(r) \in Seq(Messages) /\ Len(MessagesOf(r)) = Len(r)
           /\ \A i \in 1..Len(r) : MessagesOf(r)[i] = r[i].msg /\ r[i] \in Records /\ r[i].msg \in Messages
<1>1. DOMAIN r = 1..Len(r) /\ Len(r) \in Nat /\ \A i \in 1..Len(r) : r[i] \in Records
  OBVIOUS
<1>2. \A i \in 1..Len(r) : r[i].msg \in Messages
  BY <1>1 DEF Records
<1>3. MessagesOf(r) \in [1..Len(r) -> Messages]
  BY <1>1, <1>2 DEF MessagesOf
<1>4. MessagesOf(r) \in Seq(Messages) /\ Len(MessagesOf(r)) = Len(r)
  BY <1>1, <1>3
<1>5. QED
  BY <1>1, <1>2, <1>4 DEF MessagesOf

LEMMA RingAppended ==
    ASSUME NEW r \in Seq(Records), NEW rec \in Records
    PROVE  /\ Append(r, rec) \in Seq(Records) /\ Len(Append(r, rec)) = Len(r) + 1
           /\ MessagesIn(Append(r, rec)) = MessagesIn(r) \cup {rec.msg}
           /\ IsInjective(MessagesOf(r)) /\ rec.msg \notin MessagesIn(r) => IsInjective(MessagesOf(Append(r, rec)))
<1>1. Append(r, rec) \in Seq(Records) /\ Len(Append(r, rec)) = Len(r) + 1
  OBVIOUS
<1>2. MessagesOf(r) \in Seq(Messages) /\ rec.msg \in Messages
  BY RecordsHave DEF Records
<1>3. MessagesOf(Append(r, rec)) = Append(MessagesOf(r), rec.msg)
  BY <1>1, <1>2, RecordsHave DEF MessagesOf
<1>4. QED
  BY <1>1, <1>2, <1>3, Appended DEF MessagesIn

LEMMA RingTailed ==
    ASSUME NEW r \in Seq(Records), r # <<>>
    PROVE  /\ Tail(r) \in Seq(Records) /\ Head(r) \in Records /\ Len(Tail(r)) = Len(r) - 1
           /\ MessagesIn(r) = {Head(r).msg} \cup MessagesIn(Tail(r))
           /\ IsInjective(MessagesOf(r)) => IsInjective(MessagesOf(Tail(r)))
<1>1. Tail(r) \in Seq(Records) /\ Head(r) \in Records /\ Len(Tail(r)) = Len(r) - 1 /\ Len(r) \in Nat
  OBVIOUS
<1>2. MessagesOf(r) \in Seq(Messages) /\ MessagesOf(r) # <<>>
  <2>1. Len(r) > 0
    BY <1>1
  <2>2. QED
    BY <2>1, RecordsHave
<1>3. MessagesOf(Tail(r)) = Tail(MessagesOf(r)) /\ Head(MessagesOf(r)) = Head(r).msg
  BY <1>1, <1>2, RecordsHave DEF MessagesOf
<1>4. QED
  BY <1>1, <1>2, <1>3, Tailed DEF MessagesIn

LEMMA RingFiltered ==
    ASSUME NEW r \in Seq(Records), NEW S
    PROVE  /\ Filter(r, S) \in Seq(Records) /\ Len(Filter(r, S)) <= Len(r)
           /\ MessagesIn(Filter(r, S)) \subseteq MessagesIn(r)
           /\ \A i \in 1..Len(r) : r[i] \in S => r[i].msg \in MessagesIn(Filter(r, S))
           /\ IsInjective(MessagesOf(r)) => IsInjective(MessagesOf(Filter(r, S)))
<1> DEFINE f == Filter(r, S)
<1>1. /\ f \in Seq(Records) /\ Len(f) <= Len(r)
      /\ \A i \in 1..Len(r) : r[i] \in S => \E k \in 1..Len(f) : f[k] = r[i]
  BY FilterHas
<1>2. PICK at \in [1..Len(f) -> 1..Len(r)] :
        /\ \A k \in 1..Len(f) : f[k] = r[at[k]] /\ r[at[k]] \in S
        /\ \A j, k \in 1..Len(f) : j < k => at[j] < at[k]
  BY FilterHas
<1> HIDE DEF f
<1> DEFINE mr == MessagesOf(r)
           mf == MessagesOf(f)
<1>3. /\ DOMAIN mr = 1..Len(r) /\ DOMAIN mf = 1..Len(f) /\ Len(f) \in Nat /\ Len(r) \in Nat
      /\ \A i \in 1..Len(r) : mr[i] = r[i].msg
      /\ \A i \in 1..Len(f) : mf[i] = f[i].msg
  BY <1>1, RecordsHave
<1> HIDE DEF mr, mf
<1>4. \A k \in 1..Len(f) : mf[k] = mr[at[k]]
  BY <1>2, <1>3
<1>5. \A j, k \in 1..Len(f) : at[j] = at[k] => j = k
  <2>1. SUFFICES ASSUME NEW j \in 1..Len(f), NEW k \in 1..Len(f), at[j] = at[k] PROVE j = k
    OBVIOUS
  <2>2. ~(j < k) /\ ~(k < j)
    BY <1>2, <1>3, <2>1
  <2>3. QED
    BY <1>3, <2>2
<1>6. ToSet(mf) \subseteq ToSet(mr)
  BY <1>2, <1>3, <1>4 DEF ToSet
<1>7. \A i \in 1..Len(r) : r[i] \in S => r[i].msg \in ToSet(mf)
  BY <1>1, <1>3 DEF ToSet
<1>8. IsInjective(mr) => IsInjective(mf)
  BY <1>2, <1>3, <1>4, <1>5 DEF IsInjective
<1>9. QED
  BY <1>1, <1>6, <1>7, <1>8 DEF f, mr, mf, MessagesIn

LEMMA RingMarked ==
    ASSUME ring \in Seq(Records), NEW ms, NEW status \in {"pending", "syncing"}
    PROVE  Mark(ms, status) \in Seq(Records) /\ MessagesOf(Mark(ms, status)) = MessagesOf(ring)
           /\ Len(Mark(ms, status)) = Len(ring)
<1> DEFINE r == Mark(ms, status)
<1>1. DOMAIN ring = 1..Len(ring) /\ Len(ring) \in Nat /\ \A i \in 1..Len(ring) : ring[i] \in Records
  OBVIOUS
<1>2. ASSUME NEW i \in 1..Len(ring)
      PROVE  r[i] \in Records /\ r[i].msg = ring[i].msg
  <2>1. ring[i] \in Records
    BY <1>1
  <2>2. r[i] = IF ring[i].msg \in ms THEN [ring[i] EXCEPT !.status = status] ELSE ring[i]
    BY <1>1 DEF Mark
  <2> HIDE DEF r
  <2>3. QED
    BY <2>1, <2>2 DEF Records
<1>3. r \in [1..Len(ring) -> Records]
  BY <1>1, <1>2 DEF Mark
<1>4. r \in Seq(Records) /\ Len(r) = Len(ring) /\ DOMAIN r = DOMAIN ring
  BY <1>1, <1>3
<1> HIDE DEF r
<1>5. MessagesOf(r) = MessagesOf(ring)
  BY <1>1, <1>2, <1>4 DEF MessagesOf
<1>6. QED
  BY <1>4, <1>5 DEF r

LEMMA FirstIs ==
    ASSUME NEW T, NEW s \in Seq(T)
    PROVE  /\ First(s) \in Seq(T) /\ ToSet(First(s)) \subseteq ToSet(s)
           /\ IsInjective(s) => IsInjective(First(s))
<1>1. Batch \in Nat /\ Len(s) \in Nat
  BY BoundsAssumption
<1>2. 1 \in Nat \ {0}
  OBVIOUS
<1>3. (IF Len(s) < Batch THEN Len(s) ELSE Batch) \in Nat
      /\ (IF Len(s) < Batch THEN Len(s) ELSE Batch) <= Len(s)
  BY <1>1
<1>4. QED
  BY <1>2, <1>3, Cut DEF First

LEMMA RestoredIs ==
    ASSUME rows \in Seq(Messages), IsInjective(rows)
    PROVE  RingOK(Restored) /\ MessagesIn(Restored) \subseteq Rows
<1> DEFINE from == IF Len(rows) > MaxRing THEN Len(rows) - MaxRing + 1 ELSE 1
           last == SubSeq(rows, from, Len(rows))
           new == [i \in DOMAIN last |-> [msg |-> last[i], status |-> "pending"]]
<1>1. MaxRing \in Nat /\ MaxRing > 0 /\ Len(rows) \in Nat
  BY BoundsAssumption
<1>2. from \in Nat \ {0} /\ Len(rows) <= Len(rows) /\ (from <= Len(rows) => Len(rows) - from + 1 <= MaxRing)
  BY <1>1
<1> HIDE DEF from
<1>3. /\ last \in Seq(Messages) /\ Len(last) <= MaxRing
      /\ ToSet(last) \subseteq Rows /\ IsInjective(last)
  BY <1>1, <1>2, Cut DEF Rows
<1>4. Restored = new
  BY DEF Restored, from
<1> HIDE DEF last
<1>5. DOMAIN last = 1..Len(last) /\ Len(last) \in Nat /\ \A i \in 1..Len(last) : last[i] \in Messages
  BY <1>3
<1>6. new \in [1..Len(last) -> Records]
  BY <1>5 DEF Records
<1>7. new \in Seq(Records) /\ Len(new) = Len(last)
  BY <1>5, <1>6
<1>8. MessagesOf(new) = last
  BY <1>3, <1>5, <1>7 DEF MessagesOf
<1> HIDE DEF new
<1>9. QED
  BY <1>3, <1>4, <1>7, <1>8 DEF RingOK, MessagesIn

-----------------------------------------------------------------------------
(* What a persisted message does to the table and the ring.                *)

RowsOK(s) == s \in Seq(Messages) /\ IsInjective(s)

LEMMA PutRowGives ==
    ASSUME RowsOK(rows), NEW m \in Messages, m \notin Rows, PutRow(m)
    PROVE  /\ RowsOK(rows') /\ Rows' \subseteq Rows \cup {m}
           /\ saved' = saved \cup ({m} \cap Rows')
           /\ evicted' = evicted \cup (Rows \ Rows')
<1>1. RowsOK(MakeRoom) /\ ToSet(MakeRoom) \subseteq Rows
  <2>1. CASE Len(rows) >= MaxRows
    <3>1. rows # <<>>
      BY <2>1, BoundsAssumption
    <3>2. QED
      BY <2>1, <3>1, Tailed DEF MakeRoom, RowsOK, Rows
  <2>2. CASE ~(Len(rows) >= MaxRows)
    BY <2>2 DEF MakeRoom, Rows
  <2>3. QED
    BY <2>1, <2>2
<1>2. ASSUME NEW s, RowsOK(s), ToSet(s) \subseteq Rows
      PROVE  RowsOK(Append(s, m)) /\ ToSet(Append(s, m)) \subseteq Rows \cup {m}
  BY <1>2, Appended DEF RowsOK
<1>3. rows' \in {Append(MakeRoom, m), Append(rows, m), MakeRoom, rows}
  BY DEF PutRow
<1>4. RowsOK(rows') /\ ToSet(rows') \subseteq Rows \cup {m}
  BY <1>1, <1>2, <1>3 DEF Rows
<1>5. QED
  BY <1>4 DEF PutRow, Rows

LEMMA PutRingGives ==
    ASSUME RingOK(ring), NEW m \in Messages, m \notin RingMessages, PutRing(m)
    PROVE  /\ RingOK(ring') /\ m \in RingMessages' /\ RingMessages' \subseteq RingMessages \cup {m}
           /\ dropped \subseteq dropped' /\ dropped' \subseteq dropped \cup RingMessages
           /\ RingMessages \ RingMessages' \subseteq dropped'
<1> DEFINE rec == [msg |-> m, status |-> "pending"]
           left == IF Len(ring) = MaxRing THEN Tail(ring) ELSE ring
<1>1. MaxRing \in Nat /\ MaxRing > 0 /\ Len(ring) \in Nat /\ Len(ring) <= MaxRing
  BY BoundsAssumption DEF RingOK
<1>2. rec \in Records /\ rec.msg = m
  BY DEF Records
<1>3. /\ left \in Seq(Records) /\ Len(left) < MaxRing /\ IsInjective(MessagesOf(left))
      /\ MessagesIn(left) \subseteq MessagesIn(ring)
      /\ dropped' = dropped \cup (IF Len(ring) = MaxRing THEN {Head(ring).msg} ELSE {})
      /\ IF Len(ring) = MaxRing THEN MessagesIn(ring) = {Head(ring).msg} \cup MessagesIn(left)
                                ELSE MessagesIn(ring) = MessagesIn(left)
  <2>1. CASE Len(ring) = MaxRing
    <3>1. ring # <<>>
      BY <1>1, <2>1
    <3>2. QED
      BY <1>1, <2>1, <3>1, RingTailed DEF RingOK, PutRing
  <2>2. CASE Len(ring) # MaxRing
    BY <1>1, <2>2 DEF RingOK, PutRing
  <2>3. QED
    BY <2>1, <2>2
<1>4. ring' = Append(left, rec)
  BY DEF PutRing
<1> HIDE DEF left, rec
<1>5. m \notin MessagesIn(left)
  BY <1>3, RingIs
<1>6. Len(left) \in Nat
  BY <1>3
<1>7. RingOK(ring') /\ MessagesIn(ring') = MessagesIn(left) \cup {m}
  BY <1>1, <1>2, <1>3, <1>4, <1>5, <1>6, RingAppended DEF RingOK
<1>8. QED
  BY <1>3, <1>7, RingIs

(* Both at once.                                                           *)
LEMMA PersistGives ==
    ASSUME RowsOK(rows), RingOK(ring), NEW m \in Messages, m \notin Rows \cup RingMessages, Persist(m)
    PROVE  /\ RowsOK(rows') /\ Rows' \subseteq Rows \cup {m}
           /\ saved' = saved \cup ({m} \cap Rows')
           /\ evicted' = evicted \cup (Rows \ Rows')
           /\ RingOK(ring') /\ m \in RingMessages' /\ RingMessages' \subseteq RingMessages \cup {m}
           /\ dropped \subseteq dropped' /\ dropped' \subseteq dropped \cup RingMessages
           /\ RingMessages \ RingMessages' \subseteq dropped'
           /\ retries' = retries
BY PutRowGives, PutRingGives DEF Persist

LEMMA WithoutGives ==
    ASSUME RowsOK(rows), NEW ms
    PROVE  RowsOK(Without(ms)) /\ ToSet(Without(ms)) = Rows \ ms
<1>1. /\ Without(ms) \in Seq(Messages)
      /\ ToSet(Without(ms)) = Rows \cap (Messages \ ms) /\ IsInjective(Without(ms))
  BY Filtered DEF Without, RowsOK, Rows
<1>2. Rows \subseteq Messages
  BY DEF Rows, RowsOK, ToSet
<1>3. QED
  BY <1>1, <1>2 DEF RowsOK

-----------------------------------------------------------------------------
(* What a step does to the messages: it gives some up, takes one in, or    *)
(* has one confirmed.                                                      *)

Lost == dropped \cup evicted

GivesUp ==
    /\ UNCHANGED <<accepted, delivered>> /\ Places' \subseteq Places
    /\ Lost \subseteq Lost' /\ Lost' \subseteq Lost \cup Places
    /\ Places \ Places' \subseteq Lost' \cup delivered

TakesIn(m) ==
    /\ m \in Messages \ accepted /\ accepted' = accepted \cup {m}
    /\ delivered' = delivered /\ Places' \subseteq Places \cup {m}
    /\ Lost \subseteq Lost' /\ Lost' \subseteq Lost \cup Places \cup {m}
    /\ (Places \cup {m}) \ Places' \subseteq Lost' \cup delivered

Confirms(m) ==
    /\ m \in Places /\ accepted' = accepted
    /\ delivered' = delivered \cup {m} /\ Lost' = Lost /\ Places' \subseteq Places
    /\ Places \ Places' \subseteq delivered \cup {m}

-----------------------------------------------------------------------------
(* The invariant holds at first, and every action keeps it.                *)

LEMMA Nothing == ToSet(<<>>) = {} /\ IsInjective(<<>>)
BY DEF ToSet, IsInjective

LEMMA Replaying ==
    /\ NoReplay \in Replays /\ NoReplay.pc = "none" /\ NoReplay.todo = <<>>
    /\ NoReplay.ok = {} /\ NoReplay.bad = {}
    /\ Looking \in Replays /\ Looking.pc = "look" /\ Looking.todo = <<>>
    /\ Looking.ok = {} /\ Looking.bad = {}
<1>1. <<>> \in Seq(Messages)
  OBVIOUS
<1>2. NoReplay \in Replays
  <2>1. "none" \in {"none", "look", "select", "ring", "rows", "erase", "fail"} /\ {} \in SUBSET Messages
    OBVIOUS
  <2>2. QED
    BY <1>1, <2>1, Zenon DEF NoReplay, Replays
<1>3. NoReplay.pc = "none" /\ NoReplay.todo = <<>> /\ NoReplay.ok = {} /\ NoReplay.bad = {}
  BY DEF NoReplay
<1>4. Looking.pc = "look" /\ Looking.todo = NoReplay.todo /\ Looking.ok = NoReplay.ok /\ Looking.bad = NoReplay.bad
  BY <1>2 DEF Looking, Replays
<1>5. Looking \in Replays
  BY <1>2 DEF Looking, Replays
<1>6. QED
  BY <1>2, <1>3, <1>4, <1>5

LEMMA InvInit == Init => IInv
<1> SUFFICES ASSUME Init PROVE IInv
  OBVIOUS
<1>1. RowsOK(rows) /\ RingOK(ring) /\ inbox \in Seq(Messages) /\ Len(inbox) = 0 /\ IsInjective(inbox)
  <2>1. <<>> \in Seq(Messages) /\ <<>> \in Seq(Records) /\ Len(<<>>) = 0
    OBVIOUS
  <2>2. MessagesOf(<<>>) = <<>>
    BY DEF MessagesOf
  <2>3. QED
    BY <2>1, <2>2, Nothing, BoundsAssumption DEF Init, RowsOK, RingOK
<1>2. Rows = {} /\ ToSet(inbox) = {} /\ RingMessages = {} /\ replay = NoReplay /\ ToSet(replay.todo) = {}
  BY Nothing, Replaying DEF Init, Rows, RingMessages
<1>3. InMemory = {} /\ Places = {} /\ Unstored = {}
  BY <1>2 DEF Init, InMemory, Places, Unstored
<1>4. retries \in [Messages -> 0..MaxRetries]
  BY BoundsAssumption DEF Init
<1>5. TypeOK
  <2>1. {broker, session, connected} \subseteq BOOLEAN
    BY DEF Init
  <2>2. loop \in {"away", "online"} /\ accepted \subseteq Messages /\ pub = Idle /\ replay \in Replays
    BY <1>2, Replaying DEF Init
  <2>3. Places \cup saved \cup delivered \cup evicted \cup dropped \subseteq accepted
    BY <1>3 DEF Init
  <2>4. Len(inbox) <= MaxQueue
    BY <1>1, BoundsAssumption
  <2>5. QED
    BY <1>1, <1>4, <2>1, <2>2, <2>3, <2>4 DEF TypeOK, RowsOK, RingOK
<1>6. StoredOnce /\ ReplayKnows /\ DurableUntilDelivered
  BY <1>2, <1>3, Replaying DEF Init, StoredOnce, ReplayKnows, DurableUntilDelivered
<1>7. QED
  BY <1>5, <1>6 DEF IInv

(* The network comes, goes, and tells nothing.                             *)
LEMMA NetworkSteps ==
    ASSUME IInv, BrokerComes \/ BrokerGoes \/ Connect
    PROVE  IInv' /\ GivesUp
<1>1. UNCHANGED <<accepted, inbox, pub, delivered, rows, retries, ring, saved, evicted, dropped>>
  BY DEF BrokerComes, BrokerGoes, Connect, store
<1>2. replay' = replay \/ replay' = Looking
  BY DEF BrokerComes, BrokerGoes, Connect
<1>3. {broker, session, connected}' \subseteq BOOLEAN /\ loop' \in {"away", "online"}
  BY DEF BrokerComes, BrokerGoes, Connect, IInv, TypeOK
<1>4. RingMessages' = RingMessages /\ Rows' = Rows
  BY <1>1, RingIs DEF Rows
<1>5. replay' \in Replays /\ ReplayKnows'
  BY <1>1, <1>2, <1>4, Replaying, Nothing DEF IInv, TypeOK, ReplayKnows
<1>6. Places' \subseteq Places /\ Unstored' = Unstored
  BY <1>1, <1>2, <1>4, Replaying, Nothing DEF Places, InMemory, Unstored
<1>7. TypeOK'
  BY <1>1, <1>3, <1>5, <1>6 DEF IInv, TypeOK
<1>8. StoredOnce' /\ DurableUntilDelivered'
  BY <1>1, <1>4, <1>6 DEF IInv, StoredOnce, DurableUntilDelivered
<1>9. GivesUp
  BY <1>1, <1>2, <1>4, <1>6, Replaying, Nothing DEF IInv, ReplayKnows, GivesUp, Lost, Places, InMemory
<1>10. QED
  BY <1>9, <1>5, <1>7, <1>8 DEF IInv

(* What the bus hands over is new, and waits or is persisted.              *)
LEMMA AcceptStep ==
    ASSUME IInv, Accept
    PROVE  IInv' /\ \E m \in Messages : TakesIn(m)
<1>1. PICK m \in Messages \ accepted :
        /\ accepted' = accepted \cup {m}
        /\ IF Len(inbox) < MaxQueue
           THEN inbox' = Append(inbox, m) /\ UNCHANGED store
           ELSE Persist(m) /\ UNCHANGED inbox
        /\ UNCHANGED <<network, pub, replay, delivered>>
  BY DEF Accept
<1>2. UNCHANGED <<broker, session, connected, loop, pub, replay, delivered>>
  BY <1>1 DEF network
<1>3. m \notin Places \cup saved \cup evicted \cup delivered \cup dropped
  BY DEF IInv, TypeOK
<1>4. m \notin Rows /\ m \notin RingMessages /\ m \notin Unstored /\ m \notin ToSet(inbox)
  BY <1>3 DEF Places, InMemory, Unstored
<1>5. CASE Len(inbox) < MaxQueue
  <2>1. UNCHANGED <<rows, retries, ring, saved, evicted, dropped>> /\ inbox' = Append(inbox, m)
    BY <1>1, <1>5 DEF store
  <2>2. Rows' = Rows /\ RingMessages' = RingMessages
    BY <2>1, RingIs DEF Rows
  <2>3. inbox' \in Seq(Messages) /\ IsInjective(inbox') /\ Len(inbox') <= MaxQueue /\ ToSet(inbox') = ToSet(inbox) \cup {m}
    <3>1. inbox \in Seq(Messages) /\ IsInjective(inbox) /\ MaxQueue \in Nat /\ Len(inbox) \in Nat
      BY BoundsAssumption DEF IInv, TypeOK
    <3>2. QED
      BY <1>4, <1>5, <2>1, <3>1, Appended
  <2>4. Places' = Places \cup {m} /\ Unstored' = Unstored \cup {m}
    BY <1>2, <2>2, <2>3 DEF Places, InMemory, Unstored
  <2>5. TypeOK'
    BY <1>1, <1>2, <2>1, <2>3, <2>4 DEF IInv, TypeOK
  <2>6. StoredOnce'
    <3>1. pub # Idle => pub.msg \in Unstored
      BY DEF Unstored
    <3>2. QED
      BY <1>2, <1>4, <2>2, <2>3, <2>4, <3>1 DEF IInv, StoredOnce
  <2>7. ReplayKnows' /\ DurableUntilDelivered'
    BY <1>2, <2>1, <2>2 DEF IInv, ReplayKnows, DurableUntilDelivered
  <2>8. TakesIn(m)
    BY <1>1, <1>2, <2>1, <2>4 DEF TakesIn, Lost
  <2>9. QED
    BY <2>5, <2>6, <2>7, <2>8 DEF IInv
<1>6. CASE ~(Len(inbox) < MaxQueue)
  <2>1. Persist(m) /\ inbox' = inbox
    BY <1>1, <1>6
  <2>2. RowsOK(rows) /\ RingOK(ring)
    BY DEF IInv, TypeOK, RowsOK, RingOK
  <2>3. /\ RowsOK(rows') /\ Rows' \subseteq Rows \cup {m}
        /\ saved' = saved \cup ({m} \cap Rows')
        /\ evicted' = evicted \cup (Rows \ Rows')
        /\ RingOK(ring') /\ m \in RingMessages' /\ RingMessages' \subseteq RingMessages \cup {m}
        /\ dropped \subseteq dropped' /\ dropped' \subseteq dropped \cup RingMessages
        /\ RingMessages \ RingMessages' \subseteq dropped'
        /\ retries' = retries
    BY <1>4, <2>1, <2>2, PersistGives
  <2>4. Places' \subseteq Places \cup {m} /\ Unstored' = Unstored /\ Rows \subseteq Places /\ RingMessages \subseteq Places
    BY <1>2, <2>1, <2>3 DEF Places, InMemory, Unstored
  <2>5. TypeOK'
    BY <1>1, <1>2, <2>1, <2>3, <2>4 DEF IInv, TypeOK, RowsOK, RingOK
  <2>6. StoredOnce'
    BY <1>2, <1>4, <2>1, <2>3, <2>4 DEF IInv, StoredOnce
  <2>7. ReplayKnows' /\ DurableUntilDelivered'
    BY <1>2, <2>3 DEF IInv, ReplayKnows, DurableUntilDelivered
  <2>8. Rows \ Rows' \subseteq Lost' /\ RingMessages \ RingMessages' \subseteq Lost'
    BY <2>3 DEF Lost
  <2>9. TakesIn(m)
    BY <1>1, <1>2, <2>1, <2>3, <2>4, <2>8 DEF TakesIn, Lost, Places, InMemory
  <2>10. QED
    BY <2>5, <2>6, <2>7, <2>9 DEF IInv
<1>7. QED
  BY <1>5, <1>6

LEMMA AcceptTimesOutStep ==
    ASSUME IInv, AcceptTimesOut
    PROVE  IInv' /\ \E m \in Messages : TakesIn(m)
<1>1. PICK m \in Messages \ accepted :
        /\ accepted' = accepted \cup {m}
        /\ PutRow(m)
        /\ dropped' = dropped \cup {m}
        /\ UNCHANGED <<network, inbox, pub, retries, ring, replay, delivered>>
  BY DEF AcceptTimesOut
<1>2. UNCHANGED <<broker, session, connected, loop, inbox, pub, retries, ring, replay, delivered>>
  BY <1>1 DEF network
<1>3. m \notin Places \cup saved \cup evicted \cup delivered \cup dropped
  BY DEF IInv, TypeOK
<1>4. m \notin Rows /\ m \notin Unstored
  BY <1>3 DEF Places, InMemory, Unstored
<1>5. RowsOK(rows)
  BY DEF IInv, TypeOK, RowsOK
<1>6. /\ RowsOK(rows') /\ Rows' \subseteq Rows \cup {m}
      /\ saved' = saved \cup ({m} \cap Rows')
      /\ evicted' = evicted \cup (Rows \ Rows')
  BY <1>1, <1>4, <1>5, PutRowGives
<1>7. RingMessages' = RingMessages
  BY <1>2, RingIs
<1>8. Places' \subseteq Places \cup {m} /\ Unstored' = Unstored /\ Rows \subseteq Places
  BY <1>2, <1>6, <1>7 DEF Places, InMemory, Unstored
<1>9. TypeOK'
  BY <1>1, <1>2, <1>6, <1>8 DEF IInv, TypeOK, RowsOK
<1>10. StoredOnce' /\ ReplayKnows' /\ DurableUntilDelivered'
  BY <1>1, <1>2, <1>4, <1>6, <1>7, <1>8 DEF IInv, StoredOnce, ReplayKnows, DurableUntilDelivered
<1>11. TakesIn(m)
  <2>1. Rows \ Rows' \subseteq Lost'
    BY <1>6 DEF Lost
  <2>2. QED
    BY <1>1, <1>2, <1>6, <1>7, <1>8, <2>1 DEF TakesIn, Lost, Places, InMemory
<1>12. QED
  BY <1>11, <1>9, <1>10 DEF IInv

(* The publish loop takes the oldest message that waits, and has it alone. *)
LEMMA Publishing ==
    ASSUME IInv, pub.pc \in {"send", "persist"}
    PROVE  /\ pub # Idle /\ pub.msg \in Messages /\ pub \in [pc : {"send", "persist"}, msg : Messages]
           /\ Unstored = ToSet(inbox) \cup {pub.msg} /\ pub.msg \in Places /\ pub.msg \in accepted
           /\ pub.msg \notin Rows \cup RingMessages
<1>1. pub # Idle
  BY DEF Idle
<1>2. pub \in [pc : {"send", "persist"}, msg : Messages]
  BY <1>1 DEF IInv, TypeOK
<1>3. Unstored = ToSet(inbox) \cup {pub.msg} /\ pub.msg \in Places
  BY <1>1 DEF Unstored, Places, InMemory
<1>4. pub.msg \notin Rows \cup RingMessages
  BY <1>3 DEF IInv, StoredOnce
<1>5. QED
  BY <1>1, <1>2, <1>3, <1>4 DEF IInv, TypeOK

LEMMA TakeStep ==
    ASSUME IInv, Take
    PROVE  IInv' /\ GivesUp
<1>1. UNCHANGED <<broker, session, connected, loop, accepted, replay, delivered, rows, retries, ring, saved, evicted, dropped>>
  BY DEF Take, network, store
<1>2. inbox # <<>> /\ inbox' = Tail(inbox) /\ pub = Idle
      /\ pub' = [pc |-> IF connected THEN "send" ELSE "persist", msg |-> Head(inbox)]
  BY DEF Take
<1>3. inbox \in Seq(Messages) /\ IsInjective(inbox) /\ Len(inbox) <= MaxQueue /\ MaxQueue \in Nat
  BY BoundsAssumption DEF IInv, TypeOK
<1>4. /\ inbox' \in Seq(Messages) /\ IsInjective(inbox') /\ Len(inbox') <= MaxQueue
      /\ Head(inbox) \in Messages /\ ToSet(inbox) = {Head(inbox)} \cup ToSet(inbox')
      /\ Head(inbox) \notin ToSet(inbox')
  <2>1. Len(inbox) \in Nat
    BY <1>3
  <2>2. QED
    BY <1>2, <1>3, <2>1, Tailed
<1>5. pub' \in [pc : {"send", "persist"}, msg : Messages] /\ pub'.msg = Head(inbox) /\ pub'.pc # "idle"
  BY <1>2, <1>4
<1>6. pub' # Idle
  BY <1>5 DEF Idle
<1>7. Rows' = Rows /\ RingMessages' = RingMessages
  BY <1>1, RingIs DEF Rows
<1>8. Unstored' = Unstored /\ Places' = Places
  BY <1>1, <1>2, <1>4, <1>5, <1>6, <1>7 DEF Unstored, Places, InMemory
<1>9. TypeOK'
  BY <1>1, <1>4, <1>5, <1>8 DEF IInv, TypeOK
<1>10. StoredOnce' /\ ReplayKnows' /\ DurableUntilDelivered'
  BY <1>1, <1>4, <1>5, <1>7, <1>8 DEF IInv, StoredOnce, ReplayKnows, DurableUntilDelivered
<1>11. GivesUp
  BY <1>1, <1>8 DEF GivesUp, Lost
<1>12. QED
  BY <1>11, <1>9, <1>10 DEF IInv

(* It is confirmed, or not counted any more: either way it is gone.        *)
LEMMA SendSteps ==
    ASSUME IInv, Send \/ SendTimesOut
    PROVE  IInv' /\ (GivesUp \/ Confirms(pub.msg))
<1>1. UNCHANGED <<broker, session, connected, loop, accepted, inbox, replay, rows, retries, ring, saved, evicted>>
      /\ pub' = Idle /\ pub.pc = "send"
  BY DEF Send, SendTimesOut, network, store
<1>2. pub.msg \in accepted
  BY <1>1, Publishing
<1>3. /\ delivered \subseteq delivered' /\ delivered' \subseteq delivered \cup {pub.msg}
      /\ dropped \subseteq dropped' /\ dropped' \subseteq dropped \cup {pub.msg}
  BY DEF Send, SendTimesOut, store
<1>4. Rows' = Rows /\ RingMessages' = RingMessages
  BY <1>1, RingIs DEF Rows
<1>5. Unstored' \subseteq Unstored /\ Places' \subseteq Places
  BY <1>1, <1>4 DEF Unstored, Places, InMemory
<1>6. TypeOK'
  BY <1>1, <1>2, <1>3, <1>5 DEF IInv, TypeOK
<1>7. StoredOnce' /\ ReplayKnows' /\ DurableUntilDelivered'
  BY <1>1, <1>3, <1>4, <1>5 DEF IInv, StoredOnce, ReplayKnows, DurableUntilDelivered
<1>8. (GivesUp \/ Confirms(pub.msg))
  <2>1. pub.msg \in Places /\ Places \ Places' \subseteq {pub.msg}
    BY <1>1, <1>4, Publishing DEF Unstored, Places, InMemory
  <2>2. CASE Send
    <3>1. delivered' = delivered \cup {pub.msg} /\ Lost' = Lost
      BY <1>1, <2>2 DEF Send, store, Lost
    <3>2. QED
      BY <1>1, <1>5, <2>1, <3>1 DEF Confirms
  <2>3. CASE SendTimesOut
    <3>1. delivered' = delivered /\ Lost' = Lost \cup {pub.msg}
      BY <1>1, <2>3 DEF SendTimesOut, Lost
    <3>2. QED
      BY <1>1, <1>5, <2>1, <3>1 DEF GivesUp
  <2>4. QED
    BY <2>2, <2>3
<1>9. QED
  BY <1>8, <1>6, <1>7 DEF IInv

LEMMA SendRefusedStep ==
    ASSUME IInv, SendRefused
    PROVE  IInv' /\ GivesUp
<1>1. UNCHANGED <<broker, session, loop, accepted, inbox, replay, delivered, rows, retries, ring, saved, evicted, dropped>>
      /\ connected' = FALSE /\ pub' = [pub EXCEPT !.pc = "persist"] /\ pub.pc = "send"
  BY DEF SendRefused, store
<1>2. pub \in [pc : {"send", "persist"}, msg : Messages] /\ pub # Idle
  BY <1>1, Publishing
<1>3. pub' \in [pc : {"send", "persist"}, msg : Messages] /\ pub'.pc = "persist" /\ pub'.msg = pub.msg
  BY <1>1, <1>2
<1>4. pub' # Idle
  BY <1>3 DEF Idle
<1>5. Rows' = Rows /\ RingMessages' = RingMessages
  BY <1>1, RingIs DEF Rows
<1>6. Unstored' = Unstored /\ Places' = Places
  BY <1>1, <1>2, <1>3, <1>4, <1>5 DEF Unstored, Places, InMemory
<1>7. {broker, session, connected}' \subseteq BOOLEAN
  BY <1>1 DEF IInv, TypeOK
<1>8. TypeOK'
  BY <1>1, <1>3, <1>6, <1>7 DEF IInv, TypeOK
<1>9. StoredOnce' /\ ReplayKnows' /\ DurableUntilDelivered'
  BY <1>1, <1>2, <1>3, <1>5, <1>6 DEF IInv, StoredOnce, ReplayKnows, DurableUntilDelivered
<1>10. GivesUp
  BY <1>1, <1>6 DEF GivesUp, Lost
<1>11. QED
  BY <1>10, <1>8, <1>9 DEF IInv

LEMMA StoreStep ==
    ASSUME IInv, Store
    PROVE  IInv' /\ GivesUp
<1>1. UNCHANGED <<broker, session, connected, loop, accepted, inbox, replay, delivered>>
      /\ pub' = Idle /\ Persist(pub.msg) /\ pub.pc = "persist"
  BY DEF Store, network
<1>2. /\ pub.msg \in Messages /\ pub.msg \notin Rows \cup RingMessages /\ pub.msg \in accepted
      /\ Unstored = ToSet(inbox) \cup {pub.msg} /\ pub # Idle /\ pub.msg \in Places
  BY <1>1, Publishing
<1>3. RowsOK(rows) /\ RingOK(ring)
  BY DEF IInv, TypeOK, RowsOK, RingOK
<1>4. /\ RowsOK(rows') /\ Rows' \subseteq Rows \cup {pub.msg}
      /\ saved' = saved \cup ({pub.msg} \cap Rows')
      /\ evicted' = evicted \cup (Rows \ Rows')
      /\ RingOK(ring') /\ pub.msg \in RingMessages' /\ RingMessages' \subseteq RingMessages \cup {pub.msg}
      /\ dropped \subseteq dropped' /\ dropped' \subseteq dropped \cup RingMessages
      /\ RingMessages \ RingMessages' \subseteq dropped'
      /\ retries' = retries
  BY <1>1, <1>2, <1>3, PersistGives
<1>5. Unstored' = ToSet(inbox)
  BY <1>1 DEF Unstored
<1>6. Places' \subseteq Places /\ Rows \subseteq Places /\ RingMessages \subseteq Places
  BY <1>1, <1>2, <1>4 DEF Places, InMemory
<1>7. TypeOK'
  BY <1>1, <1>2, <1>4, <1>6 DEF IInv, TypeOK, RowsOK, RingOK
<1>8. StoredOnce'
  BY <1>1, <1>2, <1>4, <1>5 DEF IInv, StoredOnce
<1>9. ReplayKnows' /\ DurableUntilDelivered'
  BY <1>1, <1>4 DEF IInv, ReplayKnows, DurableUntilDelivered
<1>10. GivesUp
  BY <1>1, <1>2, <1>4, <1>6 DEF GivesUp, Lost, Places, InMemory
<1>11. QED
  BY <1>10, <1>7, <1>8, <1>9 DEF IInv

-----------------------------------------------------------------------------
(* The replay takes records of the ring, then rows; what it takes stays    *)
(* where it is.                                                            *)

LEMMA TakesInHand ==
    ASSUME NEW pc \in {"ring", "rows"}, NEW todo \in Seq(Messages), replay' = [NoReplay EXCEPT !.pc = pc, !.todo = todo]
    PROVE  /\ replay' \in Replays /\ replay'.pc = pc /\ replay'.todo = todo
           /\ replay'.ok = {} /\ replay'.bad = {}
BY Replaying DEF Replays

LEMMA LookAtRingStep ==
    ASSUME IInv, LookAtRing
    PROVE  IInv' /\ GivesUp
<1>1. UNCHANGED <<broker, session, connected, loop, accepted, inbox, pub, rows, retries, saved, evicted, dropped, delivered>>
      /\ replay.pc = "look"
  BY DEF LookAtRing, network
<1>2. replay.todo = <<>> /\ replay \in Replays /\ ring \in Seq(Records)
  BY <1>1 DEF IInv, ReplayKnows, TypeOK
<1>3. CASE Pending = <<>>
  <2>1. replay' = [replay EXCEPT !.pc = "select"] /\ ring' = ring
    BY <1>3 DEF LookAtRing
  <2>2. replay' \in Replays /\ replay'.pc = "select" /\ replay'.todo = <<>> /\ replay'.ok = replay.ok
    BY <1>2, <2>1 DEF Replays
  <2>3. Rows' = Rows /\ RingMessages' = RingMessages
    BY <1>1, <2>1, RingIs DEF Rows
  <2>4. Unstored' = Unstored /\ Places' = Places
    BY <1>1, <1>2, <2>2, <2>3 DEF Unstored, Places, InMemory
  <2>5. TypeOK'
    BY <1>1, <2>1, <2>2, <2>4 DEF IInv, TypeOK
  <2>6. StoredOnce' /\ ReplayKnows' /\ DurableUntilDelivered'
    BY <1>1, <2>2, <2>3, <2>4, Nothing DEF IInv, StoredOnce, ReplayKnows, DurableUntilDelivered
  <2>7. GivesUp
    BY <1>1, <2>4 DEF GivesUp, Lost
  <2>8. QED
    BY <2>5, <2>6, <2>7 DEF IInv
<1>4. CASE Pending # <<>>
  <2> DEFINE todo == MessagesOf(First(Pending))
  <2>1. replay' = [NoReplay EXCEPT !.pc = "ring", !.todo = todo] /\ ring' = Mark(ToSet(todo), "syncing")
    BY <1>4 DEF LookAtRing
  <2>2. todo \in Seq(Messages) /\ ToSet(todo) \subseteq RingMessages
    <3>1. Pending \in Seq(Records) /\ MessagesIn(Pending) \subseteq RingMessages
      BY <1>2, RingFiltered, RingIs DEF Pending
    <3>2. First(Pending) \in Seq(Records) /\ ToSet(First(Pending)) \subseteq ToSet(Pending)
      BY <3>1, FirstIs
    <3>3. MessagesIn(First(Pending)) \subseteq MessagesIn(Pending)
      BY <3>2 DEF MessagesIn, MessagesOf, ToSet
    <3>4. QED
      BY <3>1, <3>2, <3>3, RecordsHave DEF MessagesIn
  <2> HIDE DEF todo
  <2>3. replay' \in Replays /\ replay'.pc = "ring" /\ replay'.todo = todo /\ replay'.ok = {} /\ replay'.bad = {}
    BY <2>1, <2>2, TakesInHand
  <2>4. ring' \in Seq(Records) /\ MessagesOf(ring') = MessagesOf(ring) /\ Len(ring') = Len(ring)
    BY <1>2, <2>1, RingMarked
  <2>5. Rows' = Rows /\ RingMessages' = RingMessages
    BY <1>1, <2>4, RingIs DEF Rows, MessagesIn
  <2>6. Unstored' = Unstored /\ Places' = Places
    BY <1>1, <1>2, <2>2, <2>3, <2>5, Nothing DEF Unstored, Places, InMemory
  <2>7. TypeOK'
    BY <1>1, <2>3, <2>4, <2>6 DEF IInv, TypeOK
  <2>8. StoredOnce' /\ ReplayKnows' /\ DurableUntilDelivered'
    BY <1>1, <2>2, <2>3, <2>5, <2>6 DEF IInv, StoredOnce, ReplayKnows, DurableUntilDelivered
  <2>9. GivesUp
    BY <1>1, <2>6 DEF GivesUp, Lost
  <2>10. QED
    BY <2>7, <2>8, <2>9 DEF IInv
<1>5. QED
  BY <1>3, <1>4

LEMMA ReplayEndsStep ==
    ASSUME IInv, ReplayEnds
    PROVE  IInv' /\ GivesUp
<1>1. UNCHANGED <<broker, session, connected, loop, accepted, inbox, pub, delivered, rows, retries, ring, saved, evicted, dropped>>
      /\ replay' = NoReplay
  BY DEF ReplayEnds, network, store
<1>2. Rows' = Rows /\ RingMessages' = RingMessages
  BY <1>1, RingIs DEF Rows
<1>3. Unstored' = Unstored /\ Places' \subseteq Places
  BY <1>1, <1>2, Replaying, Nothing DEF Unstored, Places, InMemory
<1>4. TypeOK'
  BY <1>1, <1>3, Replaying DEF IInv, TypeOK
<1>5. StoredOnce' /\ ReplayKnows' /\ DurableUntilDelivered'
  BY <1>1, <1>2, <1>3, Replaying, Nothing DEF IInv, StoredOnce, ReplayKnows, DurableUntilDelivered
<1>6. GivesUp
  BY <1>1, <1>2, <1>3, Replaying, Nothing DEF IInv, ReplayKnows, GivesUp, Lost, Places, InMemory
<1>7. QED
  BY <1>6, <1>4, <1>5 DEF IInv

LEMMA SelectRowsStep ==
    ASSUME IInv, SelectRows
    PROVE  IInv' /\ GivesUp
<1> DEFINE left == {m \in Messages : retries[m] < MaxRetries}
           todo == First(Filter(rows, left))
<1>1. /\ UNCHANGED <<broker, session, connected, loop, accepted, inbox, pub, delivered>>
      /\ UNCHANGED <<rows, retries, ring, saved, evicted, dropped>>
      /\ replay.pc = "select"
      /\ replay' = Looking \/ (todo # <<>> /\ replay' = [NoReplay EXCEPT !.pc = "rows", !.todo = todo])
  BY DEF SelectRows, network, store
<1>2. replay.todo = <<>>
  BY <1>1 DEF IInv, ReplayKnows
<1>3. todo \in Seq(Messages) /\ ToSet(todo) \subseteq Rows /\ ToSet(todo) \subseteq left
  <2>1. rows \in Seq(Messages)
    BY DEF IInv, TypeOK
  <2> HIDE DEF left
  <2>2. Filter(rows, left) \in Seq(Messages) /\ ToSet(Filter(rows, left)) = Rows \cap left
    BY <2>1, Filtered DEF Rows
  <2>3. QED
    BY <2>2, FirstIs
<1>4. \A m \in ToSet(todo) : retries[m] < MaxRetries
  <2> HIDE DEF todo
  <2>1. QED
    BY <1>3
<1> HIDE DEF todo, left
<1>5. Rows' = Rows /\ RingMessages' = RingMessages
  BY <1>1, RingIs DEF Rows
<1>6. replay' \in Replays /\ replay'.ok = {} /\ replay'.bad = {}
      /\ ToSet(replay'.todo) \subseteq Rows /\ replay'.pc \in {"look", "rows"}
      /\ (replay'.pc = "look" => replay'.todo = <<>>)
      /\ (replay'.pc = "rows" => replay'.todo = todo)
  <2>1. CASE replay' = Looking
    BY <2>1, Replaying, Nothing
  <2>2. CASE replay' = [NoReplay EXCEPT !.pc = "rows", !.todo = todo]
    BY <1>3, <2>2, TakesInHand
  <2>3. QED
    BY <1>1, <2>1, <2>2
<1>7. Unstored' = Unstored /\ Places' = Places
  BY <1>1, <1>2, <1>5, <1>6, Nothing DEF Unstored, Places, InMemory
<1>8. TypeOK'
  BY <1>1, <1>6, <1>7 DEF IInv, TypeOK
<1>9. ReplayKnows'
  BY <1>1, <1>4, <1>5, <1>6 DEF ReplayKnows
<1>10. StoredOnce' /\ DurableUntilDelivered'
  BY <1>1, <1>5, <1>7 DEF IInv, StoredOnce, DurableUntilDelivered
<1>11. GivesUp
  BY <1>1, <1>7 DEF GivesUp, Lost
<1>12. QED
  BY <1>11, <1>8, <1>9, <1>10 DEF IInv

(* What is in hand is sent from the front, until one fails.                *)
LEMMA InHand ==
    ASSUME IInv, Sending
    PROVE  /\ replay \in Replays /\ replay.pc \in {"ring", "rows"} /\ replay.todo # <<>>
           /\ Head(replay.todo) \in ToSet(replay.todo) /\ Head(replay.todo) \in Messages
           /\ Tail(replay.todo) \in Seq(Messages)
           /\ ToSet(replay.todo) = {Head(replay.todo)} \cup ToSet(Tail(replay.todo))
           /\ ToSet(replay.todo) \subseteq accepted /\ ToSet(replay.todo) \subseteq Messages
<1>1. replay \in Replays /\ replay.pc \in {"ring", "rows"} /\ replay.todo # <<>>
  BY DEF IInv, TypeOK, Sending
<1>2. replay.todo \in Seq(Messages)
  BY <1>1 DEF Replays
<1>3. ToSet(replay.todo) \subseteq accepted /\ accepted \subseteq Messages
  BY DEF IInv, TypeOK, Places
<1>4. QED
  BY <1>1, <1>2, <1>3, Tailed

LEMMA ResendStep ==
    ASSUME IInv, Resend
    PROVE  IInv' /\ Confirms(Head(replay.todo))
<1> DEFINE m == Head(replay.todo)
<1>1. UNCHANGED <<broker, session, connected, loop, accepted, inbox, pub, rows, retries, ring, saved, evicted, dropped>>
      /\ delivered' = delivered \cup {m} /\ Sending
      /\ replay' = [replay EXCEPT !.todo = Tail(@), !.ok = @ \cup {m}]
  BY DEF Resend, network, store
<1>2. /\ replay \in Replays /\ m \in ToSet(replay.todo) /\ m \in Messages /\ m \in accepted
      /\ Tail(replay.todo) \in Seq(Messages) /\ ToSet(Tail(replay.todo)) \subseteq ToSet(replay.todo)
      /\ replay.pc \in {"ring", "rows"}
  BY <1>1, InHand
<1> HIDE DEF m
<1>3. /\ replay' \in Replays /\ replay'.pc = replay.pc /\ replay'.todo = Tail(replay.todo)
      /\ replay'.ok = replay.ok \cup {m} /\ replay'.bad = replay.bad
  BY <1>1, <1>2 DEF Replays
<1>4. Rows' = Rows /\ RingMessages' = RingMessages
  BY <1>1, RingIs DEF Rows
<1>5. Unstored' = Unstored /\ Places' \subseteq Places
  BY <1>1, <1>2, <1>3, <1>4 DEF Unstored, Places, InMemory
<1>6. TypeOK'
  BY <1>1, <1>2, <1>3, <1>5 DEF IInv, TypeOK
<1>7. StoredOnce' /\ ReplayKnows' /\ DurableUntilDelivered'
  BY <1>1, <1>2, <1>3, <1>4, <1>5 DEF IInv, StoredOnce, ReplayKnows, DurableUntilDelivered
<1>8. Confirms(Head(replay.todo))
  <2>1. m \in Places /\ Places \ Places' \subseteq {m}
    BY <1>1, <1>2, <1>3, <1>4, InHand DEF Places, InMemory, m
  <2>2. Confirms(m)
    BY <1>1, <1>5, <2>1 DEF Confirms, Lost
  <2>3. QED
    BY <2>2 DEF m
<1>9. QED
  BY <1>8, <1>6, <1>7 DEF IInv

LEMMA ResendEndsSteps ==
    ASSUME IInv, ResendFails \/ BreakOff
    PROVE  IInv' /\ GivesUp
<1>1. UNCHANGED <<broker, session, connected, loop, accepted, inbox, pub, delivered, rows, retries, ring, saved, evicted, dropped>>
      /\ Sending
  BY DEF ResendFails, BreakOff, network, store
<1>2. /\ replay \in Replays /\ Head(replay.todo) \in ToSet(replay.todo) /\ replay.pc \in {"ring", "rows"}
      /\ ToSet(replay.todo) \subseteq Messages
  BY <1>1, InHand
<1>3. <<>> \in Seq(Messages)
  OBVIOUS
<1>4. PICK bad \in SUBSET ToSet(replay.todo) : replay' = [replay EXCEPT !.todo = <<>>, !.bad = bad]
  <2>1. CASE ResendFails
    BY <1>2, <2>1 DEF ResendFails
  <2>2. CASE BreakOff
    BY <2>2 DEF BreakOff
  <2>3. QED
    BY <2>1, <2>2
<1>5. /\ replay' \in Replays /\ replay'.pc = replay.pc /\ replay'.todo = <<>>
      /\ replay'.ok = replay.ok /\ replay'.bad = bad
  BY <1>2, <1>3, <1>4 DEF Replays
<1>6. Rows' = Rows /\ RingMessages' = RingMessages
  BY <1>1, RingIs DEF Rows
<1>7. Unstored' = Unstored /\ Places' \subseteq Places
  BY <1>1, <1>5, <1>6, Nothing DEF Unstored, Places, InMemory
<1>8. TypeOK'
  BY <1>1, <1>5, <1>7 DEF IInv, TypeOK
<1>9. StoredOnce' /\ ReplayKnows' /\ DurableUntilDelivered'
  BY <1>1, <1>2, <1>4, <1>5, <1>6, <1>7, Nothing DEF IInv, StoredOnce, ReplayKnows, DurableUntilDelivered
<1>10. GivesUp
  BY <1>1, <1>5, <1>6, <1>7, Nothing DEF IInv, ReplayKnows, GivesUp, Lost, Places, InMemory
<1>11. QED
  BY <1>10, <1>8, <1>9 DEF IInv

(* The end of a batch removes what was sent, from the ring and the table.  *)
LEMMA MarkSyncedStep ==
    ASSUME IInv, MarkSynced
    PROVE  IInv' /\ GivesUp
<1> DEFINE S == [msg : Messages \ replay.ok, status : {"pending", "syncing"}]
<1>1. UNCHANGED <<broker, session, connected, loop, accepted, inbox, pub, rows, retries, saved, evicted, dropped, delivered>>
      /\ ring' = Filter(ring, S) /\ replay' = [replay EXCEPT !.pc = "erase"] /\ replay.todo = <<>>
  BY DEF MarkSynced, Sent, network
<1>2. replay \in Replays /\ RingOK(ring) /\ replay.ok \subseteq delivered
  BY DEF IInv, TypeOK, RingOK, ReplayKnows
<1>3. \A i \in 1..Len(ring) : ring[i] \in S \/ ring[i].msg \in replay.ok
  <2>1. \A rec \in Records : rec.msg \notin replay.ok => rec \in S
    BY DEF Records
  <2>2. \A i \in 1..Len(ring) : ring[i] \in Records
    BY <1>2 DEF RingOK
  <2> HIDE DEF S
  <2>3. QED
    BY <2>1, <2>2
<1> HIDE DEF S
<1>4. /\ RingOK(ring') /\ RingMessages' \subseteq RingMessages
      /\ RingMessages \ RingMessages' \subseteq replay.ok
  <2>1. ring \in Seq(Records) /\ Len(ring) \in Nat /\ MaxRing \in Nat /\ DOMAIN ring = 1..Len(ring)
    BY <1>2, BoundsAssumption DEF RingOK
  <2>2. /\ ring' \in Seq(Records) /\ Len(ring') <= Len(ring) /\ IsInjective(MessagesOf(ring'))
        /\ MessagesIn(ring') \subseteq MessagesIn(ring)
        /\ \A i \in 1..Len(ring) : ring[i] \in S => ring[i].msg \in MessagesIn(ring')
    BY <1>1, <1>2, RingFiltered DEF RingOK
  <2>3. Len(ring') \in Nat
    BY <2>2
  <2>4. RingOK(ring')
    BY <1>2, <2>1, <2>2, <2>3 DEF RingOK
  <2>5. \A i \in 1..Len(ring) : ring[i].msg \in RingMessages' \cup replay.ok
    BY <1>3, <2>2, RingIs
  <2>6. RingMessages \subseteq RingMessages' \cup replay.ok
    BY <2>1, <2>5 DEF RingMessages
  <2>7. QED
    BY <2>2, <2>4, <2>6, RingIs
<1>5. /\ replay' \in Replays /\ replay'.pc = "erase" /\ replay'.todo = <<>> /\ replay'.ok = replay.ok
  BY <1>1, <1>2 DEF Replays
<1>6. Rows' = Rows /\ Unstored' = Unstored
  BY <1>1 DEF Rows, Unstored
<1>7. Places' \subseteq Places
  BY <1>1, <1>4, <1>5, <1>6 DEF Places, InMemory
<1>8. TypeOK'
  BY <1>1, <1>4, <1>5, <1>7 DEF IInv, TypeOK, RingOK
<1>9. StoredOnce' /\ ReplayKnows' /\ DurableUntilDelivered'
  BY <1>1, <1>4, <1>5, <1>6, Nothing DEF IInv, StoredOnce, ReplayKnows, DurableUntilDelivered
<1>10. GivesUp
  BY <1>1, <1>2, <1>4, <1>5, <1>6, <1>7, Nothing DEF GivesUp, Lost, Places, InMemory
<1>11. QED
  BY <1>10, <1>8, <1>9 DEF IInv

LEMMA EraseRowsStep ==
    ASSUME IInv, EraseRows
    PROVE  IInv' /\ GivesUp
<1>1. UNCHANGED <<broker, session, connected, loop, accepted, inbox, pub, retries, ring, saved, evicted, dropped, delivered>>
      /\ (rows' = Without(replay.ok) \/ rows' = rows) /\ replay' = [replay EXCEPT !.pc = "fail"]
  BY DEF EraseRows, network
<1>2. replay \in Replays /\ RowsOK(rows) /\ replay.ok \subseteq delivered
  BY DEF IInv, TypeOK, RowsOK, ReplayKnows
<1>3. RowsOK(rows') /\ Rows' \subseteq Rows /\ Rows \ Rows' \subseteq replay.ok
  BY <1>1, <1>2, WithoutGives DEF Rows
<1>4. /\ replay' \in Replays /\ replay'.pc = "fail" /\ replay'.todo = replay.todo /\ replay'.ok = replay.ok
  BY <1>1, <1>2 DEF Replays
<1>5. RingMessages' = RingMessages /\ Unstored' = Unstored
  BY <1>1, RingIs DEF Unstored
<1>6. Places' \subseteq Places
  BY <1>1, <1>3, <1>4, <1>5 DEF Places, InMemory
<1>7. TypeOK'
  BY <1>1, <1>3, <1>4, <1>6 DEF IInv, TypeOK, RowsOK
<1>8. StoredOnce' /\ ReplayKnows' /\ DurableUntilDelivered'
  BY <1>1, <1>2, <1>3, <1>4, <1>5 DEF IInv, StoredOnce, ReplayKnows, DurableUntilDelivered
<1>9. GivesUp
  BY <1>1, <1>2, <1>3, <1>4, <1>5, <1>6 DEF GivesUp, Lost, Places, InMemory
<1>10. QED
  BY <1>9, <1>7, <1>8 DEF IInv

LEMMA MarkFailedStep ==
    ASSUME IInv, MarkFailed
    PROVE  IInv' /\ GivesUp
<1>1. UNCHANGED <<broker, session, connected, loop, accepted, inbox, pub, rows, retries, saved, evicted, dropped, delivered>>
      /\ ring' = Mark(replay.bad, "pending") /\ replay' = Looking
  BY DEF MarkFailed, network
<1>2. ring \in Seq(Records)
  BY DEF IInv, TypeOK
<1>3. ring' \in Seq(Records) /\ MessagesOf(ring') = MessagesOf(ring) /\ Len(ring') = Len(ring)
  BY <1>1, <1>2, RingMarked
<1>4. Rows' = Rows /\ RingMessages' = RingMessages
  BY <1>1, <1>3, RingIs DEF Rows, MessagesIn
<1>5. Unstored' = Unstored /\ Places' \subseteq Places
  BY <1>1, <1>4, Replaying, Nothing DEF Unstored, Places, InMemory
<1>6. TypeOK'
  BY <1>1, <1>3, <1>5, Replaying DEF IInv, TypeOK
<1>7. StoredOnce' /\ ReplayKnows' /\ DurableUntilDelivered'
  BY <1>1, <1>4, <1>5, Replaying, Nothing DEF IInv, StoredOnce, ReplayKnows, DurableUntilDelivered
<1>8. GivesUp
  BY <1>1, <1>4, <1>5, Replaying, Nothing DEF IInv, ReplayKnows, GivesUp, Lost, Places, InMemory
<1>9. QED
  BY <1>8, <1>6, <1>7 DEF IInv

LEMMA FinishRowsStep ==
    ASSUME IInv, FinishRows
    PROVE  IInv' /\ GivesUp
<1>1. UNCHANGED <<broker, session, connected, loop, accepted, inbox, pub, ring, saved, evicted, dropped, delivered>>
      /\ rows' \in {rows, Without(replay.ok)} /\ replay' = Looking /\ replay.pc = "rows"
      /\ retries' \in {retries, Counted}
  BY DEF FinishRows, Sent, network
<1>2. RowsOK(rows) /\ replay.ok \subseteq delivered /\ retries \in [Messages -> 0..MaxRetries] /\ MaxRetries \in Nat
      /\ \A m \in replay.bad : retries[m] < MaxRetries
  BY <1>1, BoundsAssumption DEF IInv, TypeOK, RowsOK, ReplayKnows
<1>3. RowsOK(rows') /\ Rows' \subseteq Rows /\ Rows \ Rows' \subseteq replay.ok
  BY <1>1, <1>2, WithoutGives DEF Rows
<1>4. retries' \in [Messages -> 0..MaxRetries]
  BY <1>1, <1>2 DEF Counted
<1>5. RingMessages' = RingMessages /\ Unstored' = Unstored
  BY <1>1, RingIs DEF Unstored
<1>6. Places' \subseteq Places
  BY <1>1, <1>3, <1>5, Replaying, Nothing DEF Places, InMemory
<1>7. TypeOK'
  BY <1>1, <1>3, <1>4, <1>6, Replaying DEF IInv, TypeOK, RowsOK
<1>8. StoredOnce' /\ ReplayKnows' /\ DurableUntilDelivered'
  BY <1>1, <1>2, <1>3, <1>5, Replaying, Nothing DEF IInv, StoredOnce, ReplayKnows, DurableUntilDelivered
<1>9. GivesUp
  BY <1>1, <1>2, <1>3, <1>5, <1>6, Replaying, Nothing DEF IInv, ReplayKnows, GivesUp, Lost, Places, InMemory
<1>10. QED
  BY <1>9, <1>7, <1>8 DEF IInv

(* A stop forgets everything but the table.                                *)
LEMMA RestartStep ==
    ASSUME IInv, Restart
    PROVE  IInv' /\ GivesUp
<1>1. UNCHANGED <<broker, accepted, rows, retries, saved, evicted, delivered>>
      /\ loop' = "away" /\ connected' = FALSE /\ session' = FALSE
      /\ inbox' = <<>> /\ pub' = Idle /\ replay' = NoReplay
      /\ ring' \in {Restored, <<>>} /\ dropped' = dropped \cup InMemory
  BY DEF Restart
<1>2. RowsOK(rows)
  BY DEF IInv, TypeOK, RowsOK
<1>3. RingOK(ring') /\ RingMessages' \subseteq Rows /\ Rows' = Rows
  <2>1. CASE ring' = Restored
    BY <1>1, <1>2, <2>1, RestoredIs, RingIs DEF RowsOK, Rows
  <2>2. CASE ring' = <<>>
    <3>1. MessagesOf(<<>>) = <<>> /\ <<>> \in Seq(Records) /\ Len(<<>>) = 0
      BY DEF MessagesOf
    <3>2. RingOK(<<>>) /\ MessagesIn(<<>>) = {}
      BY <3>1, Nothing, BoundsAssumption DEF RingOK, MessagesIn
    <3>3. QED
      BY <1>1, <2>2, <3>2, RingIs DEF Rows
  <2>3. QED
    BY <1>1, <2>1, <2>2
<1>4. Unstored' = {} /\ Places' \subseteq Places /\ InMemory \subseteq Places
  BY <1>1, <1>3, Replaying, Nothing DEF Unstored, Places, InMemory
<1>5. TypeOK'
  <2>1. {broker, session, connected}' \subseteq BOOLEAN
    BY <1>1 DEF IInv, TypeOK
  <2>2. inbox' \in Seq(Messages) /\ IsInjective(inbox') /\ Len(inbox') <= MaxQueue
    <3>1. <<>> \in Seq(Messages) /\ Len(<<>>) = 0
      OBVIOUS
    <3>2. QED
      BY <1>1, <3>1, Nothing, BoundsAssumption
  <2>3. QED
    BY <1>1, <1>2, <1>3, <1>4, <2>1, <2>2, Replaying DEF IInv, TypeOK, RingOK, RowsOK
<1>6. StoredOnce' /\ ReplayKnows' /\ DurableUntilDelivered'
  BY <1>1, <1>3, <1>4, Replaying, Nothing DEF IInv, StoredOnce, ReplayKnows, DurableUntilDelivered
<1>7. GivesUp
  BY <1>1, <1>3, <1>4, Replaying, Nothing DEF IInv, ReplayKnows, GivesUp, Lost, Places, InMemory
<1>8. QED
  BY <1>7, <1>5, <1>6 DEF IInv

Flow == GivesUp \/ (\E m \in Messages : TakesIn(m)) \/ (\E m \in Places : Confirms(m))

LEMMA InvNext == IInv /\ [Next]_vars => IInv' /\ Flow
<1> SUFFICES ASSUME IInv, [Next]_vars PROVE IInv' /\ Flow
  OBVIOUS
<1>1. CASE BrokerComes \/ BrokerGoes \/ Connect
  BY <1>1, NetworkSteps DEF Flow
<1>2. CASE Accept
  BY <1>2, AcceptStep DEF Flow
<1>3. CASE AcceptTimesOut
  BY <1>3, AcceptTimesOutStep DEF Flow
<1>4. CASE Take
  BY <1>4, TakeStep DEF Flow
<1>5. CASE Send \/ SendTimesOut
  BY <1>5, SendSteps DEF Confirms, Flow
<1>6. CASE SendRefused
  BY <1>6, SendRefusedStep DEF Flow
<1>7. CASE Store
  BY <1>7, StoreStep DEF Flow
<1>8. CASE ReplayStep
  BY <1>8, LookAtRingStep, ReplayEndsStep, SelectRowsStep, ResendStep, ResendEndsSteps,
     MarkSyncedStep, EraseRowsStep, MarkFailedStep, FinishRowsStep DEF ReplayStep, Confirms, Flow
<1>9. CASE Restart
  BY <1>9, RestartStep DEF Flow
<1>10. CASE UNCHANGED vars
  <2>1. Rows' = Rows /\ RingMessages' = RingMessages /\ Unstored' = Unstored /\ Places' = Places
    BY <1>10, RingIs DEF vars, Rows, Unstored, Places, InMemory
  <2>2. QED
    BY <1>10, <2>1 DEF vars, IInv, TypeOK, StoredOnce, ReplayKnows, DurableUntilDelivered, Flow, GivesUp, Lost
<1>11. QED
  BY <1>1, <1>2, <1>3, <1>4, <1>5, <1>6, <1>7, <1>8, <1>9, <1>10 DEF Next

LEMMA InvHolds == Spec => []IInv
BY InvInit, InvNext, PTL DEF Spec

(* Queue, table, ring and replay keep their types, queue and ring their    *)
(* bounds (the table need not keep its own), and they hold                 *)
(* only messages that were accepted, and no message twice.                 *)
THEOREM TypeOKHolds == Spec => []TypeOK
<1>1. IInv => TypeOK
  BY DEF IInv
<1>2. QED
  BY <1>1, InvHolds, PTL

(* A message that reached the table is there, confirmed, or has made room: *)
(* no crash, no failed delete and no replay loses it.                      *)
THEOREM DurableUntilDeliveredHolds == Spec => []DurableUntilDelivered
<1>1. IInv => DurableUntilDelivered
  BY DEF IInv
<1>2. QED
  BY <1>1, InvHolds, PTL

-----------------------------------------------------------------------------
(* The forwarder keeps the promise of a store-and-forward path.            *)

LEMMA FlowMaps == IInv /\ Flow => [Path!Next]_(Path!vars)
<1> SUFFICES ASSUME IInv, Flow PROVE Path!Next
  OBVIOUS
<1>1. CASE GivesUp
  <2>1. Path!GivesUp(Places, Places', delivered, Lost, Lost')
    BY <1>1 DEF GivesUp, Lost, Path!GivesUp
  <2>2. QED
    BY <2>1, Path!GivingUpMaps DEF Path!Next
<1>2. CASE \E m \in Messages : TakesIn(m)
  <2>1. PICK m \in Messages : TakesIn(m)
    BY <1>2
  <2>2. m \notin Places \cup delivered \cup Lost
    BY <2>1 DEF IInv, TypeOK, TakesIn, Lost
  <2>3. Path!TakesIn(Places, Places', delivered, Lost, Lost', m)
    BY <2>1, <2>2 DEF TakesIn, Lost, Path!TakesIn
  <2>4. QED
    BY <2>3, Path!ArrivalMaps DEF Path!Next
<1>3. CASE \E m \in Places : Confirms(m)
  <2>1. PICK m \in Places : Confirms(m)
    BY <1>3
  <2>2. Path!Confirms(Places, Places', delivered, delivered \cup {m}, Lost)
    BY <2>1 DEF Confirms, Lost, Path!Confirms
  <2>3. QED
    BY <2>2, Path!DeliveryMaps DEF Path!Next
<1>4. QED
  BY <1>1, <1>2, <1>3 DEF Flow

LEMMA PathIsNorth == (Path!Init <=> North!Init) /\ ([Path!Next]_(Path!vars) <=> [North!Next]_(North!vars))
BY DEF Path!Init, North!Init, Path!Next, North!Next, Path!vars, North!vars,
       Path!Accept, North!Accept, Path!Deliver, North!Deliver, Path!GiveUp, North!GiveUp

(* Every accepted message is delivered, stored or on its way, or was given *)
(* up by one of the rules: the forwarder implements StoreForward.          *)
THEOREM PromiseHolds == Spec => Promise
<1>1. Init => North!Init
  <2>1. Init => Places = {}
    BY Replaying, Nothing DEF Init, Places, InMemory, Rows, RingMessages
  <2>2. QED
    BY <2>1 DEF Init, North!Init
<1>2. IInv /\ [Next]_vars => [North!Next]_(North!vars)
  BY InvNext, FlowMaps, PathIsNorth
<1>3. QED
  BY <1>1, <1>2, InvHolds, PTL DEF Spec, Promise, North!Spec

(* Nothing is lost without a trace: what the handlers were given is in one *)
(* of the queues, in the table, in hand, confirmed, or among what a rule   *)
(* gave up.                                                                *)
Accounted == accepted \subseteq Places \cup delivered \cup Lost

THEOREM AccountedHolds == Spec => []Accounted
<1>1. Init => Accounted
  BY DEF Init, Accounted
<1>2. IInv /\ Accounted /\ [Next]_vars => Accounted'
  <2>1. SUFFICES ASSUME Accounted, Flow PROVE Accounted'
    BY InvNext
  <2>2. CASE GivesUp
    BY <2>1, <2>2 DEF Accounted, GivesUp
  <2>3. CASE \E m \in Messages : TakesIn(m)
    BY <2>1, <2>3 DEF Accounted, TakesIn
  <2>4. CASE \E m \in Places : Confirms(m)
    BY <2>1, <2>4 DEF Accounted, Confirms
  <2>5. QED
    BY <2>1, <2>2, <2>3, <2>4 DEF Flow
<1>3. QED
  BY <1>1, <1>2, InvHolds, PTL DEF Spec
=============================================================================
