--------------------------- MODULE BackhaulProofs ---------------------------
(***************************************************************************)
(* Theorems about Backhaul, for every set of messages, any number of       *)
(* handlers and all bounds.                                                *)
(***************************************************************************)
EXTENDS Backhaul, TLAPS

(* StoreForwardProofs, for the backhaul.                                   *)
Path == INSTANCE StoreForwardProofs WITH
    held      <- Places \ Delivered,
    delivered <- Delivered,
    dropped   <- dropped \ (Places \cup Delivered)

-----------------------------------------------------------------------------
(* The inductive invariant.                                                *)

\* A handler has a message that is not stored yet.
Busy(work) == work.pc \in {"broadcast", "insert"}

Carried == {hand[h].msg : h \in {i \in Handlers : Busy(hand[i])}}

\* What waits for the next connection, or is being flushed.
Flushed == IF flush.pc = "send" THEN {flush.msg} ELSE {}

Fall == ToSet(fallback) \cup Flushed

(* A handler has its message alone.                                        *)
OneEach == \A h, i \in Handlers : Busy(hand[h]) /\ Busy(hand[i]) /\ h # i => hand[h].msg # hand[i].msg

CarriedOnce == OneEach /\ Carried \cap (Rows \cup Fall \cup ToSet(resend.todo) \cup Delivered) = {}

(* What waits in memory waits once, and was not sent, nor stored, unless   *)
(* its commit failed.                                                      *)
FallOnce ==
    /\ IsInjective(fallback)
    /\ Flushed \cap ToSet(fallback) = {}
    /\ \A m \in Fall : m \in unsure \/ (copies[m] = 0 /\ m \notin Rows \cup ToSet(resend.todo))

(* A row that was sent is in the batch that will be acknowledged.          *)
RowsOnce ==
    /\ \A m \in Rows : m \in unsure \/ copies[m] = 0 \/ m \in resend.ok
    /\ resend.pc = "count" => resend.ok \cap Rows = {}

(* The resend loop knows what it has in hand: rows with a retry left, each *)
(* once, not sent before, still stored or given up since; and it takes for *)
(* sent nothing that was not.                                              *)
ResendKnows ==
    /\ resend.pc # "send" => resend.todo = <<>>
    /\ resend.pc = "sleep" => resend.ok = {} /\ resend.bad = {}
    /\ \A m \in ToSet(resend.todo) \cup resend.bad : retries[m] < MaxRetries
    /\ IsInjective(resend.todo) /\ ToSet(resend.todo) \cap resend.ok = {}
    /\ \A m \in ToSet(resend.todo) : m \in unsure \/ copies[m] = 0
    /\ resend.ok \subseteq Delivered
    /\ ToSet(resend.todo) \subseteq Rows \cup dropped \cup Delivered

IInv == TypeOK /\ CarriedOnce /\ FallOnce /\ RowsOnce /\ ResendKnows /\ OnceUnlessUnsure

-----------------------------------------------------------------------------
(* Sequences.                                                              *)

LEMMA Appended ==
    ASSUME NEW T, NEW s \in Seq(T), NEW x \in T
    PROVE  /\ Append(s, x) \in Seq(T) /\ Len(Append(s, x)) = Len(s) + 1
           /\ ToSet(Append(s, x)) = ToSet(s) \cup {x}
           /\ IsInjective(s) /\ x \notin ToSet(s) => IsInjective(Append(s, x))
BY Path!Appended DEF Path!ToSet, ToSet, Path!IsInjective, IsInjective

LEMMA Cut ==
    ASSUME NEW T, NEW s \in Seq(T), NEW a \in Nat \ {0}, NEW b \in Nat, b <= Len(s)
    PROVE  /\ SubSeq(s, a, b) \in Seq(T) /\ Len(SubSeq(s, a, b)) = IF a <= b THEN b - a + 1 ELSE 0
           /\ ToSet(SubSeq(s, a, b)) \subseteq ToSet(s)
           /\ IsInjective(s) => IsInjective(SubSeq(s, a, b))
           /\ \A i \in 1..Len(SubSeq(s, a, b)) : a - 1 + i \in 1..Len(s) /\ SubSeq(s, a, b)[i] = s[a - 1 + i]
BY Path!Cut DEF Path!ToSet, ToSet, Path!IsInjective, IsInjective

LEMMA Tailed ==
    ASSUME NEW T, NEW s \in Seq(T), s # <<>>
    PROVE  /\ Tail(s) \in Seq(T) /\ Head(s) \in T /\ Len(Tail(s)) = Len(s) - 1
           /\ ToSet(s) = {Head(s)} \cup ToSet(Tail(s))
           /\ IsInjective(s) => IsInjective(Tail(s)) /\ Head(s) \notin ToSet(Tail(s))
BY Path!Tailed DEF Path!ToSet, ToSet, Path!IsInjective, IsInjective

LEMMA Filtered ==
    ASSUME NEW T, NEW s \in Seq(T), NEW S
    PROVE  /\ Filter(s, S) \in Seq(T) /\ Len(Filter(s, S)) <= Len(s)
           /\ ToSet(Filter(s, S)) = ToSet(s) \cap S
           /\ IsInjective(s) => IsInjective(Filter(s, S))
BY Path!Filtered DEF Path!ToSet, ToSet, Path!IsInjective, IsInjective, Path!Filter, Filter

(* The two parts of a sequence have its elements.                          *)
LEMMA CutInTwo ==
    ASSUME NEW T, NEW s \in Seq(T), NEW n \in 0..Len(s)
    PROVE  /\ SubSeq(s, n + 1, Len(s)) \in Seq(T)
           /\ ToSet(s) = ToSet(SubSeq(s, 1, n)) \cup ToSet(SubSeq(s, n + 1, Len(s)))
           /\ IsInjective(s) => IsInjective(SubSeq(s, n + 1, Len(s)))
<1> DEFINE old == SubSeq(s, 1, n)
           new == SubSeq(s, n + 1, Len(s))
<1>1. Len(s) \in Nat /\ n \in Nat /\ n <= Len(s) /\ n + 1 \in Nat \ {0} /\ 1 \in Nat \ {0} /\ Len(s) <= Len(s)
  OBVIOUS
<1>2. /\ new \in Seq(T) /\ ToSet(new) \subseteq ToSet(s) /\ (IsInjective(s) => IsInjective(new))
      /\ Len(new) = IF n + 1 <= Len(s) THEN Len(s) - (n + 1) + 1 ELSE 0
      /\ \A i \in 1..Len(new) : new[i] = s[(n + 1) - 1 + i]
  BY <1>1, Cut
<1>3. /\ old \in Seq(T) /\ ToSet(old) \subseteq ToSet(s)
      /\ Len(old) = IF 1 <= n THEN n - 1 + 1 ELSE 0
      /\ \A i \in 1..Len(old) : old[i] = s[1 - 1 + i]
  BY <1>1, Cut
<1>4. DOMAIN s = 1..Len(s) /\ DOMAIN old = 1..Len(old) /\ DOMAIN new = 1..Len(new)
  BY <1>2, <1>3
<1> HIDE DEF old, new
<1>5. Len(old) = n /\ Len(new) = Len(s) - n
  BY <1>1, <1>2, <1>3
<1>6. \A i \in 1..Len(s) : s[i] \in ToSet(old) \cup ToSet(new)
  <2>1. SUFFICES ASSUME NEW i \in 1..Len(s) PROVE s[i] \in ToSet(old) \cup ToSet(new)
    OBVIOUS
  <2>2. CASE i <= n
    <3>1. i \in 1..Len(old) /\ old[i] = s[i]
      BY <1>1, <1>3, <1>5, <2>2
    <3>2. QED
      BY <1>4, <3>1 DEF ToSet
  <2>3. CASE i > n
    <3>1. i - n \in 1..Len(new) /\ (n + 1) - 1 + (i - n) = i
      BY <1>1, <1>5, <2>3
    <3>2. new[i - n] = s[i]
      BY <1>2, <3>1
    <3>3. QED
      BY <1>4, <3>1, <3>2 DEF ToSet
  <2>4. QED
    BY <1>1, <2>2, <2>3
<1>7. ToSet(s) \subseteq ToSet(old) \cup ToSet(new)
  BY <1>4, <1>6 DEF ToSet
<1>8. QED
  BY <1>2, <1>3, <1>7 DEF old, new

LEMMA Prepended ==
    ASSUME NEW T, NEW s \in Seq(T), NEW x \in T
    PROVE  /\ <<x>> \o s \in Seq(T) /\ Len(<<x>> \o s) = Len(s) + 1
           /\ ToSet(<<x>> \o s) = ToSet(s) \cup {x}
           /\ IsInjective(s) /\ x \notin ToSet(s) => IsInjective(<<x>> \o s)
<1> DEFINE g == <<x>> \o s
<1>1. /\ g \in Seq(T) /\ Len(g) = Len(s) + 1 /\ g[1] = x
      /\ \A k \in 1..Len(s) : g[k + 1] = s[k]
      /\ Len(s) \in Nat /\ DOMAIN s = 1..Len(s)
  OBVIOUS
<1> HIDE DEF g
<1>2. DOMAIN g = 1..Len(g) /\ 1 \in 1..Len(g)
  BY <1>1
<1>3. \A k \in 1..Len(g) : k = 1 \/ (k - 1 \in 1..Len(s) /\ g[k] = s[k - 1])
  <2>1. SUFFICES ASSUME NEW k \in 1..Len(g), k # 1 PROVE k - 1 \in 1..Len(s) /\ g[k] = s[k - 1]
    OBVIOUS
  <2>2. k - 1 \in 1..Len(s) /\ (k - 1) + 1 = k
    BY <1>1, <2>1
  <2>3. QED
    BY <1>1, <2>2
<1>4. \A k \in 1..Len(s) : k + 1 \in 1..Len(g)
  BY <1>1
<1>5. ToSet(g) \subseteq ToSet(s) \cup {x}
  BY <1>1, <1>2, <1>3 DEF ToSet
<1>6. ToSet(s) \cup {x} \subseteq ToSet(g)
  BY <1>1, <1>2, <1>4 DEF ToSet
<1>7. IsInjective(s) /\ x \notin ToSet(s) => IsInjective(g)
  <2>1. SUFFICES ASSUME IsInjective(s), x \notin ToSet(s), NEW i \in 1..Len(g), NEW j \in 1..Len(g), g[i] = g[j]
                 PROVE  i = j
    BY <1>2 DEF IsInjective
  <2>2. CASE i = 1 \/ j = 1
    BY <1>1, <1>3, <2>1, <2>2 DEF ToSet
  <2>3. CASE i # 1 /\ j # 1
    <3>1. i - 1 = j - 1
      BY <1>1, <1>3, <2>1, <2>3 DEF IsInjective
    <3>2. QED
      BY <3>1
  <2>4. QED
    BY <2>2, <2>3
<1>8. QED
  BY <1>1, <1>5, <1>6, <1>7 DEF g

LEMMA Fronted ==
    ASSUME NEW T, NEW s \in Seq(T), Len(s) > 0
    PROVE  /\ Front(s) \in Seq(T) /\ Len(Front(s)) = Len(s) - 1 /\ Last(s) \in ToSet(s)
           /\ ToSet(s) = ToSet(Front(s)) \cup {Last(s)}
           /\ IsInjective(s) => IsInjective(Front(s))
<1> DEFINE g == Front(s)
<1>1. Len(s) \in Nat /\ Len(s) - 1 \in Nat /\ Len(s) - 1 <= Len(s) /\ 1 \in Nat \ {0}
  OBVIOUS
<1>2. /\ g \in Seq(T) /\ Len(g) = Len(s) - 1 /\ ToSet(g) \subseteq ToSet(s)
      /\ IsInjective(s) => IsInjective(g)
      /\ \A i \in 1..Len(g) : g[i] = s[1 - 1 + i]
  <2>1. PICK n \in Nat : n = Len(s) - 1 /\ n <= Len(s)
    BY <1>1
  <2>2. /\ SubSeq(s, 1, n) \in Seq(T) /\ Len(SubSeq(s, 1, n)) = (IF 1 <= n THEN n - 1 + 1 ELSE 0)
        /\ ToSet(SubSeq(s, 1, n)) \subseteq ToSet(s)
        /\ IsInjective(s) => IsInjective(SubSeq(s, 1, n))
        /\ \A i \in 1..Len(SubSeq(s, 1, n)) : SubSeq(s, 1, n)[i] = s[1 - 1 + i]
    BY <1>1, <2>1, Cut
  <2>3. g = SubSeq(s, 1, n)
    BY <2>1 DEF Front
  <2>4. n = IF 1 <= n THEN n - 1 + 1 ELSE 0
    BY <2>1
  <2>5. QED
    BY <2>1, <2>2, <2>3, <2>4
<1>3. DOMAIN s = 1..Len(s) /\ DOMAIN g = 1..Len(g)
  BY <1>2
<1> HIDE DEF g
<1>4. Last(s) = s[Len(s)] /\ Len(s) \in 1..Len(s)
  BY <1>1 DEF Last
<1>5. \A i \in 1..Len(s) : i = Len(s) \/ (i \in 1..Len(g) /\ g[i] = s[i])
  BY <1>1, <1>2
<1>6. \A i \in 1..Len(s) : s[i] = Last(s) \/ s[i] \in ToSet(g)
  BY <1>3, <1>4, <1>5 DEF ToSet
<1>7. ToSet(s) \subseteq ToSet(g) \cup {Last(s)} /\ Last(s) \in ToSet(s)
  BY <1>3, <1>4, <1>6 DEF ToSet
<1>8. QED
  BY <1>2, <1>7 DEF g

-----------------------------------------------------------------------------
(* What a step does to the messages, as in StoreForwardProofs.             *)

GivesUp ==
    /\ accepted' = accepted /\ Delivered' = Delivered /\ Places' \subseteq Places
    /\ dropped \subseteq dropped' /\ dropped' \subseteq dropped \cup Places
    /\ Places \ Places' \subseteq dropped' \cup Delivered

TakesIn(m) ==
    /\ m \in Messages \ accepted /\ accepted' = accepted \cup {m}
    /\ Delivered' = Delivered /\ dropped' = dropped /\ Places' = Places \cup {m}

Confirms(m) ==
    /\ m \in Places /\ accepted' = accepted
    /\ Delivered' = Delivered \cup {m} /\ dropped' = dropped /\ Places' \subseteq Places
    /\ Places \ Places' \subseteq Delivered \cup {m}

LEMMA PlacesAre == Places = ToSet(fallback) \cup Carried \cup Flushed \cup Rows \cup ToSet(resend.todo)
BY DEF Places, InMemory, Carried, Flushed, Busy

LEMMA PlacesWillBe == Places' = ToSet(fallback') \cup Carried' \cup Flushed' \cup Rows' \cup ToSet(resend'.todo)
BY DEF Places, InMemory, Carried, Flushed, Busy

-----------------------------------------------------------------------------
(* What the handlers have, and what they leave behind.                     *)

Hands == {None} \cup Carrying \cup Counting

LEMMA HandsAre ==
    /\ None \in Hands /\ ~Busy(None)
    /\ \A n \in Nat : [pc |-> "count", excess |-> n] \in Hands /\ ~Busy([pc |-> "count", excess |-> n])
    /\ \A n \in Nat : [pc |-> "evict", excess |-> n] \in Hands /\ ~Busy([pc |-> "evict", excess |-> n])
    /\ \A x \in Carrying : x \in Hands /\ Busy(x) /\ x.msg \in Messages
    /\ \A x \in Hands : Busy(x) => x \in Carrying
    /\ \A x \in Hands : x.pc \in {"count", "evict"} => x \in Counting /\ x.excess \in Nat
<1>1. None.pc = "idle"
  BY DEF None
<1>2. None \in Hands /\ ~Busy(None)
  BY <1>1 DEF Hands, Busy
<1>3. \A x \in Counting : x \in Hands /\ ~Busy(x) /\ x.excess \in Nat
  BY DEF Hands, Busy, Counting
<1>4. \A n \in Nat : [pc |-> "count", excess |-> n] \in Counting /\ [pc |-> "evict", excess |-> n] \in Counting
  BY DEF Counting
<1>5. \A x \in Carrying : x \in Hands /\ Busy(x) /\ x.msg \in Messages
  BY DEF Hands, Busy, Carrying
<1>6. \A x \in Hands : Busy(x) => x \in Carrying
  BY <1>1, <1>3 DEF Hands, Busy
<1>7. \A x \in Hands : x.pc \in {"count", "evict"} => x \in Counting
  BY <1>1 DEF Hands, Carrying
<1>8. QED
  BY <1>2, <1>3, <1>4, <1>5, <1>6, <1>7

LEMMA CarriedHas == \A h \in Handlers : Busy(hand[h]) => hand[h].msg \in Carried
BY DEF Carried

(* A handler is done with its message.                                     *)
LEMMA HandFrees ==
    ASSUME hand \in [Handlers -> Hands], NEW h \in Handlers, NEW x \in Hands, ~Busy(x), OneEach,
           hand' = [hand EXCEPT ![h] = x]
    PROVE  /\ hand' \in [Handlers -> Hands] /\ OneEach'
           /\ Carried' \subseteq Carried
           /\ Carried \ Carried' \subseteq IF Busy(hand[h]) THEN {hand[h].msg} ELSE {}
           /\ Busy(hand[h]) => hand[h].msg \notin Carried'
<1>1. hand' \in [Handlers -> Hands] /\ \A i \in Handlers : hand'[i] = IF i = h THEN x ELSE hand[i]
  OBVIOUS
<1>2. \A i \in Handlers : Busy(hand'[i]) => i # h /\ hand'[i] = hand[i]
  BY <1>1
<1>3. \A i \in Handlers : Busy(hand[i]) => i = h \/ hand'[i] = hand[i]
  BY <1>1
<1>4. OneEach'
  BY <1>2 DEF OneEach
<1>5. Carried' = {hand'[i].msg : i \in {j \in Handlers : Busy(hand'[j])}}
  BY DEF Carried, Busy
<1>6. Carried' \subseteq Carried
  BY <1>2, <1>5 DEF Carried
<1>7. Carried \ Carried' \subseteq IF Busy(hand[h]) THEN {hand[h].msg} ELSE {}
  BY <1>3, <1>5 DEF Carried
<1>8. Busy(hand[h]) => hand[h].msg \notin Carried'
  BY <1>2, <1>5 DEF OneEach
<1>9. QED
  BY <1>1, <1>4, <1>6, <1>7, <1>8

(* It gets one, or goes on with the one it has.                            *)
LEMMA HandTakes ==
    ASSUME hand \in [Handlers -> Hands], NEW h \in Handlers, NEW x \in Carrying, OneEach,
           hand' = [hand EXCEPT ![h] = x],
           IF Busy(hand[h]) THEN x.msg = hand[h].msg ELSE x.msg \notin Carried
    PROVE  hand' \in [Handlers -> Hands] /\ OneEach' /\ Carried' = Carried \cup {x.msg}
<1>1. /\ hand' \in [Handlers -> Hands]
      /\ \A i \in Handlers : hand'[i] = IF i = h THEN x ELSE hand[i]
      /\ Busy(x)
  BY HandsAre
<1>2. Carried' = {hand'[i].msg : i \in {j \in Handlers : Busy(hand'[j])}}
  BY DEF Carried, Busy
<1>3. \A i \in Handlers : Busy(hand'[i]) => i = h \/ (hand'[i] = hand[i] /\ Busy(hand[i]))
  BY <1>1
<1>4. \A i \in Handlers : Busy(hand[i]) => hand'[i] = hand[i] \/ (i = h /\ hand[i].msg = x.msg)
  BY <1>1
<1>5. Carried' \subseteq Carried \cup {x.msg}
  BY <1>1, <1>2, <1>3 DEF Carried
<1>6. x.msg \in Carried'
  BY <1>1, <1>2
<1>7. Carried \subseteq Carried'
  <2>1. SUFFICES ASSUME NEW i \in Handlers, Busy(hand[i]) PROVE hand[i].msg \in Carried'
    BY DEF Carried
  <2>2. CASE hand'[i] = hand[i]
    BY <1>2, <2>1, <2>2
  <2>3. CASE hand[i].msg = x.msg
    BY <1>6, <2>3
  <2>4. QED
    BY <1>4, <2>1, <2>2, <2>3
<1>8. \A i \in Handlers : i # h /\ Busy(hand'[i]) => hand'[i].msg # x.msg /\ hand'[i] = hand[i] /\ Busy(hand[i])
  BY <1>1, CarriedHas DEF OneEach
<1>9. OneEach'
  BY <1>1, <1>8 DEF OneEach
<1>10. QED
  BY <1>1, <1>5, <1>6, <1>7, <1>9

LEMMA DeliverGives ==
    ASSUME copies \in [Messages -> 0..2], NEW m \in Messages, Deliver(m)
    PROVE  /\ copies' \in [Messages -> 0..2] /\ Delivered' = Delivered \cup {m}
           /\ \A k \in Messages : k # m => copies'[k] = copies[k]
           /\ copies[m] = 0 => copies'[m] = 1
<1>1. copies' = [copies EXCEPT ![m] = IF copies[m] = 2 THEN 2 ELSE copies[m] + 1]
  BY DEF Deliver
<1>2. copies' \in [Messages -> 0..2]
  BY <1>1
<1>3. copies'[m] > 0 /\ \A k \in Messages : k # m => copies'[k] = copies[k]
  BY <1>1
<1>4. copies[m] = 0 => copies'[m] = 1
  BY <1>1
<1>5. Delivered' = Delivered \cup {m}
  BY <1>3 DEF Delivered
<1>6. QED
  BY <1>2, <1>3, <1>4, <1>5

-----------------------------------------------------------------------------
(* The invariant holds at first, and every action keeps it.                *)

LEMMA Nothing == ToSet(<<>>) = {} /\ IsInjective(<<>>)
BY DEF ToSet, IsInjective

LEMMA Resting ==
    /\ Asleep \in Resends /\ Asleep.pc = "sleep" /\ Asleep.todo = <<>> /\ Asleep.ok = {} /\ Asleep.bad = {}
    /\ None.pc = "idle"
<1>1. <<>> \in Seq(Messages) /\ {} \in SUBSET Messages /\ "sleep" \in {"sleep", "send", "ack", "count"}
  OBVIOUS
<1>2. Asleep \in Resends
  BY <1>1, Zenon DEF Asleep, Resends
<1>3. Asleep.pc = "sleep" /\ Asleep.todo = <<>> /\ Asleep.ok = {} /\ Asleep.bad = {}
  BY DEF Asleep
<1>4. None.pc = "idle"
  BY DEF None
<1>5. QED
  BY <1>2, <1>3, <1>4

LEMMA Known ==
    ASSUME IInv
    PROVE  /\ hand \in [Handlers -> Hands] /\ OneEach
           /\ Carried \cup Rows \cup Fall \cup ToSet(resend.todo) \cup Delivered \cup dropped \cup unsure \subseteq accepted
           /\ Carried \cup Rows \cup Fall \cup ToSet(resend.todo) \subseteq Places
           /\ accepted \subseteq Messages
           /\ resend \in Resends /\ copies \in [Messages -> 0..2]
BY PlacesAre DEF IInv, TypeOK, CarriedOnce, Hands, Fall

LEMMA InvInit == Init => IInv
<1> SUFFICES ASSUME Init PROVE IInv
  OBVIOUS
<1>1. hand \in [Handlers -> Hands] /\ \A h \in Handlers : ~Busy(hand[h])
  BY HandsAre DEF Init
<1>2. Rows = {} /\ ToSet(fallback) = {} /\ resend = Asleep /\ ToSet(resend.todo) = {} /\ Flushed = {} /\ Fall = {}
  BY Nothing, Resting DEF Init, Rows, Flushed, Fall
<1>3. Carried = {} /\ OneEach
  BY <1>1 DEF Carried, OneEach
<1>4. Places = {}
  BY <1>2, <1>3, PlacesAre
<1>5. copies \in [Messages -> 0..2] /\ Delivered = {} /\ \A m \in Messages : copies[m] # 2
  BY DEF Init, Delivered
<1>6. TypeOK
  <2>1. retries \in [Messages -> 0..MaxRetries]
    BY BoundsAssumption DEF Init
  <2>2. queue \in Seq(Messages) /\ IsInjective(queue) /\ fallback \in Seq(Messages) /\ Len(fallback) <= MaxFallback
    <3>1. <<>> \in Seq(Messages) /\ Len(<<>>) = 0
      OBVIOUS
    <3>2. QED
      BY <3>1, Nothing, BoundsAssumption DEF Init
  <2>3. link \in BOOLEAN /\ flush = None /\ accepted = {} /\ dropped = {} /\ unsure = {}
    BY DEF Init
  <2>4. resend \in Resends
    BY <1>2, Resting
  <2>5. QED
    BY <1>1, <1>4, <1>5, <2>1, <2>2, <2>3, <2>4 DEF TypeOK, Hands
<1>7. CarriedOnce /\ OnceUnlessUnsure
  BY <1>3, <1>5 DEF CarriedOnce, OnceUnlessUnsure
<1>8. FallOnce /\ RowsOnce
  BY <1>2, Nothing, Resting DEF Init, FallOnce, RowsOnce
<1>9. ResendKnows
  BY <1>2, Nothing, Resting DEF ResendKnows
<1>10. QED
  BY <1>6, <1>7, <1>8, <1>9 DEF IInv

(* What the bus hands over is new.                                         *)
LEMMA AcceptStep ==
    ASSUME IInv, NEW h \in Handlers, Accept(h)
    PROVE  IInv' /\ \E m \in Messages : TakesIn(m)
<1>1. PICK m \in Messages \ accepted :
        /\ accepted' = accepted \cup {m}
        /\ hand' = [hand EXCEPT ![h] = [pc |-> IF link THEN "broadcast" ELSE "insert", msg |-> m]]
  BY DEF Accept
<1>2. UNCHANGED <<link, queue, retries, fallback, flush, resend, copies, dropped, unsure>> /\ ~Busy(hand[h])
  BY HandsAre DEF Accept
<1>3. m \notin Carried /\ m \notin Rows \cup Fall \cup ToSet(resend.todo) \cup Delivered
  BY Known
<1>4. hand' \in [Handlers -> Hands] /\ OneEach' /\ Carried' = Carried \cup {m}
  <2> DEFINE x == [pc |-> IF link THEN "broadcast" ELSE "insert", msg |-> m]
  <2>1. x \in Carrying /\ x.msg = m
    BY DEF Carrying
  <2>2. hand' = [hand EXCEPT ![h] = x]
    BY <1>1
  <2> HIDE DEF x
  <2>3. QED
    BY <1>2, <1>3, <2>1, <2>2, Known, HandTakes
<1>5. Rows' = Rows /\ Fall' = Fall /\ Flushed' = Flushed /\ Delivered' = Delivered
  BY <1>2 DEF Rows, Fall, Flushed, Delivered
<1>6. Places' = Places \cup {m}
  BY <1>2, <1>4, <1>5, PlacesAre, PlacesWillBe
<1>7. TypeOK'
  BY <1>1, <1>2, <1>4, <1>5, <1>6 DEF IInv, TypeOK, Hands
<1>8. CarriedOnce'
  BY <1>2, <1>3, <1>4, <1>5 DEF IInv, CarriedOnce
<1>9. FallOnce' /\ RowsOnce' /\ ResendKnows' /\ OnceUnlessUnsure'
  BY <1>2, <1>5 DEF IInv, FallOnce, RowsOnce, ResendKnows, OnceUnlessUnsure
<1>10. TakesIn(m)
  BY <1>1, <1>2, <1>5, <1>6 DEF TakesIn
<1>11. QED
  BY <1>7, <1>8, <1>9, <1>10 DEF IInv

(* A broadcast reaches a client, or the message is to be stored.           *)
LEMMA BroadcastStep ==
    ASSUME IInv, NEW h \in Handlers, Broadcast(h)
    PROVE  IInv' /\ (GivesUp \/ Confirms(hand[h].msg))
<1> DEFINE m == hand[h].msg
<1>1. UNCHANGED <<link, accepted, queue, retries, fallback, flush, resend, dropped, unsure>> /\ Busy(hand[h])
  BY DEF Broadcast, Busy
<1>2. Rows' = Rows /\ Fall' = Fall /\ Flushed' = Flushed
  BY <1>1 DEF Rows, Fall, Flushed
<1>3. /\ hand[h] \in Carrying /\ m \in Messages /\ m \in Carried /\ m \in Places
      /\ m \notin Rows \cup Fall \cup ToSet(resend.todo) \cup Delivered
  BY <1>1, Known, HandsAre, CarriedHas DEF IInv, CarriedOnce
<1>4. CASE Deliver(m) /\ hand' = [hand EXCEPT ![h] = None]
  <2>1. /\ hand' \in [Handlers -> Hands] /\ OneEach' /\ Carried' \subseteq Carried
        /\ Carried \ Carried' \subseteq {m} /\ m \notin Carried'
    BY <1>1, <1>4, Known, HandsAre, HandFrees
  <2>2. /\ copies' \in [Messages -> 0..2] /\ Delivered' = Delivered \cup {m}
        /\ \A k \in Messages : k # m => copies'[k] = copies[k]
        /\ copies'[m] = 1
    <3>1. copies[m] = 0
      BY <1>3, Known DEF Delivered
    <3>2. QED
      BY <1>3, <1>4, <3>1, Known, DeliverGives
  <2> HIDE DEF m
  <2>3. Places' \subseteq Places /\ Places \ Places' \subseteq {m}
    BY <1>1, <1>2, <2>1, PlacesAre, PlacesWillBe
  <2>4. TypeOK'
    BY <1>1, <1>3, <2>1, <2>2, <2>3, Known DEF IInv, TypeOK, Hands
  <2>5. CarriedOnce'
    BY <1>1, <1>2, <2>1, <2>2 DEF IInv, CarriedOnce
  <2>6. Rows \subseteq Messages /\ Fall \subseteq Messages /\ ToSet(resend.todo) \subseteq Messages
    BY Known
  <2>7. FallOnce' /\ RowsOnce'
    BY <1>1, <1>2, <1>3, <2>2, <2>6 DEF IInv, FallOnce, RowsOnce
  <2>8. ResendKnows' /\ OnceUnlessUnsure'
    BY <1>1, <1>2, <1>3, <2>2, <2>6 DEF IInv, ResendKnows, OnceUnlessUnsure
  <2>9. Confirms(m)
    BY <1>1, <1>3, <2>2, <2>3 DEF Confirms
  <2>10. QED
    BY <2>4, <2>5, <2>7, <2>8, <2>9 DEF IInv, m
<1>5. CASE hand' = [hand EXCEPT ![h].pc = "insert"] /\ copies' = copies
  <2> DEFINE x == [hand[h] EXCEPT !.pc = "insert"]
  <2>1. x \in Carrying /\ x.msg = m
    BY <1>3 DEF Carrying
  <2>2. hand' = [hand EXCEPT ![h] = x]
    BY <1>5
  <2> HIDE DEF x
  <2>3. hand' \in [Handlers -> Hands] /\ OneEach' /\ Carried' = Carried
    <3>1. IF Busy(hand[h]) THEN x.msg = hand[h].msg ELSE x.msg \notin Carried
      BY <1>1, <2>1
    <3>2. hand' \in [Handlers -> Hands] /\ OneEach' /\ Carried' = Carried \cup {x.msg}
      BY <2>1, <2>2, <3>1, Known, HandTakes
    <3>3. x.msg \in Carried
      BY <1>3, <2>1
    <3>4. QED
      BY <3>2, <3>3
  <2>4. Places' = Places /\ Delivered' = Delivered
    BY <1>1, <1>2, <1>5, <2>3, PlacesAre, PlacesWillBe DEF Delivered
  <2>5. TypeOK'
    BY <1>1, <1>5, <2>3, <2>4 DEF IInv, TypeOK, Hands
  <2>6. CarriedOnce' /\ FallOnce' /\ RowsOnce'
    BY <1>1, <1>2, <1>5, <2>3, <2>4 DEF IInv, CarriedOnce, FallOnce, RowsOnce
  <2>7. ResendKnows' /\ OnceUnlessUnsure'
    BY <1>1, <1>2, <1>5, <2>4 DEF IInv, ResendKnows, OnceUnlessUnsure
  <2>8. GivesUp
    BY <1>1, <2>4 DEF GivesUp
  <2>9. QED
    BY <2>5, <2>6, <2>7, <2>8 DEF IInv
<1>6. QED
  BY <1>4, <1>5 DEF Broadcast

(* A handler's message becomes a row.                                      *)
LEMMA RowIsWritten ==
    ASSUME IInv, NEW h \in Handlers, Busy(hand[h]), NEW x \in Hands, ~Busy(x),
           queue' = Append(queue, hand[h].msg), hand' = [hand EXCEPT ![h] = x],
           UNCHANGED <<link, accepted, retries, fallback, flush, resend, copies, dropped, unsure>>
    PROVE  IInv' /\ GivesUp
<1> DEFINE m == hand[h].msg
<1>1. /\ m \in Messages /\ m \in Carried /\ m \in Places
      /\ m \notin Rows \cup Fall \cup ToSet(resend.todo) \cup Delivered
  BY Known, HandsAre, CarriedHas DEF IInv, CarriedOnce
<1>2. /\ hand' \in [Handlers -> Hands] /\ OneEach' /\ Carried' \subseteq Carried
      /\ Carried \ Carried' \subseteq {m} /\ m \notin Carried'
  BY Known, HandFrees
<1>3. queue' = Append(queue, m)
  OBVIOUS
<1> HIDE DEF m
<1>4. queue' \in Seq(Messages) /\ IsInjective(queue') /\ Rows' = Rows \cup {m}
  BY <1>1, <1>3, Appended DEF IInv, TypeOK, Rows
<1>5. Fall' = Fall /\ Flushed' = Flushed /\ Delivered' = Delivered
  BY DEF Fall, Flushed, Delivered
<1>6. Places' = Places
  BY <1>1, <1>2, <1>4, <1>5, PlacesAre, PlacesWillBe
<1>7. TypeOK'
  BY <1>2, <1>4, <1>5, <1>6 DEF IInv, TypeOK, Hands
<1>8. CarriedOnce' /\ FallOnce'
  BY <1>1, <1>2, <1>4, <1>5 DEF IInv, CarriedOnce, FallOnce
<1>9. copies[m] = 0 /\ m \notin resend.ok
  BY <1>1, Known DEF Delivered, IInv, ResendKnows
<1>10. RowsOnce' /\ ResendKnows' /\ OnceUnlessUnsure'
  BY <1>4, <1>5, <1>9 DEF IInv, RowsOnce, ResendKnows, OnceUnlessUnsure
<1>11. GivesUp
  BY <1>5, <1>6 DEF GivesUp
<1>12. QED
  BY <1>7, <1>8, <1>10, <1>11 DEF IInv

(* A handler goes on without a message, or ends with the one it had.       *)
LEMMA HandEnds ==
    ASSUME IInv, NEW h \in Handlers, NEW x \in Hands, ~Busy(x), hand' = [hand EXCEPT ![h] = x],
           dropped' = dropped \cup (IF Busy(hand[h]) THEN {hand[h].msg} ELSE {}),
           UNCHANGED <<link, accepted, queue, retries, fallback, flush, resend, copies, unsure>>
    PROVE  IInv' /\ GivesUp
<1> DEFINE had == IF Busy(hand[h]) THEN {hand[h].msg} ELSE {}
<1>1. /\ hand' \in [Handlers -> Hands] /\ OneEach' /\ Carried' \subseteq Carried /\ Carried \ Carried' \subseteq had
  BY Known, HandFrees
<1>2. had \subseteq Carried /\ had \subseteq Places /\ had \subseteq accepted
  BY Known, CarriedHas
<1>3. dropped' = dropped \cup had
  OBVIOUS
<1> HIDE DEF had
<1>4. Rows' = Rows /\ Fall' = Fall /\ Flushed' = Flushed /\ Delivered' = Delivered
  BY DEF Rows, Fall, Flushed, Delivered
<1>5. Places' \subseteq Places /\ Places \ Places' \subseteq had
  BY <1>1, <1>4, PlacesAre, PlacesWillBe
<1>6. TypeOK'
  BY <1>1, <1>2, <1>3, <1>4, <1>5 DEF IInv, TypeOK, Hands
<1>7. CarriedOnce' /\ FallOnce' /\ RowsOnce'
  BY <1>1, <1>4 DEF IInv, CarriedOnce, FallOnce, RowsOnce
<1>8. ResendKnows' /\ OnceUnlessUnsure'
  BY <1>3, <1>4 DEF IInv, ResendKnows, OnceUnlessUnsure
<1>9. GivesUp
  BY <1>2, <1>3, <1>4, <1>5 DEF GivesUp
<1>10. QED
  BY <1>6, <1>7, <1>8, <1>9 DEF IInv

LEMMA InsertStep ==
    ASSUME IInv, NEW h \in Handlers, Insert(h)
    PROVE  IInv' /\ GivesUp
<1>1. Busy(hand[h])
  BY DEF Insert, Busy
<1>2. [pc |-> "count", excess |-> 0] \in Hands /\ ~Busy([pc |-> "count", excess |-> 0])
  BY HandsAre
<1>3. QED
  BY <1>1, <1>2, RowIsWritten DEF Insert

LEMMA CountStep ==
    ASSUME IInv, NEW h \in Handlers, Count(h)
    PROVE  IInv' /\ GivesUp
<1>1. ~Busy(hand[h])
  BY DEF Count, Busy
<1>2. Excess \in Nat
  BY BoundsAssumption DEF IInv, TypeOK, Excess
<1> DEFINE x == IF Excess = 0 THEN None ELSE [pc |-> "evict", excess |-> Excess]
<1>3. x \in Hands /\ ~Busy(x)
  BY <1>2, HandsAre
<1>4. hand' = [hand EXCEPT ![h] = x]
  BY DEF Count
<1> HIDE DEF x
<1>5. dropped' = dropped \cup (IF Busy(hand[h]) THEN {hand[h].msg} ELSE {})
  BY <1>1 DEF Count
<1>6. QED
  BY <1>3, <1>4, <1>5, HandEnds DEF Count

LEMMA HandlerTimesOutStep ==
    ASSUME IInv, NEW h \in Handlers, HandlerTimesOut(h)
    PROVE  IInv' /\ GivesUp
<1>1. None \in Hands /\ ~Busy(None) /\ hand' = [hand EXCEPT ![h] = None]
      /\ UNCHANGED <<link, accepted, retries, fallback, flush, resend, copies, unsure>>
  BY HandsAre DEF HandlerTimesOut
<1>2. CASE hand[h].pc = "insert" /\ queue' = Append(queue, hand[h].msg) /\ dropped' = dropped
  BY <1>1, <1>2, RowIsWritten DEF Busy
<1>3. CASE /\ IF hand[h].pc \in {"broadcast", "insert"} THEN Drop({hand[h].msg}) ELSE UNCHANGED dropped
           /\ UNCHANGED queue
  <2>1. dropped' = dropped \cup (IF Busy(hand[h]) THEN {hand[h].msg} ELSE {})
    BY <1>3 DEF Drop, Busy
  <2>2. QED
    BY <1>1, <1>3, <2>1, HandEnds
<1>4. QED
  BY <1>2, <1>3 DEF HandlerTimesOut

(* The oldest rows make room.                                              *)
LEMMA EvictStep ==
    ASSUME IInv, NEW h \in Handlers, Evict(h)
    PROVE  IInv' /\ GivesUp
<1>1. PICK n : n = Least(hand[h].excess, Len(queue))
  OBVIOUS
<1>2. /\ hand[h].pc = "evict" /\ ~Busy(hand[h])
      /\ queue' = SubSeq(queue, n + 1, Len(queue))
      /\ dropped' = dropped \cup ToSet(SubSeq(queue, 1, n))
      /\ hand' = [hand EXCEPT ![h] = None]
      /\ UNCHANGED <<link, accepted, retries, fallback, flush, resend, copies, unsure>>
  BY <1>1 DEF Evict, Drop, Busy
<1>3. n \in 0..Len(queue) /\ queue \in Seq(Messages) /\ IsInjective(queue)
  <2>1. hand[h].excess \in Nat
    BY <1>2, Known, HandsAre
  <2>2. queue \in Seq(Messages) /\ IsInjective(queue) /\ Len(queue) \in Nat
    BY DEF IInv, TypeOK
  <2>3. QED
    BY <1>1, <2>1, <2>2 DEF Least
<1> DEFINE old == ToSet(SubSeq(queue, 1, n))
<1>4. queue' \in Seq(Messages) /\ IsInjective(queue') /\ Rows = old \cup Rows'
  BY <1>2, <1>3, CutInTwo DEF Rows
<1>5. dropped' = dropped \cup old
  BY <1>2
<1> HIDE DEF old
<1>6. /\ hand' \in [Handlers -> Hands] /\ OneEach' /\ Carried' = Carried
  BY <1>2, Known, HandsAre, HandFrees
<1>7. Fall' = Fall /\ Flushed' = Flushed /\ Delivered' = Delivered
  BY <1>2 DEF Fall, Flushed, Delivered
<1>8. Places' \subseteq Places /\ Places \ Places' \subseteq old /\ old \subseteq Places
  BY <1>2, <1>4, <1>6, <1>7, PlacesAre, PlacesWillBe
<1>9. TypeOK'
  BY <1>2, <1>4, <1>5, <1>6, <1>7, <1>8 DEF IInv, TypeOK, Hands
<1>10. CarriedOnce' /\ FallOnce' /\ RowsOnce'
  BY <1>2, <1>4, <1>6, <1>7 DEF IInv, CarriedOnce, FallOnce, RowsOnce
<1>11. ResendKnows' /\ OnceUnlessUnsure'
  BY <1>2, <1>4, <1>5, <1>7 DEF IInv, ResendKnows, OnceUnlessUnsure
<1>12. GivesUp
  BY <1>2, <1>5, <1>7, <1>8 DEF GivesUp
<1>13. QED
  BY <1>9, <1>10, <1>11, <1>12 DEF IInv

(* A failed commit leaves the message in memory, and perhaps a row.        *)
LEMMA InsertFailsStep ==
    ASSUME IInv, NEW h \in Handlers, InsertFails(h)
    PROVE  IInv' /\ GivesUp
<1> DEFINE m == hand[h].msg
           left == IF Len(fallback) = MaxFallback THEN Tail(fallback) ELSE fallback
           gone == IF Len(fallback) = MaxFallback THEN {Head(fallback)} ELSE {}
<1>1. /\ \/ queue' = queue /\ unsure' = unsure
         \/ queue' = Append(queue, m) /\ unsure' = unsure \cup {m}
      /\ fallback' = Append(left, m) /\ dropped' = dropped \cup gone
      /\ hand' = [hand EXCEPT ![h] = None] /\ Busy(hand[h])
      /\ UNCHANGED <<link, accepted, retries, flush, resend, copies>>
  BY DEF InsertFails, Drop, Busy
<1>2. /\ m \in Messages /\ m \in Carried /\ m \in Places /\ m \in accepted
      /\ m \notin Rows \cup Fall \cup ToSet(resend.todo) \cup Delivered
  BY <1>1, Known, HandsAre, CarriedHas DEF IInv, CarriedOnce
<1>3. /\ hand' \in [Handlers -> Hands] /\ OneEach' /\ Carried' \subseteq Carried
      /\ Carried \ Carried' \subseteq {m} /\ m \notin Carried'
  BY <1>1, Known, HandsAre, HandFrees
<1>4. /\ left \in Seq(Messages) /\ Len(left) < MaxFallback /\ IsInjective(left)
      /\ ToSet(fallback) = ToSet(left) \cup gone /\ MaxFallback \in Nat
  <2>1. fallback \in Seq(Messages) /\ IsInjective(fallback) /\ Len(fallback) <= MaxFallback /\ MaxFallback \in Nat
        /\ MaxFallback > 0 /\ Len(fallback) \in Nat
    BY BoundsAssumption DEF IInv, TypeOK, FallOnce
  <2>2. CASE Len(fallback) = MaxFallback
    <3>1. fallback # <<>>
      BY <2>1, <2>2
    <3>2. QED
      BY <2>1, <2>2, <3>1, Tailed
  <2>3. CASE Len(fallback) # MaxFallback
    BY <2>1, <2>3
  <2>4. QED
    BY <2>2, <2>3
<1> HIDE DEF m, left, gone
<1>5. queue' \in Seq(Messages) /\ IsInjective(queue') /\ (Rows' = Rows \/ (Rows' = Rows \cup {m} /\ m \in unsure'))
      /\ (unsure' = unsure \/ unsure' = unsure \cup {m}) /\ Rows \subseteq Rows'
  <2>1. queue \in Seq(Messages) /\ IsInjective(queue) /\ Rows = ToSet(queue) /\ Rows' = ToSet(queue')
    BY DEF IInv, TypeOK, Rows
  <2>2. CASE queue' = queue /\ unsure' = unsure
    BY <2>1, <2>2
  <2>3. CASE queue' = Append(queue, m) /\ unsure' = unsure \cup {m}
    <3>1. m \notin ToSet(queue)
      BY <1>2, <2>1
    <3>2. queue' \in Seq(Messages) /\ IsInjective(queue') /\ Rows' = Rows \cup {m}
      BY <1>2, <2>1, <2>3, <3>1, Appended
    <3>3. QED
      BY <2>3, <3>2
  <2>4. QED
    BY <1>1, <2>2, <2>3
<1>6. /\ fallback' \in Seq(Messages) /\ Len(fallback') <= MaxFallback /\ IsInjective(fallback')
      /\ ToSet(fallback') = ToSet(left) \cup {m}
  <2>1. Len(left) \in Nat /\ m \notin ToSet(left)
    BY <1>2, <1>4 DEF Fall
  <2>2. QED
    BY <1>1, <1>2, <1>4, <2>1, Appended
<1>7. Flushed' = Flushed /\ Delivered' = Delivered /\ Fall' \subseteq Fall \cup {m} /\ gone \subseteq Fall
  BY <1>1, <1>4, <1>6 DEF Fall, Flushed, Delivered
<1>8. Places' \subseteq Places /\ Places \ Places' \subseteq gone /\ gone \subseteq Places
  BY <1>1, <1>2, <1>3, <1>4, <1>5, <1>6, <1>7, PlacesAre, PlacesWillBe
<1>9. TypeOK'
  BY <1>1, <1>2, <1>3, <1>5, <1>6, <1>7, <1>8 DEF IInv, TypeOK, Hands
<1>10. CarriedOnce'
  BY <1>1, <1>3, <1>5, <1>7 DEF IInv, CarriedOnce
<1>11. copies[m] = 0 /\ m \notin resend.ok
  BY <1>2, Known DEF Delivered, IInv, ResendKnows
<1>12. FallOnce'
  <2>1. Flushed' \cap ToSet(fallback') = {}
    BY <1>2, <1>4, <1>6, <1>7 DEF IInv, FallOnce, Fall
  <2>2. ASSUME NEW k \in Fall' PROVE k \in unsure' \/ (copies'[k] = 0 /\ k \notin Rows' \cup ToSet(resend'.todo))
    <3>1. CASE k = m
      BY <1>1, <1>2, <1>5, <1>11, <3>1
    <3>2. CASE k # m
      BY <1>1, <1>5, <1>7, <2>2, <3>2 DEF IInv, FallOnce
    <3>3. QED
      BY <3>1, <3>2
  <2>3. QED
    BY <1>6, <2>1, <2>2 DEF FallOnce
<1>13. RowsOnce' /\ ResendKnows' /\ OnceUnlessUnsure'
  BY <1>1, <1>5, <1>7, <1>11 DEF IInv, RowsOnce, ResendKnows, OnceUnlessUnsure
<1>14. GivesUp
  BY <1>1, <1>7, <1>8 DEF GivesUp
<1>15. QED
  BY <1>9, <1>10, <1>12, <1>13, <1>14 DEF IInv

-----------------------------------------------------------------------------
(* Connections and the flush.                                              *)

LEMMA LinkSteps ==
    ASSUME IInv, Connect \/ Disconnect
    PROVE  IInv' /\ GivesUp
<1>1. UNCHANGED <<accepted, hand, queue, retries, fallback, resend, copies, dropped, unsure>> /\ link' \in BOOLEAN
  BY DEF Connect, Disconnect
<1>2. flush' = flush \/ (flush = None /\ flush' = [pc |-> "pop", failures |-> 0])
  BY DEF Connect, Disconnect
<1>3. flush' \in {None} \cup Flushes /\ Flushed' = Flushed
  <2>1. CASE flush' = flush
    BY <2>1 DEF IInv, TypeOK, Flushed
  <2>2. CASE flush = None /\ flush' = [pc |-> "pop", failures |-> 0]
    <3>1. 0 \in 0..(MaxFailures - 1)
      BY BoundsAssumption
    <3>2. QED
      BY <2>2, <3>1, Resting DEF Flushes, Flushed
  <2>3. QED
    BY <1>2, <2>1, <2>2
<1>4. Rows' = Rows /\ Fall' = Fall /\ Delivered' = Delivered /\ Carried' = Carried /\ OneEach' = OneEach
  BY <1>1, <1>3 DEF Rows, Fall, Delivered, Carried, OneEach, Busy
<1>5. Places' = Places
  BY <1>1, <1>3, <1>4, PlacesAre, PlacesWillBe
<1>6. TypeOK'
  BY <1>1, <1>3, <1>4, <1>5 DEF IInv, TypeOK
<1>7. CarriedOnce' /\ FallOnce' /\ RowsOnce' /\ ResendKnows' /\ OnceUnlessUnsure'
  BY <1>1, <1>3, <1>4 DEF IInv, CarriedOnce, FallOnce, RowsOnce, ResendKnows, OnceUnlessUnsure
<1>8. GivesUp
  BY <1>1, <1>4, <1>5 DEF GivesUp
<1>9. QED
  BY <1>6, <1>7, <1>8 DEF IInv

LEMMA PopStep ==
    ASSUME IInv, Pop
    PROVE  IInv' /\ GivesUp
<1>1. UNCHANGED <<link, accepted, hand, queue, retries, resend, copies, dropped, unsure>> /\ flush.pc = "pop"
  BY DEF Pop
<1>2. flush \in [pc : {"pop"}, failures : 0..(MaxFailures - 1)]
  BY <1>1, Resting DEF IInv, TypeOK, Flushes
<1>3. Rows' = Rows /\ Delivered' = Delivered /\ Carried' = Carried /\ OneEach' = OneEach /\ Flushed = {}
  BY <1>1 DEF Rows, Delivered, Carried, OneEach, Busy, Flushed
<1>4. /\ flush' \in {None} \cup Flushes /\ fallback' \in Seq(Messages) /\ Len(fallback') <= MaxFallback
      /\ IsInjective(fallback') /\ Fall' = Fall /\ Flushed' \cap ToSet(fallback') = {}
  <2>1. fallback \in Seq(Messages) /\ IsInjective(fallback) /\ Len(fallback) <= MaxFallback /\ MaxFallback \in Nat
    BY BoundsAssumption DEF IInv, TypeOK, FallOnce
  <2>2. CASE fallback = <<>>
    <3>1. flush' = None /\ fallback' = fallback
      BY <2>2 DEF Pop
    <3>2. QED
      BY <1>3, <2>1, <3>1, Resting DEF Flushed, Fall
  <2>3. CASE fallback # <<>>
    <3>1. flush' = [pc |-> "send", failures |-> flush.failures, msg |-> Head(fallback)] /\ fallback' = Tail(fallback)
      BY <2>3 DEF Pop
    <3>2. /\ fallback' \in Seq(Messages) /\ Head(fallback) \in Messages /\ Len(fallback') <= MaxFallback
          /\ ToSet(fallback) = {Head(fallback)} \cup ToSet(fallback')
          /\ IsInjective(fallback') /\ Head(fallback) \notin ToSet(fallback')
      <4>1. Len(fallback) \in Nat
        BY <2>1
      <4>2. QED
        BY <2>1, <2>3, <3>1, <4>1, Tailed
    <3>3. flush' \in Flushes /\ Flushed' = {Head(fallback)}
      BY <1>2, <3>1, <3>2 DEF Flushes, Flushed
    <3>4. QED
      BY <1>3, <3>2, <3>3 DEF Fall
  <2>4. QED
    BY <2>2, <2>3
<1>5. Places' = Places
  BY <1>1, <1>3, <1>4, PlacesAre, PlacesWillBe DEF Fall
<1>6. TypeOK'
  BY <1>1, <1>3, <1>4, <1>5 DEF IInv, TypeOK
<1>7. CarriedOnce' /\ FallOnce' /\ RowsOnce'
  BY <1>1, <1>3, <1>4 DEF IInv, CarriedOnce, FallOnce, RowsOnce
<1>8. ResendKnows' /\ OnceUnlessUnsure'
  BY <1>1, <1>3 DEF IInv, ResendKnows, OnceUnlessUnsure
<1>9. GivesUp
  BY <1>1, <1>3, <1>5 DEF GivesUp
<1>10. QED
  BY <1>6, <1>7, <1>8, <1>9 DEF IInv

LEMMA Flushing ==
    ASSUME IInv, flush.pc = "send"
    PROVE  /\ flush \in [pc : {"send"}, failures : 0..(MaxFailures - 1), msg : Messages]
           /\ flush.failures \in 0..(MaxFailures - 1) /\ flush.msg \in Messages /\ flush.msg \in accepted
           /\ Flushed = {flush.msg} /\ flush.msg \in Fall /\ flush.msg \in Places /\ flush.msg \notin ToSet(fallback)
           /\ flush.msg \in unsure \/ (copies[flush.msg] = 0 /\ flush.msg \notin Rows \cup ToSet(resend.todo))
<1>1. flush \in [pc : {"send"}, failures : 0..(MaxFailures - 1), msg : Messages]
  BY Resting DEF IInv, TypeOK, Flushes
<1>2. Flushed = {flush.msg}
  BY DEF Flushed
<1>3. flush.msg \in Fall /\ flush.msg \notin ToSet(fallback)
  BY <1>2 DEF Fall, IInv, FallOnce
<1>4. QED
  BY <1>1, <1>2, <1>3, Known DEF IInv, FallOnce

LEMMA Popping == [pc |-> "pop", failures |-> 0] \in Flushes
<1>1. 0 \in 0..(MaxFailures - 1)
  BY BoundsAssumption
<1>2. QED
  BY <1>1 DEF Flushes

LEMMA FlushSendsStep ==
    ASSUME IInv, FlushSends
    PROVE  IInv' /\ Confirms(flush.msg)
<1> DEFINE m == flush.msg
<1>1. UNCHANGED <<link, accepted, hand, queue, retries, fallback, resend, dropped, unsure>> /\ flush.pc = "send"
      /\ Deliver(m) /\ flush' = [pc |-> "pop", failures |-> 0]
  BY DEF FlushSends
<1>2. /\ m \in Messages /\ m \in accepted /\ Flushed = {m} /\ m \in Fall /\ m \in Places
      /\ m \notin ToSet(fallback) /\ (m \in unsure \/ (copies[m] = 0 /\ m \notin Rows \cup ToSet(resend.todo)))
  BY <1>1, Flushing
<1>3. /\ copies' \in [Messages -> 0..2] /\ Delivered' = Delivered \cup {m}
      /\ \A k \in Messages : k # m => copies'[k] = copies[k]
      /\ copies[m] = 0 => copies'[m] = 1
  BY <1>1, <1>2, Known, DeliverGives
<1> HIDE DEF m
<1>4. Flushed' = {} /\ Fall' = ToSet(fallback) /\ flush' \in Flushes
  BY <1>1, Popping DEF Flushed, Fall
<1>5. Rows' = Rows /\ Carried' = Carried /\ OneEach' = OneEach
  BY <1>1 DEF Rows, Carried, OneEach, Busy
<1>6. Places' \subseteq Places /\ Places \ Places' \subseteq {m}
  BY <1>1, <1>2, <1>4, <1>5, PlacesAre, PlacesWillBe
<1>7. TypeOK'
  BY <1>1, <1>2, <1>3, <1>4, <1>6, Known DEF IInv, TypeOK
<1>8. CarriedOnce'
  BY <1>1, <1>2, <1>3, <1>4, <1>5 DEF IInv, CarriedOnce, Fall
<1>9. Rows \subseteq Messages /\ Fall \subseteq Messages /\ ToSet(resend.todo) \subseteq Messages
  BY Known
<1>10. FallOnce' /\ RowsOnce'
  BY <1>1, <1>2, <1>3, <1>4, <1>5, <1>9 DEF IInv, FallOnce, RowsOnce, Fall
<1>11. ResendKnows' /\ OnceUnlessUnsure'
  BY <1>1, <1>2, <1>3, <1>5, <1>9 DEF IInv, ResendKnows, OnceUnlessUnsure
<1>12. Confirms(m)
  BY <1>1, <1>2, <1>3, <1>6 DEF Confirms
<1>13. QED
  BY <1>7, <1>8, <1>10, <1>11, <1>12 DEF IInv, m

(* A failed flush puts the message back in front, or gives it up.          *)
LEMMA FlushFailsStep ==
    ASSUME IInv, FlushFails
    PROVE  IInv' /\ GivesUp
<1> DEFINE m == flush.msg
<1>1. UNCHANGED <<link, accepted, hand, queue, retries, resend, copies, unsure>> /\ flush.pc = "send"
  BY DEF FlushFails
<1>2. /\ m \in Messages /\ m \in accepted /\ Flushed = {m} /\ m \in Fall /\ m \in Places
      /\ m \notin ToSet(fallback) /\ flush.failures \in 0..(MaxFailures - 1)
  BY <1>1, Flushing
<1>3. fallback \in Seq(Messages) /\ IsInjective(fallback) /\ Len(fallback) <= MaxFallback
      /\ MaxFallback \in Nat /\ MaxFallback > 0 /\ Len(fallback) \in Nat /\ MaxFailures \in Nat /\ MaxFailures > 0
  BY BoundsAssumption DEF IInv, TypeOK, FallOnce
<1>4. PICK gone \in SUBSET Fall :
        /\ fallback' \in Seq(Messages) /\ Len(fallback') <= MaxFallback /\ IsInjective(fallback')
        /\ ToSet(fallback') \subseteq Fall /\ Fall \ ToSet(fallback') \subseteq gone
        /\ dropped' = dropped \cup gone
        /\ flush' \in Flushes /\ flush'.pc = "pop"
  <2>1. CASE flush.failures + 1 = MaxFailures
    <3>1. dropped' = dropped \cup {m} /\ flush' = [pc |-> "pop", failures |-> 0] /\ fallback' = fallback
      BY <2>1 DEF FlushFails, Drop
    <3>2. {m} \in SUBSET Fall /\ Fall \ ToSet(fallback) \subseteq {m}
      BY <1>2 DEF Fall
    <3> HIDE DEF m
    <3>3. ToSet(fallback) \subseteq Fall
      BY DEF Fall
    <3>4. QED
      BY <1>3, <3>1, <3>2, <3>3, Popping
  <2>2. CASE flush.failures + 1 # MaxFailures
    <3>1. PutBack(m) /\ flush' = [pc |-> "pop", failures |-> flush.failures + 1]
      BY <2>2 DEF FlushFails
    <3> HIDE DEF m
    <3>2. flush' \in Flushes /\ flush'.pc = "pop"
      <4>1. flush.failures + 1 \in 0..(MaxFailures - 1)
        BY <1>2, <1>3, <2>2
      <4>2. QED
        BY <3>1, <4>1 DEF Flushes
    <3>3. CASE Len(fallback) = MaxFallback
      <4>1. fallback' = <<m>> \o Front(fallback) /\ dropped' = dropped \cup {Last(fallback)}
        BY <3>1, <3>3 DEF PutBack, Drop
      <4>2. /\ Front(fallback) \in Seq(Messages) /\ Len(Front(fallback)) = Len(fallback) - 1
            /\ Last(fallback) \in ToSet(fallback)
            /\ ToSet(fallback) = ToSet(Front(fallback)) \cup {Last(fallback)} /\ IsInjective(Front(fallback))
        BY <1>3, <3>3, Fronted
      <4>3. m \notin ToSet(Front(fallback))
        BY <1>2, <4>2
      <4>4. /\ fallback' \in Seq(Messages) /\ Len(fallback') = Len(Front(fallback)) + 1
            /\ ToSet(fallback') = ToSet(Front(fallback)) \cup {m} /\ IsInjective(fallback')
        BY <1>2, <4>1, <4>2, <4>3, Prepended
      <4>5. Len(fallback') <= MaxFallback
        BY <1>3, <3>3, <4>2, <4>4
      <4>6. {Last(fallback)} \in SUBSET Fall /\ ToSet(fallback') \subseteq Fall
            /\ Fall \ ToSet(fallback') \subseteq {Last(fallback)}
        BY <1>2, <4>2, <4>4 DEF Fall
      <4>7. QED
        BY <3>2, <4>1, <4>4, <4>5, <4>6
    <3>4. CASE Len(fallback) # MaxFallback
      <4>1. fallback' = <<m>> \o fallback /\ dropped' = dropped \cup {}
        BY <3>1, <3>4 DEF PutBack
      <4>2. /\ fallback' \in Seq(Messages) /\ Len(fallback') = Len(fallback) + 1
            /\ ToSet(fallback') = ToSet(fallback) \cup {m} /\ IsInjective(fallback')
        BY <1>2, <1>3, <4>1, Prepended
      <4>3. Len(fallback') <= MaxFallback
        BY <1>3, <3>4, <4>2
      <4>4. {} \in SUBSET Fall /\ ToSet(fallback') \subseteq Fall /\ Fall \ ToSet(fallback') \subseteq {}
        BY <1>2, <4>2 DEF Fall
      <4>5. QED
        BY <3>2, <4>1, <4>2, <4>3, <4>4
    <3>5. QED
      BY <3>3, <3>4
  <2>3. QED
    BY <2>1, <2>2
<1> HIDE DEF m
<1>5. Flushed' = {} /\ Fall' = ToSet(fallback') /\ Fall' \subseteq Fall
  BY <1>4 DEF Flushed, Fall
<1>6. Rows' = Rows /\ Carried' = Carried /\ OneEach' = OneEach /\ Delivered' = Delivered
  BY <1>1 DEF Rows, Carried, OneEach, Busy, Delivered
<1>7. Places' \subseteq Places /\ Places \ Places' \subseteq gone /\ gone \subseteq Places
  <2>1. Places = Fall \cup Carried \cup Rows \cup ToSet(resend.todo)
    BY PlacesAre DEF Fall
  <2>2. Places' = Fall' \cup Carried' \cup Rows' \cup ToSet(resend'.todo)
    BY <1>5, PlacesWillBe
  <2>3. QED
    BY <1>1, <1>4, <1>5, <1>6, <2>1, <2>2
<1>8. TypeOK'
  BY <1>1, <1>4, <1>6, <1>7 DEF IInv, TypeOK
<1>9. CarriedOnce' /\ FallOnce' /\ RowsOnce'
  BY <1>1, <1>4, <1>5, <1>6 DEF IInv, CarriedOnce, FallOnce, RowsOnce
<1>10. ResendKnows' /\ OnceUnlessUnsure'
  BY <1>1, <1>4, <1>6 DEF IInv, ResendKnows, OnceUnlessUnsure
<1>11. GivesUp
  BY <1>1, <1>4, <1>6, <1>7 DEF GivesUp
<1>12. QED
  BY <1>8, <1>9, <1>10, <1>11 DEF IInv

-----------------------------------------------------------------------------
(* The resend loop.                                                        *)

LEMMA WakeStep ==
    ASSUME IInv, Wake
    PROVE  IInv' /\ GivesUp
<1> DEFINE able == {m \in Messages : retries[m] < MaxRetries}
<1>1. UNCHANGED <<link, accepted, hand, retries, fallback, flush, copies, unsure>> /\ resend.pc = "sleep"
  BY DEF Wake
<1>2. PICK n \in 0..Len(queue) :
        LET kept == Filter(SubSeq(queue, n + 1, Len(queue)), able)
        IN  /\ queue' = kept /\ Drop(Rows \ ToSet(kept))
            /\ resend' = IF link /\ kept # <<>>
                         THEN [Asleep EXCEPT !.pc = "send", !.todo = SubSeq(kept, 1, Least(Batch, Len(kept)))]
                         ELSE Asleep
  BY DEF Wake
<1>3. /\ queue' = Filter(SubSeq(queue, n + 1, Len(queue)), able) /\ dropped' = dropped \cup (Rows \ ToSet(queue'))
      /\ resend' = IF link /\ queue' # <<>>
                   THEN [Asleep EXCEPT !.pc = "send", !.todo = SubSeq(queue', 1, Least(Batch, Len(queue')))]
                   ELSE Asleep
  BY <1>2 DEF Drop
<1>4. queue' \in Seq(Messages) /\ IsInjective(queue') /\ Rows' \subseteq Rows /\ Rows' = ToSet(queue') /\ Rows' \subseteq able
  <2>1. queue \in Seq(Messages) /\ IsInjective(queue)
    BY DEF IInv, TypeOK
  <2>2. PICK young : young = SubSeq(queue, n + 1, Len(queue))
    OBVIOUS
  <2>3. young \in Seq(Messages) /\ IsInjective(young) /\ ToSet(young) \subseteq Rows
    BY <2>1, <2>2, CutInTwo DEF Rows
  <2> HIDE DEF able
  <2>4. Filter(young, able) \in Seq(Messages) /\ IsInjective(Filter(young, able))
        /\ ToSet(Filter(young, able)) = ToSet(young) \cap able
    BY <2>3, Filtered
  <2>5. queue' = Filter(young, able)
    BY <1>3, <2>2
  <2>6. QED
    BY <2>3, <2>4, <2>5 DEF Rows
<1>5. PICK todo \in Seq(Messages) :
        /\ ToSet(todo) \subseteq Rows' /\ IsInjective(todo)
        /\ resend' \in Resends /\ resend'.todo = todo /\ resend'.ok = {} /\ resend'.bad = {}
        /\ resend'.pc \in {"sleep", "send"} /\ (resend'.pc = "sleep" => todo = <<>>)
  <2>1. CASE link /\ queue' # <<>>
    <3>1. PICK k : k = Least(Batch, Len(queue'))
      OBVIOUS
    <3>2. k \in Nat /\ k <= Len(queue') /\ 1 \in Nat \ {0}
      BY <1>4, <3>1, BoundsAssumption DEF Least
    <3>3. PICK todo : todo = SubSeq(queue', 1, k)
      OBVIOUS
    <3>4. todo \in Seq(Messages) /\ ToSet(todo) \subseteq Rows' /\ IsInjective(todo)
      BY <1>4, <3>2, <3>3, Cut
    <3>5. resend' = [Asleep EXCEPT !.pc = "send", !.todo = todo]
      BY <1>3, <2>1, <3>1, <3>3
    <3>6. resend' \in Resends /\ resend'.todo = todo /\ resend'.ok = {} /\ resend'.bad = {} /\ resend'.pc = "send"
      BY <3>4, <3>5, Resting DEF Resends
    <3>7. QED
      BY <3>4, <3>6
  <2>2. CASE ~(link /\ queue' # <<>>)
    <3>1. resend' = Asleep
      BY <1>3, <2>2
    <3>2. <<>> \in Seq(Messages)
      OBVIOUS
    <3>3. QED
      BY <3>1, <3>2, Resting, Nothing
  <2>3. QED
    BY <2>1, <2>2
<1>6. \A m \in Rows' : retries[m] < MaxRetries
  BY <1>4
<1> HIDE DEF able
<1>7. Fall' = Fall /\ Flushed' = Flushed /\ Carried' = Carried /\ OneEach' = OneEach /\ Delivered' = Delivered
  BY <1>1 DEF Fall, Flushed, Carried, OneEach, Busy, Delivered
<1>8. resend.todo = <<>> /\ resend.ok = {} /\ ToSet(resend.todo) = {}
  BY <1>1, Nothing DEF IInv, ResendKnows
<1>9. Places' \subseteq Places /\ Places \ Places' \subseteq Rows \ Rows' /\ Rows \subseteq Places
  BY <1>1, <1>4, <1>5, <1>7, <1>8, PlacesAre, PlacesWillBe
<1>10. TypeOK'
  BY <1>1, <1>3, <1>4, <1>5, <1>7, <1>9 DEF IInv, TypeOK
<1>11. CarriedOnce' /\ FallOnce'
  BY <1>1, <1>4, <1>5, <1>7 DEF IInv, CarriedOnce, FallOnce
<1>12. RowsOnce'
  BY <1>1, <1>4, <1>5, <1>8 DEF IInv, RowsOnce
<1>13. ResendKnows'
  <2>1. \A m \in ToSet(resend'.todo) : m \in unsure \/ copies[m] = 0
    BY <1>4, <1>5, <1>8 DEF IInv, RowsOnce
  <2>2. \A m \in ToSet(resend'.todo) \cup resend'.bad : retries[m] < MaxRetries
    BY <1>5, <1>6
  <2>3. QED
    BY <1>1, <1>5, <2>1, <2>2 DEF ResendKnows
<1>14. OnceUnlessUnsure'
  BY <1>1 DEF IInv, OnceUnlessUnsure
<1>15. GivesUp
  BY <1>1, <1>3, <1>4, <1>7, <1>9 DEF GivesUp
<1>16. QED
  BY <1>10, <1>11, <1>12, <1>13, <1>14, <1>15 DEF IInv

LEMMA SendNextStep ==
    ASSUME IInv, SendNext
    PROVE  IInv' /\ (GivesUp \/ Confirms(Head(resend.todo)))
<1> DEFINE m == Head(resend.todo)
<1>1. UNCHANGED <<link, accepted, hand, queue, retries, fallback, flush, dropped, unsure>>
      /\ resend.pc = "send" /\ resend.todo # <<>>
      /\ \/ Deliver(m) /\ resend' = [resend EXCEPT !.todo = Tail(@), !.ok = @ \cup {m}]
         \/ copies' = copies /\ resend' = [resend EXCEPT !.todo = Tail(@), !.bad = @ \cup {m}]
  BY DEF SendNext
<1>2. resend \in Resends /\ resend.todo \in Seq(Messages) /\ IsInjective(resend.todo)
  BY DEF IInv, TypeOK, ResendKnows, Resends
<1>3. /\ Tail(resend.todo) \in Seq(Messages) /\ m \in Messages /\ IsInjective(Tail(resend.todo))
      /\ ToSet(resend.todo) = {m} \cup ToSet(Tail(resend.todo)) /\ m \notin ToSet(Tail(resend.todo))
  BY <1>1, <1>2, Tailed
<1> HIDE DEF m
<1>4. /\ m \in ToSet(resend.todo) /\ m \in accepted /\ m \in Places
      /\ (m \in unsure \/ copies[m] = 0) /\ retries[m] < MaxRetries
      /\ m \in Rows \cup dropped \cup Delivered
      /\ m \notin Carried
      /\ (m \in Fall => m \in unsure)
  BY <1>3, Known DEF IInv, ResendKnows, CarriedOnce, FallOnce
<1>5. Rows' = Rows /\ Fall' = Fall /\ Flushed' = Flushed /\ Carried' = Carried /\ OneEach' = OneEach
  BY <1>1 DEF Rows, Fall, Flushed, Carried, OneEach, Busy
<1>6. Rows \subseteq Messages /\ Fall \subseteq Messages /\ ToSet(resend.todo) \subseteq Messages
  BY Known
<1>7. CASE Deliver(m) /\ resend' = [resend EXCEPT !.todo = Tail(@), !.ok = @ \cup {m}]
  <2>1. /\ resend' \in Resends /\ resend'.pc = "send" /\ resend'.todo = Tail(resend.todo)
        /\ resend'.ok = resend.ok \cup {m} /\ resend'.bad = resend.bad
    BY <1>1, <1>2, <1>3, <1>7 DEF Resends
  <2>2. /\ copies' \in [Messages -> 0..2] /\ Delivered' = Delivered \cup {m}
        /\ \A k \in Messages : k # m => copies'[k] = copies[k]
        /\ copies[m] = 0 => copies'[m] = 1
    BY <1>3, <1>7, Known, DeliverGives
  <2>3. Places' \subseteq Places /\ Places \ Places' \subseteq {m}
    BY <1>1, <1>3, <1>5, <2>1, PlacesAre, PlacesWillBe
  <2>4. TypeOK'
    BY <1>1, <1>4, <2>1, <2>2, <2>3, Known DEF IInv, TypeOK
  <2>5. CarriedOnce'
    BY <1>1, <1>3, <1>4, <1>5, <2>1, <2>2 DEF IInv, CarriedOnce
  <2>6. FallOnce'
    BY <1>1, <1>3, <1>4, <1>5, <1>6, <2>1, <2>2 DEF IInv, FallOnce
  <2>7. RowsOnce'
    BY <1>1, <1>5, <1>6, <2>1, <2>2 DEF IInv, RowsOnce
  <2>8. ResendKnows'
    BY <1>1, <1>3, <1>5, <1>6, <2>1, <2>2 DEF IInv, ResendKnows
  <2>9. OnceUnlessUnsure'
    BY <1>1, <1>4, <2>2 DEF IInv, OnceUnlessUnsure
  <2>10. Confirms(m)
    BY <1>1, <1>4, <2>2, <2>3 DEF Confirms
  <2>11. QED
    BY <2>4, <2>5, <2>6, <2>7, <2>8, <2>9, <2>10 DEF IInv, m
<1>8. CASE copies' = copies /\ resend' = [resend EXCEPT !.todo = Tail(@), !.bad = @ \cup {m}]
  <2>1. /\ resend' \in Resends /\ resend'.pc = "send" /\ resend'.todo = Tail(resend.todo)
        /\ resend'.ok = resend.ok /\ resend'.bad = resend.bad \cup {m}
    BY <1>1, <1>2, <1>3, <1>8 DEF Resends
  <2>2. Delivered' = Delivered
    BY <1>8 DEF Delivered
  <2>3. Places' \subseteq Places /\ Places \ Places' \subseteq dropped \cup Delivered
    BY <1>1, <1>3, <1>4, <1>5, <2>1, PlacesAre, PlacesWillBe
  <2>4. TypeOK'
    BY <1>1, <1>8, <2>1, <2>2, <2>3 DEF IInv, TypeOK
  <2>5. CarriedOnce' /\ FallOnce' /\ RowsOnce'
    BY <1>1, <1>3, <1>5, <1>8, <2>1, <2>2 DEF IInv, CarriedOnce, FallOnce, RowsOnce
  <2>6. ResendKnows' /\ OnceUnlessUnsure'
    BY <1>1, <1>3, <1>4, <1>5, <1>8, <2>1, <2>2 DEF IInv, ResendKnows, OnceUnlessUnsure
  <2>7. GivesUp
    BY <1>1, <2>2, <2>3 DEF GivesUp
  <2>8. QED
    BY <2>4, <2>5, <2>6, <2>7 DEF IInv
<1>9. QED
  BY <1>1, <1>7, <1>8

LEMMA BatchSentStep ==
    ASSUME IInv, BatchSent
    PROVE  IInv' /\ GivesUp
<1>1. UNCHANGED <<link, accepted, hand, queue, retries, fallback, flush, copies, dropped, unsure>>
      /\ resend.todo = <<>> /\ resend.pc = "send" /\ resend' = [resend EXCEPT !.pc = "ack"]
  BY DEF BatchSent
<1>2. resend \in Resends
  BY Known
<1>3. resend' \in Resends /\ resend'.pc = "ack" /\ resend'.todo = <<>> /\ resend'.ok = resend.ok /\ resend'.bad = resend.bad
  BY <1>1, <1>2 DEF Resends
<1>4. Rows' = Rows /\ Fall' = Fall /\ Flushed' = Flushed /\ Carried' = Carried /\ OneEach' = OneEach /\ Delivered' = Delivered
  BY <1>1 DEF Rows, Fall, Flushed, Carried, OneEach, Busy, Delivered
<1>5. Places' = Places
  BY <1>1, <1>3, <1>4, PlacesAre, PlacesWillBe
<1>6. TypeOK'
  BY <1>1, <1>3, <1>4, <1>5 DEF IInv, TypeOK
<1>7. CarriedOnce' /\ FallOnce' /\ RowsOnce'
  BY <1>1, <1>3, <1>4 DEF IInv, CarriedOnce, FallOnce, RowsOnce
<1>8. ResendKnows' /\ OnceUnlessUnsure'
  BY <1>1, <1>3, <1>4 DEF IInv, ResendKnows, OnceUnlessUnsure
<1>9. GivesUp
  BY <1>1, <1>4, <1>5 DEF GivesUp
<1>10. QED
  BY <1>6, <1>7, <1>8, <1>9 DEF IInv

LEMMA AcknowledgeStep ==
    ASSUME IInv, Acknowledge
    PROVE  IInv' /\ GivesUp
<1>1. UNCHANGED <<link, accepted, hand, retries, fallback, flush, copies, dropped, unsure>>
      /\ queue' = Filter(queue, Messages \ resend.ok)
      /\ resend.pc = "ack" /\ resend' = [resend EXCEPT !.pc = "count"]
  BY DEF Acknowledge
<1>2. resend \in Resends /\ resend.todo = <<>> /\ resend.ok \subseteq Delivered /\ Rows \subseteq Messages
  BY <1>1, Known DEF IInv, ResendKnows
<1>3. resend' \in Resends /\ resend'.pc = "count" /\ resend'.todo = <<>> /\ resend'.ok = resend.ok /\ resend'.bad = resend.bad
  BY <1>1, <1>2 DEF Resends
<1>4. queue' \in Seq(Messages) /\ IsInjective(queue') /\ Rows' = Rows \ resend.ok
  BY <1>1, <1>2, Filtered DEF IInv, TypeOK, Rows
<1>5. Fall' = Fall /\ Flushed' = Flushed /\ Carried' = Carried /\ OneEach' = OneEach /\ Delivered' = Delivered
  BY <1>1 DEF Fall, Flushed, Carried, OneEach, Busy, Delivered
<1>6. Places' \subseteq Places /\ Places \ Places' \subseteq Delivered
  BY <1>1, <1>2, <1>3, <1>4, <1>5, Nothing, PlacesAre, PlacesWillBe
<1>7. TypeOK'
  BY <1>1, <1>3, <1>4, <1>5, <1>6 DEF IInv, TypeOK
<1>8. CarriedOnce' /\ FallOnce' /\ RowsOnce'
  BY <1>1, <1>2, <1>3, <1>4, <1>5 DEF IInv, CarriedOnce, FallOnce, RowsOnce
<1>9. ResendKnows' /\ OnceUnlessUnsure'
  BY <1>1, <1>2, <1>3, <1>4, <1>5, Nothing DEF IInv, ResendKnows, OnceUnlessUnsure
<1>10. GivesUp
  BY <1>1, <1>5, <1>6 DEF GivesUp
<1>11. QED
  BY <1>7, <1>8, <1>9, <1>10 DEF IInv

LEMMA CountRetryStep ==
    ASSUME IInv, CountRetry
    PROVE  IInv' /\ GivesUp
<1>1. UNCHANGED <<link, accepted, hand, queue, fallback, flush, copies, dropped, unsure>>
      /\ retries' = [m \in Messages |-> IF m \in resend.bad \cap Rows THEN retries[m] + 1 ELSE retries[m]]
      /\ resend.pc = "count" /\ resend' = Asleep
  BY DEF CountRetry
<1>2. /\ resend.todo = <<>> /\ resend.ok \cap Rows = {} /\ \A m \in resend.bad : retries[m] < MaxRetries
      /\ retries \in [Messages -> 0..MaxRetries] /\ MaxRetries \in Nat
  BY <1>1, BoundsAssumption DEF IInv, TypeOK, ResendKnows, RowsOnce
<1>3. retries' \in [Messages -> 0..MaxRetries]
  BY <1>1, <1>2
<1>4. Rows' = Rows /\ Fall' = Fall /\ Flushed' = Flushed /\ Carried' = Carried /\ OneEach' = OneEach /\ Delivered' = Delivered
  BY <1>1 DEF Rows, Fall, Flushed, Carried, OneEach, Busy, Delivered
<1>5. Places' = Places
  BY <1>1, <1>2, <1>4, Resting, PlacesAre, PlacesWillBe
<1>6. TypeOK'
  BY <1>1, <1>3, <1>4, <1>5, Resting DEF IInv, TypeOK
<1>7. CarriedOnce' /\ FallOnce' /\ RowsOnce'
  BY <1>1, <1>2, <1>4, Resting, Nothing DEF IInv, CarriedOnce, FallOnce, RowsOnce
<1>8. ResendKnows' /\ OnceUnlessUnsure'
  BY <1>1, <1>4, Resting, Nothing DEF IInv, ResendKnows, OnceUnlessUnsure
<1>9. GivesUp
  BY <1>1, <1>4, <1>5 DEF GivesUp
<1>10. QED
  BY <1>6, <1>7, <1>8, <1>9 DEF IInv

(* The rows of what was sent stay behind.                                  *)
LEMMA ResendFailsStep ==
    ASSUME IInv, ResendFails
    PROVE  IInv' /\ GivesUp
<1>1. UNCHANGED <<link, accepted, hand, queue, retries, fallback, flush, copies, dropped>>
      /\ unsure' = unsure \cup (resend.ok \cap Rows) /\ resend.pc # "send" /\ resend' = Asleep
  BY DEF ResendFails
<1>2. resend.todo = <<>>
  BY <1>1 DEF IInv, ResendKnows
<1>3. Rows' = Rows /\ Fall' = Fall /\ Flushed' = Flushed /\ Carried' = Carried /\ OneEach' = OneEach /\ Delivered' = Delivered
  BY <1>1 DEF Rows, Fall, Flushed, Carried, OneEach, Busy, Delivered
<1>4. Places' = Places
  BY <1>1, <1>2, <1>3, Resting, PlacesAre, PlacesWillBe
<1>5. TypeOK'
  BY <1>1, <1>3, <1>4, Resting, Known DEF IInv, TypeOK
<1>6. CarriedOnce' /\ FallOnce' /\ RowsOnce'
  BY <1>1, <1>2, <1>3, Resting, Nothing DEF IInv, CarriedOnce, FallOnce, RowsOnce
<1>7. ResendKnows' /\ OnceUnlessUnsure'
  BY <1>1, <1>3, Resting, Nothing DEF IInv, ResendKnows, OnceUnlessUnsure
<1>8. GivesUp
  BY <1>1, <1>3, <1>4 DEF GivesUp
<1>9. QED
  BY <1>5, <1>6, <1>7, <1>8 DEF IInv

(* A stop forgets everything but the rows.                                 *)
LEMMA RestartStep ==
    ASSUME IInv, Restart
    PROVE  IInv' /\ GivesUp
<1>1. UNCHANGED <<accepted, queue, retries, copies>>
      /\ link' = FALSE /\ hand' = [h \in Handlers |-> None] /\ fallback' = <<>> /\ flush' = None
      /\ resend' = Asleep /\ dropped' = dropped \cup InMemory
      /\ unsure' = unsure \cup (resend.ok \cap Rows)
  BY DEF Restart, Drop
<1>2. hand' \in [Handlers -> Hands] /\ \A h \in Handlers : ~Busy(hand'[h])
  BY <1>1, HandsAre
<1>3. OneEach' /\ Carried' = {}
  <2>1. OneEach'
    BY <1>2 DEF OneEach
  <2>2. Carried' = {hand'[h].msg : h \in {i \in Handlers : Busy(hand'[i])}}
    BY DEF Carried, Busy
  <2>3. QED
    BY <1>2, <2>1, <2>2
<1>4. Rows' = Rows /\ Flushed' = {} /\ Fall' = {} /\ Delivered' = Delivered
  BY <1>1, Resting, Nothing DEF Rows, Flushed, Fall, Delivered
<1>5. InMemory \subseteq Places /\ Places = InMemory \cup Rows \cup ToSet(resend.todo)
  BY DEF Places
<1>6. Places' \subseteq Places /\ Places \ Places' \subseteq dropped' \cup Delivered
  <2>1. Places' = Rows
    BY <1>1, <1>3, <1>4, Resting, Nothing, PlacesWillBe
  <2>2. QED
    BY <1>1, <1>5, <2>1 DEF IInv, ResendKnows
<1>7. TypeOK'
  <2>1. <<>> \in Seq(Messages) /\ Len(<<>>) <= MaxFallback
    BY BoundsAssumption
  <2>2. fallback' \in Seq(Messages) /\ Len(fallback') <= MaxFallback /\ flush' \in {None} \cup Flushes /\ link' \in BOOLEAN
    BY <1>1, <2>1
  <2>3. QED
    BY <1>1, <1>2, <1>4, <1>5, <1>6, <2>2, Resting, Known DEF IInv, TypeOK, Hands
<1>8. CarriedOnce' /\ FallOnce' /\ RowsOnce'
  BY <1>1, <1>3, <1>4, Resting, Nothing DEF IInv, CarriedOnce, FallOnce, RowsOnce
<1>9. ResendKnows' /\ OnceUnlessUnsure'
  BY <1>1, <1>4, Resting, Nothing DEF IInv, ResendKnows, OnceUnlessUnsure
<1>10. GivesUp
  BY <1>1, <1>4, <1>5, <1>6 DEF GivesUp
<1>11. QED
  BY <1>7, <1>8, <1>9, <1>10 DEF IInv

-----------------------------------------------------------------------------
Flow == GivesUp \/ (\E m \in Messages : TakesIn(m)) \/ (\E m \in Places : Confirms(m))

LEMMA InvNext == IInv /\ [Next]_vars => IInv' /\ Flow
<1> SUFFICES ASSUME IInv, [Next]_vars PROVE IInv' /\ Flow
  OBVIOUS
<1>1. CASE \E h \in Handlers : HandlerStep(h) \/ HandlerTimesOut(h)
  <2>1. PICK h \in Handlers : HandlerStep(h) \/ HandlerTimesOut(h)
    BY <1>1
  <2>2. CASE Accept(h)
    BY <2>2, AcceptStep DEF Flow
  <2>3. CASE Broadcast(h)
    BY <2>3, BroadcastStep DEF Flow, Confirms
  <2>4. CASE Insert(h) \/ InsertFails(h) \/ Count(h) \/ Evict(h) \/ HandlerTimesOut(h)
    BY <2>4, InsertStep, InsertFailsStep, CountStep, EvictStep, HandlerTimesOutStep DEF Flow
  <2>5. QED
    BY <2>1, <2>2, <2>3, <2>4 DEF HandlerStep
<1>2. CASE Connect \/ Disconnect
  BY <1>2, LinkSteps DEF Flow
<1>3. CASE FlushStep
  BY <1>3, PopStep, FlushSendsStep, FlushFailsStep DEF FlushStep, Flow, Confirms
<1>4. CASE Wake \/ BatchSent \/ Acknowledge \/ CountRetry \/ ResendFails
  BY <1>4, WakeStep, BatchSentStep, AcknowledgeStep, CountRetryStep, ResendFailsStep DEF Flow
<1>5. CASE SendNext
  BY <1>5, SendNextStep DEF Flow, Confirms
<1>6. CASE Restart
  BY <1>6, RestartStep DEF Flow
<1>7. CASE UNCHANGED vars
  <2>1. UNCHANGED <<link, accepted, hand, queue, retries, fallback, flush, resend, copies, dropped, unsure>>
    BY <1>7 DEF vars
  <2>2. Rows' = Rows /\ Fall' = Fall /\ Flushed' = Flushed /\ Carried' = Carried /\ OneEach' = OneEach /\ Delivered' = Delivered
    BY <2>1 DEF Rows, Fall, Flushed, Carried, OneEach, Busy, Delivered
  <2>3. Places' = Places
    BY <2>1, <2>2, PlacesAre, PlacesWillBe
  <2>4. QED
    BY <2>1, <2>2, <2>3 DEF IInv, TypeOK, CarriedOnce, FallOnce, RowsOnce, ResendKnows, OnceUnlessUnsure, Flow, GivesUp
<1>8. QED
  BY <1>1, <1>2, <1>3, <1>4, <1>5, <1>6, <1>7 DEF Next

LEMMA InvHolds == Spec => []IInv
BY InvInit, InvNext, PTL DEF Spec

(* Handlers, queue, fallback, flush and resend loop keep their types and   *)
(* bounds, and hold only messages that were accepted.                      *)
THEOREM TypeOKHolds == Spec => []TypeOK
<1>1. IInv => TypeOK
  BY DEF IInv
<1>2. QED
  BY <1>1, InvHolds, PTL

(* The clients get a message twice only when its row outlived its sending, *)
(* or was written after all.                                               *)
THEOREM OnceUnlessUnsureHolds == Spec => []OnceUnlessUnsure
<1>1. IInv => OnceUnlessUnsure
  BY DEF IInv
<1>2. QED
  BY <1>1, InvHolds, PTL

LEMMA FlowMaps == IInv /\ Flow => [Path!Next]_(Path!vars)
<1> SUFFICES ASSUME IInv, Flow PROVE Path!Next
  OBVIOUS
<1>1. CASE GivesUp
  <2>1. Path!GivesUp(Places, Places', Delivered, dropped, dropped')
    BY <1>1 DEF GivesUp, Path!GivesUp
  <2>2. QED
    BY <2>1, Path!GivingUpMaps DEF Path!Next
<1>2. CASE \E m \in Messages : TakesIn(m)
  <2>1. PICK m \in Messages : TakesIn(m)
    BY <1>2
  <2>2. m \notin Places \cup Delivered \cup dropped
    BY <2>1 DEF IInv, TypeOK, TakesIn
  <2>3. Path!TakesIn(Places, Places', Delivered, dropped, dropped', m)
    BY <2>1, <2>2 DEF TakesIn, Path!TakesIn
  <2>4. QED
    BY <2>3, Path!ArrivalMaps DEF Path!Next
<1>3. CASE \E m \in Places : Confirms(m)
  <2>1. PICK m \in Places : Confirms(m)
    BY <1>3
  <2>2. Path!Confirms(Places, Places', Delivered, Delivered \cup {m}, dropped)
    BY <2>1 DEF Confirms, Path!Confirms
  <2>3. QED
    BY <2>2, Path!DeliveryMaps DEF Path!Next
<1>4. QED
  BY <1>1, <1>2, <1>3 DEF Flow

LEMMA PathIsNorth == (Path!Init <=> North!Init) /\ ([Path!Next]_(Path!vars) <=> [North!Next]_(North!vars))
BY DEF Path!Init, North!Init, Path!Next, North!Next, Path!vars, North!vars,
       Path!Accept, North!Accept, Path!Deliver, North!Deliver, Path!GiveUp, North!GiveUp

(* Every accepted message is delivered, stored or on its way, or was given *)
(* up by one of the rules: the backhaul implements StoreForward.           *)
THEOREM PromiseHolds == Spec => Promise
<1>1. Init => North!Init
  <2>1. SUFFICES ASSUME Init PROVE North!Init
    OBVIOUS
  <2>2. Places = {} /\ Delivered = {} /\ dropped = {}
    BY <2>1, InvInit, Known DEF Init, IInv, TypeOK
  <2>3. QED
    BY <2>2 DEF North!Init
<1>2. IInv /\ [Next]_vars => [North!Next]_(North!vars)
  BY InvNext, FlowMaps, PathIsNorth
<1>3. QED
  BY <1>1, <1>2, InvHolds, PTL DEF Spec, Promise, North!Spec

(* Nothing is lost without a trace: what the handlers were given is on its *)
(* way, stored, delivered, or among what a rule gave up.                   *)
Accounted == accepted \subseteq Places \cup Delivered \cup dropped

THEOREM AccountedHolds == Spec => []Accounted
<1>1. Init => Accounted
  BY DEF Init, Accounted
<1>2. IInv /\ Accounted /\ [Next]_vars => Accounted'
  <2>1. SUFFICES ASSUME Accounted, Flow PROVE Accounted'
    BY InvNext
  <2>2. CASE GivesUp
    BY <2>1, <2>2 DEF Accounted, GivesUp
  <2>3. CASE \E m \in Messages : TakesIn(m)
    BY <2>1, <2>3 DEF Accounted, TakesIn
  <2>4. CASE \E m \in Places : Confirms(m)
    BY <2>1, <2>4 DEF Accounted, Confirms
  <2>5. QED
    BY <2>1, <2>2, <2>3, <2>4 DEF Flow
<1>3. QED
  BY <1>1, <1>2, InvHolds, PTL DEF Spec
=============================================================================
