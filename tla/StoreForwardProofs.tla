------------------------- MODULE StoreForwardProofs -------------------------
(***************************************************************************)
(* Theorems about StoreForward, for every set of messages, and what the    *)
(* proofs that a path keeps its promise have in common: which steps of a   *)
(* path are steps of StoreForward, and what Filter does.                   *)
(***************************************************************************)
EXTENDS StoreForward, Filters, SequencesExt, TLAPS, WellFoundedInduction

(* A path that keeps the promise never loses a message: what was accepted  *)
(* is held, delivered or given up in every later state.                    *)
THEOREM NothingDisappears ==
    \A m \in Messages : Spec => [](m \in held \cup delivered \cup dropped
                                   => [](m \in held \cup delivered \cup dropped))
<1> SUFFICES ASSUME NEW m \in Messages
             PROVE  Spec => [](m \in held \cup delivered \cup dropped
                               => [](m \in held \cup delivered \cup dropped))
  OBVIOUS
<1>1. m \in held \cup delivered \cup dropped /\ [Next]_vars => (m \in held \cup delivered \cup dropped)'
  BY DEF Next, Accept, Deliver, GiveUp, vars
<1>2. QED
  BY <1>1, PTL DEF Spec

-----------------------------------------------------------------------------
(* A path has messages in some places, has delivered some and given up     *)
(* some.  Its steps, from places P, delivered D and given up G to Q, E and *)
(* H, map to steps of StoreForward.                                        *)
GivesUp(P, Q, D, G, H) ==
    /\ held = P \ D /\ delivered = D /\ dropped = G \ (P \cup D)
    /\ held' = Q \ D /\ delivered' = D /\ dropped' = H \ (Q \cup D)
    /\ Q \subseteq P /\ G \subseteq H /\ H \subseteq G \cup P \cup D /\ P \ Q \subseteq H \cup D

Confirms(P, Q, D, E, G) ==
    /\ held = P \ D /\ delivered = D /\ dropped = G \ (P \cup D)
    /\ held' = Q \ E /\ delivered' = E /\ dropped' = G \ (Q \cup E)
    /\ Q \subseteq P /\ D \subseteq E /\ E \subseteq P \cup D /\ P \ Q \subseteq E

TakesIn(P, Q, D, G, H, m) ==
    /\ held = P \ D /\ delivered = D /\ dropped = G \ (P \cup D)
    /\ held' = Q \ D /\ delivered' = D /\ dropped' = H \ (Q \cup D)
    /\ m \notin P \cup D \cup G
    /\ Q \subseteq P \cup {m} /\ G \subseteq H /\ H \subseteq G \cup P \cup D \cup {m}
    /\ (P \cup {m}) \ Q \subseteq H \cup D

LEMMA GivingUpMaps ==
    ASSUME NEW P, NEW Q, NEW D, NEW G, NEW H, GivesUp(P, Q, D, G, H)
    PROVE  GiveUp
<1> DEFINE gone == held \ held'
<1>1. gone \in SUBSET held /\ held' = held \ gone
  BY DEF GivesUp
<1>2. dropped' = dropped \cup gone
  BY DEF GivesUp
<1>3. QED
  BY <1>1, <1>2 DEF GiveUp, GivesUp

LEMMA DeliveryMaps ==
    ASSUME NEW P, NEW Q, NEW D, NEW E, NEW G, Confirms(P, Q, D, E, G)
    PROVE  Deliver
<1> DEFINE sent == held \ held'
<1>1. sent \in SUBSET held /\ held' = held \ sent
  BY DEF Confirms
<1>2. delivered' = delivered \cup sent /\ dropped' = dropped
  BY DEF Confirms
<1>3. QED
  BY <1>1, <1>2 DEF Deliver

LEMMA ArrivalMaps ==
    ASSUME NEW P, NEW Q, NEW D, NEW G, NEW H, NEW m \in Messages, TakesIn(P, Q, D, G, H, m)
    PROVE  Accept
<1> DEFINE gone == (held \cup {m}) \ held'
<1>1. m \in Messages \ (held \cup delivered \cup dropped)
  BY DEF TakesIn
<1>2. gone \in SUBSET (held \cup {m}) /\ held' = (held \cup {m}) \ gone
  BY DEF TakesIn
<1>3. dropped' = dropped \cup gone
  BY DEF TakesIn
<1>4. delivered' = delivered
  BY DEF TakesIn
<1>5. QED
  BY <1>1, <1>2, <1>3, <1>4 DEF Accept

-----------------------------------------------------------------------------
(* What Filter returns, by induction over the sequence: there is no        *)
(* shortest prefix for which it would return something else.               *)

(* A set of numbers that is not empty has a least one.                     *)
LEMMA Least ==
    ASSUME NEW Bad \in SUBSET Nat, Bad # {}
    PROVE  \E n \in Bad : \A m \in Bad : n <= m
<1>1. PICK n \in Bad : \A m \in Bad : ~(<<m, n>> \in OpToRel(<, Nat))
  BY NatLessThanWellFounded, WFMin
<1>2. \A m \in Bad : ~(m < n)
  BY <1>1 DEF OpToRel
<1>3. QED
  BY <1>2

(* Filter is what its recursive function says.                             *)
IsPart(part, s, S, n) ==
    /\ part[0] = <<>>
    /\ \A i \in 1..n : part[i] = IF s[i] \in S THEN Append(part[i - 1], s[i]) ELSE part[i - 1]

Parts(g, s, S, n) ==
    [i \in 0..n |-> IF i = 0 THEN <<>> ELSE IF s[i] \in S THEN Append(g[i - 1], s[i]) ELSE g[i - 1]]

LEMMA PartExists ==
    ASSUME NEW s, NEW S, NEW k \in Nat
    PROVE  \E g : g = Parts(g, s, S, k)
<1> DEFINE Step(g, n) == Parts(g, s, S, n)
           Bad == {n \in Nat : ~\E g : g = Step(g, n)}
<1>1. SUFFICES ASSUME Bad # {} PROVE FALSE
  OBVIOUS
<1>2. PICK n \in Bad : \A m \in Bad : n <= m
  BY <1>1, Least
<1>3. n \in Nat /\ n # 0
  <2>1. [i \in 0..0 |-> <<>>] = Step([i \in 0..0 |-> <<>>], 0)
    BY DEF Parts
  <2>2. 0 \notin Bad
    BY <2>1
  <2>3. QED
    BY <2>2
<1>4. n - 1 \in Nat /\ n - 1 \notin Bad
  <2> HIDE DEF Bad
  <2>1. QED
    BY <1>2, <1>3
<1>5. PICK g : g = Step(g, n - 1)
  BY <1>4
<1> DEFINE h == [i \in 0..n |-> IF i = n THEN IF s[n] \in S THEN Append(g[n - 1], s[n]) ELSE g[n - 1]
                                ELSE g[i]]
<1>6. h = Step(h, n)
  <2>1. \A i \in 0..(n - 1) : h[i] = g[i]
    BY <1>3
  <2>2. ASSUME NEW i \in 0..n
        PROVE  h[i] = Step(h, n)[i]
    <3>1. CASE i = n
      BY <1>3, <2>1, <3>1 DEF Parts
    <3>2. CASE i # n
      <4>1. i \in 0..(n - 1) /\ (i # 0 => i - 1 \in 0..(n - 1))
        BY <1>3, <3>2
      <4>2. g[i] = Step(g, n - 1)[i]
        BY <1>5
      <4>3. QED
        BY <1>3, <2>1, <4>1, <4>2 DEF Parts
    <3>3. QED
      BY <3>1, <3>2
  <2>3. QED
    BY <2>2 DEF Parts
<1>7. QED
  BY <1>2, <1>6

LEMMA FilterIsPart ==
    ASSUME NEW T, NEW s \in Seq(T), NEW S
    PROVE  \E part : IsPart(part, s, S, Len(s)) /\ Filter(s, S) = part[Len(s)]
<1> DEFINE part == CHOOSE g : g = Parts(g, s, S, Len(s))
<1>1. Len(s) \in Nat
  OBVIOUS
<1>2. part = Parts(part, s, S, Len(s))
  <2>1. \E g : g = Parts(g, s, S, Len(s))
    BY <1>1, PartExists
  <2>2. QED
    BY <2>1
<1>3. Filter(s, S) = part[Len(s)]
  BY DEF Filter, Parts
<1>4. \A i \in 0..Len(s) : part[i] = Parts(part, s, S, Len(s))[i]
  BY <1>2
<1> HIDE DEF part
<1>5. IsPart(part, s, S, Len(s))
  BY <1>1, <1>4 DEF IsPart, Parts
<1>6. QED
  BY <1>3, <1>5

(* f has the elements of s at the places at, which increase.               *)
Found(f, s, S, at) ==
    /\ \A k \in 1..Len(f) : f[k] = s[at[k]] /\ s[at[k]] \in S
    /\ \A j, k \in 1..Len(f) : j < k => at[j] < at[k]

(* The first n elements of s that are in S, at increasing places of s.     *)
PartOf(f, s, S, n) ==
    /\ Len(f) <= n
    /\ \A i \in 1..n : s[i] \in S => \E k \in 1..Len(f) : f[k] = s[i]
    /\ \E at \in [1..Len(f) -> 1..n] : Found(f, s, S, at)

LEMMA PartGrows ==
    ASSUME NEW T, NEW s \in Seq(T), NEW S, NEW n \in 1..Len(s), NEW f \in Seq(T),
           PartOf(f, s, S, n - 1), s[n] \in S
    PROVE  Append(f, s[n]) \in Seq(T) /\ PartOf(Append(f, s[n]), s, S, n)
<1> DEFINE g == Append(f, s[n])
<1>1. /\ g \in Seq(T) /\ Len(g) = Len(f) + 1 /\ g[Len(g)] = s[n]
      /\ \A k \in 1..Len(f) : g[k] = f[k]
      /\ Len(f) \in Nat /\ n \in Nat
  OBVIOUS
<1> HIDE DEF g
<1>2. PICK at \in [1..Len(f) -> 1..(n - 1)] :
         Found(f, s, S, at)
  BY DEF PartOf
<1>3. \A i \in 1..n : s[i] \in S => \E k \in 1..Len(g) : g[k] = s[i]
  <2>1. SUFFICES ASSUME NEW i \in 1..n, s[i] \in S PROVE \E k \in 1..Len(g) : g[k] = s[i]
    OBVIOUS
  <2>2. CASE i = n
    BY <1>1, <2>2
  <2>3. CASE i # n
    <3>1. i \in 1..(n - 1)
      BY <1>1, <2>3
    <3>2. PICK k \in 1..Len(f) : f[k] = s[i]
      BY <2>1, <3>1 DEF PartOf
    <3>3. k \in 1..Len(g) /\ g[k] = s[i]
      BY <1>1, <3>2
    <3>4. QED
      BY <3>3
  <2>4. QED
    BY <2>2, <2>3
<1> DEFINE new == [k \in 1..Len(g) |-> IF k = Len(g) THEN n ELSE at[k]]
<1>4. \A k \in 1..Len(g) : k # Len(g) => k \in 1..Len(f) /\ at[k] \in 1..(n - 1)
  <2>1. \A k \in 1..Len(g) : k # Len(g) => k \in 1..Len(f)
    BY <1>1
  <2>2. QED
    BY <1>2, <2>1
<1>5. new \in [1..Len(g) -> 1..n]
  BY <1>1, <1>4
<1>6. \A k \in 1..Len(g) : g[k] = s[new[k]] /\ s[new[k]] \in S
  BY <1>1, <1>2, <1>4 DEF Found
<1>7. \A j, k \in 1..Len(g) : j < k => new[j] < new[k]
  BY <1>1, <1>2, <1>4 DEF Found
<1>8. Len(g) <= n
  BY <1>1 DEF PartOf
<1> HIDE DEF new
<1>9. PartOf(g, s, S, n)
  BY <1>3, <1>5, <1>6, <1>7, <1>8 DEF PartOf, Found
<1>10. QED
  BY <1>1, <1>9 DEF g

LEMMA PartStays ==
    ASSUME NEW T, NEW s \in Seq(T), NEW S, NEW n \in 1..Len(s), NEW f \in Seq(T),
           PartOf(f, s, S, n - 1), s[n] \notin S
    PROVE  PartOf(f, s, S, n)
<1>1. n \in Nat /\ Len(f) \in Nat
  OBVIOUS
<1>2. PICK at \in [1..Len(f) -> 1..(n - 1)] :
         Found(f, s, S, at)
  BY DEF PartOf
<1>3. at \in [1..Len(f) -> 1..n]
  BY <1>1
<1>4. \A i \in 1..n : i = n \/ i \in 1..(n - 1)
  BY <1>1
<1>5. \E b \in [1..Len(f) -> 1..n] :
         Found(f, s, S, b)
  BY <1>2, <1>3
<1>6. Len(f) <= n
  BY <1>1 DEF PartOf
<1>7. \A i \in 1..n : s[i] \in S => \E k \in 1..Len(f) : f[k] = s[i]
  BY <1>4 DEF PartOf
<1>8. QED
  BY <1>5, <1>6, <1>7, Zenon DEF PartOf

LEMMA FilterGives ==
    ASSUME NEW T, NEW s \in Seq(T), NEW S
    PROVE  Filter(s, S) \in Seq(T) /\ PartOf(Filter(s, S), s, S, Len(s))
<1>1. Len(s) \in Nat
  OBVIOUS
<1>2. PICK part : IsPart(part, s, S, Len(s)) /\ Filter(s, S) = part[Len(s)]
  BY FilterIsPart
<1> DEFINE Good(n) == part[n] \in Seq(T) /\ PartOf(part[n], s, S, n)
           Bad == {n \in 0..Len(s) : ~Good(n)}
<1>3. SUFFICES Bad = {}
  BY <1>1, <1>2
<1>4. SUFFICES ASSUME Bad # {} PROVE FALSE
  OBVIOUS
<1>5. PICK n \in Bad : \A m \in Bad : n <= m
  <2>1. Bad \in SUBSET Nat
    BY <1>1
  <2> HIDE DEF Bad
  <2>2. QED
    BY <1>4, <2>1, Least
<1>6. n # 0
  <2>1. part[0] = <<>>
    BY <1>2 DEF IsPart
  <2>2. <<>> \in Seq(T) /\ PartOf(<<>>, s, S, 0)
    <3>1. [k \in {} |-> k] \in [1..0 -> 1..0]
      OBVIOUS
    <3>2. Len(<<>>) = 0 /\ <<>> \in Seq(T)
      OBVIOUS
    <3>3. 1..0 = {}
      OBVIOUS
    <3>4. Found(<<>>, s, S, [k \in {} |-> k])
      BY <3>2, <3>3 DEF Found
    <3>5. Len(<<>>) <= 0
      BY <3>2
    <3>6. 1..Len(<<>>) = 1..0
      BY <3>2
    <3>7. \E at \in [1..Len(<<>>) -> 1..0] : Found(<<>>, s, S, at)
      BY <3>1, <3>4, <3>6, Zenon
    <3>8. \A i \in 1..0 : s[i] \in S => \E k \in 1..Len(<<>>) : <<>>[k] = s[i]
      BY <3>3
    <3>9. QED
      BY <3>2, <3>5, <3>7, <3>8, Zenon DEF PartOf
  <2>3. QED
    BY <2>1, <2>2
<1>7. n \in 1..Len(s) /\ n - 1 \in 0..Len(s)
  BY <1>1, <1>6
<1>8. Good(n - 1)
  <2>1. n - 1 \notin Bad
    <3>1. n \in Nat
      BY <1>7
    <3> HIDE DEF Bad
    <3>2. QED
      BY <1>5, <3>1
  <2>2. QED
    BY <1>7, <2>1
<1>9. part[n] = IF s[n] \in S THEN Append(part[n - 1], s[n]) ELSE part[n - 1]
  BY <1>2, <1>7 DEF IsPart
<1>10. Good(n)
  BY <1>7, <1>8, <1>9, PartGrows, PartStays
<1>11. QED
  BY <1>5, <1>10

(* Filter(s, S) has the elements of s that are in S, each from a place of  *)
(* its own.                                                                *)
LEMMA FilterHas ==
    ASSUME NEW T, NEW s \in Seq(T), NEW S
    PROVE  /\ Filter(s, S) \in Seq(T)
           /\ Len(Filter(s, S)) <= Len(s)
           /\ \A i \in 1..Len(s) : s[i] \in S => \E k \in 1..Len(Filter(s, S)) : Filter(s, S)[k] = s[i]
           /\ \E at \in [1..Len(Filter(s, S)) -> 1..Len(s)] :
                /\ \A k \in 1..Len(Filter(s, S)) : Filter(s, S)[k] = s[at[k]] /\ s[at[k]] \in S
                /\ \A j, k \in 1..Len(Filter(s, S)) : j < k => at[j] < at[k]
BY FilterGives DEF PartOf, Found
-----------------------------------------------------------------------------
(* What the elements of a sequence are after the operations of a queue, and *)
(* that no element is in it twice if none was before.                      *)

LEMMA Appended ==
    ASSUME NEW T, NEW s \in Seq(T), NEW x \in T
    PROVE  /\ Append(s, x) \in Seq(T) /\ Len(Append(s, x)) = Len(s) + 1
           /\ ToSet(Append(s, x)) = ToSet(s) \cup {x}
           /\ IsInjective(s) /\ x \notin ToSet(s) => IsInjective(Append(s, x))
<1> DEFINE g == Append(s, x)
<1>1. /\ g \in Seq(T) /\ Len(g) = Len(s) + 1 /\ g[Len(g)] = x
      /\ \A k \in 1..Len(s) : g[k] = s[k]
      /\ Len(s) \in Nat /\ DOMAIN s = 1..Len(s) /\ DOMAIN g = 1..Len(g)
  OBVIOUS
<1> HIDE DEF g
<1>2. \A k \in 1..Len(g) : k = Len(g) \/ k \in 1..Len(s)
  BY <1>1
<1>3. \A k \in 1..Len(s) : k \in 1..Len(g)
  BY <1>1
<1>4. Len(g) \in 1..Len(g)
  BY <1>1
<1>5. ToSet(g) = ToSet(s) \cup {x}
  BY <1>1, <1>2, <1>3, <1>4 DEF ToSet
<1>6. IsInjective(s) /\ x \notin ToSet(s) => IsInjective(g)
  BY <1>1, <1>2 DEF IsInjective, ToSet
<1>7. QED
  BY <1>1, <1>5, <1>6 DEF g

LEMMA Cut ==
    ASSUME NEW T, NEW s \in Seq(T), NEW a \in Nat \ {0}, NEW b \in Nat, b <= Len(s)
    PROVE  /\ SubSeq(s, a, b) \in Seq(T) /\ Len(SubSeq(s, a, b)) = IF a <= b THEN b - a + 1 ELSE 0
           /\ ToSet(SubSeq(s, a, b)) \subseteq ToSet(s)
           /\ IsInjective(s) => IsInjective(SubSeq(s, a, b))
           /\ \A i \in 1..Len(SubSeq(s, a, b)) : a - 1 + i \in 1..Len(s) /\ SubSeq(s, a, b)[i] = s[a - 1 + i]
<1> DEFINE g == SubSeq(s, a, b)
<1>1. /\ g \in Seq(T) /\ Len(g) = IF a <= b THEN b - a + 1 ELSE 0
      /\ \A i \in 1..Len(g) : g[i] = s[a - 1 + i]
      /\ Len(s) \in Nat /\ DOMAIN s = 1..Len(s) /\ DOMAIN g = 1..Len(g)
  OBVIOUS
<1> HIDE DEF g
<1>2. \A i \in 1..Len(g) : a - 1 + i \in 1..Len(s)
  BY <1>1
<1>3. ToSet(g) \subseteq ToSet(s)
  BY <1>1, <1>2 DEF ToSet
<1>4. \A i, j \in 1..Len(g) : a - 1 + i = a - 1 + j => i = j
  BY <1>1
<1>5. IsInjective(s) => IsInjective(g)
  <2>1. SUFFICES ASSUME IsInjective(s), NEW i \in 1..Len(g), NEW j \in 1..Len(g), g[i] = g[j]
                 PROVE  i = j
    BY <1>1 DEF IsInjective
  <2>2. a - 1 + i = a - 1 + j
    BY <1>1, <1>2, <2>1 DEF IsInjective
  <2>3. QED
    BY <1>4, <2>2
<1>6. QED
  BY <1>1, <1>2, <1>3, <1>5 DEF g

LEMMA Tailed ==
    ASSUME NEW T, NEW s \in Seq(T), s # <<>>
    PROVE  /\ Tail(s) \in Seq(T) /\ Head(s) \in T /\ Len(Tail(s)) = Len(s) - 1
           /\ ToSet(s) = {Head(s)} \cup ToSet(Tail(s))
           /\ IsInjective(s) => IsInjective(Tail(s)) /\ Head(s) \notin ToSet(Tail(s))
<1> DEFINE g == Tail(s)
<1>1. /\ g \in Seq(T) /\ Head(s) \in T /\ Len(g) = Len(s) - 1 /\ Head(s) = s[1]
      /\ \A i \in 1..Len(g) : g[i] = s[i + 1]
      /\ Len(s) \in Nat /\ Len(s) > 0 /\ DOMAIN s = 1..Len(s) /\ DOMAIN g = 1..Len(g)
  OBVIOUS
<1> HIDE DEF g
<1>2. \A i \in 1..Len(g) : i + 1 \in 1..Len(s) /\ i + 1 # 1
  BY <1>1
<1>3. \A i \in 1..Len(s) : i = 1 \/ (i - 1 \in 1..Len(g) /\ g[i - 1] = s[i])
  BY <1>1
<1>4. ToSet(s) = {Head(s)} \cup ToSet(g)
  <2>1. 1 \in 1..Len(s)
    BY <1>1
  <2>2. ToSet(g) \subseteq ToSet(s) /\ Head(s) \in ToSet(s)
    BY <1>1, <1>2, <2>1 DEF ToSet
  <2>3. \A i \in 1..Len(s) : s[i] = Head(s) \/ s[i] \in ToSet(g)
    BY <1>1, <1>3 DEF ToSet
  <2>4. ToSet(s) \subseteq {Head(s)} \cup ToSet(g)
    BY <1>1, <2>3 DEF ToSet
  <2>5. QED
    BY <2>2, <2>4
<1>5. \A i, j \in 1..Len(g) : i + 1 = j + 1 => i = j
  BY <1>1
<1>6. IsInjective(s) => IsInjective(g) /\ Head(s) \notin ToSet(g)
  <2>1. SUFFICES ASSUME IsInjective(s) PROVE IsInjective(g) /\ Head(s) \notin ToSet(g)
    OBVIOUS
  <2>2. \A i, j \in 1..Len(s) : s[i] = s[j] => i = j
    BY <1>1, <2>1 DEF IsInjective
  <2>3. \A i, j \in 1..Len(g) : g[i] = g[j] => i = j
    <3>1. SUFFICES ASSUME NEW i \in 1..Len(g), NEW j \in 1..Len(g), g[i] = g[j] PROVE i = j
      OBVIOUS
    <3>2. s[i + 1] = s[j + 1] /\ i + 1 \in 1..Len(s) /\ j + 1 \in 1..Len(s)
      BY <1>1, <1>2, <3>1
    <3>3. i + 1 = j + 1
      BY <2>2, <3>2
    <3>4. QED
      BY <1>5, <3>3
  <2>4. \A i \in 1..Len(g) : g[i] # s[1]
    <3>1. 1 \in 1..Len(s)
      BY <1>1
    <3>2. QED
      BY <1>1, <1>2, <2>2, <3>1
  <2>5. QED
    BY <1>1, <2>3, <2>4 DEF IsInjective, ToSet
<1>7. QED
  BY <1>1, <1>4, <1>6 DEF g

LEMMA Filtered ==
    ASSUME NEW T, NEW s \in Seq(T), NEW S
    PROVE  /\ Filter(s, S) \in Seq(T) /\ Len(Filter(s, S)) <= Len(s)
           /\ ToSet(Filter(s, S)) = ToSet(s) \cap S
           /\ IsInjective(s) => IsInjective(Filter(s, S))
<1> DEFINE f == Filter(s, S)
<1>1. /\ f \in Seq(T) /\ Len(f) <= Len(s)
      /\ \A i \in 1..Len(s) : s[i] \in S => \E k \in 1..Len(f) : f[k] = s[i]
  BY FilterHas
<1>2. PICK at \in [1..Len(f) -> 1..Len(s)] :
        /\ \A k \in 1..Len(f) : f[k] = s[at[k]] /\ s[at[k]] \in S
        /\ \A j, k \in 1..Len(f) : j < k => at[j] < at[k]
  BY FilterHas
<1> HIDE DEF f
<1>3. DOMAIN s = 1..Len(s) /\ DOMAIN f = 1..Len(f) /\ Len(f) \in Nat /\ Len(s) \in Nat
  BY <1>1
<1>4. ToSet(f) = ToSet(s) \cap S
  <2>1. ToSet(f) \subseteq ToSet(s) \cap S
    BY <1>2, <1>3 DEF ToSet
  <2>2. ToSet(s) \cap S \subseteq ToSet(f)
    BY <1>1, <1>3 DEF ToSet
  <2>3. QED
    BY <2>1, <2>2
<1>5. \A j, k \in 1..Len(f) : at[j] = at[k] => j = k
  <2>1. SUFFICES ASSUME NEW j \in 1..Len(f), NEW k \in 1..Len(f), at[j] = at[k] PROVE j = k
    OBVIOUS
  <2>2. ~(j < k) /\ ~(k < j)
    BY <1>2, <1>3, <2>1
  <2>3. QED
    BY <1>3, <2>2
<1>6. IsInjective(s) => IsInjective(f)
  BY <1>2, <1>3, <1>5 DEF IsInjective
<1>7. QED
  BY <1>1, <1>4, <1>6 DEF f
=============================================================================
