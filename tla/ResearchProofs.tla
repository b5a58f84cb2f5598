--------------------------- MODULE ResearchProofs ---------------------------
(***************************************************************************)
(* Proofs about Research, for any graphs of tasks, any number of calls and *)
(* any length of a report: Kahn's algorithm orders what can be ordered, so *)
(* the executor skips exactly the rest, and what is stored is always the   *)
(* work of one execution on top of a run that was stored before.           *)
(***************************************************************************)
EXTENDS Research, FiniteSetTheorems, SequenceTheorems, WellFoundedInduction, TLAPS

-----------------------------------------------------------------------------
(* Sets of numbers.                                                         *)

LEMMA LeastExists ==
  ASSUME NEW S \in SUBSET Nat, S # {}
  PROVE  \E m \in S : \A k \in S : m <= k
<1> DEFINE R == OpToRel(<, Nat)
<1>1. IsWellFoundedOn(R, Nat)
  BY NatLessThanWellFounded
<1>2. \A c, d \in Nat : <<c, d>> \in R <=> c < d
  BY DEF OpToRel
<1> HIDE DEF R
<1>3. PICK m \in S : \A k \in S : ~(<<k, m>> \in R)
  BY <1>1, WFMin
<1>4. \A k \in S : k \in Nat /\ m \in Nat /\ ~(k < m)
  BY <1>2, <1>3
<1>5. \A k \in S : m <= k
  BY <1>4
<1> QED BY <1>3, <1>5

LEMMA RankBound ==
  ASSUME NEW S \in SUBSET Nat, IsFiniteSet(S), NEW b \in S
  PROVE  Rank(S, b) \in Nat /\ Rank(S, b) < Cardinality(S)
<1>1. {m \in S : m < b} \in SUBSET (S \ {b})
  OBVIOUS
<1>2. IsFiniteSet(S \ {b}) /\ Cardinality(S \ {b}) = Cardinality(S) - 1
  BY FS_RemoveElement
<1>3. Rank(S, b) \in Nat /\ Rank(S, b) <= Cardinality(S) - 1
  BY <1>1, <1>2, FS_Subset, FS_CardinalityType DEF Rank
<1>4. Cardinality(S) \in Nat
  BY FS_CardinalityType
<1> QED BY <1>3, <1>4

LEMMA RankMonotone ==
  ASSUME NEW S \in SUBSET Nat, IsFiniteSet(S), NEW a \in S, NEW b \in S, a < b
  PROVE  Rank(S, a) < Rank(S, b)
<1> DEFINE A == {m \in S : m < a}   B == {m \in S : m < b}
<1>1. A \cup {a} \in SUBSET B /\ B \in SUBSET S /\ A \in SUBSET S /\ a \notin A
  <2>1. \A m \in S : m \in Nat
    OBVIOUS
  <2>2. \A m \in S : m < a => m < b
    BY <2>1
  <2>3. A \cup {a} \subseteq B
    BY <2>2
  <2>4. a \notin A
    BY <2>1
  <2> QED BY <2>3, <2>4
<1> HIDE DEF A, B
<1>2. IsFiniteSet(A) /\ IsFiniteSet(B)
  BY <1>1, FS_Subset
<1>3. Cardinality(A \cup {a}) = Cardinality(A) + 1
  BY <1>1, <1>2, FS_AddElement
<1>4. Cardinality(A \cup {a}) <= Cardinality(B)
  BY <1>1, <1>2, FS_Subset
<1>5. Cardinality(A) \in Nat /\ Cardinality(B) \in Nat
  BY <1>2, FS_CardinalityType
<1>6. Cardinality(A) < Cardinality(B)
  BY <1>3, <1>4, <1>5
<1> QED BY <1>6 DEF A, B, Rank

LEMMA RankInjective ==
  ASSUME NEW S \in SUBSET Nat, IsFiniteSet(S), NEW a \in S, NEW b \in S,
         Rank(S, a) = Rank(S, b)
  PROVE  a = b
<1>1. a \in Nat /\ b \in Nat /\ Rank(S, a) \in Nat /\ Rank(S, b) \in Nat
  BY RankBound
<1>2. ~(a < b) /\ ~(b < a)
  BY <1>1, RankMonotone
<1> QED BY <1>1, <1>2

LEMMA RankOnto ==
  ASSUME NEW S \in SUBSET Nat, IsFiniteSet(S), NEW i \in 1..Cardinality(S)
  PROVE  \E b \in S : Rank(S, b) = i - 1
<1> DEFINE n == Cardinality(S)   f == [b \in S |-> Rank(S, b) + 1]
<1>1. n \in Nat
  BY FS_CardinalityType
<1>2. f \in [S -> 1..n]
  BY <1>1, RankBound
<1>3. \A a, b \in S : f[a] = f[b] => a = b
  <2> SUFFICES ASSUME NEW a \in S, NEW b \in S, f[a] = f[b] PROVE a = b
    OBVIOUS
  <2>1. Rank(S, a) \in Nat /\ Rank(S, b) \in Nat
    BY RankBound
  <2>2. Rank(S, a) = Rank(S, b)
    BY <2>1
  <2> QED BY <2>2, RankInjective
<1>4. IsFiniteSet(1..n) /\ Cardinality(1..n) = n
  BY <1>1, FS_Interval
<1>5. f \in Injection(S, 1..n)
  <2> HIDE DEF f
  <2> QED BY <1>2, <1>3 DEF Injection, IsInjective
<1>6. f \in Surjection(S, 1..n)
  <2> HIDE DEF f
  <2> QED BY <1>4, <1>5, FS_Injection
<1>7. \E b \in S : f[b] = i
  <2> HIDE DEF f
  <2> QED BY <1>6 DEF Surjection
<1>8. PICK b \in S : Rank(S, b) + 1 = i
  BY <1>7
<1>9. Rank(S, b) \in Nat
  BY RankBound
<1> QED BY <1>8, <1>9

LEMMA InOrderLists ==
  ASSUME NEW S \in SUBSET Nat, IsFiniteSet(S)
  PROVE  /\ Cardinality(S) \in Nat
         /\ InOrder(S) \in [1..Cardinality(S) -> S]
         /\ \A i, k \in 1..Cardinality(S) : InOrder(S)[i] = InOrder(S)[k] => i = k
         /\ \A b \in S : \E i \in 1..Cardinality(S) : InOrder(S)[i] = b
<1> DEFINE n == Cardinality(S)
<1>1. n \in Nat
  BY FS_CardinalityType
<1>2. ASSUME NEW i \in 1..n
      PROVE  InOrder(S)[i] \in S /\ Rank(S, InOrder(S)[i]) = i - 1
  BY RankOnto DEF InOrder
<1>3. InOrder(S) \in [1..n -> S]
  BY <1>2 DEF InOrder
<1>4. ASSUME NEW i \in 1..n, NEW k \in 1..n, InOrder(S)[i] = InOrder(S)[k] PROVE i = k
  BY <1>1, <1>2, <1>4
<1>5. ASSUME NEW b \in S PROVE \E i \in 1..n : InOrder(S)[i] = b
  <2> DEFINE i == Rank(S, b) + 1
  <2>1. i \in 1..n /\ i - 1 = Rank(S, b)
    BY <1>1, RankBound
  <2>2. InOrder(S)[i] \in S /\ Rank(S, InOrder(S)[i]) = Rank(S, b)
    BY <1>2, <2>1
  <2>3. \A a \in S : Rank(S, a) = Rank(S, b) => a = b
    BY RankInjective
  <2> QED BY <2>1, <2>2, <2>3
<1> QED BY <1>1, <1>3, <1>4, <1>5

-----------------------------------------------------------------------------
(* Lists without repetition.                                                *)

LEMMA Listing ==
  ASSUME NEW S \in SUBSET Nat, IsFiniteSet(S)
  PROVE  InOrder(S) \in Seq(S) /\ IsInjective(InOrder(S)) /\ ToSet(InOrder(S)) = S
<1> DEFINE n == Cardinality(S)
<1>1. n \in Nat /\ InOrder(S) \in [1..n -> S]
  BY InOrderLists
<1>2. \A i, k \in 1..n : InOrder(S)[i] = InOrder(S)[k] => i = k
  BY InOrderLists
<1>3. \A b \in S : \E i \in 1..n : InOrder(S)[i] = b
  BY InOrderLists
<1> HIDE DEF n
<1>4. PICK f \in [1..n -> S] : f = InOrder(S)
  BY <1>1
<1>5. f \in Seq(S) /\ DOMAIN f = 1..n
  BY <1>1
<1>6. IsInjective(f)
  BY <1>2, <1>4, <1>5 DEF IsInjective
<1>7. ToSet(f) = S
  BY <1>3, <1>4, <1>5 DEF ToSet
<1> QED BY <1>4, <1>5, <1>6, <1>7

LEMMA Concatenated ==
  ASSUME NEW S, NEW s \in Seq(S), NEW t \in Seq(S)
  PROVE  /\ s \o t \in Seq(S) /\ ToSet(s \o t) = ToSet(s) \cup ToSet(t)
         /\ Len(s \o t) = Len(s) + Len(t)
         /\ \A i \in 1..Len(s) : (s \o t)[i] = s[i]
         /\ \A i \in 1..Len(t) : (s \o t)[i + Len(s)] = t[i]
         /\ IsInjective(s) /\ IsInjective(t) /\ ToSet(s) \cap ToSet(t) = {} => IsInjective(s \o t)
<1>1. PICK u : u = s \o t
  OBVIOUS
<1>2. u \in Seq(S) /\ Len(u) = Len(s) + Len(t) /\ Len(s) \in Nat /\ Len(t) \in Nat
  BY <1>1
<1>3. DOMAIN u = 1..Len(u) /\ DOMAIN s = 1..Len(s) /\ DOMAIN t = 1..Len(t)
  BY <1>2
<1>4. \A i \in 1..Len(s) : u[i] = s[i]
  BY <1>1
<1>5. \A i \in 1..Len(t) : u[i + Len(s)] = t[i]
  BY <1>1
<1>6. \A i \in 1..Len(u) : i \in 1..Len(s) \/ (i - Len(s) \in 1..Len(t) /\ i = (i - Len(s)) + Len(s))
  BY <1>2
<1>7. \A i \in 1..Len(u) : i \notin 1..Len(s) => i - Len(s) \in 1..Len(t) /\ u[i] = t[i - Len(s)]
  BY <1>5, <1>6
<1>8. ToSet(u) = ToSet(s) \cup ToSet(t)
  <2>1. ToSet(u) \subseteq ToSet(s) \cup ToSet(t)
    BY <1>3, <1>4, <1>7 DEF ToSet
  <2>2. ToSet(s) \subseteq ToSet(u)
    BY <1>2, <1>3, <1>4 DEF ToSet
  <2>3. \A i \in 1..Len(t) : i + Len(s) \in 1..Len(u)
    BY <1>2
  <2>4. ToSet(t) \subseteq ToSet(u)
    BY <1>3, <1>5, <2>3 DEF ToSet
  <2> QED BY <2>1, <2>2, <2>4
<1>9. ASSUME IsInjective(s), IsInjective(t), ToSet(s) \cap ToSet(t) = {} PROVE IsInjective(u)
  <2> SUFFICES ASSUME NEW i \in 1..Len(u), NEW k \in 1..Len(u), u[i] = u[k] PROVE i = k
    BY <1>3 DEF IsInjective
  <2>1. \A x \in 1..Len(s), y \in 1..Len(t) : s[x] # t[y]
    BY <1>3, <1>9 DEF ToSet
  <2>2. CASE i \in 1..Len(s) /\ k \in 1..Len(s)
    BY <1>3, <1>4, <1>9, <2>2 DEF IsInjective
  <2>3. CASE i \notin 1..Len(s) /\ k \notin 1..Len(s)
    <3>1. t[i - Len(s)] = t[k - Len(s)] /\ i - Len(s) \in 1..Len(t) /\ k - Len(s) \in 1..Len(t)
      BY <1>7, <2>3
    <3>2. i - Len(s) = k - Len(s)
      BY <1>3, <1>9, <3>1 DEF IsInjective
    <3> QED BY <1>2, <3>2
  <2>4. ~(i \in 1..Len(s) /\ k \notin 1..Len(s)) /\ ~(i \notin 1..Len(s) /\ k \in 1..Len(s))
    BY <1>4, <1>7, <2>1
  <2> QED BY <2>2, <2>3, <2>4
<1> QED BY <1>1, <1>2, <1>4, <1>5, <1>8, <1>9

LEMMA Appended ==
  ASSUME NEW S, NEW s \in Seq(S), NEW x \in S
  PROVE  /\ Append(s, x) \in Seq(S) /\ ToSet(Append(s, x)) = ToSet(s) \cup {x}
         /\ Len(Append(s, x)) = Len(s) + 1
         /\ \A i \in 1..Len(s) : Append(s, x)[i] = s[i]
         /\ Append(s, x)[Len(s) + 1] = x
         /\ IsInjective(s) /\ x \notin ToSet(s) => IsInjective(Append(s, x))
<1>1. PICK u : u = Append(s, x)
  OBVIOUS
<1>2. u \in Seq(S) /\ Len(u) = Len(s) + 1 /\ Len(s) \in Nat
  BY <1>1
<1>3. DOMAIN u = 1..Len(u) /\ DOMAIN s = 1..Len(s)
  BY <1>2
<1>4. \A i \in 1..Len(s) : u[i] = s[i]
  BY <1>1
<1>5. u[Len(s) + 1] = x
  BY <1>1
<1>6. \A i \in 1..Len(u) : i \in 1..Len(s) \/ i = Len(s) + 1
  BY <1>2
<1>7. \A i \in 1..Len(s) : i \in 1..Len(u)
  BY <1>2
<1>8. Len(s) + 1 \in 1..Len(u)
  BY <1>2
<1>9. ToSet(u) = ToSet(s) \cup {x}
  <2>1. ToSet(u) \subseteq ToSet(s) \cup {x}
    BY <1>3, <1>4, <1>5, <1>6 DEF ToSet
  <2>2. ToSet(s) \subseteq ToSet(u)
    BY <1>3, <1>4, <1>7 DEF ToSet
  <2>3. x \in ToSet(u)
    BY <1>3, <1>5, <1>8 DEF ToSet
  <2> QED BY <2>1, <2>2, <2>3
<1>10. ASSUME IsInjective(s), x \notin ToSet(s) PROVE IsInjective(u)
  <2>1. \A i \in 1..Len(s) : s[i] # x
    BY <1>3, <1>10 DEF ToSet
  <2>2. \A i, k \in 1..Len(s) : s[i] = s[k] => i = k
    BY <1>3, <1>10 DEF IsInjective
  <2>3. \A i, k \in 1..Len(u) : u[i] = u[k] => i = k
    BY <1>4, <1>5, <1>6, <2>1, <2>2
  <2> QED BY <1>3, <2>3 DEF IsInjective
<1> QED BY <1>1, <1>2, <1>4, <1>5, <1>9, <1>10

LEMMA Removed ==
  ASSUME NEW S, NEW s \in Seq(S), s # <<>>, IsInjective(s)
  PROVE  /\ Head(s) \in S /\ Head(s) \in ToSet(s)
         /\ Tail(s) \in Seq(S) /\ IsInjective(Tail(s)) /\ ToSet(Tail(s)) = ToSet(s) \ {Head(s)}
<1>1. Len(s) \in Nat /\ Len(s) >= 1 /\ DOMAIN s = 1..Len(s) /\ Head(s) = s[1]
  BY EmptySeq
<1>2. PICK t : t = Tail(s)
  OBVIOUS
<1>3. t \in Seq(S) /\ Len(t) = Len(s) - 1 /\ DOMAIN t = 1..(Len(s) - 1)
  BY <1>1, <1>2
<1>4. \A i \in 1..(Len(s) - 1) : t[i] = s[i + 1] /\ i + 1 \in 1..Len(s) /\ i + 1 # 1
  BY <1>1, <1>2
<1>5. IsInjective(t)
  <2> SUFFICES ASSUME NEW i \in 1..(Len(s) - 1), NEW k \in 1..(Len(s) - 1), t[i] = t[k] PROVE i = k
    BY <1>3 DEF IsInjective
  <2>1. i + 1 = k + 1
    BY <1>1, <1>4 DEF IsInjective
  <2> QED BY <2>1
<1>6. ToSet(t) \subseteq ToSet(s) \ {Head(s)}
  BY <1>1, <1>3, <1>4 DEF ToSet, IsInjective
<1>7. \A i \in 1..Len(s) : i # 1 => i - 1 \in 1..(Len(s) - 1) /\ t[i - 1] = s[i]
  BY <1>1, <1>4
<1>8. ToSet(s) \ {Head(s)} \subseteq ToSet(t)
  <2> SUFFICES ASSUME NEW y \in ToSet(s), y # Head(s) PROVE y \in ToSet(t)
    OBVIOUS
  <2>1. PICK i \in 1..Len(s) : y = s[i]
    BY <1>1 DEF ToSet
  <2>2. i # 1 /\ i - 1 \in DOMAIN t /\ t[i - 1] = y
    BY <1>1, <1>3, <1>7, <2>1
  <2> QED BY <2>2 DEF ToSet
<1>9. Head(s) \in ToSet(s) /\ Head(s) \in S
  BY <1>1 DEF ToSet
<1> QED BY <1>2, <1>3, <1>5, <1>6, <1>8, <1>9

(* A list without repetition is as long as the set it lists. *)
LEMMA ListLength ==
  ASSUME NEW S, NEW s \in Seq(S), IsInjective(s)
  PROVE  /\ IsFiniteSet(ToSet(s)) /\ Cardinality(ToSet(s)) = Len(s) /\ ToSet(s) \subseteq S
         /\ Len(s) \in Nat /\ DOMAIN s = 1..Len(s)
<1>1. Len(s) \in Nat /\ DOMAIN s = 1..Len(s) /\ ToSet(s) \subseteq S
  BY DEF ToSet
<1>2. s \in [1..Len(s) -> ToSet(s)]
  <2>1. \A i \in 1..Len(s) : s[i] \in ToSet(s)
    BY <1>1 DEF ToSet
  <2>2. s = [i \in 1..Len(s) |-> s[i]]
    BY <1>1
  <2> QED BY <2>1, <2>2
<1>3. s \in Bijection(1..Len(s), ToSet(s))
  BY <1>1, <1>2 DEF Bijection, Injection, Surjection, IsInjective, ToSet
<1>4. ExistsBijection(1..Len(s), ToSet(s))
  BY <1>3 DEF ExistsBijection
<1>5. IsFiniteSet(1..Len(s)) /\ Cardinality(1..Len(s)) = Len(s)
  BY <1>1, FS_Interval
<1>6. IsFiniteSet(ToSet(s)) /\ Cardinality(ToSet(s)) = Len(s)
  BY <1>4, <1>5, FS_Bijection
<1> QED BY <1>1, <1>6

-----------------------------------------------------------------------------
(* Kahn's algorithm.                                                        *)

IsPlan(p) == p.tasks \in Seq(Nat) /\ IsInjective(p.tasks)

LEMMA PlanIds ==
  ASSUME NEW p, IsPlan(p)
  PROVE  /\ Ids(p) \in SUBSET Nat /\ IsFiniteSet(Ids(p)) /\ Cardinality(Ids(p)) = Len(p.tasks)
         /\ Len(p.tasks) \in Nat /\ DOMAIN p.tasks = 1..Len(p.tasks)
BY ListLength DEF IsPlan, Ids

(* The dependencies that count, and those of them that wait to be ordered. *)
Known(p, u) == p.deps[u] \cap Ids(p)
Waiting(p, s, u) == Known(p, u) \ ToSet(s.ordered)

(* What holds of the algorithm after n rounds: a task's degree is the number of
   dependencies it waits for; it is zero for the ordered and the queued, for no other;
   what is ordered stands behind its known dependencies; and each round orders a
   task, until the queue is empty. *)
Lists(p, s) ==
  /\ s.queue \in Seq(Ids(p)) /\ IsInjective(s.queue)
  /\ s.ordered \in Seq(Ids(p)) /\ IsInjective(s.ordered)
  /\ ToSet(s.queue) \cap ToSet(s.ordered) = {}
Degrees(p, s) ==
  \A u \in Ids(p) : /\ s.degree[u] = Cardinality(Waiting(p, s, u))
                    /\ s.degree[u] = 0 <=> u \in ToSet(s.queue) \cup ToSet(s.ordered)
Behind(p, s) ==
  \A j \in DOMAIN s.ordered : \A d \in Known(p, s.ordered[j]) : \E i \in 1..(j - 1) : s.ordered[i] = d
Round(s, n) == s.queue = <<>> \/ Len(s.ordered) = n
Sound(p, s, n) == Lists(p, s) /\ Degrees(p, s) /\ Behind(p, s) /\ Round(s, n)

LEMMA WaitingFinite ==
  ASSUME NEW p, IsPlan(p), NEW s, NEW u \in Ids(p)
  PROVE  /\ IsFiniteSet(Waiting(p, s, u)) /\ Cardinality(Waiting(p, s, u)) \in Nat
         /\ Cardinality(Waiting(p, s, u)) = 0 <=> Waiting(p, s, u) = {}
<1>1. Waiting(p, s, u) \in SUBSET Ids(p)
  BY DEF Waiting, Known
<1>2. IsFiniteSet(Waiting(p, s, u))
  BY <1>1, PlanIds, FS_Subset
<1> QED BY <1>2, FS_CardinalityType, FS_EmptySet

LEMMA QueuedSound ==
  ASSUME NEW p, IsPlan(p)
  PROVE  Sound(p, Queued(p), 0)
<1>1. PICK s : s = Queued(p)
  OBVIOUS
<1>2. s.ordered = <<>> /\ s.degree = [t \in Ids(p) |-> Cardinality(Known(p, t))]
  BY <1>1 DEF Queued, Known
<1>3. s.queue = InOrder({t \in Ids(p) : s.degree[t] = 0})
  BY <1>1 DEF Queued
<1>4. PICK none \in SUBSET Ids(p) : none = {t \in Ids(p) : s.degree[t] = 0}
  OBVIOUS
<1>5. none \in SUBSET Nat /\ IsFiniteSet(none)
  BY PlanIds, FS_Subset
<1>6. InOrder(none) \in Seq(none) /\ IsInjective(InOrder(none)) /\ ToSet(InOrder(none)) = none
  BY <1>5, Listing
<1>7. s.queue \in Seq(none) /\ IsInjective(s.queue) /\ ToSet(s.queue) = none
  BY <1>3, <1>4, <1>6
<1>8. s.queue \in Seq(Ids(p))
  BY <1>4, <1>7
<1>9. ToSet(s.ordered) = {} /\ s.ordered \in Seq(Ids(p)) /\ IsInjective(s.ordered) /\ Len(s.ordered) = 0
  <2>1. <<>> \in Seq(Ids(p)) /\ DOMAIN <<>> = {} /\ Len(<<>>) = 0
    OBVIOUS
  <2> QED BY <1>2, <2>1 DEF ToSet, IsInjective
<1>10. Lists(p, s)
  BY <1>7, <1>8, <1>9 DEF Lists
<1>11. Degrees(p, s)
  <2> SUFFICES ASSUME NEW u \in Ids(p)
               PROVE  /\ s.degree[u] = Cardinality(Waiting(p, s, u))
                      /\ s.degree[u] = 0 <=> u \in ToSet(s.queue) \cup ToSet(s.ordered)
    BY DEF Degrees
  <2>1. Waiting(p, s, u) = Known(p, u)
    BY <1>9 DEF Waiting
  <2>2. s.degree[u] = Cardinality(Waiting(p, s, u))
    BY <1>2, <2>1
  <2> QED BY <1>4, <1>7, <1>9, <2>2
<1>12. Behind(p, s) /\ Round(s, 0)
  BY <1>2, <1>9 DEF Behind, Round
<1> QED BY <1>1, <1>10, <1>11, <1>12 DEF Sound

LEMMA PoppedSound ==
  ASSUME NEW p, IsPlan(p), NEW s, NEW n \in Nat, Sound(p, s, n), s.queue # <<>>
  PROVE  Sound(p, Popped(p, s), n + 1)
<1>1. PICK t : t = Head(s.queue)
  OBVIOUS
<1>2. PICK r : r = Popped(p, s)
  OBVIOUS
<1>3. PICK freed \in SUBSET Ids(p) : freed = {u \in Ids(p) : t \in p.deps[u] /\ r.degree[u] = 0}
  OBVIOUS
<1>4. /\ r.degree = [u \in Ids(p) |-> IF t \in p.deps[u] THEN s.degree[u] - 1 ELSE s.degree[u]]
      /\ r.ordered = Append(s.ordered, t)
  BY <1>1, <1>2 DEF Popped
<1>5. r.queue = Tail(s.queue) \o InOrder(freed)
  BY <1>1, <1>2, <1>3 DEF Popped
<1>6. /\ t \in Ids(p) /\ t \in ToSet(s.queue) /\ t \notin ToSet(s.ordered)
      /\ Tail(s.queue) \in Seq(Ids(p)) /\ IsInjective(Tail(s.queue))
      /\ ToSet(Tail(s.queue)) = ToSet(s.queue) \ {t}
  <2>1. s.queue \in Seq(Ids(p)) /\ IsInjective(s.queue) /\ ToSet(s.queue) \cap ToSet(s.ordered) = {}
    BY DEF Sound, Lists
  <2>2. PICK q \in Seq(Ids(p)) : q = s.queue
    BY <2>1
  <2> QED BY <1>1, <2>1, <2>2, Removed
<1>7. /\ r.ordered \in Seq(Ids(p)) /\ IsInjective(r.ordered)
      /\ ToSet(r.ordered) = ToSet(s.ordered) \cup {t}
      /\ Len(r.ordered) = Len(s.ordered) + 1 /\ Len(s.ordered) \in Nat
      /\ \A i \in 1..Len(s.ordered) : r.ordered[i] = s.ordered[i]
      /\ r.ordered[Len(s.ordered) + 1] = t
      /\ DOMAIN r.ordered = 1..(Len(s.ordered) + 1) /\ DOMAIN s.ordered = 1..Len(s.ordered)
  <2>1. s.ordered \in Seq(Ids(p)) /\ IsInjective(s.ordered)
    BY DEF Sound, Lists
  <2>2. PICK o \in Seq(Ids(p)) : o = s.ordered
    BY <2>1
  <2>3. /\ Append(o, t) \in Seq(Ids(p)) /\ IsInjective(Append(o, t))
        /\ ToSet(Append(o, t)) = ToSet(o) \cup {t}
        /\ Len(Append(o, t)) = Len(o) + 1
        /\ \A i \in 1..Len(o) : Append(o, t)[i] = o[i]
        /\ Append(o, t)[Len(o) + 1] = t
    BY <1>6, <2>1, <2>2, Appended
  <2>4. Len(o) \in Nat /\ DOMAIN o = 1..Len(o) /\ DOMAIN Append(o, t) = 1..(Len(o) + 1)
    BY <1>6
  <2> QED BY <1>4, <2>2, <2>3, <2>4
<1>8. ASSUME NEW u \in Ids(p)
      PROVE  /\ r.degree[u] = Cardinality(Waiting(p, r, u))
             /\ s.degree[u] = 0 => r.degree[u] = 0
             /\ r.degree[u] = 0 => s.degree[u] = 0 \/ u \in freed
             /\ u \in freed => s.degree[u] # 0 /\ r.degree[u] = 0
  <2>1. s.degree[u] = Cardinality(Waiting(p, s, u)) /\ s.degree[u] \in Nat
    BY <1>8, WaitingFinite DEF Sound, Degrees
  <2>2. IsFiniteSet(Waiting(p, s, u)) /\ (s.degree[u] = 0 <=> Waiting(p, s, u) = {})
    BY <1>8, <2>1, WaitingFinite
  <2>3. Waiting(p, r, u) = Waiting(p, s, u) \ {t}
    BY <1>7 DEF Waiting
  <2>4. t \in p.deps[u] <=> t \in Waiting(p, s, u)
    BY <1>6 DEF Waiting, Known
  <2>5. CASE t \in p.deps[u]
    <3>1. r.degree[u] = s.degree[u] - 1
      BY <1>4, <2>5
    <3>2. Cardinality(Waiting(p, s, u) \ {t}) = Cardinality(Waiting(p, s, u)) - 1
      BY <2>2, <2>4, <2>5, FS_RemoveElement
    <3>3. s.degree[u] # 0
      BY <2>2, <2>4, <2>5
    <3>4. u \in freed <=> r.degree[u] = 0
      BY <1>3, <2>5
    <3> QED BY <2>1, <2>3, <3>1, <3>2, <3>3, <3>4
  <2>6. CASE t \notin p.deps[u]
    <3>1. r.degree[u] = s.degree[u] /\ u \notin freed
      BY <1>3, <1>4, <2>6
    <3>2. Waiting(p, r, u) = Waiting(p, s, u)
      BY <2>3, <2>4, <2>6
    <3> QED BY <2>1, <3>1, <3>2
  <2> QED BY <2>5, <2>6
<1>9. \A u \in Ids(p) : s.degree[u] = 0 <=> u \in ToSet(s.queue) \cup ToSet(s.ordered)
  BY DEF Sound, Degrees
<1>10. freed \cap (ToSet(s.queue) \cup ToSet(s.ordered)) = {}
  BY <1>3, <1>8, <1>9
<1>11. /\ r.queue \in Seq(Ids(p)) /\ IsInjective(r.queue)
       /\ ToSet(r.queue) = (ToSet(s.queue) \ {t}) \cup freed
  <2>1. freed \in SUBSET Nat /\ IsFiniteSet(freed)
    BY PlanIds, FS_Subset
  <2>2. PICK a \in Seq(Ids(p)) : a = Tail(s.queue)
    BY <1>6
  <2>3. PICK b : b = InOrder(freed)
    OBVIOUS
  <2>4. b \in Seq(freed) /\ IsInjective(b) /\ ToSet(b) = freed
    BY <2>1, <2>3, Listing
  <2>5. b \in Seq(Ids(p))
    BY <1>3, <2>4
  <2>6. ToSet(a) \cap ToSet(b) = {} /\ IsInjective(a) /\ ToSet(a) = ToSet(s.queue) \ {t}
    BY <1>6, <1>10, <2>2, <2>4
  <2>7. a \o b \in Seq(Ids(p)) /\ IsInjective(a \o b) /\ ToSet(a \o b) = ToSet(a) \cup ToSet(b)
    BY <2>4, <2>5, <2>6, Concatenated
  <2> QED BY <1>5, <2>2, <2>3, <2>4, <2>6, <2>7
<1>12. Lists(p, r)
  <2>1. ToSet(s.queue) \cap ToSet(s.ordered) = {}
    BY DEF Sound, Lists
  <2>2. ToSet(r.queue) \cap ToSet(r.ordered) = {}
    BY <1>6, <1>7, <1>10, <1>11, <2>1
  <2> QED BY <1>7, <1>11, <2>2 DEF Lists
<1>13. Degrees(p, r)
  <2>1. ASSUME NEW u \in Ids(p)
        PROVE  r.degree[u] = 0 <=> u \in ToSet(r.queue) \cup ToSet(r.ordered)
    <3>1. u \in ToSet(r.queue) \cup ToSet(r.ordered)
            <=> u \in ToSet(s.queue) \cup ToSet(s.ordered) \/ u \in freed
      BY <1>6, <1>7, <1>11
    <3> QED BY <1>8, <1>9, <2>1, <3>1
  <2> QED BY <1>8, <2>1 DEF Degrees
<1>14. Behind(p, r)
  <2> SUFFICES ASSUME NEW j \in 1..(Len(s.ordered) + 1), NEW d \in Known(p, r.ordered[j])
               PROVE  \E i \in 1..(j - 1) : r.ordered[i] = d
    BY <1>7 DEF Behind
  <2>1. CASE j \in 1..Len(s.ordered)
    <3>1. d \in Known(p, s.ordered[j])
      BY <1>7, <2>1
    <3>2. PICK i \in 1..(j - 1) : s.ordered[i] = d
      BY <1>7, <2>1, <3>1 DEF Sound, Behind
    <3>3. i \in 1..Len(s.ordered)
      BY <1>7, <2>1
    <3> QED BY <1>7, <3>2, <3>3
  <2>2. CASE j = Len(s.ordered) + 1
    <3>1. d \in Known(p, t)
      BY <1>7, <2>2
    <3>2. s.degree[t] = 0
      BY <1>6, <1>9
    <3>3. Waiting(p, s, t) = {}
      BY <1>6, <3>2, WaitingFinite DEF Sound, Degrees
    <3>4. d \in ToSet(s.ordered)
      BY <3>1, <3>3 DEF Waiting
    <3>5. PICK i \in 1..Len(s.ordered) : s.ordered[i] = d
      BY <1>7, <3>4 DEF ToSet
    <3>6. i \in 1..(j - 1)
      BY <1>7, <2>2
    <3> QED BY <1>7, <3>5, <3>6
  <2> QED BY <1>7, <2>1, <2>2
<1>15. Round(r, n + 1)
  <2>1. Len(s.ordered) = n
    BY DEF Sound, Round
  <2> QED BY <1>7, <2>1 DEF Round
<1> QED BY <1>2, <1>12, <1>13, <1>14, <1>15 DEF Sound

(* The recursion defines a function on 0..m, for every m: take the least one for
   which it does not. *)
Kept(p, s) == IF s.queue = <<>> THEN s ELSE Popped(p, s)
Rounds(p, f, m) == f = [n \in 0..m |-> IF n = 0 THEN Queued(p) ELSE Kept(p, f[n - 1])]

LEMMA RoundsExist ==
  ASSUME NEW p, NEW m \in Nat
  PROVE  \E f : Rounds(p, f, m)
<1> DEFINE bad == {n \in Nat : ~ \E f : Rounds(p, f, n)}
<1> SUFFICES ASSUME bad # {} PROVE FALSE
  OBVIOUS
<1>1. PICK n \in bad : \A k \in bad : n <= k
  <2>1. bad \in SUBSET Nat
    OBVIOUS
  <2> HIDE DEF bad
  <2> QED BY <2>1, LeastExists
<1>2. CASE n = 0
  <2> DEFINE f == [k \in 0..0 |-> Queued(p)]
  <2>1. f = [k \in 0..0 |-> IF k = 0 THEN Queued(p) ELSE Kept(p, f[k - 1])]
    OBVIOUS
  <2> HIDE DEF f
  <2>2. Rounds(p, f, 0)
    BY <2>1 DEF Rounds
  <2> QED BY <1>1, <1>2, <2>2
<1>3. CASE n # 0
  <2>1. n \in Nat /\ n - 1 \in Nat /\ n - 1 \notin bad
    BY <1>1, <1>3
  <2>2. PICK f : Rounds(p, f, n - 1)
    BY <2>1
  <2>3. /\ f = [k \in 0..(n - 1) |-> IF k = 0 THEN Queued(p) ELSE Kept(p, f[k - 1])]
        /\ DOMAIN f = 0..(n - 1)
    BY <2>2 DEF Rounds
  <2> DEFINE g == [k \in 0..n |-> IF k = n THEN Kept(p, f[n - 1]) ELSE f[k]]
  <2>4. \A k \in 0..(n - 1) : f[k] = IF k = 0 THEN Queued(p) ELSE Kept(p, f[k - 1])
    BY <2>3
  <2>5. \A k \in 0..n : g[k] = IF k = 0 THEN Queued(p) ELSE Kept(p, g[k - 1])
    <3> SUFFICES ASSUME NEW k \in 0..n PROVE g[k] = IF k = 0 THEN Queued(p) ELSE Kept(p, g[k - 1])
      OBVIOUS
    <3>1. CASE k = n
      <4>1. n - 1 \in 0..n /\ n - 1 # n
        BY <2>1
      <4> QED BY <1>3, <3>1, <4>1
    <3>2. CASE k # n
      <4>1. k \in 0..(n - 1) /\ (k # 0 => k - 1 \in 0..n /\ k - 1 # n)
        BY <2>1, <3>2
      <4>2. g[k] = f[k] /\ (k # 0 => g[k - 1] = f[k - 1])
        BY <3>2, <4>1
      <4> QED BY <2>4, <4>1, <4>2
    <3> QED BY <3>1, <3>2
  <2>6. g = [k \in 0..n |-> g[k]]
    OBVIOUS
  <2> HIDE DEF g
  <2>7. g = [k \in 0..n |-> IF k = 0 THEN Queued(p) ELSE Kept(p, g[k - 1])]
    BY <2>5, <2>6
  <2>8. Rounds(p, g, n)
    BY <2>7 DEF Rounds
  <2> QED BY <1>1, <2>8
<1> QED BY <1>2, <1>3

LEMMA KahnRounds ==
  ASSUME NEW p, Len(p.tasks) \in Nat
  PROVE  \E f : /\ Kahn(p) = f[Len(p.tasks)] /\ f[0] = Queued(p)
                /\ \A n \in 1..Len(p.tasks) : f[n] = Kept(p, f[n - 1])
<1> DEFINE N == Len(p.tasks)   f == CHOOSE g : Rounds(p, g, N)
<1>1. Kahn(p) = f[N]
  BY DEF Kahn, Rounds, Kept
<1>2. Rounds(p, f, N)
  BY RoundsExist
<1> HIDE DEF f
<1>3. f = [n \in 0..N |-> IF n = 0 THEN Queued(p) ELSE Kept(p, f[n - 1])]
  BY <1>2 DEF Rounds
<1>4. \A n \in 0..N : f[n] = IF n = 0 THEN Queued(p) ELSE Kept(p, f[n - 1])
  BY <1>3
<1>5. 0 \in 0..N /\ \A n \in 1..N : n \in 0..N /\ n # 0
  OBVIOUS
<1>6. f[0] = Queued(p) /\ \A n \in 1..N : f[n] = Kept(p, f[n - 1])
  BY <1>4, <1>5
<1> QED BY <1>1, <1>6

LEMMA KahnSound ==
  ASSUME NEW p, IsPlan(p)
  PROVE  Sound(p, Kahn(p), Len(p.tasks))
<1>1. Len(p.tasks) \in Nat
  BY PlanIds
<1>2. PICK f : /\ Kahn(p) = f[Len(p.tasks)] /\ f[0] = Queued(p)
               /\ \A n \in 1..Len(p.tasks) : f[n] = Kept(p, f[n - 1])
  BY <1>1, KahnRounds
<1> DEFINE bad == {n \in 0..Len(p.tasks) : ~Sound(p, f[n], n)}
<1>3. SUFFICES ASSUME bad # {} PROVE FALSE
  BY <1>1, <1>2
<1>4. PICK n \in bad : \A k \in bad : n <= k
  <2>1. bad \in SUBSET Nat
    BY <1>1
  <2> HIDE DEF bad
  <2> QED BY <1>3, <2>1, LeastExists
<1>5. n # 0
  BY <1>2, <1>4, QueuedSound
<1>6. n \in 1..Len(p.tasks) /\ n - 1 \in Nat /\ n - 1 \in 0..Len(p.tasks) /\ (n - 1) + 1 = n
  BY <1>1, <1>4, <1>5
<1>7. Sound(p, f[n - 1], n - 1)
  BY <1>4, <1>6
<1>8. Sound(p, Kept(p, f[n - 1]), n)
  <2>1. CASE f[n - 1].queue = <<>>
    BY <1>7, <2>1 DEF Kept, Sound, Round
  <2>2. CASE f[n - 1].queue # <<>>
    <3>1. Sound(p, Popped(p, f[n - 1]), (n - 1) + 1)
      BY <1>6, <1>7, <2>2, PoppedSound
    <3> QED BY <1>6, <2>2, <3>1 DEF Kept
  <2> QED BY <2>1, <2>2
<1>9. f[n] = Kept(p, f[n - 1])
  BY <1>2, <1>6
<1> QED BY <1>4, <1>8, <1>9

(* The rounds are as many as the tasks, so at the end nothing is queued. *)
LEMMA QueueIsEmptied ==
  ASSUME NEW p, IsPlan(p), NEW s, Sound(p, s, Len(p.tasks))
  PROVE  s.queue = <<>>
<1> SUFFICES ASSUME s.queue # <<>> PROVE FALSE
  OBVIOUS
<1>1. /\ s.queue \in Seq(Ids(p)) /\ IsInjective(s.queue) /\ s.ordered \in Seq(Ids(p)) /\ IsInjective(s.ordered)
      /\ ToSet(s.queue) \cap ToSet(s.ordered) = {} /\ Len(s.ordered) = Len(p.tasks)
  BY DEF Sound, Lists, Round
<1>2. PICK q \in Seq(Ids(p)) : q = s.queue
  BY <1>1
<1>3. PICK o \in Seq(Ids(p)) : o = s.ordered
  BY <1>1
<1>4. PICK t \in Ids(p) : t \in ToSet(q)
  BY <1>1, <1>2, Removed
<1>5. Cardinality(ToSet(o)) = Len(p.tasks) /\ ToSet(o) \in SUBSET (Ids(p) \ {t})
  BY <1>1, <1>2, <1>3, <1>4, ListLength
<1>6. /\ IsFiniteSet(Ids(p) \ {t}) /\ Cardinality(Ids(p) \ {t}) = Len(p.tasks) - 1
      /\ Len(p.tasks) \in Nat
  <2>1. IsFiniteSet(Ids(p)) /\ Cardinality(Ids(p)) = Len(p.tasks) /\ Len(p.tasks) \in Nat
    BY PlanIds
  <2>2. PICK S : S = Ids(p)
    OBVIOUS
  <2>3. IsFiniteSet(S \ {t}) /\ Cardinality(S \ {t}) = Cardinality(S) - 1
    BY <1>4, <2>1, <2>2, FS_RemoveElement
  <2> QED BY <2>1, <2>2, <2>3
<1>7. Cardinality(ToSet(o)) <= Len(p.tasks) - 1
  BY <1>5, <1>6, FS_Subset
<1> QED BY <1>5, <1>6, <1>7

(* The tasks that cannot be ordered are closed under "depends on one of them". *)
LEMMA UnorderableClosed ==
  ASSUME NEW p
  PROVE  /\ Unorderable(p) \in SUBSET Ids(p)
         /\ \A t \in Unorderable(p) : \E d \in p.deps[t] : d \in Unorderable(p) \/ d \notin Ids(p)
         /\ \A S \in SUBSET Ids(p) :
              (\A t \in S : \E d \in p.deps[t] : d \in S \/ d \notin Ids(p)) => S \subseteq Unorderable(p)
         /\ \A t \in Ids(p) \ Unorderable(p) : p.deps[t] \subseteq Ids(p) \ Unorderable(p)
<1> DEFINE U == Unorderable(p)
           closed == {S \in SUBSET Ids(p) : \A t \in S : \E d \in p.deps[t] : d \in S \/ d \notin Ids(p)}
<1>1. U = UNION closed
  BY DEF Unorderable
<1>2. \A S \in closed : S \subseteq U
  BY <1>1
<1> HIDE DEF U
<1>3. U \in SUBSET Ids(p)
  BY <1>1
<1>4. ASSUME NEW t \in U PROVE \E d \in p.deps[t] : d \in U \/ d \notin Ids(p)
  <2>1. PICK S \in closed : t \in S
    BY <1>1
  <2>2. PICK d \in p.deps[t] : d \in S \/ d \notin Ids(p)
    BY <2>1
  <2> QED BY <1>2, <2>1, <2>2
<1>5. ASSUME NEW t \in Ids(p) \ U, NEW d \in p.deps[t] PROVE d \in Ids(p) \ U
  <2> SUFFICES ASSUME d \in U \/ d \notin Ids(p) PROVE FALSE
    OBVIOUS
  <2>1. U \cup {t} \in closed
    BY <1>3, <1>4
  <2> QED BY <1>2, <2>1
<1> QED BY <1>2, <1>3, <1>4, <1>5 DEF U

(* What Kahn's algorithm leaves waits for something it leaves. *)
LEMMA OrderableIsOrdered ==
  ASSUME NEW p, IsPlan(p), NEW s, Sound(p, s, Len(p.tasks))
  PROVE  Ids(p) \ ToSet(s.ordered) \subseteq Unorderable(p)
<1>1. s.queue = <<>>
  BY QueueIsEmptied
<1>2. ToSet(s.queue) = {}
  BY <1>1 DEF ToSet
<1>3. ASSUME NEW t \in Ids(p) \ ToSet(s.ordered)
      PROVE  \E d \in p.deps[t] : d \in Ids(p) \ ToSet(s.ordered)
  <2>1. s.degree[t] # 0
    BY <1>2 DEF Sound, Degrees
  <2>2. Waiting(p, s, t) # {}
    BY <2>1, WaitingFinite DEF Sound, Degrees
  <2> QED BY <2>2 DEF Waiting, Known
<1>4. PICK left \in SUBSET Ids(p) : left = Ids(p) \ ToSet(s.ordered)
  OBVIOUS
<1>5. \A t \in left : \E d \in p.deps[t] : d \in left \/ d \notin Ids(p)
  BY <1>3, <1>4
<1>6. left \subseteq Unorderable(p)
  BY <1>5, UnorderableClosed
<1> QED BY <1>4, <1>6

(* The order the executor takes: every task once, and what can be ordered behind all
   its dependencies. *)
LEMMA TopologicalOrders ==
  ASSUME NEW p, IsPlan(p)
  PROVE  /\ Topological(p) \in Seq(Ids(p)) /\ IsInjective(Topological(p)) /\ ToSet(Topological(p)) = Ids(p)
         /\ \A j \in DOMAIN Topological(p) : Topological(p)[j] \notin Unorderable(p) =>
              \A d \in p.deps[Topological(p)[j]] : \E i \in 1..(j - 1) : Topological(p)[i] = d
<1>1. PICK s : s = Kahn(p)
  OBVIOUS
<1>2. Sound(p, s, Len(p.tasks))
  BY <1>1, KahnSound
<1>3. PICK places \in SUBSET DOMAIN p.tasks : places = {i \in DOMAIN p.tasks : p.tasks[i] \notin ToSet(s.ordered)}
  OBVIOUS
<1>4. places \in SUBSET Nat /\ IsFiniteSet(places) /\ places \in SUBSET (1..Len(p.tasks)) /\ Len(p.tasks) \in Nat
  <2>1. DOMAIN p.tasks = 1..Len(p.tasks) /\ Len(p.tasks) \in Nat
    BY PlanIds
  <2>2. IsFiniteSet(1..Len(p.tasks))
    BY <2>1, FS_Interval
  <2> QED BY <2>1, <2>2, FS_Subset
<1>5. PICK kept : kept = InOrder(places)
  OBVIOUS
<1>6. kept \in Seq(places) /\ IsInjective(kept) /\ ToSet(kept) = places
  BY <1>4, <1>5, Listing
<1>7. PICK rest : rest = Pick(p.tasks, places)
  OBVIOUS
<1>8. rest = [i \in DOMAIN kept |-> p.tasks[kept[i]]]
  BY <1>5, <1>7 DEF Pick
<1>9. /\ rest \in Seq(Ids(p)) /\ IsInjective(rest) /\ ToSet(rest) = Ids(p) \ ToSet(s.ordered)
  <2>1. DOMAIN kept = 1..Len(kept) /\ Len(kept) \in Nat
    BY <1>6
  <2>2. \A i \in 1..Len(kept) : kept[i] \in places /\ rest[i] = p.tasks[kept[i]]
    BY <1>6, <1>8, <2>1
  <2>3. \A i \in 1..Len(kept) : rest[i] \in Ids(p) /\ rest[i] \notin ToSet(s.ordered)
    BY <1>3, <2>2 DEF Ids, ToSet
  <2>4. rest \in [1..Len(kept) -> Ids(p)]
    BY <1>8, <2>1, <2>3
  <2>5. rest \in Seq(Ids(p)) /\ DOMAIN rest = 1..Len(kept)
    BY <2>1, <2>4
  <2>6. IsInjective(rest)
    BY <1>6, <2>1, <2>2, <2>5 DEF IsInjective, IsPlan
  <2>7. ToSet(rest) \subseteq Ids(p) \ ToSet(s.ordered)
    BY <2>3, <2>5 DEF ToSet
  <2>8. ASSUME NEW t \in Ids(p) \ ToSet(s.ordered) PROVE t \in ToSet(rest)
    <3>1. PICK k \in DOMAIN p.tasks : t = p.tasks[k]
      BY DEF Ids, ToSet
    <3>2. k \in places
      BY <1>3, <3>1
    <3>3. PICK i \in 1..Len(kept) : kept[i] = k
      BY <1>6, <2>1, <3>2 DEF ToSet
    <3>4. rest[i] = t
      BY <2>2, <3>1, <3>3
    <3> QED BY <2>5, <3>4 DEF ToSet
  <2> QED BY <2>5, <2>6, <2>7, <2>8
<1>10. s.ordered \in Seq(Ids(p)) /\ IsInjective(s.ordered)
  BY <1>2 DEF Sound, Lists
<1>11. PICK o \in Seq(Ids(p)) : o = s.ordered
  BY <1>10
<1>12. PICK T : T = Topological(p)
  OBVIOUS
<1>13. T = o \o rest
  BY <1>1, <1>3, <1>7, <1>11, <1>12 DEF Topological
<1>14. /\ o \o rest \in Seq(Ids(p)) /\ ToSet(o \o rest) = ToSet(o) \cup ToSet(rest)
       /\ Len(o \o rest) = Len(o) + Len(rest)
       /\ \A i \in 1..Len(o) : (o \o rest)[i] = o[i]
       /\ \A i \in 1..Len(rest) : (o \o rest)[i + Len(o)] = rest[i]
       /\ IsInjective(o \o rest)
  BY <1>9, <1>10, <1>11, Concatenated
<1>15. /\ Len(o) \in Nat /\ Len(rest) \in Nat /\ DOMAIN o = 1..Len(o) /\ DOMAIN rest = 1..Len(rest)
       /\ ToSet(o) \subseteq Ids(p) /\ DOMAIN T = 1..(Len(o) + Len(rest))
  BY <1>9, <1>13, <1>14 DEF ToSet
<1>16. T \in Seq(Ids(p)) /\ IsInjective(T) /\ ToSet(T) = Ids(p)
  BY <1>9, <1>11, <1>13, <1>14, <1>15
<1>17. ASSUME NEW j \in DOMAIN T, T[j] \notin Unorderable(p), NEW d \in p.deps[T[j]]
       PROVE  \E i \in 1..(j - 1) : T[i] = d
  <2>1. j \in 1..Len(o) /\ T[j] = o[j]
    <3>1. T[j] \in Ids(p)
      BY <1>16 DEF ToSet
    <3>2. T[j] \in ToSet(o)
      BY <1>2, <1>11, <1>17, <3>1, OrderableIsOrdered
    <3>3. PICK i \in 1..Len(o) : o[i] = T[j]
      BY <1>15, <3>2 DEF ToSet
    <3>4. T[i] = T[j] /\ i \in DOMAIN T
      BY <1>13, <1>14, <1>15, <3>3
    <3>5. i = j
      BY <1>16, <3>4 DEF IsInjective
    <3> QED BY <3>3, <3>5
  <2>2. d \in Known(p, o[j])
    <3>1. T[j] \in Ids(p) \ Unorderable(p)
      BY <1>16, <1>17 DEF ToSet
    <3> QED BY <2>1, <3>1, <1>17, UnorderableClosed DEF Known
  <2>3. PICK i \in 1..(j - 1) : o[i] = d
    BY <1>2, <1>11, <1>15, <2>1, <2>2 DEF Sound, Behind
  <2>4. i \in 1..Len(o)
    BY <1>15, <2>1
  <2> QED BY <1>13, <1>14, <2>3, <2>4
<1> QED BY <1>12, <1>16, <1>17

-----------------------------------------------------------------------------
(* The planners' plans.                                                     *)

(* If everything can be ordered, and every task but one has a task that depends on
   it, that one is taken last. *)
LEMMA LastTask ==
  ASSUME NEW p, IsPlan(p), Unorderable(p) = {}, NEW last \in Ids(p),
         \A t \in Ids(p) \ {last} : \E u \in Ids(p) : t \in p.deps[u]
  PROVE  Len(Topological(p)) >= 1 /\ Topological(p)[Len(Topological(p))] = last
<1>1. PICK T : T = Topological(p)
  OBVIOUS
<1>2. /\ T \in Seq(Ids(p)) /\ IsInjective(T) /\ ToSet(T) = Ids(p)
      /\ \A j \in DOMAIN T : \A d \in p.deps[T[j]] : \E i \in 1..(j - 1) : T[i] = d
  <2>1. \A j \in DOMAIN T : T[j] \notin Unorderable(p)
    OBVIOUS
  <2> QED BY <1>1, <2>1, TopologicalOrders
<1>3. Len(T) \in Nat /\ DOMAIN T = 1..Len(T)
  BY <1>2
<1>4. Len(T) >= 1
  BY <1>2, <1>3 DEF ToSet
<1>5. ASSUME T[Len(T)] # last PROVE FALSE
  <2>1. Len(T) \in DOMAIN T /\ T[Len(T)] \in Ids(p)
    BY <1>2, <1>3, <1>4
  <2>2. PICK u \in Ids(p) : T[Len(T)] \in p.deps[u]
    BY <1>5, <2>1
  <2>3. PICK j \in DOMAIN T : T[j] = u
    BY <1>2 DEF ToSet
  <2>4. PICK i \in 1..(j - 1) : T[i] = T[Len(T)]
    BY <1>2, <2>2, <2>3
  <2>5. PICK n \in Nat : n = Len(T) /\ j \in 1..n
    BY <1>3
  <2>6. i \in DOMAIN T /\ i # Len(T)
    <3>1. i \in 1..n /\ i # n
      BY <2>5
    <3> QED BY <1>3, <2>5, <3>1
  <2> QED BY <1>2, <2>1, <2>4, <2>6 DEF IsInjective
<1> QED BY <1>1, <1>4, <1>5

Depths == {"QUICK", "ANALYTIC", "DEEP"}

LEMMA AdaptiveLast ==
  ASSUME NEW depth \in Depths, NEW p, p = AdaptivePlan(depth)
  PROVE  /\ IsPlan(p) /\ Unorderable(p) = {}
         /\ Len(Topological(p)) >= 1 /\ p.type[Topological(p)[Len(Topological(p))]] = "PRODUCE"
<1>1. PICK k \in Nat : k = Retrievals(depth) /\ k >= 2
  BY DEF Retrievals, Depths
<1>2. p.tasks = [i \in 1..(k + 2) |-> i]
  BY <1>1 DEF AdaptivePlan
<1>3. p.type[k + 2] = "PRODUCE"
  <2>1. p.type = [i \in 1..(k + 2) |-> IF i <= k THEN "RETRIEVE" ELSE IF i = k + 1 THEN "SYNTHESIZE" ELSE "PRODUCE"]
    BY <1>1 DEF AdaptivePlan
  <2>2. k + 2 \in 1..(k + 2) /\ ~(k + 2 <= k) /\ k + 2 # k + 1
    OBVIOUS
  <2> QED BY <2>1, <2>2
<1>4. p.deps = [i \in 1..(k + 2) |-> IF i = 1 THEN {} ELSE IF i = k + 1 THEN {1, k} ELSE {i - 1}]
  BY <1>1 DEF AdaptivePlan
<1>5. Ids(p) = 1..(k + 2)
  BY <1>2 DEF Ids, ToSet
<1>6. IsPlan(p)
  <2>1. p.tasks \in [1..(k + 2) -> Nat] /\ IsInjective(p.tasks)
    BY <1>2 DEF IsInjective
  <2>2. PICK f \in [1..(k + 2) -> Nat] : f = p.tasks
    BY <2>1
  <2>3. k + 2 \in Nat /\ f \in Seq(Nat)
    OBVIOUS
  <2> QED BY <2>1, <2>2, <2>3 DEF IsPlan
<1>7. \A t \in Ids(p) : \A d \in p.deps[t] : d \in Ids(p) /\ d < t
  <2> SUFFICES ASSUME NEW t \in 1..(k + 2), NEW d \in p.deps[t] PROVE d \in 1..(k + 2) /\ d < t
    BY <1>5
  <2>1. t # 1 /\ (t = k + 1 => d \in {1, k}) /\ (t # k + 1 => d = t - 1)
    BY <1>4
  <2>2. CASE t = k + 1
    BY <1>1, <2>1, <2>2
  <2>3. CASE t # k + 1
    BY <1>1, <2>1, <2>3
  <2> QED BY <2>2, <2>3
<1>8. Unorderable(p) = {}
  <2> SUFFICES ASSUME Unorderable(p) # {} PROVE FALSE
    OBVIOUS
  <2>1. Unorderable(p) \in SUBSET Ids(p) /\ Unorderable(p) \in SUBSET Nat
    BY <1>5, UnorderableClosed
  <2>2. PICK m \in Unorderable(p) : \A u \in Unorderable(p) : m <= u
    BY <2>1, LeastExists
  <2>3. PICK d \in p.deps[m] : d \in Unorderable(p) \/ d \notin Ids(p)
    BY UnorderableClosed
  <2>4. d \in Unorderable(p) /\ d < m /\ m \in Nat /\ d \in Nat
    BY <1>5, <1>7, <2>1, <2>3
  <2> QED BY <2>2, <2>4
<1>9. ASSUME NEW t \in Ids(p) \ {k + 2} PROVE \E u \in Ids(p) : t \in p.deps[u]
  <2>1. t + 1 \in 1..(k + 2) /\ t \in 1..(k + 1) /\ t + 1 # 1 /\ (t + 1) - 1 = t /\ (t + 1 = k + 1 => t = k)
    BY <1>5
  <2>2. t \in p.deps[t + 1]
    BY <1>4, <2>1
  <2> QED BY <1>5, <2>1, <2>2
<1>10. k + 2 \in Ids(p)
  BY <1>5
<1> QED BY <1>3, <1>6, <1>8, <1>9, <1>10, LastTask

LEMMA DefaultLast ==
  ASSUME NEW scoped \in BOOLEAN, NEW p, p = DefaultPlan(scoped)
  PROVE  /\ IsPlan(p) /\ Unorderable(p) = {}
         /\ Len(Topological(p)) >= 1 /\ p.type[Topological(p)[Len(Topological(p))]] = "PRODUCE"
<1>1. PICK ids : ids = IF scoped THEN 1..5 ELSE 1..5 \ {3}
  OBVIOUS
<1>2. ids = IF scoped THEN {1, 2, 3, 4, 5} ELSE {1, 2, 4, 5}
  BY <1>1
<1>3. p.tasks = IF scoped THEN <<4, 3, 1, 5, 2>> ELSE <<4, 1, 5, 2>>
  BY DEF DefaultPlan
<1>4. p.type[2] = "PRODUCE"
  <2>1. p.type = [t \in ids |-> DefaultType[t]]
    BY <1>1 DEF DefaultPlan
  <2> QED BY <1>2, <2>1 DEF DefaultType
<1>5. p.deps = [t \in ids |-> CASE t = 1 -> ids \cap {3} [] t = 2 -> {5} [] t = 3 -> {4}
                                [] t = 4 -> {} [] t = 5 -> {1, 4}]
  BY <1>1 DEF DefaultPlan
<1>6. IsPlan(p) /\ Ids(p) = ids
  <2>1. CASE scoped
    <3>1. p.tasks = <<4, 3, 1, 5, 2>>
      BY <1>3, <2>1
    <3>2. PICK f : f = <<4, 3, 1, 5, 2>>
      OBVIOUS
    <3>3. f \in Seq(Nat) /\ DOMAIN f = {1, 2, 3, 4, 5}
      BY <3>2
    <3>4. f[1] = 4 /\ f[2] = 3 /\ f[3] = 1 /\ f[4] = 5 /\ f[5] = 2
      BY <3>2
    <3>5. IsInjective(f)
      BY <3>3, <3>4 DEF IsInjective
    <3>6. ToSet(f) = {1, 2, 3, 4, 5}
      BY <3>3, <3>4 DEF ToSet
    <3> QED BY <1>2, <2>1, <3>1, <3>2, <3>3, <3>5, <3>6 DEF IsPlan, Ids
  <2>2. CASE ~scoped
    <3>1. p.tasks = <<4, 1, 5, 2>>
      BY <1>3, <2>2
    <3>2. <<4, 1, 5, 2>> \in Seq(Nat) /\ DOMAIN <<4, 1, 5, 2>> = {1, 2, 3, 4}
      OBVIOUS
    <3> QED BY <1>2, <2>2, <3>1, <3>2 DEF IsPlan, Ids, ToSet, IsInjective
  <2> QED BY <2>1, <2>2
<1>7. /\ p.deps[1] = ids \cap {3} /\ p.deps[2] = {5} /\ p.deps[4] = {} /\ p.deps[5] = {1, 4}
      /\ 3 \in ids => p.deps[3] = {4}
  BY <1>2, <1>5
<1>8. {1, 2, 4, 5} \subseteq ids /\ ids \subseteq {1, 2, 3, 4, 5}
  BY <1>2
<1>9. Unorderable(p) = {}
  <2>1. /\ Unorderable(p) \subseteq ids
        /\ \A t \in Unorderable(p) : \E d \in p.deps[t] : d \in Unorderable(p) \/ d \notin ids
    BY <1>6, UnorderableClosed
  <2>2. 4 \notin Unorderable(p)
    BY <1>7, <2>1
  <2>3. 3 \notin Unorderable(p)
    BY <1>7, <1>8, <2>1, <2>2
  <2>4. 1 \notin Unorderable(p)
    BY <1>7, <2>1, <2>3
  <2>5. 5 \notin Unorderable(p)
    BY <1>7, <1>8, <2>1, <2>2, <2>4
  <2>6. 2 \notin Unorderable(p)
    BY <1>7, <1>8, <2>1, <2>5
  <2> QED BY <1>8, <2>1, <2>2, <2>3, <2>4, <2>5, <2>6
<1>10. ASSUME NEW t \in Ids(p) \ {2} PROVE \E u \in Ids(p) : t \in p.deps[u]
  <2>1. t \in {1, 3, 4, 5} /\ (t = 3 => 3 \in p.deps[1])
    BY <1>6, <1>7, <1>8
  <2> QED BY <1>6, <1>7, <1>8, <2>1
<1>11. 2 \in Ids(p)
  BY <1>6, <1>8
<1> QED BY <1>4, <1>6, <1>9, <1>10, <1>11, LastTask

(* A planner's plan leaves nothing out and ends in the report. *)
LEMMA ReportIsLast ==
  ASSUME Planned
  PROVE  /\ Unorderable(plan) = {} /\ Len(Topological(plan)) >= 1
         /\ plan.type[Topological(plan)[Len(Topological(plan))]] = "PRODUCE"
<1>1. CASE \E d \in Depths : plan = AdaptivePlan(d)
  BY <1>1, AdaptiveLast
<1>2. CASE \E b \in BOOLEAN : plan = DefaultPlan(b)
  BY <1>2, DefaultLast
<1> QED BY <1>1, <1>2 DEF Planned, Depths

-----------------------------------------------------------------------------
(* Reports.                                                                 *)

LEMMA PrefixMeans ==
  ASSUME NEW S, NEW s \in Seq(S), NEW t \in Seq(S)
  PROVE  IsPrefix(s, t) <=> Len(s) <= Len(t) /\ \A i \in 1..Len(s) : s[i] = t[i]
<1>1. Len(s) \in Nat /\ Len(t) \in Nat /\ SubSeq(s, 1, Len(s)) = s
  OBVIOUS
<1>2. ASSUME Len(s) <= Len(t)
      PROVE  SubSeq(t, 1, Len(s)) = s <=> \A i \in 1..Len(s) : s[i] = t[i]
  <2>1. PICK u : u = SubSeq(t, 1, Len(s))
    OBVIOUS
  <2>2. u \in Seq(S) /\ Len(u) = Len(s) /\ \A i \in 1..Len(s) : u[i] = t[i]
    BY <1>1, <1>2, <2>1
  <2>3. u = s <=> \A i \in 1..Len(s) : u[i] = s[i]
    BY <1>1, <2>2, SeqEqual
  <2> QED BY <2>1, <2>2, <2>3
<1> QED BY <1>1, <1>2 DEF IsPrefix

LEMMA PrefixAppended ==
  ASSUME NEW S, NEW s \in Seq(S), NEW t \in Seq(S), NEW x \in S, IsPrefix(s, t)
  PROVE  IsPrefix(s, Append(t, x))
<1>1. PICK u \in Seq(S) : u = Append(t, x) /\ Len(u) = Len(t) + 1 /\ \A i \in 1..Len(t) : u[i] = t[i]
  <2>1. Append(t, x) \in Seq(S) /\ Len(Append(t, x)) = Len(t) + 1
    OBVIOUS
  <2>2. \A i \in 1..Len(t) : Append(t, x)[i] = t[i]
    OBVIOUS
  <2> QED BY <2>1, <2>2
<1>2. Len(s) \in Nat /\ Len(t) \in Nat /\ Len(s) <= Len(t) /\ \A i \in 1..Len(s) : s[i] = t[i]
  BY PrefixMeans
<1>3. Len(s) <= Len(u) /\ \A i \in 1..Len(s) : i \in 1..Len(t)
  BY <1>1, <1>2
<1>4. \A i \in 1..Len(s) : s[i] = u[i]
  BY <1>1, <1>2, <1>3
<1>5. IsPrefix(s, u)
  BY <1>3, <1>4, PrefixMeans
<1> QED BY <1>1, <1>5

LEMMA ListedIsPrefix ==
  ASSUME NEW S, NEW s \in Seq(S)
  PROVE  Listed(s) \in Seq(S) /\ IsPrefix(Listed(s), s)
<1>1. PICK m : m = Min({Len(s), ReportLimit})
  OBVIOUS
<1>2. m \in Nat /\ m <= Len(s)
  <2>1. Len(s) \in Nat /\ ReportLimit \in Nat
    BY LimitAssumption
  <2>2. PICK x : x \in {Len(s), ReportLimit} /\ \A y \in {Len(s), ReportLimit} : x =< y
    <3>1. Len(s) <= ReportLimit \/ ReportLimit <= Len(s)
      BY <2>1
    <3> QED BY <2>1, <3>1
  <2>3. m \in {Len(s), ReportLimit} /\ \A y \in {Len(s), ReportLimit} : m =< y
    BY <1>1, <2>2 DEF Min
  <2> QED BY <2>1, <2>3
<1>3. PICK r : r = SubSeq(s, 1, m)
  OBVIOUS
<1>4. r \in Seq(S) /\ Len(r) = m /\ \A i \in 1..m : r[i] = s[i]
  BY <1>2, <1>3
<1>5. IsPrefix(r, s)
  BY <1>2, <1>4, PrefixMeans
<1> QED BY <1>1, <1>3, <1>4, <1>5 DEF Listed

-----------------------------------------------------------------------------
(* The invariant.                                                           *)

Findings == [call : Calls, task : Nat]
Runs == [status : {"NONE", "PLANNED", "RUNNING", "COMPLETED", "FAILED"},
         findings : Seq(Findings), report : Seq(Findings)]
Results == {"COMPLETED", "FAILED", "SKIPPED"}

Typed ==
  /\ plan \in Plans /\ row \in Runs /\ copy \in [Calls -> Runs]
  /\ order \in [Calls -> Seq(Nat)] /\ res = [c \in Calls |-> res[c]]
  /\ pc \in [Calls -> {"idle", "running", "over", "lost"}]
  /\ \A c \in Calls : DOMAIN res[c] \subseteq Ids(plan) /\ res[c] \in [DOMAIN res[c] -> Results]

(* A call under way has results for the tasks up to a place in its order. *)
Taken(list, k) == {list[i] : i \in 1..k}
Working ==
  \A c \in Calls :
    /\ pc[c] = "idle" => DOMAIN res[c] = {}
    /\ pc[c] = "running" =>
         \E k \in 0..Len(order[c]) : /\ order[c] = Topological(plan)
                                     /\ DOMAIN res[c] = Taken(order[c], k)

(* A list of findings keeps executions apart, and a report is the head of it. *)
Grouped(f) ==
  \A i, j, k \in DOMAIN f : i < j /\ j < k /\ f[i].call = f[k].call => f[j].call = f[i].call
Shaped(r) == IsInjective(r.findings) /\ Grouped(r.findings) /\ IsPrefix(r.report, r.findings)
Shapes == Shaped(row) /\ \A c \in Calls : Shaped(copy[c])

(* Until a call has stored its run, nobody else has a finding of it. *)
NoneOf(c, r) == \A i \in DOMAIN r.findings : r.findings[i].call # c
Apart ==
  \A c \in Calls : pc[c] # "over" => NoneOf(c, row) /\ \A d \in Calls \ {c} : NoneOf(c, copy[d])

(* The findings of a call stand at the end of its copy and are of tasks it has taken;
   what its tools found is there. *)
Owned(c, r, results) ==
  /\ \A i, j \in DOMAIN r.findings : i < j /\ r.findings[i].call = c => r.findings[j].call = c
  /\ \A i \in DOMAIN r.findings : r.findings[i].call = c => r.findings[i].task \in DOMAIN results
Found(p, r, results) ==
  \A t \in DOMAIN results : results[t] = "COMPLETED" /\ p.type[t] # "PRODUCE" =>
    \E i \in DOMAIN r.findings : r.findings[i].task = t
Own ==
  \A c \in Calls : pc[c] # "over" => Owned(c, copy[c], res[c]) /\ Found(plan, copy[c], res[c])

(* The report is the last thing a planned execution writes. *)
Reported ==
  \A c \in Calls : Planned /\ pc[c] = "running" /\ DOMAIN res[c] = Ids(plan) =>
    copy[c].report = Listed(copy[c].findings)

(* What a stored run with a verdict reports and stands on. *)
Stored(r) ==
  /\ Planned /\ r.status \in {"COMPLETED", "FAILED"} => r.report = Listed(r.findings)
  /\ r.status = "COMPLETED" => \E i \in DOMAIN r.findings : plan.type[r.findings[i].task] \in ToolTypes

Inv ==
  /\ Typed /\ Working /\ SkippedBehindCycles
  /\ Shapes /\ Apart /\ Own /\ Reported /\ Stored(row)

-----------------------------------------------------------------------------
(* A task.                                                                  *)

LEMMA PlanIsPlan ==
  ASSUME plan \in Plans
  PROVE  IsPlan(plan)
BY PlansAssumption DEF IsPlan

LEMMA OrderTaken ==
  ASSUME NEW p, IsPlan(p), NEW k \in 0..Len(Topological(p))
  PROVE  /\ IsFiniteSet(Taken(Topological(p), k)) /\ Cardinality(Taken(Topological(p), k)) = k
         /\ Taken(Topological(p), k) \subseteq Ids(p)
         /\ Len(Topological(p)) \in Nat /\ Topological(p) \in Seq(Nat)
         /\ k = Len(Topological(p)) <=> Taken(Topological(p), k) = Ids(p)
         /\ k < Len(Topological(p)) =>
              /\ Topological(p)[k + 1] \in Ids(p)
              /\ Topological(p)[k + 1] \notin Taken(Topological(p), k)
              /\ Taken(Topological(p), k + 1) = Taken(Topological(p), k) \cup {Topological(p)[k + 1]}
<1>1. PICK T : T = Topological(p)
  OBVIOUS
<1>2. /\ T \in Seq(Ids(p)) /\ IsInjective(T) /\ ToSet(T) = Ids(p)
  BY <1>1, TopologicalOrders
<1>3. Ids(p) \in SUBSET Nat /\ IsFiniteSet(Ids(p))
  BY PlanIds
<1>4. PICK n \in Nat : n = Len(T) /\ DOMAIN T = 1..n /\ k \in 0..n
  BY <1>1, <1>2
<1>5. T \in Seq(Nat) /\ \A i \in 1..n : T[i] \in Ids(p)
  BY <1>2, <1>3, <1>4
<1>6. \A i, j \in 1..n : T[i] = T[j] => i = j
  BY <1>2, <1>4 DEF IsInjective
<1>7. Taken(T, k) \in SUBSET Ids(p)
  <2>1. \A i \in 1..k : i \in 1..n
    BY <1>4
  <2> QED BY <1>5, <2>1 DEF Taken
<1>8. IsFiniteSet(Taken(T, k)) /\ Cardinality(Taken(T, k)) = k
  <2>1. PICK f : f = [i \in 1..k |-> T[i]]
    OBVIOUS
  <2>2. k \in Nat /\ \A i \in 1..k : i \in 1..n /\ T[i] \in Ids(p)
    BY <1>4, <1>5
  <2>3. f \in [1..k -> Ids(p)]
    BY <2>1, <2>2
  <2>4. f \in Seq(Ids(p)) /\ DOMAIN f = 1..k /\ Len(f) = k
    BY <2>2, <2>3
  <2>5. IsInjective(f)
    BY <1>6, <2>1, <2>2, <2>4 DEF IsInjective
  <2>6. ToSet(f) = Taken(T, k)
    BY <2>1, <2>4 DEF ToSet, Taken
  <2> QED BY <2>4, <2>5, <2>6, ListLength
<1>9. k = n <=> Taken(T, k) = Ids(p)
  <2>1. CASE k = n
    BY <1>2, <1>4, <2>1 DEF Taken, ToSet
  <2>2. CASE k # n
    <3>1. n \in 1..n
      BY <1>4, <2>2
    <3>2. \A i \in 1..k : i \in 1..n /\ i # n
      BY <1>4, <2>2
    <3>3. T[n] \in Ids(p) /\ T[n] \notin Taken(T, k)
      BY <1>5, <1>6, <3>1, <3>2 DEF Taken
    <3> QED BY <2>2, <3>3
  <2> QED BY <2>1, <2>2
<1>10. ASSUME k < n
       PROVE  /\ T[k + 1] \in Ids(p) /\ T[k + 1] \notin Taken(T, k)
              /\ Taken(T, k + 1) = Taken(T, k) \cup {T[k + 1]}
  <2>1. k + 1 \in 1..n /\ \A i \in 1..k : i \in 1..n /\ i # k + 1
    BY <1>4, <1>10
  <2>2. 1..(k + 1) = 1..k \cup {k + 1}
    BY <1>4
  <2> QED BY <1>5, <1>6, <2>1, <2>2 DEF Taken
<1> QED BY <1>1, <1>4, <1>5, <1>7, <1>8, <1>9, <1>10

(* What the number of results says about an execution under way. *)
LEMMA Place ==
  ASSUME Typed, Working, NEW c \in Calls, pc[c] = "running"
  PROVE  /\ order[c] = Topological(plan) /\ IsPlan(plan)
         /\ Cardinality(DOMAIN res[c]) \in 0..Len(order[c])
         /\ DOMAIN res[c] = Taken(order[c], Cardinality(DOMAIN res[c]))
<1>1. IsPlan(plan)
  BY PlanIsPlan DEF Typed
<1>2. PICK k \in 0..Len(order[c]) : order[c] = Topological(plan) /\ DOMAIN res[c] = Taken(order[c], k)
  BY DEF Working
<1>3. Cardinality(DOMAIN res[c]) = k
  BY <1>1, <1>2, OrderTaken
<1> QED BY <1>1, <1>2, <1>3

(* The next task is a task without result; it is blocked if and only if it cannot be
   ordered. *)
LEMMA NextTask ==
  ASSUME Typed, Working, SkippedBehindCycles, NEW c \in Calls, pc[c] = "running",
         Cardinality(DOMAIN res[c]) < Len(order[c]),
         NEW t, t = order[c][Cardinality(DOMAIN res[c]) + 1]
  PROVE  /\ t \in Ids(plan) /\ t \notin DOMAIN res[c]
         /\ Cardinality(DOMAIN res[c]) + 1 \in 0..Len(order[c])
         /\ DOMAIN res[c] \cup {t} = Taken(order[c], Cardinality(DOMAIN res[c]) + 1)
         /\ Blocked(res[c], t) <=> t \in Unorderable(plan)
<1>1. PICK T : T = order[c]
  OBVIOUS
<1>2. PICK k : k = Cardinality(DOMAIN res[c])
  OBVIOUS
<1>3. T = Topological(plan) /\ IsPlan(plan) /\ k \in 0..Len(T) /\ DOMAIN res[c] = Taken(T, k) /\ k < Len(T) /\ t = T[k + 1]
  BY <1>1, <1>2, Place
<1>4. /\ t \in Ids(plan) /\ t \notin DOMAIN res[c] /\ DOMAIN res[c] \cup {t} = Taken(T, k + 1)
      /\ Len(T) \in Nat /\ T \in Seq(Nat)
  BY <1>3, OrderTaken
<1>5. k + 1 \in 0..Len(T) /\ k + 1 \in DOMAIN T /\ (k + 1) - 1 = k
  BY <1>3, <1>4
<1>6. ASSUME t \in Unorderable(plan) PROVE Blocked(res[c], t)
  <2>1. PICK d \in plan.deps[t] : d \in Unorderable(plan) \/ d \notin Ids(plan)
    BY <1>6, UnorderableClosed
  <2>2. d \in DOMAIN res[c] => d \in Ids(plan)
    BY DEF Typed
  <2>3. d \in DOMAIN res[c] => res[c][d] = "SKIPPED"
    BY <2>1, <2>2 DEF SkippedBehindCycles
  <2> QED BY <2>1, <2>3 DEF Blocked
<1>7. ASSUME t \notin Unorderable(plan) PROVE ~Blocked(res[c], t)
  <2> SUFFICES ASSUME NEW d \in plan.deps[t] PROVE d \in DOMAIN res[c] /\ res[c][d] # "SKIPPED"
    BY DEF Blocked
  <2>1. d \in Ids(plan) \ Unorderable(plan)
    BY <1>4, <1>7, UnorderableClosed
  <2>2. PICK i \in 1..k : T[i] = d
    BY <1>3, <1>5, <1>7, TopologicalOrders
  <2>3. d \in DOMAIN res[c]
    BY <1>3, <2>2 DEF Taken
  <2> QED BY <2>1, <2>3 DEF SkippedBehindCycles
<1> QED BY <1>1, <1>2, <1>4, <1>5, <1>6, <1>7

(* What a task does: to the results, and to the copy. *)
TaskDone(c, t, outcome) ==
  /\ pc[c] = "running" /\ Cardinality(DOMAIN res[c]) < Len(order[c])
  /\ t = order[c][Cardinality(DOMAIN res[c]) + 1]
  /\ outcome \in IF Blocked(res[c], t) THEN {"SKIPPED"} ELSE Outcomes(plan.type[t])
  /\ res' = [res EXCEPT ![c] = [u \in DOMAIN res[c] \cup {t} |-> IF u = t THEN outcome ELSE res[c][u]]]
  /\ copy' = [copy EXCEPT ![c] = Effect(c, t, outcome)]
  /\ UNCHANGED <<plan, row, order, pc>>

LEMMA TaskIsDone ==
  ASSUME NEW c \in Calls, Task(c)
  PROVE  \E t, outcome : TaskDone(c, t, outcome)
BY DEF Task, TaskDone

LEMMA OutcomesAreResults ==
  ASSUME NEW type
  PROVE  Outcomes(type) \subseteq {"COMPLETED", "FAILED"}
BY DEF Outcomes

LEMMA TaskResults ==
  ASSUME Inv, NEW c \in Calls, NEW t, NEW outcome, TaskDone(c, t, outcome)
  PROVE  /\ t \in Ids(plan) /\ t \notin DOMAIN res[c] /\ outcome \in Results
         /\ DOMAIN res'[c] = DOMAIN res[c] \cup {t} /\ res'[c][t] = outcome
         /\ \A u \in DOMAIN res[c] : res'[c][u] = res[c][u]
         /\ res'[c] \in [DOMAIN res[c] \cup {t} -> Results]
         /\ \A d \in Calls : d # c => res'[d] = res[d]
         /\ res' = [d \in Calls |-> res'[d]]
         /\ outcome = "SKIPPED" <=> t \in Unorderable(plan)
<1>1. /\ t \in Ids(plan) /\ t \notin DOMAIN res[c] /\ (Blocked(res[c], t) <=> t \in Unorderable(plan))
  BY NextTask DEF Inv, TaskDone
<1>2. outcome \in Results /\ (outcome = "SKIPPED" <=> Blocked(res[c], t))
  BY OutcomesAreResults DEF TaskDone, Results
<1>3. PICK r : r = [u \in DOMAIN res[c] \cup {t} |-> IF u = t THEN outcome ELSE res[c][u]]
  OBVIOUS
<1>4. res' = [res EXCEPT ![c] = r] /\ DOMAIN res = Calls
  BY <1>3 DEF TaskDone, Inv, Typed
<1>5. res'[c] = r /\ \A d \in Calls : d # c => res'[d] = res[d]
  BY <1>4
<1>6. res' = [d \in Calls |-> res'[d]]
  BY <1>4
<1>7. res[c] \in [DOMAIN res[c] -> Results]
  BY DEF Inv, Typed
<1>8. r \in [DOMAIN res[c] \cup {t} -> Results]
  BY <1>2, <1>3, <1>7
<1>9. DOMAIN r = DOMAIN res[c] \cup {t} /\ r[t] = outcome /\ \A u \in DOMAIN res[c] : r[u] = res[c][u]
  BY <1>1, <1>3
<1> QED BY <1>1, <1>2, <1>5, <1>6, <1>8, <1>9

LEMMA RunWithStatus ==
  ASSUME NEW r \in Runs, NEW status \in {"NONE", "PLANNED", "RUNNING", "COMPLETED", "FAILED"},
         NEW q, q = [r EXCEPT !.status = status]
  PROVE  q \in Runs /\ q.status = status /\ q.findings = r.findings /\ q.report = r.report
BY DEF Runs

LEMMA RunFields ==
  ASSUME NEW r \in Runs
  PROVE  /\ r.findings \in Seq(Findings) /\ r.report \in Seq(Findings)
         /\ Len(r.findings) \in Nat /\ DOMAIN r.findings = 1..Len(r.findings)
<1>1. r.findings \in Seq(Findings) /\ r.report \in Seq(Findings)
  BY DEF Runs
<1>2. PICK f \in Seq(Findings) : f = r.findings
  BY <1>1
<1>3. Len(f) \in Nat /\ DOMAIN f = 1..Len(f)
  OBVIOUS
<1> QED BY <1>1, <1>2, <1>3

LEMMA FindingIsNew ==
  ASSUME NEW c \in Calls, NEW t \in Nat
  PROVE  Finding(c, t) \in Findings /\ Finding(c, t).call = c /\ Finding(c, t).task = t
BY DEF Finding, Findings

(* A copy either grows by a finding of the task or has its report written. *)
Grown(r, q, x) == q.findings = Append(r.findings, x) /\ q.report = r.report
Same(r, q) == q.findings = r.findings /\ (q.report = r.report \/ q.report = Listed(r.findings))

LEMMA EffectOnCopy ==
  ASSUME Typed, NEW c \in Calls, NEW t \in Nat, NEW outcome, NEW q, q = Effect(c, t, outcome)
  PROVE  /\ q \in Runs
         /\ Grown(copy[c], q, Finding(c, t)) \/ Same(copy[c], q)
         /\ outcome = "COMPLETED" /\ plan.type[t] # "PRODUCE" => Grown(copy[c], q, Finding(c, t))
         /\ Grown(copy[c], q, Finding(c, t)) => outcome = "COMPLETED"
         /\ outcome = "COMPLETED" /\ plan.type[t] = "PRODUCE" => q.report = Listed(q.findings)
<1>1. PICK r \in Runs : r = copy[c]
  BY DEF Typed
<1>2. PICK f \in Seq(Findings) : f = r.findings
  BY RunFields
<1>3. CASE outcome # "COMPLETED"
  <2>1. q = r
    BY <1>1, <1>3 DEF Effect
  <2>2. r.findings # Append(r.findings, Finding(c, t))
    <3>1. Append(f, Finding(c, t)) \in Seq(Findings) /\ Len(Append(f, Finding(c, t))) = Len(f) + 1 /\ Len(f) \in Nat
      BY FindingIsNew
    <3> QED BY <1>2, <3>1
  <2> QED BY <1>1, <1>3, <2>1, <2>2 DEF Grown, Same
<1>4. CASE outcome = "COMPLETED" /\ plan.type[t] = "PRODUCE"
  <2>1. PICK new : new = Listed(f)
    OBVIOUS
  <2>2. q = [r EXCEPT !.report = new]
    BY <1>1, <1>2, <1>4, <2>1 DEF Effect
  <2>3. new \in Seq(Findings)
    BY <2>1, ListedIsPrefix
  <2>4. q \in Runs /\ q.findings = r.findings /\ q.report = new
    BY <2>2, <2>3 DEF Runs
  <2>5. Same(r, q) /\ q.report = Listed(q.findings)
    BY <1>2, <2>1, <2>4 DEF Same
  <2> QED BY <1>1, <1>4, <2>4, <2>5
<1>5. CASE outcome = "COMPLETED" /\ plan.type[t] # "PRODUCE"
  <2>1. PICK new : new = Append(f, Finding(c, t))
    OBVIOUS
  <2>2. q = [r EXCEPT !.findings = new]
    BY <1>1, <1>2, <1>5, <2>1 DEF Effect
  <2>3. new \in Seq(Findings)
    BY <2>1, FindingIsNew
  <2>4. q \in Runs /\ q.findings = new /\ q.report = r.report
    BY <2>2, <2>3 DEF Runs
  <2>5. Grown(r, q, Finding(c, t))
    BY <1>2, <2>1, <2>4 DEF Grown
  <2> QED BY <1>1, <1>5, <2>4, <2>5
<1> QED BY <1>3, <1>4, <1>5

LEMMA GrownFindings ==
  ASSUME NEW r \in Runs, NEW q \in Runs, NEW x \in Findings, Grown(r, q, x)
  PROVE  /\ DOMAIN r.findings = 1..Len(r.findings) /\ Len(r.findings) \in Nat
         /\ DOMAIN q.findings = 1..(Len(r.findings) + 1)
         /\ \A i \in DOMAIN q.findings : i \in DOMAIN r.findings \/ i = Len(r.findings) + 1
         /\ \A i \in DOMAIN r.findings : i \in DOMAIN q.findings /\ q.findings[i] = r.findings[i]
         /\ Len(r.findings) + 1 \in DOMAIN q.findings /\ q.findings[Len(r.findings) + 1] = x
<1>1. PICK f \in Seq(Findings) : f = r.findings
  BY RunFields
<1>2. PICK g \in Seq(Findings) : g = q.findings
  BY RunFields
<1>3. g = Append(f, x)
  BY <1>1, <1>2 DEF Grown
<1>4. PICK n \in Nat : n = Len(f) /\ DOMAIN f = 1..n
  OBVIOUS
<1>5. Len(g) = n + 1 /\ DOMAIN g = 1..(n + 1) /\ g[n + 1] = x /\ \A i \in 1..n : g[i] = f[i]
  BY <1>3, <1>4
<1>6. n + 1 \in 1..(n + 1) /\ \A i \in 1..(n + 1) : i \in 1..n \/ i = n + 1
  OBVIOUS
<1>7. \A i \in 1..n : i \in 1..(n + 1)
  OBVIOUS
<1> QED BY <1>1, <1>2, <1>4, <1>5, <1>6, <1>7

(* A finding that is new and of the call the last ones are of keeps the shape. *)
LEMMA GrownIsShaped ==
  ASSUME NEW r \in Runs, NEW q \in Runs, NEW x \in Findings, Grown(r, q, x), Shaped(r),
         \A i \in DOMAIN r.findings : r.findings[i] # x,
         \A i, j \in DOMAIN r.findings : i < j /\ r.findings[i].call = x.call => r.findings[j].call = x.call
  PROVE  Shaped(q)
<1>1. PICK n \in Nat : /\ n = Len(r.findings) /\ DOMAIN r.findings = 1..n /\ DOMAIN q.findings = 1..(n + 1)
                       /\ \A i \in 1..n : q.findings[i] = r.findings[i]
                       /\ q.findings[n + 1] = x
  BY GrownFindings
<1>2. IsInjective(q.findings)
  <2>1. \A i, j \in 1..n : r.findings[i] = r.findings[j] => i = j
    BY <1>1 DEF Shaped, IsInjective
  <2>2. \A i, j \in 1..(n + 1) : q.findings[i] = q.findings[j] => i = j
    BY <1>1, <2>1
  <2> QED BY <1>1, <2>2 DEF IsInjective
<1>3. Grouped(q.findings)
  <2> SUFFICES ASSUME NEW i \in 1..(n + 1), NEW j \in 1..(n + 1), NEW k \in 1..(n + 1),
                      i < j, j < k, q.findings[i].call = q.findings[k].call
               PROVE  q.findings[j].call = q.findings[i].call
    BY <1>1 DEF Grouped
  <2>1. i \in 1..n /\ j \in 1..n
    OBVIOUS
  <2>2. CASE k \in 1..n
    <3>1. Grouped(r.findings)
      BY DEF Shaped
    <3>2. /\ q.findings[i] = r.findings[i] /\ q.findings[j] = r.findings[j] /\ q.findings[k] = r.findings[k]
          /\ i \in DOMAIN r.findings /\ j \in DOMAIN r.findings /\ k \in DOMAIN r.findings
      BY <1>1, <2>1, <2>2
    <3>3. r.findings[i].call = r.findings[k].call
      BY <3>2
    <3>4. r.findings[j].call = r.findings[i].call
      BY <3>1, <3>2, <3>3 DEF Grouped
    <3> QED BY <3>2, <3>4
  <2>3. CASE k = n + 1
    BY <1>1, <2>1, <2>3
  <2> QED BY <2>2, <2>3
<1>4. IsPrefix(q.report, q.findings)
  <2>1. PICK f \in Seq(Findings) : f = r.findings
    BY RunFields
  <2>2. PICK s \in Seq(Findings) : s = r.report
    BY RunFields
  <2>3. IsPrefix(s, f)
    BY <2>1, <2>2 DEF Shaped
  <2>4. IsPrefix(s, Append(f, x))
    BY <2>3, PrefixAppended
  <2> QED BY <2>1, <2>2, <2>4 DEF Grown
<1> QED BY <1>2, <1>3, <1>4 DEF Shaped

LEMMA SameIsShaped ==
  ASSUME NEW r \in Runs, NEW q, Same(r, q), Shaped(r)
  PROVE  Shaped(q)
<1>1. PICK f \in Seq(Findings) : f = r.findings
  BY RunFields
<1>2. IsPrefix(Listed(f), f)
  BY ListedIsPrefix
<1> QED BY <1>1, <1>2 DEF Same, Shaped

-----------------------------------------------------------------------------
(* A task keeps the invariant.                                              *)

LEMMA TaskCopies ==
  ASSUME Inv, NEW c \in Calls, NEW t, NEW outcome, TaskDone(c, t, outcome)
  PROVE  /\ copy'[c] \in Runs /\ copy[c] \in Runs /\ t \in Nat
         /\ Grown(copy[c], copy'[c], Finding(c, t)) \/ Same(copy[c], copy'[c])
         /\ outcome = "COMPLETED" /\ plan.type[t] # "PRODUCE" => Grown(copy[c], copy'[c], Finding(c, t))
         /\ Grown(copy[c], copy'[c], Finding(c, t)) => outcome = "COMPLETED"
         /\ outcome = "COMPLETED" /\ plan.type[t] = "PRODUCE" => copy'[c].report = Listed(copy'[c].findings)
         /\ \A d \in Calls : d # c => copy'[d] = copy[d]
         /\ copy' \in [Calls -> Runs]
<1>1. t \in Ids(plan) /\ plan \in Plans
  BY TaskResults DEF Inv, Typed
<1>2. t \in Nat
  BY <1>1, PlanIds, PlanIsPlan
<1>3. PICK q : q = Effect(c, t, outcome)
  OBVIOUS
<1>4. copy \in [Calls -> Runs] /\ copy' = [copy EXCEPT ![c] = q]
  BY <1>3 DEF TaskDone, Inv, Typed
<1>5. q \in Runs
  BY <1>2, <1>3, EffectOnCopy DEF Inv
<1>6. copy'[c] = q /\ \A d \in Calls : d # c => copy'[d] = copy[d]
  BY <1>4
<1>7. copy' \in [Calls -> Runs]
  BY <1>4, <1>5
<1>8. /\ Grown(copy[c], q, Finding(c, t)) \/ Same(copy[c], q)
      /\ outcome = "COMPLETED" /\ plan.type[t] # "PRODUCE" => Grown(copy[c], q, Finding(c, t))
      /\ Grown(copy[c], q, Finding(c, t)) => outcome = "COMPLETED"
      /\ outcome = "COMPLETED" /\ plan.type[t] = "PRODUCE" => q.report = Listed(q.findings)
  BY <1>2, <1>3, EffectOnCopy DEF Inv
<1> QED BY <1>2, <1>4, <1>5, <1>6, <1>7, <1>8

(* The findings of a copy that grew or stayed. *)
LEMMA TaskFindings ==
  ASSUME Inv, NEW c \in Calls, NEW t, NEW outcome, TaskDone(c, t, outcome)
  PROVE  /\ \A i \in DOMAIN copy[c].findings :
              i \in DOMAIN copy'[c].findings /\ copy'[c].findings[i] = copy[c].findings[i]
         /\ \A i \in DOMAIN copy'[c].findings :
              \/ i \in DOMAIN copy[c].findings
              \/ /\ copy'[c].findings[i] = Finding(c, t)
                 /\ \A j \in DOMAIN copy'[c].findings : j <= i
         /\ outcome = "COMPLETED" /\ plan.type[t] # "PRODUCE" =>
              \E i \in DOMAIN copy'[c].findings : copy'[c].findings[i] = Finding(c, t)
<1>1. PICK r \in Runs : r = copy[c]
  BY TaskCopies
<1>2. PICK q \in Runs : q = copy'[c]
  BY TaskCopies
<1>3. PICK x \in Findings : x = Finding(c, t)
  BY TaskCopies, FindingIsNew
<1>4. CASE Grown(r, q, x)
  <2>1. PICK n \in Nat : /\ n = Len(r.findings) /\ DOMAIN r.findings = 1..n /\ DOMAIN q.findings = 1..(n + 1)
                         /\ \A i \in 1..n : i \in 1..(n + 1) /\ q.findings[i] = r.findings[i]
                         /\ \A i \in 1..(n + 1) : i \in 1..n \/ i = n + 1
                         /\ n + 1 \in 1..(n + 1) /\ q.findings[n + 1] = x
    BY <1>4, GrownFindings
  <2>2. \A j \in 1..(n + 1) : j <= n + 1
    OBVIOUS
  <2> QED BY <1>1, <1>2, <1>3, <2>1, <2>2
<1>5. CASE ~Grown(r, q, x)
  <2>1. q.findings = r.findings /\ ~(outcome = "COMPLETED" /\ plan.type[t] # "PRODUCE")
    BY <1>1, <1>2, <1>3, <1>5, TaskCopies DEF Same
  <2> QED BY <1>1, <1>2, <2>1
<1> QED BY <1>4, <1>5

LEMMA TaskTyped ==
  ASSUME Inv, NEW c \in Calls, NEW t, NEW outcome, TaskDone(c, t, outcome)
  PROVE  Typed'
<1>1. UNCHANGED <<plan, row, order, pc>> /\ copy' \in [Calls -> Runs] /\ res' = [d \in Calls |-> res'[d]]
  BY TaskCopies, TaskResults DEF TaskDone
<1>2. ASSUME NEW d \in Calls
      PROVE  DOMAIN res'[d] \subseteq Ids(plan) /\ res'[d] \in [DOMAIN res'[d] -> Results]
  <2>1. CASE d = c
    <3>1. PICK S : S = DOMAIN res[c] \cup {t}
      OBVIOUS
    <3>2. res'[c] \in [S -> Results] /\ DOMAIN res'[c] = S /\ S \subseteq Ids(plan)
      BY <3>1, TaskResults DEF Inv, Typed
    <3> QED BY <2>1, <3>2
  <2>2. CASE d # c
    BY <2>2, TaskResults DEF Inv, Typed
  <2> QED BY <2>1, <2>2
<1> QED BY <1>1, <1>2 DEF Inv, Typed

LEMMA TaskWorking ==
  ASSUME Inv, NEW c \in Calls, NEW t, NEW outcome, TaskDone(c, t, outcome)
  PROVE  Working'
<1>1. UNCHANGED <<plan, order, pc>> /\ pc[c] = "running" /\ \A d \in Calls : d # c => res'[d] = res[d]
  BY TaskResults DEF TaskDone
<1>2. PICK k : k = Cardinality(DOMAIN res[c]) + 1
  OBVIOUS
<1>3. k \in 0..Len(order[c]) /\ order[c] = Topological(plan) /\ DOMAIN res'[c] = Taken(order[c], k)
  <2>1. DOMAIN res'[c] = DOMAIN res[c] \cup {t}
    BY TaskResults
  <2> QED BY <1>2, <2>1, NextTask, Place DEF Inv, TaskDone
<1>4. ASSUME NEW d \in Calls
      PROVE  /\ pc[d] = "idle" => DOMAIN res'[d] = {}
             /\ pc[d] = "running" => \E j \in 0..Len(order[d]) : /\ order[d] = Topological(plan)
                                                                /\ DOMAIN res'[d] = Taken(order[d], j)
  <2>1. CASE d = c
    BY <1>1, <1>3, <2>1
  <2>2. CASE d # c
    BY <1>1, <2>2 DEF Inv, Working
  <2> QED BY <2>1, <2>2
<1> QED BY <1>1, <1>4 DEF Working

LEMMA TaskSkips ==
  ASSUME Inv, NEW c \in Calls, NEW t, NEW outcome, TaskDone(c, t, outcome)
  PROVE  SkippedBehindCycles'
<1>1. plan' = plan
  BY DEF TaskDone
<1>2. ASSUME NEW d \in Calls, NEW u \in Ids(plan), u \in DOMAIN res'[d]
      PROVE  res'[d][u] = "SKIPPED" <=> u \in Unorderable(plan)
  <2>1. CASE d # c
    <3>1. res'[d] = res[d]
      BY <2>1, TaskResults
    <3> QED BY <1>2, <3>1 DEF Inv, SkippedBehindCycles
  <2>2. CASE d = c /\ u # t
    <3>1. u \in DOMAIN res[c] /\ res'[c][u] = res[c][u]
      <4>1. DOMAIN res'[c] = DOMAIN res[c] \cup {t} /\ \A v \in DOMAIN res[c] : res'[c][v] = res[c][v]
        BY TaskResults
      <4> QED BY <1>2, <2>2, <4>1
    <3> QED BY <2>2, <3>1 DEF Inv, SkippedBehindCycles
  <2>3. CASE d = c /\ u = t
    <3>1. res'[c][t] = outcome /\ (outcome = "SKIPPED" <=> t \in Unorderable(plan))
      BY TaskResults
    <3> QED BY <2>3, <3>1
  <2> QED BY <2>1, <2>2, <2>3
<1> QED BY <1>1, <1>2 DEF SkippedBehindCycles

LEMMA TaskShapes ==
  ASSUME Inv, NEW c \in Calls, NEW t, NEW outcome, TaskDone(c, t, outcome)
  PROVE  Shapes'
<1>1. row' = row /\ pc[c] = "running"
  BY DEF TaskDone
<1>2. PICK r \in Runs : r = copy[c]
  BY TaskCopies
<1>3. PICK q \in Runs : q = copy'[c]
  BY TaskCopies
<1>4. PICK x \in Findings : x = Finding(c, t) /\ x.call = c /\ x.task = t
  BY TaskCopies, FindingIsNew
<1>5. Shaped(r)
  BY <1>2 DEF Inv, Shapes
<1>6. ASSUME Grown(r, q, x) PROVE Shaped(q)
  <2>1. Owned(c, r, res[c]) /\ t \notin DOMAIN res[c]
    BY <1>1, <1>2, TaskResults DEF Inv, Own
  <2>2. \A i \in DOMAIN r.findings : r.findings[i] # x
    BY <1>4, <2>1 DEF Owned
  <2>3. \A i, j \in DOMAIN r.findings : i < j /\ r.findings[i].call = x.call => r.findings[j].call = x.call
    BY <1>4, <2>1 DEF Owned
  <2> QED BY <1>5, <1>6, <2>2, <2>3, GrownIsShaped
<1>7. ASSUME Same(r, q) PROVE Shaped(q)
  BY <1>5, <1>7, SameIsShaped
<1>8. Grown(r, q, x) \/ Same(r, q)
  BY <1>2, <1>3, <1>4, TaskCopies
<1>9. \A d \in Calls : Shaped(copy'[d])
  <2>1. Shaped(q)
    BY <1>6, <1>7, <1>8
  <2>2. \A d \in Calls : d # c => copy'[d] = copy[d]
    BY TaskCopies
  <2> QED BY <1>3, <2>1, <2>2 DEF Inv, Shapes
<1> QED BY <1>1, <1>9 DEF Inv, Shapes

LEMMA TaskApart ==
  ASSUME Inv, NEW c \in Calls, NEW t, NEW outcome, TaskDone(c, t, outcome)
  PROVE  Apart'
<1>1. row' = row /\ pc' = pc
  BY DEF TaskDone
<1>2. Finding(c, t).call = c
  BY TaskCopies, FindingIsNew
<1>3. ASSUME NEW d \in Calls, pc[d] # "over", NEW e \in Calls \ {d}
      PROVE  NoneOf(d, copy'[e])
  <2>1. NoneOf(d, copy[e])
    BY <1>3 DEF Inv, Apart
  <2>2. CASE e # c
    BY <2>1, <2>2, TaskCopies
  <2>3. CASE e = c
    BY <1>2, <2>1, <2>3, TaskFindings DEF NoneOf
  <2> QED BY <2>2, <2>3
<1>4. \A d \in Calls : pc[d] # "over" => NoneOf(d, row)
  BY DEF Inv, Apart
<1> QED BY <1>1, <1>3, <1>4 DEF Apart

LEMMA TaskOwn ==
  ASSUME Inv, NEW c \in Calls, NEW t, NEW outcome, TaskDone(c, t, outcome)
  PROVE  Own'
<1>1. plan' = plan /\ pc' = pc /\ pc[c] = "running"
  BY DEF TaskDone
<1>2. PICK r \in Runs : r = copy[c]
  BY TaskCopies
<1>3. PICK q \in Runs : q = copy'[c]
  BY TaskCopies
<1>4. PICK x \in Findings : x = Finding(c, t) /\ x.call = c /\ x.task = t
  BY TaskCopies, FindingIsNew
<1>5. /\ \A i \in DOMAIN r.findings : i \in DOMAIN q.findings /\ q.findings[i] = r.findings[i]
      /\ \A i \in DOMAIN q.findings :
           i \in DOMAIN r.findings \/ (q.findings[i] = x /\ \A j \in DOMAIN q.findings : j <= i)
      /\ outcome = "COMPLETED" /\ plan.type[t] # "PRODUCE" => \E i \in DOMAIN q.findings : q.findings[i] = x
  BY <1>2, <1>3, <1>4, TaskFindings
<1>6. Owned(c, r, res[c]) /\ Found(plan, r, res[c])
  BY <1>1, <1>2 DEF Inv, Own
<1>7. DOMAIN q.findings \subseteq Nat
  BY RunFields
<1>8. Owned(c, q, res'[c])
  <2>1. ASSUME NEW i \in DOMAIN q.findings, NEW j \in DOMAIN q.findings, i < j, q.findings[i].call = c
        PROVE  q.findings[j].call = c
    <3>1. i \in DOMAIN r.findings
      BY <1>5, <1>7, <2>1
    <3>2. CASE j \in DOMAIN r.findings
      BY <1>5, <1>6, <2>1, <3>1, <3>2 DEF Owned
    <3>3. CASE j \notin DOMAIN r.findings
      BY <1>4, <1>5, <3>3
    <3> QED BY <3>2, <3>3
  <2>2. ASSUME NEW i \in DOMAIN q.findings, q.findings[i].call = c
        PROVE  q.findings[i].task \in DOMAIN res'[c]
    <3>1. DOMAIN res'[c] = DOMAIN res[c] \cup {t}
      BY TaskResults
    <3>2. CASE i \in DOMAIN r.findings
      BY <1>5, <1>6, <2>2, <3>1, <3>2 DEF Owned
    <3>3. CASE i \notin DOMAIN r.findings
      BY <1>4, <1>5, <3>1, <3>3
    <3> QED BY <3>2, <3>3
  <2> QED BY <2>1, <2>2 DEF Owned
<1>9. Found(plan, q, res'[c])
  <2> SUFFICES ASSUME NEW u \in DOMAIN res'[c], res'[c][u] = "COMPLETED", plan.type[u] # "PRODUCE"
               PROVE  \E i \in DOMAIN q.findings : q.findings[i].task = u
    BY DEF Found
  <2>1. CASE u = t
    <3>1. res'[c][t] = outcome
      BY TaskResults
    <3>2. outcome = "COMPLETED" /\ plan.type[t] # "PRODUCE"
      BY <2>1, <3>1
    <3> QED BY <1>4, <1>5, <2>1, <3>2
  <2>2. CASE u # t
    <3>1. u \in DOMAIN res[c] /\ res[c][u] = "COMPLETED"
      <4>1. DOMAIN res'[c] = DOMAIN res[c] \cup {t} /\ \A v \in DOMAIN res[c] : res'[c][v] = res[c][v]
        BY TaskResults
      <4> QED BY <2>2, <4>1
    <3>2. PICK i \in DOMAIN r.findings : r.findings[i].task = u
      BY <1>6, <3>1 DEF Found
    <3> QED BY <1>5, <3>2
  <2> QED BY <2>1, <2>2
<1>10. ASSUME NEW d \in Calls, pc[d] # "over"
       PROVE  Owned(d, copy'[d], res'[d]) /\ Found(plan, copy'[d], res'[d])
  <2>1. CASE d = c
    BY <1>3, <1>8, <1>9, <2>1
  <2>2. CASE d # c
    <3>1. copy'[d] = copy[d] /\ res'[d] = res[d]
      BY <2>2, TaskCopies, TaskResults
    <3> QED BY <1>10, <3>1 DEF Inv, Own
  <2> QED BY <2>1, <2>2
<1> QED BY <1>1, <1>10 DEF Own

(* The last task of a planned execution is its report, and nothing keeps it back. *)
LEMMA TaskReported ==
  ASSUME Inv, NEW c \in Calls, NEW t, NEW outcome, TaskDone(c, t, outcome)
  PROVE  Reported'
<1>1. plan' = plan /\ pc' = pc /\ pc[c] = "running"
  BY DEF TaskDone
<1>2. ASSUME Planned, DOMAIN res'[c] = Ids(plan)
      PROVE  copy'[c].report = Listed(copy'[c].findings)
  <2>1. PICK k : k = Cardinality(DOMAIN res[c])
    OBVIOUS
  <2>2. PICK T : T = order[c]
    OBVIOUS
  <2>3. T = Topological(plan) /\ IsPlan(plan) /\ k \in 0..Len(T) /\ k < Len(T) /\ t = T[k + 1]
    BY <1>1, <2>1, <2>2, Place DEF Inv, TaskDone
  <2>4. DOMAIN res'[c] = Taken(T, k + 1) /\ k + 1 \in 0..Len(T)
    <3>1. DOMAIN res'[c] = DOMAIN res[c] \cup {t}
      BY TaskResults
    <3>2. DOMAIN res[c] \cup {t} = Taken(T, k + 1) /\ k + 1 \in 0..Len(T)
      BY <2>1, <2>2, NextTask DEF Inv, TaskDone
    <3> QED BY <3>1, <3>2
  <2>5. k + 1 = Len(T)
    BY <1>2, <2>3, <2>4, OrderTaken
  <2>6. plan.type[t] = "PRODUCE" /\ Unorderable(plan) = {}
    BY <1>2, <2>3, <2>5, ReportIsLast
  <2>7. ~Blocked(res[c], t)
    BY <2>6, NextTask DEF Inv, TaskDone
  <2>8. outcome = "COMPLETED"
    BY <2>6, <2>7 DEF TaskDone, Outcomes, ToolTypes
  <2> QED BY <2>6, <2>8, TaskCopies
<1>3. ASSUME NEW d \in Calls, Planned, pc[d] = "running", DOMAIN res'[d] = Ids(plan)
      PROVE  copy'[d].report = Listed(copy'[d].findings)
  <2>1. CASE d = c
    BY <1>2, <1>3, <2>1
  <2>2. CASE d # c
    <3>1. copy'[d] = copy[d] /\ res'[d] = res[d]
      BY <2>2, TaskCopies, TaskResults
    <3> QED BY <1>3, <3>1 DEF Inv, Reported
  <2> QED BY <2>1, <2>2
<1> QED BY <1>1, <1>3 DEF Reported, Planned

LEMMA TaskInv ==
  ASSUME Inv, NEW c \in Calls, Task(c)
  PROVE  Inv'
<1>1. PICK t, outcome : TaskDone(c, t, outcome)
  BY TaskIsDone
<1>2. Stored(row)'
  <2>1. row' = row /\ plan' = plan
    BY <1>1 DEF TaskDone
  <2> QED BY <2>1 DEF Inv, Stored, Planned
<1>3. Typed' /\ Working' /\ SkippedBehindCycles' /\ Shapes'
  BY <1>1, TaskTyped, TaskWorking, TaskSkips, TaskShapes
<1>4. Apart' /\ Own' /\ Reported'
  BY <1>1, TaskApart, TaskOwn, TaskReported
<1> QED BY <1>2, <1>3, <1>4 DEF Inv

-----------------------------------------------------------------------------
(* The other steps keep it.                                                 *)

LEMMA InitInv ==
  ASSUME Init
  PROVE  Inv
<1>1. <<>> \in Seq(Findings) /\ <<>> \in Seq(Nat) /\ Len(<<>>) = 0 /\ DOMAIN <<>> = {}
  OBVIOUS
<1>2. NoRow \in Runs /\ NoRow.findings = <<>> /\ NoRow.report = <<>> /\ NoRow.status = "NONE"
  BY <1>1 DEF NoRow, Run, Runs
<1>3. IsPrefix(<<>>, <<>>)
  BY DEF IsPrefix
<1>4. Shaped(NoRow) /\ \A c \in Calls : NoneOf(c, NoRow)
  BY <1>1, <1>2, <1>3 DEF Shaped, IsInjective, Grouped, NoneOf
<1>5. /\ plan \in Plans /\ row = NoRow /\ copy = [c \in Calls |-> NoRow] /\ order = [c \in Calls |-> <<>>]
      /\ res = [c \in Calls |-> <<>>] /\ pc = [c \in Calls |-> "idle"]
  BY DEF Init
<1>6. \A c \in Calls : DOMAIN res[c] = {} /\ pc[c] = "idle" /\ copy[c] = NoRow
  BY <1>1, <1>5
<1>7. Typed
  <2>1. order \in [Calls -> Seq(Nat)] /\ copy \in [Calls -> Runs]
    BY <1>1, <1>2, <1>5
  <2>2. pc \in [Calls -> {"idle", "running", "over", "lost"}]
    BY <1>5
  <2>3. ASSUME NEW c \in Calls PROVE DOMAIN res[c] \subseteq Ids(plan) /\ res[c] \in [DOMAIN res[c] -> Results]
    <3>1. res[c] = <<>>
      BY <1>5
    <3>2. <<>> \in [{} -> Results]
      OBVIOUS
    <3> QED BY <1>6, <3>1, <3>2
  <2>4. res = [c \in Calls |-> res[c]]
    BY <1>5
  <2> QED BY <1>2, <1>5, <2>1, <2>2, <2>3, <2>4 DEF Typed
<1>8. Working /\ SkippedBehindCycles /\ Reported
  BY <1>6 DEF Working, SkippedBehindCycles, Reported
<1>9. Shapes /\ Apart
  BY <1>4, <1>5, <1>6 DEF Shapes, Apart
<1>10. Own
  BY <1>1, <1>2, <1>6 DEF Own, Owned, Found
<1>11. Stored(row)
  BY <1>2, <1>5 DEF Stored
<1> QED BY <1>7, <1>8, <1>9, <1>10, <1>11 DEF Inv

LEMMA CreateInv ==
  ASSUME Inv, Create
  PROVE  Inv'
<1>1. /\ row' = Run("PLANNED", <<>>, <<>>) /\ UNCHANGED <<plan, copy, order, res, pc>>
  BY DEF Create
<1>2. <<>> \in Seq(Findings) /\ DOMAIN <<>> = {} /\ Len(<<>>) = 0
  OBVIOUS
<1>3. row' \in Runs /\ row'.findings = <<>> /\ row'.report = <<>> /\ row'.status = "PLANNED"
  BY <1>1, <1>2 DEF Run, Runs
<1>4. PICK q \in Runs : q = row' /\ q.findings = <<>> /\ q.report = <<>> /\ q.status = "PLANNED"
  BY <1>3
<1>5. IsPrefix(<<>>, <<>>)
  BY DEF IsPrefix
<1>6. Shaped(q) /\ Stored(q) /\ \A c \in Calls : NoneOf(c, q)
  BY <1>2, <1>4, <1>5 DEF Shaped, IsInjective, Grouped, NoneOf, Stored
<1>7. Typed'
  BY <1>1, <1>4 DEF Inv, Typed
<1>8. Working' /\ SkippedBehindCycles'
  BY <1>1 DEF Inv, Working, SkippedBehindCycles
<1>9. Own' /\ Reported'
  BY <1>1 DEF Inv, Own, Reported, Planned
<1>10. Shapes' /\ Apart'
  BY <1>1, <1>4, <1>6 DEF Inv, Shapes, Apart
<1>11. Stored(row)'
  BY <1>1, <1>4, <1>6 DEF Stored, Planned
<1> QED BY <1>7, <1>8, <1>9, <1>10, <1>11 DEF Inv

LEMMA StartInv ==
  ASSUME Inv, NEW c \in Calls, Start(c)
  PROVE  Inv'
<1>1. PICK q : q = [row EXCEPT !.status = "RUNNING"]
  OBVIOUS
<1>2. /\ pc[c] = "idle" /\ copy' = [copy EXCEPT ![c] = q] /\ order' = [order EXCEPT ![c] = Topological(plan)]
      /\ pc' = [pc EXCEPT ![c] = "running"] /\ UNCHANGED <<plan, row, res>>
  BY <1>1 DEF Start
<1>3. q \in Runs /\ q.findings = row.findings /\ q.report = row.report
  BY <1>1, RunWithStatus DEF Inv, Typed
<1>4. IsPlan(plan)
  BY PlanIsPlan DEF Inv, Typed
<1>5. PICK T \in Seq(Nat) : T = Topological(plan)
  <2>1. Topological(plan) \in Seq(Ids(plan)) /\ Ids(plan) \in SUBSET Nat
    BY <1>4, TopologicalOrders, PlanIds
  <2> QED BY <2>1
<1>6. /\ copy'[c] = q /\ order'[c] = T /\ pc'[c] = "running"
      /\ \A d \in Calls : d # c => copy'[d] = copy[d] /\ order'[d] = order[d] /\ pc'[d] = pc[d]
  BY <1>2, <1>5 DEF Inv, Typed
<1>7. Typed'
  <2>1. copy' \in [Calls -> Runs]
    BY <1>2, <1>3 DEF Inv, Typed
  <2>2. order' \in [Calls -> Seq(Nat)]
    BY <1>2, <1>5 DEF Inv, Typed
  <2>3. pc' \in [Calls -> {"idle", "running", "over", "lost"}]
    BY <1>2 DEF Inv, Typed
  <2> QED BY <1>2, <2>1, <2>2, <2>3 DEF Inv, Typed
<1>8. DOMAIN res[c] = {}
  BY <1>2 DEF Inv, Working
<1>9. Working'
  <2>1. DOMAIN res[c] = Taken(T, 0) /\ 0 \in 0..Len(T)
    BY <1>8 DEF Taken
  <2>2. ASSUME NEW d \in Calls
        PROVE  /\ pc'[d] = "idle" => DOMAIN res[d] = {}
               /\ pc'[d] = "running" => \E k \in 0..Len(order'[d]) : /\ order'[d] = Topological(plan)
                                                                     /\ DOMAIN res[d] = Taken(order'[d], k)
    <3>1. CASE d = c
      BY <1>5, <1>6, <2>1, <3>1
    <3>2. CASE d # c
      BY <1>6, <3>2 DEF Inv, Working
    <3> QED BY <3>1, <3>2
  <2> QED BY <1>2, <2>2 DEF Working
<1>10. SkippedBehindCycles'
  BY <1>2 DEF Inv, SkippedBehindCycles
<1>11. Shaped(q)
  BY <1>3 DEF Inv, Shapes, Shaped
<1>12. Shapes'
  BY <1>2, <1>6, <1>11 DEF Inv, Shapes
<1>13. \A d \in Calls : pc'[d] # "over" => pc[d] # "over"
  BY <1>2, <1>6
<1>14. ASSUME NEW d \in Calls, pc[d] # "over" PROVE NoneOf(d, row) /\ NoneOf(d, q)
  BY <1>3, <1>14 DEF Inv, Apart, NoneOf
<1>15. Apart'
  <2>1. ASSUME NEW d \in Calls, pc'[d] # "over", NEW e \in Calls \ {d} PROVE NoneOf(d, copy'[e])
    BY <1>6, <1>13, <1>14, <2>1 DEF Inv, Apart
  <2> QED BY <1>2, <1>13, <1>14, <2>1 DEF Apart
<1>16. Own'
  <2>1. Owned(c, q, res[c])
    BY <1>2, <1>14 DEF NoneOf, Owned
  <2>2. Found(plan, q, res[c])
    BY <1>8 DEF Found
  <2>3. ASSUME NEW d \in Calls, pc'[d] # "over"
        PROVE  Owned(d, copy'[d], res[d]) /\ Found(plan, copy'[d], res[d])
    BY <1>6, <1>13, <2>1, <2>2, <2>3 DEF Inv, Own
  <2> QED BY <1>2, <2>3 DEF Own
<1>17. Reported'
  <2>1. Planned => DOMAIN res[c] # Ids(plan)
    <3>1. ASSUME Planned PROVE Ids(plan) # {}
      <4>1. PICK n \in Nat : n = Len(T) /\ n >= 1
        BY <1>5, <3>1, ReportIsLast
      <4>2. T[1] \in Ids(plan)
        BY <1>4, <1>5, <4>1, TopologicalOrders
      <4> QED BY <4>2
    <3> QED BY <1>8, <3>1
  <2>2. ASSUME NEW d \in Calls, Planned, pc'[d] = "running", DOMAIN res[d] = Ids(plan)
        PROVE  copy'[d].report = Listed(copy'[d].findings)
    BY <1>6, <2>1, <2>2 DEF Inv, Reported
  <2> QED BY <1>2, <2>2 DEF Reported, Planned
<1>18. Stored(row)'
  BY <1>2 DEF Inv, Stored, Planned
<1> QED BY <1>7, <1>9, <1>10, <1>12, <1>15, <1>16, <1>17, <1>18 DEF Inv

LEMMA SaveInv ==
  ASSUME Inv, NEW c \in Calls, Save(c)
  PROVE  Inv'
<1>1. PICK status : status = Verdict(res[c])
  OBVIOUS
<1>2. /\ pc[c] = "running" /\ Cardinality(DOMAIN res[c]) = Len(order[c])
      /\ row' = [copy[c] EXCEPT !.status = status]
      /\ pc' = [pc EXCEPT ![c] = "over"] /\ UNCHANGED <<plan, copy, order, res>>
  BY <1>1 DEF Save
<1>3. status \in {"COMPLETED", "FAILED"}
  BY <1>1 DEF Verdict
<1>4. PICK q : q = row'
  OBVIOUS
<1>5. copy[c] \in Runs /\ q = [copy[c] EXCEPT !.status = status]
  BY <1>2, <1>4 DEF Inv, Typed
<1>6. q \in Runs /\ q.status = status /\ q.findings = copy[c].findings /\ q.report = copy[c].report
  BY <1>3, <1>5, RunWithStatus
<1>7. pc'[c] = "over" /\ \A d \in Calls : d # c => pc'[d] = pc[d]
  BY <1>2 DEF Inv, Typed
<1>8. Typed'
  <2>1. pc' \in [Calls -> {"idle", "running", "over", "lost"}]
    BY <1>2 DEF Inv, Typed
  <2> QED BY <1>2, <1>4, <1>6, <2>1 DEF Inv, Typed
<1>9. Working'
  BY <1>2, <1>7 DEF Inv, Working
<1>10. SkippedBehindCycles'
  BY <1>2 DEF Inv, SkippedBehindCycles
<1>11. Shapes'
  <2>1. Shaped(q)
    BY <1>6 DEF Inv, Shapes, Shaped
  <2> QED BY <1>2, <1>4, <2>1 DEF Inv, Shapes
<1>12. Apart'
  <2>1. ASSUME NEW d \in Calls, pc'[d] # "over"
        PROVE  NoneOf(d, q) /\ \A e \in Calls \ {d} : NoneOf(d, copy[e])
    <3>1. d # c /\ pc[d] # "over"
      BY <1>7, <2>1
    <3>2. \A e \in Calls \ {d} : NoneOf(d, copy[e])
      BY <3>1 DEF Inv, Apart
    <3>3. NoneOf(d, q)
      BY <1>6, <3>1, <3>2 DEF NoneOf
    <3> QED BY <3>2, <3>3
  <2> QED BY <1>2, <1>4, <2>1 DEF Apart
<1>13. Own'
  BY <1>2, <1>7 DEF Inv, Own
<1>14. Reported'
  BY <1>2, <1>7 DEF Inv, Reported, Planned
<1>15. DOMAIN res[c] = Ids(plan)
  BY <1>2, Place, OrderTaken DEF Inv
<1>16. Stored(q)
  <2>1. ASSUME Planned PROVE q.report = Listed(q.findings)
    BY <1>2, <1>6, <1>15, <2>1 DEF Inv, Reported
  <2>2. ASSUME q.status = "COMPLETED"
        PROVE  \E i \in DOMAIN q.findings : plan.type[q.findings[i].task] \in ToolTypes
    <3>1. Succeeded(res[c], ToolTypes) # {}
      BY <1>1, <1>6, <2>2 DEF Verdict
    <3>2. PICK t \in Ids(plan) : plan.type[t] \in ToolTypes /\ res[c][t] = "COMPLETED"
      BY <3>1 DEF Succeeded
    <3>3. plan.type[t] # "PRODUCE" /\ t \in DOMAIN res[c]
      BY <1>15, <3>2 DEF ToolTypes
    <3>4. Found(plan, copy[c], res[c])
      BY <1>2 DEF Inv, Own
    <3>5. PICK i \in DOMAIN copy[c].findings : copy[c].findings[i].task = t
      BY <3>2, <3>3, <3>4 DEF Found
    <3> QED BY <1>6, <3>2, <3>5
  <2> QED BY <2>1, <2>2 DEF Stored
<1>17. Stored(row)'
  BY <1>2, <1>4, <1>16 DEF Stored, Planned
<1> QED BY <1>8, <1>9, <1>10, <1>11, <1>12, <1>13, <1>14, <1>17 DEF Inv

LEMMA RestartInv ==
  ASSUME Inv, Restart
  PROVE  Inv'
<1>1. /\ pc' = [c \in Calls |-> IF pc[c] = "running" THEN "lost" ELSE pc[c]]
      /\ UNCHANGED <<plan, row, copy, order, res>>
  BY DEF Restart
<1>2. \A c \in Calls : pc'[c] = IF pc[c] = "running" THEN "lost" ELSE pc[c]
  BY <1>1
<1>3. Typed'
  <2>1. pc' \in [Calls -> {"idle", "running", "over", "lost"}]
    BY <1>1 DEF Inv, Typed
  <2> QED BY <1>1, <2>1 DEF Inv, Typed
<1>4. Working' /\ SkippedBehindCycles'
  BY <1>1, <1>2 DEF Inv, Working, SkippedBehindCycles
<1>5. Shapes' /\ Stored(row)'
  BY <1>1 DEF Inv, Shapes, Stored, Planned
<1>6. Apart'
  BY <1>1, <1>2 DEF Inv, Apart
<1>7. Own' /\ Reported'
  BY <1>1, <1>2 DEF Inv, Own, Reported, Planned
<1> QED BY <1>3, <1>4, <1>5, <1>6, <1>7 DEF Inv

LEMMA StutterInv ==
  ASSUME Inv, UNCHANGED vars
  PROVE  Inv'
<1>1. UNCHANGED <<plan, row, copy, order, res, pc>>
  BY DEF vars
<1>2. Typed' /\ Working' /\ SkippedBehindCycles'
  BY <1>1 DEF Inv, Typed, Working, SkippedBehindCycles
<1>3. Shapes' /\ Stored(row)' /\ Apart'
  BY <1>1 DEF Inv, Shapes, Stored, Planned, Apart
<1>4. Own' /\ Reported'
  BY <1>1 DEF Inv, Own, Reported, Planned
<1> QED BY <1>2, <1>3, <1>4 DEF Inv

LEMMA NextInv ==
  ASSUME Inv, [Next]_vars
  PROVE  Inv'
<1> DEFINE Keeps == Inv'
<1>1. CASE Create
  BY <1>1, CreateInv
<1>2. CASE Restart
  BY <1>2, RestartInv
<1>3. CASE \E c \in Calls : Start(c)
  BY <1>3, StartInv
<1>4. CASE \E c \in Calls : Task(c)
  BY <1>4, TaskInv
<1>5. CASE \E c \in Calls : Save(c)
  BY <1>5, SaveInv
<1>6. CASE UNCHANGED vars
  BY <1>6, StutterInv
<1> HIDE DEF Keeps
<1> QED BY <1>1, <1>2, <1>3, <1>4, <1>5, <1>6 DEF Next

-----------------------------------------------------------------------------
(* The theorems.                                                            *)

(* The invariant holds of every behaviour of the agent. *)
THEOREM Invariance == Spec => []Inv
<1>1. Init => Inv
  BY InitInv
<1>2. Inv /\ [Next]_vars => Inv'
  BY NextInv
<1> QED BY <1>1, <1>2, PTL DEF Spec

(* Kahn's algorithm lists every task of a plan once, whatever its graph, and lists a
   task that is not on or behind a cycle or an unknown dependency behind all its
   dependencies. *)
THEOREM OrderIsTopological ==
  \A p \in Plans :
    /\ IsInjective(Topological(p)) /\ ToSet(Topological(p)) = Ids(p)
    /\ \A j \in DOMAIN Topological(p) : Topological(p)[j] \notin Unorderable(p) =>
         \A d \in p.deps[Topological(p)[j]] : \E i \in 1..(j - 1) : Topological(p)[i] = d
<1> SUFFICES ASSUME NEW p \in Plans
             PROVE  /\ IsInjective(Topological(p)) /\ ToSet(Topological(p)) = Ids(p)
                    /\ \A j \in DOMAIN Topological(p) : Topological(p)[j] \notin Unorderable(p) =>
                         \A d \in p.deps[Topological(p)[j]] : \E i \in 1..(j - 1) : Topological(p)[i] = d
  OBVIOUS
<1>1. IsPlan(p)
  BY PlansAssumption DEF IsPlan
<1> QED BY <1>1, TopologicalOrders

(* Exactly the tasks on or behind a cycle or an unknown dependency are skipped. *)
THEOREM SkipsAreUnorderable == Spec => []SkippedBehindCycles
<1>1. Inv => SkippedBehindCycles
  BY DEF Inv
<1> QED BY <1>1, Invariance, PTL

(* The stored run is one execution's work: executions are kept apart, the report is the
   head of the findings, and COMPLETED stands on a finding of a tool. *)
THEOREM RunsAreOneExecutionsWork == Spec => []RunIsOneExecutionsWork
<1>1. ASSUME Inv PROVE RunIsOneExecutionsWork
  <2>1. Shaped(row) /\ Stored(row)
    BY <1>1 DEF Inv, Shapes
  <2>2. /\ \A i, j, k \in DOMAIN row.findings : i < j /\ j < k /\ row.findings[i].call = row.findings[k].call
             => row.findings[j].call = row.findings[i].call
        /\ IsInjective(row.findings) /\ IsPrefix(row.report, row.findings)
    BY <2>1 DEF Shaped, Grouped
  <2> QED BY <2>1, <2>2 DEF Stored, RunIsOneExecutionsWork
<1>2. Inv => RunIsOneExecutionsWork
  BY <1>1
<1> QED BY <1>2, Invariance, PTL
=============================================================================
