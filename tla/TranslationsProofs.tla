------------------------- MODULE TranslationsProofs -------------------------
(***************************************************************************)
(* The translation semaphore and the document, for every number of         *)
(* requests, imports, blocks, workers and permits; then the reader over    *)
(* that document.                                                          *)
(***************************************************************************)
EXTENDS Translations, FiniteSetTheorems, FunctionTheorems, SequenceTheorems,
        TLAPS

(* Where every writer is, and what the semaphore says of it. *)
SemaphoreInv ==
  /\ pc \in [Writers -> PC]
  /\ permits \in Nat
  /\ PermitsMatchHolders

(* Holders are counted: there are finitely many requests. *)
LEMMA HoldersFinite == IsFiniteSet(Holders) /\ Cardinality(Holders) \in Nat
<1>1. Holders \in SUBSET Requests
  BY DEF Holders
<1> QED BY <1>1, WriterAssumption, FS_Subset, FS_CardinalityType

(* A writer that moves without crossing the bounds of the with-block. *)
LEMMA OutsideStep ==
  ASSUME SemaphoreInv, NEW w \in Writers, NEW how \in PC,
         pc' = [pc EXCEPT ![w] = how], permits' = permits,
         w \in Requests => (pc[w] \in {"translating", "unwinding"}
                              <=> how \in {"translating", "unwinding"})
  PROVE  SemaphoreInv'
<1>1. pc' \in [Writers -> PC]
  BY DEF SemaphoreInv
<1>2. Holders' = Holders
  BY DEF SemaphoreInv, Holders, Writers
<1> QED BY <1>1, <1>2 DEF SemaphoreInv, PermitsMatchHolders

(* A request that takes a permit becomes a holder. *)
LEMMA EnterStep ==
  ASSUME SemaphoreInv, NEW r \in Requests, pc[r] \notin {"translating", "unwinding"},
         permits > 0, permits' = permits - 1, pc' = [pc EXCEPT ![r] = "translating"]
  PROVE  SemaphoreInv'
<1>1. pc' \in [Writers -> PC] /\ permits' \in Nat
  <2>1. "translating" \in PC
    BY DEF PC
  <2>2. pc' \in [Writers -> PC]
    BY <2>1 DEF SemaphoreInv
  <2> QED BY <2>2 DEF SemaphoreInv
<1>2. Holders' = Holders \cup {r} /\ r \notin Holders
  BY DEF SemaphoreInv, Holders, Writers
<1>3. Cardinality(Holders') = Cardinality(Holders) + 1
  BY <1>2, HoldersFinite, FS_AddElement
<1>4. Permits \in Nat
  BY SizeAssumption
<1>5. permits' + Cardinality(Holders') = Permits
  BY <1>3, <1>4, HoldersFinite DEF SemaphoreInv, PermitsMatchHolders
<1> QED BY <1>1, <1>5 DEF SemaphoreInv, PermitsMatchHolders

(* A request that gives its permit back is no longer a holder. *)
LEMMA LeaveStep ==
  ASSUME SemaphoreInv, NEW r \in Requests, pc[r] \in {"translating", "unwinding"},
         NEW how \in PC \ {"translating", "unwinding"},
         permits' = permits + 1, pc' = [pc EXCEPT ![r] = how]
  PROVE  SemaphoreInv'
<1>1. pc' \in [Writers -> PC] /\ permits' \in Nat
  <2>1. pc' \in [Writers -> PC]
    BY DEF SemaphoreInv
  <2> QED BY <2>1 DEF SemaphoreInv
<1>2. Holders' = Holders \ {r} /\ r \in Holders
  BY DEF SemaphoreInv, Holders, Writers
<1>3. Cardinality(Holders') = Cardinality(Holders) - 1
  BY <1>2, HoldersFinite, FS_RemoveElement
<1>4. Permits \in Nat
  BY SizeAssumption
<1>5. permits' + Cardinality(Holders') = Permits
  BY <1>3, <1>4, HoldersFinite DEF SemaphoreInv, PermitsMatchHolders
<1> QED BY <1>1, <1>5 DEF SemaphoreInv, PermitsMatchHolders

(* All writers start idle and all permits are there. *)
LEMMA InitSemaphore == Init => SemaphoreInv
<1> SUFFICES ASSUME Init PROVE SemaphoreInv
  OBVIOUS
<1>1. Holders = {}
  BY DEF Init, Holders, Writers
<1>2. Permits \in Nat
  BY SizeAssumption
<1> QED BY <1>1, <1>2, FS_EmptySet DEF Init, SemaphoreInv, PermitsMatchHolders, PC

(* The steps of a request outside its pool. *)
LEMMA RequestStep ==
  ASSUME SemaphoreInv, NEW r \in Requests, Request(r)
  PROVE  SemaphoreInv'
<1>1. r \in Writers
  BY DEF Writers
<1>2. CASE Ask(r)
  <2>1. permits' = permits /\ pc[r] = "idle"
    BY <1>2 DEF Ask
  <2>2. PICK how \in {"returned", "preparing"} : pc' = [pc EXCEPT ![r] = how]
    BY <1>2 DEF Ask, End
  <2> QED BY <1>1, <2>1, <2>2, OutsideStep DEF PC
<1>3. CASE Prepare(r)
  <2>1. permits' = permits /\ pc[r] = "preparing"
    BY <1>3 DEF Prepare
  <2>2. PICK how \in {"waiting", "failed"} : pc' = [pc EXCEPT ![r] = how]
    BY <1>3 DEF Prepare, End
  <2> QED BY <1>1, <2>1, <2>2, OutsideStep DEF PC
<1>4. CASE Acquire(r)
  BY <1>4, EnterStep DEF Acquire
<1>5. CASE Merge(r)
  <2>1. permits' = permits /\ pc[r] = "merging" /\ pc' = [pc EXCEPT ![r] = "returned"]
    BY <1>5 DEF Merge, End
  <2> QED BY <1>1, <2>1, OutsideStep DEF PC
<1>6. CASE RepairRaises(r)
  <2>1. permits' = permits /\ pc[r] = "merging" /\ pc' = [pc EXCEPT ![r] = "failed"]
    BY <1>6 DEF RepairRaises, End
  <2> QED BY <1>1, <2>1, OutsideStep DEF PC
<1> QED BY <1>2, <1>3, <1>4, <1>5, <1>6 DEF Request

(* An import never touches the semaphore. *)
LEMMA ImportStep ==
  ASSUME SemaphoreInv, NEW j \in Jobs, Import(j)
  PROVE  SemaphoreInv'
<1>1. j \in Writers /\ j \notin Requests
  BY WriterAssumption DEF Writers
<1>2. CASE Begin(j)
  <2>1. permits' = permits
    BY <1>2 DEF Begin
  <2>2. PICK how \in {"translating", "returned", "failed"} : pc' = [pc EXCEPT ![j] = how]
    BY <1>2 DEF Begin, End
  <2> QED BY <1>1, <2>1, <2>2, OutsideStep DEF PC
<1>3. CASE AppendUnits(j)
  <2>1. permits' = permits /\ pc' = [pc EXCEPT ![j] = "returned"]
    BY <1>3 DEF AppendUnits, End
  <2> QED BY <1>1, <2>1, OutsideStep DEF PC
<1> QED BY <1>2, <1>3 DEF Import

(* The pool: only its two ways out give a permit back, and only a request's. *)
LEMMA PoolStep ==
  ASSUME SemaphoreInv, NEW w \in Writers, Pool(w)
  PROVE  SemaphoreInv'
<1>1. CASE StartBatch(w) \/ EndBatch(w) \/ Collect(w)
  <2>1. pc' = pc /\ permits' = permits
    BY <1>1 DEF StartBatch, EndBatch, Collect
  <2> QED BY <2>1 DEF SemaphoreInv, PermitsMatchHolders, Holders
<1>2. CASE CollectRaises(w)
  <2>1. permits' = permits /\ pc[w] = "translating" /\ pc' = [pc EXCEPT ![w] = "unwinding"]
    BY <1>2 DEF CollectRaises
  <2> QED BY <2>1, OutsideStep DEF PC
<1>3. CASE Unwind(w)
  <2>1. /\ pc[w] = "unwinding" /\ pc' = [pc EXCEPT ![w] = "failed"]
        /\ permits' = IF w \in Requests THEN permits + 1 ELSE permits
    BY <1>3 DEF Unwind, End
  <2>2. CASE w \in Requests
    BY <2>1, <2>2, LeaveStep DEF PC
  <2>3. CASE w \notin Requests
    BY <2>1, <2>3, OutsideStep DEF PC
  <2> QED BY <2>2, <2>3
<1>4. CASE Collected(w)
  <2>1. /\ pc[w] = "translating" /\ pc' = [pc EXCEPT ![w] = "merging"]
        /\ permits' = IF w \in Requests THEN permits + 1 ELSE permits
    BY <1>4 DEF Collected
  <2>2. CASE w \in Requests
    BY <2>1, <2>2, LeaveStep DEF PC
  <2>3. CASE w \notin Requests
    BY <2>1, <2>3, OutsideStep DEF PC
  <2> QED BY <2>2, <2>3
<1> QED BY <1>1, <1>2, <1>3, <1>4 DEF Pool

LEMMA SemaphoreInductive == SemaphoreInv /\ [Next]_vars => SemaphoreInv'
<1> SUFFICES ASSUME SemaphoreInv, [Next]_vars PROVE SemaphoreInv'
  OBVIOUS
<1>1. CASE \E r \in Requests : Request(r)
  BY <1>1, RequestStep
<1>2. CASE \E j \in Jobs : Import(j)
  BY <1>2, ImportStep
<1>3. CASE \E w \in Writers : Pool(w)
  BY <1>3, PoolStep
<1>4. CASE UNCHANGED vars
  BY <1>4 DEF vars, SemaphoreInv, PermitsMatchHolders, Holders
<1> QED BY <1>1, <1>2, <1>3, <1>4 DEF Next

(* No exception, repair or early end leaks or duplicates a permit. *)
THEOREM SemaphoreSound == Spec => []PermitsMatchHolders
<1>1. SemaphoreInv => PermitsMatchHolders
  BY DEF SemaphoreInv
<1> QED BY <1>1, InitSemaphore, SemaphoreInductive, PTL DEF Spec

(* At most Permits requests are inside their with-block at a time. *)
THEOREM HoldersBounded == Spec => [](Cardinality(Holders) <= Permits)
<1>1. SemaphoreInv => Cardinality(Holders) <= Permits
  <2> SUFFICES ASSUME SemaphoreInv PROVE Cardinality(Holders) <= Permits
    OBVIOUS
  <2> QED BY HoldersFinite, SizeAssumption DEF SemaphoreInv, PermitsMatchHolders
<1> QED BY <1>1, InitSemaphore, SemaphoreInductive, PTL DEF Spec

-----------------------------------------------------------------------------
(* What writers hold, and what the document can hold of a block.            *)

(* An import adds a unit to the ones of its first blocks when it returns. *)
Imports(b) == {j \in Jobs : pc[j] = "returned" /\ b <= FirstBlocks}
Most(b) == 1 + Cardinality(Imports(b))
Sparse(list) == \A b \in Blocks : Cardinality(UnitsOf(list, b)) <= Most(b)
Single(list) == \A b \in Blocks : Cardinality(UnitsOf(list, b)) <= 1

Typed ==
  /\ units \in Seq(Units)
  /\ pc \in [Writers -> PC]
  /\ rebuild \in [Writers -> BOOLEAN]
  /\ snapshot \in [Writers -> Seq(Units)]
  /\ pending \in [Writers -> SUBSET Blocks]
  /\ batch = [w \in Writers |-> batch[w]]
  /\ \A w \in Writers : batch[w] \in [Batches(pending[w]) -> BatchState]
  /\ fresh \in [Writers -> Seq(Units)]

(* The blocks of the batches a writer has collected. *)
CollectedBlocks(w) ==
  {b \in pending[w] : batch[w][Position(pending[w], b)] = "collected"}

(* A writer holds one unit for each block it has collected, read a document
   that was as sparse as it is now, and runs batches only inside its pool. *)
Holding(w) ==
  /\ Covered(fresh[w]) = CollectedBlocks(w)
  /\ Single(fresh[w])
  /\ Sparse(snapshot[w])
  /\ pc[w] = "merging" => \A k \in DOMAIN batch[w] : batch[w][k] = "collected"
  /\ Cardinality(Running(w)) <= Workers
  /\ pc[w] \notin {"translating", "unwinding"} => Running(w) = {}
  /\ pc[w] = "idle" => pending[w] = {}
  /\ w \in Jobs => pending[w] \subseteq 1..FirstBlocks /\ rebuild[w] = FALSE

DocumentInv ==
  /\ Typed
  /\ Sparse(units)
  /\ \A w \in Writers : Holding(w)

-----------------------------------------------------------------------------
(* InOrder lists a finite set of numbers, each once.                        *)

LEMMA RankBound ==
  ASSUME NEW S \in SUBSET Nat, IsFiniteSet(S), NEW b \in S
  PROVE  Rank(S, b) \in Nat /\ Rank(S, b) < Cardinality(S)
<1>1. {m \in S : m < b} \in SUBSET (S \ {b})
  OBVIOUS
<1>2. IsFiniteSet(S \ {b}) /\ Cardinality(S \ {b}) = Cardinality(S) - 1
  BY FS_RemoveElement
<1>3. Rank(S, b) \in Nat /\ Rank(S, b) <= Cardinality(S) - 1
  BY <1>1, <1>2, FS_Subset, FS_CardinalityType DEF Rank
<1>4. Cardinality(S) \in Nat
  BY FS_CardinalityType
<1> QED BY <1>3, <1>4

LEMMA RankMonotone ==
  ASSUME NEW S \in SUBSET Nat, IsFiniteSet(S), NEW a \in S, NEW b \in S, a < b
  PROVE  Rank(S, a) < Rank(S, b)
<1> DEFINE A == {m \in S : m < a}   B == {m \in S : m < b}
<1>1. A \cup {a} \in SUBSET B /\ B \in SUBSET S /\ A \in SUBSET S /\ a \notin A
  <2>1. \A m \in S : m \in Nat
    OBVIOUS
  <2>2. \A m \in S : m < a => m < b
    BY <2>1
  <2>3. A \cup {a} \subseteq B
    BY <2>2
  <2>4. a \notin A
    BY <2>1
  <2> QED BY <2>3, <2>4
<1> HIDE DEF A, B
<1>2. IsFiniteSet(A) /\ IsFiniteSet(B)
  BY <1>1, FS_Subset
<1>3. Cardinality(A \cup {a}) = Cardinality(A) + 1
  BY <1>1, <1>2, FS_AddElement
<1>4. Cardinality(A \cup {a}) <= Cardinality(B)
  BY <1>1, <1>2, FS_Subset
<1>5. Cardinality(A) \in Nat /\ Cardinality(B) \in Nat
  BY <1>2, FS_CardinalityType
<1>6. Cardinality(A) < Cardinality(B)
  BY <1>3, <1>4, <1>5
<1> QED BY <1>6 DEF A, B, Rank

LEMMA RankInjective ==
  ASSUME NEW S \in SUBSET Nat, IsFiniteSet(S), NEW a \in S, NEW b \in S,
         Rank(S, a) = Rank(S, b)
  PROVE  a = b
<1>1. a \in Nat /\ b \in Nat /\ Rank(S, a) \in Nat /\ Rank(S, b) \in Nat
  BY RankBound
<1>2. ~(a < b) /\ ~(b < a)
  BY <1>1, RankMonotone
<1> QED BY <1>1, <1>2

LEMMA RankOnto ==
  ASSUME NEW S \in SUBSET Nat, IsFiniteSet(S), NEW i \in 1..Cardinality(S)
  PROVE  \E b \in S : Rank(S, b) = i - 1
<1> DEFINE n == Cardinality(S)   f == [b \in S |-> Rank(S, b) + 1]
<1>1. n \in Nat
  BY FS_CardinalityType
<1>2. f \in [S -> 1..n]
  BY <1>1, RankBound
<1>3. \A a, b \in S : f[a] = f[b] => a = b
  <2> SUFFICES ASSUME NEW a \in S, NEW b \in S, f[a] = f[b] PROVE a = b
    OBVIOUS
  <2>1. Rank(S, a) \in Nat /\ Rank(S, b) \in Nat
    BY RankBound
  <2>2. Rank(S, a) = Rank(S, b)
    BY <2>1
  <2> QED BY <2>2, RankInjective
<1>4. IsFiniteSet(1..n) /\ Cardinality(1..n) = n
  BY <1>1, FS_Interval
<1>5. f \in Injection(S, 1..n)
  <2> HIDE DEF f
  <2> QED BY <1>2, <1>3 DEF Injection, IsInjective
<1>6. f \in Surjection(S, 1..n)
  <2> HIDE DEF f
  <2> QED BY <1>4, <1>5, FS_Injection
<1>7. \E b \in S : f[b] = i
  <2> HIDE DEF f
  <2> QED BY <1>6 DEF Surjection
<1>8. PICK b \in S : Rank(S, b) + 1 = i
  BY <1>7
<1>9. Rank(S, b) \in Nat
  BY RankBound
<1> QED BY <1>8, <1>9

LEMMA InOrderLists ==
  ASSUME NEW S \in SUBSET Nat, IsFiniteSet(S)
  PROVE  /\ Cardinality(S) \in Nat
         /\ InOrder(S) \in [1..Cardinality(S) -> S]
         /\ \A i, k \in 1..Cardinality(S) : InOrder(S)[i] = InOrder(S)[k] => i = k
         /\ \A b \in S : \E i \in 1..Cardinality(S) : InOrder(S)[i] = b
<1> DEFINE n == Cardinality(S)
<1>1. n \in Nat
  BY FS_CardinalityType
<1>2. ASSUME NEW i \in 1..n
      PROVE  InOrder(S)[i] \in S /\ Rank(S, InOrder(S)[i]) = i - 1
  BY RankOnto DEF InOrder
<1>3. InOrder(S) \in [1..n -> S]
  BY <1>2 DEF InOrder
<1>4. ASSUME NEW i \in 1..n, NEW k \in 1..n, InOrder(S)[i] = InOrder(S)[k] PROVE i = k
  BY <1>1, <1>2, <1>4
<1>5. ASSUME NEW b \in S PROVE \E i \in 1..n : InOrder(S)[i] = b
  <2> DEFINE i == Rank(S, b) + 1
  <2>1. i \in 1..n /\ i - 1 = Rank(S, b)
    BY <1>1, RankBound
  <2>2. InOrder(S)[i] \in S /\ Rank(S, InOrder(S)[i]) = Rank(S, b)
    BY <1>2, <2>1
  <2>3. \A a \in S : Rank(S, a) = Rank(S, b) => a = b
    BY RankInjective
  <2> QED BY <2>1, <2>2, <2>3
<1> QED BY <1>1, <1>3, <1>4, <1>5

-----------------------------------------------------------------------------
(* Lists of units: how often a block occurs.                                *)

LEMMA UnitsOfFinite ==
  ASSUME NEW list \in Seq(Units), NEW b
  PROVE  /\ UnitsOf(list, b) \in SUBSET (1..Len(list))
         /\ IsFiniteSet(UnitsOf(list, b))
         /\ Cardinality(UnitsOf(list, b)) \in Nat
         /\ Cardinality(UnitsOf(list, b)) = 0 <=> b \notin Covered(list)
<1>1. DOMAIN list = 1..Len(list) /\ Len(list) \in Nat
  BY LenProperties
<1>2. UnitsOf(list, b) \in SUBSET (1..Len(list))
  BY <1>1 DEF UnitsOf
<1>3. IsFiniteSet(1..Len(list))
  BY <1>1, FS_Interval
<1>4. IsFiniteSet(UnitsOf(list, b))
  BY <1>2, <1>3, FS_Subset
<1>5. Cardinality(UnitsOf(list, b)) \in Nat
  BY <1>4, FS_CardinalityType
<1>6. Cardinality(UnitsOf(list, b)) = 0 <=> UnitsOf(list, b) = {}
  BY <1>4, FS_EmptySet
<1>7. UnitsOf(list, b) = {} <=> b \notin Covered(list)
  BY DEF UnitsOf, Covered
<1> QED BY <1>2, <1>4, <1>5, <1>6, <1>7

LEMMA CoveredBlocks ==
  ASSUME NEW list \in Seq(Units)
  PROVE  Covered(list) \subseteq Blocks
<1>1. \A k \in DOMAIN list : list[k] \in Units
  BY LenProperties
<1> QED BY <1>1 DEF Covered, Units

LEMMA EmptyList ==
  /\ <<>> \in Seq(Units)
  /\ Covered(<<>>) = {}
  /\ \A b : UnitsOf(<<>>, b) = {}
  /\ Single(<<>>)
<1>1. <<>> \in Seq(Units) /\ Len(<<>>) = 0
  BY EmptySeq
<1>2. DOMAIN <<>> = {}
  OBVIOUS
<1>3. Covered(<<>>) = {} /\ \A b : UnitsOf(<<>>, b) = {}
  BY <1>2 DEF Covered, UnitsOf
<1>4. \A b \in Blocks : Cardinality(UnitsOf(<<>>, b)) = 0
  BY <1>3, FS_EmptySet
<1> QED BY <1>1, <1>3, <1>4 DEF Single

LEMMA CoveredConcat ==
  ASSUME NEW s \in Seq(Units), NEW t \in Seq(Units)
  PROVE  Covered(s \o t) = Covered(s) \cup Covered(t)
<1>1. /\ s \o t \in Seq(Units) /\ Len(s \o t) = Len(s) + Len(t)
      /\ \A i \in 1..(Len(s) + Len(t)) :
           (s \o t)[i] = IF i <= Len(s) THEN s[i] ELSE t[i - Len(s)]
  BY ConcatProperties
<1>2. /\ DOMAIN s = 1..Len(s) /\ DOMAIN t = 1..Len(t) /\ DOMAIN (s \o t) = 1..(Len(s) + Len(t))
      /\ Len(s) \in Nat /\ Len(t) \in Nat
  BY <1>1, LenProperties
<1>3. ASSUME NEW k \in 1..(Len(s) + Len(t))
      PROVE  (s \o t)[k].block \in Covered(s) \cup Covered(t)
  <2>1. CASE k <= Len(s)
    BY <1>1, <1>2, <2>1 DEF Covered
  <2>2. CASE k > Len(s)
    <3>1. k - Len(s) \in 1..Len(t) /\ (s \o t)[k] = t[k - Len(s)]
      BY <1>1, <1>2, <2>2
    <3> QED BY <1>2, <3>1 DEF Covered
  <2> QED BY <1>2, <2>1, <2>2
<1>4. ASSUME NEW k \in 1..Len(s) PROVE s[k].block \in Covered(s \o t)
  <2>1. k \in 1..(Len(s) + Len(t)) /\ (s \o t)[k] = s[k]
    BY <1>1, <1>2
  <2> QED BY <1>2, <2>1 DEF Covered
<1>5. ASSUME NEW k \in 1..Len(t) PROVE t[k].block \in Covered(s \o t)
  <2>1. k + Len(s) \in 1..(Len(s) + Len(t)) /\ (s \o t)[k + Len(s)] = t[k]
    BY <1>1, <1>2
  <2> QED BY <1>2, <2>1 DEF Covered
<1> QED BY <1>2, <1>3, <1>4, <1>5 DEF Covered

LEMMA CountConcat ==
  ASSUME NEW s \in Seq(Units), NEW t \in Seq(Units), NEW b
  PROVE  Cardinality(UnitsOf(s \o t, b))
           <= Cardinality(UnitsOf(s, b)) + Cardinality(UnitsOf(t, b))
<1> DEFINE m == Len(s)   Shifted == {k \in 1..(m + Len(t)) : k > m /\ t[k - m].block = b}
<1>1. /\ s \o t \in Seq(Units) /\ Len(s \o t) = m + Len(t)
      /\ \A i \in 1..(m + Len(t)) : (s \o t)[i] = IF i <= m THEN s[i] ELSE t[i - m]
  BY ConcatProperties
<1>2. /\ DOMAIN s = 1..m /\ DOMAIN t = 1..Len(t) /\ DOMAIN (s \o t) = 1..(m + Len(t))
      /\ m \in Nat /\ Len(t) \in Nat
  BY <1>1, LenProperties
<1> HIDE DEF m
<1>3. UnitsOf(s \o t, b) = UnitsOf(s, b) \cup Shifted
  BY <1>1, <1>2 DEF UnitsOf
<1>4. [k \in Shifted |-> k - m] \in Injection(Shifted, UnitsOf(t, b))
  BY <1>2 DEF Injection, IsInjective, UnitsOf
<1>5. IsFiniteSet(Shifted) /\ Cardinality(Shifted) <= Cardinality(UnitsOf(t, b))
  <2> HIDE DEF Shifted
  <2> QED BY <1>4, UnitsOfFinite, FS_Injection
<1>6. IsFiniteSet(UnitsOf(s, b)) /\ IsFiniteSet(UnitsOf(t, b))
  BY UnitsOfFinite
<1> HIDE DEF Shifted
<1>7. Cardinality(UnitsOf(s \o t, b))
        = Cardinality(UnitsOf(s, b)) + Cardinality(Shifted)
            - Cardinality(UnitsOf(s, b) \cap Shifted)
  BY <1>3, <1>5, <1>6, FS_Union
<1>8. IsFiniteSet(UnitsOf(s, b) \cap Shifted)
  BY <1>6, FS_Intersection
<1>9. /\ Cardinality(UnitsOf(s, b)) \in Nat /\ Cardinality(UnitsOf(t, b)) \in Nat
      /\ Cardinality(Shifted) \in Nat /\ Cardinality(UnitsOf(s, b) \cap Shifted) \in Nat
  BY <1>5, <1>6, <1>8, FS_CardinalityType
<1> QED BY <1>5, <1>7, <1>9

LEMMA FunctionIsSeq ==
  ASSUME NEW S, NEW n \in Nat, NEW f \in [1..n -> S]
  PROVE  f \in Seq(S) /\ Len(f) = n
  OBVIOUS

LEMMA WithoutList ==
  ASSUME NEW list \in Seq(Units), NEW B
  PROVE  /\ Without(list, B) \in Seq(Units)
         /\ Covered(Without(list, B)) = Covered(list) \ B
         /\ \A b : Cardinality(UnitsOf(Without(list, B), b)) <= Cardinality(UnitsOf(list, b))
<1> DEFINE S == {k \in DOMAIN list : list[k].block \notin B}
           n == Cardinality(S)
           W == Without(list, B)
<1>1. DOMAIN list = 1..Len(list) /\ Len(list) \in Nat /\ \A k \in DOMAIN list : list[k] \in Units
  BY LenProperties
<1>2. S \in SUBSET (1..Len(list)) /\ S \in SUBSET Nat
  BY <1>1
<1>3. IsFiniteSet(S)
  <2>1. IsFiniteSet(1..Len(list))
    BY <1>1, FS_Interval
  <2> HIDE DEF S
  <2> QED BY <1>2, <2>1, FS_Subset
<1>4. /\ n \in Nat
      /\ InOrder(S) \in [1..n -> S]
      /\ \A i, k \in 1..n : InOrder(S)[i] = InOrder(S)[k] => i = k
      /\ \A k \in S : \E i \in 1..n : InOrder(S)[i] = k
  <2> HIDE DEF S
  <2> QED BY <1>2, <1>3, InOrderLists
<1>5. DOMAIN InOrder(S) = 1..n
  BY <1>4
<1>6. W = [i \in 1..n |-> list[InOrder(S)[i]]]
  BY <1>5 DEF Without
<1> HIDE DEF W, n
<1>7. \A i \in 1..n : /\ InOrder(S)[i] \in S
                      /\ W[i] = list[InOrder(S)[i]]
  BY <1>4, <1>6
<1>8. DOMAIN W = 1..n /\ W \in [1..n -> Units]
  BY <1>1, <1>6, <1>7
<1>9. W \in Seq(Units)
  BY <1>4, <1>8, FunctionIsSeq
<1>10. Covered(W) = Covered(list) \ B
  <2>1. ASSUME NEW i \in 1..n PROVE W[i].block \in Covered(list) \ B
    BY <1>7 DEF Covered
  <2>2. ASSUME NEW k \in DOMAIN list, list[k].block \notin B PROVE list[k].block \in Covered(W)
    <3>1. PICK i \in 1..n : InOrder(S)[i] = k
      BY <1>4, <2>2
    <3> QED BY <1>7, <1>8, <3>1 DEF Covered
  <2> QED BY <1>8, <2>1, <2>2 DEF Covered
<1>11. ASSUME NEW b PROVE Cardinality(UnitsOf(W, b)) <= Cardinality(UnitsOf(list, b))
  <2> DEFINE f == [i \in UnitsOf(W, b) |-> InOrder(S)[i]]
  <2>1. \A i \in UnitsOf(W, b) : i \in 1..n /\ InOrder(S)[i] \in UnitsOf(list, b)
    BY <1>7, <1>8 DEF UnitsOf
  <2>2. f \in Injection(UnitsOf(W, b), UnitsOf(list, b))
    BY <1>4, <2>1 DEF Injection, IsInjective
  <2> HIDE DEF f
  <2> QED BY <2>2, UnitsOfFinite, FS_Injection
<1> QED BY <1>9, <1>10, <1>11 DEF W

-----------------------------------------------------------------------------
(* Batches.                                                                 *)

LEMMA BlocksFinite ==
  ASSUME NEW S \in SUBSET Blocks
  PROVE  S \in SUBSET Nat /\ IsFiniteSet(S)
<1>1. Blocks \in SUBSET Nat /\ IsFiniteSet(Blocks)
  <2>1. NumBlocks \in Nat
    BY SizeAssumption
  <2> QED BY <2>1, FS_Interval DEF Blocks
<1> QED BY <1>1, FS_Subset

LEMMA BatchesFinite ==
  ASSUME NEW S \in SUBSET Blocks
  PROVE  IsFiniteSet(Batches(S))
<1> DEFINE f == [b \in S |-> Position(S, b)]
<1>1. f \in Surjection(S, Batches(S))
  BY DEF Surjection, Batches
<1> HIDE DEF f
<1> QED BY <1>1, BlocksFinite, FS_Surjection

LEMMA RunningFinite ==
  ASSUME Typed, NEW w \in Writers
  PROVE  IsFiniteSet(Running(w)) /\ Cardinality(Running(w)) \in Nat
<1>1. DOMAIN batch[w] = Batches(pending[w]) /\ pending[w] \in SUBSET Blocks
  BY DEF Typed
<1>2. Running(w) \in SUBSET Batches(pending[w])
  BY <1>1 DEF Running
<1>3. IsFiniteSet(Batches(pending[w]))
  BY <1>1, BatchesFinite
<1> QED BY <1>2, <1>3, FS_Subset, FS_CardinalityType

LEMMA BatchOfBlocks ==
  ASSUME Typed, NEW w \in Writers
  PROVE  /\ \A k : BatchBlocks(w, k) \in SUBSET pending[w]
         /\ \A b \in pending[w] : Position(pending[w], b) \in DOMAIN batch[w]
         /\ \A k \in DOMAIN batch[w] : BatchBlocks(w, k) # {}
         /\ pending[w] \in SUBSET Blocks
<1>1. pending[w] \in SUBSET Blocks /\ DOMAIN batch[w] = Batches(pending[w])
  BY DEF Typed
<1>2. \A b \in pending[w] : Position(pending[w], b) \in DOMAIN batch[w]
  BY <1>1 DEF Batches
<1>3. ASSUME NEW k \in DOMAIN batch[w] PROVE BatchBlocks(w, k) # {}
  <2>1. PICK b \in pending[w] : k = Position(pending[w], b)
    BY <1>1 DEF Batches
  <2> QED BY <2>1 DEF BatchBlocks
<1>4. \A k : BatchBlocks(w, k) \in SUBSET pending[w]
  BY DEF BatchBlocks
<1> QED BY <1>1, <1>2, <1>3, <1>4

LEMMA NewUnitsList ==
  ASSUME Typed, NEW w \in Writers, NEW k, NEW status \in [BatchBlocks(w, k) -> UnitStatus]
  PROVE  /\ NewUnits(w, k, status) \in Seq(Units)
         /\ Covered(NewUnits(w, k, status)) = BatchBlocks(w, k)
         /\ Single(NewUnits(w, k, status))
<1> DEFINE S == BatchBlocks(w, k)   n == Cardinality(S)   N == NewUnits(w, k, status)
<1>1. S \in SUBSET Blocks
  BY BatchOfBlocks
<1>2. S \in SUBSET Nat /\ IsFiniteSet(S)
  BY <1>1, BlocksFinite
<1> HIDE DEF S
<1>3. /\ n \in Nat
      /\ InOrder(S) \in [1..n -> S]
      /\ \A i, m \in 1..n : InOrder(S)[i] = InOrder(S)[m] => i = m
      /\ \A b \in S : \E i \in 1..n : InOrder(S)[i] = b
  BY <1>2, InOrderLists
<1>4. DOMAIN InOrder(S) = 1..n
  BY <1>3
<1>5. N = [i \in 1..n |-> [block |-> InOrder(S)[i], status |-> status[InOrder(S)[i]]]]
  BY <1>4 DEF NewUnits, S
<1> HIDE DEF N, n
<1>6. \A i \in 1..n : /\ InOrder(S)[i] \in S
                      /\ N[i] = [block |-> InOrder(S)[i], status |-> status[InOrder(S)[i]]]
  BY <1>3, <1>5
<1>7. \A i \in 1..n : N[i] \in Units /\ N[i].block = InOrder(S)[i]
  <2>1. \A b \in S : b \in Blocks /\ status[b] \in UnitStatus
    BY <1>1 DEF S
  <2>2. ASSUME NEW i \in 1..n PROVE N[i] \in Units /\ N[i].block = InOrder(S)[i]
    <3>1. PICK b \in S : b = InOrder(S)[i] /\ N[i] = [block |-> b, status |-> status[b]]
      BY <1>6
    <3> QED BY <2>1, <3>1 DEF Units
  <2> QED BY <2>2
<1>8. N \in [1..n -> Units] /\ DOMAIN N = 1..n
  BY <1>5, <1>7
<1>9. N \in Seq(Units)
  BY <1>3, <1>8, FunctionIsSeq
<1>10. Covered(N) = S
  BY <1>3, <1>7, <1>8 DEF Covered
<1>11. ASSUME NEW b \in Blocks PROVE Cardinality(UnitsOf(N, b)) <= 1
  <2>1. \A i, m \in UnitsOf(N, b) : i = m
    BY <1>3, <1>7, <1>8 DEF UnitsOf
  <2>2. UnitsOf(N, b) = {} \/ \E i : UnitsOf(N, b) = {i}
    BY <2>1
  <2> QED BY <2>2, FS_EmptySet, FS_Singleton
<1> QED BY <1>9, <1>10, <1>11 DEF Single, N, S

-----------------------------------------------------------------------------
(* Steps: one writer moves, and imports only return.                        *)

Untouched(v) ==
  /\ pc'[v] = pc[v] /\ rebuild'[v] = rebuild[v] /\ snapshot'[v] = snapshot[v]
  /\ pending'[v] = pending[v] /\ batch'[v] = batch[v] /\ fresh'[v] = fresh[v]

OnlyMoves(w) ==
  /\ \A v \in Writers \ {w} : Untouched(v)
  /\ pc[w] # "returned" \/ pc'[w] = "returned"

LEMMA MostType ==
  ASSUME NEW b
  PROVE  /\ IsFiniteSet(Imports(b)) /\ Cardinality(Imports(b)) \in Nat
         /\ Most(b) \in Nat /\ 1 <= Most(b)
<1>1. Imports(b) \in SUBSET Jobs
  BY DEF Imports
<1>2. IsFiniteSet(Imports(b)) /\ Cardinality(Imports(b)) \in Nat
  BY <1>1, WriterAssumption, FS_Subset, FS_CardinalityType
<1> QED BY <1>2 DEF Most

LEMMA MostTypeNext ==
  ASSUME NEW b
  PROVE  /\ IsFiniteSet(Imports(b)') /\ Cardinality(Imports(b)') \in Nat
         /\ Most(b)' \in Nat /\ 1 <= Most(b)'
<1>1. Imports(b)' \in SUBSET Jobs
  BY DEF Imports
<1>2. IsFiniteSet(Imports(b)') /\ Cardinality(Imports(b)') \in Nat
  BY <1>1, WriterAssumption, FS_Subset, FS_CardinalityType
<1> QED BY <1>2 DEF Most

LEMMA MostGrows ==
  ASSUME NEW w \in Writers, OnlyMoves(w), NEW b
  PROVE  Most(b) <= Most(b)'
<1>1. Imports(b) \in SUBSET (Imports(b)')
  BY DEF Imports, OnlyMoves, Untouched, Writers
<1>2. Cardinality(Imports(b)) <= Cardinality(Imports(b)')
  BY <1>1, MostTypeNext, FS_Subset
<1> QED BY <1>2, MostType, MostTypeNext DEF Most

(* An import that returns makes room for its own units. *)
LEMMA MostGrowsByOne ==
  ASSUME NEW j \in Jobs, OnlyMoves(j), pc[j] # "returned", pc'[j] = "returned",
         NEW b, b <= FirstBlocks
  PROVE  Most(b) + 1 <= Most(b)'
<1>1. Imports(b) \cup {j} \in SUBSET (Imports(b)') /\ j \notin Imports(b)
  BY DEF Imports, OnlyMoves, Untouched, Writers
<1>2. Cardinality(Imports(b) \cup {j}) = Cardinality(Imports(b)) + 1
  BY <1>1, MostType, FS_AddElement
<1>3. Cardinality(Imports(b) \cup {j}) <= Cardinality(Imports(b)')
  BY <1>1, MostTypeNext, FS_Subset
<1> QED BY <1>2, <1>3, MostType, MostTypeNext DEF Most

LEMMA SparseGrows ==
  ASSUME NEW w \in Writers, OnlyMoves(w), NEW list \in Seq(Units), Sparse(list)
  PROVE  \A b \in Blocks : Cardinality(UnitsOf(list, b)) <= Most(b)'
<1> SUFFICES ASSUME NEW b \in Blocks PROVE Cardinality(UnitsOf(list, b)) <= Most(b)'
  OBVIOUS
<1>1. Cardinality(UnitsOf(list, b)) <= Most(b)
  BY DEF Sparse
<1>2. Most(b) <= Most(b)'
  BY MostGrows
<1> QED BY <1>1, <1>2, UnitsOfFinite, MostType, MostTypeNext

LEMMA OthersHold ==
  ASSUME DocumentInv, NEW w \in Writers, OnlyMoves(w), NEW v \in Writers \ {w}
  PROVE  Holding(v)'
<1>1. Holding(v) /\ Typed
  BY DEF DocumentInv
<1>2. Untouched(v)
  BY DEF OnlyMoves
<1>3. \A b \in Blocks : Cardinality(UnitsOf(snapshot[v], b)) <= Most(b)'
  BY <1>1, SparseGrows DEF Holding, Typed
<1>4. Sparse(snapshot[v])'
  BY <1>2, <1>3 DEF Sparse, Untouched
<1>5. Running(v)' = Running(v) /\ CollectedBlocks(v)' = CollectedBlocks(v)
  BY <1>2 DEF Untouched, Running, CollectedBlocks
<1> QED BY <1>1, <1>2, <1>4, <1>5 DEF Holding, Untouched, Single

(* The way out of a call, whatever it was doing. *)
LEMMA EndStep ==
  ASSUME DocumentInv, NEW w \in Writers, NEW how \in PC, End(w, how),
         NEW again \in BOOLEAN, rebuild' = [rebuild EXCEPT ![w] = again],
         w \in Jobs => again = FALSE, units' \in Seq(Units),
         pc[w] # "returned" \/ how = "returned", how # "merging",
         how \notin {"translating", "unwinding"}
  PROVE  /\ Typed'
         /\ OnlyMoves(w)
         /\ pc'[w] = how
         /\ \A v \in Writers : Holding(v)'
<1>1. Typed
  BY DEF DocumentInv
<1>2. Batches({}) = {}
  BY DEF Batches
<1>3. <<>> \in [Batches({}) -> BatchState] /\ DOMAIN <<>> = {}
  BY <1>2
<1>4. <<>> \in Seq(Units)
  BY EmptyList
<1>5. /\ pc' \in [Writers -> PC] /\ rebuild' \in [Writers -> BOOLEAN]
      /\ snapshot' \in [Writers -> Seq(Units)] /\ pending' \in [Writers -> SUBSET Blocks]
      /\ fresh' \in [Writers -> Seq(Units)]
  BY <1>1, <1>4 DEF End, Typed
<1>6. /\ batch' = [v \in Writers |-> batch'[v]]
      /\ \A v \in Writers : batch'[v] \in [Batches(pending'[v]) -> BatchState]
  BY <1>1, <1>3 DEF End, Typed
<1>7. Typed'
  BY <1>5, <1>6 DEF Typed
<1>8. /\ pc'[w] = how /\ pending'[w] = {} /\ batch'[w] = <<>> /\ fresh'[w] = <<>>
      /\ snapshot'[w] = <<>> /\ rebuild'[w] = again
  BY <1>1 DEF End, Typed
<1>9. OnlyMoves(w)
  BY <1>1, <1>8 DEF End, Typed, OnlyMoves, Untouched
<1>10. Running(w)' = {} /\ CollectedBlocks(w)' = {}
  BY <1>3, <1>8 DEF Running, CollectedBlocks
<1>11. Covered(<<>>) = {} /\ Single(<<>>) /\ \A b : Cardinality(UnitsOf(<<>>, b)) = 0
  BY EmptyList, FS_EmptySet
<1>12. Sparse(snapshot[w])'
  BY <1>8, <1>11, MostTypeNext DEF Sparse
<1>13. Single(fresh[w])' /\ Covered(fresh[w])' = CollectedBlocks(w)'
  BY <1>8, <1>10, <1>11 DEF Single
<1>14. Cardinality(Running(w)') <= Workers
  BY <1>10, FS_EmptySet, SizeAssumption
<1>15. Holding(w)'
  BY <1>8, <1>10, <1>12, <1>13, <1>14 DEF Holding
<1> QED BY <1>7, <1>8, <1>9, <1>15, OthersHold

(* A writer that only moves on, or also reads the document. *)
LEMMA MoveStep ==
  ASSUME DocumentInv, NEW w \in Writers, NEW how \in PC \ {"idle"},
         pc[w] # "returned", pc' = [pc EXCEPT ![w] = how],
         UNCHANGED <<units, rebuild, pending, batch, fresh>>,
         snapshot' \in {snapshot, [snapshot EXCEPT ![w] = units]},
         how = "merging" => \A k \in DOMAIN batch[w] : batch[w][k] = "collected",
         how \notin {"translating", "unwinding"} => Running(w) = {}
  PROVE  DocumentInv'
<1>1. Typed /\ Holding(w) /\ Sparse(units)
  BY DEF DocumentInv
<1>2. snapshot' \in [Writers -> Seq(Units)] /\ pc' \in [Writers -> PC]
  BY <1>1 DEF Typed
<1>3. Typed'
  BY <1>1, <1>2 DEF Typed
<1>4. pc'[w] = how /\ snapshot'[w] \in {snapshot[w], units}
  BY <1>1 DEF Typed
<1>5. OnlyMoves(w)
  BY <1>1 DEF OnlyMoves, Untouched, Typed
<1>6. \A b \in Blocks : /\ Cardinality(UnitsOf(snapshot[w], b)) <= Most(b)'
                        /\ Cardinality(UnitsOf(units, b)) <= Most(b)'
  BY <1>1, <1>5, SparseGrows DEF Holding, Typed
<1>7. Sparse(snapshot[w])' /\ Sparse(units)'
  BY <1>4, <1>6 DEF Sparse
<1>8. Running(w)' = Running(w) /\ CollectedBlocks(w)' = CollectedBlocks(w)
  BY DEF Running, CollectedBlocks
<1>9. Holding(w)'
  BY <1>1, <1>4, <1>7, <1>8 DEF Holding, Single
<1> QED BY <1>3, <1>5, <1>7, <1>9, OthersHold DEF DocumentInv

(* A writer that knows its blocks cuts them into batches. *)
LEMMA CutStep ==
  ASSUME DocumentInv, NEW w \in Writers, NEW how \in {"preparing", "translating"},
         pc[w] = "idle", pc' = [pc EXCEPT ![w] = how],
         NEW todo \in SUBSET Blocks, pending' = [pending EXCEPT ![w] = todo],
         batch' = [batch EXCEPT ![w] = [k \in Batches(todo) |-> "queued"]],
         NEW again \in BOOLEAN, rebuild' = [rebuild EXCEPT ![w] = again],
         w \in Jobs => again = FALSE /\ todo \subseteq 1..FirstBlocks,
         UNCHANGED <<units, fresh>>,
         snapshot' \in {snapshot, [snapshot EXCEPT ![w] = units]}
  PROVE  DocumentInv'
<1>1. Typed /\ Holding(w) /\ Sparse(units)
  BY DEF DocumentInv
<1>2. /\ pc'[w] = how /\ pending'[w] = todo /\ batch'[w] = [k \in Batches(todo) |-> "queued"]
      /\ rebuild'[w] = again /\ snapshot'[w] \in {snapshot[w], units}
  BY <1>1 DEF Typed
<1>3. /\ pc' \in [Writers -> PC] /\ rebuild' \in [Writers -> BOOLEAN]
      /\ snapshot' \in [Writers -> Seq(Units)] /\ pending' \in [Writers -> SUBSET Blocks]
  BY <1>1 DEF Typed, PC
<1>4. [k \in Batches(todo) |-> "queued"] \in [Batches(todo) -> BatchState]
  BY DEF BatchState
<1>5. \A v \in Writers : batch'[v] \in [Batches(pending'[v]) -> BatchState]
  BY <1>1, <1>4 DEF Typed
<1>6. batch' = [v \in Writers |-> batch'[v]]
  BY <1>1 DEF Typed
<1>7. Typed'
  BY <1>1, <1>3, <1>5, <1>6 DEF Typed
<1>8. OnlyMoves(w)
  BY <1>1 DEF OnlyMoves, Untouched, Typed
<1>9. \A b \in Blocks : /\ Cardinality(UnitsOf(snapshot[w], b)) <= Most(b)'
                        /\ Cardinality(UnitsOf(units, b)) <= Most(b)'
  BY <1>1, <1>8, SparseGrows DEF Holding, Typed
<1>10. Sparse(snapshot[w])' /\ Sparse(units)'
  BY <1>2, <1>9 DEF Sparse
<1>11. Running(w)' = {}
  BY <1>2 DEF Running
<1>12. CollectedBlocks(w)' = {}
  <2> SUFFICES ASSUME NEW b \in todo PROVE batch'[w][Position(todo, b)] # "collected"
    BY <1>2 DEF CollectedBlocks
  <2>1. Position(todo, b) \in Batches(todo)
    BY DEF Batches
  <2> QED BY <1>2, <2>1
<1>13. Covered(fresh[w]) = {}
  BY <1>1 DEF Holding, CollectedBlocks
<1>14. Cardinality(Running(w)') <= Workers
  BY <1>11, FS_EmptySet, SizeAssumption
<1>15. Holding(w)'
  BY <1>1, <1>2, <1>10, <1>11, <1>12, <1>13, <1>14 DEF Holding, Single
<1> QED BY <1>7, <1>8, <1>10, <1>15, OthersHold DEF DocumentInv

(* A batch that starts or ends is not collected before or after. *)
LEMMA BatchStep ==
  ASSUME DocumentInv, NEW w \in Writers, pc[w] \in {"translating", "unwinding"},
         NEW k \in DOMAIN batch[w], NEW s \in {"running", "done", "raised"},
         batch[w][k] \in {"queued", "running"}, batch' = [batch EXCEPT ![w][k] = s],
         UNCHANGED <<units, pc, rebuild, snapshot, pending, fresh>>,
         Cardinality(Running(w)') <= Workers
  PROVE  DocumentInv'
<1>1. Typed /\ Holding(w) /\ Sparse(units)
  BY DEF DocumentInv
<1>2. batch'[w] = [batch[w] EXCEPT ![k] = s] /\ \A v \in Writers \ {w} : batch'[v] = batch[v]
  BY <1>1 DEF Typed
<1>3. batch'[w] \in [Batches(pending[w]) -> BatchState]
  BY <1>1, <1>2 DEF Typed, BatchState
<1>4. batch' = [v \in Writers |-> batch'[v]]
  BY <1>1 DEF Typed
<1>5. Typed'
  BY <1>1, <1>2, <1>3, <1>4 DEF Typed
<1>6. OnlyMoves(w)
  BY <1>2 DEF OnlyMoves, Untouched
<1>7. CollectedBlocks(w)' = CollectedBlocks(w)
  <2>1. \A b \in pending[w] : Position(pending[w], b) \in DOMAIN batch[w]
    BY <1>1, BatchOfBlocks
  <2>2. \A m \in DOMAIN batch[w] : batch'[w][m] = "collected" <=> batch[w][m] = "collected"
    BY <1>2
  <2> QED BY <2>1, <2>2 DEF CollectedBlocks
<1>8. \A b \in Blocks : /\ Cardinality(UnitsOf(snapshot[w], b)) <= Most(b)'
                        /\ Cardinality(UnitsOf(units, b)) <= Most(b)'
  BY <1>1, <1>6, SparseGrows DEF Holding, Typed
<1>9. Sparse(snapshot[w])' /\ Sparse(units)'
  BY <1>8 DEF Sparse
<1>10. Holding(w)'
  BY <1>1, <1>7, <1>9 DEF Holding, Single
<1> QED BY <1>5, <1>6, <1>9, <1>10, OthersHold DEF DocumentInv

LEMMA StartBatchStep ==
  ASSUME DocumentInv, NEW w \in Writers, StartBatch(w)
  PROVE  DocumentInv'
<1>1. Typed /\ Holding(w)
  BY DEF DocumentInv
<1>2. PICK k \in DOMAIN batch[w] : /\ batch[w][k] = "queued"
                                   /\ batch' = [batch EXCEPT ![w][k] = "running"]
  BY DEF StartBatch
<1>3. batch'[w] = [batch[w] EXCEPT ![k] = "running"]
  BY <1>1, <1>2 DEF Typed
<1>4. Running(w)' = Running(w) \cup {k} /\ k \notin Running(w)
  BY <1>2, <1>3 DEF Running
<1>5. Cardinality(Running(w)') = Cardinality(Running(w)) + 1
  BY <1>1, <1>4, RunningFinite, FS_AddElement
<1>6. Cardinality(Running(w)') <= Workers
  <2>1. Cardinality(Running(w)) < Workers
    BY DEF StartBatch
  <2>2. Workers \in Nat
    BY SizeAssumption
  <2> QED BY <1>1, <1>5, <2>1, <2>2, RunningFinite
<1>7. /\ pc[w] \in {"translating", "unwinding"}
      /\ UNCHANGED <<units, pc, rebuild, snapshot, pending, fresh>>
  BY DEF StartBatch
<1> QED BY <1>2, <1>6, <1>7, BatchStep

LEMMA EndBatchStep ==
  ASSUME DocumentInv, NEW w \in Writers, EndBatch(w)
  PROVE  DocumentInv'
<1>1. Typed /\ Holding(w)
  BY DEF DocumentInv
<1>2. PICK k \in Running(w), end \in {"done", "raised"} : batch' = [batch EXCEPT ![w][k] = end]
  BY DEF EndBatch
<1>3. k \in DOMAIN batch[w] /\ batch[w][k] = "running"
  BY DEF Running
<1>4. batch'[w] = [batch[w] EXCEPT ![k] = end]
  BY <1>1, <1>2 DEF Typed
<1>5. Running(w)' = Running(w) \ {k}
  BY <1>3, <1>4 DEF Running
<1>6. Running(w)' \in SUBSET Running(w)
  BY <1>5
<1>7. Cardinality(Running(w)') <= Cardinality(Running(w)) /\ IsFiniteSet(Running(w)')
  BY <1>1, <1>6, RunningFinite, FS_Subset
<1>8. Cardinality(Running(w)') <= Workers
  <2>1. Cardinality(Running(w)) <= Workers /\ Workers \in Nat
    BY <1>1, SizeAssumption DEF Holding
  <2>2. Cardinality(Running(w)') \in Nat /\ Cardinality(Running(w)) \in Nat
    BY <1>1, <1>7, RunningFinite, FS_CardinalityType
  <2> QED BY <1>7, <2>1, <2>2
<1>9. UNCHANGED <<units, pc, rebuild, snapshot, pending, fresh>>
  BY DEF EndBatch
<1>10. pc[w] \in {"translating", "unwinding"}
  BY <1>1 DEF Holding
<1> QED BY <1>2, <1>3, <1>8, <1>9, <1>10, BatchStep

-----------------------------------------------------------------------------
(* Writing the document.                                                    *)

(* What a request writes: its own units, and of the document it read all but
   the blocks it has translated. *)
LEMMA WriteList ==
  ASSUME DocumentInv, NEW w \in Writers, NEW new \in Seq(Units), Single(new)
  PROVE  /\ Kept(w, new) \o new \in Seq(Units)
         /\ Covered(new) \subseteq Covered(Kept(w, new) \o new)
         /\ rebuild[w] \/ Covered(snapshot[w]) \subseteq Covered(Kept(w, new) \o new)
         /\ \A b \in Blocks : Cardinality(UnitsOf(Kept(w, new) \o new, b)) <= Most(b)
<1> DEFINE kept == Kept(w, new)
<1>1. Typed /\ Holding(w)
  BY DEF DocumentInv
<1>2. snapshot[w] \in Seq(Units) /\ rebuild[w] \in BOOLEAN
  BY <1>1 DEF Typed
<1>3. /\ kept \in Seq(Units)
      /\ Covered(kept) \cap Covered(new) = {}
      /\ rebuild[w] \/ Covered(snapshot[w]) \subseteq Covered(kept) \cup Covered(new)
      /\ \A b \in Blocks : Cardinality(UnitsOf(kept, b)) <= Most(b)
  <2>1. CASE rebuild[w]
    <3>1. kept = <<>>
      BY <2>1 DEF Kept
    <3>2. \A b : Cardinality(UnitsOf(<<>>, b)) = 0
      BY EmptyList, FS_EmptySet
    <3> QED BY <2>1, <3>1, <3>2, EmptyList, MostType
  <2>2. CASE ~rebuild[w]
    <3>1. kept = Without(snapshot[w], Covered(new))
      BY <2>2 DEF Kept
    <3>2. /\ kept \in Seq(Units)
          /\ Covered(kept) = Covered(snapshot[w]) \ Covered(new)
          /\ \A b : Cardinality(UnitsOf(kept, b)) <= Cardinality(UnitsOf(snapshot[w], b))
      BY <1>2, <3>1, WithoutList
    <3>3. ASSUME NEW b \in Blocks PROVE Cardinality(UnitsOf(kept, b)) <= Most(b)
      <4>1. Cardinality(UnitsOf(snapshot[w], b)) <= Most(b)
        BY <1>1 DEF Holding, Sparse
      <4>2. /\ Cardinality(UnitsOf(kept, b)) \in Nat
            /\ Cardinality(UnitsOf(snapshot[w], b)) \in Nat /\ Most(b) \in Nat
        BY <1>2, <3>2, UnitsOfFinite, MostType
      <4> QED BY <3>2, <4>1, <4>2
    <3> QED BY <3>2, <3>3
  <2> QED BY <1>2, <2>1, <2>2
<1> HIDE DEF kept
<1>4. kept \o new \in Seq(Units) /\ Covered(kept \o new) = Covered(kept) \cup Covered(new)
  BY <1>3, ConcatProperties, CoveredConcat
<1>5. ASSUME NEW b \in Blocks PROVE Cardinality(UnitsOf(kept \o new, b)) <= Most(b)
  <2>1. Cardinality(UnitsOf(kept \o new, b))
          <= Cardinality(UnitsOf(kept, b)) + Cardinality(UnitsOf(new, b))
    BY <1>3, CountConcat
  <2>2. Cardinality(UnitsOf(kept, b)) = 0 \/ Cardinality(UnitsOf(new, b)) = 0
    BY <1>3, UnitsOfFinite
  <2>3. Cardinality(UnitsOf(kept, b)) <= Most(b) /\ Cardinality(UnitsOf(new, b)) <= 1
    BY <1>3 DEF Single
  <2>4. /\ Cardinality(UnitsOf(kept, b)) \in Nat /\ Cardinality(UnitsOf(new, b)) \in Nat
        /\ Cardinality(UnitsOf(kept \o new, b)) \in Nat
    BY <1>3, <1>4, UnitsOfFinite
  <2> QED BY <2>1, <2>2, <2>3, <2>4, MostType
<1>6. Covered(new) \subseteq Covered(kept \o new)
  BY <1>4
<1>7. rebuild[w] \/ Covered(snapshot[w]) \subseteq Covered(kept \o new)
  BY <1>2, <1>3, <1>4
<1> QED BY <1>4, <1>5, <1>6, <1>7 DEF kept

(* The batch a writer collects holds blocks it has not collected before. *)
LEMMA CollectList ==
  ASSUME DocumentInv, NEW w \in Writers, NEW k \in DOMAIN batch[w], batch[w][k] = "done",
         NEW status \in [BatchBlocks(w, k) -> UnitStatus],
         NEW new, new = fresh[w] \o NewUnits(w, k, status)
  PROVE  /\ new \in Seq(Units)
         /\ Single(new)
         /\ Covered(new) = CollectedBlocks(w) \cup BatchBlocks(w, k)
         /\ new # fresh[w]
<1> DEFINE N == NewUnits(w, k, status)
<1>1. Typed /\ Holding(w)
  BY DEF DocumentInv
<1>2. N \in Seq(Units) /\ Covered(N) = BatchBlocks(w, k) /\ Single(N)
  BY <1>1, NewUnitsList
<1>3. fresh[w] \in Seq(Units) /\ Covered(fresh[w]) = CollectedBlocks(w) /\ Single(fresh[w])
  BY <1>1 DEF Typed, Holding
<1> HIDE DEF N
<1>4. new = fresh[w] \o N
  BY DEF N
<1>5. new \in Seq(Units) /\ Covered(new) = CollectedBlocks(w) \cup BatchBlocks(w, k)
  BY <1>2, <1>3, <1>4, ConcatProperties, CoveredConcat
<1>6. CollectedBlocks(w) \cap BatchBlocks(w, k) = {}
  BY DEF CollectedBlocks, BatchBlocks
<1>7. ASSUME NEW b \in Blocks PROVE Cardinality(UnitsOf(new, b)) <= 1
  <2>1. Cardinality(UnitsOf(new, b))
          <= Cardinality(UnitsOf(fresh[w], b)) + Cardinality(UnitsOf(N, b))
    BY <1>2, <1>3, <1>4, CountConcat
  <2>2. Cardinality(UnitsOf(fresh[w], b)) = 0 \/ Cardinality(UnitsOf(N, b)) = 0
    BY <1>2, <1>3, <1>6, UnitsOfFinite
  <2>3. Cardinality(UnitsOf(fresh[w], b)) <= 1 /\ Cardinality(UnitsOf(N, b)) <= 1
    BY <1>2, <1>3 DEF Single
  <2>4. /\ Cardinality(UnitsOf(fresh[w], b)) \in Nat /\ Cardinality(UnitsOf(N, b)) \in Nat
        /\ Cardinality(UnitsOf(new, b)) \in Nat
    BY <1>2, <1>3, <1>5, UnitsOfFinite
  <2> QED BY <2>1, <2>2, <2>3, <2>4
<1>8. BatchBlocks(w, k) # {}
  BY <1>1, BatchOfBlocks
<1>9. Covered(new) # Covered(fresh[w])
  BY <1>3, <1>5, <1>6, <1>8
<1> QED BY <1>5, <1>7, <1>9 DEF Single

Collects(w, k, new) ==
  /\ batch[w][k] = "done"
  /\ batch' = [batch EXCEPT ![w][k] = "collected"]
  /\ fresh' = [fresh EXCEPT ![w] = new]
  /\ units' = IF w \in Requests THEN Kept(w, new) \o new ELSE units
  /\ Single(new)
  /\ Covered(new) = CollectedBlocks(w) \cup BatchBlocks(w, k)
  /\ new # fresh[w]

LEMMA CollectNew ==
  ASSUME DocumentInv, NEW w \in Writers, Collect(w)
  PROVE  \E k \in DOMAIN batch[w], new \in Seq(Units) : Collects(w, k, new)
<1>1. PICK k \in DOMAIN batch[w] :
        /\ batch[w][k] = "done"
        /\ batch' = [batch EXCEPT ![w][k] = "collected"]
        /\ \E status \in [BatchBlocks(w, k) -> UnitStatus] :
             LET new == fresh[w] \o NewUnits(w, k, status)
             IN /\ fresh' = [fresh EXCEPT ![w] = new]
                /\ units' = IF w \in Requests THEN Kept(w, new) \o new ELSE units
  BY DEF Collect
<1>2. PICK status \in [BatchBlocks(w, k) -> UnitStatus] :
        LET new == fresh[w] \o NewUnits(w, k, status)
        IN /\ fresh' = [fresh EXCEPT ![w] = new]
           /\ units' = IF w \in Requests THEN Kept(w, new) \o new ELSE units
  BY <1>1
<1>3. PICK new : new = fresh[w] \o NewUnits(w, k, status)
  OBVIOUS
<1>4. /\ fresh' = [fresh EXCEPT ![w] = new]
      /\ units' = IF w \in Requests THEN Kept(w, new) \o new ELSE units
  BY <1>2, <1>3
<1> QED BY <1>1, <1>3, <1>4, CollectList DEF Collects

LEMMA CollectStep ==
  ASSUME DocumentInv, NEW w \in Writers, Collect(w)
  PROVE  DocumentInv'
<1>1. Typed /\ Holding(w) /\ Sparse(units)
  BY DEF DocumentInv
<1>2. PICK k \in DOMAIN batch[w], new \in Seq(Units) : Collects(w, k, new)
  BY CollectNew
<1>3. k \in DOMAIN batch[w] /\ batch[w][k] = "done" /\ batch' = [batch EXCEPT ![w][k] = "collected"]
  BY <1>2 DEF Collects
<1>4. /\ Single(new)
      /\ Covered(new) = CollectedBlocks(w) \cup BatchBlocks(w, k)
  BY <1>2 DEF Collects
<1>5. fresh' = [fresh EXCEPT ![w] = new] /\ units' \in {units, Kept(w, new) \o new}
  BY <1>2 DEF Collects
<1>6. pc[w] = "translating" /\ UNCHANGED <<pc, rebuild, snapshot, pending>>
  BY DEF Collect
<1>7. /\ batch'[w] = [batch[w] EXCEPT ![k] = "collected"]
      /\ \A v \in Writers \ {w} : batch'[v] = batch[v]
  BY <1>1, <1>3 DEF Typed
<1>8. batch'[w] \in [Batches(pending[w]) -> BatchState] /\ batch' = [v \in Writers |-> batch'[v]]
  BY <1>1, <1>3, <1>7 DEF Typed, BatchState
<1>9. fresh' \in [Writers -> Seq(Units)] /\ fresh'[w] = new
  BY <1>1, <1>4, <1>5 DEF Typed
<1>10. units' \in Seq(Units)
  <2>1. Kept(w, new) \o new \in Seq(Units)
    BY <1>4, WriteList
  <2> QED BY <1>1, <1>5, <2>1 DEF Typed
<1>11. Typed'
  BY <1>1, <1>6, <1>7, <1>8, <1>9, <1>10 DEF Typed
<1>12. OnlyMoves(w)
  BY <1>1, <1>5, <1>6, <1>7 DEF OnlyMoves, Untouched, Typed
<1>13. \A b \in Blocks : Cardinality(UnitsOf(units', b)) <= Most(b)
  BY <1>1, <1>4, <1>5, WriteList DEF Sparse
<1>14. \A b : Most(b)' = Most(b)
  BY <1>6 DEF Most, Imports
<1>15. Sparse(units)' /\ Sparse(snapshot[w])'
  BY <1>1, <1>6, <1>13, <1>14 DEF Sparse, Holding
<1>16. CollectedBlocks(w)' = CollectedBlocks(w) \cup BatchBlocks(w, k)
  <2>1. \A b \in pending[w] : Position(pending[w], b) \in DOMAIN batch[w]
    BY <1>1, BatchOfBlocks
  <2>2. \A m \in DOMAIN batch[w] : batch'[w][m] = "collected" <=> batch[w][m] = "collected" \/ m = k
    BY <1>7
  <2> QED BY <1>6, <2>1, <2>2 DEF CollectedBlocks, BatchBlocks
<1>17. Running(w)' = Running(w)
  BY <1>3, <1>7 DEF Running
<1>18. Holding(w)'
  BY <1>1, <1>4, <1>6, <1>9, <1>15, <1>16, <1>17 DEF Holding, Single
<1> QED BY <1>11, <1>12, <1>15, <1>18, OthersHold DEF DocumentInv

(* The units of a finished call cover its blocks. *)
LEMMA AllCollected ==
  ASSUME DocumentInv, NEW w \in Writers, pc[w] = "merging"
  PROVE  Covered(fresh[w]) = pending[w] /\ Single(fresh[w]) /\ fresh[w] \in Seq(Units)
<1>1. Typed /\ Holding(w)
  BY DEF DocumentInv
<1>2. \A b \in pending[w] : Position(pending[w], b) \in DOMAIN batch[w]
  BY <1>1, BatchOfBlocks
<1> QED BY <1>1, <1>2 DEF Holding, CollectedBlocks, Typed

LEMMA MergeStep ==
  ASSUME DocumentInv, NEW r \in Requests, Merge(r)
  PROVE  DocumentInv'
<1>1. Typed /\ r \in Writers /\ r \notin Jobs
  BY WriterAssumption DEF DocumentInv, Writers
<1>2. /\ pc[r] = "merging" /\ End(r, "returned") /\ rebuild' = rebuild
      /\ units' = Kept(r, fresh[r]) \o fresh[r]
  BY DEF Merge
<1>3. /\ units' \in Seq(Units)
      /\ \A b \in Blocks : Cardinality(UnitsOf(units', b)) <= Most(b)
  BY <1>1, <1>2, AllCollected, WriteList
<1>4. rebuild[r] \in BOOLEAN /\ rebuild' = [rebuild EXCEPT ![r] = rebuild[r]]
  BY <1>1, <1>2 DEF Typed
<1>5. "returned" \in PC
  BY DEF PC
<1>6. Typed' /\ OnlyMoves(r) /\ \A v \in Writers : Holding(v)'
  BY <1>1, <1>2, <1>3, <1>4, <1>5, EndStep
<1>7. ASSUME NEW b \in Blocks PROVE Cardinality(UnitsOf(units', b)) <= Most(b)'
  <2>1. Most(b) <= Most(b)'
    BY <1>1, <1>6, MostGrows
  <2>2. Cardinality(UnitsOf(units', b)) \in Nat
    BY <1>3, UnitsOfFinite
  <2> QED BY <1>3, <2>1, <2>2, MostType, MostTypeNext
<1> QED BY <1>6, <1>7 DEF DocumentInv, Sparse

LEMMA AppendStep ==
  ASSUME DocumentInv, NEW j \in Jobs, AppendUnits(j)
  PROVE  DocumentInv'
<1>1. Typed /\ j \in Writers /\ Holding(j) /\ rebuild[j] = FALSE
  BY DEF DocumentInv, Writers, Holding
<1>2. /\ pc[j] = "merging" /\ End(j, "returned") /\ rebuild' = rebuild
      /\ units' = snapshot[j] \o fresh[j]
  BY DEF AppendUnits
<1>3. /\ fresh[j] \in Seq(Units) /\ snapshot[j] \in Seq(Units) /\ Single(fresh[j])
      /\ Covered(fresh[j]) \subseteq 1..FirstBlocks
  BY <1>1, <1>2, AllCollected DEF Holding, Typed
<1>4. units' \in Seq(Units)
  BY <1>2, <1>3, ConcatProperties
<1>5. rebuild' = [rebuild EXCEPT ![j] = FALSE]
  BY <1>1, <1>2 DEF Typed
<1>6. "returned" \in PC
  BY DEF PC
<1>7. Typed' /\ OnlyMoves(j) /\ pc'[j] = "returned" /\ \A v \in Writers : Holding(v)'
  BY <1>1, <1>2, <1>4, <1>5, <1>6, EndStep
<1>8. ASSUME NEW b \in Blocks PROVE Cardinality(UnitsOf(units', b)) <= Most(b)'
  <2>1. Cardinality(UnitsOf(units', b))
          <= Cardinality(UnitsOf(snapshot[j], b)) + Cardinality(UnitsOf(fresh[j], b))
    BY <1>2, <1>3, CountConcat
  <2>2. Cardinality(UnitsOf(snapshot[j], b)) <= Most(b) /\ Cardinality(UnitsOf(fresh[j], b)) <= 1
    BY <1>1, <1>3 DEF Holding, Sparse, Single
  <2>3. /\ Cardinality(UnitsOf(snapshot[j], b)) \in Nat /\ Cardinality(UnitsOf(fresh[j], b)) \in Nat
        /\ Cardinality(UnitsOf(units', b)) \in Nat
    BY <1>3, <1>4, UnitsOfFinite
  <2>4. CASE b \in Covered(fresh[j])
    <3>1. b <= FirstBlocks
      BY <1>3, <2>4
    <3>2. Most(b) + 1 <= Most(b)'
      BY <1>2, <1>7, <3>1, MostGrowsByOne
    <3> QED BY <2>1, <2>2, <2>3, <3>2, MostType, MostTypeNext
  <2>5. CASE b \notin Covered(fresh[j])
    <3>1. Cardinality(UnitsOf(fresh[j], b)) = 0
      BY <1>3, <2>5, UnitsOfFinite
    <3>2. Most(b) <= Most(b)'
      BY <1>1, <1>7, MostGrows
    <3> QED BY <2>1, <2>2, <2>3, <3>1, <3>2, MostType, MostTypeNext
  <2> QED BY <2>4, <2>5
<1> QED BY <1>7, <1>8 DEF DocumentInv, Sparse

-----------------------------------------------------------------------------
(* The other ways out, and the steps before the batches.                    *)

(* A call that ends without writing the document. *)
LEMMA LeavesStep ==
  ASSUME DocumentInv, NEW w \in Writers, NEW how \in {"returned", "failed"}, End(w, how),
         NEW again \in BOOLEAN, rebuild' = [rebuild EXCEPT ![w] = again],
         w \in Jobs => again = FALSE, units' = units, pc[w] # "returned"
  PROVE  DocumentInv'
<1>1. units' \in Seq(Units) /\ units \in Seq(Units) /\ Sparse(units)
  BY DEF DocumentInv, Typed
<1>2. how \in PC
  BY DEF PC
<1>3. Typed' /\ OnlyMoves(w) /\ \A v \in Writers : Holding(v)'
  BY <1>1, <1>2, EndStep
<1>4. \A b \in Blocks : Cardinality(UnitsOf(units, b)) <= Most(b)'
  BY <1>1, <1>3, SparseGrows
<1> QED BY <1>3, <1>4 DEF DocumentInv, Sparse

LEMMA SameRebuild ==
  ASSUME Typed, NEW w \in Writers
  PROVE  rebuild = [rebuild EXCEPT ![w] = rebuild[w]] /\ rebuild[w] \in BOOLEAN
BY DEF Typed

LEMMA AskStep ==
  ASSUME DocumentInv, NEW r \in Requests, Ask(r)
  PROVE  DocumentInv'
<1>1. r \in Writers /\ r \notin Jobs /\ pc[r] = "idle" /\ units' = units
  BY WriterAssumption DEF Ask, Writers
<1>2. PICK again \in BOOLEAN, todo \in SUBSET Blocks :
        /\ rebuild' = [rebuild EXCEPT ![r] = again]
        /\ \/ End(r, "returned")
           \/ /\ pending' = [pending EXCEPT ![r] = todo]
              /\ batch' = [batch EXCEPT ![r] = [k \in Batches(todo) |-> "queued"]]
              /\ snapshot' = [snapshot EXCEPT ![r] = units]
              /\ pc' = [pc EXCEPT ![r] = "preparing"]
              /\ fresh' = fresh
  <2>1. PICK pages \in SUBSET Pages \ {{}}, again \in Rebuilds :
       LET asked == {b \in Blocks : Page(b) \in pages}
           todo == IF again THEN asked ELSE asked \ Cached(units)
       IN /\ rebuild' = [rebuild EXCEPT ![r] = again]
          /\ \/ /\ todo = {}
                /\ End(r, "returned")
             \/ /\ todo # {}
                /\ pending' = [pending EXCEPT ![r] = todo]
                /\ batch' = [batch EXCEPT ![r] = [k \in Batches(todo) |-> "queued"]]
                /\ snapshot' = [snapshot EXCEPT ![r] = units]
                /\ pc' = [pc EXCEPT ![r] = "preparing"]
                /\ fresh' = fresh
    BY DEF Ask
  <2> DEFINE asked == {b \in Blocks : Page(b) \in pages}
             todo == IF again THEN asked ELSE asked \ Cached(units)
  <2>2. todo \in SUBSET Blocks /\ again \in BOOLEAN
    BY RebuildAssumption
  <2> QED BY <2>1, <2>2
<1>3. CASE End(r, "returned")
  BY <1>1, <1>2, <1>3, LeavesStep
<1>4. CASE ~End(r, "returned")
  BY <1>1, <1>2, <1>4, CutStep DEF Ask
<1> QED BY <1>3, <1>4

LEMMA PrepareStep ==
  ASSUME DocumentInv, NEW r \in Requests, Prepare(r)
  PROVE  DocumentInv'
<1>1. Typed /\ Holding(r) /\ r \in Writers /\ r \notin Jobs
  BY WriterAssumption DEF DocumentInv, Writers
<1>2. pc[r] = "preparing" /\ UNCHANGED <<units, rebuild>>
  BY DEF Prepare
<1>3. CASE End(r, "failed")
  BY <1>1, <1>2, <1>3, SameRebuild, LeavesStep
<1>4. CASE ~End(r, "failed")
  <2>1. pc' = [pc EXCEPT ![r] = "waiting"] /\ UNCHANGED <<snapshot, pending, batch, fresh>>
    BY <1>4 DEF Prepare
  <2>2. Running(r) = {} /\ "waiting" \in PC \ {"idle"}
    BY <1>1, <1>2 DEF Holding, PC
  <2> QED BY <1>1, <1>2, <2>1, <2>2, MoveStep
<1> QED BY <1>3, <1>4

LEMMA AcquireStep ==
  ASSUME DocumentInv, NEW r \in Requests, Acquire(r)
  PROVE  DocumentInv'
<1>1. r \in Writers /\ "translating" \in PC \ {"idle"}
  BY DEF Writers, PC
<1>2. /\ pc[r] = "waiting" /\ pc' = [pc EXCEPT ![r] = "translating"]
      /\ UNCHANGED <<units, rebuild, snapshot, pending, batch, fresh>>
  BY DEF Acquire
<1> QED BY <1>1, <1>2, MoveStep

LEMMA CollectRaisesStep ==
  ASSUME DocumentInv, NEW w \in Writers, CollectRaises(w)
  PROVE  DocumentInv'
<1>1. "unwinding" \in PC \ {"idle"}
  BY DEF PC
<1>2. /\ pc[w] = "translating" /\ pc' = [pc EXCEPT ![w] = "unwinding"]
      /\ UNCHANGED <<units, rebuild, snapshot, pending, batch, fresh>>
  BY DEF CollectRaises
<1> QED BY <1>1, <1>2, MoveStep

LEMMA CollectedStep ==
  ASSUME DocumentInv, NEW w \in Writers, Collected(w)
  PROVE  DocumentInv'
<1>1. "merging" \in PC \ {"idle"}
  BY DEF PC
<1>2. /\ pc[w] = "translating" /\ pc' = [pc EXCEPT ![w] = "merging"]
      /\ \A k \in DOMAIN batch[w] : batch[w][k] = "collected"
      /\ snapshot' \in {snapshot, [snapshot EXCEPT ![w] = units]}
      /\ UNCHANGED <<units, rebuild, pending, batch, fresh>>
  BY DEF Collected
<1>3. Running(w) = {}
  BY <1>2 DEF Running
<1> QED BY <1>1, <1>2, <1>3, MoveStep

LEMMA UnwindStep ==
  ASSUME DocumentInv, NEW w \in Writers, Unwind(w)
  PROVE  DocumentInv'
<1>1. Typed /\ Holding(w)
  BY DEF DocumentInv
<1>2. pc[w] = "unwinding" /\ End(w, "failed") /\ UNCHANGED <<units, rebuild>>
  BY DEF Unwind
<1>3. w \in Jobs => rebuild[w] = FALSE
  BY <1>1 DEF Holding
<1> QED BY <1>1, <1>2, <1>3, SameRebuild, LeavesStep

LEMMA RepairRaisesStep ==
  ASSUME DocumentInv, NEW r \in Requests, RepairRaises(r)
  PROVE  DocumentInv'
<1>1. Typed /\ r \in Writers /\ r \notin Jobs
  BY WriterAssumption DEF DocumentInv, Writers
<1>2. pc[r] = "merging" /\ End(r, "failed") /\ UNCHANGED <<units, rebuild>>
  BY DEF RepairRaises
<1> QED BY <1>1, <1>2, SameRebuild, LeavesStep

LEMMA BeginStep ==
  ASSUME DocumentInv, NEW j \in Jobs, Begin(j)
  PROVE  DocumentInv'
<1>1. Typed /\ Holding(j) /\ j \in Writers
  BY DEF DocumentInv, Writers
<1>2. pc[j] = "idle" /\ UNCHANGED <<units, rebuild>> /\ rebuild[j] = FALSE
  BY <1>1 DEF Begin, Holding
<1>3. rebuild' = [rebuild EXCEPT ![j] = FALSE]
  BY <1>1, <1>2, SameRebuild
<1>4. CASE \E how \in {"returned", "failed"} : End(j, how)
  BY <1>1, <1>2, <1>3, <1>4, LeavesStep
<1>5. CASE ~\E how \in {"returned", "failed"} : End(j, how)
  <2> DEFINE todo == {b \in Blocks : b <= FirstBlocks}
  <2>1. /\ pending' = [pending EXCEPT ![j] = todo]
        /\ batch' = [batch EXCEPT ![j] = [k \in Batches(todo) |-> "queued"]]
        /\ pc' = [pc EXCEPT ![j] = "translating"]
        /\ UNCHANGED <<snapshot, fresh>>
    BY <1>5 DEF Begin
  <2>2. todo \in SUBSET Blocks /\ todo \subseteq 1..FirstBlocks
    BY SizeAssumption DEF Blocks
  <2> HIDE DEF todo
  <2> QED BY <1>1, <1>2, <1>3, <2>1, <2>2, CutStep
<1> QED BY <1>4, <1>5

LEMMA InitDocument == Init => DocumentInv
<1> SUFFICES ASSUME Init PROVE DocumentInv
  OBVIOUS
<1>1. <<>> \in Seq(Units) /\ Covered(<<>>) = {} /\ \A b : Cardinality(UnitsOf(<<>>, b)) = 0
  BY EmptyList, FS_EmptySet
<1>2. Batches({}) = {} /\ <<>> \in [{} -> BatchState] /\ DOMAIN <<>> = {}
  BY DEF Batches
<1>3. /\ units \in Seq(Units)
      /\ pc \in [Writers -> PC]
      /\ rebuild \in [Writers -> BOOLEAN]
      /\ snapshot \in [Writers -> Seq(Units)]
      /\ pending \in [Writers -> SUBSET Blocks]
      /\ fresh \in [Writers -> Seq(Units)]
  BY <1>1 DEF Init, PC
<1>4. batch = [w \in Writers |-> batch[w]]
  BY DEF Init
<1>5. \A w \in Writers : batch[w] \in [Batches(pending[w]) -> BatchState]
  BY <1>2 DEF Init
<1>6. Typed
  BY <1>3, <1>4, <1>5 DEF Typed
<1>7. Sparse(<<>>) /\ Single(<<>>)
  BY <1>1, MostType DEF Sparse, Single
<1>8. ASSUME NEW w \in Writers PROVE Holding(w)
  <2>1. /\ fresh[w] = <<>> /\ snapshot[w] = <<>> /\ pending[w] = {} /\ batch[w] = <<>>
        /\ pc[w] = "idle" /\ rebuild[w] = FALSE
    BY DEF Init
  <2>2. Running(w) = {} /\ CollectedBlocks(w) = {}
    BY <1>2, <2>1 DEF Running, CollectedBlocks
  <2>3. Cardinality(Running(w)) <= Workers
    BY <2>2, FS_EmptySet, SizeAssumption
  <2> QED BY <1>1, <1>7, <2>1, <2>2, <2>3 DEF Holding
<1>9. Sparse(units)
  BY <1>7 DEF Init
<1> QED BY <1>6, <1>8, <1>9 DEF DocumentInv

LEMMA DocumentInductive == DocumentInv /\ [Next]_vars => DocumentInv'
<1> SUFFICES ASSUME DocumentInv, [Next]_vars PROVE DocumentInv'
  OBVIOUS
<1>1. ASSUME NEW r \in Requests, Request(r) PROVE DocumentInv'
  BY <1>1, AskStep, PrepareStep, AcquireStep, MergeStep, RepairRaisesStep DEF Request
<1>2. ASSUME NEW j \in Jobs, Import(j) PROVE DocumentInv'
  BY <1>2, BeginStep, AppendStep DEF Import
<1>3. ASSUME NEW w \in Writers, Pool(w) PROVE DocumentInv'
  BY <1>3, StartBatchStep, EndBatchStep, CollectStep, CollectRaisesStep, UnwindStep,
     CollectedStep DEF Pool
<1>4. CASE UNCHANGED vars
  <2>1. \A b : Most(b)' = Most(b)
    BY <1>4 DEF vars, Most, Imports
  <2>2. Typed' /\ Sparse(units)'
    BY <1>4, <2>1 DEF vars, DocumentInv, Typed, Sparse
  <2>3. ASSUME NEW w \in Writers PROVE Holding(w)'
    <3>1. Running(w)' = Running(w) /\ CollectedBlocks(w)' = CollectedBlocks(w)
      BY <1>4 DEF vars, Running, CollectedBlocks
    <3>2. Sparse(snapshot[w])'
      BY <1>4, <2>1 DEF vars, DocumentInv, Holding, Sparse
    <3> QED BY <1>4, <3>1, <3>2 DEF vars, DocumentInv, Holding, Single
  <2> QED BY <2>2, <2>3 DEF DocumentInv
<1> QED BY <1>1, <1>2, <1>3, <1>4 DEF Next

-----------------------------------------------------------------------------
(* Every variable has its type, the batches of a writer are those of its     *)
(* pending blocks, and it never holds a unit of another block.              *)
THEOREM TypesHold == Spec => []TypeOK
<1>1. ASSUME DocumentInv, SemaphoreInv PROVE TypeOK
  <2>1. Typed
    BY <1>1 DEF DocumentInv
  <2>2. \A list \in Seq(Units) : IsUnitList(list)
    BY DEF IsUnitList
  <2>3. permits \in 0..Permits
    <3>1. permits \in Nat /\ permits + Cardinality(Holders) = Permits
      BY <1>1 DEF SemaphoreInv, PermitsMatchHolders
    <3> QED BY <3>1, HoldersFinite, SizeAssumption
  <2>4. ASSUME NEW w \in Writers
        PROVE  /\ IsUnitList(snapshot[w]) /\ IsUnitList(fresh[w])
               /\ Covered(fresh[w]) \subseteq pending[w]
               /\ DOMAIN batch[w] = Batches(pending[w])
               /\ \A k \in DOMAIN batch[w] : batch[w][k] \in BatchState
    BY <1>1, <2>1, <2>2 DEF DocumentInv, Holding, Typed, CollectedBlocks
  <2> QED BY <2>1, <2>2, <2>3, <2>4 DEF TypeOK, Typed
<1> QED BY <1>1, InitDocument, DocumentInductive, InitSemaphore, SemaphoreInductive, PTL DEF Spec

(* Whatever requests overlap, rebuild or fail, the document holds one unit   *)
(* of a block, and at most one more for each import that has returned.      *)
THEOREM OneUnitOfABlock == Spec => []OneUnitPerBlockAndImport
<1>1. DocumentInv => OneUnitPerBlockAndImport
  BY DEF DocumentInv, Sparse, Most, Imports, OneUnitPerBlockAndImport
<1> QED BY <1>1, InitDocument, DocumentInductive, PTL DEF Spec

-----------------------------------------------------------------------------
(* Calls in flight: a holder and a place in its pool for each batch.        *)

(* A set of at most n elements can be numbered by 1..n. *)
LEMMA Numbering ==
  ASSUME NEW S, IsFiniteSet(S), NEW n \in Nat, Cardinality(S) <= n
  PROVE  \E f \in [S -> 1..n] : \A x, y \in S : f[x] = f[y] => x = y
<1> DEFINE m == Cardinality(S)
<1>1. m \in Nat /\ ExistsBijection(1..m, S)
  BY FS_CardinalityType
<1> HIDE DEF m
<1>2. PICK g \in Bijection(1..m, S) : TRUE
  BY <1>1 DEF ExistsBijection
<1>3. /\ g \in [1..m -> S]
      /\ \A y \in S : \E i \in 1..m : g[i] = y
  BY <1>2 DEF Bijection, Injection, Surjection
<1> DEFINE f == [y \in S |-> CHOOSE i \in 1..m : g[i] = y]
<1>4. \A y \in S : f[y] \in 1..m /\ g[f[y]] = y
  BY <1>3
<1>5. 1..m \subseteq 1..n
  BY <1>1 DEF m
<1>6. f \in [S -> 1..n]
  BY <1>4, <1>5
<1>7. \A x, y \in S : f[x] = f[y] => x = y
  BY <1>4
<1> QED BY <1>6, <1>7

(* Each holder numbers its running batches. *)
LEMMA CallsNumbered ==
  ASSUME DocumentInv
  PROVE  Cardinality(BatchCalls) <= Cardinality(Holders) * Workers
<1>1. Workers \in Nat
  BY SizeAssumption
<1>2. Cardinality(Holders) \in Nat /\ IsFiniteSet(Holders)
  BY HoldersFinite
<1>3. ASSUME NEW w \in Writers
      PROVE  \E f \in [Running(w) -> 1..Workers] : \A x, y \in Running(w) : f[x] = f[y] => x = y
  <2>1. Cardinality(Running(w)) <= Workers /\ IsFiniteSet(Running(w))
    BY RunningFinite DEF DocumentInv, Holding
  <2> QED BY <1>1, <2>1, Numbering
<1> DEFINE n(w) == CHOOSE f \in [Running(w) -> 1..Workers] :
                     \A x, y \in Running(w) : f[x] = f[y] => x = y
<1>4. ASSUME NEW w \in Writers
      PROVE  /\ n(w) \in [Running(w) -> 1..Workers]
             /\ \A x, y \in Running(w) : n(w)[x] = n(w)[y] => x = y
  BY <1>3
<1> HIDE DEF n
<1>5. \A call \in BatchCalls : call[1] \in Holders /\ call[1] \in Writers /\ call[2] \in Running(call[1])
  BY DEF BatchCalls, Holders, DocumentInv, Holding, Writers
<1> DEFINE g == [call \in BatchCalls |-> <<call[1], n(call[1])[call[2]]>>]
<1>6. g \in [BatchCalls -> Holders \X (1..Workers)]
  BY <1>4, <1>5
<1>7. ASSUME NEW x \in BatchCalls, NEW y \in BatchCalls, g[x] = g[y]
      PROVE  x = y
  <2>1. x[1] = y[1] /\ n(x[1])[x[2]] = n(y[1])[y[2]]
    BY <1>7
  <2>2. x[2] = y[2]
    BY <1>4, <1>5, <2>1
  <2> QED BY <2>1, <2>2 DEF BatchCalls
<1>8. g \in Injection(BatchCalls, Holders \X (1..Workers))
  BY <1>6, <1>7, Fun_IsInj
<1>9. IsFiniteSet(1..Workers) /\ Cardinality(1..Workers) = Workers
  BY <1>1, FS_Interval
<1>10. /\ IsFiniteSet(Holders \X (1..Workers))
       /\ Cardinality(Holders \X (1..Workers)) = Cardinality(Holders) * Workers
  BY <1>2, <1>9, FS_Product
<1> QED BY <1>8, <1>10, FS_Injection

(* A request that calls outside the semaphore holds no permit. *)
LEMMA OutsideHoldsNone ==
  /\ Cardinality(Requests) \in Nat /\ Cardinality(CallsOutside) \in Nat
  /\ Cardinality(Holders) + Cardinality(CallsOutside) <= Cardinality(Requests)
<1>1. Holders \cup CallsOutside \subseteq Requests /\ Holders \cap CallsOutside = {}
  BY DEF Holders, CallsOutside
<1>2. IsFiniteSet(Requests) /\ IsFiniteSet(Holders) /\ IsFiniteSet(CallsOutside)
  BY <1>1, WriterAssumption, FS_Subset
<1>3. Cardinality(Holders \cup CallsOutside) <= Cardinality(Requests)
  BY <1>1, <1>2, FS_Subset
<1>4. Cardinality(Holders \cup CallsOutside)
        = Cardinality(Holders) + Cardinality(CallsOutside) - Cardinality(Holders \cap CallsOutside)
  BY <1>2, FS_Union
<1>5. Cardinality(Holders \cap CallsOutside) = 0
  BY <1>1, FS_EmptySet
<1>6. /\ Cardinality(Requests) \in Nat /\ Cardinality(CallsOutside) \in Nat
      /\ Cardinality(Holders) \in Nat
  BY <1>2, FS_CardinalityType
<1> QED BY <1>3, <1>4, <1>5, <1>6

(* A request that enters the semaphore exchanges its one call for a pool. *)
LEMMA PoolsOutweigh ==
  ASSUME NEW held \in Nat, NEW inside \in Nat, NEW workers \in Nat \ {0}, held <= inside
  PROVE  held * workers + (inside - held) <= inside * workers
<1>1. PICK more \in Nat : inside = held + more
  <2>1. inside - held \in Nat /\ inside = held + (inside - held)
    OBVIOUS
  <2> QED BY <2>1
<1>2. PICK others \in Nat : workers = others + 1
  <2>1. workers - 1 \in Nat /\ workers = (workers - 1) + 1
    OBVIOUS
  <2> QED BY <2>1
<1>3. more * others \in Nat
  OBVIOUS
<1>4. inside * workers = held * workers + more * workers
  BY <1>1
<1>5. more * workers = more * others + more
  BY <1>2
<1>6. inside - held = more
  BY <1>1
<1>7. held * workers \in Nat /\ more * workers \in Nat
  OBVIOUS
<1> QED BY <1>3, <1>4, <1>5, <1>6, <1>7

(* The batches that run and the calls outside the semaphore, of any number of *)
(* requests, are never more than when every permit is used by a full pool.   *)
THEOREM CallsAreBounded == Spec => []CallsBounded
<1>1. ASSUME DocumentInv, SemaphoreInv
      PROVE  CallsBounded
  <2> DEFINE requests == Cardinality(Requests)
             held == Cardinality(Holders)
             outside == Cardinality(CallsOutside)
             batches == Cardinality(BatchCalls)
             inside == IF requests <= Permits THEN requests ELSE Permits
  <2>1. Permits \in Nat /\ Workers \in Nat \ {0}
    BY SizeAssumption
  <2>2. held \in Nat /\ held <= Permits
    BY <1>1, <2>1, HoldersFinite DEF SemaphoreInv, PermitsMatchHolders
  <2>3. requests \in Nat /\ outside \in Nat /\ held + outside <= requests
    BY OutsideHoldsNone
  <2>4. batches <= held * Workers
    BY <1>1, CallsNumbered
  <2>5. batches \in Nat
    <3>1. BatchCalls \in SUBSET (Requests \X (0..NumBlocks))
      BY DEF BatchCalls
    <3>2. IsFiniteSet(0..NumBlocks)
      BY SizeAssumption, FS_Interval
    <3>3. IsFiniteSet(Requests \X (0..NumBlocks))
      BY <3>2, WriterAssumption, FS_Product
    <3> QED BY <3>1, <3>3, FS_Subset, FS_CardinalityType
  <2> HIDE DEF requests, held, outside, batches
  <2>6. inside \in Nat /\ held <= inside /\ inside <= requests
    BY <2>1, <2>2, <2>3
  <2> HIDE DEF inside
  <2>7. held * Workers + (inside - held) <= inside * Workers
    BY <2>1, <2>2, <2>6, PoolsOutweigh
  <2>8. held * Workers \in Nat /\ inside * Workers \in Nat
    BY <2>1, <2>2, <2>6
  <2>9. batches + outside <= inside * Workers + (requests - inside)
    BY <2>2, <2>3, <2>4, <2>5, <2>6, <2>7, <2>8
  <2> QED BY <2>9 DEF CallsBounded, requests, outside, batches, inside
<1> QED BY <1>1, InitDocument, DocumentInductive, InitSemaphore, SemaphoreInductive, PTL DEF Spec

-----------------------------------------------------------------------------
(* What a write keeps.                                                      *)

(* Only a merge returns from "merging". *)
LEMMA MergesReturn ==
  ASSUME DocumentInv, [Next]_vars, NEW w \in Writers, pc[w] = "merging", pc'[w] = "returned"
  PROVE  \/ w \in Requests /\ Merge(w)
         \/ w \in Jobs /\ AppendUnits(w)
<1>1. pc \in [Writers -> PC]
  BY DEF DocumentInv, Typed
<1>2. ASSUME NEW r \in Requests, Request(r) PROVE w = r /\ Merge(r)
  <2>1. r \in Writers
    BY DEF Writers
  <2>2. Merge(r) \/ RepairRaises(r) \/ pc[r] # "merging"
    BY <1>2 DEF Request, Ask, Prepare, Acquire
  <2>3. \E how : pc' = [pc EXCEPT ![r] = how]
    BY <1>2 DEF Request, Ask, Prepare, Acquire, Merge, RepairRaises, End
  <2>4. w = r
    BY <1>1, <2>1, <2>3
  <2>5. ~RepairRaises(r)
    BY <1>1, <2>1, <2>4 DEF RepairRaises, End
  <2> QED BY <2>2, <2>4, <2>5
<1>3. ASSUME NEW j \in Jobs, Import(j) PROVE w = j /\ AppendUnits(j)
  <2>1. j \in Writers
    BY DEF Writers
  <2>2. AppendUnits(j) \/ pc[j] # "merging"
    BY <1>3 DEF Import, Begin
  <2>3. \E how : pc' = [pc EXCEPT ![j] = how]
    BY <1>3 DEF Import, Begin, AppendUnits, End
  <2> QED BY <1>1, <2>1, <2>2, <2>3
<1>4. ASSUME NEW v \in Writers, Pool(v) PROVE FALSE
  <2>1. pc' = pc \/ (pc[v] # "merging" /\ \E how : pc' = [pc EXCEPT ![v] = how])
    BY <1>4 DEF Pool, StartBatch, EndBatch, Collect, CollectRaises, Unwind, Collected, End
  <2> QED BY <1>1, <2>1
<1>5. ~UNCHANGED vars
  BY <1>1 DEF vars
<1>6. CASE \E r \in Requests : Request(r)
  <2>1. PICK r \in Requests : Request(r)
    BY <1>6
  <2>2. w = r /\ Merge(r)
    BY <1>2, <2>1
  <2>3. Merge(w)
    BY <2>2
  <2> QED BY <2>2, <2>3
<1>7. CASE \E j \in Jobs : Import(j)
  <2>1. PICK j \in Jobs : Import(j)
    BY <1>7
  <2>2. w = j /\ AppendUnits(j)
    BY <1>3, <2>1
  <2>3. AppendUnits(w)
    BY <2>2
  <2> QED BY <2>2, <2>3
<1>8. CASE \E v \in Writers : Pool(v)
  BY <1>4, <1>8
<1> QED BY <1>5, <1>6, <1>7, <1>8 DEF Next

(* What a writer read and translated, the document holds after its write. *)
LEMMA MergeKeeps ==
  ASSUME DocumentInv, NEW w \in Writers,
         \/ w \in Requests /\ Merge(w)
         \/ w \in Jobs /\ AppendUnits(w)
  PROVE  /\ pending[w] \subseteq Covered(units')
         /\ rebuild[w] \/ Covered(snapshot[w]) \subseteq Covered(units')
         /\ pc[w] = "merging" /\ pc'[w] = "returned"
<1>1. Typed /\ pc[w] = "merging" /\ pc' = [pc EXCEPT ![w] = "returned"]
  BY DEF DocumentInv, Merge, AppendUnits, End
<1>2. Covered(fresh[w]) = pending[w] /\ Single(fresh[w]) /\ fresh[w] \in Seq(Units)
  BY <1>1, AllCollected
<1>3. CASE w \in Requests /\ Merge(w)
  <2>1. units' = Kept(w, fresh[w]) \o fresh[w]
    BY <1>3 DEF Merge
  <2> QED BY <1>1, <1>2, <2>1, WriteList DEF Typed
<1>4. CASE w \in Jobs /\ AppendUnits(w)
  <2>1. units' = snapshot[w] \o fresh[w] /\ snapshot[w] \in Seq(Units)
    BY <1>1, <1>4 DEF AppendUnits, Typed
  <2>2. Covered(units') = Covered(snapshot[w]) \cup Covered(fresh[w])
    BY <1>2, <2>1, CoveredConcat
  <2> QED BY <1>1, <1>2, <2>2 DEF Typed
<1> QED BY <1>3, <1>4

(* A call that returns from its merge leaves a unit for every block it was   *)
(* to translate, and every unit it had read unless it rebuilds.             *)
THEOREM AnswersAreStored == Spec => AnswerIsStored
<1>1. ASSUME DocumentInv, [Next]_vars
      PROVE  [\A w \in Writers :
                pc[w] = "merging" /\ pc'[w] = "returned" =>
                  /\ pending[w] \subseteq Covered(units')
                  /\ ~rebuild[w] => Covered(snapshot[w]) \subseteq Covered(units')]_vars
  BY <1>1, MergesReturn, MergeKeeps
<1> QED BY <1>1, InitDocument, DocumentInductive, PTL DEF Spec, AnswerIsStored

(* Only a writer with units stores the document. *)
LEMMA WhoWrites ==
  ASSUME [Next]_vars, units' # units
  PROVE  \E w \in Writers : \/ w \in Requests /\ Collect(w)
                            \/ w \in Requests /\ Merge(w)
                            \/ w \in Jobs /\ AppendUnits(w)
<1>1. ASSUME NEW r \in Requests, Request(r) PROVE Merge(r)
  BY <1>1 DEF Request, Ask, Prepare, Acquire, RepairRaises
<1>2. ASSUME NEW j \in Jobs, Import(j) PROVE AppendUnits(j)
  BY <1>2 DEF Import, Begin
<1>3. ASSUME NEW w \in Writers, Pool(w) PROVE w \in Requests /\ Collect(w)
  BY <1>3 DEF Pool, StartBatch, EndBatch, Collect, CollectRaises, Unwind, Collected
<1> QED BY <1>1, <1>2, <1>3 DEF Next, vars, Writers

(* A block loses its units only to a rebuild, or to a writer that read the   *)
(* document before the unit was stored.                                     *)
THEOREM OnlyStaleWritersLoseUnits == Spec => UnitsLostOnlyToStaleWriters
<1>1. ASSUME DocumentInv, [Next]_vars, NEW b \in Covered(units) \ Covered(units')
      PROVE  \E w \in Writers :
               /\ <<pc[w], fresh[w]>>' # <<pc[w], fresh[w]>>
               /\ rebuild[w] \/ b \notin Covered(snapshot[w])
  <2>1. PICK w \in Writers : \/ w \in Requests /\ Collect(w)
                             \/ w \in Requests /\ Merge(w)
                             \/ w \in Jobs /\ AppendUnits(w)
    BY <1>1, WhoWrites
  <2>2. CASE w \in Requests /\ Collect(w)
    <3>1. Typed
      BY <1>1 DEF DocumentInv
    <3>2. PICK k \in DOMAIN batch[w], new \in Seq(Units) : Collects(w, k, new)
      BY <1>1, <2>2, CollectNew
    <3>3. fresh'[w] = new /\ new # fresh[w]
      BY <3>1, <3>2 DEF Collects, Typed
    <3>4. Single(new) /\ units' = Kept(w, new) \o new
      BY <2>2, <3>2 DEF Collects
    <3>5. rebuild[w] \/ Covered(snapshot[w]) \subseteq Covered(units')
      BY <1>1, <3>4, WriteList
    <3> QED BY <1>1, <3>3, <3>5
  <2>3. CASE ~(w \in Requests /\ Collect(w))
    <3>1. \/ w \in Requests /\ Merge(w)
          \/ w \in Jobs /\ AppendUnits(w)
      BY <2>1, <2>3
    <3>2. /\ rebuild[w] \/ Covered(snapshot[w]) \subseteq Covered(units')
          /\ pc[w] = "merging" /\ pc'[w] = "returned"
      BY <1>1, <3>1, MergeKeeps
    <3> QED BY <1>1, <3>2
  <2> QED BY <2>2, <2>3
<1>2. ASSUME DocumentInv, [Next]_vars
      PROVE  [\A b \in Covered(units) \ Covered(units') :
                \E w \in Writers :
                  /\ <<pc[w], fresh[w]>>' # <<pc[w], fresh[w]>>
                  /\ rebuild[w] \/ b \notin Covered(snapshot[w])]_vars
  BY <1>1, <1>2
<1> QED BY <1>2, InitDocument, DocumentInductive, PTL DEF Spec, UnitsLostOnlyToStaleWriters

-----------------------------------------------------------------------------
(***************************************************************************)
(* The reader over the document: Workbench, for any number of pages, any   *)
(* batches and any number of scrolls, presses and failures.  What it has   *)
(* not shown yet is on its way.                                            *)
(***************************************************************************)
CONSTANTS NumPages, AutoFrom, PagesAtOnce, Outcomes, MaxActs, MaxFailures
VARIABLES pageUnits, asks, loads, pages, display, auto, rest, notice, timer, shown,
          acts, failures, lost

Reader == INSTANCE Workbench WITH BatchSize <- PagesAtOnce, units <- pageUnits

(* What Workbench assumes of its constants. *)
Sized ==
  /\ NumPages \in Nat \ {0} /\ AutoFrom \in Nat \ {0, 1} /\ PagesAtOnce \in Nat \ {0}
  /\ {MaxActs, MaxFailures} \subseteq Nat /\ Outcomes \subseteq {"retry", "done"}

Stages == {"sent", "working", "answered", "refused"}
Asks == [from : {"loop", "visible", "button"}, pages : SUBSET Reader!Pages,
         stage : Stages, open : BOOLEAN, snap : [Reader!Pages -> Reader!States], fresh : SUBSET Reader!Pages]
Loads == [ask : Nat, page : Reader!Pages, state : Reader!States]

Types ==
  /\ Sized
  /\ pageUnits \in [Reader!Pages -> Reader!States] /\ shown \in [Reader!Pages -> Reader!States]
  /\ asks \in Seq(Asks) /\ loads \in SUBSET Loads
  /\ pages \in {0, NumPages} /\ rest \in Seq(Reader!Pages) /\ failures \in Nat

(* What a request works on it has read or written. *)
Seen == \A i \in DOMAIN asks : \A p \in Reader!Pages :
          asks[i].snap[p] # "none" => pageUnits[p] # "none" \/ p \in lost

(* While nothing fails a request is open until it is answered. *)
Awaited(a) == a.stage # "refused" /\ (a.stage # "answered" => a.open)
Unanswered == failures = 0 => \A i \in DOMAIN asks : Awaited(asks[i])

(* The units of a page are shown, or read, or will be read when the answer to a *)
(* request comes.                                                               *)
Due(p) ==
  \/ shown[p] # "none"
  \/ \E l \in loads : l.page = p
  \/ \E i \in DOMAIN asks : asks[i].open /\ p \in asks[i].pages

Pending ==
  failures = 0 /\ pages # 0 => \A p \in Reader!Pages \ lost : pageUnits[p] # "none" => Due(p)

Inv == Types /\ Seen /\ Unanswered /\ Pending

-----------------------------------------------------------------------------
(* Requests.                                                                *)

NewAsk(a) == a \in Asks /\ a.stage = "sent" /\ a.open /\ a.snap = Reader!NoSnap

(* The requests become these and at most a new one. *)
Asked(sofar) == asks' = sofar \/ \E a : NewAsk(a) /\ asks' = Append(sofar, a)

LEMMA AskIsNew ==
  ASSUME NEW from \in {"loop", "visible", "button"}, NEW chosen \in SUBSET Reader!Pages
  PROVE  NewAsk(Reader!Ask(from, chosen))
  BY DEF NewAsk, Reader!Ask, Asks, Reader!NoSnap, Stages, Reader!States

LEMMA AskedList ==
  ASSUME NEW sofar \in Seq(Asks), Asked(sofar)
  PROVE  /\ asks' \in Seq(Asks) /\ DOMAIN sofar \subseteq DOMAIN asks'
         /\ \A i \in DOMAIN sofar : asks'[i] = sofar[i]
         /\ \A i \in DOMAIN asks' : i \in DOMAIN sofar \/ NewAsk(asks'[i])
<1>1. CASE asks' = sofar
  BY <1>1
<1>2. CASE \E a : NewAsk(a) /\ asks' = Append(sofar, a)
  <2>1. PICK a : NewAsk(a) /\ asks' = Append(sofar, a)
    BY <1>2
  <2>2. a \in Asks
    BY <2>1 DEF NewAsk
  <2>3. /\ Append(sofar, a) \in Seq(Asks) /\ Len(Append(sofar, a)) = Len(sofar) + 1
        /\ DOMAIN sofar = 1..Len(sofar) /\ DOMAIN Append(sofar, a) = 1..Len(sofar) + 1
        /\ \A i \in 1..Len(sofar) : Append(sofar, a)[i] = sofar[i]
        /\ Append(sofar, a)[Len(sofar) + 1] = a /\ Len(sofar) \in Nat
    BY <2>2
  <2>4. /\ DOMAIN sofar \subseteq DOMAIN Append(sofar, a)
        /\ \A i \in DOMAIN Append(sofar, a) : i \in DOMAIN sofar \/ i = Len(sofar) + 1
    BY <2>3
  <2> QED BY <2>1, <2>3, <2>4
<1> QED BY <1>1, <1>2 DEF Asked

LEMMA ContinueAsks ==
  ASSUME Sized, NEW list \in Seq(Reader!Pages), NEW sofar, Reader!Continue(list, sofar)
  PROVE  Asked(sofar) /\ rest' \in Seq(Reader!Pages)
<1> DEFINE n == IF Len(list) < PagesAtOnce THEN Len(list) ELSE PagesAtOnce
<1>1. Len(list) \in Nat /\ n \in 0..Len(list)
  BY DEF Sized
<1> HIDE DEF n
<1>2. SubSeq(list, 1, n) \in Seq(Reader!Pages) /\ Len(SubSeq(list, 1, n)) = n
  BY <1>1
<1>3. Reader!Batch(list) = SubSeq(list, 1, n)
  BY DEF Reader!Batch, n
<1>4. SubSeq(list, n + 1, Len(list)) \in Seq(Reader!Pages)
  BY <1>1
<1>5. Reader!ToSet(Reader!Batch(list)) \in SUBSET Reader!Pages
  <2>1. PICK first \in Seq(Reader!Pages) : first = Reader!Batch(list)
    BY <1>2, <1>3
  <2>2. \A i \in DOMAIN first : first[i] \in Reader!Pages
    BY <2>1
  <2> QED BY <2>1, <2>2 DEF Reader!ToSet
<1>6. NewAsk(Reader!Ask("loop", Reader!ToSet(Reader!Batch(list))))
  BY <1>5, AskIsNew
<1> QED BY <1>2, <1>3, <1>4, <1>6 DEF Reader!Continue, Asked

LEMMA ListsOfPages ==
  ASSUME Sized
  PROVE  /\ \A known \in {0, NumPages} : Reader!AutoPages(known) \in Seq(Reader!Pages)
         /\ \A known \in {0, NumPages} : [i \in 1..known |-> i] \in Seq(Reader!Pages)
<1>1. ASSUME NEW n \in Nat, NEW f \in [1..n -> Reader!Pages] PROVE f \in Seq(Reader!Pages)
  OBVIOUS
<1>2. <<1>> \in Seq(Reader!Pages) /\ <<>> \in Seq(Reader!Pages)
  BY DEF Sized, Reader!Pages
<1>3. ASSUME NEW known \in {0, NumPages}, known >= AutoFrom
      PROVE  [i \in 1..(known - AutoFrom + 1) |-> AutoFrom + i - 1] \in Seq(Reader!Pages)
  <2>1. known - AutoFrom + 1 \in Nat
    BY <1>3 DEF Sized
  <2>2. \A i \in 1..(known - AutoFrom + 1) : AutoFrom + i - 1 \in Reader!Pages
    BY <1>3 DEF Sized, Reader!Pages
  <2> QED BY <1>1, <2>1, <2>2
<1>4. ASSUME NEW known \in {0, NumPages} PROVE [i \in 1..known |-> i] \in Seq(Reader!Pages)
  <2>1. known \in Nat /\ \A i \in 1..known : i \in Reader!Pages
    BY DEF Sized, Reader!Pages
  <2> QED BY <1>1, <2>1
<1> QED BY <1>2, <1>3, <1>4 DEF Reader!AutoPages

LEMMA TranslateAllAsks ==
  ASSUME Types, NEW list \in Seq(Reader!Pages), Reader!TranslateAll(list)
  PROVE  Asked(asks) /\ rest' \in Seq(Reader!Pages)
<1>1. Reader!Continue(list, asks) \/ UNCHANGED <<asks, rest>>
  BY DEF Reader!TranslateAll
<1> QED BY <1>1, ContinueAsks DEF Types, Asked

LEMMA StartLoopAsks ==
  ASSUME Types, pages' \in {0, NumPages}, Reader!StartLoop
  PROVE  Asked(asks) /\ rest' \in Seq(Reader!Pages)
<1>1. PICK list : list = Reader!AutoPages(pages')
  OBVIOUS
<1>2. list \in Seq(Reader!Pages)
  BY <1>1, ListsOfPages DEF Types
<1>3. Reader!TranslateAll(list) \/ UNCHANGED <<asks, rest>>
  BY <1>1 DEF Reader!StartLoop
<1> QED BY <1>2, <1>3, TranslateAllAsks DEF Types, Asked

-----------------------------------------------------------------------------
(* The client's steps: requests are sent or end, and loads begin.           *)

LEMMA ClientKept ==
  ASSUME Inv, UNCHANGED <<pageUnits, shown, lost>>,
         loads \subseteq loads', loads' \subseteq Loads, rest' \in Seq(Reader!Pages),
         failures' \in Nat, failures' = 0 => failures = 0,
         pages' \in {0, NumPages},
         pages' = pages \/ \A p \in Reader!Pages : \E l \in loads' : l.page = p,
         NEW sofar \in Seq(Asks), Asked(sofar), DOMAIN sofar = DOMAIN asks,
         \A i \in DOMAIN asks :
           /\ sofar[i].snap = asks[i].snap /\ sofar[i].pages = asks[i].pages
           /\ failures' = 0 => Awaited(sofar[i])
           /\ failures' = 0 /\ asks[i].open /\ ~sofar[i].open =>
                \A p \in asks[i].pages : \E l \in loads' : l.page = p
  PROVE  Inv'
<1>1. /\ asks' \in Seq(Asks) /\ DOMAIN asks \subseteq DOMAIN asks'
      /\ \A i \in DOMAIN asks : asks'[i] = sofar[i]
      /\ \A i \in DOMAIN asks' : i \in DOMAIN asks \/ NewAsk(asks'[i])
  BY AskedList
<1>2. Types'
  BY <1>1 DEF Inv, Types
<1>3. Seen'
  <2> SUFFICES ASSUME NEW i \in DOMAIN asks', NEW p \in Reader!Pages, asks'[i].snap[p] # "none"
               PROVE  pageUnits[p] # "none" \/ p \in lost
    BY DEF Seen
  <2>1. Reader!NoSnap[p] = "none"
    BY DEF Reader!NoSnap
  <2> QED BY <1>1, <2>1 DEF Inv, Seen, NewAsk
<1>4. Unanswered'
  BY <1>1 DEF Unanswered, Awaited, NewAsk
<1>5. Pending'
  <2> SUFFICES ASSUME failures' = 0, pages' # 0, NEW p \in Reader!Pages,
                      p \notin lost, pageUnits[p] # "none"
               PROVE  Due(p)'
    BY DEF Pending
  <2>1. CASE \E l \in loads' : l.page = p
    BY <2>1 DEF Due
  <2>2. CASE pages' = pages
    <3>1. Due(p)
      BY <2>2 DEF Inv, Pending
    <3>2. ASSUME NEW i \in DOMAIN asks, asks[i].open, p \in asks[i].pages
          PROVE  Due(p)'
      BY <1>1, <3>2 DEF Due
    <3> QED BY <3>1, <3>2 DEF Due
  <2> QED BY <2>1, <2>2
<1> QED BY <1>2, <1>3, <1>4, <1>5 DEF Inv

LEMMA LoadsTyped ==
  ASSUME Types, NEW i \in DOMAIN asks
  PROVE  /\ Reader!LoadsOf(i) \subseteq Loads
         /\ \A p \in asks[i].pages : \E l \in Reader!LoadsOf(i) : l.page = p
<1>1. i \in Nat /\ asks[i] \in Asks
  BY DEF Types
<1>2. \A p \in Reader!Pages : Reader!Load(i, p) \in Loads /\ Reader!Load(i, p).page = p
  BY <1>1 DEF Reader!Load, Loads, Reader!States
<1>3. asks[i].pages \subseteq Reader!Pages
  BY <1>1 DEF Asks
<1> QED BY <1>2, <1>3 DEF Reader!LoadsOf

(* Steps that end no request. *)
LEMMA SendKept ==
  ASSUME Inv, UNCHANGED <<pageUnits, shown, lost, failures>>,
         loads \subseteq loads', loads' \subseteq Loads, rest' \in Seq(Reader!Pages), pages' \in {0, NumPages},
         pages' = pages \/ \A p \in Reader!Pages : \E l \in loads' : l.page = p,
         Asked(asks)
  PROVE  Inv'
<1>1. asks \in Seq(Asks) /\ failures' \in Nat
  BY DEF Inv, Types
<1>2. failures' = 0 => \A i \in DOMAIN asks : Awaited(asks[i])
  BY DEF Inv, Unanswered
<1> QED BY <1>1, <1>2, ClientKept

LEMMA DocumentKept == ASSUME Inv, Reader!Document PROVE Inv'
<1>1. /\ pages' \in {0, NumPages} /\ UNCHANGED <<pageUnits, shown, lost, failures>>
      /\ loads' = loads \cup {Reader!Load(0, p) : p \in Reader!Pages}
      /\ Reader!StartLoop \/ UNCHANGED <<asks, rest>>
  BY DEF Reader!Document
<1>2. \A p \in Reader!Pages : Reader!Load(0, p) \in Loads /\ Reader!Load(0, p).page = p
  BY DEF Reader!Load, Loads, Reader!States
<1>3. loads \subseteq loads' /\ loads' \subseteq Loads /\ \A p \in Reader!Pages : \E l \in loads' : l.page = p
  BY <1>1, <1>2 DEF Inv, Types
<1>4. Asked(asks) /\ rest' \in Seq(Reader!Pages)
  BY <1>1, StartLoopAsks DEF Inv, Types, Asked
<1> QED BY <1>1, <1>3, <1>4, SendKept

LEMMA UserKept ==
  ASSUME Inv, \/ Reader!TranslateAllPressed \/ (\E m \in Reader!Modes : Reader!SetDisplayMode(m))
              \/ \E p \in Reader!Pages : Reader!TranslateVisible(p) \/ Reader!TranslatePages(p)
  PROVE  Inv'
<1>1. /\ UNCHANGED <<pageUnits, shown, lost, failures, loads, pages>>
      /\ loads \subseteq Loads /\ pages \in {0, NumPages} /\ rest \in Seq(Reader!Pages)
  BY DEF Reader!TranslateAllPressed, Reader!SetDisplayMode, Reader!TranslateVisible,
         Reader!TranslatePages, Inv, Types
<1>2. Asked(asks) /\ rest' \in Seq(Reader!Pages)
  <2>1. CASE Reader!TranslateAllPressed
    BY <1>1, <2>1, TranslateAllAsks, ListsOfPages DEF Reader!TranslateAllPressed, Reader!Known, Inv, Types
  <2>2. CASE \E m \in Reader!Modes : Reader!SetDisplayMode(m)
    BY <1>1, <2>2, StartLoopAsks DEF Reader!SetDisplayMode, Inv
  <2>3. ASSUME NEW from \in {"visible", "button"}, NEW chosen \in SUBSET Reader!Pages,
               asks' = Append(asks, Reader!Ask(from, chosen)), UNCHANGED rest
        PROVE  Asked(asks) /\ rest' \in Seq(Reader!Pages)
    BY <1>1, <2>3, AskIsNew DEF Asked
  <2>4. CASE \E p \in Reader!Pages : Reader!TranslateVisible(p)
    <3>1. PICK p \in Reader!Pages : Reader!TranslateVisible(p)
      BY <2>4
    <3>2. {p, p + 1} \cap Reader!Known \in SUBSET Reader!Pages
      BY <1>1 DEF Sized, Reader!Known, Reader!Pages
    <3> QED BY <2>3, <3>1, <3>2 DEF Reader!TranslateVisible
  <2>5. CASE \E p \in Reader!Pages : Reader!TranslatePages(p)
    BY <2>3, <2>5 DEF Reader!TranslatePages
  <2> QED BY <2>1, <2>2, <2>4, <2>5
<1> QED BY <1>1, <1>2, SendKept

LEMMA PollKept == ASSUME Inv, NEW i \in DOMAIN asks, Reader!Poll(i) PROVE Inv'
<1>1. /\ UNCHANGED <<pageUnits, shown, lost, failures, pages, asks, rest>>
      /\ loads' = loads \cup Reader!LoadsOf(i)
  BY DEF Reader!Poll
<1>2. loads' \subseteq Loads
  BY <1>1, LoadsTyped DEF Inv, Types
<1>3. pages \in {0, NumPages} /\ rest \in Seq(Reader!Pages)
  BY DEF Inv, Types
<1> QED BY <1>1, <1>2, <1>3, SendKept DEF Asked

LEMMA SameKept ==
  ASSUME Inv, UNCHANGED <<pageUnits, shown, lost, failures, pages, asks, rest, loads>> PROVE Inv'
<1>1. loads \subseteq Loads /\ pages \in {0, NumPages} /\ rest \in Seq(Reader!Pages)
  BY DEF Inv, Types
<1> QED BY <1>1, SendKept DEF Asked

(* A request ends: answered, or not while something failed. *)
LEMMA EndedKept ==
  ASSUME Inv, NEW i \in DOMAIN asks, NEW ok \in BOOLEAN, Reader!Ended(i, ok),
         UNCHANGED <<pageUnits, shown, lost, pages>>, failures' \in Nat, failures' = 0 => failures = 0,
         loads \subseteq loads', loads' \subseteq Loads,
         failures' = 0 => /\ asks[i].stage = "answered"
                          /\ \A p \in asks[i].pages : \E l \in loads' : l.page = p
  PROVE  Inv'
<1> DEFINE closed == [asks EXCEPT ![i].open = FALSE]
<1>0. /\ asks \in Seq(Asks) /\ asks[i] \in Asks /\ rest \in Seq(Reader!Pages) /\ <<>> \in Seq(Reader!Pages)
      /\ pages \in {0, NumPages}
  BY DEF Inv, Types
<1>1. [asks[i] EXCEPT !.open = FALSE] \in Asks
  BY <1>0 DEF Asks
<1>2. /\ closed \in Seq(Asks) /\ DOMAIN closed = DOMAIN asks
      /\ closed[i] = [asks[i] EXCEPT !.open = FALSE]
      /\ \A j \in DOMAIN asks \ {i} : closed[j] = asks[j]
  BY <1>0, <1>1
<1> HIDE DEF closed
<1>3. Asked(closed) /\ rest' \in Seq(Reader!Pages)
  <2>1. Reader!Continue(IF ok THEN rest ELSE <<>>, closed) \/ (asks' = closed /\ UNCHANGED rest)
    <3>1. asks[i].from \in {"loop", "button", "visible"}
      BY <1>0 DEF Asks
    <3> QED BY <3>1 DEF Reader!Ended, closed
  <2>2. (IF ok THEN rest ELSE <<>>) \in Seq(Reader!Pages)
    BY <1>0
  <2> QED BY <1>0, <2>1, <2>2, ContinueAsks DEF Inv, Types, Asked
<1>4. /\ closed[i].snap = asks[i].snap /\ closed[i].pages = asks[i].pages
      /\ closed[i].stage = asks[i].stage
  BY <1>0, <1>2 DEF Asks
<1>5. ASSUME NEW j \in DOMAIN asks
      PROVE  /\ closed[j].snap = asks[j].snap /\ closed[j].pages = asks[j].pages
             /\ failures' = 0 => Awaited(closed[j])
             /\ failures' = 0 /\ asks[j].open /\ ~closed[j].open =>
                  \A p \in asks[j].pages : \E l \in loads' : l.page = p
  <2>1. CASE j = i
    BY <1>4, <2>1 DEF Awaited
  <2>2. CASE j # i
    BY <1>2, <2>2 DEF Inv, Unanswered
  <2> QED BY <2>1, <2>2
<1> QED BY <1>0, <1>2, <1>3, <1>5, ClientKept

LEMMA AnsweredKept == ASSUME Inv, NEW i \in DOMAIN asks, Reader!Answered(i) PROVE Inv'
<1>1. /\ asks[i].stage = "answered" /\ loads' = loads \cup Reader!LoadsOf(i) /\ Reader!Ended(i, TRUE)
      /\ UNCHANGED <<pageUnits, pages, shown, failures, lost>>
  BY DEF Reader!Answered
<1>2. loads' \subseteq Loads /\ \A p \in asks[i].pages : \E l \in loads' : l.page = p
  BY <1>1, LoadsTyped DEF Inv, Types
<1>3. failures' \in Nat
  BY <1>1 DEF Inv, Types
<1> QED BY <1>1, <1>2, <1>3, EndedKept

LEMMA FailedKept == ASSUME Inv, NEW i \in DOMAIN asks, Reader!Failed(i) PROVE Inv'
<1>1. /\ Reader!Ended(i, FALSE) /\ UNCHANGED <<pageUnits, loads, pages, shown, lost>>
      /\ (asks[i].stage = "refused" /\ UNCHANGED failures) \/ failures' = failures + 1
  BY DEF Reader!Failed, Reader!Fail
<1>2. failures \in Nat /\ loads \subseteq Loads /\ (failures = 0 => asks[i].stage # "refused")
  BY DEF Inv, Types, Unanswered, Awaited
<1>3. failures' \in Nat /\ failures' # 0
  BY <1>1, <1>2
<1> QED BY <1>1, <1>2, <1>3, EndedKept

-----------------------------------------------------------------------------
(* The server's steps, and the answers to loads.                            *)

(* A request is changed in place, and the document perhaps written. *)
LEMMA ServerKept ==
  ASSUME Inv, NEW i \in DOMAIN asks, NEW a \in Asks, asks' = [asks EXCEPT ![i] = a],
         asks[i].stage \in {"sent", "working"},
         UNCHANGED <<shown, loads, pages, rest>>, failures' \in Nat, failures' = 0 => failures = 0,
         pageUnits' \in [Reader!Pages -> Reader!States], lost \subseteq lost',
         \A p \in Reader!Pages : pageUnits[p] # "none" => pageUnits'[p] # "none" \/ p \in lost',
         \A p \in Reader!Pages : a.snap[p] # "none" => pageUnits'[p] # "none" \/ p \in lost',
         \A p \in Reader!Pages : pageUnits'[p] # "none" => pageUnits[p] # "none" \/ p \in lost \/ p \in a.pages,
         a.pages = asks[i].pages, a.open = asks[i].open, failures' = 0 => a.stage # "refused"
  PROVE  Inv'
<1>1. /\ asks' \in Seq(Asks) /\ DOMAIN asks' = DOMAIN asks /\ asks'[i] = a
      /\ \A j \in DOMAIN asks \ {i} : asks'[j] = asks[j]
  BY DEF Inv, Types
<1>2. Types'
  BY <1>1 DEF Inv, Types
<1>3. Seen'
  <2> SUFFICES ASSUME NEW j \in DOMAIN asks, NEW p \in Reader!Pages, asks'[j].snap[p] # "none"
               PROVE  pageUnits'[p] # "none" \/ p \in lost'
    BY <1>1 DEF Seen
  <2>1. CASE j = i
    BY <1>1, <2>1
  <2>2. CASE j # i
    BY <1>1, <2>2 DEF Inv, Seen
  <2> QED BY <2>1, <2>2
<1>4. failures = 0 => asks[i].open
  BY DEF Inv, Unanswered, Awaited
<1>5. Unanswered'
  <2> SUFFICES ASSUME failures' = 0, NEW j \in DOMAIN asks PROVE Awaited(asks'[j])
    BY <1>1 DEF Unanswered, Awaited
  <2>1. CASE j = i
    BY <1>1, <1>4, <2>1 DEF Awaited
  <2>2. CASE j # i
    BY <1>1, <2>2 DEF Inv, Unanswered
  <2> QED BY <2>1, <2>2
<1>6. Pending'
  <2> SUFFICES ASSUME failures' = 0, pages' # 0, NEW p \in Reader!Pages,
                      p \notin lost', pageUnits'[p] # "none"
               PROVE  Due(p)'
    BY DEF Pending
  <2>1. CASE p \in a.pages
    BY <1>1, <1>4, <2>1 DEF Due
  <2>2. CASE p \notin a.pages
    <3>1. Due(p)
      BY <2>2 DEF Inv, Pending
    <3>2. ASSUME NEW j \in DOMAIN asks, asks[j].open, p \in asks[j].pages PROVE Due(p)'
      <4>1. asks'[j].open /\ p \in asks'[j].pages
        BY <1>1, <3>2
      <4> QED BY <1>1, <4>1 DEF Due
    <3> QED BY <3>1, <3>2 DEF Due
  <2> QED BY <2>1, <2>2
<1> QED BY <1>2, <1>3, <1>5, <1>6 DEF Inv

(* The document is written as this request has it. *)
LEMMA WrittenBack ==
  ASSUME Types, NEW doc \in [Reader!Pages -> Reader!States], Reader!Write(doc)
  PROVE  /\ pageUnits' = doc /\ lost \subseteq lost'
         /\ \A p \in Reader!Pages : pageUnits[p] # "none" => pageUnits'[p] # "none" \/ p \in lost'
  BY DEF Reader!Write

LEMMA ReadUnitsKept == ASSUME Inv, NEW i \in DOMAIN asks, Reader!ReadUnits(i) PROVE Inv'
<1> DEFINE a == [asks[i] EXCEPT !.stage = "working", !.snap = pageUnits]
<1>1. /\ asks[i].stage = "sent" /\ UNCHANGED <<pageUnits, lost, shown, loads, pages, rest, failures>>
      /\ asks' = [asks EXCEPT ![i] = a]
  BY DEF Reader!ReadUnits
<1>2. asks[i] \in Asks /\ pageUnits \in [Reader!Pages -> Reader!States] /\ failures \in Nat
  BY DEF Inv, Types
<1>3. /\ a \in Asks /\ a.snap = pageUnits /\ a.pages = asks[i].pages /\ a.open = asks[i].open
      /\ a.stage = "working"
  BY <1>2 DEF Asks, Stages
<1> HIDE DEF a
<1> QED BY <1>1, <1>2, <1>3, ServerKept

LEMMA StoreUnitsKept == ASSUME Inv, NEW i \in DOMAIN asks, Reader!StoreUnits(i) PROVE Inv'
<1>1. /\ asks[i].stage = "working" /\ UNCHANGED <<shown, loads, pages, rest, failures>>
      /\ \E p \in Reader!Todo(asks[i]) \ asks[i].fresh : \E s \in Outcomes :
           /\ Reader!Write([asks[i].snap EXCEPT ![p] = s])
           /\ asks' = [asks EXCEPT ![i].snap = [asks[i].snap EXCEPT ![p] = s], ![i].fresh = @ \cup {p}]
  BY DEF Reader!StoreUnits
<1>2. PICK p \in Reader!Todo(asks[i]), s \in Outcomes :
        /\ Reader!Write([asks[i].snap EXCEPT ![p] = s])
        /\ asks' = [asks EXCEPT ![i].snap = [asks[i].snap EXCEPT ![p] = s], ![i].fresh = @ \cup {p}]
  BY <1>1
<1>3. /\ asks[i] \in Asks /\ asks[i].snap \in [Reader!Pages -> Reader!States]
      /\ p \in asks[i].pages /\ p \in Reader!Pages
      /\ s \in Reader!States /\ failures \in Nat /\ asks[i].fresh \subseteq Reader!Pages /\ asks[i].stage = "working"
  <2>1. asks[i] \in Asks /\ failures \in Nat
    BY DEF Inv, Types
  <2>2. /\ asks[i].snap \in [Reader!Pages -> Reader!States] /\ asks[i].pages \in SUBSET Reader!Pages
        /\ asks[i].fresh \in SUBSET Reader!Pages
    BY <2>1 DEF Asks
  <2>3. p \in asks[i].pages /\ s \in Reader!States
    BY DEF Inv, Types, Sized, Reader!Todo, Reader!States
  <2> QED BY <1>1, <2>1, <2>2, <2>3
<1>4. PICK written : written = [asks[i].snap EXCEPT ![p] = s]
  OBVIOUS
<1>5. /\ written \in [Reader!Pages -> Reader!States]
      /\ \A q \in Reader!Pages \ {p} : written[q] = asks[i].snap[q]
  BY <1>3, <1>4
<1> DEFINE a == [asks[i] EXCEPT !.snap = written, !.fresh = asks[i].fresh \cup {p}]
<1>6. asks' = [asks EXCEPT ![i] = a]
  BY <1>2, <1>4
<1>7. /\ a \in Asks /\ a.snap = written /\ a.pages = asks[i].pages /\ a.open = asks[i].open
      /\ a.stage = "working"
  BY <1>3, <1>5 DEF Asks, Stages
<1> HIDE DEF a
<1>8. /\ pageUnits' = written /\ lost \subseteq lost'
      /\ \A q \in Reader!Pages : pageUnits[q] # "none" => pageUnits'[q] # "none" \/ q \in lost'
  BY <1>2, <1>4, <1>5, WrittenBack DEF Inv
<1>9. \A q \in Reader!Pages : pageUnits'[q] # "none" => pageUnits[q] # "none" \/ q \in lost \/ q \in a.pages
  BY <1>3, <1>5, <1>7, <1>8 DEF Inv, Seen
<1> QED BY <1>1, <1>3, <1>5, <1>6, <1>7, <1>8, <1>9, ServerKept

LEMMA RespondKept == ASSUME Inv, NEW i \in DOMAIN asks, Reader!Respond(i) PROVE Inv'
<1>1. asks[i] \in Asks /\ asks[i].snap \in [Reader!Pages -> Reader!States] /\ failures \in Nat
      /\ pageUnits \in [Reader!Pages -> Reader!States] /\ Reader!NoSnap \in [Reader!Pages -> Reader!States]
  <2>1. asks[i] \in Asks /\ failures \in Nat /\ pageUnits \in [Reader!Pages -> Reader!States]
    BY DEF Inv, Types
  <2>2. asks[i].snap \in [Reader!Pages -> Reader!States]
    BY <2>1 DEF Asks
  <2> QED BY <2>1, <2>2 DEF Reader!NoSnap, Reader!States
<1>2. PICK stage \in {"answered", "refused"} :
        /\ asks' = [asks EXCEPT ![i].stage = stage, ![i].snap = Reader!NoSnap, ![i].fresh = {}]
        /\ UNCHANGED <<pageUnits, lost>> \/ Reader!Write(asks[i].snap)
        /\ (stage = "answered" /\ UNCHANGED failures) \/ (stage = "refused" /\ failures' = failures + 1)
  BY DEF Reader!Respond, Reader!Fail
<1>3. asks[i].stage = "working" /\ UNCHANGED <<shown, loads, pages, rest>>
  BY DEF Reader!Respond
<1> DEFINE a == [asks[i] EXCEPT !.stage = stage, !.snap = Reader!NoSnap, !.fresh = {}]
<1>4. asks' = [asks EXCEPT ![i] = a]
  BY <1>2
<1>5. /\ a \in Asks /\ a.snap = Reader!NoSnap /\ a.pages = asks[i].pages /\ a.open = asks[i].open
      /\ a.stage = stage
  BY <1>1 DEF Asks, Stages
<1> HIDE DEF a
<1>6. /\ pageUnits' \in [Reader!Pages -> Reader!States] /\ lost \subseteq lost'
      /\ \A p \in Reader!Pages : pageUnits[p] # "none" => pageUnits'[p] # "none" \/ p \in lost'
      /\ \A p \in Reader!Pages : pageUnits'[p] # "none" => pageUnits[p] # "none" \/ p \in lost
  <2>1. CASE UNCHANGED <<pageUnits, lost>>
    BY <1>1, <2>1
  <2>2. CASE Reader!Write(asks[i].snap)
    BY <1>1, <2>2, WrittenBack DEF Inv, Seen
  <2> QED BY <1>2, <2>1, <2>2
<1>7. \A p \in Reader!Pages : a.snap[p] = "none"
  BY <1>5 DEF Reader!NoSnap
<1>8. failures' \in Nat /\ (failures' = 0 => failures = 0 /\ a.stage # "refused")
  BY <1>1, <1>2, <1>5
<1> QED BY <1>3, <1>4, <1>5, <1>6, <1>7, <1>8, ServerKept

(* The answer to a load: the load ends, read or shown, unless it found nothing. *)
LEMMA LoadsKept ==
  ASSUME Inv, UNCHANGED <<pageUnits, asks, pages, rest, lost>>, failures' \in Nat,
         failures' = 0 => failures = 0, shown' \in [Reader!Pages -> Reader!States], loads' \subseteq Loads,
         failures' = 0 => \A p \in Reader!Pages : shown[p] # "none" => shown'[p] # "none",
         failures' = 0 => \A l \in loads : pageUnits[l.page] = "none" \/ shown'[l.page] # "none"
                                           \/ \E m \in loads' : m.page = l.page
  PROVE  Inv'
<1>1. Types' /\ Seen' /\ Unanswered'
  BY DEF Inv, Types, Seen, Unanswered
<1>2. Pending'
  <2> SUFFICES ASSUME failures' = 0, pages # 0, NEW p \in Reader!Pages,
                      p \notin lost, pageUnits[p] # "none"
               PROVE  Due(p)'
    BY DEF Pending
  <2>1. Due(p)
    BY DEF Inv, Pending
  <2> QED BY <2>1 DEF Due
<1> QED BY <1>1, <1>2 DEF Inv

LEMMA ReadLoadKept == ASSUME Inv, NEW l \in loads, Reader!ReadLoad(l) PROVE Inv'
<1>1. /\ UNCHANGED <<pageUnits, asks, pages, rest, lost, shown, failures>>
      /\ loads' = (loads \ {l}) \cup {m \in {[l EXCEPT !.state = pageUnits[l.page]]} : m.state # "none"}
  BY DEF Reader!ReadLoad
<1>2. /\ l \in Loads /\ loads \subseteq Loads
      /\ pageUnits \in [Reader!Pages -> Reader!States] /\ shown \in [Reader!Pages -> Reader!States]
      /\ failures \in Nat
  BY DEF Inv, Types
<1>3. PICK new : new = [l EXCEPT !.state = pageUnits[l.page]]
  OBVIOUS
<1>4. new \in Loads /\ new.page = l.page /\ new.state = pageUnits[l.page]
  BY <1>2, <1>3 DEF Loads
<1>5. loads' \subseteq Loads
  BY <1>1, <1>2, <1>3, <1>4
<1>6. pageUnits[l.page] = "none" \/ new \in loads'
  BY <1>1, <1>3, <1>4
<1>7. \A o \in loads : o = l \/ o \in loads'
  BY <1>1
<1> QED BY <1>1, <1>2, <1>4, <1>5, <1>6, <1>7, LoadsKept

LEMMA LoadedKept == ASSUME Inv, NEW l \in loads, Reader!Loaded(l) PROVE Inv'
<1>1. /\ UNCHANGED <<pageUnits, asks, pages, rest, lost>> /\ loads' = loads \ {l}
      /\ \/ l.state # "none" /\ shown' = [shown EXCEPT ![l.page] = l.state] /\ UNCHANGED failures
         \/ failures' = failures + 1 /\ UNCHANGED shown
  BY DEF Reader!Loaded, Reader!Fail
<1>2. /\ l \in Loads /\ l.page \in Reader!Pages /\ l.state \in Reader!States /\ loads \subseteq Loads
      /\ shown \in [Reader!Pages -> Reader!States] /\ failures \in Nat
  BY DEF Inv, Types, Loads
<1>3. CASE l.state # "none" /\ shown' = [shown EXCEPT ![l.page] = l.state] /\ UNCHANGED failures
  <2>1. /\ shown' \in [Reader!Pages -> Reader!States] /\ shown'[l.page] # "none"
        /\ \A p \in Reader!Pages : shown[p] # "none" => shown'[p] # "none"
    BY <1>2, <1>3
  <2>2. loads' \subseteq Loads /\ \A o \in loads : o = l \/ o \in loads'
    BY <1>1, <1>2
  <2> QED BY <1>1, <1>2, <1>3, <2>1, <2>2, LoadsKept
<1>4. CASE failures' = failures + 1 /\ UNCHANGED shown
  <2>1. failures' \in Nat /\ failures' # 0 /\ loads' \subseteq Loads
    BY <1>1, <1>2, <1>4
  <2> QED BY <1>1, <1>2, <1>4, <2>1, LoadsKept
<1> QED BY <1>1, <1>3, <1>4

-----------------------------------------------------------------------------
(* The property.                                                            *)

LEMMA Starts == Sized /\ Reader!Init => Inv
<1> SUFFICES ASSUME Sized, Reader!Init PROVE Inv
  OBVIOUS
<1>1. PICK a : a = Reader!Ask("loop", Reader!ToSet(Reader!AutoPages(0)))
  OBVIOUS
<1>2. Reader!ToSet(Reader!AutoPages(0)) \in SUBSET Reader!Pages
  <2>1. PICK list \in Seq(Reader!Pages) : list = Reader!AutoPages(0)
    BY ListsOfPages
  <2> QED BY <2>1 DEF Reader!ToSet
<1>3. NewAsk(a)
  BY <1>1, <1>2, AskIsNew
<1>4. asks = <<a>> /\ asks \in Seq(Asks) /\ DOMAIN asks = {1} /\ asks[1] = a
  BY <1>1, <1>3 DEF Reader!Init, NewAsk
<1>5. Types
  <2>1. <<>> \in Seq(Reader!Pages)
    OBVIOUS
  <2>2. pageUnits \in [Reader!Pages -> Reader!States] /\ shown \in [Reader!Pages -> Reader!States]
    BY DEF Reader!Init, Reader!States
  <2> QED BY <1>4, <2>1, <2>2 DEF Reader!Init, Types
<1>6. Seen
  BY <1>3, <1>4 DEF Seen, NewAsk, Reader!NoSnap
<1>7. Unanswered /\ Pending
  BY <1>3, <1>4 DEF Unanswered, Awaited, NewAsk, Pending, Reader!Init
<1> QED BY <1>5, <1>6, <1>7 DEF Inv

LEMMA Preserved == Inv /\ [Reader!Next]_(Reader!vars) => Inv'
<1> SUFFICES ASSUME Inv, [Reader!Next]_(Reader!vars) PROVE Inv'
  OBVIOUS
<1>1. CASE Reader!ClearNotice \/ UNCHANGED Reader!vars
  <2>1. UNCHANGED <<pageUnits, shown, lost, failures, pages, asks, rest, loads>>
    BY <1>1 DEF Reader!ClearNotice, Reader!vars
  <2> QED BY <2>1, SameKept
<1>2. ASSUME NEW i \in DOMAIN asks, Reader!Poll(i) \/ Reader!ServerStep(i) \/ Reader!ClientStep(i)
      PROVE  Inv'
  BY <1>2, PollKept, ReadUnitsKept, StoreUnitsKept, RespondKept, AnsweredKept, FailedKept
     DEF Reader!ServerStep, Reader!ClientStep
<1>3. ASSUME NEW l \in loads, Reader!ReadLoad(l) \/ Reader!Loaded(l) PROVE Inv'
  BY <1>3, ReadLoadKept, LoadedKept
<1> QED BY <1>1, <1>2, <1>3, DocumentKept, UserKept DEF Reader!Next

(* For any number of pages, any batches and any requests: whatever overlaps, *)
(* when nothing is under way the reader shows what is stored, unless a       *)
(* writer that had not seen it overwrote it or something failed.             *)
THEOREM PagesShown == Sized /\ Reader!Spec => []Reader!StoredPagesAreShown
<1>1. Inv => Reader!StoredPagesAreShown
  BY DEF Inv, Pending, Due, Reader!AtRest, Reader!StoredPagesAreShown
<1>2. Sized /\ Reader!Init /\ [][Reader!Next]_(Reader!vars) => []Inv
  BY Starts, Preserved, PTL
<1>3. Sized /\ Reader!Init /\ [][Reader!Next]_(Reader!vars) => []Reader!StoredPagesAreShown
  BY <1>1, <1>2, PTL
<1> QED BY <1>3 DEF Reader!Spec
=============================================================================
