-------------------------- MODULE AgentPanelProofs --------------------------
(***************************************************************************)
(* What the panel shows, what the server stores and how often, for every   *)
(* number of sessions, questions, breaks and moves.                        *)
(***************************************************************************)
EXTENDS AgentPanel, FiniteSetTheorems, SequenceTheorems, WellFoundedInduction, TLAPS

-----------------------------------------------------------------------------
(* The inductive invariant.                                                 *)

Rows == [role : {"user", "assistant"}, run : 0..MaxRuns]
Texts == {"question", "stage", "answer", "error"}
Messages == [role : {"user", "assistant"}, run : 0..MaxRuns, text : Texts]
Loads == [kind : {"restore", "switch"}, session : Sessions, read : BOOLEAN, rows : Seq(Rows)]
PC == {"idle", "waiting", "streaming", "buffered", "over"}
Streams == {"none", "open", "asked", "completed", "error", "done"}
Posts == {"none", "sent", "stored", "failed"}

Typed ==
  /\ exists \subseteq Sessions /\ deleted \subseteq Sessions
  /\ store \in [Sessions -> Seq(Rows)]
  /\ sessionRef \in Sessions \cup {NoSession}
  /\ promise \in Sessions \cup {Pending, Rejected}
  /\ messages \in Seq(Messages)
  /\ pc \in [Runs -> PC]
  /\ sid \in [Runs -> Sessions \cup {NoSession}]
  /\ stream \in [Runs -> Streams]
  /\ post \in [Runs -> Posts]
  /\ loads \subseteq Loads

(* A session comes into being once; the panel asks in one that exists, or has
   the promise of the first one, which may have been deleted. *)
SessionsInv ==
  /\ \E n \in 0..MaxSessions : exists \cup deleted = 1..n
  /\ exists \cap deleted = {}
  /\ \A s \in Sessions \ (exists \cup deleted) : store[s] = <<>>
  /\ sessionRef # NoSession => sessionRef \in exists
  /\ promise \in Sessions => promise \in exists \cup deleted
  /\ sessionRef = NoSession /\ promise \in Sessions => recreating

(* A question has a session from its stream on, which its run outlives only by
   breaking. *)
RunsInv ==
  \A r \in Runs :
    /\ stream[r] = "none" => post[r] = "none" /\ sid[r] = NoSession
    /\ stream[r] # "none" => sid[r] \in exists \cup deleted
    /\ pc[r] \in {"idle", "waiting"} => stream[r] = "none"
    /\ pc[r] \in {"streaming", "buffered"} => stream[r] # "none"
    /\ stream[r] = "done" => pc[r] = "over"
    /\ pc[r] = "streaming" => post[r] = "none"
    /\ pc[r] = "buffered" => post[r] # "none"
    /\ post[r] = "none" /\ stream[r] \notin {"none", "done"} => pc[r] = "streaming"

(* How often a question can have been stored by what its requests have done. *)
Copies(r, s) == {i \in DOMAIN store[s] : store[s][i] = Row("user", r)}
Attempts(r, s) ==
  IF s = sid[r] THEN (IF stream[r] \in {"none", "open"} THEN 0 ELSE 1)
                       + (IF post[r] = "stored" THEN 1 ELSE 0)
  ELSE 0
CopiesInv == \A r \in Runs, s \in Sessions : Cardinality(Copies(r, s)) <= Attempts(r, s)

(* The answer of a question is stored, or was deleted with its session. *)
Safe(r) ==
  /\ sid[r] \in Sessions
  /\ \/ sid[r] \in deleted
     \/ \E k \in DOMAIN store[sid[r]] : store[sid[r]][k] = Row("assistant", r)
SafeRows == {row \in Rows : row.role = "assistant" /\ row.run \in Runs => Safe(row.run)}
SafeMessages == {m \in Messages : m.text = "answer" /\ m.run \in Runs => Safe(m.run)}
AnswersInv ==
  /\ \A s \in Sessions : store[s] \in Seq(SafeRows)
  /\ messages \in Seq(SafeMessages)
  /\ \A l \in loads : l.rows \in Seq(SafeRows)
  /\ \A r \in Runs : stream[r] = "completed" \/ post[r] = "stored" => Safe(r)

(* What the panel is doing while the user waits for it and no stream breaks. *)
Quiet == ~disturbed /\ \A r \in Runs : ~Broken(r)
Calm == \A r \in Runs : ~Active(r)

Entering == promise = Pending /\ sessionRef = NoSession /\ messages = <<>> /\ loads = {}
            /\ ~recreating /\ Calm
Loading ==
  /\ promise # Pending /\ ~recreating /\ Calm
  /\ sessionRef # NoSession /\ messages = <<>>
  /\ \E l \in loads : loads = {l} /\ l.session = sessionRef /\ (l.read => l.rows = store[sessionRef])
Recreating == promise # Pending /\ sessionRef = NoSession /\ messages = <<>> /\ loads = {}
              /\ recreating /\ Calm
Resting ==
  /\ promise # Pending /\ ~recreating /\ loads = {} /\ Calm
  /\ sessionRef # NoSession => Without(messages, "error") = Restored(store[sessionRef])

(* The placeholder stands for what the stream has not stored yet. *)
Caught(r, list, kept) ==
  /\ stream[r] = "open" => list = Append(kept, Message("user", r, "question"))
  /\ stream[r] \in {"asked", "error"} => list = kept
  /\ stream[r] = "completed" => Append(list, Message("assistant", r, "answer")) = kept
Answering(r) ==
  /\ promise # Pending /\ ~recreating /\ loads = {}
  /\ pc[r] = "streaming" /\ \A q \in Runs \ {r} : ~Active(q)
  /\ sid[r] = sessionRef /\ sessionRef # NoSession
  /\ \E list \in Seq(Messages) :
       /\ messages = Append(list, Placeholder(r))
       /\ Caught(r, Without(list, "error"), Restored(store[sessionRef]))

RecordInv == Quiet => \/ Entering \/ Loading \/ Recreating \/ Resting
                      \/ \E r \in Runs : Answering(r)
PanelInv == Typed /\ SessionsInv /\ RunsInv /\ CopiesInv /\ AnswersInv /\ RecordInv

-----------------------------------------------------------------------------
(* InOrder lists a finite set of numbers, each once.                        *)

LEMMA RankBound ==
  ASSUME NEW S \in SUBSET Nat, IsFiniteSet(S), NEW b \in S
  PROVE  Rank(S, b) \in Nat /\ Rank(S, b) < Cardinality(S)
<1>1. {m \in S : m < b} \in SUBSET (S \ {b})
  OBVIOUS
<1>2. IsFiniteSet(S \ {b}) /\ Cardinality(S \ {b}) = Cardinality(S) - 1
  BY FS_RemoveElement
<1>3. Rank(S, b) \in Nat /\ Rank(S, b) <= Cardinality(S) - 1
  BY <1>1, <1>2, FS_Subset, FS_CardinalityType DEF Rank
<1>4. Cardinality(S) \in Nat
  BY FS_CardinalityType
<1> QED BY <1>3, <1>4

LEMMA RankMonotone ==
  ASSUME NEW S \in SUBSET Nat, IsFiniteSet(S), NEW a \in S, NEW b \in S, a < b
  PROVE  Rank(S, a) < Rank(S, b)
<1> DEFINE A == {m \in S : m < a}   B == {m \in S : m < b}
<1>1. A \cup {a} \in SUBSET B /\ B \in SUBSET S /\ A \in SUBSET S /\ a \notin A
  <2>1. \A m \in S : m \in Nat
    OBVIOUS
  <2>2. \A m \in S : m < a => m < b
    BY <2>1
  <2>3. A \cup {a} \subseteq B
    BY <2>2
  <2>4. a \notin A
    BY <2>1
  <2> QED BY <2>3, <2>4
<1> HIDE DEF A, B
<1>2. IsFiniteSet(A) /\ IsFiniteSet(B)
  BY <1>1, FS_Subset
<1>3. Cardinality(A \cup {a}) = Cardinality(A) + 1
  BY <1>1, <1>2, FS_AddElement
<1>4. Cardinality(A \cup {a}) <= Cardinality(B)
  BY <1>1, <1>2, FS_Subset
<1>5. Cardinality(A) \in Nat /\ Cardinality(B) \in Nat
  BY <1>2, FS_CardinalityType
<1>6. Cardinality(A) < Cardinality(B)
  BY <1>3, <1>4, <1>5
<1> QED BY <1>6 DEF A, B, Rank

LEMMA RankInjective ==
  ASSUME NEW S \in SUBSET Nat, IsFiniteSet(S), NEW a \in S, NEW b \in S,
         Rank(S, a) = Rank(S, b)
  PROVE  a = b
<1>1. a \in Nat /\ b \in Nat /\ Rank(S, a) \in Nat /\ Rank(S, b) \in Nat
  BY RankBound
<1>2. ~(a < b) /\ ~(b < a)
  BY <1>1, RankMonotone
<1> QED BY <1>1, <1>2

LEMMA RankOnto ==
  ASSUME NEW S \in SUBSET Nat, IsFiniteSet(S), NEW i \in 1..Cardinality(S)
  PROVE  \E b \in S : Rank(S, b) = i - 1
<1> DEFINE n == Cardinality(S)   f == [b \in S |-> Rank(S, b) + 1]
<1>1. n \in Nat
  BY FS_CardinalityType
<1>2. f \in [S -> 1..n]
  BY <1>1, RankBound
<1>3. \A a, b \in S : f[a] = f[b] => a = b
  <2> SUFFICES ASSUME NEW a \in S, NEW b \in S, f[a] = f[b] PROVE a = b
    OBVIOUS
  <2>1. Rank(S, a) \in Nat /\ Rank(S, b) \in Nat
    BY RankBound
  <2>2. Rank(S, a) = Rank(S, b)
    BY <2>1
  <2> QED BY <2>2, RankInjective
<1>4. IsFiniteSet(1..n) /\ Cardinality(1..n) = n
  BY <1>1, FS_Interval
<1>5. f \in Injection(S, 1..n)
  <2> HIDE DEF f
  <2> QED BY <1>2, <1>3 DEF Injection, IsInjective
<1>6. f \in Surjection(S, 1..n)
  <2> HIDE DEF f
  <2> QED BY <1>4, <1>5, FS_Injection
<1>7. \E b \in S : f[b] = i
  <2> HIDE DEF f
  <2> QED BY <1>6 DEF Surjection
<1>8. PICK b \in S : Rank(S, b) + 1 = i
  BY <1>7
<1>9. Rank(S, b) \in Nat
  BY RankBound
<1> QED BY <1>8, <1>9

LEMMA InOrderLists ==
  ASSUME NEW S \in SUBSET Nat, IsFiniteSet(S)
  PROVE  /\ Cardinality(S) \in Nat
         /\ InOrder(S) \in [1..Cardinality(S) -> S]
         /\ \A i, k \in 1..Cardinality(S) : InOrder(S)[i] = InOrder(S)[k] => i = k
         /\ \A b \in S : \E i \in 1..Cardinality(S) : InOrder(S)[i] = b
<1> DEFINE n == Cardinality(S)
<1>1. n \in Nat
  BY FS_CardinalityType
<1>2. ASSUME NEW i \in 1..n
      PROVE  InOrder(S)[i] \in S /\ Rank(S, InOrder(S)[i]) = i - 1
  BY RankOnto DEF InOrder
<1>3. InOrder(S) \in [1..n -> S]
  BY <1>2 DEF InOrder
<1>4. ASSUME NEW i \in 1..n, NEW k \in 1..n, InOrder(S)[i] = InOrder(S)[k] PROVE i = k
  BY <1>1, <1>2, <1>4
<1>5. ASSUME NEW b \in S PROVE \E i \in 1..n : InOrder(S)[i] = b
  <2> DEFINE i == Rank(S, b) + 1
  <2>1. i \in 1..n /\ i - 1 = Rank(S, b)
    BY <1>1, RankBound
  <2>2. InOrder(S)[i] \in S /\ Rank(S, InOrder(S)[i]) = Rank(S, b)
    BY <1>2, <2>1
  <2>3. \A a \in S : Rank(S, a) = Rank(S, b) => a = b
    BY RankInjective
  <2> QED BY <2>1, <2>2, <2>3
<1> QED BY <1>1, <1>3, <1>4, <1>5


(* The largest number of a set comes last. *)
LEMMA InOrderAdded ==
  ASSUME NEW S \in SUBSET Nat, IsFiniteSet(S), NEW b \in Nat, \A a \in S : a < b
  PROVE  /\ InOrder(S \cup {b}) = [i \in 1..(Cardinality(S) + 1) |->
                                     IF i <= Cardinality(S) THEN InOrder(S)[i] ELSE b]
<1> DEFINE n == Cardinality(S)   T == S \cup {b}
<1>1. b \notin S /\ T \in SUBSET Nat
  OBVIOUS
<1>2. IsFiniteSet(T) /\ Cardinality(T) = n + 1 /\ n \in Nat
  BY <1>1, FS_AddElement, FS_CardinalityType
<1>3. /\ InOrder(S) \in [1..n -> S]
      /\ \A i \in 1..n : Rank(S, InOrder(S)[i]) = i - 1
  BY InOrderLists, RankOnto DEF InOrder
<1>4. ASSUME NEW a \in S PROVE Rank(T, a) = Rank(S, a)
  <2>1. {m \in T : m < a} = {m \in S : m < a}
    BY <1>1
  <2> QED BY <2>1 DEF Rank
<1>5. Rank(T, b) = n
  <2>1. \A m \in T : m < b <=> m \in S
    BY <1>1
  <2>2. S \subseteq T
    OBVIOUS
  <2> HIDE DEF T
  <2>3. {m \in T : m < b} = S
    BY <2>1, <2>2
  <2> QED BY <2>3 DEF Rank
<1> HIDE DEF T, n
<1>10. \A a, c \in T : Rank(T, a) = Rank(T, c) => a = c
  BY <1>1, <1>2, RankInjective
<1>6. ASSUME NEW i \in 1..(n + 1)
      PROVE  InOrder(T)[i] = IF i <= n THEN InOrder(S)[i] ELSE b
  <2>1. InOrder(T)[i] \in T /\ Rank(T, InOrder(T)[i]) = i - 1
    BY <1>1, <1>2, RankOnto DEF InOrder
  <2>2. CASE i <= n
    <3>1. i \in 1..n
      BY <1>2, <2>2
    <3>2. InOrder(S)[i] \in S /\ Rank(S, InOrder(S)[i]) = i - 1
      BY <1>3, <3>1
    <3>3. InOrder(S)[i] \in T /\ Rank(T, InOrder(S)[i]) = i - 1
      BY <1>4, <3>2 DEF T
    <3> QED BY <1>10, <2>1, <2>2, <3>3
  <2>3. CASE ~(i <= n)
    <3>1. i - 1 = n
      BY <1>2, <2>3
    <3>2. b \in T
      BY DEF T
    <3> QED BY <1>5, <1>10, <2>1, <2>3, <3>1, <3>2
  <2> QED BY <2>2, <2>3
<1>7. InOrder(T) = [i \in 1..(n + 1) |-> InOrder(T)[i]]
  BY <1>2 DEF InOrder
<1> QED BY <1>6, <1>7 DEF T, n

LEMMA InOrderInterval ==
  ASSUME NEW n \in Nat
  PROVE  InOrder(1..n) = [i \in 1..n |-> i]
<1>1. 1..n \in SUBSET Nat /\ IsFiniteSet(1..n) /\ Cardinality(1..n) = n
  BY FS_Interval
<1>2. ASSUME NEW i \in 1..n PROVE InOrder(1..n)[i] = i
  <2>1. InOrder(1..n)[i] \in 1..n /\ Rank(1..n, InOrder(1..n)[i]) = i - 1
    BY <1>1, RankOnto DEF InOrder
  <2>2. {m \in 1..n : m < i} = 1..(i - 1)
    OBVIOUS
  <2>3. Cardinality(1..(i - 1)) = i - 1
    <3>1. 1 \in Int /\ i - 1 \in Int /\ i - 1 >= 0
      OBVIOUS
    <3>2. Cardinality(1..(i - 1)) = IF 1 <= i - 1 THEN (i - 1) - 1 + 1 ELSE 0
      BY <3>1, FS_Interval
    <3> QED BY <3>1, <3>2
  <2>4. Rank(1..n, i) = i - 1
    BY <2>2, <2>3 DEF Rank
  <2>5. \A a, c \in 1..n : Rank(1..n, a) = Rank(1..n, c) => a = c
    BY <1>1, RankInjective
  <2> QED BY <2>1, <2>4, <2>5
<1>3. InOrder(1..n) = [i \in 1..n |-> InOrder(1..n)[i]]
  BY <1>1 DEF InOrder
<1> QED BY <1>2, <1>3

-----------------------------------------------------------------------------
(* Lists of messages.                                                       *)

LEMMA FunctionIsSeq ==
  ASSUME NEW S, NEW n \in Nat, NEW f \in [1..n -> S]
  PROVE  f \in Seq(S) /\ Len(f) = n
  OBVIOUS

LEMMA SeqElements ==
  ASSUME NEW S, NEW s \in Seq(S)
  PROVE  /\ DOMAIN s = 1..Len(s) /\ Len(s) \in Nat
         /\ \A i \in 1..Len(s) : s[i] \in S
         /\ s = [i \in 1..Len(s) |-> s[i]]
  OBVIOUS

LEMMA SeqGrows ==
  ASSUME NEW S, NEW T, S \subseteq T, NEW s \in Seq(S)
  PROVE  s \in Seq(T)
<1>1. s \in [1..Len(s) -> T]
  BY SeqElements
<1> QED BY <1>1, SeqElements, FunctionIsSeq

LEMMA Unlisted ==
  ASSUME NEW S, NEW list \in Seq(S), NEW text
  PROVE  /\ {i \in DOMAIN list : list[i].text # text} \in SUBSET Nat
         /\ IsFiniteSet({i \in DOMAIN list : list[i].text # text})
<1>1. DOMAIN list = 1..Len(list) /\ Len(list) \in Nat
  BY SeqElements
<1>2. {i \in DOMAIN list : list[i].text # text} \in SUBSET (1..Len(list))
  BY <1>1
<1>3. IsFiniteSet(1..Len(list))
  BY <1>1, FS_Interval
<1> QED BY <1>1, <1>2, <1>3, FS_Subset

(* Nothing is added by leaving some out. *)
LEMMA WithoutSeq ==
  ASSUME NEW S, NEW list \in Seq(S), NEW text
  PROVE  Without(list, text) \in Seq(S)
<1> DEFINE K == {i \in DOMAIN list : list[i].text # text}   n == Cardinality(K)
<1>1. K \subseteq DOMAIN list /\ \A i \in DOMAIN list : list[i] \in S
  BY SeqElements
<1>2. K \in SUBSET Nat /\ IsFiniteSet(K)
  BY Unlisted
<1>3. Without(list, text) = [i \in DOMAIN InOrder(K) |-> list[InOrder(K)[i]]]
  BY DEF Without
<1> HIDE DEF K
<1>4. n \in Nat /\ InOrder(K) \in [1..n -> K]
  BY <1>2, InOrderLists
<1>5. Without(list, text) \in [1..n -> S]
  BY <1>1, <1>3, <1>4
<1> QED BY <1>4, <1>5, FunctionIsSeq

LEMMA WithoutAppend ==
  ASSUME NEW list \in Seq(Messages), NEW m \in Messages, NEW text
  PROVE  Without(Append(list, m), text)
           = IF m.text # text THEN Append(Without(list, text), m) ELSE Without(list, text)
<1> DEFINE K == {i \in DOMAIN list : list[i].text # text}   n == Cardinality(K)
           longer == Append(list, m)   b == Len(list) + 1
           K2 == {i \in DOMAIN longer : longer[i].text # text}
<1>1. DOMAIN list = 1..Len(list) /\ Len(list) \in Nat
  BY SeqElements
<1>2. /\ longer \in Seq(Messages) /\ DOMAIN longer = 1..b /\ longer[b] = m
      /\ \A i \in 1..Len(list) : longer[i] = list[i]
  BY <1>1, AppendProperties, SeqElements
<1>3. K \in SUBSET Nat /\ IsFiniteSet(K) /\ K \subseteq 1..Len(list)
  BY <1>1, Unlisted
<1>10. b \in Nat /\ b \notin 1..Len(list) /\ \A i \in 1..Len(list) : i \in Nat /\ i < b
  BY <1>1
<1>4. K2 = IF m.text # text THEN K \cup {b} ELSE K
  <2>1. \A i \in 1..Len(list) : i \in K2 <=> i \in K
    BY <1>1, <1>2
  <2>2. b \in K2 <=> m.text # text
    BY <1>1, <1>2
  <2>3. K2 \subseteq 1..b /\ \A i \in 1..b : i \in 1..Len(list) \/ i = b
    BY <1>1, <1>2
  <2> HIDE DEF K2, K, b
  <2>4. \A i : i \in K2 <=> i \in K \/ (i = b /\ m.text # text)
    BY <1>3, <1>10, <2>1, <2>2, <2>3
  <2> QED BY <2>4
<1>5. /\ Without(list, text) = [i \in DOMAIN InOrder(K) |-> list[InOrder(K)[i]]]
      /\ Without(longer, text) = [i \in DOMAIN InOrder(K2) |-> longer[InOrder(K2)[i]]]
  BY DEF Without
<1> HIDE DEF K, K2, longer, b
<1>6. n \in Nat /\ InOrder(K) \in [1..n -> K] /\ DOMAIN InOrder(K) = 1..n
  BY <1>3, InOrderLists
<1>7. \A i \in 1..n : longer[InOrder(K)[i]] = list[InOrder(K)[i]]
  BY <1>2, <1>3, <1>6
<1> HIDE DEF n
<1>8. CASE m.text # text
  <2>1. InOrder(K2) = [i \in 1..(n + 1) |-> IF i <= n THEN InOrder(K)[i] ELSE b]
    <3>1. \A a \in K : a < b
      BY <1>3, <1>10
    <3> QED BY <1>3, <1>4, <1>8, <1>10, <3>1, InOrderAdded DEF n
  <2>2. Without(longer, text) = [i \in 1..(n + 1) |-> IF i <= n THEN list[InOrder(K)[i]] ELSE m]
    BY <1>2, <1>5, <1>6, <1>7, <2>1
  <2>3. Without(list, text) \in Seq(Messages) /\ Len(Without(list, text)) = n
    BY <1>5, <1>6, WithoutSeq
  <2>4. \A i \in 1..n : Without(list, text)[i] = list[InOrder(K)[i]]
    BY <1>5, <1>6
  <2>5. /\ Append(Without(list, text), m) \in Seq(Messages)
        /\ Len(Append(Without(list, text), m)) = n + 1
        /\ Append(Without(list, text), m)[n + 1] = m
        /\ \A i \in 1..n : Append(Without(list, text), m)[i] = Without(list, text)[i]
    BY <2>3, AppendProperties
  <2>6. Append(Without(list, text), m) =
          [i \in 1..(n + 1) |-> IF i <= n THEN list[InOrder(K)[i]] ELSE m]
    <3> DEFINE A == Append(Without(list, text), m)
    <3>1. A = [i \in 1..(n + 1) |-> A[i]]
      BY <2>5, SeqElements
    <3>2. \A i \in 1..(n + 1) : i \in 1..n \/ i = n + 1
      BY <1>6
    <3>3. \A i \in 1..(n + 1) : A[i] = IF i <= n THEN list[InOrder(K)[i]] ELSE m
      BY <1>6, <2>4, <2>5, <3>2
    <3> HIDE DEF A
    <3>4. A = [i \in 1..(n + 1) |-> IF i <= n THEN list[InOrder(K)[i]] ELSE m]
      BY <3>1, <3>3
    <3> QED BY <3>4 DEF A
  <2> QED BY <1>8, <2>2, <2>6 DEF longer
<1>9. CASE m.text = text
  <2>1. K2 = K
    BY <1>4, <1>9
  <2>2. Without(longer, text) = Without(list, text)
    BY <1>5, <1>6, <1>7, <2>1
  <2> QED BY <1>9, <2>2 DEF longer
<1> QED BY <1>8, <1>9

LEMMA WithoutAll ==
  ASSUME NEW list \in Seq(Messages), NEW text, \A i \in 1..Len(list) : list[i].text # text
  PROVE  Without(list, text) = list
<1>1. DOMAIN list = 1..Len(list) /\ Len(list) \in Nat /\ list = [i \in 1..Len(list) |-> list[i]]
  BY SeqElements
<1>2. {i \in DOMAIN list : list[i].text # text} = 1..Len(list)
  BY <1>1
<1>3. Without(list, text) =
        [i \in DOMAIN InOrder(1..Len(list)) |-> list[InOrder(1..Len(list))[i]]]
  BY <1>2 DEF Without
<1>4. InOrder(1..Len(list)) = [i \in 1..Len(list) |-> i]
  BY <1>1, InOrderInterval
<1> QED BY <1>1, <1>3, <1>4

-----------------------------------------------------------------------------
(* Rows and messages.                                                       *)

LEMMA RowTypes ==
  /\ \A r \in Runs, role \in {"user", "assistant"} : Row(role, r) \in Rows
  /\ \A r \in Runs, role \in {"user", "assistant"}, text \in Texts :
       Message(role, r, text) \in Messages
  /\ \A r \in Runs : Placeholder(r) \in Messages
  /\ \A row \in Rows : Shown(row) \in Messages /\ Shown(row).text \in {"question", "answer"}
<1>1. Runs \subseteq 0..MaxRuns
  BY PanelAssumption DEF Runs
<1>2. ASSUME NEW row \in Rows
      PROVE  Shown(row) \in Messages /\ Shown(row).text \in {"question", "answer"}
  BY DEF Shown, Message, Messages, Rows, Texts
<1> QED BY <1>1, <1>2 DEF Row, Rows, Message, Messages, Placeholder, Texts

LEMMA AppendSeq ==
  ASSUME NEW S, NEW list \in Seq(S), NEW e \in S
  PROVE  /\ Append(list, e) \in Seq(S)
         /\ Append(list, e) # <<>>
         /\ Len(Append(list, e)) = Len(list) + 1
         /\ DOMAIN Append(list, e) = 1..(Len(list) + 1)
         /\ Append(list, e)[Len(list) + 1] = e
         /\ \A i \in 1..Len(list) : Append(list, e)[i] = list[i]
<1>1. Len(list) \in Nat
  BY SeqElements
<1>2. /\ Append(list, e) \in Seq(S) /\ Len(Append(list, e)) = Len(list) + 1
      /\ Append(list, e)[Len(list) + 1] = e
      /\ \A i \in 1..Len(list) : Append(list, e)[i] = list[i]
  BY AppendProperties
<1> QED BY <1>1, <1>2, SeqElements, EmptySeq

LEMMA EmptyLists ==
  /\ \A S : <<>> \in Seq(S)
  /\ DOMAIN <<>> = {}
  /\ Restored(<<>>) = <<>>
  /\ \A text : Without(<<>>, text) = <<>>
<1>1. \A S : <<>> \in Seq(S)
  OBVIOUS
<1>2. DOMAIN <<>> = {} /\ Len(<<>>) = 0
  OBVIOUS
<1>3. Restored(<<>>) = <<>>
  BY <1>2 DEF Restored
<1>4. ASSUME NEW text PROVE Without(<<>>, text) = <<>>
  <2>1. <<>> \in Seq(Messages) /\ \A i \in 1..Len(<<>>) : <<>>[i].text # text
    BY <1>1, <1>2
  <2> QED BY <2>1, WithoutAll
<1> QED BY <1>1, <1>2, <1>3, <1>4

LEMMA RestoredSeq ==
  ASSUME NEW rows \in Seq(Rows)
  PROVE  /\ Restored(rows) \in Seq(Messages)
         /\ Len(Restored(rows)) = Len(rows)
         /\ \A i \in 1..Len(rows) : Restored(rows)[i] = Shown(rows[i])
         /\ Without(Restored(rows), "error") = Restored(rows)
<1>1. DOMAIN rows = 1..Len(rows) /\ Len(rows) \in Nat /\ \A i \in 1..Len(rows) : rows[i] \in Rows
  BY SeqElements
<1>2. \A i \in 1..Len(rows) : Restored(rows)[i] = Shown(rows[i])
  BY <1>1 DEF Restored
<1>3. Restored(rows) \in [1..Len(rows) -> Messages]
  BY <1>1, RowTypes DEF Restored
<1>4. Restored(rows) \in Seq(Messages) /\ Len(Restored(rows)) = Len(rows)
  BY <1>1, <1>3, FunctionIsSeq
<1>5. \A i \in 1..Len(rows) : Restored(rows)[i].text # "error"
  BY <1>1, <1>2, RowTypes
<1> QED BY <1>2, <1>4, <1>5, WithoutAll

LEMMA RestoredAppend ==
  ASSUME NEW rows \in Seq(Rows), NEW row \in Rows
  PROVE  Restored(Append(rows, row)) = Append(Restored(rows), Shown(row))
<1> DEFINE n == Len(rows)   A == Append(rows, row)   B == Append(Restored(rows), Shown(row))
<1>1. /\ A \in Seq(Rows) /\ Len(A) = n + 1 /\ A[n + 1] = row
      /\ \A i \in 1..n : A[i] = rows[i]
  BY AppendSeq
<1>2. /\ Restored(rows) \in Seq(Messages) /\ Len(Restored(rows)) = n
      /\ \A i \in 1..n : Restored(rows)[i] = Shown(rows[i])
  BY RestoredSeq
<1>3. /\ Restored(A) \in Seq(Messages) /\ Len(Restored(A)) = n + 1
      /\ \A i \in 1..(n + 1) : Restored(A)[i] = Shown(A[i])
  BY <1>1, RestoredSeq
<1>4. /\ B \in Seq(Messages) /\ Len(B) = n + 1 /\ B[n + 1] = Shown(row)
      /\ \A i \in 1..n : B[i] = Restored(rows)[i]
  BY <1>2, AppendSeq, RowTypes
<1>5. n \in Nat
  BY SeqElements
<1> HIDE DEF A, B, n
<1>6. ASSUME NEW i \in 1..(n + 1) PROVE Restored(A)[i] = B[i]
  <2>1. i \in 1..n \/ i = n + 1
    BY <1>5
  <2> QED BY <1>1, <1>2, <1>3, <1>4, <2>1
<1>7. Restored(A) = B
  BY <1>3, <1>4, <1>6, SeqElements
<1> QED BY <1>7 DEF A, B

LEMMA PatchedSeq ==
  ASSUME NEW S, NEW list \in Seq(S), NEW r, NEW text, Message("assistant", r, text) \in S
  PROVE  Patched(list, r, text) \in Seq(S)
<1>1. list \in [1..Len(list) -> S] /\ Len(list) \in Nat
  BY SeqElements
<1>2. Patched(list, r, text) \in [1..Len(list) -> S]
  BY <1>1 DEF Patched
<1> QED BY <1>1, <1>2, FunctionIsSeq

LEMMA PatchedAppend ==
  ASSUME NEW list \in Seq(Messages), NEW r \in Runs, NEW text \in Texts
  PROVE  Patched(Append(list, Placeholder(r)), r, text)
           = Append(list, Message("assistant", r, text))
<1> DEFINE A == Append(list, Placeholder(r))   m == Message("assistant", r, text)
           B == Append(list, m)   n == Len(list)
<1>1. n \in Nat
  BY SeqElements
<1>2. /\ A \in Seq(Messages) /\ A # <<>> /\ Len(A) = n + 1 /\ A[n + 1] = Placeholder(r)
      /\ DOMAIN A = 1..(n + 1) /\ \A i \in 1..n : A[i] = list[i]
  BY AppendSeq, RowTypes
<1>3. /\ B \in Seq(Messages) /\ Len(B) = n + 1 /\ B[n + 1] = m
      /\ DOMAIN B = 1..(n + 1) /\ \A i \in 1..n : B[i] = list[i]
  <2>1. m \in Messages
    BY RowTypes
  <2> HIDE DEF m
  <2> QED BY <2>1, AppendSeq
<1>4. A[Len(A)].text = "stage"
  BY <1>2 DEF Placeholder, Message
<1> HIDE DEF A, B, n
<1>5. Patched(A, r, text) = [A EXCEPT ![n + 1] = m]
  BY <1>2, <1>4 DEF Patched
<1>6. B = [i \in 1..(n + 1) |-> B[i]]
  BY <1>3, SeqElements
<1>7. ASSUME NEW i \in 1..(n + 1) PROVE [A EXCEPT ![n + 1] = m][i] = B[i]
  <2>1. i \in 1..n \/ i = n + 1
    BY <1>1
  <2>2. ~(n + 1 \in 1..n)
    BY <1>1
  <2> QED BY <1>2, <1>3, <2>1, <2>2
<1>8. [A EXCEPT ![n + 1] = m] = [i \in 1..(n + 1) |-> [A EXCEPT ![n + 1] = m][i]]
  BY <1>2
<1>9. [A EXCEPT ![n + 1] = m] = B
  BY <1>6, <1>7, <1>8
<1> QED BY <1>5, <1>9 DEF A, B

(* How often a row occurs in a list. *)
At(rows, row) == {i \in DOMAIN rows : rows[i] = row}

LEMMA AtFinite ==
  ASSUME NEW rows \in Seq(Rows), NEW row
  PROVE  IsFiniteSet(At(rows, row)) /\ Cardinality(At(rows, row)) \in Nat
<1>1. DOMAIN rows = 1..Len(rows) /\ Len(rows) \in Nat
  BY SeqElements
<1>2. At(rows, row) \in SUBSET (1..Len(rows)) /\ IsFiniteSet(1..Len(rows))
  BY <1>1, FS_Interval DEF At
<1> QED BY <1>2, FS_Subset, FS_CardinalityType

LEMMA AtAppend ==
  ASSUME NEW rows \in Seq(Rows), NEW e \in Rows, NEW row
  PROVE  Cardinality(At(Append(rows, e), row))
           = Cardinality(At(rows, row)) + IF row = e THEN 1 ELSE 0
<1> DEFINE n == Len(rows)
<1>1. DOMAIN rows = 1..n /\ n \in Nat
  BY SeqElements
<1>2. /\ DOMAIN Append(rows, e) = 1..(n + 1) /\ Append(rows, e)[n + 1] = e
      /\ \A i \in 1..n : Append(rows, e)[i] = rows[i]
  BY AppendSeq
<1>3. n + 1 \notin At(rows, row)
  BY <1>1 DEF At
<1>4. \A i \in 1..(n + 1) : i \in 1..n \/ i = n + 1
  BY <1>1
<1> HIDE DEF n
<1>5. CASE row = e
  <2>1. At(Append(rows, e), row) = At(rows, row) \cup {n + 1}
    BY <1>1, <1>2, <1>4, <1>5 DEF At
  <2> QED BY <1>3, <1>5, <2>1, AtFinite, FS_AddElement
<1>6. CASE row # e
  <2>1. At(Append(rows, e), row) = At(rows, row)
    BY <1>1, <1>2, <1>4, <1>6 DEF At
  <2> QED BY <1>6, <2>1, AtFinite
<1> QED BY <1>5, <1>6

(* Two rows at once are two rows. *)
LEMMA AppendTwo ==
  ASSUME NEW rows \in Seq(Rows), NEW d \in Rows, NEW e \in Rows
  PROVE  rows \o <<d, e>> = Append(Append(rows, d), e)
OBVIOUS

-----------------------------------------------------------------------------
(* Sessions.                                                                *)

(* A set of numbers up to n that is not empty has a largest one: the smallest
   of its bounds. *)
LEMMA LargestExists ==
  ASSUME NEW n \in Nat, NEW S \in SUBSET (1..n), S # {}
  PROVE  \E s \in S : \A t \in S : t <= s
<1> DEFINE B == {b \in Nat : \A t \in S : t <= b}
<1>1. n \in B /\ B \subseteq Nat
  OBVIOUS
<1>2. PICK b \in B : \A c \in B : ~(c < b)
  <2>1. IsWellFoundedOn(OpToRel(<, Nat), Nat)
    BY NatLessThanWellFounded
  <2> DEFINE R == OpToRel(<, Nat)
  <2>2. \A c, d \in Nat : <<c, d>> \in R <=> c < d
    BY DEF OpToRel
  <2> HIDE DEF R, B
  <2>3. \E b \in B : \A c \in B : ~(<<c, b>> \in R)
    BY <1>1, <2>1, WFMin DEF R
  <2> QED BY <1>1, <2>2, <2>3
<1>3. b \in S
  <2> SUFFICES ASSUME b \notin S PROVE FALSE
    OBVIOUS
  <2>1. PICK t \in S : t \in 1..n
    OBVIOUS
  <2>2. b - 1 \in Nat /\ \A s \in S : s \in Nat /\ s <= b /\ s # b
    BY <1>2, <2>1
  <2>3. b - 1 \in B
    BY <2>2
  <2> QED BY <1>2, <2>2, <2>3
<1> QED BY <1>2, <1>3

LEMMA LatestExists ==
  ASSUME Typed, exists # {}
  PROVE  Latest \in exists /\ Latest \in Sessions
<1>1. exists \in SUBSET (1..MaxSessions) /\ MaxSessions \in Nat
  BY PanelAssumption DEF Typed, Sessions
<1>2. \E s \in exists : \A t \in exists : t <= s
  BY <1>1, LargestExists
<1> QED BY <1>1, <1>2 DEF Latest, Sessions

LEMMA CreatedIsNew ==
  ASSUME SessionsInv, CanCreate
  PROVE  /\ Created \in Sessions
         /\ Created \notin exists \cup deleted
         /\ \E n \in 0..MaxSessions : exists \cup deleted \cup {Created} = 1..n
<1>1. PICK n \in 0..MaxSessions : exists \cup deleted = 1..n
  BY DEF SessionsInv
<1>2. Cardinality(exists \cup deleted) = n
  <2>1. n \in Nat /\ Cardinality(1..n) = n
    BY FS_Interval
  <2> QED BY <1>1, <2>1
<1>3. MaxSessions \in Nat /\ n < MaxSessions
  BY <1>2, PanelAssumption DEF CanCreate
<1>4. n + 1 \in Sessions
  BY <1>3 DEF Sessions
<1>5. Created = n + 1
  BY <1>2, <1>4 DEF Created
<1>6. exists \cup deleted \cup {Created} = 1..(n + 1) /\ n + 1 \notin 1..n
  BY <1>1, <1>3, <1>5
<1> QED BY <1>1, <1>3, <1>4, <1>5, <1>6

LEMMA Numbers ==
  /\ NoSession \notin Sessions /\ Pending \notin Sessions /\ Rejected \notin Sessions
  /\ Pending # Rejected /\ NoSession # Pending /\ NoSession # Rejected
BY PanelAssumption DEF NoSession, Pending, Rejected, Sessions

-----------------------------------------------------------------------------
(* Types.                                                                   *)

LEMMA SessionTypes ==
  ASSUME Typed, SessionsInv,
         \/ Enter \/ NewSession \/ Recreate
         \/ \E s \in Sessions : Switch(s) \/ Delete(s)
  PROVE  Typed'
<1>1. <<>> \in Seq(Rows) /\ <<>> \in Seq(Messages)
  BY EmptyLists
<1>2. \A kind \in {"restore", "switch"}, s \in Sessions : Load(kind, s) \in Loads
  BY <1>1 DEF Load, Loads
<1>3. CASE Enter
  <2>1. CASE promise' = Rejected /\ UNCHANGED <<sessionRef, exists, loads>>
    BY <1>3, <2>1 DEF Enter, Typed
  <2>2. CASE ~(promise' = Rejected /\ UNCHANGED <<sessionRef, exists, loads>>)
    <3>1. PICK s \in Sessions : /\ promise' = s /\ sessionRef' = s
                                /\ exists' = exists \cup {s}
                                /\ loads' = loads \cup {Load("restore", s)}
      BY <1>3, <2>2, LatestExists, CreatedIsNew DEF Enter
    <3> QED BY <1>2, <1>3, <3>1 DEF Enter, Typed
  <2> QED BY <2>1, <2>2
<1>4. CASE NewSession
  BY <1>1, <1>4, CreatedIsNew DEF NewSession, Typed
<1>5. CASE Recreate
  BY <1>5, CreatedIsNew DEF Recreate, Typed
<1>6. ASSUME NEW s \in Sessions, Switch(s) PROVE Typed'
  BY <1>1, <1>2, <1>6 DEF Switch, Typed
<1>7. ASSUME NEW s \in Sessions, Delete(s) PROVE Typed'
  <2>1. store' \in [Sessions -> Seq(Rows)]
    BY <1>1, <1>7 DEF Delete, Typed
  <2>2. messages' \in Seq(Messages) /\ sessionRef' \in Sessions \cup {NoSession}
    BY <1>1, <1>7 DEF Delete, Typed
  <2> QED BY <1>7, <2>1, <2>2 DEF Delete, Typed
<1> QED BY <1>3, <1>4, <1>5, <1>6, <1>7

LEMMA LoadTypes ==
  ASSUME Typed, NEW l \in loads, ReadRows(l) \/ Loaded(l)
  PROVE  Typed'
<1>1. l \in Loads
  BY DEF Typed
<1>2. CASE ReadRows(l)
  <2>1. store[l.session] \in Seq(Rows)
    BY <1>1 DEF Typed, Loads
  <2>2. [l EXCEPT !.read = TRUE, !.rows = store[l.session]] \in Loads
    BY <1>1, <2>1 DEF Loads
  <2> QED BY <1>2, <2>2 DEF ReadRows, session, Typed
<1>3. CASE Loaded(l)
  <2>1. Restored(l.rows) \in Seq(Messages)
    BY <1>1, RestoredSeq DEF Loads
  <2>2. messages' \in Seq(Messages) /\ loads' \subseteq Loads
    BY <1>3, <2>1 DEF Loaded, Typed
  <2> QED BY <1>3, <2>2 DEF Loaded, session, Typed
<1> QED BY <1>2, <1>3

LEMMA QuestionTypes ==
  ASSUME Typed, NEW r \in Runs, Send(r) \/ Awaited(r)
  PROVE  Typed'
<1>1. /\ Placeholder(r) \in Messages /\ Message("user", r, "question") \in Messages
      /\ "streaming" \in PC /\ "waiting" \in PC /\ "over" \in PC /\ "open" \in Streams
  BY RowTypes DEF PC, Streams, Texts
<1>2. \A list \in Seq(Messages), m \in Messages : Append(list, m) \in Seq(Messages)
  BY AppendSeq
<1>3. \A s \in Sessions, list \in Seq(Messages) : Begin(r, s, list) =>
        /\ messages' \in Seq(Messages) /\ pc' \in [Runs -> PC]
        /\ sid' \in [Runs -> Sessions \cup {NoSession}] /\ stream' \in [Runs -> Streams]
  BY <1>1, <1>2 DEF Begin, Typed
<1>4. CASE Send(r)
  <2>1. /\ messages' \in Seq(Messages) /\ pc' \in [Runs -> PC]
        /\ sid' \in [Runs -> Sessions \cup {NoSession}] /\ stream' \in [Runs -> Streams]
    <3> DEFINE asked == Append(messages, Message("user", r, "question"))
               s == IF sessionRef # NoSession THEN sessionRef ELSE promise
    <3>1. asked \in Seq(Messages)
      BY <1>1, <1>2 DEF Typed
    <3>2. CASE s \in Sessions
      <4>1. Begin(r, s, asked)
        BY <1>4, <3>2 DEF Send
      <4> HIDE DEF s, asked
      <4> QED BY <1>3, <3>1, <3>2, <4>1
    <3>3. CASE s \notin Sessions
      <4>1. /\ messages' = asked /\ UNCHANGED <<sid, stream>>
            /\ pc' = [pc EXCEPT ![r] = IF s = Pending THEN "waiting" ELSE "over"]
        BY <1>4, <3>3 DEF Send
      <4> HIDE DEF s, asked
      <4> QED BY <1>1, <3>1, <4>1 DEF Typed
    <3> QED BY <3>2, <3>3
  <2> QED BY <1>4, <2>1 DEF Send, session, Typed
<1>5. CASE Awaited(r)
  <2>1. /\ messages' \in Seq(Messages) /\ pc' \in [Runs -> PC]
        /\ sid' \in [Runs -> Sessions \cup {NoSession}] /\ stream' \in [Runs -> Streams]
    BY <1>1, <1>3, <1>5 DEF Awaited, Typed
  <2> QED BY <1>5, <2>1 DEF Awaited, session, Typed
<1> QED BY <1>4, <1>5

LEMMA ServerTypes ==
  ASSUME Typed, NEW r \in Runs, ServerStep(r)
  PROVE  Typed'
<1>1. \A role \in {"user", "assistant"} : Row(role, r) \in Rows
  BY RowTypes
<1>2. \A s \in Sessions : store[s] \in Seq(Rows)
  BY DEF Typed
<1>3. \A rows \in Seq(Rows), role \in {"user", "assistant"} : Append(rows, Row(role, r)) \in Seq(Rows)
  BY <1>1, AppendSeq
<1>4. \A rows \in Seq(Rows) : rows \o <<Row("user", r), Row("assistant", r)>> \in Seq(Rows)
  BY <1>1
<1>5. \/ store' = store
      \/ \E role \in {"user", "assistant"} :
           store' = [store EXCEPT ![sid[r]] = Append(@, Row(role, r))]
      \/ store' = [store EXCEPT ![sid[r]] = @ \o <<Row("user", r), Row("assistant", r)>>]
  BY DEF ServerStep, StreamAsk, StreamAnswer, Post
<1>7. store' \in [Sessions -> Seq(Rows)]
  <2>1. store \in [Sessions -> Seq(Rows)]
    BY DEF Typed
  <2>2. CASE sid[r] \in Sessions
    BY <1>2, <1>3, <1>4, <1>5, <2>1, <2>2
  <2>3. CASE sid[r] \notin Sessions
    BY <1>5, <2>1, <2>3
  <2> QED BY <2>2, <2>3
<1>6. stream' \in [Runs -> Streams] /\ post' \in [Runs -> Posts]
  BY DEF ServerStep, StreamAsk, StreamAnswer, Post, Typed, Streams, Posts
<1> QED BY <1>6, <1>7 DEF ServerStep, StreamAsk, StreamAnswer, Post, session, Typed

LEMMA EndTypes ==
  ASSUME Typed, NEW r \in Runs, Finished(r) \/ Break(r) \/ Posted(r)
  PROVE  Typed'
<1>1. /\ Placeholder(r) \in Messages
      /\ \A text \in {"answer", "error"} : Message("assistant", r, text) \in Messages
  BY RowTypes DEF Texts
<1>2. messages \in Seq(Messages) /\ NoPlaceholder(messages) \in Seq(Messages)
  BY WithoutSeq DEF Typed, NoPlaceholder
<1>3. \A text \in {"answer", "error"} :
        /\ Patched(messages, r, text) \in Seq(Messages)
        /\ Append(NoPlaceholder(messages), Message("assistant", r, text)) \in Seq(Messages)
  BY <1>1, <1>2, AppendSeq, PatchedSeq
<1>4. Append(NoPlaceholder(messages), Placeholder(r)) \in Seq(Messages)
  BY <1>1, <1>2, AppendSeq
<1>5. messages' \in Seq(Messages)
  BY <1>3, <1>4 DEF Finished, Break, Posted
<1>6. pc' \in [Runs -> PC] /\ stream' \in [Runs -> Streams] /\ post' \in [Runs -> Posts]
  BY DEF Finished, Break, Posted, Over, Typed, PC, Streams, Posts
<1> QED BY <1>5, <1>6 DEF Finished, Break, Posted, session, Typed

LEMMA TypesKept ==
  ASSUME Typed, SessionsInv, [Next]_vars
  PROVE  Typed'
<1>1. CASE UNCHANGED vars
  BY <1>1 DEF vars, Typed
<1>2. CASE Reply
  BY <1>2, LoadTypes DEF Reply
<1>3. ASSUME NEW r \in Runs, Send(r) \/ Break(r) \/ ServerStep(r) \/ ClientStep(r) PROVE Typed'
  BY <1>3, QuestionTypes, ServerTypes, EndTypes DEF ClientStep
<1> QED BY <1>1, <1>2, <1>3, SessionTypes DEF Next

-----------------------------------------------------------------------------
(* Sessions and runs.                                                       *)

(* What the steps of questions and loads do to the store. *)
LEMMA StoreSteps ==
  ASSUME Typed, RunsInv, NEW r \in Runs, ServerStep(r)
  PROVE  /\ sid[r] \in exists \cup deleted /\ sid[r] \in Sessions
         /\ \A s \in Sessions \ {sid[r]} : store'[s] = store[s]
         /\ UNCHANGED <<exists, deleted, sessionRef, promise, recreating, moves, messages, loads,
                        pc, sid, disturbed>>
<1>1. stream[r] # "none"
  BY DEF ServerStep, StreamAsk, StreamAnswer, Post, RunsInv
<1>2. sid[r] \in exists \cup deleted /\ sid[r] \in Sessions
  BY <1>1 DEF RunsInv, Typed
<1>3. UNCHANGED <<exists, deleted, sessionRef, promise, recreating, moves, messages, loads,
                  pc, sid, disturbed>>
  BY DEF ServerStep, StreamAsk, StreamAnswer, Post, session
<1>4. store \in [Sessions -> Seq(Rows)]
  BY DEF Typed
<1>5. \/ store' = store
      \/ \E list : store' = [store EXCEPT ![sid[r]] = list]
  BY DEF ServerStep, StreamAsk, StreamAnswer, Post
<1>6. \A s \in Sessions \ {sid[r]} : store'[s] = store[s]
  BY <1>4, <1>5
<1> QED BY <1>2, <1>3, <1>6

(* The steps that leave sessions and store alone. *)
Apart == UNCHANGED <<exists, deleted, store, sessionRef, promise, recreating, moves>>

LEMMA ApartSteps ==
  /\ \A l : ReadRows(l) \/ Loaded(l) => Apart
  /\ \A r : Send(r) \/ Break(r) \/ ClientStep(r) => Apart
<1>1. \A l : ReadRows(l) \/ Loaded(l) => Apart
  BY DEF ReadRows, Loaded, session, Apart
<1>2. \A r : Send(r) \/ Break(r) \/ ClientStep(r) => Apart
  BY DEF Send, Break, ClientStep, Awaited, Finished, Posted, session, Apart
<1> QED BY <1>1, <1>2

LEMMA SessionsKept ==
  ASSUME Typed, SessionsInv, RunsInv, [Next]_vars
  PROVE  SessionsInv'
<1>1. CASE Enter
  <2>1. CASE promise' = Rejected /\ UNCHANGED <<sessionRef, exists, loads>>
    BY <1>1, <2>1, Numbers DEF Enter, SessionsInv
  <2>2. CASE ~(promise' = Rejected /\ UNCHANGED <<sessionRef, exists, loads>>)
    <3>1. PICK s \in Sessions : /\ promise' = s /\ sessionRef' = s /\ exists' = exists \cup {s}
                                /\ s \in exists \/ (CanCreate /\ s = Created)
      BY <1>1, <2>2, LatestExists, CreatedIsNew DEF Enter
    <3>2. UNCHANGED <<deleted, store, recreating>>
      BY <1>1 DEF Enter
    <3>3. exists' \cup deleted = exists \cup deleted \cup {s}
      BY <3>1
    <3>4. \E n \in 0..MaxSessions : exists \cup deleted \cup {s} = 1..n
      <4>1. CASE s \in exists
        BY <4>1 DEF SessionsInv
      <4>2. CASE s \notin exists
        BY <3>1, <4>2, CreatedIsNew
      <4> QED BY <4>1, <4>2
    <3>5. s \notin deleted
      BY <3>1, CreatedIsNew DEF SessionsInv
    <3> QED BY <3>1, <3>2, <3>3, <3>4, <3>5, Numbers DEF SessionsInv
  <2> QED BY <2>1, <2>2
<1>2. CASE NewSession \/ Recreate
  <2>1. /\ CanCreate /\ exists' = exists \cup {Created} /\ sessionRef' = Created
        /\ UNCHANGED <<deleted, store, promise>>
    BY <1>2 DEF NewSession, Recreate
  <2>2. exists' \cup deleted = exists \cup deleted \cup {Created}
    BY <2>1
  <2> QED BY <2>1, <2>2, CreatedIsNew, Numbers DEF SessionsInv
<1>3. ASSUME NEW s \in Sessions, Switch(s) PROVE SessionsInv'
  BY <1>3, Numbers DEF Switch, SessionsInv
<1>4. ASSUME NEW s \in Sessions, Delete(s) PROVE SessionsInv'
  <2>1. exists' = exists \ {s} /\ deleted' = deleted \cup {s} /\ s \in exists /\ promise' = promise
    BY <1>4 DEF Delete
  <2>2. exists' \cup deleted' = exists \cup deleted
    BY <2>1
  <2>3. \A t \in Sessions \ (exists \cup deleted) : store'[t] = store[t]
    BY <1>4, <2>1 DEF Delete, Typed
  <2>4. /\ sessionRef' # NoSession => sessionRef' \in exists'
        /\ sessionRef' = NoSession /\ promise' \in Sessions => recreating'
    BY <1>4, <2>1 DEF Delete, SessionsInv
  <2>5. \E n \in 0..MaxSessions : exists \cup deleted = 1..n
    BY DEF SessionsInv
  <2> QED BY <2>1, <2>2, <2>3, <2>4, <2>5 DEF SessionsInv
<1>5. ASSUME NEW r \in Runs, ServerStep(r) PROVE SessionsInv'
  BY <1>5, StoreSteps DEF SessionsInv
<1>6. CASE Apart \/ UNCHANGED vars
  BY <1>6 DEF SessionsInv, Apart, vars
<1> QED BY <1>1, <1>2, <1>3, <1>4, <1>5, <1>6, ApartSteps DEF Next, Reply

(* Nothing that has existed is forgotten. *)
LEMMA KnownGrows ==
  ASSUME Typed, SessionsInv, RunsInv, [Next]_vars
  PROVE  exists \cup deleted \subseteq exists' \cup deleted' /\ deleted \subseteq deleted'
<1>1. CASE Enter \/ NewSession \/ Recreate
  BY <1>1 DEF Enter, NewSession, Recreate
<1>2. ASSUME NEW s \in Sessions, Switch(s) \/ Delete(s)
      PROVE  exists \cup deleted \subseteq exists' \cup deleted' /\ deleted \subseteq deleted'
  BY <1>2 DEF Switch, Delete
<1>3. ASSUME NEW r \in Runs, ServerStep(r)
      PROVE  exists \cup deleted \subseteq exists' \cup deleted' /\ deleted \subseteq deleted'
  BY <1>3, StoreSteps
<1>4. CASE Apart \/ UNCHANGED vars
  BY <1>4 DEF Apart, vars
<1> QED BY <1>1, <1>2, <1>3, <1>4, ApartSteps DEF Next, Reply

RunInv(r) ==
  /\ stream[r] = "none" => post[r] = "none" /\ sid[r] = NoSession
  /\ stream[r] # "none" => sid[r] \in exists \cup deleted
  /\ pc[r] \in {"idle", "waiting"} => stream[r] = "none"
  /\ pc[r] \in {"streaming", "buffered"} => stream[r] # "none"
  /\ stream[r] = "done" => pc[r] = "over"
  /\ pc[r] = "streaming" => post[r] = "none"
  /\ pc[r] = "buffered" => post[r] # "none"
  /\ post[r] = "none" /\ stream[r] \notin {"none", "done"} => pc[r] = "streaming"

RunVars == <<pc, sid, stream, post>>

(* A step of a question moves only its own run. *)
LEMMA OthersRun ==
  ASSUME Typed, NEW r \in Runs, Send(r) \/ Break(r) \/ ServerStep(r) \/ ClientStep(r),
         NEW q \in Runs \ {r}
  PROVE  pc'[q] = pc[q] /\ sid'[q] = sid[q] /\ stream'[q] = stream[q] /\ post'[q] = post[q]
<1>1. pc'[q] = pc[q]
  BY DEF Typed, Send, Begin, Break, ServerStep, StreamAsk, StreamAnswer, Post, ClientStep,
         Awaited, Finished, Posted, Over
<1>2. sid'[q] = sid[q]
  BY DEF Typed, Send, Begin, Break, ServerStep, StreamAsk, StreamAnswer, Post, ClientStep,
         Awaited, Finished, Posted, Over
<1>3. stream'[q] = stream[q]
  BY DEF Typed, Send, Begin, Break, ServerStep, StreamAsk, StreamAnswer, Post, ClientStep,
         Awaited, Finished, Posted, Over
<1>4. post'[q] = post[q]
  BY DEF Typed, Send, Begin, Break, ServerStep, StreamAsk, StreamAnswer, Post, ClientStep,
         Awaited, Finished, Posted, Over
<1> QED BY <1>1, <1>2, <1>3, <1>4

(* How a run begins. *)
LEMMA Beginning ==
  ASSUME Typed, SessionsInv, NEW r \in Runs, Send(r) \/ Awaited(r)
  PROVE  \/ /\ pc'[r] \in {"waiting", "over"} /\ UNCHANGED <<sid, stream, post, busy>>
            /\ pc' = [pc EXCEPT ![r] = pc'[r]]
         \/ \E s \in exists \cup deleted : \E list : Begin(r, s, list) /\ post' = post
<1>1. /\ sessionRef # NoSession => sessionRef \in exists
      /\ promise \in Sessions => promise \in exists \cup deleted
      /\ sessionRef \in Sessions \cup {NoSession}
      /\ pc \in [Runs -> PC]
  BY DEF Typed, SessionsInv
<1>2. CASE Awaited(r)
  BY <1>1, <1>2 DEF Awaited
<1>3. CASE Send(r)
  <2> DEFINE asked == Append(messages, Message("user", r, "question"))
             s == IF sessionRef # NoSession THEN sessionRef ELSE promise
  <2>1. CASE s \in Sessions
    <3>1. Begin(r, s, asked) /\ post' = post
      BY <1>3, <2>1 DEF Send
    <3>2. s \in exists \cup deleted
      BY <1>1, <2>1
    <3> QED BY <3>1, <3>2
  <2>2. CASE s \notin Sessions
    <3>1. /\ UNCHANGED <<sid, stream, post, busy>>
          /\ pc' = [pc EXCEPT ![r] = IF s = Pending THEN "waiting" ELSE "over"]
      BY <1>3, <2>2 DEF Send
    <3> HIDE DEF s
    <3> QED BY <1>1, <3>1
  <2> QED BY <2>1, <2>2
<1> QED BY <1>2, <1>3

LEMMA RunsKept ==
  ASSUME Typed, SessionsInv, RunsInv, [Next]_vars
  PROVE  RunsInv'
<1>1. exists \cup deleted \subseteq exists' \cup deleted'
  BY KnownGrows
<1>2. ASSUME UNCHANGED RunVars PROVE RunsInv'
  BY <1>1, <1>2 DEF RunVars, RunsInv
<1>3. ASSUME NEW r \in Runs, Send(r) \/ Break(r) \/ ServerStep(r) \/ ClientStep(r)
      PROVE  RunsInv'
  <2>1. \A q \in Runs \ {r} : RunInv(q)'
    BY <1>1, <1>3, OthersRun DEF RunInv, RunsInv
  <2>2. RunInv(r)
    BY DEF RunsInv, RunInv
  <2>3. RunInv(r)'
    <3>1. CASE Send(r) \/ Awaited(r)
      <4>0. pc[r] \in {"idle", "waiting"}
        BY <3>1 DEF Send, Awaited
      <4>1. CASE /\ pc'[r] \in {"waiting", "over"} /\ UNCHANGED <<sid, stream, post, busy>>
                 /\ pc' = [pc EXCEPT ![r] = pc'[r]]
        BY <1>1, <2>2, <4>0, <4>1 DEF RunInv
      <4>2. CASE \E s \in exists \cup deleted : \E list : Begin(r, s, list) /\ post' = post
        <5>1. PICK s \in exists \cup deleted : \E list : Begin(r, s, list) /\ post' = post
          BY <4>2
        <5>2. pc'[r] = "streaming" /\ sid'[r] = s /\ stream'[r] = "open" /\ post' = post
          BY <5>1 DEF Begin, Typed
        <5> QED BY <1>1, <2>2, <4>0, <5>1, <5>2 DEF RunInv
      <4> QED BY <3>1, <4>1, <4>2, Beginning
    <3>2. CASE Break(r)
      BY <1>1, <2>2, <3>2 DEF Break, RunInv, Typed, session
    <3>3. CASE ServerStep(r)
      <4>1. /\ stream'[r] # "none" /\ stream[r] # "none"
            /\ stream'[r] = "done" => stream[r] = "done"
            /\ stream[r] = "done" => stream'[r] = "done"
            /\ post'[r] = "none" <=> post[r] = "none"
        BY <2>2, <3>3 DEF ServerStep, StreamAsk, StreamAnswer, Post, Typed, RunInv
      <4>2. pc' = pc /\ sid' = sid
        BY <3>3, StoreSteps
      <4> QED BY <1>1, <2>2, <4>1, <4>2 DEF RunInv
    <3>4. CASE Finished(r)
      BY <1>1, <2>2, <3>4 DEF Finished, Over, RunInv, Typed, session
    <3>5. CASE Posted(r)
      BY <1>1, <2>2, <3>5 DEF Posted, Over, RunInv, Typed, session
    <3> QED BY <1>3, <3>1, <3>2, <3>3, <3>4, <3>5 DEF ClientStep
  <2> QED BY <2>1, <2>3 DEF RunsInv, RunInv
<1>4. ASSUME NEW s \in Sessions, Switch(s) \/ Delete(s) PROVE UNCHANGED RunVars
  BY <1>4 DEF Switch, Delete, RunVars
<1>5. CASE Enter \/ NewSession \/ Recreate \/ UNCHANGED vars
  BY <1>2, <1>5 DEF Enter, NewSession, Recreate, vars, RunVars
<1>6. ASSUME NEW l, ReadRows(l) \/ Loaded(l) PROVE UNCHANGED RunVars
  BY <1>6 DEF ReadRows, Loaded, RunVars
<1> QED BY <1>2, <1>3, <1>4, <1>5, <1>6 DEF Next, Reply

-----------------------------------------------------------------------------
(* What is stored.                                                          *)

(* The rows a server step adds, and the request it adds them for. *)
Asks(r) == /\ stream[r] = "open" /\ stream'[r] = "asked" /\ post' = post
           /\ store'[sid[r]] = Append(store[sid[r]], Row("user", r))
Answers(r) == /\ stream[r] = "asked" /\ stream'[r] = "completed" /\ post' = post
              /\ store'[sid[r]] = Append(store[sid[r]], Row("assistant", r))
Stores(r) == /\ post[r] = "sent" /\ post'[r] = "stored" /\ stream' = stream
             /\ store'[sid[r]] = Append(Append(store[sid[r]], Row("user", r)), Row("assistant", r))
Fails(r) == /\ store' = store
            /\ \/ stream[r] \in {"open", "asked"} /\ stream'[r] = "error" /\ post' = post
               \/ post[r] = "sent" /\ post'[r] = "failed" /\ stream' = stream

LEMMA ServerStores ==
  ASSUME Typed, RunsInv, NEW r \in Runs, ServerStep(r)
  PROVE  Asks(r) \/ Answers(r) \/ Stores(r) \/ Fails(r)
<1>1. sid[r] \in Sessions
  BY StoreSteps
<1>2. store \in [Sessions -> Seq(Rows)] /\ stream \in [Runs -> Streams] /\ post \in [Runs -> Posts]
  BY DEF Typed
<1>3. Row("user", r) \in Rows /\ Row("assistant", r) \in Rows
  BY RowTypes
<1>4. store[sid[r]] \o <<Row("user", r), Row("assistant", r)>>
        = Append(Append(store[sid[r]], Row("user", r)), Row("assistant", r))
  BY <1>1, <1>2, <1>3, AppendTwo
<1>5. CASE StreamAsk(r)
  BY <1>1, <1>2, <1>5 DEF StreamAsk, Asks, Fails
<1>6. CASE StreamAnswer(r)
  BY <1>1, <1>2, <1>6 DEF StreamAnswer, Answers, Fails
<1>7. CASE Post(r)
  BY <1>1, <1>2, <1>4, <1>7 DEF Post, Stores, Fails
<1> QED BY <1>5, <1>6, <1>7 DEF ServerStep

LEMMA CopiesKept ==
  ASSUME Typed, SessionsInv, RunsInv, CopiesInv, [Next]_vars
  PROVE  CopiesInv'
<1>1. ASSUME NEW q \in Runs, NEW t \in Sessions
      PROVE  /\ Copies(q, t) = At(store[t], Row("user", q))
             /\ Copies(q, t)' = At(store'[t], Row("user", q))
             /\ Cardinality(Copies(q, t)) \in Nat
             /\ Cardinality(Copies(q, t)) <= Attempts(q, t)
             /\ Attempts(q, t) \in Nat /\ Attempts(q, t)' \in Nat
  <2>1. store[t] \in Seq(Rows)
    BY DEF Typed
  <2>2. Copies(q, t) = At(store[t], Row("user", q)) /\ Copies(q, t)' = At(store'[t], Row("user", q))
    BY DEF Copies, At
  <2> QED BY <2>1, <2>2, AtFinite DEF CopiesInv, Attempts
<1>2. ASSUME NEW q \in Runs, NEW t \in Sessions, store'[t] = store[t],
             Attempts(q, t) <= Attempts(q, t)'
      PROVE  Cardinality(Copies(q, t)') <= Attempts(q, t)'
  BY <1>1, <1>2
<1>3. ASSUME UNCHANGED <<store, sid, stream, post>> PROVE CopiesInv'
  BY <1>3 DEF CopiesInv, Copies, Attempts
<1>4. ASSUME NEW r \in Runs, ServerStep(r) PROVE CopiesInv'
  <2>1. /\ sid[r] \in Sessions /\ sid' = sid
        /\ \A s \in Sessions \ {sid[r]} : store'[s] = store[s]
    BY <1>4, StoreSteps
  <2>2. \A q \in Runs \ {r} : stream'[q] = stream[q] /\ post'[q] = post[q]
    BY <1>4, OthersRun
  <2>3. \A q \in Runs \ {r}, t \in Sessions : Attempts(q, t)' = Attempts(q, t)
    BY <2>1, <2>2 DEF Attempts
  <2>4. \A t \in Sessions \ {sid[r]} : Attempts(r, t)' = Attempts(r, t)
    BY <2>1 DEF Attempts
  <2> DEFINE rows == store[sid[r]]
  <2>5. rows \in Seq(Rows) /\ Row("user", r) \in Rows /\ Row("assistant", r) \in Rows
    BY <2>1, RowTypes DEF Typed
  <2>6. \A q \in Runs : Row("user", q) # Row("assistant", r)
                        /\ (q # r => Row("user", q) # Row("user", r))
    BY DEF Row
  <2>7. \A q \in Runs : Cardinality(At(rows, Row("user", q))) \in Nat
    BY <2>5, AtFinite
  <2>8. \A q \in Runs :
          Cardinality(At(Append(rows, Row("assistant", r)), Row("user", q)))
            = Cardinality(At(rows, Row("user", q)))
    BY <2>5, <2>6, <2>7, AtAppend
  <2>9. Append(rows, Row("user", r)) \in Seq(Rows)
    BY <2>5, AppendSeq
  <2>10. \A q \in Runs :
          Cardinality(At(Append(rows, Row("user", r)), Row("user", q)))
            = Cardinality(At(rows, Row("user", q))) + (IF q = r THEN 1 ELSE 0)
    BY <2>5, <2>6, <2>7, AtAppend
  <2>11. \A q \in Runs :
          Cardinality(At(Append(Append(rows, Row("user", r)), Row("assistant", r)), Row("user", q)))
            = Cardinality(At(Append(rows, Row("user", r)), Row("user", q)))
    <3>1. \A q \in Runs : Cardinality(At(Append(rows, Row("user", r)), Row("user", q))) \in Nat
      BY <2>9, AtFinite
    <3> DEFINE asked == Append(rows, Row("user", r))
    <3> HIDE DEF asked
    <3>2. asked \in Seq(Rows) /\ \A q \in Runs : Cardinality(At(asked, Row("user", q))) \in Nat
      BY <2>9, <3>1 DEF asked
    <3>3. \A q \in Runs : Cardinality(At(Append(asked, Row("assistant", r)), Row("user", q)))
                          = Cardinality(At(asked, Row("user", q)))
      BY <2>5, <2>6, <3>2, AtAppend
    <3> QED BY <3>3 DEF asked
  <2>12. \/ /\ \A q \in Runs : Cardinality(At(store'[sid[r]], Row("user", q)))
                                 = Cardinality(At(rows, Row("user", q)))
            /\ Attempts(r, sid[r]) <= Attempts(r, sid[r])'
         \/ /\ \A q \in Runs : Cardinality(At(store'[sid[r]], Row("user", q)))
                                 = Cardinality(At(rows, Row("user", q))) + (IF q = r THEN 1 ELSE 0)
            /\ Attempts(r, sid[r])' = Attempts(r, sid[r]) + 1
    <3>1. CASE Asks(r)
      BY <2>1, <2>10, <3>1 DEF Asks, Attempts
    <3>2. CASE Answers(r)
      BY <2>1, <2>8, <3>2 DEF Answers, Attempts
    <3>3. CASE Stores(r)
      BY <2>1, <2>10, <2>11, <3>3 DEF Stores, Attempts
    <3>4. CASE Fails(r)
      BY <2>1, <3>4 DEF Fails, Attempts
    <3> QED BY <1>4, <3>1, <3>2, <3>3, <3>4, ServerStores
  <2>13. \A q \in Runs, t \in Sessions : Cardinality(Copies(q, t)') <= Attempts(q, t)'
    <3> SUFFICES ASSUME NEW q \in Runs, NEW t \in Sessions
                 PROVE  Cardinality(Copies(q, t)') <= Attempts(q, t)'
      OBVIOUS
    <3>1. CASE t # sid[r]
      BY <1>1, <1>2, <2>1, <2>3, <2>4, <3>1
    <3>2. CASE t = sid[r] /\ q # r
      <4>1. Cardinality(Copies(q, t)') = Cardinality(Copies(q, t))
        BY <1>1, <2>7, <2>12, <3>2
      <4> QED BY <1>1, <2>3, <3>2, <4>1
    <3>3. CASE t = sid[r] /\ q = r
      <4>1. \/ /\ Cardinality(Copies(q, t)') = Cardinality(Copies(q, t))
               /\ Attempts(q, t) <= Attempts(q, t)'
            \/ /\ Cardinality(Copies(q, t)') = Cardinality(Copies(q, t)) + 1
               /\ Attempts(q, t)' = Attempts(q, t) + 1
        <5>1. /\ Copies(r, sid[r]) = At(rows, Row("user", r))
              /\ Copies(r, sid[r])' = At(store'[sid[r]], Row("user", r))
          BY <1>1, <2>1
        <5>2. \/ /\ Cardinality(At(store'[sid[r]], Row("user", r))) = Cardinality(At(rows, Row("user", r)))
                 /\ Attempts(r, sid[r]) <= Attempts(r, sid[r])'
              \/ /\ Cardinality(At(store'[sid[r]], Row("user", r)))
                        = Cardinality(At(rows, Row("user", r))) + 1
                 /\ Attempts(r, sid[r])' = Attempts(r, sid[r]) + 1
          BY <2>12
        <5>3. t = sid[r] /\ t = sid[r]' /\ q = r
          BY <2>1, <3>3
        <5> QED BY <5>1, <5>2, <5>3
      <4> QED BY <1>1, <4>1
    <3> QED BY <3>1, <3>2, <3>3
  <2> QED BY <2>13 DEF CopiesInv
<1>5. ASSUME NEW s \in Sessions, Delete(s) PROVE CopiesInv'
  <2>1. /\ store'[s] = <<>> /\ \A t \in Sessions \ {s} : store'[t] = store[t]
        /\ UNCHANGED <<sid, stream, post>>
    BY <1>5 DEF Delete, Typed
  <2>2. \A q \in Runs, t \in Sessions : Attempts(q, t)' = Attempts(q, t)
    BY <2>1 DEF Attempts
  <2>3. \A q \in Runs : Cardinality(Copies(q, s)') = 0
    <3>1. \A q \in Runs : Copies(q, s)' = {}
      BY <2>1, EmptyLists DEF Copies
    <3> QED BY <3>1, FS_EmptySet
  <2>4. ASSUME NEW q \in Runs, NEW t \in Sessions
        PROVE  Cardinality(Copies(q, t)') <= Attempts(q, t)'
    <3>1. CASE t = s
      BY <1>1, <2>3, <3>1
    <3>2. CASE t # s
      BY <1>1, <1>2, <2>1, <2>2, <3>2
    <3> QED BY <3>1, <3>2
  <2> QED BY <2>4 DEF CopiesInv
<1>6. ASSUME NEW r \in Runs, Send(r) \/ Break(r) \/ ClientStep(r) PROVE CopiesInv'
  <2>1. store' = store
    BY <1>6, ApartSteps DEF Apart
  <2>2. \A q \in Runs \ {r} : stream'[q] = stream[q] /\ post'[q] = post[q] /\ sid'[q] = sid[q]
    BY <1>6, OthersRun
  <2>3. \A t \in Sessions : Attempts(r, t) <= Attempts(r, t)'
    <3>1. CASE Send(r) \/ Awaited(r)
      <4>1. stream[r] = "none" /\ post[r] = "none" /\ sid[r] = NoSession
        BY <3>1 DEF Send, Awaited, RunsInv
      <4>2. \A t \in Sessions : Attempts(r, t) = 0
        BY <4>1, Numbers DEF Attempts
      <4> QED BY <1>1, <4>2
    <3>2. CASE Break(r)
      <4>1. post[r] = "none" /\ post'[r] = "sent" /\ stream' = stream /\ sid' = sid
        BY <3>2 DEF Break, RunsInv, Typed
      <4> QED BY <4>1 DEF Attempts
    <3>3. CASE Finished(r)
      <4>1. stream[r] \in {"completed", "error"} /\ stream'[r] = "done" /\ post' = post /\ sid' = sid
        BY <3>3 DEF Finished, Typed
      <4> QED BY <4>1 DEF Attempts
    <3>4. CASE Posted(r)
      <4>1. UNCHANGED <<stream, post, sid>>
        BY <3>4 DEF Posted
      <4> QED BY <4>1 DEF Attempts
    <3> QED BY <1>6, <3>1, <3>2, <3>3, <3>4 DEF ClientStep
  <2>4. ASSUME NEW q \in Runs, NEW t \in Sessions PROVE Attempts(q, t) <= Attempts(q, t)'
    <3>1. CASE q = r
      BY <2>3, <3>1
    <3>2. CASE q # r
      <4>1. Attempts(q, t)' = Attempts(q, t)
        BY <2>2, <3>2 DEF Attempts
      <4> QED BY <1>1, <4>1
    <3> QED BY <3>1, <3>2
  <2> QED BY <1>2, <2>1, <2>4 DEF CopiesInv
<1>7. ASSUME NEW l, ReadRows(l) \/ Loaded(l) PROVE UNCHANGED <<store, sid, stream, post>>
  BY <1>7 DEF ReadRows, Loaded
<1>8. ASSUME NEW s \in Sessions, Switch(s) PROVE UNCHANGED <<store, sid, stream, post>>
  BY <1>8 DEF Switch
<1>9. CASE Enter \/ NewSession \/ Recreate \/ UNCHANGED vars
  BY <1>3, <1>9 DEF Enter, NewSession, Recreate, vars
<1> QED BY <1>3, <1>4, <1>5, <1>6, <1>7, <1>8, <1>9 DEF Next, Reply

-----------------------------------------------------------------------------
(* Answers stay stored.                                                     *)

LEMMA Listed ==
  ASSUME NEW rows \in Seq(Rows), NEW e \in Rows
  PROVE  /\ \E k \in DOMAIN Append(rows, e) : Append(rows, e)[k] = e
         /\ \A row : (\E k \in DOMAIN rows : rows[k] = row)
                       => \E k \in DOMAIN Append(rows, e) : Append(rows, e)[k] = row
<1>1. DOMAIN rows = 1..Len(rows) /\ Len(rows) \in Nat
  BY SeqElements
<1>2. /\ DOMAIN Append(rows, e) = 1..(Len(rows) + 1) /\ Append(rows, e)[Len(rows) + 1] = e
      /\ \A i \in 1..Len(rows) : Append(rows, e)[i] = rows[i]
  BY AppendSeq
<1>3. Len(rows) + 1 \in DOMAIN Append(rows, e) /\ DOMAIN rows \subseteq DOMAIN Append(rows, e)
  BY <1>1, <1>2
<1> QED BY <1>1, <1>2, <1>3

(* A stored row is only lost with its session. *)
LEMMA RowsStay ==
  ASSUME Typed, SessionsInv, RunsInv, [Next]_vars, NEW s \in Sessions, NEW row,
         \E k \in DOMAIN store[s] : store[s][k] = row
  PROVE  s \in deleted' \/ \E k \in DOMAIN store'[s] : store'[s][k] = row
<1>1. CASE store'[s] = store[s]
  BY <1>1
<1>2. ASSUME NEW t \in Sessions, Delete(t)
      PROVE  s \in deleted' \/ store'[s] = store[s]
  BY <1>2 DEF Delete, Typed
<1>3. ASSUME NEW r \in Runs, ServerStep(r)
      PROVE  store'[s] = store[s] \/ \E k \in DOMAIN store'[s] : store'[s][k] = row
  <2>1. s # sid[r] => store'[s] = store[s]
    BY <1>3, StoreSteps
  <2>2. store[s] \in Seq(Rows) /\ Row("user", r) \in Rows /\ Row("assistant", r) \in Rows
    BY RowTypes DEF Typed
  <2> DEFINE asked == Append(store[s], Row("user", r))
  <2>3. asked \in Seq(Rows)
    BY <2>2, AppendSeq
  <2>4. /\ \E k \in DOMAIN asked : asked[k] = row
        /\ \E k \in DOMAIN Append(store[s], Row("assistant", r)) :
             Append(store[s], Row("assistant", r))[k] = row
    BY <2>2, Listed
  <2> HIDE DEF asked
  <2>5. \E k \in DOMAIN Append(asked, Row("assistant", r)) :
             Append(asked, Row("assistant", r))[k] = row
    <3>1. \A e \in Rows : (\E k \in DOMAIN asked : asked[k] = row)
                            => \E k \in DOMAIN Append(asked, e) : Append(asked, e)[k] = row
      BY <2>3, Listed
    <3> QED BY <2>2, <2>4, <3>1
  <2>6. s = sid[r] => \/ store'[s] = store[s] \/ store'[s] = asked
                      \/ store'[s] = Append(store[s], Row("assistant", r))
                      \/ store'[s] = Append(asked, Row("assistant", r))
    BY <1>3, ServerStores DEF Asks, Answers, Stores, Fails, asked
  <2> QED BY <2>1, <2>4, <2>5, <2>6
<1>4. ASSUME NEW t \in Sessions, Switch(t) PROVE store' = store
  BY <1>4 DEF Switch
<1>5. CASE Enter \/ NewSession \/ Recreate \/ UNCHANGED vars
  BY <1>1, <1>5 DEF Enter, NewSession, Recreate, vars
<1>6. CASE Apart
  BY <1>1, <1>6 DEF Apart
<1> QED BY <1>1, <1>2, <1>3, <1>4, <1>5, <1>6, ApartSteps DEF Next, Reply

LEMMA SidKept ==
  ASSUME Typed, RunsInv, [Next]_vars, NEW q \in Runs, sid[q] # NoSession
  PROVE  sid'[q] = sid[q]
<1>1. ASSUME NEW r \in Runs, Send(r) \/ Break(r) \/ ServerStep(r) \/ ClientStep(r)
      PROVE  sid'[q] = sid[q]
  <2>1. CASE q # r
    BY <1>1, <2>1, OthersRun
  <2>2. CASE q = r
    <3>1. stream[r] # "none"
      BY <2>2 DEF RunsInv
    <3>2. ~Send(r) /\ ~Awaited(r)
      BY <3>1 DEF Send, Awaited, RunsInv
    <3>3. sid' = sid
      BY <1>1, <3>2, StoreSteps DEF Break, ClientStep, Finished, Posted
    <3> QED BY <3>3
  <2> QED BY <2>1, <2>2
<1>2. ASSUME NEW s \in Sessions, Switch(s) \/ Delete(s) PROVE sid' = sid
  BY <1>2 DEF Switch, Delete
<1>3. ASSUME NEW l, ReadRows(l) \/ Loaded(l) PROVE sid' = sid
  BY <1>3 DEF ReadRows, Loaded
<1>4. CASE Enter \/ NewSession \/ Recreate \/ UNCHANGED vars
  BY <1>4 DEF Enter, NewSession, Recreate, vars
<1> QED BY <1>1, <1>2, <1>3, <1>4 DEF Next, Reply

LEMMA SafeKept ==
  ASSUME Typed, SessionsInv, RunsInv, [Next]_vars
  PROVE  /\ \A r \in Runs : Safe(r) => Safe(r)'
         /\ SafeRows \subseteq SafeRows' /\ SafeMessages \subseteq SafeMessages'
<1>1. ASSUME NEW r \in Runs, Safe(r) PROVE Safe(r)'
  <2>1. sid[r] \in Sessions /\ sid'[r] = sid[r]
    BY <1>1, SidKept, Numbers DEF Safe
  <2>2. deleted \subseteq deleted'
    BY KnownGrows
  <2>3. sid[r] \in deleted'
        \/ \E k \in DOMAIN store'[sid[r]] : store'[sid[r]][k] = Row("assistant", r)
    BY <1>1, <2>1, <2>2, RowsStay DEF Safe
  <2> QED BY <2>1, <2>3 DEF Safe
<1>2. SafeRows \subseteq SafeRows'
  BY <1>1 DEF SafeRows
<1>3. SafeMessages \subseteq SafeMessages'
  BY <1>1 DEF SafeMessages
<1> QED BY <1>1, <1>2, <1>3

(* An answer is stored before the stream or the buffered request has it. *)
LEMMA StoredFirst ==
  ASSUME Typed, RunsInv, NEW r \in Runs, ServerStep(r), Answers(r) \/ Stores(r)
  PROVE  Safe(r)'
<1>1. sid[r] \in Sessions /\ sid' = sid
  BY StoreSteps
<1>2. store[sid[r]] \in Seq(Rows) /\ Row("user", r) \in Rows /\ Row("assistant", r) \in Rows
  BY <1>1, RowTypes DEF Typed
<1>3. Append(store[sid[r]], Row("user", r)) \in Seq(Rows)
  BY <1>2, AppendSeq
<1>4. \E rows \in Seq(Rows) : store'[sid[r]] = Append(rows, Row("assistant", r))
  BY <1>2, <1>3 DEF Answers, Stores
<1>5. \E k \in DOMAIN store'[sid[r]] : store'[sid[r]][k] = Row("assistant", r)
  BY <1>2, <1>4, Listed
<1> QED BY <1>1, <1>5 DEF Safe

LEMMA Harmless ==
  /\ \A r \in Runs : Row("user", r) \in SafeRows
  /\ \A r \in Runs : Message("user", r, "question") \in SafeMessages
  /\ \A r \in Runs : Placeholder(r) \in SafeMessages
  /\ \A r \in Runs : Message("assistant", r, "error") \in SafeMessages
  /\ \A r \in Runs : Safe(r) => /\ Row("assistant", r) \in SafeRows
                                /\ Message("assistant", r, "answer") \in SafeMessages
  /\ <<>> \in Seq(SafeRows) /\ <<>> \in Seq(SafeMessages)
  /\ \A row \in SafeRows : Shown(row) \in SafeMessages
<1>1. \A row \in Rows : Shown(row) \in Messages
  BY RowTypes
<1>2. \A r \in Runs, role \in {"user", "assistant"} : Row(role, r) \in Rows
  BY RowTypes
<1>3. \A r \in Runs, role \in {"user", "assistant"}, text \in Texts : Message(role, r, text) \in Messages
  BY RowTypes
<1>4. \A r \in Runs : Row("user", r).role = "user" /\ Row("assistant", r).run = r
  BY DEF Row
<1>5. \A r \in Runs : \A role, text : Message(role, r, text).text = text /\ Message(role, r, text).run = r
  BY DEF Message
<1>6. \A row \in Rows : Shown(row).run = row.run
                        /\ (Shown(row).text = "answer" => row.role = "assistant")
  BY DEF Shown, Message, Rows
<1>7. /\ \A r \in Runs : Row("user", r) \in SafeRows
      /\ \A r \in Runs : Safe(r) => Row("assistant", r) \in SafeRows
  BY <1>2, <1>4 DEF SafeRows
<1>8. /\ \A r \in Runs : Message("user", r, "question") \in SafeMessages
      /\ \A r \in Runs : Placeholder(r) \in SafeMessages
      /\ \A r \in Runs : Message("assistant", r, "error") \in SafeMessages
      /\ \A r \in Runs : Safe(r) => Message("assistant", r, "answer") \in SafeMessages
  BY <1>3, <1>5 DEF SafeMessages, Placeholder, Texts
<1>9. \A row \in SafeRows : Shown(row) \in SafeMessages
  BY <1>1, <1>6 DEF SafeRows, SafeMessages
<1> QED BY <1>7, <1>8, <1>9

LEMMA RestoredSafe ==
  ASSUME NEW rows \in Seq(SafeRows)
  PROVE  Restored(rows) \in Seq(SafeMessages)
<1>1. DOMAIN rows = 1..Len(rows) /\ Len(rows) \in Nat /\ \A i \in 1..Len(rows) : rows[i] \in SafeRows
  BY SeqElements
<1>2. Restored(rows) \in [1..Len(rows) -> SafeMessages]
  BY <1>1, Harmless DEF Restored
<1> QED BY <1>1, <1>2, FunctionIsSeq

(* Every step leaves a list of messages whose answers are stored. *)
LEMMA MessagesKept ==
  ASSUME Typed, SessionsInv, RunsInv, AnswersInv, [Next]_vars
  PROVE  messages' \in Seq(SafeMessages)'
<1>1. PICK S : S = SafeMessages
  OBVIOUS
<1>2. SafeMessages \subseteq SafeMessages'
  BY SafeKept
<1> SUFFICES messages' \in Seq(SafeMessages)
  <2>1. PICK T : T = SafeMessages'
    OBVIOUS
  <2>2. S \subseteq T /\ messages' \in Seq(S)
    BY <1>1, <1>2, <2>1
  <2>3. messages' \in Seq(T)
    BY <2>2, SeqGrows
  <2> QED BY <2>1, <2>3
<1>3. messages \in Seq(S) /\ NoPlaceholder(messages) \in Seq(S)
  BY <1>1, WithoutSeq DEF AnswersInv, NoPlaceholder
<1>4. \A list \in Seq(S), m \in S : Append(list, m) \in Seq(S)
  BY AppendSeq
<1>5. <<>> \in Seq(S)
  BY <1>1, Harmless
<1>6. ASSUME NEW r \in Runs
      PROVE  /\ Placeholder(r) \in S /\ Message("user", r, "question") \in S
             /\ Message("assistant", r, "error") \in S
             /\ Safe(r) => Message("assistant", r, "answer") \in S
  BY <1>1, Harmless
<1>7. ASSUME NEW r \in Runs, Send(r) \/ Awaited(r) PROVE messages' \in Seq(S)
  <2>1. Append(messages, Message("user", r, "question")) \in Seq(S)
    BY <1>3, <1>4, <1>6
  <2>2. \E list \in Seq(S) : messages' = list \/ messages' = Append(list, Placeholder(r))
    BY <1>3, <1>7, <2>1 DEF Send, Awaited, Begin
  <2> QED BY <1>4, <1>6, <2>2
<1>8. ASSUME NEW r \in Runs, Finished(r) PROVE messages' \in Seq(S)
  <2>1. stream[r] = "completed" => Safe(r)
    BY DEF AnswersInv
  <2>2. \E text : messages' = Patched(messages, r, text) /\ Message("assistant", r, text) \in S
    BY <1>6, <1>8, <2>1 DEF Finished
  <2> QED BY <1>3, <2>2, PatchedSeq
<1>9. ASSUME NEW r \in Runs, Break(r) PROVE messages' \in Seq(S)
  BY <1>3, <1>4, <1>6, <1>9 DEF Break
<1>10. ASSUME NEW r \in Runs, Posted(r) PROVE messages' \in Seq(S)
  <2>1. post[r] = "stored" => Safe(r)
    BY DEF AnswersInv
  <2>2. \E m \in S : messages' = Append(NoPlaceholder(messages), m)
    BY <1>6, <1>10, <2>1 DEF Posted
  <2> QED BY <1>3, <1>4, <2>2
<1>11. ASSUME NEW l \in loads, Loaded(l) PROVE messages' \in Seq(S)
  <2>1. Restored(l.rows) \in Seq(S)
    BY <1>1, RestoredSafe DEF AnswersInv
  <2> QED BY <1>3, <1>11, <2>1 DEF Loaded
<1>12. ASSUME NEW s \in Sessions, Switch(s) \/ Delete(s) PROVE messages' \in Seq(S)
  BY <1>3, <1>5, <1>12 DEF Switch, Delete
<1>13. ASSUME Enter \/ NewSession \/ Recreate \/ UNCHANGED vars PROVE messages' \in Seq(S)
  <2>1. messages' = messages \/ messages' = <<>>
    BY <1>13 DEF Enter, NewSession, Recreate, vars
  <2> QED BY <1>3, <1>5, <2>1
<1>14. ASSUME NEW l, ReadRows(l) PROVE messages' \in Seq(S)
  BY <1>3, <1>14 DEF ReadRows
<1>15. ASSUME NEW r \in Runs, ServerStep(r) PROVE messages' \in Seq(S)
  BY <1>3, <1>15, StoreSteps
<1> DEFINE Kept == messages' \in Seq(S)
<1>16. Kept
  <2> HIDE DEF Kept
  <2>1. /\ \A r \in Runs : Send(r) \/ Awaited(r) \/ Finished(r) \/ Break(r) \/ Posted(r) \/ ServerStep(r) => Kept
        /\ \A l \in loads : ReadRows(l) \/ Loaded(l) => Kept
        /\ \A s \in Sessions : Switch(s) \/ Delete(s) => Kept
        /\ Enter \/ NewSession \/ Recreate \/ UNCHANGED vars => Kept
    BY <1>7, <1>8, <1>9, <1>10, <1>11, <1>12, <1>13, <1>14, <1>15 DEF Kept
  <2> QED BY <2>1 DEF Next, Reply, ClientStep
<1>17. messages' \in Seq(S)
  BY <1>16
<1> QED BY <1>1, <1>17

(* The store and the loads keep to rows whose answers are stored. *)
LEMMA StoreKept ==
  ASSUME Typed, SessionsInv, RunsInv, AnswersInv, [Next]_vars
  PROVE  \A s \in Sessions : store'[s] \in Seq(SafeRows)'
<1>1. PICK T : T = SafeRows'
  OBVIOUS
<1>2. PICK S : S = SafeRows
  OBVIOUS
<1>3. S \subseteq T
  BY <1>1, <1>2, SafeKept
<1>4. ASSUME NEW s \in Sessions PROVE store[s] \in Seq(T) /\ store[s] \in Seq(S)
  <2>1. store[s] \in Seq(S)
    BY <1>2 DEF AnswersInv
  <2> QED BY <1>3, <2>1, SeqGrows
<1>5. <<>> \in Seq(T)
  OBVIOUS
<1> DEFINE Kept == \A s \in Sessions : store'[s] \in Seq(T)
<1>6. ASSUME UNCHANGED store PROVE \A s \in Sessions : store'[s] \in Seq(T)
  BY <1>4, <1>6
<1>7. ASSUME NEW t \in Sessions, Delete(t) PROVE \A s \in Sessions : store'[s] \in Seq(T)
  <2>1. \A s \in Sessions : store'[s] = IF s = t THEN <<>> ELSE store[s]
    BY <1>7 DEF Delete, Typed
  <2> QED BY <1>4, <1>5, <2>1
<1>8. ASSUME NEW r \in Runs, ServerStep(r) PROVE \A s \in Sessions : store'[s] \in Seq(T)
  <2>1. sid[r] \in Sessions /\ \A s \in Sessions \ {sid[r]} : store'[s] = store[s]
    BY <1>8, StoreSteps
  <2>2. \A list \in Seq(T), e \in T : Append(list, e) \in Seq(T)
    BY AppendSeq
  <2>3. Row("user", r) \in T
    BY <1>2, <1>3, Harmless
  <2>4. Answers(r) \/ Stores(r) => Row("assistant", r) \in T
    <3>1. Answers(r) \/ Stores(r) => Safe(r)'
      BY <1>8, StoredFirst
    <3>2. Row("assistant", r) \in Rows /\ Row("assistant", r).run = r
      BY RowTypes DEF Row
    <3>3. Safe(r)' => Row("assistant", r) \in SafeRows'
      BY <3>2 DEF SafeRows
    <3> QED BY <1>1, <3>1, <3>3
  <2>5. store[sid[r]] \in Seq(T)
    BY <1>4, <2>1
  <2>6. store'[sid[r]] \in Seq(T)
    <3>1. CASE Asks(r)
      BY <2>2, <2>3, <2>5, <3>1 DEF Asks
    <3>2. CASE Answers(r)
      BY <2>2, <2>4, <2>5, <3>2 DEF Answers
    <3>3. CASE Stores(r)
      BY <2>2, <2>3, <2>4, <2>5, <3>3 DEF Stores
    <3>4. CASE Fails(r)
      BY <2>5, <3>4 DEF Fails
    <3> QED BY <1>8, <3>1, <3>2, <3>3, <3>4, ServerStores
  <2> QED BY <1>4, <2>1, <2>6
<1>9. ASSUME NEW s \in Sessions, Switch(s) PROVE UNCHANGED store
  BY <1>9 DEF Switch
<1>10. ASSUME Enter \/ NewSession \/ Recreate \/ UNCHANGED vars \/ Apart PROVE UNCHANGED store
  BY <1>10 DEF Enter, NewSession, Recreate, vars, Apart
<1>11. Kept
  <2>1. /\ \A r \in Runs : ServerStep(r) => Kept
        /\ \A s \in Sessions : Switch(s) \/ Delete(s) => Kept
        /\ Enter \/ NewSession \/ Recreate \/ UNCHANGED vars \/ Apart => Kept
    BY <1>6, <1>7, <1>8, <1>9, <1>10
  <2> HIDE DEF Kept
  <2> QED BY <2>1, ApartSteps DEF Next, Reply
<1>12. \A s \in Sessions : store'[s] \in Seq(T)
  BY <1>11
<1> QED BY <1>1, <1>12

LEMMA LoadsKept ==
  ASSUME Typed, SessionsInv, RunsInv, AnswersInv, [Next]_vars
  PROVE  \A l \in loads' : l.rows \in Seq(SafeRows)'
<1>1. PICK T : T = SafeRows'
  OBVIOUS
<1>2. PICK S : S = SafeRows
  OBVIOUS
<1>3. S \subseteq T
  BY <1>1, <1>2, SafeKept
<1>4. \A list \in Seq(S) : list \in Seq(T)
  BY <1>3, SeqGrows
<1>5. \A l \in loads : l.rows \in Seq(S)
  BY <1>2 DEF AnswersInv
<1>6. <<>> \in Seq(S)
  OBVIOUS
<1>7. \A kind, s : Load(kind, s).rows = <<>>
  BY DEF Load
<1>8. ASSUME NEW m \in loads, ReadRows(m) PROVE \A l \in loads' : l.rows \in Seq(S)
  <2>1. m \in Loads
    BY DEF Typed
  <2>2. store[m.session] \in Seq(S)
    BY <1>2, <2>1 DEF AnswersInv, Loads
  <2>3. [m EXCEPT !.read = TRUE, !.rows = store[m.session]].rows = store[m.session]
    BY <2>1 DEF Loads
  <2> QED BY <1>5, <1>8, <2>2, <2>3 DEF ReadRows
<1>9. ASSUME NEW m \in loads, Loaded(m) PROVE \A l \in loads' : l.rows \in Seq(S)
  BY <1>5, <1>9 DEF Loaded
<1>10. ASSUME NEW s \in Sessions, Switch(s) \/ Delete(s) PROVE \A l \in loads' : l.rows \in Seq(S)
  <2>1. loads' = loads \/ loads' = loads \cup {Load("switch", s)}
    BY <1>10 DEF Switch, Delete
  <2>2. Load("switch", s).rows \in Seq(S)
    BY <1>6, <1>7
  <2> QED BY <1>5, <2>1, <2>2
<1>11. ASSUME NEW r \in Runs, Send(r) \/ Break(r) \/ ServerStep(r) \/ ClientStep(r)
       PROVE  loads' = loads
  BY <1>11 DEF Send, Break, ServerStep, StreamAsk, StreamAnswer, Post, ClientStep, Awaited,
               Finished, Posted
<1>12. CASE Enter \/ NewSession \/ Recreate \/ UNCHANGED vars
  <2>1. loads' = loads \/ \E s : loads' = loads \cup {Load("restore", s)}
    BY <1>12 DEF Enter, NewSession, Recreate, vars
  <2>2. \A l \in loads' : l.rows \in Seq(S)
    <3>1. \A s : Load("restore", s).rows \in Seq(S)
      BY <1>6, <1>7
    <3> QED BY <1>5, <2>1, <3>1
  <2> QED BY <1>1, <1>4, <2>2
<1>13. (\A l \in loads' : l.rows \in Seq(S)) => \A l \in loads' : l.rows \in Seq(T)
  BY <1>4
<1> QED BY <1>1, <1>5, <1>8, <1>9, <1>10, <1>11, <1>12, <1>13 DEF Next, Reply

LEMMA AnswersKept ==
  ASSUME Typed, SessionsInv, RunsInv, AnswersInv, [Next]_vars
  PROVE  AnswersInv'
<1>1. ASSUME NEW q \in Runs, stream'[q] = "completed" \/ post'[q] = "stored"
      PROVE  Safe(q)'
  <2>1. stream[q] = "completed" \/ post[q] = "stored" => Safe(q)'
    BY SafeKept DEF AnswersInv
  <2>2. ASSUME NEW r \in Runs, Send(r) \/ Break(r) \/ ServerStep(r) \/ ClientStep(r)
        PROVE  Safe(q)'
    <3>1. CASE q # r
      BY <1>1, <2>1, <2>2, <3>1, OthersRun
    <3>2. CASE q = r /\ ServerStep(r)
      BY <1>1, <2>1, <3>2, ServerStores, StoredFirst DEF Asks, Answers, Stores, Fails
    <3>3. CASE q = r /\ (Send(r) \/ Break(r) \/ ClientStep(r))
      <4>1. stream'[r] # "completed" \/ stream'[r] = stream[r]
        BY <3>3 DEF Send, Begin, Break, ClientStep, Awaited, Finished, Posted, Typed
      <4>2. post'[r] # "stored" \/ post'[r] = post[r]
        BY <3>3 DEF Send, Begin, Break, ClientStep, Awaited, Finished, Posted, Typed
      <4> QED BY <1>1, <2>1, <3>3, <4>1, <4>2
    <3> QED BY <2>2, <3>1, <3>2, <3>3
  <2>3. ASSUME NEW s \in Sessions, Switch(s) \/ Delete(s) PROVE stream' = stream /\ post' = post
    BY <2>3 DEF Switch, Delete
  <2>4. ASSUME NEW l, ReadRows(l) \/ Loaded(l) PROVE stream' = stream /\ post' = post
    BY <2>4 DEF ReadRows, Loaded
  <2>5. CASE Enter \/ NewSession \/ Recreate \/ UNCHANGED vars
    <3>1. stream' = stream /\ post' = post
      BY <2>5 DEF Enter, NewSession, Recreate, vars
    <3> QED BY <1>1, <2>1, <3>1
  <2> QED BY <1>1, <2>1, <2>2, <2>3, <2>4, <2>5 DEF Next, Reply
<1> QED BY <1>1, MessagesKept, StoreKept, LoadsKept DEF AnswersInv

-----------------------------------------------------------------------------
(* What is shown is the record.                                             *)

(* Once broken or disturbed, always broken or disturbed. *)
LEMMA QuietBefore ==
  ASSUME Typed, RunsInv, [Next]_vars, Quiet'
  PROVE  Quiet
<1>1. disturbed => disturbed'
  <2>1. ASSUME NEW r \in Runs, Send(r) \/ Break(r) \/ ServerStep(r) \/ ClientStep(r)
        PROVE  disturbed => disturbed'
    BY <2>1, StoreSteps DEF Send, Break, ClientStep, Awaited, Finished, Posted, Disturbs
  <2>2. ASSUME NEW s \in Sessions, Switch(s) \/ Delete(s) PROVE disturbed => disturbed'
    BY <2>2 DEF Switch, Delete, Move, Disturbs
  <2>3. ASSUME NEW l, ReadRows(l) \/ Loaded(l) PROVE disturbed => disturbed'
    BY <2>3 DEF ReadRows, Loaded
  <2>4. CASE Enter \/ NewSession \/ Recreate \/ UNCHANGED vars
    BY <2>4 DEF Enter, NewSession, Recreate, vars, Move, Disturbs
  <2> QED BY <2>1, <2>2, <2>3, <2>4 DEF Next, Reply
<1>2. ASSUME NEW q \in Runs, post[q] # "none" PROVE post'[q] # "none"
  <2>1. ASSUME NEW r \in Runs, Send(r) \/ Break(r) \/ ServerStep(r) \/ ClientStep(r)
        PROVE  post'[q] # "none"
    <3>1. CASE q # r
      BY <1>2, <2>1, <3>1, OthersRun
    <3>2. CASE q = r
      BY <1>2, <2>1, <3>2 DEF Send, Begin, Break, ServerStep, StreamAsk, StreamAnswer, Post,
         ClientStep, Awaited, Finished, Posted, Typed
    <3> QED BY <3>1, <3>2
  <2>2. ASSUME NEW s \in Sessions, Switch(s) \/ Delete(s) PROVE post' = post
    BY <2>2 DEF Switch, Delete
  <2>3. ASSUME NEW l, ReadRows(l) \/ Loaded(l) PROVE post' = post
    BY <2>3 DEF ReadRows, Loaded
  <2>4. CASE Enter \/ NewSession \/ Recreate \/ UNCHANGED vars
    BY <1>2, <2>4 DEF Enter, NewSession, Recreate, vars
  <2> QED BY <1>2, <2>1, <2>2, <2>3, <2>4 DEF Next, Reply
<1> QED BY <1>1, <1>2 DEF Quiet, Broken

LEMMA RestMeansResting ==
  ASSUME RecordInv, Quiet, AtRest
  PROVE  Resting
<1>1. ~Entering /\ ~Recreating /\ ~Loading
  BY DEF AtRest, Entering, Recreating, Loading
<1>2. \A r \in Runs : ~Answering(r)
  BY DEF AtRest, Answering, Active
<1> QED BY <1>1, <1>2 DEF RecordInv

LEMMA ActiveMeansAnswering ==
  ASSUME RecordInv, Quiet, NEW r \in Runs, Active(r)
  PROVE  Answering(r)
<1>1. ~Entering /\ ~Recreating /\ ~Loading /\ ~Resting
  BY DEF Calm, Entering, Recreating, Loading, Resting
<1>2. \A q \in Runs \ {r} : ~Answering(q)
  BY DEF Answering
<1> QED BY <1>1, <1>2 DEF RecordInv

LEMMA FreshStore ==
  ASSUME SessionsInv, CanCreate
  PROVE  /\ Created \in Sessions /\ Created # NoSession /\ store[Created] = <<>>
         /\ Without(<<>>, "error") = Restored(store[Created])
<1>1. Created \in Sessions /\ Created # NoSession /\ Created \notin exists \cup deleted
  BY CreatedIsNew, Numbers
<1> QED BY <1>1, EmptyLists DEF SessionsInv

(* Sessions and loads. *)
LEMMA SessionRecord ==
  ASSUME Typed, SessionsInv, RunsInv, RecordInv, Quiet, Quiet',
         \/ Enter \/ NewSession \/ Recreate
         \/ \E s \in Sessions : Switch(s) \/ Delete(s)
  PROVE  RecordInv'
<1>0. pc' = pc /\ (Calm => Calm')
  <2>1. pc' = pc
    BY DEF Enter, NewSession, Recreate, Switch, Delete
  <2> QED BY <2>1 DEF Calm, Active
<1>1. CASE Enter
  <2>1. Entering
    BY <1>1 DEF Enter, RecordInv, Entering, Loading, Recreating, Resting, Answering
  <2>2. CASE promise' = Rejected /\ UNCHANGED <<sessionRef, exists, loads>>
    <3>1. Resting'
      BY <1>0, <1>1, <2>1, <2>2, Numbers DEF Enter, Entering, Resting
    <3> QED BY <3>1 DEF RecordInv
  <2>3. CASE ~(promise' = Rejected /\ UNCHANGED <<sessionRef, exists, loads>>)
    <3>1. PICK s \in Sessions : /\ promise' = s /\ sessionRef' = s
                                /\ loads' = loads \cup {Load("restore", s)}
      BY <1>1, <2>3, LatestExists, CreatedIsNew DEF Enter
    <3>2. loads' = {Load("restore", s)} /\ messages' = <<>> /\ ~recreating'
      BY <1>1, <2>1, <3>1 DEF Enter, Entering
    <3>3. Load("restore", s).session = s /\ ~Load("restore", s).read
      BY DEF Load
    <3>4. promise' # Pending /\ sessionRef' # NoSession /\ Calm'
      BY <1>0, <2>1, <3>1, Numbers DEF Entering
    <3>5. Loading'
      BY <3>1, <3>2, <3>3, <3>4 DEF Loading
    <3> QED BY <3>5 DEF RecordInv
  <2> QED BY <2>2, <2>3
<1>2. CASE NewSession
  <2>1. AtRest /\ promise' = promise /\ loads' = loads /\ recreating' = recreating
        /\ sessionRef' = Created /\ messages' = <<>> /\ store' = store /\ CanCreate
    BY <1>2 DEF NewSession, Move, Disturbs, Quiet
  <2>2. Without(messages', "error") = Restored(store'[sessionRef'])
    BY <2>1, FreshStore
  <2>3. Resting'
    BY <1>0, <2>1, <2>2 DEF AtRest, Calm, Resting
  <2> QED BY <2>3 DEF RecordInv
<1>3. CASE Recreate
  <2>1. Recreating
    BY <1>3 DEF Recreate, RecordInv, Entering, Loading, Recreating, Resting, Answering
  <2>2. promise' = promise /\ loads' = loads /\ ~recreating'
        /\ sessionRef' = Created /\ messages' = <<>> /\ store' = store /\ CanCreate
    BY <1>3, <2>1 DEF Recreate, Recreating
  <2>3. Without(messages', "error") = Restored(store'[sessionRef'])
    BY <2>2, FreshStore
  <2>4. Resting'
    BY <1>0, <2>1, <2>2, <2>3 DEF Recreating, Resting
  <2> QED BY <2>4 DEF RecordInv
<1>4. ASSUME NEW s \in Sessions, Switch(s) PROVE RecordInv'
  <2>1. AtRest /\ promise' = promise /\ loads' = loads \cup {Load("switch", s)}
        /\ recreating' = recreating /\ sessionRef' = s /\ messages' = <<>>
    BY <1>4 DEF Switch, Move, Disturbs, Quiet
  <2>2. loads' = {Load("switch", s)}
    BY <2>1 DEF AtRest
  <2>3. Load("switch", s).session = s /\ ~Load("switch", s).read
    BY DEF Load
  <2>4. Loading'
    BY <1>0, <2>1, <2>2, <2>3, Numbers DEF AtRest, Calm, Loading
  <2> QED BY <2>4 DEF RecordInv
<1>5. ASSUME NEW s \in Sessions, Delete(s) PROVE RecordInv'
  <2>1. AtRest /\ promise' = promise /\ loads' = loads
        /\ \A t \in Sessions \ {s} : store'[t] = store[t]
    BY <1>5 DEF Delete, Move, Disturbs, Quiet, Typed
  <2>2. CASE sessionRef = s
    <3>1. sessionRef' = NoSession /\ messages' = <<>> /\ recreating'
      BY <1>5, <2>2 DEF Delete
    <3>2. Recreating'
      BY <1>0, <2>1, <3>1 DEF AtRest, Calm, Recreating
    <3> QED BY <3>2 DEF RecordInv
  <2>3. CASE sessionRef # s
    <3>1. UNCHANGED <<sessionRef, messages, recreating>> /\ Resting
      BY <1>5, <2>1, <2>3, RestMeansResting DEF Delete
    <3>2. sessionRef # NoSession => store'[sessionRef] = store[sessionRef]
      BY <2>1, <2>3 DEF Typed
    <3>3. Resting'
      BY <1>0, <2>1, <3>1, <3>2 DEF Resting
    <3> QED BY <3>3 DEF RecordInv
  <2> QED BY <2>2, <2>3
<1> QED BY <1>1, <1>2, <1>3, <1>4, <1>5

LEMMA LoadRecord ==
  ASSUME Typed, SessionsInv, RunsInv, RecordInv, Quiet, Quiet',
         NEW l \in loads, ReadRows(l) \/ Loaded(l)
  PROVE  RecordInv'
<1>1. Loading
  BY DEF RecordInv, Entering, Recreating, Resting, Answering
<1>2. PICK m \in loads : loads = {m} /\ m.session = sessionRef /\ (m.read => m.rows = store[sessionRef])
  BY <1>1 DEF Loading
<1>3. l = m /\ l \in Loads
  BY <1>2 DEF Typed
<1>4. UNCHANGED <<promise, sessionRef, recreating, store, pc>> /\ Calm'
  BY <1>1 DEF ReadRows, Loaded, session, Loading, Calm, Active
<1>5. CASE ReadRows(l)
  <2> DEFINE n == [l EXCEPT !.read = TRUE, !.rows = store[l.session]]
  <2>1. loads' = {n} /\ n.session = sessionRef /\ n.rows = store[sessionRef] /\ messages' = messages
    BY <1>2, <1>3, <1>5 DEF ReadRows, Loads
  <2> HIDE DEF n
  <2>2. Loading'
    BY <1>1, <1>4, <2>1 DEF Loading
  <2> QED BY <2>2 DEF RecordInv
<1>6. CASE Loaded(l)
  <2>1. l.read
    BY <1>6 DEF Loaded, Quiet
  <2>2. messages = <<>>
    BY <1>1 DEF Loading
  <2>3. messages' = Restored(l.rows) /\ loads' = {}
    BY <1>2, <1>3, <1>6, <2>1, <2>2 DEF Loaded
  <2>4. l.rows = store[sessionRef] /\ l.rows \in Seq(Rows)
    BY <1>2, <1>3, <2>1 DEF Loads
  <2>5. Without(messages', "error") = Restored(store'[sessionRef'])
    BY <1>4, <2>3, <2>4, RestoredSeq
  <2>6. Resting'
    BY <1>1, <1>4, <2>3, <2>5 DEF Loading, Resting
  <2> QED BY <2>6 DEF RecordInv
<1> QED BY <1>5, <1>6

(* Questions. *)
LEMMA SendRecord ==
  ASSUME Typed, SessionsInv, RunsInv, RecordInv, Quiet, Quiet', NEW r \in Runs, Send(r)
  PROVE  RecordInv'
<1>1. AtRest
  BY DEF Send, Disturbs, Quiet
<1>2. Resting /\ UNCHANGED <<promise, recreating, loads, store, sessionRef, post>>
  BY <1>1, RestMeansResting DEF Send, session
<1>3. messages \in Seq(Messages) /\ Message("user", r, "question") \in Messages
  BY RowTypes DEF Typed, Texts
<1>4. \A q \in Runs \ {r} : pc'[q] = pc[q]
  BY OthersRun
<1> DEFINE asked == Append(messages, Message("user", r, "question"))
<1>5. Without(asked, "error") = Append(Without(messages, "error"), Message("user", r, "question"))
  BY <1>3, WithoutAppend DEF Message
<1>6. asked \in Seq(Messages)
  BY <1>3, AppendSeq
<1>7. CASE sessionRef # NoSession
  <2>1. sessionRef \in Sessions
    BY <1>7 DEF Typed
  <2>2. Begin(r, sessionRef, asked)
    BY <1>7, <2>1 DEF Send
  <2>3. /\ pc'[r] = "streaming" /\ sid'[r] = sessionRef' /\ stream'[r] = "open"
        /\ messages' = Append(asked, Placeholder(r))
    BY <1>2, <2>2 DEF Begin, Typed
  <2>4. Without(asked, "error")
          = Append(Restored(store'[sessionRef']), Message("user", r, "question"))
    BY <1>2, <1>5, <1>7 DEF Resting
  <2>5. \E list \in Seq(Messages) :
          /\ messages' = Append(list, Placeholder(r))
          /\ Caught(r, Without(list, "error"), Restored(store[sessionRef]))'
    <3>1. PICK list \in Seq(Messages) : list = asked
      BY <1>6
    <3>2. messages' = Append(list, Placeholder(r))
      BY <2>3, <3>1
    <3>3. Without(list, "error")
            = Append(Restored(store'[sessionRef']), Message("user", r, "question"))
      BY <1>2, <2>4, <3>1
    <3>4. Caught(r, Without(list, "error"), Restored(store[sessionRef]))'
      BY <2>3, <3>3 DEF Caught
    <3> QED BY <3>2, <3>4
  <2>6. \A q \in Runs \ {r} : ~Active(q)'
    BY <1>2, <1>4 DEF Resting, Calm, Active
  <2>7. Answering(r)'
    BY <1>2, <1>7, <2>3, <2>5, <2>6 DEF Answering, Resting
  <2> QED BY <2>7 DEF RecordInv
<1>8. CASE sessionRef = NoSession
  <2>1. promise \notin Sessions /\ promise # Pending
    BY <1>1, <1>8 DEF SessionsInv, AtRest
  <2>2. pc'[r] = "over"
    BY <1>8, <2>1 DEF Send, Typed
  <2>3. Resting'
    BY <1>2, <1>4, <1>8, <2>2 DEF Resting, Calm, Active
  <2> QED BY <2>3 DEF RecordInv
<1> QED BY <1>7, <1>8

LEMMA ServerRecord ==
  ASSUME Typed, SessionsInv, RunsInv, RecordInv, Quiet, Quiet', NEW r \in Runs, ServerStep(r)
  PROVE  RecordInv'
<1>1. post[r] = "none"
  BY DEF Quiet, Broken
<1>2. stream[r] \in {"open", "asked"}
  BY <1>1 DEF ServerStep, StreamAsk, StreamAnswer, Post
<1>3. Answering(r)
  <2>1. pc[r] = "streaming"
    BY <1>1, <1>2 DEF RunsInv
  <2> QED BY <2>1, ActiveMeansAnswering DEF Active
<1>4. UNCHANGED <<promise, recreating, loads, sessionRef, messages, pc, sid>>
  BY StoreSteps
<1>5. sid[r] = sessionRef /\ sessionRef \in exists /\ sessionRef \in Sessions
  BY <1>3 DEF Answering, SessionsInv, Typed
<1> DEFINE rows == store[sessionRef]
<1>6. rows \in Seq(Rows) /\ Row("user", r) \in Rows /\ Row("assistant", r) \in Rows
  BY <1>5, RowTypes DEF Typed
<1>7. PICK list \in Seq(Messages) : /\ messages = Append(list, Placeholder(r))
                                    /\ Caught(r, Without(list, "error"), Restored(rows))
  BY <1>3 DEF Answering
<1>8. /\ Restored(Append(rows, Row("user", r))) = Append(Restored(rows), Shown(Row("user", r)))
      /\ Restored(Append(rows, Row("assistant", r)))
           = Append(Restored(rows), Shown(Row("assistant", r)))
  BY <1>6, RestoredAppend
<1>9. /\ Shown(Row("user", r)) = Message("user", r, "question")
      /\ Shown(Row("assistant", r)) = Message("assistant", r, "answer")
  BY DEF Shown, Row
<1>10. \/ /\ stream[r] = "open" /\ stream'[r] = "asked"
          /\ store'[sessionRef] = Append(rows, Row("user", r))
       \/ /\ stream[r] = "asked" /\ stream'[r] = "completed"
          /\ store'[sessionRef] = Append(rows, Row("assistant", r))
       \/ /\ stream[r] = "asked" /\ stream'[r] = "error" /\ store'[sessionRef] = rows
  BY <1>1, <1>5 DEF ServerStep, StreamAsk, StreamAnswer, Post, Typed
<1>11. Caught(r, Without(list, "error"), Restored(store[sessionRef]))'
  BY <1>4, <1>7, <1>8, <1>9, <1>10 DEF Caught
<1>12. Answering(r)'
  BY <1>3, <1>4, <1>7, <1>11 DEF Answering, Active
<1> QED BY <1>12 DEF RecordInv

LEMMA FinishedRecord ==
  ASSUME Typed, SessionsInv, RunsInv, RecordInv, Quiet, Quiet', NEW r \in Runs, Finished(r)
  PROVE  RecordInv'
<1>1. Answering(r)
  BY ActiveMeansAnswering DEF Finished, Active
<1>2. UNCHANGED <<promise, recreating, loads, sessionRef, store>> /\ pc'[r] = "over"
  BY DEF Finished, session, Over, Typed
<1>3. \A q \in Runs \ {r} : pc'[q] = pc[q]
  BY OthersRun DEF ClientStep
<1>4. Calm'
  BY <1>1, <1>2, <1>3 DEF Answering, Calm, Active
<1>5. PICK list \in Seq(Messages) :
        /\ messages = Append(list, Placeholder(r))
        /\ Caught(r, Without(list, "error"), Restored(store[sessionRef]))
  BY <1>1 DEF Answering
<1>6. \A text \in {"answer", "error"} :
        /\ Message("assistant", r, text) \in Messages
        /\ Patched(messages, r, text) = Append(list, Message("assistant", r, text))
  BY <1>5, RowTypes, PatchedAppend DEF Texts
<1>7. \A text : Message("assistant", r, text).text = text
  BY DEF Message
<1>8. /\ Without(Append(list, Message("assistant", r, "answer")), "error")
           = Append(Without(list, "error"), Message("assistant", r, "answer"))
      /\ Without(Append(list, Message("assistant", r, "error")), "error") = Without(list, "error")
  BY <1>6, <1>7, WithoutAppend
<1>9. \/ stream[r] = "completed" /\ messages' = Append(list, Message("assistant", r, "answer"))
      \/ stream[r] = "error" /\ messages' = Append(list, Message("assistant", r, "error"))
  BY <1>6 DEF Finished
<1>10. Without(messages', "error") = Restored(store[sessionRef])
  BY <1>5, <1>8, <1>9 DEF Caught
<1>11. Resting'
  BY <1>1, <1>2, <1>4, <1>10 DEF Answering, Resting
<1> QED BY <1>11 DEF RecordInv

LEMMA RecordKept ==
  ASSUME Typed, SessionsInv, RunsInv, RecordInv, [Next]_vars
  PROVE  RecordInv'
<1> SUFFICES ASSUME Quiet' PROVE RecordInv'
  BY DEF RecordInv
<1>1. Quiet
  BY QuietBefore
<1>2. ASSUME NEW r \in Runs PROVE ~Break(r) /\ ~Posted(r) /\ ~Awaited(r)
  <2>1. ~Break(r)
    BY DEF Break, Quiet, Broken, Typed
  <2>2. ~Posted(r)
    BY <1>1 DEF Posted, Quiet, Broken, RunsInv
  <2>3. Active(r) => pc[r] = "streaming"
    BY <1>1, ActiveMeansAnswering DEF Answering
  <2>4. ~Awaited(r)
    BY <2>3 DEF Awaited, Active
  <2> QED BY <2>1, <2>2, <2>4
<1>3. CASE UNCHANGED vars
  BY <1>1, <1>3 DEF vars, RecordInv, Entering, Loading, Recreating, Resting, Answering, Caught,
                    Calm, Active
<1>4. ASSUME NEW r \in Runs, Send(r) \/ Break(r) \/ ServerStep(r) \/ ClientStep(r)
      PROVE  RecordInv'
  BY <1>1, <1>2, <1>4, SendRecord, ServerRecord, FinishedRecord DEF ClientStep
<1>5. ASSUME Reply PROVE RecordInv'
  BY <1>1, <1>5, LoadRecord DEF Reply
<1>6. ASSUME \/ Enter \/ NewSession \/ Recreate
             \/ \E s \in Sessions : Switch(s) \/ Delete(s)
      PROVE  RecordInv'
  BY <1>1, <1>6, SessionRecord
<1> QED BY <1>3, <1>4, <1>5, <1>6 DEF Next

-----------------------------------------------------------------------------
(* The theorems.                                                            *)

LEMMA InitInv == Init => PanelInv
<1> SUFFICES ASSUME Init PROVE PanelInv
  OBVIOUS
<1>1. exists = 1..OldSessions /\ 1..OldSessions \subseteq Sessions /\ OldSessions \in 0..MaxSessions
  BY PanelAssumption DEF Init, Sessions
<1> DEFINE first == <<Row("user", 0), Row("assistant", 0)>>
<1>2. Row("user", 0) \in Rows /\ Row("assistant", 0) \in Rows
  BY PanelAssumption DEF Row, Rows
<1>3. first \in Seq(Rows) /\ DOMAIN first = 1..2
      /\ first[1] = Row("user", 0) /\ first[2] = Row("assistant", 0)
  BY <1>2
<1>4. <<>> \in Seq(Rows) /\ <<>> \in Seq(Messages) /\ <<>> \in Seq(SafeMessages)
  OBVIOUS
<1>5. \A s \in Sessions : store[s] = (IF s \in exists THEN first ELSE <<>>)
  BY DEF Init
<1>6. 0 \notin Runs
  BY DEF Runs
<1>7. Typed
  <2>1. store \in [Sessions -> Seq(Rows)]
    BY <1>3, <1>4 DEF Init
  <2> QED BY <1>1, <1>4, <2>1 DEF Init, Typed, PC, Streams, Posts
<1>8. SessionsInv
  BY <1>1, <1>5, Numbers DEF Init, SessionsInv
<1>9. RunsInv
  BY DEF Init, RunsInv
<1>10. CopiesInv
  <2> SUFFICES ASSUME NEW r \in Runs, NEW s \in Sessions
               PROVE  Cardinality(Copies(r, s)) <= Attempts(r, s)
    BY DEF CopiesInv
  <2>1. Attempts(r, s) = 0
    BY Numbers DEF Init, Attempts
  <2>2. Row("user", r) # Row("user", 0) /\ Row("user", r) # Row("assistant", 0)
    BY <1>6 DEF Row
  <2>3. \A i \in DOMAIN store[s] : store[s][i] # Row("user", r)
    BY <1>3, <1>5, <2>2, EmptyLists
  <2>4. Copies(r, s) = {}
    BY <2>3 DEF Copies
  <2> QED BY <2>1, <2>4, FS_EmptySet
<1>11. AnswersInv
  <2>1. Row("user", 0) \in SafeRows /\ Row("assistant", 0) \in SafeRows
    BY <1>2, <1>6 DEF SafeRows, Row
  <2>2. first \in Seq(SafeRows) /\ <<>> \in Seq(SafeRows)
    BY <2>1
  <2>3. \A s \in Sessions : store[s] \in Seq(SafeRows)
    BY <1>5, <2>2
  <2> QED BY <1>4, <2>3 DEF Init, AnswersInv
<1>12. RecordInv
  <2>1. Entering
    BY DEF Init, Entering, Calm, Active
  <2> QED BY <2>1 DEF RecordInv
<1> QED BY <1>7, <1>8, <1>9, <1>10, <1>11, <1>12 DEF PanelInv

(* Whatever the user does at whatever moment: every part of the panel's invariant
   is kept by every step. *)
THEOREM InvHolds == Spec => []PanelInv
<1>1. PanelInv /\ [Next]_vars => PanelInv'
  BY TypesKept, SessionsKept, RunsKept, CopiesKept, AnswersKept, RecordKept DEF PanelInv
<1> QED BY <1>1, InitInv, PTL DEF Spec

(* While the user waits for the panel and no stream breaks, what it shows at rest
   is what the session has stored, for any number of sessions and questions. *)
THEOREM PanelShowsTheRecord == Spec => []ShownIsTheRecord
<1>1. PanelInv => ShownIsTheRecord
  <2> SUFFICES ASSUME PanelInv, AtRest, ~disturbed, sessionRef # NoSession,
                      \A r \in Runs : ~Broken(r)
               PROVE  Without(messages, "error") = Restored(store[sessionRef])
    BY DEF ShownIsTheRecord
  <2>1. Resting
    BY RestMeansResting DEF PanelInv, Quiet
  <2> QED BY <2>1 DEF Resting
<1> QED BY <1>1, InvHolds, PTL

(* No interleaving of sessions, streams, fallbacks and loads shows an answer that
   is not stored where its question was asked. *)
THEOREM PanelShowsStoredAnswers == Spec => []ShownAnswersAreStored
<1>1. PanelInv => ShownAnswersAreStored
  <2> SUFFICES ASSUME PanelInv, NEW i \in DOMAIN messages,
                      messages[i].text = "answer", messages[i].run \in Runs
               PROVE  Safe(messages[i].run)
    BY DEF ShownAnswersAreStored, Safe
  <2>1. messages \in Seq(SafeMessages)
    BY DEF PanelInv, AnswersInv
  <2>2. messages[i] \in SafeMessages
    BY <2>1, SeqElements
  <2> QED BY <2>2 DEF SafeMessages
<1> QED BY <1>1, InvHolds, PTL

(* A question is stored once, and once more by the fallback of its stream. *)
THEOREM PanelStoresPerAttempt == Spec => []QuestionsStoredPerAttempt
<1>1. PanelInv => QuestionsStoredPerAttempt
  <2> SUFFICES ASSUME PanelInv, NEW r \in Runs, NEW s \in Sessions
               PROVE  Cardinality(Copies(r, s))
                        <= (IF s = sid[r] THEN 1 + (IF Broken(r) THEN 1 ELSE 0) ELSE 0)
    BY DEF QuestionsStoredPerAttempt, Copies
  <2>1. Cardinality(Copies(r, s)) <= Attempts(r, s)
    BY DEF PanelInv, CopiesInv
  <2>2. Cardinality(Copies(r, s)) \in Nat
    <3>1. store[s] \in Seq(Rows) /\ Copies(r, s) = At(store[s], Row("user", r))
      BY DEF PanelInv, Typed, Copies, At
    <3> QED BY <3>1, AtFinite
  <2>3. post[r] = "stored" => Broken(r)
    BY DEF Broken
  <2> QED BY <2>1, <2>2, <2>3 DEF Attempts
<1> QED BY <1>1, InvHolds, PTL
=============================================================================
