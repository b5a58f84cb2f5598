--------------------------- MODULE EventBusProofs ---------------------------
(***************************************************************************)
(* The safety invariants of EventBus for every set of channels and         *)
(* connections, every capacity and every number of publishes.              *)
(***************************************************************************)
EXTENDS EventBus, SequenceTheorems, TLAPS

-----------------------------------------------------------------------------
(* Lists without repetition.                                               *)

Distinct(seq) == \A i, k \in 1..Len(seq) : seq[i] = seq[k] => i = k

(* Membership in a list is occurrence at a position. *)
LEMMA Membership ==
  ASSUME NEW S, NEW seq \in Seq(S), NEW x
  PROVE  /\ x \in ToSet(seq) <=> \E i \in 1..Len(seq) : seq[i] = x
         /\ ToSet(seq) \subseteq S
  BY DEF ToSet

(* The head is the only element of a duplicate-free list that its tail lacks. *)
LEMMA TailOfDistinct ==
  ASSUME NEW S, NEW seq \in Seq(S), seq # <<>>, Distinct(seq)
  PROVE  /\ Head(seq) \in S
         /\ Tail(seq) \in Seq(S)
         /\ Distinct(Tail(seq))
         /\ ToSet(Tail(seq)) = ToSet(seq) \ {Head(seq)}
         /\ Head(seq) \in ToSet(seq)
<1>1. /\ Head(seq) \in S /\ Tail(seq) \in Seq(S) /\ Len(Tail(seq)) = Len(seq) - 1
      /\ \A i \in 1..Len(Tail(seq)) : Tail(seq)[i] = seq[i+1]
  BY HeadTailProperties
<1>2. Len(seq) \in Nat /\ Len(seq) > 0 /\ Head(seq) = seq[1]
  OBVIOUS
<1>3. Distinct(Tail(seq))
  BY <1>1, <1>2 DEF Distinct
<1>4. ASSUME NEW x PROVE x \in ToSet(Tail(seq)) <=> x \in ToSet(seq) \ {Head(seq)}
  <2>1. x \in ToSet(Tail(seq)) <=> \E i \in 1..Len(Tail(seq)) : Tail(seq)[i] = x
    BY <1>1, Membership
  <2>2. x \in ToSet(seq) <=> \E i \in 1..Len(seq) : seq[i] = x
    BY Membership
  <2>3. ASSUME NEW i \in 1..Len(Tail(seq)), Tail(seq)[i] = x
        PROVE  x \in ToSet(seq) /\ x # Head(seq)
    BY <1>1, <1>2, <2>2, <2>3 DEF Distinct
  <2>4. ASSUME NEW i \in 1..Len(seq), seq[i] = x, x # Head(seq)
        PROVE  \E k \in 1..Len(Tail(seq)) : Tail(seq)[k] = x
    <3>1. i - 1 \in 1..Len(Tail(seq)) /\ Tail(seq)[i - 1] = x
      BY <1>1, <1>2, <2>4
    <3> QED BY <3>1
  <2> QED BY <2>1, <2>2, <2>3, <2>4
<1>5. Head(seq) \in ToSet(seq)
  BY <1>2, Membership
<1> QED BY <1>1, <1>3, <1>4, <1>5

(* Appending a new element keeps a list duplicate-free. *)
LEMMA AppendDistinct ==
  ASSUME NEW S, NEW seq \in Seq(S), NEW x \in S, x \notin ToSet(seq), Distinct(seq)
  PROVE  /\ Append(seq, x) \in Seq(S)
         /\ Distinct(Append(seq, x))
         /\ ToSet(Append(seq, x)) \subseteq ToSet(seq) \cup {x}
<1>1. /\ Append(seq, x) \in Seq(S) /\ Len(Append(seq, x)) = Len(seq) + 1
      /\ \A i \in 1..Len(seq) : Append(seq, x)[i] = seq[i]
      /\ Append(seq, x)[Len(seq) + 1] = x
  BY AppendProperties
<1>2. Len(seq) \in Nat /\ \A i \in 1..Len(seq) : seq[i] # x
  BY Membership
<1>3. Distinct(Append(seq, x))
  BY <1>1, <1>2 DEF Distinct
<1>4. ASSUME NEW y \in ToSet(Append(seq, x)) PROVE y \in ToSet(seq) \cup {x}
  <2>1. PICK i \in 1..Len(seq) + 1 : Append(seq, x)[i] = y
    BY <1>1, <1>2, <1>4 DEF ToSet
  <2>2. CASE i = Len(seq) + 1
    BY <1>1, <2>1, <2>2
  <2>3. CASE i \in 1..Len(seq)
    BY <1>1, <2>1, <2>3, Membership
  <2> QED BY <1>2, <2>2, <2>3
<1> QED BY <1>1, <1>3, <1>4

(* Removing one position keeps a list duplicate-free and loses that element. *)
LEMMA RemoveAtDistinct ==
  ASSUME NEW S, NEW seq \in Seq(S), NEW i \in 1..Len(seq), Distinct(seq)
  PROVE  /\ RemoveAt(seq, i) \in Seq(S)
         /\ Distinct(RemoveAt(seq, i))
         /\ ToSet(RemoveAt(seq, i)) \subseteq ToSet(seq) \ {seq[i]}
<1> DEFINE before == SubSeq(seq, 1, i - 1)
           after == SubSeq(seq, i + 1, Len(seq))
<1>1. Len(seq) \in Nat /\ \A k \in 1..Len(seq) : seq[k] \in S
  OBVIOUS
<1>2. /\ before \in Seq(S) /\ Len(before) = i - 1
      /\ \A k \in 1..i-1 : before[k] = seq[k]
  <2>1. /\ before \in Seq(S)
        /\ Len(before) = IF 1 <= i - 1 THEN (i - 1) - 1 + 1 ELSE 0
        /\ \A k \in 1..(i - 1) - 1 + 1 : before[k] = seq[1 + k - 1]
    BY <1>1, SubSeqProperties
  <2> QED BY <2>1
<1>3. /\ after \in Seq(S) /\ Len(after) = Len(seq) - i
      /\ \A k \in 1..Len(seq)-i : after[k] = seq[i + k]
  <2>1. /\ after \in Seq(S)
        /\ Len(after) = IF i + 1 <= Len(seq) THEN Len(seq) - (i + 1) + 1 ELSE 0
        /\ \A k \in 1..Len(seq) - (i + 1) + 1 : after[k] = seq[(i + 1) + k - 1]
    BY <1>1, SubSeqProperties
  <2> QED BY <1>1, <2>1
<1>4. RemoveAt(seq, i) = before \o after
  BY DEF RemoveAt
<1> HIDE DEF before, after
<1>5. /\ RemoveAt(seq, i) \in Seq(S) /\ Len(RemoveAt(seq, i)) = Len(seq) - 1
      /\ \A k \in 1..Len(seq) - 1 :
            RemoveAt(seq, i)[k] = IF k <= i - 1 THEN seq[k] ELSE seq[k + 1]
  <2>1. /\ before \o after \in Seq(S)
        /\ Len(before \o after) = Len(before) + Len(after)
        /\ \A k \in 1..Len(before) + Len(after) : (before \o after)[k] =
               IF k <= Len(before) THEN before[k] ELSE after[k - Len(before)]
    BY <1>2, <1>3, ConcatProperties
  <2>2. ASSUME NEW k \in 1..Len(seq) - 1, k <= i - 1
        PROVE  (before \o after)[k] = seq[k]
    BY <1>1, <1>2, <1>3, <2>1, <2>2
  <2>3. ASSUME NEW k \in 1..Len(seq) - 1, ~(k <= i - 1)
        PROVE  (before \o after)[k] = seq[k + 1]
    <3>1. k - (i - 1) \in 1..Len(seq) - i /\ i + (k - (i - 1)) = k + 1
      BY <1>1, <2>3
    <3>2. (before \o after)[k] = after[k - Len(before)]
      BY <1>1, <1>2, <1>3, <2>1, <2>3
    <3>3. after[k - Len(before)] = seq[i + (k - (i - 1))]
      BY <1>2, <1>3, <3>1
    <3> QED BY <3>1, <3>2, <3>3
  <2> QED BY <1>1, <1>2, <1>3, <1>4, <2>1, <2>2, <2>3
<1>6. ASSUME NEW k \in 1..Len(seq) - 1
      PROVE  \E m \in 1..Len(seq) : m # i /\ RemoveAt(seq, i)[k] = seq[m]
  BY <1>1, <1>5
<1>7. Distinct(RemoveAt(seq, i))
  BY <1>1, <1>5 DEF Distinct
<1>8. ASSUME NEW x \in ToSet(RemoveAt(seq, i)) PROVE x \in ToSet(seq) \ {seq[i]}
  <2>1. PICK k \in 1..Len(seq) - 1 : RemoveAt(seq, i)[k] = x
    BY <1>1, <1>5, <1>8 DEF ToSet
  <2>2. PICK m \in 1..Len(seq) : m # i /\ x = seq[m]
    BY <1>6, <2>1
  <2> QED BY <2>2, Membership DEF Distinct
<1> QED BY <1>5, <1>7, <1>8

-----------------------------------------------------------------------------
(* The inductive invariant.                                                *)

(* What a publish in progress has left to do: each subscriber of the locked
   channel at most once, and one of them when the last put was refused. *)
Serving ==
  /\ lock = Free => todo = <<>>
  /\ full => todo # <<>>
  /\ Distinct(todo)
  /\ \A s \in ToSet(todo) : channel[s] = lock

Registry ==
  \A j \in Jobs :
    /\ Distinct(registered[j])
    /\ \A s \in ToSet(registered[j]) : channel[s] = j

(* The publishes of its channel that have reached the subscriber. *)
Delivered(s) == published[channel[s]] - Occurs(todo, s)

FreshFor(s) ==
  /\ channel[s] = NotYet =>
       queue[s] = <<>> /\ last[s] = 0 /\ due[s] = 0 /\ taken[s] = 0 /\ lost[s] = 0
  /\ channel[s] \in Jobs =>
       /\ due[s] <= published[channel[s]]
       /\ last[s] <= Delivered(s)
       /\ \A i \in 1..Len(queue[s]) : queue[s][i] <= Delivered(s)

Fresh == \A s \in Subscribers : FreshFor(s)

Overflow == full => published[lock] > Capacity

Inv ==
  /\ TypeOK /\ Serving /\ Registry /\ Fresh
  /\ InOrder /\ Accounting /\ Overflow /\ LosslessBelowCapacity

LEMMA InitInv == Init => Inv
<1> SUFFICES ASSUME Init PROVE Inv
  OBVIOUS
<1>1. TypeOK
  <2>1. <<>> \in Seq(Nat) /\ <<>> \in Seq(Subscribers) /\ Len(<<>>) <= Capacity
    BY CapacityAssumption
  <2> QED BY <2>1 DEF Init, TypeOK
<1>2. Serving /\ Registry
  BY DEF Init, Serving, Registry, Distinct, ToSet
<1>3. Fresh /\ Overflow
  BY ChannelAssumption DEF Init, Fresh, FreshFor, Overflow
<1>4. InOrder /\ LosslessBelowCapacity
  BY DEF Init, InOrder, LosslessBelowCapacity
<1>5. Accounting
  BY DEF Init, Accounting, Occurs, ToSet
<1> QED BY <1>1, <1>2, <1>3, <1>4, <1>5 DEF Inv

(* A connection registers: nothing was due to it before. *)
LEMMA SubscribeInv ==
  ASSUME Inv, NEW s \in Subscribers, NEW j \in Jobs, Subscribe(s, j)
  PROVE  Inv'
<1>1. TypeOK /\ channel[s] = NotYet /\ lock = Free /\ todo = <<>> /\ ~full
  BY DEF Inv, TypeOK, Subscribe, Serving
<1>2. s \notin ToSet(registered[j]) /\ Distinct(registered[j])
  BY <1>1, ChannelAssumption DEF Inv, Registry
<1>3. /\ Append(registered[j], s) \in Seq(Subscribers)
      /\ Distinct(Append(registered[j], s))
      /\ ToSet(Append(registered[j], s)) \subseteq ToSet(registered[j]) \cup {s}
  BY <1>1, <1>2, AppendDistinct DEF TypeOK
<1>4. TypeOK'
  BY <1>1, <1>3 DEF TypeOK, Subscribe, history
<1>5. Serving'
  BY <1>1 DEF Inv, Serving, Subscribe, ToSet
<1>6. Registry'
  <2> SUFFICES ASSUME NEW k \in Jobs
               PROVE  /\ Distinct(registered'[k])
                      /\ \A t \in ToSet(registered'[k]) : channel'[t] = k
    BY DEF Registry
  <2>1. CASE k = j
    <3>1. registered'[k] = Append(registered[j], s)
      BY <1>1, <2>1 DEF Subscribe, TypeOK
    <3>2. \A t \in ToSet(registered[j]) : t \in Subscribers /\ channel[t] = j
      BY <1>1, Membership DEF Inv, Registry, TypeOK
    <3>3. \A t \in Subscribers : channel'[t] = IF t = s THEN j ELSE channel[t]
      BY <1>1 DEF Subscribe, TypeOK
    <3> QED BY <1>3, <2>1, <3>1, <3>2, <3>3
  <2>2. CASE k # j
    <3>1. registered'[k] = registered[k]
      BY <1>1, <2>2 DEF Subscribe, TypeOK
    <3>2. \A t \in ToSet(registered[k]) : t \in Subscribers /\ channel[t] = k
      BY <1>1, Membership DEF Inv, Registry, TypeOK
    <3>3. \A t \in Subscribers : channel'[t] = IF t = s THEN j ELSE channel[t]
      BY <1>1 DEF Subscribe, TypeOK
    <3>4. s \notin ToSet(registered[k])
      BY <1>1, <3>2, ChannelAssumption
    <3> QED BY <3>1, <3>2, <3>3, <3>4 DEF Inv, Registry
  <2> QED BY <2>1, <2>2
<1>7. Fresh'
  BY <1>1, <1>4 DEF Inv, Fresh, FreshFor, Delivered, Occurs, ToSet, Subscribe, TypeOK, history
<1>8. InOrder' /\ Accounting' /\ Overflow'
  BY <1>1 DEF Inv, InOrder, Accounting, Occurs, Overflow, Subscribe, history
<1>9. LosslessBelowCapacity'
  BY <1>1 DEF Inv, LosslessBelowCapacity, Fresh, FreshFor, Subscribe, TypeOK, history
<1> QED BY <1>4, <1>5, <1>6, <1>7, <1>8, <1>9 DEF Inv

(* A connection leaves: its counters and its queue freeze. *)
LEMMA UnsubscribeInv ==
  ASSUME Inv, NEW s \in Subscribers, Unsubscribe(s)
  PROVE  Inv'
<1>1. TypeOK /\ channel[s] \in Jobs /\ lock = Free /\ todo = <<>> /\ ~full
  BY DEF Inv, TypeOK, Unsubscribe, Serving
<1> DEFINE j == channel[s]
<1>2. PICK i \in 1..Len(registered[j]) :
        registered[j][i] = s /\ registered' = [registered EXCEPT ![j] = RemoveAt(@, i)]
  BY DEF Unsubscribe
<1>3. /\ RemoveAt(registered[j], i) \in Seq(Subscribers)
      /\ Distinct(RemoveAt(registered[j], i))
      /\ ToSet(RemoveAt(registered[j], i)) \subseteq ToSet(registered[j]) \ {s}
  <2>1. registered[j] \in Seq(Subscribers) /\ Distinct(registered[j])
    BY <1>1 DEF Inv, Registry, TypeOK
  <2> HIDE DEF j
  <2> QED BY <1>2, <2>1, RemoveAtDistinct
<1>4. channel' = [channel EXCEPT ![s] = Closed]
  BY DEF Unsubscribe
<1>5. TypeOK'
  BY <1>1, <1>2, <1>3, <1>4 DEF TypeOK, Unsubscribe, history
<1>6. Serving'
  BY <1>1 DEF Inv, Serving, Unsubscribe, ToSet
<1>7. Registry'
  <2> SUFFICES ASSUME NEW k \in Jobs
               PROVE  /\ Distinct(registered'[k])
                      /\ \A t \in ToSet(registered'[k]) : channel'[t] = k
    BY DEF Registry
  <2>1. \A t \in ToSet(registered[k]) : t \in Subscribers /\ channel[t] = k
    BY <1>1, Membership DEF Inv, Registry, TypeOK
  <2>2. \A t \in Subscribers : t # s => channel'[t] = channel[t]
    BY <1>1, <1>4 DEF TypeOK
  <2>3. CASE k = j
    <3>1. registered'[k] = RemoveAt(registered[j], i)
      BY <1>1, <1>2, <2>3 DEF TypeOK
    <3> QED BY <1>3, <2>1, <2>2, <2>3, <3>1
  <2>4. CASE k # j
    <3>1. registered'[k] = registered[k]
      BY <1>1, <1>2, <2>4 DEF TypeOK
    <3> QED BY <2>1, <2>2, <2>4, <3>1 DEF Inv, Registry
  <2> QED BY <2>3, <2>4
<1>8. Fresh'
  <2> SUFFICES ASSUME NEW t \in Subscribers PROVE FreshFor(t)'
    BY DEF Fresh
  <2>1. channel'[t] = IF t = s THEN Closed ELSE channel[t]
    BY <1>1, <1>4 DEF TypeOK
  <2>2. UNCHANGED <<todo, queue, published, last, due, taken, lost>>
    BY DEF Unsubscribe, history
  <2>3. CASE t = s
    BY <2>1, <2>3, ChannelAssumption DEF FreshFor
  <2>4. CASE t # s
    BY <2>1, <2>2, <2>4 DEF Inv, Fresh, FreshFor, Delivered, Occurs
  <2> QED BY <2>3, <2>4
<1>9. InOrder' /\ Accounting' /\ Overflow'
  BY <1>1 DEF Inv, InOrder, Accounting, Occurs, Overflow, Unsubscribe, history
<1>10. LosslessBelowCapacity'
  BY <1>1, <1>4, ChannelAssumption DEF Inv, LosslessBelowCapacity, Unsubscribe, TypeOK, history
<1> QED BY <1>5, <1>6, <1>7, <1>8, <1>9, <1>10 DEF Inv

(* A publish begins: one more event is due to each subscriber of the channel. *)
LEMMA PublishBeginInv ==
  ASSUME Inv, NEW j \in Jobs, PublishBegin(j)
  PROVE  Inv'
<1>1. TypeOK /\ lock = Free /\ todo = <<>> /\ ~full
  BY DEF Inv, TypeOK, PublishBegin, Serving
<1>2. /\ lock' = j /\ todo' = registered[j]
      /\ published' = [published EXCEPT ![j] = @ + 1]
      /\ UNCHANGED <<full, registered, channel, queue, last, raised, taken, lost>>
  BY DEF PublishBegin
<1>3. /\ registered[j] \in Seq(Subscribers) /\ Distinct(registered[j])
      /\ \A t \in ToSet(registered[j]) : channel[t] = j
  BY <1>1 DEF Inv, Registry, TypeOK
<1>4. \A t \in Subscribers :
        /\ Occurs(todo, t) = 0
        /\ Occurs(todo', t) = IF t \in ToSet(registered[j]) THEN 1 ELSE 0
        /\ due'[t] = due[t] + Occurs(todo', t)
  <2>1. due' = [t \in Subscribers |-> due[t] + Occurs(todo', t)]
    BY <1>2 DEF PublishBegin
  <2>2. ToSet(<<>>) = {}
    BY DEF ToSet
  <2> QED BY <1>1, <1>2, <2>1, <2>2 DEF Occurs
<1>5. \A k \in Jobs : published'[k] = IF k = j THEN published[j] + 1 ELSE published[k]
  BY <1>1, <1>2 DEF TypeOK
<1>6. TypeOK'
  <2>1. due' \in [Subscribers -> Nat]
    BY <1>1 DEF TypeOK, PublishBegin, Occurs
  <2>2. published' \in [Jobs -> Nat]
    BY <1>1, <1>2 DEF TypeOK
  <2> QED BY <1>1, <1>2, <1>3, <2>1, <2>2 DEF TypeOK
<1>7. Serving'
  BY <1>1, <1>2, <1>3, FreeAssumption DEF Serving
<1>8. Registry' /\ Overflow' /\ InOrder'
  BY <1>1, <1>2 DEF Inv, Registry, Overflow, InOrder
<1>9. Fresh'
  <2> SUFFICES ASSUME NEW t \in Subscribers PROVE FreshFor(t)'
    BY DEF Fresh
  <2>1. FreshFor(t) /\ channel'[t] = channel[t]
    BY <1>2 DEF Inv, Fresh
  <2>2. CASE channel[t] = NotYet
    <3>1. t \notin ToSet(registered[j])
      BY <1>3, <2>2, ChannelAssumption
    <3>2. due'[t] = due[t]
      BY <1>1, <1>4, <3>1 DEF TypeOK
    <3> QED BY <1>2, <2>1, <2>2, <3>2, ChannelAssumption DEF FreshFor
  <2>3. CASE channel[t] \in Jobs
    <3> DEFINE k == channel[t]
    <3>1. k \in Jobs /\ published[k] \in Nat /\ due[t] \in Nat
      BY <1>1, <2>3 DEF TypeOK
    <3>2. published'[k] - Occurs(todo', t) >= published[k]
      BY <1>3, <1>4, <1>5, <3>1
    <3>3. due'[t] <= published'[k]
      BY <1>3, <1>4, <1>5, <2>1, <3>1 DEF FreshFor
    <3>4. last[t] <= published[k] /\ \A i \in 1..Len(queue[t]) : queue[t][i] <= published[k]
      BY <1>4, <2>1, <3>1 DEF FreshFor, Delivered
    <3>5. last[t] \in Nat /\ \A i \in 1..Len(queue[t]) : queue[t][i] \in Nat
      BY <1>1 DEF TypeOK
    <3>6. Occurs(todo', t) \in Nat /\ published'[k] \in Nat
      BY <1>4, <1>5, <3>1
    <3>7. Delivered(t)' = published'[k] - Occurs(todo', t)
      BY <2>1 DEF Delivered
    <3>8. last'[t] <= Delivered(t)'
      BY <1>2, <3>1, <3>2, <3>4, <3>5, <3>6, <3>7
    <3>9. ASSUME NEW i \in 1..Len(queue'[t]) PROVE queue'[t][i] <= Delivered(t)'
      BY <1>2, <3>1, <3>2, <3>4, <3>5, <3>6, <3>7, <3>9
    <3> QED BY <2>1, <2>3, <3>3, <3>8, <3>9, ChannelAssumption DEF FreshFor
  <2>4. CASE channel[t] = Closed
    BY <2>1, <2>4, ChannelAssumption DEF FreshFor
  <2> QED BY <1>1, <2>2, <2>3, <2>4 DEF TypeOK
<1>10. Accounting'
  <2> SUFFICES ASSUME NEW t \in Subscribers
               PROVE  due'[t] = taken'[t] + Len(queue'[t]) + lost'[t] + Occurs(todo', t)
    BY DEF Accounting
  <2>1. due[t] = taken[t] + Len(queue[t]) + lost[t]
    BY <1>1, <1>4 DEF Inv, Accounting, TypeOK
  <2>2. taken[t] \in Nat /\ Len(queue[t]) \in Nat /\ lost[t] \in Nat
    BY <1>1 DEF TypeOK
  <2>3. Occurs(todo', t) \in Nat
    BY <1>4
  <2> QED BY <1>2, <1>4, <2>1, <2>2, <2>3
<1>11. LosslessBelowCapacity'
  BY <1>1, <1>2, <1>5, CapacityAssumption DEF Inv, LosslessBelowCapacity, TypeOK
<1> QED BY <1>6, <1>7, <1>8, <1>9, <1>10, <1>11 DEF Inv

(* The subscriber a publish serves next is on the locked channel and occurs
   once in what is left to serve. *)
LEMMA ServedHead ==
  ASSUME Inv, todo # <<>>
  PROVE  /\ lock \in Jobs
         /\ Head(todo) \in Subscribers /\ channel[Head(todo)] = lock
         /\ Tail(todo) \in Seq(Subscribers) /\ Distinct(Tail(todo))
         /\ ToSet(Tail(todo)) \subseteq ToSet(todo)
         /\ Occurs(todo, Head(todo)) = 1 /\ Occurs(Tail(todo), Head(todo)) = 0
         /\ \A t \in Subscribers \ {Head(todo)} : Occurs(Tail(todo), t) = Occurs(todo, t)
<1>1. TypeOK /\ lock # Free /\ Distinct(todo) /\ \A t \in ToSet(todo) : channel[t] = lock
  BY DEF Inv, Serving
<1>2. todo \in Seq(Subscribers) /\ lock \in Jobs
  BY <1>1 DEF TypeOK
<1>3. /\ Head(todo) \in Subscribers /\ Tail(todo) \in Seq(Subscribers)
      /\ Distinct(Tail(todo))
      /\ ToSet(Tail(todo)) = ToSet(todo) \ {Head(todo)} /\ Head(todo) \in ToSet(todo)
  BY <1>1, <1>2, TailOfDistinct
<1> QED BY <1>1, <1>2, <1>3 DEF Occurs

(* A put that finds room: the newest event of the channel joins the queue. *)
LEMMA PutEventInv ==
  ASSUME Inv, PutEvent
  PROVE  Inv'
<1> PICK s : s = Head(todo)
  OBVIOUS
<1>1. TypeOK /\ lock # Free /\ todo # <<>> /\ ~full /\ Len(queue[s]) < Capacity
  BY DEF Inv, PutEvent
<1>2. /\ queue' = [queue EXCEPT ![s] = Append(@, published[lock])]
      /\ todo' = Tail(todo)
      /\ UNCHANGED <<lock, full, registered, channel, published, last, raised,
                     due, taken, lost>>
  BY DEF PutEvent, history
<1>3. /\ lock \in Jobs /\ s \in Subscribers /\ channel[s] = lock
      /\ Tail(todo) \in Seq(Subscribers) /\ Distinct(Tail(todo))
      /\ ToSet(Tail(todo)) \subseteq ToSet(todo)
      /\ Occurs(todo, s) = 1 /\ Occurs(Tail(todo), s) = 0
      /\ \A t \in Subscribers \ {s} : Occurs(Tail(todo), t) = Occurs(todo, t)
  BY <1>1, ServedHead
<1>4. published[lock] \in Nat /\ queue[s] \in Seq(Nat) /\ Len(queue[s]) \in Nat
  BY <1>1, <1>3 DEF TypeOK
<1>5. /\ queue'[s] \in Seq(Nat) /\ Len(queue'[s]) = Len(queue[s]) + 1
      /\ \A i \in 1..Len(queue[s]) : queue'[s][i] = queue[s][i]
      /\ queue'[s][Len(queue[s]) + 1] = published[lock]
      /\ \A t \in Subscribers \ {s} : queue'[t] = queue[t]
  <2>1. queue'[s] = Append(queue[s], published[lock])
    BY <1>1, <1>2, <1>3 DEF TypeOK
  <2>2. \A t \in Subscribers \ {s} : queue'[t] = queue[t]
    BY <1>1, <1>2, <1>3 DEF TypeOK
  <2> QED BY <1>4, <2>1, <2>2, AppendProperties
<1>6. FreshFor(s) /\ due[s] \in Nat /\ last[s] \in Nat
  BY <1>1, <1>3 DEF Inv, Fresh, TypeOK
<1>7. /\ last[s] < published[lock]
      /\ \A i \in 1..Len(queue[s]) : queue[s][i] < published[lock]
  <2>1. last[s] <= published[lock] - 1
    BY <1>3, <1>6 DEF FreshFor, Delivered
  <2>2. ASSUME NEW i \in 1..Len(queue[s]) PROVE queue[s][i] < published[lock]
    <3>1. queue[s][i] <= published[lock] - 1
      BY <1>3, <1>6 DEF FreshFor, Delivered
    <3>2. queue[s][i] \in Nat
      BY <1>4
    <3> QED BY <1>4, <3>1, <3>2
  <2> QED BY <1>4, <1>6, <2>1, <2>2
<1>8. TypeOK'
  <2>1. queue' \in [Subscribers -> Seq(Nat)]
    BY <1>1, <1>2, <1>3, <1>4, <1>5 DEF TypeOK
  <2>2. \A t \in Subscribers \ {s} : Len(queue'[t]) <= Capacity
    BY <1>1, <1>5 DEF TypeOK
  <2>3. Len(queue'[s]) <= Capacity
    BY <1>1, <1>4, <1>5, CapacityAssumption
  <2> QED BY <1>1, <1>2, <1>3, <2>1, <2>2, <2>3 DEF TypeOK
<1>9. Serving' /\ Registry' /\ Overflow'
  BY <1>1, <1>2, <1>3 DEF Inv, Serving, Registry, Overflow
<1>10. Fresh'
  <2> SUFFICES ASSUME NEW t \in Subscribers PROVE FreshFor(t)'
    BY DEF Fresh
  <2>1. CASE t # s
    BY <1>2, <1>3, <1>5, <2>1 DEF Inv, Fresh, FreshFor, Delivered
  <2>2. CASE t = s
    <3>1. Delivered(s)' = published[lock]
      BY <1>2, <1>3, <1>4 DEF Delivered
    <3>2. ASSUME NEW i \in 1..Len(queue'[s]) PROVE queue'[s][i] <= published[lock]
      <4> i \in 1..Len(queue[s]) + 1
        BY <1>5
      <4>1. CASE i = Len(queue[s]) + 1
        BY <1>4, <1>5, <4>1
      <4>2. CASE i \in 1..Len(queue[s])
        <5>1. queue[s][i] < published[lock]
          BY <1>7, <4>2
        <5>2. queue'[s][i] = queue[s][i]
          BY <1>5, <4>2
        <5>3. queue[s][i] \in Nat
          BY <1>4, <4>2
        <5> QED BY <1>4, <5>1, <5>2, <5>3
      <4> QED BY <1>4, <1>5, <4>1, <4>2
    <3>3. channel'[s] \in Jobs /\ due'[s] <= published'[channel'[s]]
      BY <1>2, <1>3, <1>6 DEF FreshFor
    <3>4. last'[s] <= published[lock]
      BY <1>2, <1>4, <1>6, <1>7
    <3> QED BY <2>2, <3>1, <3>2, <3>3, <3>4, ChannelAssumption DEF FreshFor
  <2> QED BY <2>1, <2>2
<1>11. InOrder'
  <2> SUFFICES ASSUME NEW t \in Subscribers
               PROVE  /\ \A i \in 1..Len(queue'[t]) : last'[t] < queue'[t][i]
                      /\ \A i, k \in 1..Len(queue'[t]) :
                            i < k => queue'[t][i] < queue'[t][k]
    BY DEF InOrder
  <2>1. CASE t # s
    BY <1>2, <1>5, <2>1 DEF Inv, InOrder
  <2>2. CASE t = s
    <3>1. /\ \A i \in 1..Len(queue[s]) : last[s] < queue[s][i]
          /\ \A i, k \in 1..Len(queue[s]) : i < k => queue[s][i] < queue[s][k]
      BY <1>3 DEF Inv, InOrder
    <3> QED BY <1>2, <1>4, <1>5, <1>7, <2>2, <3>1
  <2> QED BY <2>1, <2>2
<1>12. Accounting'
  <2> SUFFICES ASSUME NEW t \in Subscribers
               PROVE  due'[t] = taken'[t] + Len(queue'[t]) + lost'[t] + Occurs(todo', t)
    BY DEF Accounting
  <2>1. /\ due[t] = taken[t] + Len(queue[t]) + lost[t] + Occurs(todo, t)
        /\ taken[t] \in Nat /\ lost[t] \in Nat
    BY <1>1 DEF Inv, Accounting, TypeOK
  <2>2. CASE t # s
    BY <1>2, <1>3, <1>5, <2>1, <2>2
  <2>3. CASE t = s
    <3>1. due[s] = taken[s] + Len(queue[s]) + lost[s] + 1 /\ taken[s] \in Nat /\ lost[s] \in Nat
      BY <1>3, <2>1, <2>3
    <3>2. /\ due'[s] = due[s] /\ taken'[s] = taken[s] /\ lost'[s] = lost[s]
          /\ Occurs(todo', s) = 0 /\ Len(queue'[s]) = Len(queue[s]) + 1
      BY <1>2, <1>3, <1>5
    <3>3. due'[s] = taken'[s] + Len(queue'[s]) + lost'[s] + Occurs(todo', s)
      <4>1. \A a, b, c \in Nat : a + b + c + 1 = a + (b + 1) + c + 0
        OBVIOUS
      <4>2. due'[s] = taken[s] + Len(queue[s]) + lost[s] + 1
        BY <3>1, <3>2
      <4>3. /\ taken[s] \in Nat /\ Len(queue[s]) \in Nat /\ lost[s] \in Nat
        BY <1>4, <3>1
      <4>4. due'[s] = taken[s] + (Len(queue[s]) + 1) + lost[s] + 0
        BY <4>1, <4>2, <4>3
      <4> QED BY <3>2, <4>4
    <3> QED BY <2>3, <3>3
  <2> QED BY <2>2, <2>3
<1>13. LosslessBelowCapacity'
  BY <1>2 DEF Inv, LosslessBelowCapacity
<1> QED BY <1>8, <1>9, <1>10, <1>11, <1>12, <1>13 DEF Inv

(* A put that is refused: the subscriber has Capacity events waiting and one
   more due, so its channel published more than Capacity events. *)
LEMMA PutFullInv ==
  ASSUME Inv, PutFull
  PROVE  Inv'
<1> PICK s : s = Head(todo)
  OBVIOUS
<1>1. TypeOK /\ lock # Free /\ todo # <<>> /\ Len(queue[s]) >= Capacity
  BY DEF Inv, PutFull
<1>2. /\ full' = TRUE
      /\ UNCHANGED <<lock, todo, registered, channel, queue, published, last, raised,
                     due, taken, lost>>
  BY DEF PutFull, history
<1>3. lock \in Jobs /\ s \in Subscribers /\ channel[s] = lock /\ Occurs(todo, s) = 1
  BY <1>1, ServedHead
<1>4. due[s] = taken[s] + Len(queue[s]) + lost[s] + 1 /\ due[s] <= published[lock]
  BY <1>3 DEF Inv, Accounting, Fresh, FreshFor
<1>5. /\ due[s] \in Nat /\ taken[s] \in Nat /\ lost[s] \in Nat
      /\ Len(queue[s]) \in Nat /\ published[lock] \in Nat
  BY <1>1, <1>3 DEF TypeOK
<1>6. published[lock] > Capacity
  BY <1>1, <1>4, <1>5, CapacityAssumption
<1>7. Overflow'
  BY <1>2, <1>6 DEF Overflow
<1>8. TypeOK' /\ Serving' /\ Registry'
  BY <1>1, <1>2 DEF Inv, TypeOK, Serving, Registry
<1>9. Fresh' /\ InOrder' /\ Accounting' /\ LosslessBelowCapacity'
  BY <1>2 DEF Inv, Fresh, FreshFor, Delivered, InOrder, Accounting, LosslessBelowCapacity
<1> QED BY <1>7, <1>8, <1>9 DEF Inv

(* The channel of a publish that drops or raises is beyond Capacity, so what
   happens to it cannot break the guarantee for smaller channels. *)
LEMMA OnlyLockedChannel ==
  ASSUME Inv, full,
         published' = published, channel' = channel,
         raised' \subseteq raised \cup {lock},
         \A t \in Subscribers : channel[t] # lock => lost'[t] = lost[t]
  PROVE  LosslessBelowCapacity'
<1>1. lock \in Jobs /\ published[lock] \in Nat /\ published[lock] > Capacity
  BY ServedHead DEF Inv, Serving, Overflow, TypeOK
<1> SUFFICES ASSUME NEW j \in Jobs, published[j] <= Capacity
             PROVE  /\ j \notin raised'
                    /\ \A t \in Subscribers : channel[t] = j => lost'[t] = 0
  BY DEF LosslessBelowCapacity
<1>2. j # lock
  BY <1>1, CapacityAssumption
<1> QED BY <1>2 DEF Inv, LosslessBelowCapacity

(* The oldest event makes room that the new event does not use. *)
LEMMA DropOldestInv ==
  ASSUME Inv, DropOldest
  PROVE  Inv'
<1> PICK s : s = Head(todo)
  OBVIOUS
<1>1. TypeOK /\ full /\ todo # <<>> /\ queue[s] # <<>>
  BY DEF Inv, Serving, DropOldest
<1>2. /\ queue' = [queue EXCEPT ![s] = Tail(@)]
      /\ lost' = [lost EXCEPT ![s] = @ + 2]
      /\ todo' = Tail(todo) /\ full' = FALSE
      /\ UNCHANGED <<lock, registered, channel, published, last, raised, due, taken>>
  BY DEF DropOldest
<1>3. /\ lock \in Jobs /\ s \in Subscribers /\ channel[s] = lock
      /\ Tail(todo) \in Seq(Subscribers) /\ Distinct(Tail(todo))
      /\ ToSet(Tail(todo)) \subseteq ToSet(todo)
      /\ Occurs(todo, s) = 1 /\ Occurs(Tail(todo), s) = 0
      /\ \A t \in Subscribers \ {s} : Occurs(Tail(todo), t) = Occurs(todo, t)
  BY <1>1, ServedHead
<1>4. published[lock] \in Nat /\ queue[s] \in Seq(Nat) /\ Len(queue[s]) \in Nat \ {0}
  BY <1>1, <1>3 DEF TypeOK
<1>5. /\ queue'[s] \in Seq(Nat) /\ Len(queue'[s]) = Len(queue[s]) - 1
      /\ \A i \in 1..Len(queue[s]) - 1 : queue'[s][i] = queue[s][i + 1]
      /\ \A t \in Subscribers \ {s} : queue'[t] = queue[t] /\ lost'[t] = lost[t]
      /\ lost'[s] = lost[s] + 2
  <2>1. queue'[s] = Tail(queue[s]) /\ lost'[s] = lost[s] + 2
    BY <1>1, <1>2, <1>3 DEF TypeOK
  <2>2. \A t \in Subscribers \ {s} : queue'[t] = queue[t] /\ lost'[t] = lost[t]
    BY <1>1, <1>2, <1>3 DEF TypeOK
  <2> QED BY <1>1, <1>4, <2>1, <2>2, HeadTailProperties
<1>6. TypeOK'
  <2>1. queue' \in [Subscribers -> Seq(Nat)] /\ lost' \in [Subscribers -> Nat]
    <3>1. Tail(queue[s]) \in Seq(Nat) /\ queue \in [Subscribers -> Seq(Nat)]
      BY <1>1, <1>4, HeadTailProperties DEF TypeOK
    <3>2. queue' \in [Subscribers -> Seq(Nat)]
      BY <1>2, <3>1
    <3>3. lost' \in [Subscribers -> Nat]
      <4>1. lost \in [Subscribers -> Nat]
        BY <1>1 DEF TypeOK
      <4>2. lost[s] \in Nat
        BY <1>3, <4>1
      <4>3. lost[s] + 2 \in Nat
        BY <4>2
      <4> QED BY <1>2, <4>1, <4>3
    <3> QED BY <3>2, <3>3
  <2>2. \A t \in Subscribers \ {s} : Len(queue'[t]) <= Capacity
    BY <1>1, <1>5 DEF TypeOK
  <2>3. Len(queue'[s]) <= Capacity
    BY <1>1, <1>3, <1>4, <1>5, CapacityAssumption DEF TypeOK
  <2> QED BY <1>1, <1>2, <1>3, <2>1, <2>2, <2>3 DEF TypeOK
<1>7. Serving' /\ Registry' /\ Overflow'
  BY <1>1, <1>2, <1>3, FreeAssumption DEF Inv, Serving, Registry, Overflow
<1>8. Fresh'
  <2> SUFFICES ASSUME NEW t \in Subscribers PROVE FreshFor(t)'
    BY DEF Fresh
  <2>1. CASE t # s
    BY <1>2, <1>3, <1>5, <2>1 DEF Inv, Fresh, FreshFor, Delivered
  <2>2. CASE t = s
    <3>1. Delivered(s)' = published[lock]
      BY <1>2, <1>3, <1>4 DEF Delivered
    <3>2. FreshFor(s) /\ last[s] \in Nat
      BY <1>1, <1>3 DEF Inv, Fresh, TypeOK
    <3>3. ASSUME NEW i \in 1..Len(queue'[s]) PROVE queue'[s][i] <= published[lock]
      <4>1. i + 1 \in 1..Len(queue[s]) /\ queue'[s][i] = queue[s][i + 1]
        BY <1>4, <1>5
      <4>2. queue[s][i + 1] <= published[lock] - 1 /\ queue[s][i + 1] \in Nat
        BY <1>3, <1>4, <3>2, <4>1 DEF FreshFor, Delivered
      <4> QED BY <1>4, <4>1, <4>2
    <3>4. last'[s] <= published[lock] /\ due'[s] <= published[lock]
      BY <1>2, <1>3, <1>4, <3>2 DEF FreshFor, Delivered
    <3> QED BY <1>2, <1>3, <2>2, <3>1, <3>3, <3>4, ChannelAssumption DEF FreshFor
  <2> QED BY <2>1, <2>2
<1>9. InOrder'
  <2> SUFFICES ASSUME NEW t \in Subscribers
               PROVE  /\ \A i \in 1..Len(queue'[t]) : last'[t] < queue'[t][i]
                      /\ \A i, k \in 1..Len(queue'[t]) :
                            i < k => queue'[t][i] < queue'[t][k]
    BY DEF InOrder
  <2>1. CASE t # s
    BY <1>2, <1>5, <2>1 DEF Inv, InOrder
  <2>2. CASE t = s
    <3>1. /\ \A i \in 1..Len(queue[s]) : last[s] < queue[s][i]
          /\ \A i, k \in 1..Len(queue[s]) : i < k => queue[s][i] < queue[s][k]
      BY <1>3 DEF Inv, InOrder
    <3> QED BY <1>2, <1>4, <1>5, <2>2, <3>1
  <2> QED BY <2>1, <2>2
<1>10. Accounting'
  <2> SUFFICES ASSUME NEW t \in Subscribers
               PROVE  due'[t] = taken'[t] + Len(queue'[t]) + lost'[t] + Occurs(todo', t)
    BY DEF Accounting
  <2>1. /\ due[t] = taken[t] + Len(queue[t]) + lost[t] + Occurs(todo, t)
        /\ taken[t] \in Nat /\ lost[t] \in Nat
    BY <1>1 DEF Inv, Accounting, TypeOK
  <2>2. CASE t # s
    BY <1>2, <1>3, <1>5, <2>1, <2>2
  <2>3. CASE t = s
    <3>1. due[s] = taken[s] + Len(queue[s]) + lost[s] + 1 /\ taken[s] \in Nat /\ lost[s] \in Nat
      BY <1>3, <2>1, <2>3
    <3>2. due'[s] = due[s] /\ taken'[s] = taken[s] /\ Occurs(todo', s) = 0
      BY <1>2, <1>3
    <3>3. Len(queue'[s]) = Len(queue[s]) - 1 /\ lost'[s] = lost[s] + 2
      BY <1>5
    <3>4. due'[s] = taken'[s] + Len(queue'[s]) + lost'[s] + Occurs(todo', s)
      <4>1. \A a, b, c \in Nat : a + b + c + 1 = a + (b - 1) + (c + 2) + 0
        OBVIOUS
      <4>2. due'[s] = taken[s] + Len(queue[s]) + lost[s] + 1
        BY <3>1, <3>2
      <4>3. /\ taken[s] \in Nat /\ Len(queue[s]) \in Nat /\ lost[s] \in Nat
        BY <1>4, <3>1
      <4>4. due'[s] = taken[s] + (Len(queue[s]) - 1) + (lost[s] + 2) + 0
        BY <4>1, <4>2, <4>3
      <4> QED BY <3>2, <3>3, <4>4
    <3> QED BY <2>3, <3>4
  <2> QED BY <2>2, <2>3
<1>11. LosslessBelowCapacity'
  BY <1>1, <1>2, <1>3, <1>5, OnlyLockedChannel
<1> QED BY <1>6, <1>7, <1>8, <1>9, <1>10, <1>11 DEF Inv

(* The failing publish ends: everyone it had not served loses the event. *)
LEMMA DropRaisesInv ==
  ASSUME Inv, DropRaises
  PROVE  Inv'
<1>1. TypeOK /\ full /\ todo # <<>>
  BY DEF Inv, Serving, DropRaises
<1>2. /\ raised' = raised \cup {lock} /\ lock' = Free /\ todo' = <<>> /\ full' = FALSE
      /\ UNCHANGED <<registered, channel, queue, published, last, due, taken>>
      /\ lost' = [t \in Subscribers |-> lost[t] + Occurs(todo, t)]
  BY DEF DropRaises
<1>3. lock \in Jobs /\ \A t \in ToSet(todo) : channel[t] = lock
  BY <1>1, ServedHead DEF Inv, Serving
<1>4. ToSet(<<>>) = {}
  BY DEF ToSet
<1>5. \A t \in Subscribers :
        /\ Occurs(todo, t) \in {0, 1} /\ Occurs(todo', t) = 0
        /\ lost'[t] = lost[t] + Occurs(todo, t)
  BY <1>2, <1>4 DEF Occurs
<1>6. TypeOK'
  <2>1. ASSUME NEW t \in Subscribers PROVE lost[t] + Occurs(todo, t) \in Nat
    <3>1. lost[t] \in Nat
      BY <1>1 DEF TypeOK
    <3>2. Occurs(todo, t) = 0 \/ Occurs(todo, t) = 1
      BY <1>5
    <3> QED BY <3>1, <3>2
  <2>2. lost' \in [Subscribers -> Nat]
    BY <1>2, <2>1
  <2>3. raised' \in SUBSET Jobs /\ <<>> \in Seq(Subscribers)
    BY <1>1, <1>2, <1>3 DEF TypeOK
  <2> QED BY <1>1, <1>2, <2>2, <2>3 DEF TypeOK
<1>7. Serving' /\ Registry' /\ InOrder' /\ Overflow'
  BY <1>2, <1>4 DEF Inv, Serving, Distinct, Registry, InOrder, Overflow
<1>8. Fresh'
  <2> SUFFICES ASSUME NEW t \in Subscribers PROVE FreshFor(t)'
    BY DEF Fresh
  <2>1. FreshFor(t)
    BY DEF Inv, Fresh
  <2>2. CASE channel[t] = NotYet
    <3>1. t \notin ToSet(todo)
      BY <1>3, <2>2, ChannelAssumption
    <3>2. lost'[t] = lost[t]
      BY <1>1, <1>2, <3>1 DEF TypeOK, Occurs
    <3> QED BY <1>2, <2>1, <2>2, <3>2, ChannelAssumption DEF FreshFor
  <2>3. CASE channel[t] \in Jobs
    <3>1. published[channel[t]] \in Nat /\ last[t] \in Nat /\ queue[t] \in Seq(Nat)
      BY <1>1, <2>3 DEF TypeOK
    <3>2. Delivered(t)' = published[channel[t]] /\ Delivered(t) <= published[channel[t]]
      BY <1>2, <1>5, <3>1 DEF Delivered
    <3>3. last[t] <= published[channel[t]]
      BY <1>5, <2>1, <2>3, <3>1 DEF FreshFor, Delivered
    <3>4. ASSUME NEW i \in 1..Len(queue[t]) PROVE queue[t][i] <= published[channel[t]]
      <4>1. queue[t][i] \in Nat
        BY <3>1
      <4> QED BY <1>5, <2>1, <2>3, <3>1, <4>1 DEF FreshFor, Delivered
    <3> QED BY <1>2, <2>1, <2>3, <3>2, <3>3, <3>4, ChannelAssumption DEF FreshFor
  <2>4. CASE channel[t] = Closed
    BY <1>2, <2>4, ChannelAssumption DEF FreshFor
  <2> QED BY <1>1, <2>2, <2>3, <2>4 DEF TypeOK
<1>9. Accounting'
  <2> SUFFICES ASSUME NEW t \in Subscribers
               PROVE  due'[t] = taken'[t] + Len(queue'[t]) + lost'[t] + Occurs(todo', t)
    BY DEF Accounting
  <2>1. /\ due[t] = taken[t] + Len(queue[t]) + lost[t] + Occurs(todo, t)
        /\ taken[t] \in Nat /\ lost[t] \in Nat /\ Len(queue[t]) \in Nat
    BY <1>1 DEF Inv, Accounting, TypeOK
  <2> QED BY <1>2, <1>5, <2>1
<1>10. LosslessBelowCapacity'
  <2>1. \A t \in Subscribers : channel[t] # lock => lost'[t] = lost[t]
    BY <1>1, <1>2, <1>3 DEF TypeOK, Occurs
  <2> QED BY <1>1, <1>2, <2>1, OnlyLockedChannel
<1> QED BY <1>6, <1>7, <1>8, <1>9, <1>10 DEF Inv

LEMMA PublishEndInv ==
  ASSUME Inv, PublishEnd
  PROVE  Inv'
<1>1. /\ todo = <<>> /\ ~full /\ lock' = Free
      /\ UNCHANGED <<todo, full, registered, channel, queue, published, last, raised,
                     due, taken, lost>>
  BY DEF Inv, Serving, PublishEnd, history
<1>2. ToSet(<<>>) = {}
  BY DEF ToSet
<1>3. TypeOK' /\ Serving' /\ Registry' /\ Overflow'
  BY <1>1, <1>2 DEF Inv, TypeOK, Serving, Registry, Overflow
<1>4. Fresh' /\ InOrder' /\ Accounting' /\ LosslessBelowCapacity'
  BY <1>1 DEF Inv, Fresh, FreshFor, Delivered, InOrder, Accounting, LosslessBelowCapacity
<1> QED BY <1>3, <1>4 DEF Inv

(* The consumer takes the head of its queue: what remains is newer. *)
LEMMA TakeInv ==
  ASSUME Inv, NEW s \in Subscribers, Take(s)
  PROVE  Inv'
<1>1. TypeOK /\ channel[s] \in Jobs /\ queue[s] # <<>>
  BY DEF Inv, Take
<1>2. /\ last' = [last EXCEPT ![s] = Head(queue[s])]
      /\ queue' = [queue EXCEPT ![s] = Tail(@)]
      /\ taken' = [taken EXCEPT ![s] = @ + 1]
      /\ UNCHANGED <<lock, todo, full, registered, channel, published, raised, due, lost>>
  BY DEF Take
<1>3. queue[s] \in Seq(Nat) /\ Len(queue[s]) \in Nat \ {0} /\ taken[s] \in Nat
  BY <1>1 DEF TypeOK
<1>4. /\ queue'[s] \in Seq(Nat) /\ Len(queue'[s]) = Len(queue[s]) - 1
      /\ \A i \in 1..Len(queue[s]) - 1 : queue'[s][i] = queue[s][i + 1]
      /\ last'[s] = queue[s][1] /\ queue[s][1] \in Nat /\ taken'[s] = taken[s] + 1
  <2>1. queue'[s] = Tail(queue[s]) /\ last'[s] = Head(queue[s]) /\ taken'[s] = taken[s] + 1
    BY <1>1, <1>2 DEF TypeOK
  <2>2. Head(queue[s]) = queue[s][1]
    BY <1>3
  <2> QED BY <1>1, <1>3, <2>1, <2>2, HeadTailProperties
<1>5. \A t \in Subscribers \ {s} :
         queue'[t] = queue[t] /\ last'[t] = last[t] /\ taken'[t] = taken[t]
  BY <1>1, <1>2 DEF TypeOK
<1>6. TypeOK'
  <2>1. queue' \in [Subscribers -> Seq(Nat)]
    <3>1. Tail(queue[s]) \in Seq(Nat) /\ queue \in [Subscribers -> Seq(Nat)]
      BY <1>1, <1>3, HeadTailProperties DEF TypeOK
    <3> QED BY <1>2, <3>1
  <2>2. last' \in [Subscribers -> Nat] /\ taken' \in [Subscribers -> Nat]
    <3>1. Head(queue[s]) \in Nat
      BY <1>1, <1>3, HeadTailProperties
    <3> QED BY <1>1, <1>2, <3>1 DEF TypeOK
  <2>3. \A t \in Subscribers \ {s} : Len(queue'[t]) <= Capacity
    BY <1>1, <1>5 DEF TypeOK
  <2>4. Len(queue'[s]) <= Capacity
    BY <1>1, <1>3, <1>4, CapacityAssumption DEF TypeOK
  <2> QED BY <1>1, <1>2, <2>1, <2>2, <2>3, <2>4 DEF TypeOK
<1>7. Serving' /\ Registry' /\ Overflow' /\ LosslessBelowCapacity'
  BY <1>2 DEF Inv, Serving, Registry, Overflow, LosslessBelowCapacity
<1>8. Fresh'
  <2> SUFFICES ASSUME NEW t \in Subscribers PROVE FreshFor(t)'
    BY DEF Fresh
  <2>1. FreshFor(t) /\ Delivered(t)' = Delivered(t)
    BY <1>2 DEF Inv, Fresh, Delivered
  <2>2. CASE t # s
    BY <1>2, <1>5, <2>1, <2>2 DEF FreshFor
  <2>3. CASE t = s
    <3>1. \A i \in 1..Len(queue[s]) : queue[s][i] <= Delivered(s)
      BY <1>1, <2>1, <2>3 DEF FreshFor
    <3>2. last'[s] <= Delivered(s)
      BY <1>3, <1>4, <3>1
    <3>3. ASSUME NEW i \in 1..Len(queue'[s]) PROVE queue'[s][i] <= Delivered(s)
      <4>1. i + 1 \in 1..Len(queue[s]) /\ queue'[s][i] = queue[s][i + 1]
        BY <1>3, <1>4
      <4> QED BY <3>1, <4>1
    <3> QED BY <1>1, <1>2, <2>1, <2>3, <3>2, <3>3, ChannelAssumption DEF FreshFor
  <2> QED BY <2>2, <2>3
<1>9. InOrder'
  <2> SUFFICES ASSUME NEW t \in Subscribers
               PROVE  /\ \A i \in 1..Len(queue'[t]) : last'[t] < queue'[t][i]
                      /\ \A i, k \in 1..Len(queue'[t]) :
                            i < k => queue'[t][i] < queue'[t][k]
    BY DEF InOrder
  <2>1. CASE t # s
    BY <1>5, <2>1 DEF Inv, InOrder
  <2>2. CASE t = s
    <3>1. \A i, k \in 1..Len(queue[s]) : i < k => queue[s][i] < queue[s][k]
      BY DEF Inv, InOrder
    <3>2. ASSUME NEW i \in 1..Len(queue'[s])
          PROVE  i + 1 \in 1..Len(queue[s]) /\ queue'[s][i] = queue[s][i + 1]
      BY <1>3, <1>4
    <3>3. 1 \in 1..Len(queue[s])
      BY <1>3
    <3>4. ASSUME NEW i \in 1..Len(queue'[s]) PROVE last'[s] < queue'[s][i]
      <4>1. 1 < i + 1
        BY <1>3, <1>4
      <4> QED BY <1>4, <3>1, <3>2, <3>3, <4>1
    <3>5. ASSUME NEW i \in 1..Len(queue'[s]), NEW k \in 1..Len(queue'[s]), i < k
          PROVE  queue'[s][i] < queue'[s][k]
      <4>1. i + 1 < k + 1
        BY <1>3, <1>4, <3>5
      <4> QED BY <3>1, <3>2, <4>1
    <3> QED BY <2>2, <3>4, <3>5
  <2> QED BY <2>1, <2>2
<1>10. Accounting'
  <2> SUFFICES ASSUME NEW t \in Subscribers
               PROVE  due'[t] = taken'[t] + Len(queue'[t]) + lost'[t] + Occurs(todo', t)
    BY DEF Accounting
  <2>1. /\ due[t] = taken[t] + Len(queue[t]) + lost[t] + Occurs(todo, t)
        /\ lost[t] \in Nat /\ Occurs(todo, t) \in {0, 1}
    BY <1>1 DEF Inv, Accounting, TypeOK, Occurs
  <2>2. CASE t # s
    BY <1>2, <1>5, <2>1, <2>2
  <2>3. CASE t = s
    BY <1>2, <1>3, <1>4, <2>1, <2>3
  <2> QED BY <2>2, <2>3
<1> QED BY <1>6, <1>7, <1>8, <1>9, <1>10 DEF Inv

LEMMA NextInv == Inv /\ [Next]_vars => Inv'
<1> SUFFICES ASSUME Inv, [Next]_vars PROVE Inv'
  OBVIOUS
<1>1. ASSUME NEW s \in Subscribers, NEW j \in Jobs, Subscribe(s, j) PROVE Inv'
  BY <1>1, SubscribeInv
<1>2. ASSUME NEW s \in Subscribers, Unsubscribe(s) PROVE Inv'
  BY <1>2, UnsubscribeInv
<1>3. ASSUME NEW j \in Jobs, PublishBegin(j) PROVE Inv'
  BY <1>3, PublishBeginInv
<1>4. CASE Publish
  BY <1>4, PutEventInv, PutFullInv, DropOldestInv, DropRaisesInv, PublishEndInv DEF Publish
<1>5. ASSUME NEW s \in Subscribers, Take(s) PROVE Inv'
  BY <1>5, TakeInv
<1>6. CASE UNCHANGED vars
  <2>1. TypeOK' /\ Serving' /\ Registry' /\ Overflow'
    BY <1>6 DEF vars, Inv, TypeOK, Serving, Registry, Overflow
  <2>2. Fresh' /\ InOrder' /\ Accounting' /\ LosslessBelowCapacity'
    BY <1>6 DEF vars, Inv, Fresh, FreshFor, Delivered, InOrder, Accounting,
                LosslessBelowCapacity
  <2> QED BY <2>1, <2>2 DEF Inv
<1> QED BY <1>1, <1>2, <1>3, <1>4, <1>5, <1>6 DEF Next

-----------------------------------------------------------------------------
(* The theorems.                                                           *)

THEOREM Invariance == Spec => []Inv
  BY InitInv, NextInv, PTL DEF Spec

(* Whatever publishers, consumers and overflows do, the bus stays well typed and
   no queue exceeds its maximum. *)
THEOREM TypeCorrect == Spec => []TypeOK
<1>1. Inv => TypeOK
  BY DEF Inv
<1> QED BY <1>1, Invariance, PTL

(* stream never yields an event twice or out of order. *)
THEOREM Ordered == Spec => []InOrder
<1>1. Inv => InOrder
  BY DEF Inv
<1> QED BY <1>1, Invariance, PTL

(* publish loses and duplicates nothing beyond the counted drops. *)
THEOREM Accounted == Spec => []Accounting
<1>1. Inv => Accounting
  BY DEF Inv
<1> QED BY <1>1, Invariance, PTL

(* A channel with at most Capacity publishes is lossless and its publisher never
   sees an exception. *)
THEOREM Lossless == Spec => []LosslessBelowCapacity
<1>1. Inv => LosslessBelowCapacity
  BY DEF Inv
<1> QED BY <1>1, Invariance, PTL
=============================================================================
