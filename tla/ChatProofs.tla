----------------------------- MODULE ChatProofs -----------------------------
(***************************************************************************)
(* Proofs about Chat, for any number of calls, sessions, drafts and chunks *)
(* and any limits: where a quote is located in its source blocks, that a   *)
(* cached draft cites the ledger of the request that reuses it, by how     *)
(* much the cache can exceed its limit, that what is shown is literal and  *)
(* was judged, and how messages are stored.                                *)
(***************************************************************************)
EXTENDS Chat, FiniteSetTheorems, SequenceTheorems, WellFoundedInduction, TLAPS

-----------------------------------------------------------------------------
(* Locating quotes.                                                         *)

(* A located part of a quote is not empty, lies within the part of its block *)
(* that the chunk holds, and is exactly the quoted part: the same distance   *)
(* from the segment's start in the chunk and in the block.                   *)
THEOREM LocatedWithinBlock ==
  ASSUME NEW segment \in Spans, NEW from \in Int, NEW to \in Int, Overlaps(segment, from, to)
  PROVE  LET spot == Clip(segment, from, to)
         IN /\ segment.blockFrom <= spot.from
            /\ spot.from < spot.to
            /\ spot.to <= segment.blockFrom + (segment.to - segment.from)
            /\ from <= segment.from + (spot.from - segment.blockFrom)
            /\ segment.from + (spot.to - segment.blockFrom) <= to
  BY DEF Spans, Overlaps, Clip, Larger, Smaller

LEMMA PositionLocated ==
  ASSUME NEW segment \in Spans, NEW from \in Int, NEW to \in Int, NEW p \in Int,
         from <= p, p < to, segment.from <= p, p < segment.to
  PROVE  LET spot == Clip(segment, from, to)
             offset == segment.blockFrom + (p - segment.from)
         IN /\ Overlaps(segment, from, to)
            /\ spot.block = segment.block /\ spot.from <= offset /\ offset < spot.to
  BY DEF Spans, Overlaps, Clip, Larger, Smaller

(* Every position of the quote that some segment covers is located, in the   *)
(* block of that segment and at the right offset.                            *)
THEOREM LocatedCompletely ==
  ASSUME NEW chunk, Segments[chunk] \in Seq(Spans), NEW from \in Int, NEW to \in Int,
         NEW k \in DOMAIN Segments[chunk], NEW p \in Int,
         from <= p, p < to, Segments[chunk][k].from <= p, p < Segments[chunk][k].to
  PROVE  \E spot \in LocateChunkSpans(chunk, from, to) :
           LET offset == Segments[chunk][k].blockFrom + (p - Segments[chunk][k].from)
           IN spot.block = Segments[chunk][k].block /\ spot.from <= offset /\ offset < spot.to
<1>1. Segments[chunk][k] \in Spans
  OBVIOUS
<1>2. /\ Overlaps(Segments[chunk][k], from, to)
      /\ LET spot == Clip(Segments[chunk][k], from, to)
             offset == Segments[chunk][k].blockFrom + (p - Segments[chunk][k].from)
         IN spot.block = Segments[chunk][k].block /\ spot.from <= offset /\ offset < spot.to
  BY <1>1, PositionLocated
<1>3. Clip(Segments[chunk][k], from, to) \in LocateChunkSpans(chunk, from, to)
  BY <1>2 DEF LocateChunkSpans
<1>. QED
  BY <1>2, <1>3

-----------------------------------------------------------------------------
(* The cache.                                                               *)

(* An entry's draft was written from the ledger that its key determines.     *)
Matching == {e \in Entries : e.ledger = LedgerOf(e.key[1], e.key[3])}

KeysOnce(seq) == \A i, k \in DOMAIN seq : seq[i].key = seq[k].key => i = k

Before == {"idle", "opened", "asked", "retrieved", "drafting"}
Drafted == {"touching", "putting", "moving", "trimming", "drafted", "attributed"}

BasisInv ==
  \A c \in Calls : /\ pc[c] \in Before => basis[c] = {}
                   /\ pc[c] \in Drafted => basis[c] = Ledger(c)
                   /\ basis[c] # {} => basis[c] = Ledger(c)

SizeInv ==
  /\ \A c \in broken : pc[c] = "failed"
  /\ Len(cache) <= CacheMax + Cardinality(Storing) + Cardinality(broken)

SharedInv ==
  /\ sessions \subseteq Sessions /\ broken \subseteq Calls
  /\ cache \in Seq(Matching) /\ KeysOnce(cache)

Inv == CallTypes /\ SharedInv /\ BasisInv /\ SizeInv

LEMMA MatchingEntries == Matching \subseteq Entries
  BY DEF Matching

-----------------------------------------------------------------------------
(* What the operations on the cache do to a list of entries.                *)

LEMMA Appending ==
  ASSUME NEW S, NEW seq \in Seq(S), NEW e \in S, KeysOnce(seq),
         \A k \in DOMAIN seq : seq[k].key # e.key
  PROVE  /\ Append(seq, e) \in Seq(S)
         /\ Len(Append(seq, e)) = Len(seq) + 1
         /\ KeysOnce(Append(seq, e))
<1>1. /\ Append(seq, e) \in Seq(S)
      /\ Len(Append(seq, e)) = Len(seq) + 1
      /\ DOMAIN Append(seq, e) = 1..Len(seq) + 1
      /\ \A k \in 1..Len(seq) : Append(seq, e)[k] = seq[k]
      /\ Append(seq, e)[Len(seq) + 1] = e
      /\ Len(seq) \in Nat /\ DOMAIN seq = 1..Len(seq)
  OBVIOUS
<1>2. ASSUME NEW i \in 1..Len(seq) + 1, NEW k \in 1..Len(seq) + 1,
             Append(seq, e)[i].key = Append(seq, e)[k].key
      PROVE  i = k
  <2>1. CASE i = Len(seq) + 1 /\ k = Len(seq) + 1
    BY <2>1
  <2>2. CASE i = Len(seq) + 1 /\ k \in 1..Len(seq)
    BY <1>1, <1>2, <2>2
  <2>3. CASE i \in 1..Len(seq) /\ k = Len(seq) + 1
    BY <1>1, <1>2, <2>3
  <2>4. CASE i \in 1..Len(seq) /\ k \in 1..Len(seq)
    BY <1>1, <1>2, <2>4 DEF KeysOnce
  <2>. QED
    BY <1>1, <2>1, <2>2, <2>3, <2>4
<1>. QED
  BY <1>1, <1>2 DEF KeysOnce

Replaced(seq, P, e) == [k \in DOMAIN seq |-> IF k \in P THEN e ELSE seq[k]]

LEMMA Replacing ==
  ASSUME NEW S, NEW seq \in Seq(S), NEW e \in S, NEW P, KeysOnce(seq),
         \A k \in P : seq[k].key = e.key
  PROVE  /\ Replaced(seq, P, e) \in Seq(S)
         /\ Len(Replaced(seq, P, e)) = Len(seq)
         /\ KeysOnce(Replaced(seq, P, e))
<1> DEFINE new == [k \in DOMAIN seq |-> IF k \in P THEN e ELSE seq[k]]
<1>1. Len(seq) \in Nat /\ DOMAIN seq = 1..Len(seq) /\ \A k \in 1..Len(seq) : seq[k] \in S
  OBVIOUS
<1>2. new \in [1..Len(seq) -> S]
  BY <1>1
<1>3. new \in Seq(S) /\ Len(new) = Len(seq)
  BY <1>1, <1>2
<1>4. \A k \in DOMAIN seq : new[k].key = seq[k].key
  OBVIOUS
<1>5. KeysOnce(new)
  BY <1>4 DEF KeysOnce
<1>. QED
  BY <1>3, <1>5 DEF Replaced

Moved(seq, k) == Append(SubSeq(seq, 1, k - 1) \o SubSeq(seq, k + 1, Len(seq)), seq[k])

LEMMA Moving ==
  ASSUME NEW S, NEW seq \in Seq(S), NEW k \in DOMAIN seq, KeysOnce(seq)
  PROVE  /\ Moved(seq, k) \in Seq(S)
         /\ Len(Moved(seq, k)) = Len(seq)
         /\ KeysOnce(Moved(seq, k))
<1> DEFINE n == Len(seq)
           left == SubSeq(seq, 1, k - 1)
           right == SubSeq(seq, k + 1, n)
           rest == left \o right
<1>1. n \in Nat /\ DOMAIN seq = 1..n /\ k \in 1..n
  OBVIOUS
<1>2. left \in Seq(S) /\ Len(left) = k - 1 /\ \A i \in 1..k - 1 : left[i] = seq[i]
  BY <1>1
<1>3. right \in Seq(S) /\ Len(right) = n - k /\ \A i \in 1..n - k : right[i] = seq[k + i]
  BY <1>1
<1> HIDE DEF left, right
<1>4. rest \in Seq(S) /\ Len(rest) = n - 1
  <2>1. rest \in Seq(S) /\ Len(rest) = Len(left) + Len(right)
    BY <1>2, <1>3, ConcatProperties
  <2>. QED
    BY <1>1, <1>2, <1>3, <2>1
<1>5. \A i \in 1..n - 1 : rest[i] = IF i < k THEN seq[i] ELSE seq[i + 1]
  <2>. TAKE i \in 1..n - 1
  <2>1. CASE i < k
    <3>1. i \in 1..k - 1
      BY <1>1, <2>1
    <3>2. rest[i] = left[i]
      BY <1>1, <1>2, <1>3, <3>1, ConcatProperties
    <3>. QED
      BY <1>2, <2>1, <3>1, <3>2
  <2>2. CASE ~(i < k)
    <3>1. i - (k - 1) \in 1..n - k /\ i > Len(left) /\ i <= Len(left) + Len(right)
      BY <1>1, <1>2, <1>3, <2>2
    <3>2. rest[i] = right[i - (k - 1)]
      BY <1>1, <1>2, <1>3, <3>1, ConcatProperties
    <3>3. k + (i - (k - 1)) = i + 1
      BY <1>1
    <3>. QED
      BY <1>3, <2>2, <3>1, <3>2, <3>3
  <2>. QED
    BY <2>1, <2>2
<1> HIDE DEF rest
<1>6. ASSUME NEW i \in 1..n - 1
      PROVE  rest[i].key # seq[k].key
  <2>1. CASE i < k
    BY <1>1, <1>5, <2>1 DEF KeysOnce
  <2>2. CASE ~(i < k)
    <3>1. i + 1 \in 1..n /\ i + 1 # k
      BY <1>1, <2>2
    <3>. QED
      BY <1>1, <1>5, <2>2, <3>1 DEF KeysOnce
  <2>. QED
    BY <2>1, <2>2
<1>7. KeysOnce(rest)
  <2>. SUFFICES ASSUME NEW i \in 1..n - 1, NEW j \in 1..n - 1, rest[i].key = rest[j].key
                PROVE  i = j
    BY <1>1, <1>4 DEF KeysOnce
  <2>1. CASE i < k /\ j < k
    BY <1>1, <1>5, <2>1 DEF KeysOnce
  <2>2. CASE i < k /\ ~(j < k)
    <3>1. j + 1 \in 1..n /\ i \in 1..n /\ seq[i].key = seq[j + 1].key /\ i # j + 1
      BY <1>1, <1>5, <2>2
    <3>. QED
      BY <1>1, <3>1 DEF KeysOnce
  <2>3. CASE ~(i < k) /\ j < k
    <3>1. i + 1 \in 1..n /\ j \in 1..n /\ seq[i + 1].key = seq[j].key /\ j # i + 1
      BY <1>1, <1>5, <2>3
    <3>. QED
      BY <1>1, <3>1 DEF KeysOnce
  <2>4. CASE ~(i < k) /\ ~(j < k)
    <3>1. i + 1 \in 1..n /\ j + 1 \in 1..n /\ seq[i + 1].key = seq[j + 1].key
      BY <1>1, <1>5, <2>4
    <3>2. i + 1 = j + 1
      BY <1>1, <3>1 DEF KeysOnce
    <3>. QED
      BY <3>2
  <2>. QED
    BY <2>1, <2>2, <2>3, <2>4
<1>8. DOMAIN rest = 1..n - 1 /\ seq[k] \in S
  BY <1>1, <1>4
<1>9. /\ Append(rest, seq[k]) \in Seq(S)
      /\ Len(Append(rest, seq[k])) = Len(rest) + 1
      /\ KeysOnce(Append(rest, seq[k]))
  BY <1>4, <1>6, <1>7, <1>8, Appending
<1>10. Moved(seq, k) = Append(rest, seq[k])
  BY DEF Moved, rest, left, right
<1>11. Len(rest) + 1 = n
  BY <1>1, <1>4
<1> HIDE DEF n
<1>12. n = Len(seq)
  BY DEF n
<1>. QED
  BY <1>9, <1>10, <1>11, <1>12

LEMMA Trimming ==
  ASSUME NEW S, NEW seq \in Seq(S), seq # <<>>, KeysOnce(seq)
  PROVE  Tail(seq) \in Seq(S) /\ Len(Tail(seq)) = Len(seq) - 1 /\ KeysOnce(Tail(seq))
<1>1. /\ Len(seq) \in Nat /\ Len(seq) > 0 /\ DOMAIN seq = 1..Len(seq)
      /\ Tail(seq) \in Seq(S) /\ Len(Tail(seq)) = Len(seq) - 1
      /\ DOMAIN Tail(seq) = 1..Len(seq) - 1
      /\ \A i \in 1..Len(seq) - 1 : Tail(seq)[i] = seq[i + 1]
  OBVIOUS
<1>2. ASSUME NEW i \in 1..Len(seq) - 1, NEW k \in 1..Len(seq) - 1, seq[i + 1].key = seq[k + 1].key
      PROVE  i = k
  <2>1. i + 1 \in 1..Len(seq) /\ k + 1 \in 1..Len(seq)
    BY <1>1
  <2>2. i + 1 = k + 1
    BY <1>1, <1>2, <2>1 DEF KeysOnce
  <2>. QED
    BY <2>2
<1>. QED
  BY <1>1, <1>2 DEF KeysOnce

-----------------------------------------------------------------------------
(* One call's step: its types, its key and its ledger.                      *)

Running == PC \ (Ended \cup {"idle"})

LEMMA KeyTyped ==
  ASSUME CallTypes, NEW c \in Calls, pc[c] \in Running
  PROVE  /\ Key(c) \in Keys /\ Ledger(c) \in SUBSET Evidences
         /\ Ledger(c) = LedgerOf(Key(c)[1], Key(c)[3])
<1>1. session[c] \in Sessions /\ question[c] \in Questions /\ hits[c] \in SUBSET Chunks
  BY DEF CallTypes, Running
<1>2. VersionOf[session[c]] \in {VersionOf[s] : s \in Sessions}
  BY <1>1
<1>. QED
  BY <1>1, <1>2 DEF Key, Keys, Ledger, LedgerOf, Evidences

(* A call that only moves on keeps its types and its ledger. *)
LEMMA PcOnly ==
  ASSUME CallTypes, BasisInv, NEW c \in Calls, NEW from \in Running, NEW to \in Running,
         Go(c, from, to), UNCHANGED <<session, question, hits, draft, basis>>,
         to \notin {"touching", "putting"}, to \in Before => from \in Before, to \in Drafted => from \in Drafted
  PROVE  CallTypes' /\ BasisInv'
<1>1. pc[c] = from /\ pc' = [pc EXCEPT ![c] = to] /\ pc \in [Calls -> PC] /\ to \in PC
  BY DEF Go, CallTypes, Running
<1>2. CallTypes'
  BY <1>1 DEF CallTypes, Running
<1>3. BasisInv'
  BY <1>1 DEF BasisInv, Ledger
<1>. QED
  BY <1>2, <1>3

(* So does one that ends. *)
LEMMA LeaveKept ==
  ASSUME CallTypes, BasisInv, NEW c \in Calls, NEW from, NEW how \in Ended, Leave(c, from, how)
  PROVE  CallTypes' /\ BasisInv'
<1>1. /\ pc' = [pc EXCEPT ![c] = how] /\ how \in PC /\ how \notin Before /\ session' = session
      /\ question' = [question EXCEPT ![c] = NoQuestion]
      /\ hits' = [hits EXCEPT ![c] = {}]
      /\ draft' = [draft EXCEPT ![c] = <<>>]
      /\ basis' = [basis EXCEPT ![c] = {}]
  BY DEF Leave, Go, PC, Before, Ended
<1>2. CallTypes'
  <2>1. /\ pc' \in [Calls -> PC] /\ question' \in [Calls -> Questions \cup {NoQuestion}]
        /\ hits' \in [Calls -> SUBSET Chunks] /\ session' \in [Calls -> Sessions \cup {NoSession}]
    BY <1>1 DEF CallTypes
  <2>2. draft' \in [Calls -> Drafts \cup {<<>>}] /\ basis' \in [Calls -> SUBSET Evidences]
    BY <1>1 DEF CallTypes
  <2>3. \A d \in Calls : pc'[d] = IF d = c THEN how ELSE pc[d]
    BY <1>1 DEF CallTypes
  <2>4. \A d \in Calls \ {c} : question'[d] = question[d] /\ draft'[d] = draft[d]
    BY <1>1 DEF CallTypes
  <2>5. how \notin {"touching", "putting"}
    BY DEF Ended
  <2>. QED
    BY <1>1, <2>1, <2>2, <2>3, <2>4, <2>5 DEF CallTypes
<1>3. BasisInv'
  <2>1. how \notin Drafted
    BY DEF Ended, Drafted
  <2>. QED
    BY <1>1, <2>1 DEF BasisInv, Ledger, CallTypes, Drafted
<1>. QED
  BY <1>2, <1>3

-----------------------------------------------------------------------------
(* The size of the cache.                                                   *)

LEMMA Counting ==
  ASSUME broken \subseteq Calls
  PROVE  /\ IsFiniteSet(Storing) /\ IsFiniteSet(broken)
         /\ Cardinality(Storing) \in Nat /\ Cardinality(broken) \in Nat
<1>1. Storing \subseteq Calls
  BY DEF Storing
<1>2. IsFiniteSet(Storing) /\ IsFiniteSet(broken)
  BY <1>1, CallsAssumption, FS_Subset
<1>. QED
  BY <1>2, FS_CardinalityType

(* A call that neither stores nor finds its entry gone. *)
LEMMA SizeKept ==
  ASSUME CallTypes, SizeInv, NEW c \in Calls, NEW from, NEW to, Go(c, from, to),
         from \notin {"moving", "trimming", "failed"}, to \notin {"moving", "trimming"},
         UNCHANGED broken, Len(cache') = Len(cache)
  PROVE  SizeInv'
<1>1. pc[c] = from /\ \A d \in Calls : pc'[d] = IF d = c THEN to ELSE pc[d]
  BY DEF Go, CallTypes
<1>2. Storing' = Storing
  BY <1>1 DEF Storing
<1>3. \A d \in broken : pc'[d] = "failed"
  BY DEF Go, SizeInv
<1>. QED
  BY <1>2, <1>3 DEF SizeInv

-----------------------------------------------------------------------------
(* The actions that leave the cache alone.                                  *)

LEMMA EmptyInit == Init => Inv
<1>. SUFFICES ASSUME Init PROVE Inv
  OBVIOUS
<1>1. CallTypes
  BY DEF Init, CallTypes, PC, Ended
<1>2. SharedInv
  BY DEF Init, SharedInv, KeysOnce
<1>3. BasisInv
  BY DEF Init, BasisInv, Drafted
<1>4. Storing = {} /\ broken = {}
  BY DEF Init, Storing
<1>5. SizeInv
  BY <1>4, FS_EmptySet, BoundsAssumption DEF Init, SizeInv
<1>. QED
  BY <1>1, <1>2, <1>3, <1>5 DEF Inv

LEMMA SharedSame ==
  ASSUME Inv, sessions' \subseteq sessions, UNCHANGED <<cache, broken>>
  PROVE  SharedInv' /\ Len(cache') = Len(cache)
  BY DEF Inv, SharedInv, KeysOnce

LEMMA OpenKept ==
  ASSUME Inv, NEW c \in Calls, Open(c)
  PROVE  Inv'
<1>1. /\ Go(c, "idle", "opened") /\ UNCHANGED <<sessions, cache, broken, hits, draft, basis>>
      /\ pc[c] = "idle" /\ pc' = [pc EXCEPT ![c] = "opened"]
  BY DEF Open, Go, stored
<1>2. PICK s \in Sessions, q \in Questions :
        session' = [session EXCEPT ![c] = s] /\ question' = [question EXCEPT ![c] = q]
  BY DEF Open, Inv, SharedInv
<1>3. CallTypes'
  <2>1. /\ pc' \in [Calls -> PC] /\ session' \in [Calls -> Sessions \cup {NoSession}]
        /\ question' \in [Calls -> Questions \cup {NoQuestion}]
    BY <1>1, <1>2 DEF Inv, CallTypes, PC
  <2>. QED
    BY <1>1, <1>2, <2>1 DEF Inv, CallTypes
<1>4. BasisInv'
  BY <1>1, <1>2 DEF Inv, BasisInv, CallTypes, Ledger, Before, Drafted
<1>. QED
  BY <1>1, <1>3, <1>4, SharedSame, SizeKept DEF Inv

LEMMA RetrieveKept ==
  ASSUME Inv, NEW c \in Calls, Retrieve(c)
  PROVE  Inv'
<1> DEFINE from == IF c \in Streamed THEN "asked" ELSE "opened"
<1>1. /\ Go(c, from, "retrieved") /\ UNCHANGED <<sessions, cache, broken, session, draft, basis>>
      /\ pc[c] = from /\ pc' = [pc EXCEPT ![c] = "retrieved"]
  BY DEF Retrieve, Go, stored
<1>2. PICK q \in Questions, found \in SUBSET Chunks :
        question' = [question EXCEPT ![c] = q] /\ hits' = [hits EXCEPT ![c] = found]
  <2>1. question[c] \in Questions
    BY <1>1 DEF Inv, CallTypes, Ended
  <2>. QED
    BY <2>1, RetrievalsAssumption DEF Retrieve
<1>3. from \in {"asked", "opened"}
  OBVIOUS
<1> HIDE DEF from
<1>4. CallTypes'
  <2>1. /\ pc' \in [Calls -> PC] /\ hits' \in [Calls -> SUBSET Chunks]
        /\ question' \in [Calls -> Questions \cup {NoQuestion}]
    BY <1>1, <1>2 DEF Inv, CallTypes, PC
  <2>2. session[c] \in Sessions
    BY <1>1, <1>3 DEF Inv, CallTypes, Ended
  <2>. QED
    BY <1>1, <1>2, <2>1, <2>2 DEF Inv, CallTypes
<1>5. BasisInv'
  BY <1>1, <1>2, <1>3 DEF Inv, BasisInv, CallTypes, Ledger, Before, Drafted
<1>. QED
  BY <1>1, <1>3, <1>4, <1>5, SharedSame, SizeKept DEF Inv

LEMMA CacheGetKept ==
  ASSUME Inv, NEW c \in Calls, CacheGet(c)
  PROVE  Inv'
<1>1. pc[c] = "retrieved" /\ UNCHANGED <<sessions, cache, broken, session, question, hits>>
  BY DEF CacheGet, stored
<1>2. CASE Cached(Key(c)) = {} /\ Go(c, "retrieved", "drafting") /\ UNCHANGED <<draft, basis>>
  <2>1. pc' = [pc EXCEPT ![c] = "drafting"]
    BY <1>2 DEF Go
  <2>2. CallTypes'
    BY <1>1, <1>2, <2>1 DEF Inv, CallTypes, PC, Ended
  <2>3. BasisInv'
    BY <1>1, <1>2, <2>1 DEF Inv, BasisInv, CallTypes, Ledger, Before, Drafted
  <2>. QED
    BY <1>1, <1>2, <2>2, <2>3, SharedSame, SizeKept DEF Inv
<1>3. ASSUME NEW k \in Cached(Key(c)), Go(c, "retrieved", "touching"),
             draft' = [draft EXCEPT ![c] = cache[k].draft],
             basis' = [basis EXCEPT ![c] = cache[k].ledger]
      PROVE  Inv'
  <2>1. pc' = [pc EXCEPT ![c] = "touching"]
    BY <1>3 DEF Go
  <2>2. cache[k] \in Matching /\ cache[k].key = Key(c)
    BY <1>3 DEF Cached, Inv, SharedInv
  <2>3. cache[k].draft \in Drafts /\ cache[k].ledger \in SUBSET Evidences
        /\ cache[k].ledger = Ledger(c)
    <3>1. Ledger(c) = LedgerOf(Key(c)[1], Key(c)[3])
      BY <1>1, KeyTyped DEF Running, PC, Ended, Inv
    <3>. QED
      BY <2>2, <3>1 DEF Matching, Entries
  <2>4. CallTypes'
    <3>1. /\ pc' \in [Calls -> PC] /\ draft' \in [Calls -> Drafts \cup {<<>>}]
          /\ basis' \in [Calls -> SUBSET Evidences]
      BY <1>3, <2>1, <2>3 DEF Inv, CallTypes, PC
    <3>2. session[c] \in Sessions /\ question[c] \in Questions
      BY <1>1 DEF Inv, CallTypes, Ended
    <3>. QED
      BY <1>1, <1>3, <2>1, <2>3, <3>1, <3>2 DEF Inv, CallTypes
  <2>5. BasisInv'
    BY <1>1, <1>3, <2>1, <2>3 DEF Inv, BasisInv, CallTypes, Ledger, Before, Drafted
  <2>. QED
    BY <1>1, <1>3, <2>4, <2>5, SharedSame, SizeKept DEF Inv
<1>. QED
  BY <1>2, <1>3 DEF CacheGet

LEMMA DraftAnswerKept ==
  ASSUME Inv, NEW c \in Calls, DraftAnswer(c)
  PROVE  Inv'
<1>1. /\ Go(c, "drafting", "putting") /\ pc[c] = "drafting" /\ pc' = [pc EXCEPT ![c] = "putting"]
      /\ UNCHANGED <<sessions, cache, broken, session, question, hits>>
      /\ basis' = [basis EXCEPT ![c] = Ledger(c)]
  BY DEF DraftAnswer, Go, stored
<1>2. PICK d \in Drafts : draft' = [draft EXCEPT ![c] = d]
  BY DEF DraftAnswer
<1>3. Ledger(c) \in SUBSET Evidences
  BY <1>1, KeyTyped DEF Running, PC, Ended, Inv
<1>4. CallTypes'
  <2>1. /\ pc' \in [Calls -> PC] /\ draft' \in [Calls -> Drafts \cup {<<>>}]
        /\ basis' \in [Calls -> SUBSET Evidences]
    BY <1>1, <1>2, <1>3 DEF Inv, CallTypes, PC
  <2>2. session[c] \in Sessions /\ question[c] \in Questions
    BY <1>1 DEF Inv, CallTypes, Ended
  <2>. QED
    BY <1>1, <1>2, <2>1, <2>2 DEF Inv, CallTypes
<1>5. BasisInv'
  BY <1>1 DEF Inv, BasisInv, CallTypes, Ledger, Before, Drafted
<1>. QED
  BY <1>1, <1>4, <1>5, SharedSame, SizeKept DEF Inv

(* A call that only moves on, or ends, without touching the cache. *)
LEMMA MovedOn ==
  ASSUME Inv, NEW c \in Calls, NEW from \in Running, NEW to \in Running, Go(c, from, to),
         UNCHANGED <<sessions, cache, broken, session, question, hits, draft, basis>>,
         from \notin {"moving", "trimming"}, to \notin {"moving", "trimming", "touching", "putting"},
         to \in Before => from \in Before, to \in Drafted => from \in Drafted
  PROVE  Inv'
<1>1. from # "failed"
  BY DEF Running, Ended
<1>. QED
  BY <1>1, PcOnly, SharedSame, SizeKept DEF Inv

LEMMA MovesKept ==
  ASSUME Inv, NEW c \in Calls,
         AppendQuestion(c) \/ AnswerInsufficient(c) \/ Attribute(c) \/ Complete(c)
  PROVE  Inv'
<1>1. UNCHANGED <<sessions, cache, broken, session, question, hits, draft, basis>>
  BY DEF AppendQuestion, AnswerInsufficient, Attribute, Complete, stored, local
<1>2. \/ Go(c, "opened", "asked") \/ Go(c, "answered", "recording")
      \/ Go(c, "retrieved", "answered") \/ Go(c, "drafted", "attributed")
      \/ Go(c, "attributed", "answered")
  BY DEF AppendQuestion, AnswerInsufficient, Attribute, Complete
<1>3. {"opened", "asked", "answered", "recording", "retrieved", "drafted", "attributed"} \subseteq Running
  BY DEF Running, PC, Ended
<1>. QED
  BY <1>1, <1>2, <1>3, MovedOn DEF Before, Drafted

LEMMA EndsKept ==
  ASSUME Inv, NEW c \in Calls,
         \/ VersionMissing(c) \/ DraftFails(c) \/ AppendAnswer(c) \/ Disconnect(c)
  PROVE  Inv'
<1>1. UNCHANGED <<sessions, cache, broken>>
  BY DEF VersionMissing, DraftFails, AppendAnswer, Disconnect, stored
<1>2. PICK from \in {"opened", "asked", "drafting", "answered", "recording", "retrieved",
                     "drafted", "attributed"}, how \in Ended : Leave(c, from, how)
  BY DEF VersionMissing, DraftFails, AppendAnswer, Disconnect, Ended
<1>3. Go(c, from, how)
  BY <1>2 DEF Leave
<1>. QED
  BY <1>1, <1>2, <1>3, LeaveKept, SharedSame, SizeKept DEF Inv, Ended

-----------------------------------------------------------------------------
(* The actions on the cache.                                                *)

LEMMA MoveToEndShared ==
  ASSUME Inv, NEW c \in Calls, NEW from, NEW to, NEW k \in Cached(Key(c)),
         UNCHANGED <<sessions, broken>>,
         cache' = Append(SubSeq(cache, 1, k - 1) \o SubSeq(cache, k + 1, Len(cache)), cache[k])
  PROVE  SharedInv' /\ Len(cache') = Len(cache)
<1>1. k \in DOMAIN cache /\ cache' = Moved(cache, k)
  BY DEF Cached, Moved
<1>. QED
  BY <1>1, Moving DEF Inv, SharedInv

LEMMA TouchKept ==
  ASSUME Inv, NEW c \in Calls, CacheTouch(c)
  PROVE  Inv'
<1>1. MoveToEnd(c, "touching", "drafted") /\ UNCHANGED sessions
  BY DEF CacheTouch, MoveToEnd, stored
<1>2. {"touching", "drafted"} \subseteq Running
  BY DEF Running, PC, Ended
<1>3. ASSUME NEW k \in Cached(Key(c)), Go(c, "touching", "drafted"), UNCHANGED <<local, broken>>,
             cache' = Append(SubSeq(cache, 1, k - 1) \o SubSeq(cache, k + 1, Len(cache)), cache[k])
      PROVE  Inv'
  <2>1. UNCHANGED <<session, question, hits, draft, basis, broken>>
    BY <1>3 DEF local
  <2>2. SharedInv' /\ Len(cache') = Len(cache)
    BY <1>1, <1>3, MoveToEndShared
  <2>3. SizeInv'
    BY <1>3, <2>1, <2>2, SizeKept DEF Inv
  <2>. QED
    BY <1>2, <1>3, <2>1, <2>2, <2>3, PcOnly DEF Inv, Before, Drafted
<1>4. ASSUME Leave(c, "touching", "failed"), UNCHANGED <<cache, broken>>
      PROVE  Inv'
  <2>1. CallTypes' /\ BasisInv'
    BY <1>4, LeaveKept DEF Inv, Ended
  <2>2. SharedInv'
    BY <1>1, <1>4 DEF Inv, SharedInv, KeysOnce
  <2>3. \A d \in Calls : pc'[d] = IF d = c THEN "failed" ELSE pc[d]
    BY <1>4 DEF Leave, Go, Inv, CallTypes
  <2>4. pc[c] = "touching"
    BY <1>4 DEF Leave, Go
  <2>5. Storing' = Storing
    BY <2>3, <2>4 DEF Storing
  <2>6. \A d \in broken' : pc'[d] = "failed"
    BY <1>4, <2>3 DEF Inv, SharedInv, SizeInv
  <2>7. Len(cache') <= CacheMax + Cardinality(Storing') + Cardinality(broken')
    BY <1>4, <2>5 DEF Inv, SizeInv
  <2>. QED
    BY <2>1, <2>2, <2>6, <2>7 DEF Inv, SizeInv
<1>. QED
  BY <1>1, <1>3, <1>4 DEF MoveToEnd

LEMMA PutKept ==
  ASSUME Inv, NEW c \in Calls, CachePut(c)
  PROVE  Inv'
<1> DEFINE entry == [key |-> Key(c), draft |-> draft[c], ledger |-> basis[c]]
<1>1. /\ Go(c, "putting", "moving") /\ pc[c] = "putting"
      /\ UNCHANGED <<sessions, broken, session, question, hits, draft, basis>>
      /\ cache' = IF Cached(Key(c)) = {} THEN Append(cache, entry)
                  ELSE [k \in DOMAIN cache |-> IF k \in Cached(Key(c)) THEN entry ELSE cache[k]]
  BY DEF CachePut, Go, stored, local
<1>2. {"putting", "moving"} \subseteq Running
  BY DEF Running, PC, Ended
<1>3. entry \in Matching
  <2>1. /\ Key(c) \in Keys /\ Ledger(c) = LedgerOf(Key(c)[1], Key(c)[3])
        /\ Ledger(c) \in SUBSET Evidences
    BY <1>1, <1>2, KeyTyped DEF Inv
  <2>2. draft[c] \in Drafts /\ basis[c] = Ledger(c)
    BY <1>1 DEF Inv, CallTypes, BasisInv, Drafted
  <2>. QED
    BY <2>1, <2>2 DEF Matching, Entries
<1>4. cache \in Seq(Matching) /\ KeysOnce(cache) /\ Len(cache) \in Nat
      /\ broken \subseteq Calls /\ sessions \subseteq Sessions
  BY DEF Inv, SharedInv
<1>5. SharedInv' /\ Len(cache') <= Len(cache) + 1 /\ Len(cache') \in Nat
  <2>1. CASE Cached(Key(c)) = {}
    <3>1. \A k \in DOMAIN cache : cache[k].key # entry.key
      BY <2>1 DEF Cached
    <3>2. /\ cache' \in Seq(Matching) /\ Len(cache') = Len(cache) + 1 /\ KeysOnce(cache')
      BY <1>1, <1>3, <1>4, <2>1, <3>1, Appending
    <3>3. sessions' \subseteq Sessions /\ broken' \subseteq Calls
      BY <1>1, <1>4
    <3>. QED
      BY <1>4, <3>2, <3>3 DEF SharedInv
  <2>2. CASE Cached(Key(c)) # {}
    <3>1. \A k \in Cached(Key(c)) : cache[k].key = entry.key
      BY DEF Cached
    <3>2. cache' = Replaced(cache, Cached(Key(c)), entry)
      BY <1>1, <2>2 DEF Replaced
    <3> HIDE DEF entry
    <3>3. /\ cache' \in Seq(Matching) /\ Len(cache') = Len(cache) /\ KeysOnce(cache')
      BY <1>3, <1>4, <3>1, <3>2, Replacing
    <3>4. sessions' \subseteq Sessions /\ broken' \subseteq Calls
      BY <1>1, <1>4
    <3>. QED
      BY <1>4, <3>3, <3>4 DEF SharedInv
  <2>. QED
    BY <2>1, <2>2
<1>6. CallTypes' /\ BasisInv'
  BY <1>1, <1>2, PcOnly DEF Inv, Before, Drafted
<1>7. SizeInv'
  <2>1. \A d \in Calls : pc'[d] = IF d = c THEN "moving" ELSE pc[d]
    BY <1>1 DEF Go, Inv, CallTypes
  <2>2. Storing' = Storing \cup {c} /\ c \notin Storing
    BY <1>1, <2>1 DEF Storing
  <2>3. Cardinality(Storing') = Cardinality(Storing) + 1
    BY <1>4, <2>2, Counting, FS_AddElement
  <2>4. \A d \in broken' : pc'[d] = "failed"
    BY <1>1, <1>4, <2>1 DEF Inv, SizeInv
  <2>. QED
    BY <1>1, <1>4, <1>5, <2>3, <2>4, Counting, BoundsAssumption DEF Inv, SizeInv
<1>. QED
  BY <1>5, <1>6, <1>7 DEF Inv

LEMMA MoveKept ==
  ASSUME Inv, NEW c \in Calls, CacheMove(c)
  PROVE  Inv'
<1>1. MoveToEnd(c, "moving", "trimming") /\ UNCHANGED sessions
  BY DEF CacheMove, MoveToEnd, stored
<1>2. {"moving", "trimming"} \subseteq Running
  BY DEF Running, PC, Ended
<1>3. ASSUME NEW k \in Cached(Key(c)), Go(c, "moving", "trimming"), UNCHANGED <<local, broken>>,
             cache' = Append(SubSeq(cache, 1, k - 1) \o SubSeq(cache, k + 1, Len(cache)), cache[k])
      PROVE  Inv'
  <2>1. UNCHANGED <<session, question, hits, draft, basis, broken>>
    BY <1>3 DEF local
  <2>2. SharedInv' /\ Len(cache') = Len(cache)
    BY <1>1, <1>3, <2>1, MoveToEndShared
  <2>3. pc[c] = "moving" /\ \A d \in Calls : pc'[d] = IF d = c THEN "trimming" ELSE pc[d]
    BY <1>3 DEF Go, Inv, CallTypes
  <2>4. Storing' = Storing
    BY <2>3 DEF Storing
  <2>5. SizeInv'
    BY <2>1, <2>2, <2>3, <2>4 DEF Inv, SizeInv, SharedInv
  <2>. QED
    BY <1>2, <1>3, <2>1, <2>2, <2>5, PcOnly DEF Inv, Before, Drafted
<1>4. ASSUME Leave(c, "moving", "failed"), broken' = broken \cup {c}, UNCHANGED cache
      PROVE  Inv'
  <2>1. CallTypes' /\ BasisInv'
    BY <1>4, LeaveKept DEF Inv, Ended
  <2>2. SharedInv' /\ broken \subseteq Calls /\ Len(cache) \in Nat
    BY <1>1, <1>4 DEF Inv, SharedInv, KeysOnce
  <2>3. \A d \in Calls : pc'[d] = IF d = c THEN "failed" ELSE pc[d]
    BY <1>4 DEF Leave, Go, Inv, CallTypes
  <2>4. pc[c] = "moving"
    BY <1>4 DEF Leave, Go
  <2>5. Storing' = Storing \ {c} /\ c \in Storing /\ c \notin broken
    BY <2>3, <2>4 DEF Storing, Inv, SizeInv
  <2>6. /\ Cardinality(broken') = Cardinality(broken) + 1
        /\ Cardinality(Storing') = Cardinality(Storing) - 1
    BY <1>4, <2>2, <2>5, Counting, FS_AddElement, FS_RemoveElement
  <2>7. \A d \in broken' : pc'[d] = "failed"
    BY <1>4, <2>2, <2>3 DEF Inv, SizeInv
  <2>8. SizeInv'
    BY <1>4, <2>2, <2>6, <2>7, Counting, BoundsAssumption DEF Inv, SizeInv
  <2>. QED
    BY <2>1, <2>2, <2>8 DEF Inv
<1>. QED
  BY <1>1, <1>3, <1>4 DEF MoveToEnd

LEMMA TrimKept ==
  ASSUME Inv, NEW c \in Calls, CacheTrim(c)
  PROVE  Inv'
<1>1. /\ Go(c, "trimming", "drafted") /\ pc[c] = "trimming"
      /\ UNCHANGED <<sessions, broken, session, question, hits, draft, basis>>
      /\ cache' = IF Len(cache) > CacheMax THEN Tail(cache) ELSE cache
  BY DEF CacheTrim, Go, stored, local
<1>2. {"trimming", "drafted"} \subseteq Running
  BY DEF Running, PC, Ended
<1>3. CallTypes' /\ BasisInv'
  BY <1>1, <1>2, PcOnly DEF Inv, Before, Drafted
<1>4. cache \in Seq(Matching) /\ KeysOnce(cache) /\ Len(cache) \in Nat
      /\ broken \subseteq Calls /\ sessions \subseteq Sessions
  BY DEF Inv, SharedInv
<1>5. /\ SharedInv'
      /\ Len(cache') = IF Len(cache) > CacheMax THEN Len(cache) - 1 ELSE Len(cache)
  <2>1. CASE Len(cache) > CacheMax
    <3>1. cache # <<>>
      BY <2>1, BoundsAssumption
    <3>2. cache' \in Seq(Matching) /\ Len(cache') = Len(cache) - 1 /\ KeysOnce(cache')
      BY <1>1, <1>4, <2>1, <3>1, Trimming
    <3>. QED
      BY <1>1, <1>4, <2>1, <3>2 DEF SharedInv, KeysOnce
  <2>2. CASE ~(Len(cache) > CacheMax)
    BY <1>1, <1>4, <2>2 DEF SharedInv, KeysOnce
  <2>. QED
    BY <2>1, <2>2
<1>6. SizeInv'
  <2>1. \A d \in Calls : pc'[d] = IF d = c THEN "drafted" ELSE pc[d]
    BY <1>1 DEF Go, Inv, CallTypes
  <2>2. Storing' = Storing \ {c} /\ c \in Storing
    BY <1>1, <2>1 DEF Storing
  <2>3. Cardinality(Storing') = Cardinality(Storing) - 1
    BY <1>4, <2>2, Counting, FS_RemoveElement
  <2>4. \A d \in broken' : pc'[d] = "failed"
    BY <1>1, <1>4, <2>1 DEF Inv, SizeInv
  <2>5. Cardinality(Storing) > 0
    BY <1>4, <2>2, Counting, FS_EmptySet
  <2>. QED
    BY <1>1, <1>4, <1>5, <2>3, <2>4, <2>5, Counting, BoundsAssumption DEF Inv, SizeInv
<1>. QED
  BY <1>3, <1>5, <1>6 DEF Inv

-----------------------------------------------------------------------------
(* The invariant, and what follows from it.                                 *)

LEMMA Unmoved ==
  ASSUME Inv, sessions' \subseteq sessions,
         UNCHANGED <<cache, broken, pc, session, question, hits, draft, basis>>
  PROVE  Inv'
<1>1. SharedInv' /\ CallTypes'
  BY SharedSame DEF Inv, CallTypes
<1>2. BasisInv' /\ SizeInv'
  BY DEF Inv, BasisInv, SizeInv, Ledger, Storing
<1>. QED
  BY <1>1, <1>2 DEF Inv

LEMMA Preserved == Inv /\ [Next]_vars => Inv'
<1>. SUFFICES ASSUME Inv, [Next]_vars PROVE Inv'
  OBVIOUS
<1>1. ASSUME NEW c \in Calls, Step(c)
      PROVE  Inv'
  BY <1>1, OpenKept, RetrieveKept, CacheGetKept, DraftAnswerKept, MovesKept, EndsKept,
     TouchKept, PutKept, MoveKept, TrimKept DEF Step
<1>2. ASSUME NEW c \in Calls, Disconnect(c)
      PROVE  Inv'
  BY <1>2, EndsKept
<1>3. ASSUME NEW s \in Sessions, DeleteSession(s)
      PROVE  Inv'
  BY <1>3, Unmoved DEF DeleteSession, local
<1>4. CASE UNCHANGED vars
  BY <1>4, Unmoved DEF vars, local
<1>. QED
  BY <1>1, <1>2, <1>3, <1>4 DEF Next

THEOREM Invariance == Spec => []Inv
<1>. QED
  BY EmptyInit, Preserved, PTL DEF Spec


-----------------------------------------------------------------------------
(* InOrder lists a finite set of numbers, each once.                        *)

LEMMA RankBound ==
  ASSUME NEW S \in SUBSET Nat, IsFiniteSet(S), NEW b \in S
  PROVE  Rank(S, b) \in Nat /\ Rank(S, b) < Cardinality(S)
<1>1. {m \in S : m < b} \in SUBSET (S \ {b})
  OBVIOUS
<1>2. IsFiniteSet(S \ {b}) /\ Cardinality(S \ {b}) = Cardinality(S) - 1
  BY FS_RemoveElement
<1>3. Rank(S, b) \in Nat /\ Rank(S, b) <= Cardinality(S) - 1
  BY <1>1, <1>2, FS_Subset, FS_CardinalityType DEF Rank
<1>4. Cardinality(S) \in Nat
  BY FS_CardinalityType
<1> QED BY <1>3, <1>4

LEMMA RankMonotone ==
  ASSUME NEW S \in SUBSET Nat, IsFiniteSet(S), NEW a \in S, NEW b \in S, a < b
  PROVE  Rank(S, a) < Rank(S, b)
<1> DEFINE A == {m \in S : m < a}   B == {m \in S : m < b}
<1>1. A \cup {a} \in SUBSET B /\ B \in SUBSET S /\ A \in SUBSET S /\ a \notin A
  <2>1. \A m \in S : m \in Nat
    OBVIOUS
  <2>2. \A m \in S : m < a => m < b
    BY <2>1
  <2>3. A \cup {a} \subseteq B
    BY <2>2
  <2>4. a \notin A
    BY <2>1
  <2> QED BY <2>3, <2>4
<1> HIDE DEF A, B
<1>2. IsFiniteSet(A) /\ IsFiniteSet(B)
  BY <1>1, FS_Subset
<1>3. Cardinality(A \cup {a}) = Cardinality(A) + 1
  BY <1>1, <1>2, FS_AddElement
<1>4. Cardinality(A \cup {a}) <= Cardinality(B)
  BY <1>1, <1>2, FS_Subset
<1>5. Cardinality(A) \in Nat /\ Cardinality(B) \in Nat
  BY <1>2, FS_CardinalityType
<1>6. Cardinality(A) < Cardinality(B)
  BY <1>3, <1>4, <1>5
<1> QED BY <1>6 DEF A, B, Rank

LEMMA RankInjective ==
  ASSUME NEW S \in SUBSET Nat, IsFiniteSet(S), NEW a \in S, NEW b \in S,
         Rank(S, a) = Rank(S, b)
  PROVE  a = b
<1>1. a \in Nat /\ b \in Nat /\ Rank(S, a) \in Nat /\ Rank(S, b) \in Nat
  BY RankBound
<1>2. ~(a < b) /\ ~(b < a)
  BY <1>1, RankMonotone
<1> QED BY <1>1, <1>2

LEMMA RankOnto ==
  ASSUME NEW S \in SUBSET Nat, IsFiniteSet(S), NEW i \in 1..Cardinality(S)
  PROVE  \E b \in S : Rank(S, b) = i - 1
<1> DEFINE n == Cardinality(S)   f == [b \in S |-> Rank(S, b) + 1]
<1>1. n \in Nat
  BY FS_CardinalityType
<1>2. f \in [S -> 1..n]
  BY <1>1, RankBound
<1>3. \A a, b \in S : f[a] = f[b] => a = b
  <2> SUFFICES ASSUME NEW a \in S, NEW b \in S, f[a] = f[b] PROVE a = b
    OBVIOUS
  <2>1. Rank(S, a) \in Nat /\ Rank(S, b) \in Nat
    BY RankBound
  <2>2. Rank(S, a) = Rank(S, b)
    BY <2>1
  <2> QED BY <2>2, RankInjective
<1>4. IsFiniteSet(1..n) /\ Cardinality(1..n) = n
  BY <1>1, FS_Interval
<1>5. f \in Injection(S, 1..n)
  <2> HIDE DEF f
  <2> QED BY <1>2, <1>3 DEF Injection, IsInjective
<1>6. f \in Surjection(S, 1..n)
  <2> HIDE DEF f
  <2> QED BY <1>4, <1>5, FS_Injection
<1>7. \E b \in S : f[b] = i
  <2> HIDE DEF f
  <2> QED BY <1>6 DEF Surjection
<1>8. PICK b \in S : Rank(S, b) + 1 = i
  BY <1>7
<1>9. Rank(S, b) \in Nat
  BY RankBound
<1> QED BY <1>8, <1>9

LEMMA InOrderLists ==
  ASSUME NEW S \in SUBSET Nat, IsFiniteSet(S)
  PROVE  /\ Cardinality(S) \in Nat
         /\ InOrder(S) \in [1..Cardinality(S) -> S]
         /\ \A i, k \in 1..Cardinality(S) : InOrder(S)[i] = InOrder(S)[k] => i = k
         /\ \A b \in S : \E i \in 1..Cardinality(S) : InOrder(S)[i] = b
<1> DEFINE n == Cardinality(S)
<1>1. n \in Nat
  BY FS_CardinalityType
<1>2. ASSUME NEW i \in 1..n
      PROVE  InOrder(S)[i] \in S /\ Rank(S, InOrder(S)[i]) = i - 1
  BY RankOnto DEF InOrder
<1>3. InOrder(S) \in [1..n -> S]
  BY <1>2 DEF InOrder
<1>4. ASSUME NEW i \in 1..n, NEW k \in 1..n, InOrder(S)[i] = InOrder(S)[k] PROVE i = k
  BY <1>1, <1>2, <1>4
<1>5. ASSUME NEW b \in S PROVE \E i \in 1..n : InOrder(S)[i] = b
  <2> DEFINE i == Rank(S, b) + 1
  <2>1. i \in 1..n /\ i - 1 = Rank(S, b)
    BY <1>1, RankBound
  <2>2. InOrder(S)[i] \in S /\ Rank(S, InOrder(S)[i]) = Rank(S, b)
    BY <1>2, <2>1
  <2>3. \A a \in S : Rank(S, a) = Rank(S, b) => a = b
    BY RankInjective
  <2> QED BY <2>1, <2>2, <2>3
<1> QED BY <1>1, <1>3, <1>4, <1>5

LEMMA FunctionIsSeq ==
  ASSUME NEW S, NEW n \in Nat, NEW f \in [1..n -> S]
  PROVE  f \in Seq(S) /\ Len(f) = n
  OBVIOUS

LEMMA SeqElements ==
  ASSUME NEW S, NEW s \in Seq(S)
  PROVE  /\ DOMAIN s = 1..Len(s) /\ Len(s) \in Nat
         /\ \A i \in 1..Len(s) : s[i] \in S
         /\ s = [i \in 1..Len(s) |-> s[i]]
  OBVIOUS

LEMMA SeqGrows ==
  ASSUME NEW S, NEW T, S \subseteq T, NEW s \in Seq(S)
  PROVE  s \in Seq(T)
<1>1. s \in [1..Len(s) -> T]
  BY SeqElements
<1> QED BY <1>1, SeqElements, FunctionIsSeq

-----------------------------------------------------------------------------
(* What the guard keeps of a draft.                                         *)

(* The elements at some places: those, and no other, each once.             *)
LEMMA Picked ==
  ASSUME NEW S, NEW seq \in Seq(S), NEW P \in SUBSET (DOMAIN seq)
  PROVE  /\ Pick(seq, P) \in Seq(S)
         /\ DOMAIN Pick(seq, P) = DOMAIN InOrder(P)
         /\ \A i \in DOMAIN Pick(seq, P) : InOrder(P)[i] \in P /\ Pick(seq, P)[i] = seq[InOrder(P)[i]]
         /\ \A i, k \in DOMAIN Pick(seq, P) : InOrder(P)[i] = InOrder(P)[k] => i = k
         /\ \A p \in P : \E i \in DOMAIN Pick(seq, P) : InOrder(P)[i] = p /\ Pick(seq, P)[i] = seq[p]
<1> DEFINE n == Cardinality(P)
<1>1. DOMAIN seq = 1..Len(seq) /\ Len(seq) \in Nat /\ \A k \in DOMAIN seq : seq[k] \in S
  BY SeqElements
<1>2. P \in SUBSET Nat /\ IsFiniteSet(P)
  <2>1. P \in SUBSET (1..Len(seq)) /\ IsFiniteSet(1..Len(seq))
    BY <1>1, FS_Interval
  <2>2. P \in SUBSET Nat
    BY <1>1, <2>1
  <2> QED BY <2>1, <2>2, FS_Subset
<1>3. /\ n \in Nat /\ InOrder(P) \in [1..n -> P]
      /\ \A i, k \in 1..n : InOrder(P)[i] = InOrder(P)[k] => i = k
      /\ \A p \in P : \E i \in 1..n : InOrder(P)[i] = p
  BY <1>2, InOrderLists
<1> HIDE DEF n
<1>4. DOMAIN InOrder(P) = 1..n
  BY <1>3
<1>5. Pick(seq, P) = [i \in 1..n |-> seq[InOrder(P)[i]]]
  BY <1>4 DEF Pick
<1>6. Pick(seq, P) \in [1..n -> S]
  BY <1>1, <1>3, <1>5
<1>7. Pick(seq, P) \in Seq(S) /\ DOMAIN Pick(seq, P) = 1..n
  BY <1>3, <1>6, FunctionIsSeq
<1>8. \A i \in 1..n : InOrder(P)[i] \in P /\ Pick(seq, P)[i] = seq[InOrder(P)[i]]
  BY <1>3, <1>5
<1>9. \A p \in P : \E i \in 1..n : InOrder(P)[i] = p /\ Pick(seq, P)[i] = seq[p]
  BY <1>3, <1>8
<1> QED BY <1>3, <1>4, <1>7, <1>8, <1>9

LEMMA PickedUnique ==
  ASSUME NEW S, NEW seq \in Seq(S), NEW P \in SUBSET (DOMAIN seq), UniqueIds(seq)
  PROVE  UniqueIds(Pick(seq, P))
<1>1. /\ \A i \in DOMAIN Pick(seq, P) : InOrder(P)[i] \in P /\ Pick(seq, P)[i] = seq[InOrder(P)[i]]
      /\ \A i, k \in DOMAIN Pick(seq, P) : InOrder(P)[i] = InOrder(P)[k] => i = k
  BY Picked
<1>2. \A i, k \in P : seq[i].id = seq[k].id => i = k
  BY DEF UniqueIds
<1> SUFFICES ASSUME NEW i \in DOMAIN Pick(seq, P), NEW k \in DOMAIN Pick(seq, P),
                    Pick(seq, P)[i].id = Pick(seq, P)[k].id
             PROVE  i = k
  BY DEF UniqueIds
<1>3. seq[InOrder(P)[i]].id = seq[InOrder(P)[k]].id /\ InOrder(P)[i] \in P /\ InOrder(P)[k] \in P
  BY <1>1
<1>4. InOrder(P)[i] = InOrder(P)[k]
  BY <1>2, <1>3
<1> QED BY <1>1, <1>4

(* A link as ShownQuotesAreLiteral wants it. *)
Literal(ledger, link) ==
  LET text == Excerpt[link.evidence.chunk]
  IN /\ link.evidence \in ledger
     /\ 0 <= link.from /\ link.to <= Len(text)
     /\ Slice(text, link.from, link.to) = link.quote
     /\ \A spot \in LocateChunkSpans(link.evidence.chunk, link.from, link.to) :
          \E segment \in ClaimsOf(Segments[link.evidence.chunk]) :
            /\ segment.block = spot.block
            /\ segment.blockFrom <= spot.from /\ spot.from < spot.to
            /\ spot.to <= segment.blockFrom + (segment.to - segment.from)
            /\ spot.from - segment.blockFrom + segment.from >= link.from

LEMMA LocatedInSegments ==
  ASSUME NEW chunk \in Chunks, NEW from \in Nat, NEW to \in Nat,
         NEW spot \in LocateChunkSpans(chunk, from, to)
  PROVE  \E segment \in ClaimsOf(Segments[chunk]) :
           /\ segment.block = spot.block
           /\ segment.blockFrom <= spot.from /\ spot.from < spot.to
           /\ spot.to <= segment.blockFrom + (segment.to - segment.from)
           /\ spot.from - segment.blockFrom + segment.from >= from
<1>1. Segments[chunk] \in Seq(Spans)
  BY SourceAssumption
<1>2. PICK k \in DOMAIN Segments[chunk] :
        Overlaps(Segments[chunk][k], from, to) /\ spot = Clip(Segments[chunk][k], from, to)
  BY DEF LocateChunkSpans
<1>3. PICK segment : segment = Segments[chunk][k]
  OBVIOUS
<1>4. segment \in Spans /\ segment \in ClaimsOf(Segments[chunk])
  BY <1>1, <1>3 DEF ClaimsOf
<1>5. /\ segment.block = spot.block
      /\ segment.blockFrom <= spot.from /\ spot.from < spot.to
      /\ spot.to <= segment.blockFrom + (segment.to - segment.from)
      /\ spot.from - segment.blockFrom + segment.from >= from
  BY <1>2, <1>3, <1>4 DEF Spans, Overlaps, Clip, Larger, Smaller
<1> QED BY <1>4, <1>5

(* A quote that is looked for is found where it is. *)
LEMMA OccurrencesThere ==
  ASSUME NEW text, NEW quote, NEW p \in Occurrences(text, quote)
  PROVE  p \in 0..Len(text) /\ p + Len(quote) <= Len(text)
         /\ Slice(text, p, p + Len(quote)) = quote
  BY DEF Occurrences, Places

LEMMA ValidLinkLiteral ==
  ASSUME NEW ledger \in SUBSET Evidences, NEW link \in Links, NEW kept \in ValidLinks(ledger, link)
  PROVE  kept \in Links /\ Literal(ledger, kept)
<1> DEFINE chunk == link.evidence.chunk   text == Excerpt[chunk]
           places == Occurrences(text, link.quote)
<1>0. link.evidence \in ledger /\ ~(link.to > Len(text))
  <2>1. ASSUME link.evidence \notin ledger \/ link.to > Len(text) PROVE FALSE
    BY <2>1 DEF ValidLinks
  <2> QED BY <2>1
<1>2. chunk \in Chunks /\ text \in Seq(STRING) /\ Len(text) \in Nat
  <2>1. chunk \in Chunks
    BY <1>0 DEF Evidences
  <2> QED BY <2>1, SourceAssumption, SeqElements
<1>1. link.evidence \in ledger /\ link.to <= Len(text) /\ chunk \in Chunks
  BY <1>0, <1>2 DEF Links
<1>3. /\ link.from \in Nat /\ link.to \in Nat /\ link.from < link.to
      /\ link.quote \in Seq(STRING) /\ link.quote # <<>>
      /\ link.evidence \in [version : STRING, chunk : STRING]
  BY DEF Links
<1>4. CASE Slice(text, link.from, link.to) = link.quote /\ kept = link
  <2>1. \A spot \in LocateChunkSpans(chunk, link.from, link.to) :
          \E segment \in ClaimsOf(Segments[chunk]) :
            /\ segment.block = spot.block
            /\ segment.blockFrom <= spot.from /\ spot.from < spot.to
            /\ spot.to <= segment.blockFrom + (segment.to - segment.from)
            /\ spot.from - segment.blockFrom + segment.from >= link.from
    BY <1>1, <1>3, LocatedInSegments
  <2>2. 0 <= link.from
    BY <1>3
  <2> QED BY <1>1, <1>4, <2>1, <2>2 DEF Literal
<1>5. CASE \E p \in places : kept = [link EXCEPT !.from = p, !.to = p + Len(link.quote)]
  <2>1. PICK p \in places : kept = [link EXCEPT !.from = p, !.to = p + Len(link.quote)]
    BY <1>5
  <2>2. p \in Nat /\ p + Len(link.quote) <= Len(text) /\ Slice(text, p, p + Len(link.quote)) = link.quote
    BY <1>2, OccurrencesThere
  <2>3. Len(link.quote) \in Nat /\ Len(link.quote) > 0
    BY <1>3
  <2>4. link \in [evidence : [version : STRING, chunk : STRING], quote : Seq(STRING), from : Nat, to : Nat]
    BY DEF Links
  <2>5. /\ kept.evidence = link.evidence /\ kept.quote = link.quote
        /\ kept.from = p /\ kept.to = p + Len(link.quote)
        /\ kept \in [evidence : [version : STRING, chunk : STRING], quote : Seq(STRING), from : Nat, to : Nat]
    <3> DEFINE E == [version : STRING, chunk : STRING]   Q == Seq(STRING)
    <3>1. link \in [evidence : E, quote : Q, from : Nat, to : Nat]
      BY <2>4
    <3>2. p + Len(link.quote) \in Nat
      BY <2>2, <2>3
    <3> HIDE DEF E, Q
    <3>3. /\ kept.evidence = link.evidence /\ kept.quote = link.quote
          /\ kept.from = p /\ kept.to = p + Len(link.quote)
          /\ kept \in [evidence : E, quote : Q, from : Nat, to : Nat]
      BY <2>1, <2>2, <3>1, <3>2
    <3> QED BY <3>3 DEF E, Q
  <2>6. kept.from \in Nat /\ kept.to \in Nat /\ kept.from < kept.to /\ 0 <= kept.from
    BY <2>2, <2>3, <2>5
  <2>7. kept \in Links
    BY <1>3, <2>5, <2>6 DEF Links
  <2>8. \A spot \in LocateChunkSpans(chunk, kept.from, kept.to) :
          \E segment \in ClaimsOf(Segments[chunk]) :
            /\ segment.block = spot.block
            /\ segment.blockFrom <= spot.from /\ spot.from < spot.to
            /\ spot.to <= segment.blockFrom + (segment.to - segment.from)
            /\ spot.from - segment.blockFrom + segment.from >= kept.from
    BY <1>1, <2>6, LocatedInSegments
  <2> QED BY <1>1, <2>2, <2>5, <2>6, <2>7, <2>8 DEF Literal
<1> QED BY <1>1, <1>4, <1>5 DEF ValidLinks

GoodClaims(ledger) == {claim \in Claims : \A link \in claim.links : Literal(ledger, link)}

(* Whatever the model drafted, the claims the guard accepts are literal. *)
LEMMA Validated ==
  ASSUME NEW ledger \in SUBSET Evidences, NEW d \in Seq(Claims)
  PROVE  /\ Validate(ledger, d) \in Seq(GoodClaims(ledger))
         /\ UniqueIds(d) => UniqueIds(Validate(ledger, d))
<1> DEFINE P == {k \in DOMAIN d : Accepted(ledger, d[k])}
<1>1. PICK kept : kept = Pick(d, P)
  OBVIOUS
<1>2. kept \in Seq(Claims) /\ (UniqueIds(d) => UniqueIds(kept))
  BY <1>1, Picked, PickedUnique
<1>3. Validate(ledger, d) = [k \in DOMAIN kept |-> [kept[k] EXCEPT !.links = CheckedLinks(ledger, kept[k])]]
  BY <1>1 DEF Validate
<1>4. DOMAIN kept = 1..Len(kept) /\ Len(kept) \in Nat /\ \A k \in 1..Len(kept) : kept[k] \in Claims
  BY <1>2, SeqElements
<1>5. ASSUME NEW k \in DOMAIN kept
      PROVE  /\ Validate(ledger, d)[k] \in GoodClaims(ledger)
             /\ Validate(ledger, d)[k].id = kept[k].id
  <2>1. kept[k] \in Claims
    BY <1>4
  <2>2. \A link \in CheckedLinks(ledger, kept[k]) : link \in Links /\ Literal(ledger, link)
    BY <2>1, ValidLinkLiteral DEF CheckedLinks, Claims
  <2>3. PICK c : c = [kept[k] EXCEPT !.links = CheckedLinks(ledger, kept[k])]
    OBVIOUS
  <2>4. c \in Claims /\ c.links = CheckedLinks(ledger, kept[k]) /\ c.id = kept[k].id
    BY <2>1, <2>2, <2>3 DEF Claims
  <2> QED BY <1>3, <2>2, <2>3, <2>4 DEF GoodClaims
<1>6. Validate(ledger, d) \in [1..Len(kept) -> GoodClaims(ledger)]
  BY <1>3, <1>4, <1>5
<1>7. Validate(ledger, d) \in Seq(GoodClaims(ledger)) /\ DOMAIN Validate(ledger, d) = DOMAIN kept
  BY <1>4, <1>6, FunctionIsSeq
<1>8. UniqueIds(kept) => UniqueIds(Validate(ledger, d))
  BY <1>5, <1>7 DEF UniqueIds
<1> QED BY <1>2, <1>7, <1>8

-----------------------------------------------------------------------------
(* What is shown and what is stored.                                        *)

Names(claims) == {claims[k].id : k \in DOMAIN claims}

(* The claims a call has announced and those of its answer: the answer is   *)
(* made of the announced ones, which are literal and, if the draft names    *)
(* its claims apart, were judged.                                           *)
Shown(c) ==
  /\ pc[c] \notin {"attributed", "answered", "recording"} => streamed[c] = <<>>
  /\ pc[c] \notin {"answered", "recording"} => answer[c] = <<>>
  /\ pc[c] \in {"answered", "recording"} => answer[c] = streamed[c]
  /\ pc[c] = "attributed" => Finalize(Ledger(c), draft[c], Names(streamed[c])) = streamed[c]
  /\ UniqueIds(draft[c]) => ClaimsOf(streamed[c]) \subseteq judged[c]
  /\ streamed[c] \in Seq(GoodClaims(basis[c]))

ShownInv ==
  /\ streamed \in [Calls -> Seq(Claims)] /\ answer \in [Calls -> Seq(Claims)]
  /\ judged \in [Calls -> SUBSET Claims]
  /\ \A c \in Calls : Shown(c)

Messages == [role : {"user", "assistant"}, call : Calls, content : Seq(Claims), evidence : Seq(Claims)]

(* The call's question was stored; it may have been deleted since. *)
Past(c) == IF c \in Streamed THEN pc[c] \notin {"idle", "opened"} ELSE pc[c] \in {"recording", "completed"}

(* The messages of a session: of calls that ask in it, each once, an answer *)
(* when its call is over and, unless the session was deleted, after its     *)
(* question.                                                                *)
Told(s, list) ==
  /\ \A k \in DOMAIN list : session[list[k].call] = s
  /\ \A k \in DOMAIN list : list[k].role = "user" =>
       list[k] = Question(list[k].call) /\ Past(list[k].call)
  /\ \A k \in DOMAIN list : list[k].role = "assistant" =>
       pc[list[k].call] = "completed" /\ list[k].content = list[k].evidence
  /\ \A i, k \in DOMAIN list : list[i].role = list[k].role /\ list[i].call = list[k].call => i = k
  /\ s \in sessions => \A k \in DOMAIN list : list[k].role = "assistant" =>
       \E i \in 1..k - 1 : list[i] = Question(list[k].call)
  /\ s \in sessions => \A c \in Calls : session[c] = s /\ Past(c) =>
       \E k \in DOMAIN list : list[k] = Question(c)

TalkInv ==
  /\ messages \in [Sessions -> Seq(Messages)]
  /\ history \in [Calls -> Seq(Messages)] /\ \A c \in Calls : Len(history[c]) <= HistoryMax
  /\ \A s \in Sessions : Told(s, messages[s])

-----------------------------------------------------------------------------
(* Attribution.                                                             *)

LEMMA NamedPicked ==
  ASSUME NEW S, NEW claims \in Seq(S), NEW ids
  PROVE  /\ Named(claims, ids) \in Seq(S)
         /\ \A i \in DOMAIN Named(claims, ids) :
              \E p \in DOMAIN claims : claims[p].id \in ids /\ Named(claims, ids)[i] = claims[p]
         /\ \A p \in DOMAIN claims : claims[p].id \in ids =>
              \E i \in DOMAIN Named(claims, ids) : Named(claims, ids)[i] = claims[p]
<1>1. PICK P \in SUBSET (DOMAIN claims) : P = {k \in DOMAIN claims : claims[k].id \in ids}
  OBVIOUS
<1>2. Named(claims, ids) = Pick(claims, P)
  BY <1>1 DEF Named
<1>3. /\ Pick(claims, P) \in Seq(S)
      /\ \A i \in DOMAIN Pick(claims, P) : InOrder(P)[i] \in P /\ Pick(claims, P)[i] = claims[InOrder(P)[i]]
      /\ \A p \in P : \E i \in DOMAIN Pick(claims, P) : InOrder(P)[i] = p /\ Pick(claims, P)[i] = claims[p]
  BY Picked
<1>4. PICK named : named = Named(claims, ids)
  OBVIOUS
<1>5. \A i \in DOMAIN named : \E p \in P : named[i] = claims[p]
  BY <1>2, <1>3, <1>4
<1>6. \A p \in P : \E i \in DOMAIN named : named[i] = claims[p]
  BY <1>2, <1>3, <1>4
<1>7. named \in Seq(S)
  BY <1>2, <1>3, <1>4
<1> QED BY <1>1, <1>4, <1>5, <1>6, <1>7

(* Looking the announced claims up by their ids finds the announced claims. *)
LEMMA NamedAgain ==
  ASSUME NEW S, NEW claims \in Seq(S), NEW ids
  PROVE  Named(claims, Names(Named(claims, ids))) = Named(claims, ids)
<1>1. PICK named : named = Named(claims, ids)
  OBVIOUS
<1>2. /\ \A i \in DOMAIN named : \E p \in DOMAIN claims : claims[p].id \in ids /\ named[i] = claims[p]
      /\ \A p \in DOMAIN claims : claims[p].id \in ids => \E i \in DOMAIN named : named[i] = claims[p]
  BY <1>1, NamedPicked
<1>3. \A k \in DOMAIN claims : claims[k].id \in Names(named) <=> claims[k].id \in ids
  <2>1. \A k \in DOMAIN claims : claims[k].id \in ids => claims[k].id \in Names(named)
    BY <1>2 DEF Names
  <2>2. \A i \in DOMAIN named : named[i].id \in ids
    BY <1>2
  <2> QED BY <2>1, <2>2 DEF Names
<1>4. {k \in DOMAIN claims : claims[k].id \in Names(named)} = {k \in DOMAIN claims : claims[k].id \in ids}
  BY <1>3
<1> QED BY <1>1, <1>4 DEF Named

(* With ids of their own, the announced claims are those whose own verdict  *)
(* was SUPPORTED.                                                           *)
LEMMA NamedJudged ==
  ASSUME NEW S, NEW claims \in Seq(S), NEW verdicts, UniqueIds(claims)
  PROVE  ClaimsOf(Named(claims, SupportedIds(claims, verdicts)))
           \subseteq {claims[k] : k \in {i \in DOMAIN claims : verdicts[i] = Supported}}
<1>0. DOMAIN claims \subseteq Nat
  BY SeqElements
<1>1. ASSUME NEW k \in DOMAIN claims PROVE Outcome(claims, verdicts, k) = verdicts[k]
  <2> DEFINE last(i) == /\ claims[i].id = claims[k].id
                        /\ \A o \in DOMAIN claims : claims[o].id = claims[k].id => o <= i
  <2>1. last(k)
    BY <1>0, <1>1 DEF UniqueIds
  <2>2. \A i \in DOMAIN claims : last(i) => i = k
    BY <1>1 DEF UniqueIds
  <2>3. (CHOOSE i \in DOMAIN claims : last(i)) = k
    <3> HIDE DEF last
    <3> QED BY <1>1, <2>1, <2>2
  <2> QED BY <2>3 DEF Outcome
<1>2. \A p \in DOMAIN claims : claims[p].id \in SupportedIds(claims, verdicts) => verdicts[p] = Supported
  BY <1>1 DEF SupportedIds, UniqueIds
<1>3. PICK named : named = Named(claims, SupportedIds(claims, verdicts))
  OBVIOUS
<1>4. \A i \in DOMAIN named :
        \E p \in DOMAIN claims : claims[p].id \in SupportedIds(claims, verdicts) /\ named[i] = claims[p]
  BY <1>3, NamedPicked
<1> QED BY <1>2, <1>3, <1>4 DEF ClaimsOf

LEMMA Nothing ==
  /\ \A S : <<>> \in Seq(S)
  /\ <<>> \in Seq(Claims) /\ <<>> \in Seq(Messages)
  /\ \A c \in Calls : <<>> \in Seq(GoodClaims(basis[c]))
  /\ DOMAIN <<>> = {} /\ ClaimsOf(<<>>) = {} /\ Len(<<>>) = 0
<1>1. \A S : <<>> \in Seq(S)
  OBVIOUS
<1>2. DOMAIN <<>> = {} /\ Len(<<>>) = 0
  OBVIOUS
<1> QED BY <1>1, <1>2 DEF ClaimsOf

(* A call whose own variables do not change. *)
LEMMA ShownSame ==
  ASSUME NEW d \in Calls, Shown(d), pc'[d] = pc[d], session'[d] = session[d], hits'[d] = hits[d],
         draft'[d] = draft[d], basis'[d] = basis[d], streamed'[d] = streamed[d],
         answer'[d] = answer[d], judged'[d] = judged[d]
  PROVE  Shown(d)'
<1>1. Ledger(d)' = Ledger(d)
  BY DEF Ledger
<1> QED BY <1>1 DEF Shown

(* A call that has announced nothing. *)
LEMMA ShownNothing ==
  ASSUME NEW d \in Calls, pc'[d] # "attributed", streamed'[d] = <<>>, answer'[d] = <<>>
  PROVE  Shown(d)'
<1>1. <<>> \in Seq(GoodClaims(basis[d]'))
  OBVIOUS
<1>2. Shown(d)' <=>
        /\ pc'[d] \in {"answered", "recording"} => answer'[d] = streamed'[d]
        /\ UniqueIds(draft'[d]) => ClaimsOf(streamed'[d]) \subseteq judged'[d]
        /\ streamed'[d] \in Seq(GoodClaims(basis[d]'))
  BY DEF Shown, UniqueIds
<1> QED BY <1>1, <1>2, Nothing

Others(c) ==
  \A d \in Calls \ {c} : /\ pc'[d] = pc[d] /\ session'[d] = session[d] /\ hits'[d] = hits[d]
                         /\ draft'[d] = draft[d] /\ basis'[d] = basis[d]
                         /\ streamed'[d] = streamed[d] /\ answer'[d] = answer[d]
                         /\ judged'[d] = judged[d]

(* A step that announces nothing, of a call that had announced nothing. *)
LEMMA EarlyShown ==
  ASSUME CallTypes, ShownInv, NEW c \in Calls, Others(c),
         pc[c] \notin {"attributed", "answered", "recording"}, pc'[c] # "attributed",
         UNCHANGED <<streamed, answer, judged>>
  PROVE  ShownInv'
<1>1. streamed[c] = <<>> /\ answer[c] = <<>>
  BY DEF ShownInv, Shown
<1>2. Shown(c)'
  BY <1>1, ShownNothing
<1>3. \A d \in Calls \ {c} : Shown(d)'
  BY ShownSame DEF ShownInv, Others
<1> QED BY <1>2, <1>3 DEF ShownInv

LEMMA LeaveShown ==
  ASSUME CallTypes, ShownInv, NEW c \in Calls, NEW from, NEW how \in Ended, Leave(c, from, how)
  PROVE  ShownInv'
<1>1. Others(c) /\ pc'[c] = how /\ how # "attributed"
  BY DEF Leave, Go, CallTypes, ShownInv, Others, Ended
<1>2. /\ streamed' \in [Calls -> Seq(Claims)] /\ streamed'[c] = <<>>
      /\ answer' \in [Calls -> Seq(Claims)] /\ answer'[c] = <<>>
  BY Nothing DEF Leave, ShownInv
<1>3. judged' \in [Calls -> SUBSET Claims]
  BY DEF Leave, ShownInv
<1>4. Shown(c)'
  BY <1>1, <1>2, ShownNothing
<1>5. \A d \in Calls \ {c} : Shown(d)'
  BY <1>1, ShownSame DEF ShownInv, Others
<1> QED BY <1>2, <1>3, <1>4, <1>5 DEF ShownInv

LEMMA AttributeShown ==
  ASSUME Inv, ShownInv, NEW c \in Calls, Attribute(c)
  PROVE  ShownInv'
<1>1. /\ pc[c] = "drafted" /\ pc' = [pc EXCEPT ![c] = "attributed"]
      /\ UNCHANGED <<session, hits, draft, answer, basis>>
  BY DEF Attribute, Go
<1> DEFINE claims == Validate(Ledger(c), draft[c])
<1>2. PICK verdicts \in [DOMAIN claims -> Verdicts] :
        /\ streamed' = [streamed EXCEPT ![c] = Named(claims, SupportedIds(claims, verdicts))]
        /\ judged' = [judged EXCEPT ![c] =
                        {claims[k] : k \in {i \in DOMAIN claims : verdicts[i] = Supported}}]
  BY DEF Attribute
<1> DEFINE named == Named(claims, SupportedIds(claims, verdicts))
           passed == {claims[k] : k \in {i \in DOMAIN claims : verdicts[i] = Supported}}
<1>3. /\ Ledger(c) \in SUBSET Evidences /\ basis[c] = Ledger(c)
  BY <1>1, KeyTyped DEF Inv, BasisInv, Drafted, Running, PC, Ended
<1>4. draft[c] \in Seq(Claims)
  BY DraftsAssumption, Nothing DEF Inv, CallTypes
<1>5. /\ claims \in Seq(GoodClaims(basis[c])) /\ (UniqueIds(draft[c]) => UniqueIds(claims))
  BY <1>3, <1>4, Validated
<1>6. /\ named \in Seq(GoodClaims(basis[c]))
      /\ Named(claims, Names(named)) = named
      /\ UniqueIds(claims) => ClaimsOf(named) \subseteq passed
  BY <1>5, NamedPicked, NamedAgain, NamedJudged
<1>7. Finalize(Ledger(c), draft[c], Names(named)) = named
  BY <1>6 DEF Finalize
<1>8. GoodClaims(basis[c]) \subseteq Claims
  BY DEF GoodClaims
<1>9. named \in Seq(Claims) /\ passed \subseteq Claims
  <2>1. named \in Seq(Claims)
    BY <1>6, <1>8, SeqGrows
  <2>2. claims \in Seq(Claims)
    BY <1>5, <1>8, SeqGrows
  <2> HIDE DEF claims
  <2> QED BY <2>1, <2>2
<1> HIDE DEF claims, named, passed
<1>10. /\ streamed' \in [Calls -> Seq(Claims)] /\ judged' \in [Calls -> SUBSET Claims]
       /\ streamed'[c] = named /\ judged'[c] = passed
  BY <1>2, <1>9 DEF ShownInv, named, passed
<1>11. Others(c) /\ pc'[c] = "attributed" /\ answer[c] = <<>>
  BY <1>1, <1>2 DEF Others, Inv, CallTypes, ShownInv, Shown
<1>12. Ledger(c)' = Ledger(c)
  BY <1>1 DEF Ledger
<1>13. Shown(c)'
  <2>1. UniqueIds(draft'[c]) => ClaimsOf(streamed'[c]) \subseteq judged'[c]
    BY <1>1, <1>5, <1>6, <1>10
  <2>2. streamed'[c] \in Seq(GoodClaims(basis'[c]))
    BY <1>1, <1>6, <1>10
  <2>3. Finalize(Ledger(c)', draft'[c], Names(streamed'[c])) = streamed'[c]
    BY <1>1, <1>7, <1>10, <1>12
  <2> QED BY <1>1, <1>11, <2>1, <2>2, <2>3 DEF Shown
<1>14. \A d \in Calls \ {c} : Shown(d)'
  BY <1>11, ShownSame DEF ShownInv, Others
<1> QED BY <1>1, <1>10, <1>13, <1>14 DEF ShownInv

LEMMA CompleteShown ==
  ASSUME Inv, ShownInv, NEW c \in Calls, Complete(c)
  PROVE  ShownInv'
<1>1. /\ pc[c] = "attributed" /\ pc' = [pc EXCEPT ![c] = "answered"]
      /\ UNCHANGED <<session, hits, draft, streamed, basis, judged>>
      /\ answer' = [answer EXCEPT ![c] = Finalize(Ledger(c), draft[c], Names(streamed[c]))]
  BY DEF Complete, Go, Names
<1>2. answer' = [answer EXCEPT ![c] = streamed[c]]
  BY <1>1 DEF ShownInv, Shown
<1>3. answer' \in [Calls -> Seq(Claims)] /\ answer'[c] = streamed[c]
  BY <1>2 DEF ShownInv
<1>4. Others(c) /\ pc'[c] = "answered"
  BY <1>1, <1>2 DEF Others, Inv, CallTypes, ShownInv
<1>5. Shown(c)'
  BY <1>1, <1>3, <1>4 DEF ShownInv, Shown
<1>6. \A d \in Calls \ {c} : Shown(d)'
  BY <1>4, ShownSame DEF ShownInv, Others
<1> QED BY <1>1, <1>3, <1>5, <1>6 DEF ShownInv

(* Towards the end of a call nothing is announced any more. *)
LEMMA LateShown ==
  ASSUME Inv, ShownInv, NEW c \in Calls, UNCHANGED local,
         Go(c, "retrieved", "answered") \/ Go(c, "answered", "recording")
  PROVE  ShownInv'
<1>1. Others(c) /\ pc'[c] \in {"answered", "recording"} /\ pc[c] \in {"retrieved", "answered"}
      /\ UNCHANGED <<session, hits, draft, streamed, answer, basis, judged>>
  BY DEF Others, Inv, CallTypes, Go, local
<1>2. answer[c] = streamed[c]
  BY <1>1 DEF ShownInv, Shown
<1>3. Shown(c)'
  BY <1>1, <1>2 DEF ShownInv, Shown
<1>4. \A d \in Calls \ {c} : Shown(d)'
  BY <1>1, ShownSame DEF ShownInv, Others
<1> QED BY <1>1, <1>3, <1>4 DEF ShownInv

LEMMA ShownKept ==
  ASSUME Inv, ShownInv, [Next]_vars
  PROVE  ShownInv'
<1>1. ASSUME UNCHANGED <<pc, local>> PROVE ShownInv'
  <2>1. \A d \in Calls : Shown(d)'
    BY <1>1, ShownSame DEF ShownInv, local
  <2> QED BY <1>1, <2>1 DEF ShownInv, local
<1>2. ASSUME NEW c \in Calls, NEW from, NEW how \in Ended, Leave(c, from, how) PROVE ShownInv'
  BY <1>2, LeaveShown DEF Inv
<1>3. ASSUME NEW c \in Calls, Step(c) \/ Disconnect(c) PROVE ShownInv'
  <2>1. CASE Attribute(c)
    BY <2>1, AttributeShown
  <2>2. CASE Complete(c)
    BY <2>2, CompleteShown
  <2>3. CASE AnswerInsufficient(c) \/ (AppendQuestion(c) /\ Go(c, "answered", "recording"))
    <3>1. UNCHANGED local /\ (Go(c, "retrieved", "answered") \/ Go(c, "answered", "recording"))
      BY <2>3 DEF AnswerInsufficient, AppendQuestion
    <3> QED BY <3>1, LateShown
  <2>4. CASE \/ VersionMissing(c) \/ DraftFails(c) \/ AppendAnswer(c) \/ Disconnect(c)
    <3>1. PICK from \in {"opened", "asked", "drafting", "answered", "recording", "retrieved",
                         "drafted", "attributed"}, how \in Ended : Leave(c, from, how)
      BY <2>4 DEF VersionMissing, DraftFails, AppendAnswer, Disconnect, Ended
    <3> QED BY <1>2, <3>1
  <2>5. ASSUME Others(c), pc[c] \notin {"attributed", "answered", "recording"}, pc'[c] # "attributed",
               UNCHANGED <<streamed, answer, judged>>
        PROVE  ShownInv'
    BY <2>5, EarlyShown DEF Inv
  <2>6. CASE Open(c)
    BY <2>5, <2>6 DEF Open, Go, Others, Inv, CallTypes
  <2>7. CASE Retrieve(c)
    BY <2>5, <2>7 DEF Retrieve, Go, Others, Inv, CallTypes
  <2>8. CASE CacheGet(c)
    BY <2>5, <2>8 DEF CacheGet, Go, Others, Inv, CallTypes
  <2>9. CASE DraftAnswer(c)
    BY <2>5, <2>9 DEF DraftAnswer, Go, Others, Inv, CallTypes
  <2>10. CASE CachePut(c) \/ CacheTrim(c) \/ (AppendQuestion(c) /\ Go(c, "opened", "asked"))
    BY <2>5, <2>10 DEF CachePut, CacheTrim, AppendQuestion, Go, local, Others, Inv, CallTypes
  <2>11. CASE CacheTouch(c) \/ CacheMove(c)
    <3>1. \E from \in {"touching", "moving"}, to \in {"drafted", "trimming"} :
            Leave(c, from, "failed") \/ (Go(c, from, to) /\ UNCHANGED local)
      BY <2>11 DEF CacheTouch, CacheMove, MoveToEnd
    <3>2. ASSUME NEW from \in {"touching", "moving"}, NEW to \in {"drafted", "trimming"},
                 Go(c, from, to), UNCHANGED local
          PROVE  ShownInv'
      BY <2>5, <3>2 DEF Go, local, Others, Inv, CallTypes
    <3>3. "failed" \in Ended
      BY DEF Ended
    <3> QED BY <1>2, <3>1, <3>2, <3>3
  <2>12. AppendQuestion(c) => Go(c, "opened", "asked") \/ Go(c, "answered", "recording")
    BY DEF AppendQuestion
  <2> QED BY <1>3, <2>1, <2>2, <2>3, <2>4, <2>6, <2>7, <2>8, <2>9, <2>10, <2>11, <2>12 DEF Step
<1>4. ASSUME NEW s \in Sessions, DeleteSession(s) PROVE UNCHANGED <<pc, local>>
  BY <1>4 DEF DeleteSession
<1>5. CASE UNCHANGED vars
  BY <1>1, <1>5 DEF vars
<1> QED BY <1>1, <1>3, <1>4, <1>5 DEF Next

-----------------------------------------------------------------------------
(* Messages.                                                                *)

(* A call that stores nothing keeps what the messages say of it. *)
Still(c) ==
  \/ /\ session'[c] = session[c] /\ (Past(c)' <=> Past(c))
     /\ pc[c] = "completed" => pc'[c] = "completed"
  \/ ~Past(c) /\ ~Past(c)' /\ pc[c] # "completed"

LEMMA MessageFields ==
  \A m \in Messages : m.role \in {"user", "assistant"} /\ m.call \in Calls
  BY DEF Messages

LEMMA StillTold ==
  ASSUME NEW s \in Sessions, NEW list \in Seq(Messages), Told(s, list),
         \A c \in Calls : session[c] = s \/ session'[c] = s => Still(c),
         s \in sessions' => s \in sessions
  PROVE  Told(s, list)'
<1>1. \A k \in DOMAIN list : list[k] \in Messages /\ list[k].call \in Calls
  BY SeqElements, MessageFields
<1>2. ASSUME NEW k \in DOMAIN list
      PROVE  /\ session'[list[k].call] = s
             /\ list[k].role = "user" => list[k] = Question(list[k].call) /\ Past(list[k].call)'
             /\ list[k].role = "assistant" =>
                  pc'[list[k].call] = "completed" /\ list[k].content = list[k].evidence
  <2>1. PICK c \in Calls : c = list[k].call
    BY <1>1
  <2>2. list[k].role \in {"user", "assistant"}
    BY <1>1 DEF Messages
  <2>3. Past(c) \/ pc[c] = "completed"
    BY <2>1, <2>2 DEF Told
  <2>4. /\ session'[c] = session[c] /\ (Past(c) => Past(c)')
        /\ pc[c] = "completed" => pc'[c] = "completed"
    BY <2>1, <2>3 DEF Still, Told
  <2> QED BY <2>1, <2>4 DEF Told
<1>3. ASSUME s \in sessions', NEW c \in Calls, session'[c] = s, Past(c)'
      PROVE  \E k \in DOMAIN list : list[k] = Question(c)
  <2>1. session[c] = s /\ Past(c)
    BY <1>3 DEF Still
  <2> QED BY <1>3, <2>1 DEF Told
<1>4. /\ \A i, k \in DOMAIN list : list[i].role = list[k].role /\ list[i].call = list[k].call => i = k
      /\ s \in sessions' => \A k \in DOMAIN list : list[k].role = "assistant" =>
           \E i \in 1..k - 1 : list[i] = Question(list[k].call)
  BY DEF Told
<1> QED BY <1>2, <1>3, <1>4 DEF Told

(* What a call that appends does to its session's list. *)
LEMMA Extended ==
  ASSUME NEW list \in Seq(Messages), NEW m \in Messages
  PROVE  /\ Append(list, m) \in Seq(Messages)
         /\ DOMAIN Append(list, m) = DOMAIN list \cup {Len(list) + 1}
         /\ Append(list, m)[Len(list) + 1] = m
         /\ \A k \in DOMAIN list : Append(list, m)[k] = list[k]
         /\ Len(list) \in Nat /\ DOMAIN list = 1..Len(list) /\ Len(list) + 1 \notin DOMAIN list
<1>1. DOMAIN list = 1..Len(list) /\ Len(list) \in Nat
  BY SeqElements
<1>2. /\ Append(list, m) \in Seq(Messages) /\ Len(Append(list, m)) = Len(list) + 1
      /\ Append(list, m)[Len(list) + 1] = m
      /\ \A k \in 1..Len(list) : Append(list, m)[k] = list[k]
  BY AppendProperties
<1>3. DOMAIN Append(list, m) = 1..Len(list) + 1
  BY <1>2, SeqElements
<1> QED BY <1>1, <1>2, <1>3

LEMMA QuestionTold ==
  ASSUME NEW list \in Seq(Messages), NEW c \in Calls, NEW s \in Sessions, Told(s, list),
         session[c] = s, ~Past(c), Past(c)', session' = session,
         pc[c] # "completed", \A d \in Calls \ {c} : Still(d), UNCHANGED sessions
  PROVE  Told(s, Append(list, Question(c)))' /\ Append(list, Question(c)) \in Seq(Messages)
<1>0. PICK m : m = Question(c)
  OBVIOUS
<1>1. m \in Messages /\ m.role = "user" /\ m.call = c
  BY <1>0, Nothing DEF Question, Message, Messages
<1>2. PICK new : new = Append(list, m)
  OBVIOUS
<1> DEFINE n == Len(list)
<1>3. /\ new \in Seq(Messages) /\ DOMAIN new = DOMAIN list \cup {n + 1} /\ new[n + 1] = m
      /\ \A k \in DOMAIN list : new[k] = list[k]
      /\ n \in Nat /\ DOMAIN list = 1..n /\ n + 1 \notin DOMAIN list
  BY <1>1, <1>2, Extended
<1> HIDE DEF n
<1>4. \A k \in DOMAIN list : list[k] \in Messages /\ list[k].call \in Calls
                             /\ list[k].role \in {"user", "assistant"}
  BY SeqElements, MessageFields
<1>5. \A k \in DOMAIN list : list[k].call # c
  BY <1>4 DEF Told
<1>6. ASSUME NEW k \in DOMAIN list
      PROVE  /\ session'[list[k].call] = s
             /\ list[k].role = "user" => list[k] = Question(list[k].call) /\ Past(list[k].call)'
             /\ list[k].role = "assistant" =>
                  pc'[list[k].call] = "completed" /\ list[k].content = list[k].evidence
  <2>1. PICK d \in Calls \ {c} : d = list[k].call
    BY <1>4, <1>5
  <2>2. Past(d) \/ pc[d] = "completed"
    BY <1>4, <2>1 DEF Told
  <2>3. (Past(d) => Past(d)') /\ (pc[d] = "completed" => pc'[d] = "completed")
    BY <2>2 DEF Still
  <2> QED BY <2>1, <2>3 DEF Told
<1>7. ASSUME NEW k \in DOMAIN new
      PROVE  /\ session'[new[k].call] = s
             /\ new[k].role = "user" => new[k] = Question(new[k].call) /\ Past(new[k].call)'
             /\ new[k].role = "assistant" =>
                  pc'[new[k].call] = "completed" /\ new[k].content = new[k].evidence
  <2>1. CASE k \in DOMAIN list
    BY <1>3, <1>6, <2>1
  <2>2. CASE k = n + 1
    BY <1>0, <1>1, <1>3, <2>2
  <2> QED BY <1>3, <2>1, <2>2
<1>8. ASSUME NEW i \in DOMAIN new, NEW k \in DOMAIN new,
             new[i].role = new[k].role, new[i].call = new[k].call
      PROVE  i = k
  <2>1. CASE i \in DOMAIN list /\ k \in DOMAIN list
    BY <1>3, <1>8, <2>1 DEF Told
  <2>2. CASE i = n + 1 \/ k = n + 1
    BY <1>1, <1>3, <1>5, <1>8, <2>2
  <2> QED BY <1>3, <2>1, <2>2
<1>9. ASSUME s \in sessions, NEW k \in DOMAIN new, new[k].role = "assistant"
      PROVE  \E i \in 1..k - 1 : new[i] = Question(new[k].call)
  <2>1. k \in DOMAIN list /\ new[k] = list[k]
    BY <1>1, <1>3, <1>9
  <2>2. PICK i \in 1..k - 1 : list[i] = Question(list[k].call)
    BY <1>9, <2>1 DEF Told
  <2>3. i \in DOMAIN list
    BY <1>3, <2>1, <2>2
  <2> QED BY <1>3, <2>1, <2>2, <2>3
<1>10. ASSUME s \in sessions, NEW d \in Calls, session'[d] = s, Past(d)'
       PROVE  \E k \in DOMAIN new : new[k] = Question(d)
  <2>1. CASE d = c
    BY <1>0, <1>3, <2>1
  <2>2. CASE d # c
    <3>1. session[d] = s /\ Past(d)
      BY <1>10, <2>2 DEF Still
    <3>2. PICK k \in DOMAIN list : list[k] = Question(d)
      BY <1>10, <3>1 DEF Told
    <3> QED BY <1>3, <3>2
  <2> QED BY <2>1, <2>2
<1>11. Told(s, new)'
  BY <1>7, <1>8, <1>9, <1>10 DEF Told
<1> QED BY <1>0, <1>2, <1>3, <1>11

LEMMA AnswerTold ==
  ASSUME NEW list \in Seq(Messages), NEW c \in Calls, NEW s \in Sessions, Told(s, list),
         NEW claims \in Seq(Claims),
         session[c] = s, Past(c), Past(c)', session' = session,
         pc[c] # "completed", pc'[c] = "completed", \A d \in Calls \ {c} : Still(d), UNCHANGED sessions
  PROVE  /\ Told(s, Append(list, Message("assistant", c, claims, claims)))'
         /\ Append(list, Message("assistant", c, claims, claims)) \in Seq(Messages)
<1>0. PICK m : m = Message("assistant", c, claims, claims)
  OBVIOUS
<1>1. /\ m \in Messages /\ m.role = "assistant" /\ m.call = c /\ m.content = claims
      /\ m.evidence = claims
  BY <1>0 DEF Message, Messages
<1>2. PICK new : new = Append(list, m)
  OBVIOUS
<1> DEFINE n == Len(list)
<1>3. /\ new \in Seq(Messages) /\ DOMAIN new = DOMAIN list \cup {n + 1} /\ new[n + 1] = m
      /\ \A k \in DOMAIN list : new[k] = list[k]
      /\ n \in Nat /\ DOMAIN list = 1..n /\ n + 1 \notin DOMAIN list
  BY <1>1, <1>2, Extended
<1> HIDE DEF n
<1>4. \A k \in DOMAIN list : list[k] \in Messages /\ list[k].call \in Calls
                             /\ list[k].role \in {"user", "assistant"}
  BY SeqElements, MessageFields
<1>5. \A k \in DOMAIN list : list[k].role = "assistant" => list[k].call # c
  BY <1>4 DEF Told
<1>6. ASSUME NEW k \in DOMAIN list
      PROVE  /\ session'[list[k].call] = s
             /\ list[k].role = "user" => list[k] = Question(list[k].call) /\ Past(list[k].call)'
             /\ list[k].role = "assistant" =>
                  pc'[list[k].call] = "completed" /\ list[k].content = list[k].evidence
  <2>1. PICK d \in Calls : d = list[k].call
    BY <1>4
  <2>2. Past(d) \/ pc[d] = "completed"
    BY <1>4, <2>1 DEF Told
  <2>3. (Past(d) => Past(d)') /\ (pc[d] = "completed" => pc'[d] = "completed")
    BY <2>2 DEF Still
  <2> QED BY <2>1, <2>3 DEF Told
<1>7. ASSUME NEW k \in DOMAIN new
      PROVE  /\ session'[new[k].call] = s
             /\ new[k].role = "user" => new[k] = Question(new[k].call) /\ Past(new[k].call)'
             /\ new[k].role = "assistant" =>
                  pc'[new[k].call] = "completed" /\ new[k].content = new[k].evidence
  <2>1. CASE k \in DOMAIN list
    BY <1>3, <1>6, <2>1
  <2>2. CASE k = n + 1
    BY <1>1, <1>3, <2>2
  <2> QED BY <1>3, <2>1, <2>2
<1>8. ASSUME NEW i \in DOMAIN new, NEW k \in DOMAIN new,
             new[i].role = new[k].role, new[i].call = new[k].call
      PROVE  i = k
  <2>1. CASE i \in DOMAIN list /\ k \in DOMAIN list
    BY <1>3, <1>8, <2>1 DEF Told
  <2>2. CASE i = n + 1 \/ k = n + 1
    BY <1>1, <1>3, <1>5, <1>8, <2>2
  <2> QED BY <1>3, <2>1, <2>2
<1>9. ASSUME s \in sessions, NEW k \in DOMAIN new, new[k].role = "assistant"
      PROVE  \E i \in 1..k - 1 : new[i] = Question(new[k].call)
  <2>1. CASE k \in DOMAIN list
    <3>1. new[k] = list[k]
      BY <1>3, <2>1
    <3>2. PICK i \in 1..k - 1 : list[i] = Question(list[k].call)
      BY <1>9, <2>1, <3>1 DEF Told
    <3>3. i \in DOMAIN list
      BY <1>3, <2>1, <3>2
    <3> QED BY <1>3, <3>1, <3>2, <3>3
  <2>2. CASE k = n + 1
    <3>1. PICK i \in DOMAIN list : list[i] = Question(c)
      BY <1>9 DEF Told
    <3>2. i \in 1..k - 1 /\ new[i] = Question(new[k].call)
      BY <1>1, <1>3, <2>2, <3>1
    <3> QED BY <3>2
  <2> QED BY <1>3, <2>1, <2>2
<1>10. ASSUME s \in sessions, NEW d \in Calls, session'[d] = s, Past(d)'
       PROVE  \E k \in DOMAIN new : new[k] = Question(d)
  <2>1. session[d] = s /\ Past(d)
    BY <1>10 DEF Still
  <2>2. PICK k \in DOMAIN list : list[k] = Question(d)
    BY <1>10, <2>1 DEF Told
  <2> QED BY <1>3, <2>2
<1>11. Told(s, new)'
  BY <1>7, <1>8, <1>9, <1>10 DEF Told
<1> QED BY <1>0, <1>2, <1>3, <1>11

(* The history that a call reads back. *)
LEMMA LastOfShort ==
  ASSUME NEW S, NEW list \in Seq(S), NEW n \in Nat
  PROVE  LastOf(list, n) \in Seq(S) /\ Len(LastOf(list, n)) <= n
<1>1. Len(list) \in Nat
  BY SeqElements
<1> DEFINE first == IF Len(list) > n THEN Len(list) - n + 1 ELSE 1
<1>2. first \in 1..Len(list) + 1 /\ Len(list) - first + 1 <= n
  BY <1>1
<1> HIDE DEF first
<1>3. SubSeq(list, first, Len(list)) \in Seq(S)
      /\ Len(SubSeq(list, first, Len(list))) = Len(list) - first + 1
  BY <1>1, <1>2
<1> QED BY <1>2, <1>3 DEF LastOf, first

LEMMA HistoryKept ==
  ASSUME Inv, TalkInv, [Next]_vars
  PROVE  history' \in [Calls -> Seq(Messages)] /\ \A c \in Calls : Len(history'[c]) <= HistoryMax
<1>1. /\ history \in [Calls -> Seq(Messages)] /\ \A c \in Calls : Len(history[c]) <= HistoryMax
      /\ <<>> \in Seq(Messages) /\ Len(<<>>) = 0 /\ HistoryMax \in Nat
  BY Nothing, BoundsAssumption DEF TalkInv
<1>2. ASSUME NEW c \in Calls, session'[c] \in Sessions, ReadHistory(c)
      PROVE  /\ history' \in [Calls -> Seq(Messages)]
             /\ \A d \in Calls : Len(history'[d]) <= HistoryMax
  <2>1. messages[session'[c]] \in Seq(Messages)
    BY <1>2 DEF TalkInv
  <2>2. PICK list \in Seq(Messages) : list = LastOf(messages[session'[c]], HistoryMax)
                                      /\ Len(list) <= HistoryMax
    BY <1>1, <2>1, LastOfShort
  <2>3. history' = [history EXCEPT ![c] = list]
    BY <1>2, <2>2 DEF ReadHistory
  <2> QED BY <1>1, <2>2, <2>3
<1>3. ASSUME NEW c \in Calls, NEW from, NEW how, Leave(c, from, how)
      PROVE  /\ history' \in [Calls -> Seq(Messages)]
             /\ \A d \in Calls : Len(history'[d]) <= HistoryMax
  <2>1. history' = [history EXCEPT ![c] = <<>>]
    BY <1>3 DEF Leave
  <2> QED BY <1>1, <2>1
<1>4. ASSUME NEW c \in Calls, Open(c)
      PROVE  UNCHANGED history \/ (session'[c] \in Sessions /\ ReadHistory(c))
  <2>1. \E s \in Sessions : session' = [session EXCEPT ![c] = s]
    BY <1>4 DEF Open, Inv, SharedInv
  <2>2. session'[c] \in Sessions
    BY <2>1 DEF Inv, CallTypes
  <2> QED BY <1>4, <2>2 DEF Open
<1>5. ASSUME NEW c \in Calls, Retrieve(c)
      PROVE  UNCHANGED history \/ (session'[c] \in Sessions /\ ReadHistory(c))
  <2>1. pc[c] \in {"asked", "opened"} /\ session' = session
    BY <1>5 DEF Retrieve, Go
  <2>2. session'[c] \in Sessions
    BY <2>1 DEF Inv, CallTypes, Ended
  <2> QED BY <1>5, <2>2 DEF Retrieve
<1>6. ASSUME NEW c \in Calls,
             \/ AppendQuestion(c) \/ AnswerInsufficient(c) \/ CacheGet(c) \/ DraftAnswer(c)
             \/ CachePut(c) \/ CacheTrim(c) \/ Attribute(c) \/ Complete(c)
      PROVE  UNCHANGED history
  BY <1>6 DEF AppendQuestion, AnswerInsufficient, CacheGet, DraftAnswer, CachePut, CacheTrim,
              Attribute, Complete, local
<1>7. ASSUME NEW c \in Calls, CacheTouch(c) \/ CacheMove(c)
      PROVE  UNCHANGED history \/ \E from : Leave(c, from, "failed")
  BY <1>7 DEF CacheTouch, CacheMove, MoveToEnd, local
<1>8. ASSUME NEW c \in Calls, VersionMissing(c) \/ DraftFails(c) \/ AppendAnswer(c) \/ Disconnect(c)
      PROVE  \E from, how : Leave(c, from, how)
  <2>1. PICK from \in {"opened", "asked", "drafting", "answered", "recording", "retrieved",
                       "drafted", "attributed"}, how \in Ended : Leave(c, from, how)
    BY <1>8 DEF VersionMissing, DraftFails, AppendAnswer, Disconnect, Ended
  <2> QED BY <2>1
<1>9. ASSUME UNCHANGED history
      PROVE  /\ history' \in [Calls -> Seq(Messages)]
             /\ \A d \in Calls : Len(history'[d]) <= HistoryMax
  BY <1>1, <1>9
<1>10. ASSUME NEW s \in Sessions, DeleteSession(s) PROVE UNCHANGED history
  BY <1>10 DEF DeleteSession, local
<1>11. UNCHANGED vars => UNCHANGED history
  BY DEF vars, local
<1> DEFINE Short == /\ history' \in [Calls -> Seq(Messages)]
                    /\ \A d \in Calls : Len(history'[d]) <= HistoryMax
<1>12. /\ \A c \in Calls : Step(c) \/ Disconnect(c) => Short
       /\ \A s \in Sessions : DeleteSession(s) => Short
       /\ UNCHANGED vars => Short
  <2>1. /\ \A c \in Calls : session'[c] \in Sessions /\ ReadHistory(c) => Short
        /\ \A c \in Calls : \A from, how : Leave(c, from, how) => Short
        /\ UNCHANGED history => Short
    BY <1>2, <1>3, <1>9
  <2> HIDE DEF Short
  <2>2. \A s \in Sessions : DeleteSession(s) => Short
    BY <1>10, <2>1
  <2>3. ASSUME NEW c \in Calls, Step(c) \/ Disconnect(c) PROVE Short
    BY <1>4, <1>5, <1>6, <1>7, <1>8, <2>1, <2>3 DEF Step
  <2> QED BY <1>11, <2>1, <2>2, <2>3
<1>13. Short
  <2> HIDE DEF Short
  <2> QED BY <1>12 DEF Next
<1> QED BY <1>13

(* All the steps but three store nothing. *)
LEMMA Stills ==
  ASSUME Inv, NEW c \in Calls, Step(c) \/ Disconnect(c)
  PROVE  /\ UNCHANGED sessions
         /\ \A d \in Calls \ {c} : Still(d)
         /\ \/ AppendQuestion(c) \/ AppendAnswer(c)
            \/ UNCHANGED messages /\ Still(c)
<1>1. pc \in [Calls -> PC] /\ session \in [Calls -> Sessions \cup {NoSession}]
  BY DEF Inv, CallTypes
<1>2. ASSUME NEW from, NEW to, Go(c, from, to), UNCHANGED session, from # "completed",
             c \in Streamed => (from \in {"idle", "opened"} <=> to \in {"idle", "opened"}),
             c \notin Streamed => (from \in {"recording", "completed"} <=> to \in {"recording", "completed"})
      PROVE  Still(c)
  BY <1>1, <1>2 DEF Go, Still, Past
<1>3. ASSUME NEW from, NEW how \in {"failed", "dropped"}, Leave(c, from, how),
             from \in {"asked", "opened", "retrieved", "touching", "drafting", "moving",
                       "drafted", "attributed"},
             c \in Streamed => from # "opened"
      PROVE  Still(c)
  <2>1. Go(c, from, how) /\ UNCHANGED session
    BY <1>3 DEF Leave
  <2> QED BY <1>2, <1>3, <2>1
<1>4. UNCHANGED sessions /\ (AppendQuestion(c) \/ AppendAnswer(c) \/ UNCHANGED messages)
  BY DEF Step, Disconnect, Open, AppendQuestion, VersionMissing, Retrieve, AnswerInsufficient,
         CacheGet, CacheTouch, CacheMove, MoveToEnd, DraftAnswer, DraftFails, CachePut, CacheTrim,
         Attribute, Complete, AppendAnswer, stored
<1>5. \A d \in Calls \ {c} : pc'[d] = pc[d] /\ session'[d] = session[d]
  <2>1. ASSUME NEW from, NEW to, Go(c, from, to) PROVE \A d \in Calls \ {c} : pc'[d] = pc[d]
    BY <1>1, <2>1 DEF Go
  <2>2. ASSUME NEW from, NEW how, Leave(c, from, how)
        PROVE  UNCHANGED session /\ \A d \in Calls \ {c} : pc'[d] = pc[d]
    BY <2>1, <2>2 DEF Leave
  <2>3. CASE Open(c)
    BY <1>1, <2>1, <2>3 DEF Open
  <2>4. CASE AppendQuestion(c) \/ Retrieve(c) \/ AnswerInsufficient(c) \/ CacheGet(c)
             \/ DraftAnswer(c) \/ CachePut(c) \/ CacheTrim(c) \/ Attribute(c) \/ Complete(c)
    BY <1>1, <2>1, <2>4 DEF AppendQuestion, Retrieve, AnswerInsufficient, CacheGet, DraftAnswer,
       CachePut, CacheTrim, Attribute, Complete, local
  <2>5. CASE CacheTouch(c) \/ CacheMove(c)
    BY <1>1, <2>1, <2>2, <2>5 DEF CacheTouch, CacheMove, MoveToEnd, local
  <2>6. CASE VersionMissing(c) \/ DraftFails(c) \/ AppendAnswer(c) \/ Disconnect(c)
    <3>1. \E from, how : Leave(c, from, how)
      BY <2>6 DEF VersionMissing, DraftFails, AppendAnswer, Disconnect
    <3> QED BY <2>2, <3>1
  <2> QED BY <2>3, <2>4, <2>5, <2>6 DEF Step
<1>6. \A d \in Calls \ {c} : Still(d)
  BY <1>5 DEF Still, Past
<1>7. ASSUME ~AppendQuestion(c), ~AppendAnswer(c) PROVE Still(c)
  <2>1. CASE Open(c)
    BY <1>1, <2>1 DEF Open, Go, Still, Past
  <2>2. CASE Retrieve(c)
    BY <1>2, <2>2 DEF Retrieve
  <2>3. CASE AnswerInsufficient(c) \/ CachePut(c) \/ CacheTrim(c)
    BY <1>2, <2>3 DEF AnswerInsufficient, CachePut, CacheTrim, local
  <2>4. CASE CacheGet(c) \/ DraftAnswer(c) \/ Attribute(c) \/ Complete(c)
    BY <1>2, <2>4 DEF CacheGet, DraftAnswer, Attribute, Complete
  <2>5. CASE CacheTouch(c) \/ CacheMove(c)
    <3>1. PICK from \in {"touching", "moving"}, to \in {"drafted", "trimming"} :
            Leave(c, from, "failed") \/ (Go(c, from, to) /\ UNCHANGED local)
      BY <2>5 DEF CacheTouch, CacheMove, MoveToEnd
    <3>2. UNCHANGED local => UNCHANGED session
      BY DEF local
    <3> QED BY <1>2, <1>3, <3>1, <3>2
  <2>6. CASE VersionMissing(c) \/ DraftFails(c) \/ Disconnect(c)
    <3>1. PICK from \in {"asked", "opened", "retrieved", "touching", "drafting", "moving",
                        "drafted", "attributed"}, how \in {"failed", "dropped"} :
            Leave(c, from, how) /\ (c \in Streamed => from # "opened")
      BY <2>6 DEF VersionMissing, DraftFails, Disconnect
    <3> QED BY <1>3, <3>1
  <2> QED BY <1>7, <2>1, <2>2, <2>3, <2>4, <2>5, <2>6 DEF Step
<1> QED BY <1>4, <1>6, <1>7

(* A call that stores a message leaves the other sessions as they are. *)
LEMMA Stored ==
  ASSUME TalkInv, NEW c \in Calls, NEW s \in Sessions, session[c] = s,
         NEW list \in Seq(Messages), messages' = [messages EXCEPT ![s] = list], Told(s, list)',
         UNCHANGED <<session, sessions>>, \A d \in Calls \ {c} : Still(d)
  PROVE  messages' \in [Sessions -> Seq(Messages)] /\ \A o \in Sessions : Told(o, messages[o])'
<1>1. /\ messages \in [Sessions -> Seq(Messages)] /\ messages' \in [Sessions -> Seq(Messages)]
      /\ messages'[s] = list
  BY DEF TalkInv
<1>2. Told(s, messages[s])'
  <2>1. PICK told : told = messages'[s]
    OBVIOUS
  <2> QED BY <1>1, <2>1
<1>3. ASSUME NEW o \in Sessions \ {s} PROVE Told(o, messages[o])'
  <2>1. PICK told : told = messages[o]
    OBVIOUS
  <2>2. Told(o, told) /\ told \in Seq(Messages) /\ told = messages'[o]
    BY <1>1, <2>1 DEF TalkInv
  <2>3. \A d \in Calls : session[d] = o \/ session'[d] = o => Still(d)
    BY <1>3
  <2>4. Told(o, told)'
    BY <2>2, <2>3, StillTold
  <2> QED BY <2>2, <2>4
<1> QED BY <1>1, <1>2, <1>3

LEMMA QuestionStored ==
  ASSUME Inv, TalkInv, NEW c \in Calls, AppendQuestion(c), \A d \in Calls \ {c} : Still(d)
  PROVE  messages' \in [Sessions -> Seq(Messages)] /\ \A o \in Sessions : Told(o, messages[o])'
<1>1. /\ UNCHANGED <<session, sessions>> /\ session[c] \in Sessions
      /\ ~Past(c) /\ Past(c)' /\ pc[c] # "completed"
  BY DEF AppendQuestion, local, Go, Inv, CallTypes, Past, Ended
<1>2. PICK s \in Sessions : s = session[c]
  BY <1>1
<1>3. PICK list : list = messages[s]
  OBVIOUS
<1>4. list \in Seq(Messages) /\ Told(s, list)
  BY <1>3 DEF TalkInv
<1>5. PICK new : new = Append(list, Question(c))
  OBVIOUS
<1>6. Told(s, Append(list, Question(c)))' /\ new \in Seq(Messages)
  BY <1>1, <1>2, <1>4, <1>5, QuestionTold
<1>7. messages' = [messages EXCEPT ![s] = new]
  BY <1>2, <1>3, <1>5 DEF AppendQuestion, Store, TalkInv
<1>8. Append(list, Question(c))' = new
  BY <1>5 DEF Question, Message
<1>9. Told(s, new)'
  BY <1>6, <1>8
<1> QED BY <1>1, <1>2, <1>6, <1>7, <1>9, Stored

LEMMA AnswerStored ==
  ASSUME Inv, ShownInv, TalkInv, NEW c \in Calls, AppendAnswer(c), \A d \in Calls \ {c} : Still(d)
  PROVE  messages' \in [Sessions -> Seq(Messages)] /\ \A o \in Sessions : Told(o, messages[o])'
<1>1. /\ UNCHANGED <<session, sessions>> /\ session[c] \in Sessions
      /\ Past(c) /\ Past(c)' /\ pc[c] \in {"answered", "recording"} /\ pc'[c] = "completed"
  BY DEF AppendAnswer, Leave, Go, Inv, CallTypes, Past, Ended
<1>2. PICK s \in Sessions : s = session[c]
  BY <1>1
<1>3. PICK claims : claims = streamed[c]
  OBVIOUS
<1>4. claims \in Seq(Claims) /\ answer[c] = claims
  BY <1>1, <1>3 DEF ShownInv, Shown
<1>5. PICK list : list = messages[s]
  OBVIOUS
<1>6. list \in Seq(Messages) /\ Told(s, list)
  BY <1>5 DEF TalkInv
<1>7. PICK new : new = Append(list, Message("assistant", c, claims, claims))
  OBVIOUS
<1>8. Told(s, Append(list, Message("assistant", c, claims, claims)))' /\ new \in Seq(Messages)
  BY <1>1, <1>2, <1>4, <1>6, <1>7, AnswerTold
<1>9. messages' = [messages EXCEPT ![s] = new]
  BY <1>2, <1>3, <1>4, <1>5, <1>7 DEF AppendAnswer, Store, TalkInv
<1>10. Told(s, new)'
  BY <1>7, <1>8
<1> QED BY <1>1, <1>2, <1>8, <1>9, <1>10, Stored

LEMMA DeletionTold ==
  ASSUME TalkInv, NEW s \in Sessions, DeleteSession(s)
  PROVE  messages' \in [Sessions -> Seq(Messages)] /\ \A o \in Sessions : Told(o, messages[o])'
<1>1. /\ messages' = [messages EXCEPT ![s] = <<>>] /\ sessions' = sessions \ {s}
      /\ UNCHANGED <<pc, session>>
  BY DEF DeleteSession, local
<1>2. /\ messages \in [Sessions -> Seq(Messages)] /\ messages' \in [Sessions -> Seq(Messages)]
      /\ messages'[s] = <<>>
  BY <1>1, Nothing DEF TalkInv
<1>3. \A c \in Calls : Still(c)
  BY <1>1 DEF Still, Past
<1>4. Told(s, messages[s])'
  <2>1. PICK told : told = messages'[s]
    OBVIOUS
  <2>2. told = <<>> /\ s \notin sessions'
    BY <1>1, <1>2, <2>1
  <2>3. Told(s, told)'
    BY <2>2, Nothing DEF Told
  <2> QED BY <2>1, <2>3
<1>5. ASSUME NEW o \in Sessions \ {s} PROVE Told(o, messages[o])'
  <2>1. PICK told : told = messages[o]
    OBVIOUS
  <2>2. Told(o, told) /\ told \in Seq(Messages) /\ told = messages'[o] /\ (o \in sessions' => o \in sessions)
    BY <1>1, <1>2, <2>1 DEF TalkInv
  <2>3. Told(o, told)'
    BY <1>3, <2>2, StillTold
  <2> QED BY <2>2, <2>3
<1> QED BY <1>2, <1>4, <1>5

LEMMA QuietTold ==
  ASSUME TalkInv, \A c \in Calls : Still(c), UNCHANGED <<sessions, messages>>
  PROVE  messages' \in [Sessions -> Seq(Messages)] /\ \A o \in Sessions : Told(o, messages[o])'
<1>1. ASSUME NEW o \in Sessions PROVE Told(o, messages[o])'
  <2>1. PICK told : told = messages[o]
    OBVIOUS
  <2>2. Told(o, told) /\ told \in Seq(Messages) /\ told = messages'[o]
    BY <2>1 DEF TalkInv
  <2>3. Told(o, told)'
    BY <2>2, StillTold
  <2> QED BY <2>2, <2>3
<1> QED BY <1>1 DEF TalkInv

LEMMA TalkKept ==
  ASSUME Inv, ShownInv, TalkInv, [Next]_vars
  PROVE  TalkInv'
<1>1. history' \in [Calls -> Seq(Messages)] /\ \A c \in Calls : Len(history'[c]) <= HistoryMax
  BY HistoryKept
<1> DEFINE Kept == messages' \in [Sessions -> Seq(Messages)] /\ \A o \in Sessions : Told(o, messages[o])'
<1>2. ASSUME NEW c \in Calls, Step(c) \/ Disconnect(c) PROVE Kept
  <2>1. /\ UNCHANGED sessions /\ \A d \in Calls \ {c} : Still(d)
        /\ AppendQuestion(c) \/ AppendAnswer(c) \/ (UNCHANGED messages /\ Still(c))
    BY <1>2, Stills
  <2>2. CASE AppendQuestion(c)
    BY <2>1, <2>2, QuestionStored
  <2>3. CASE AppendAnswer(c)
    BY <2>1, <2>3, AnswerStored
  <2>4. CASE UNCHANGED messages /\ Still(c)
    <3>1. \A d \in Calls : Still(d)
      BY <2>1, <2>4
    <3> QED BY <2>1, <2>4, <3>1, QuietTold
  <2> HIDE DEF Kept
  <2> QED BY <2>1, <2>2, <2>3, <2>4
<1>3. ASSUME NEW s \in Sessions, DeleteSession(s) PROVE Kept
  BY <1>3, DeletionTold
<1>4. ASSUME UNCHANGED vars PROVE Kept
  <2>1. \A c \in Calls : Still(c)
    BY <1>4 DEF vars, local, Still, Past
  <2> QED BY <1>4, <2>1, QuietTold DEF vars
<1>5. Kept
  <2> HIDE DEF Kept
  <2> QED BY <1>2, <1>3, <1>4 DEF Next
<1> QED BY <1>1, <1>5 DEF TalkInv

LEMMA TalkStarts == Init => ShownInv /\ TalkInv
<1> SUFFICES ASSUME Init PROVE ShownInv /\ TalkInv
  OBVIOUS
<1>1. \A c \in Calls : pc[c] = "idle" /\ streamed[c] = <<>> /\ answer[c] = <<>> /\ history[c] = <<>>
  BY DEF Init
<1>2. ShownInv
  <2>1. ASSUME NEW c \in Calls PROVE Shown(c)
    BY <1>1, <2>1, Nothing DEF Shown
  <2> QED BY <2>1, Nothing DEF Init, ShownInv
<1>3. TalkInv
  <2>1. ASSUME NEW s \in Sessions PROVE Told(s, messages[s])
    <3>1. messages[s] = <<>> /\ \A c \in Calls : ~Past(c)
      BY <1>1, <2>1 DEF Init, Past
    <3> QED BY <3>1, Nothing DEF Told
  <2> QED BY <1>1, <2>1, Nothing, BoundsAssumption DEF Init, TalkInv
<1> QED BY <1>2, <1>3


-----------------------------------------------------------------------------
(* The properties.                                                          *)

THEOREM TalkInvariance == Spec => [](Inv /\ ShownInv /\ TalkInv)
<1>1. Init => Inv /\ ShownInv /\ TalkInv
  BY EmptyInit, TalkStarts
<1>2. Inv /\ ShownInv /\ TalkInv /\ [Next]_vars => (Inv /\ ShownInv /\ TalkInv)'
  BY Preserved, ShownKept, TalkKept
<1> QED BY <1>1, <1>2, PTL DEF Spec

(* For every number of calls, sessions, drafts and chunks and any limits:   *)
(* type correctness.                                                        *)
THEOREM TypesHold == Spec => []TypeOK
<1>1. Inv /\ TalkInv => TypeOK
  <2> SUFFICES ASSUME Inv, TalkInv PROVE TypeOK
    OBVIOUS
  <2>1. cache \in Seq(Entries)
    BY MatchingEntries DEF Inv, SharedInv
  <2>2. ASSUME NEW s \in Sessions, NEW k \in DOMAIN messages[s]
        PROVE  messages[s][k].role \in {"user", "assistant"} /\ messages[s][k].call \in Calls
    <3>1. PICK list \in Seq(Messages) : list = messages[s]
      BY DEF TalkInv
    <3>2. k \in DOMAIN list /\ list[k] \in Messages
      BY <3>1, SeqElements
    <3> QED BY <3>1, <3>2, MessageFields
  <2> QED BY <2>1, <2>2 DEF Inv, SharedInv, TalkInv, TypeOK, SharedTypes, MessageTypes
<1> QED BY <1>1, TalkInvariance, PTL

(* Whatever the model drafted and wherever the draft came from, a quote     *)
(* that is shown is in the evidence the model was given, at its place, and  *)
(* is traced into its own blocks.                                           *)
THEOREM QuotesLiteral == Spec => []ShownQuotesAreLiteral
<1>1. Inv /\ ShownInv => ShownQuotesAreLiteral
  <2> SUFFICES ASSUME ShownInv, NEW c \in Calls, NEW claim \in ClaimsOf(answer[c])
               PROVE  \A link \in claim.links : Literal(basis[c], link)
    BY DEF Literal, ShownQuotesAreLiteral
  <2>1. answer[c] \in Seq(GoodClaims(basis[c]))
    BY Nothing DEF ShownInv, Shown
  <2>2. claim \in GoodClaims(basis[c])
    BY <2>1, SeqElements DEF ClaimsOf
  <2> QED BY <2>2 DEF GoodClaims
<1> QED BY <1>1, TalkInvariance, PTL

(* With claim ids that differ, the last of several outcomes for an id is    *)
(* the claim's own.                                                         *)
THEOREM ClaimsJudged == Spec => []ShownClaimsWereJudged
<1>1. ShownInv => ShownClaimsWereJudged
  <2> SUFFICES ASSUME ShownInv, NEW c \in Calls, UniqueIds(draft[c])
               PROVE  ClaimsOf(answer[c]) \subseteq judged[c]
    BY DEF ShownClaimsWereJudged
  <2>1. answer[c] = streamed[c] \/ answer[c] = <<>>
    BY DEF ShownInv, Shown
  <2> QED BY <2>1, Nothing DEF ShownInv, Shown
<1> QED BY <1>1, TalkInvariance, PTL

(* finalize validates the draft again and keeps the claims whose ids were   *)
(* announced: these are the announced claims, whatever ids the model gave.  *)
THEOREM RecordMatches == Spec => []StreamMatchesRecord
<1>1. ShownInv /\ TalkInv => StreamMatchesRecord
  BY DEF ShownInv, Shown, TalkInv, Told, StreamMatchesRecord
<1> QED BY <1>1, TalkInvariance, PTL

(* However calls and deletions overlap, by what the session of each message *)
(* still owes.                                                              *)
THEOREM AnswersFollow == Spec => []AnswersFollowTheirQuestions
<1>1. Inv /\ TalkInv => AnswersFollowTheirQuestions
  <2> SUFFICES ASSUME TalkInv, NEW s \in Sessions, s \in sessions
               PROVE  /\ \A i, k \in DOMAIN messages[s] :
                           messages[s][i].role = messages[s][k].role
                             /\ messages[s][i].call = messages[s][k].call => i = k
                      /\ \A k \in DOMAIN messages[s] : messages[s][k].role = "assistant" =>
                           \E i \in 1..k - 1 : messages[s][i] = Question(messages[s][k].call)
    BY DEF Inv, SharedInv, AnswersFollowTheirQuestions
  <2> QED BY DEF TalkInv, Told
<1> QED BY <1>1, TalkInvariance, PTL

(* Whoever wrote a cached draft, and whatever was evicted meanwhile, the    *)
(* request that reuses it validates it against the ledger it was written    *)
(* from.                                                                    *)
THEOREM CachedDraftsFit == Spec => []CachedDraftsCiteTheLedger
<1>1. Inv => CachedDraftsCiteTheLedger
  BY DEF Inv, BasisInv, CachedDraftsCiteTheLedger
<1>. QED
  BY <1>1, Invariance, PTL

(* The size of the cache of drafts, with every overlap of its unlocked      *)
(* operations.                                                              *)
THEOREM CacheBounded == Spec => []CacheAccounted
<1>1. Inv => CacheAccounted
  BY DEF Inv, SizeInv, SharedInv, KeysOnce, CacheAccounted
<1>. QED
  BY <1>1, Invariance, PTL

-----------------------------------------------------------------------------
(* Looking for a quote from the left.                                       *)

LEMMA LeastExists ==
  ASSUME NEW S \in SUBSET Nat, S # {}
  PROVE  \E m \in S : \A k \in S : m <= k
<1> DEFINE R == OpToRel(<, Nat)
<1>1. IsWellFoundedOn(R, Nat)
  BY NatLessThanWellFounded
<1>2. \A c, d \in Nat : <<c, d>> \in R <=> c < d
  BY DEF OpToRel
<1> HIDE DEF R
<1>3. PICK m \in S : \A k \in S : ~(<<k, m>> \in R)
  BY <1>1, WFMin
<1>4. \A k \in S : k \in Nat /\ m \in Nat /\ ~(k < m)
  BY <1>2, <1>3
<1>5. \A k \in S : m <= k
  BY <1>4
<1> QED BY <1>3, <1>5

(* Of the places P, those a search takes that goes on n tokens behind each. *)
Greedy(P, n, F) == F \in SUBSET P /\ \A p \in P : p \in F <=> \A q \in F : q < p => q + n <= p

Beyond(P, p) == {q \in P : p <= q}

(* Two searches part nowhere: there would be a first place. *)
LEMMA GreedyIsUnique ==
  ASSUME NEW P \in SUBSET Nat, NEW n \in Nat, NEW F, NEW G, Greedy(P, n, F), Greedy(P, n, G)
  PROVE  F = G
<1> DEFINE apart == (F \ G) \cup (G \ F)
<1>1. F \subseteq P /\ G \subseteq P
  BY DEF Greedy
<1> SUFFICES ASSUME apart # {} PROVE FALSE
  OBVIOUS
<1>2. PICK p \in apart : \A q \in apart : p <= q
  <2>1. apart \in SUBSET Nat
    BY <1>1
  <2> HIDE DEF apart
  <2> QED BY <2>1, LeastExists
<1>3. p \in P /\ \A q \in P : q < p => (q \in F <=> q \in G)
  BY <1>1, <1>2
<1>4. (\A q \in F : q < p => q + n <= p) <=> (\A q \in G : q < p => q + n <= p)
  BY <1>1, <1>3
<1> QED BY <1>2, <1>3, <1>4 DEF Greedy

LEMMA OccurrencesAreGreedy ==
  ASSUME NEW text, NEW quote, Len(quote) \in Nat, NEW F, Greedy(Places(text, quote), Len(quote), F)
  PROVE  Occurrences(text, quote) = F
<1>1. PICK P : P = Places(text, quote)
  OBVIOUS
<1>2. P \in SUBSET Nat
  BY <1>1 DEF Places
<1>3. \A G \in SUBSET P : (\A p \in P : p \in G <=> \A q \in G : q < p => q + Len(quote) <= p)
                            <=> G = F
  <2> SUFFICES ASSUME NEW G \in SUBSET P
               PROVE  Greedy(P, Len(quote), G) <=> G = F
    BY DEF Greedy
  <2> QED BY <1>1, <1>2, GreedyIsUnique
<1>4. F \in SUBSET P
  BY <1>1 DEF Greedy
<1>5. Occurrences(text, quote)
        = UNION {G \in SUBSET P : \A p \in P : p \in G <=> \A q \in G : q < p => q + Len(quote) <= p}
  BY <1>1 DEF Occurrences
<1>6. {G \in SUBSET P : \A p \in P : p \in G <=> \A q \in G : q < p => q + Len(quote) <= p} = {F}
  BY <1>3, <1>4
<1> QED BY <1>5, <1>6

(* The recursion of the search, over the last m tokens. *)
Found(text, quote, f, p) ==
  IF p + Len(quote) > Len(text) THEN {}
  ELSE IF Slice(text, p, p + Len(quote)) = quote THEN {p} \cup f[p + Len(quote)]
  ELSE f[p + 1]
Search(text, quote, f, m) == f = [p \in (Len(text) - m)..Len(text) |-> Found(text, quote, f, p)]

(* It defines a function, for every m: take the least one for which it does not. *)
LEMMA SearchExists ==
  ASSUME NEW text, NEW quote, Len(text) \in Nat, Len(quote) \in Nat \ {0}, NEW k \in 0..Len(text)
  PROVE  \E f : Search(text, quote, f, k)
<1> DEFINE N == Len(text)   L == Len(quote)
           bad == {m \in 0..N : ~ \E f : Search(text, quote, f, m)}
<1> SUFFICES ASSUME bad # {} PROVE FALSE
  OBVIOUS
<1>1. PICK m \in bad : \A j \in bad : m <= j
  <2>1. bad \in SUBSET Nat
    OBVIOUS
  <2> HIDE DEF bad
  <2> QED BY <2>1, LeastExists
<1>2. m \in 0..N
  OBVIOUS
<1>3. CASE m = 0
  <2> DEFINE f == [p \in (N - 0)..N |-> {}]
  <2>1. \A p \in (N - 0)..N : Found(text, quote, f, p) = {}
    BY DEF Found
  <2>2. f = [p \in (N - 0)..N |-> Found(text, quote, f, p)]
    BY <2>1
  <2> HIDE DEF f
  <2>3. Search(text, quote, f, 0)
    BY <2>2 DEF Search
  <2> QED BY <1>1, <1>3, <2>3
<1>4. CASE m # 0
  <2>1. m - 1 \in 0..N /\ m - 1 \notin bad
    BY <1>1, <1>2, <1>4
  <2>2. PICK g : Search(text, quote, g, m - 1)
    BY <2>1
  <2>3. PICK a \in 0..N : a = N - m /\ N - (m - 1) = a + 1 /\ a + 1 \in 0..N
    <3>1. N - m \in 0..N /\ N - (m - 1) = (N - m) + 1 /\ (N - m) + 1 \in 0..N
      BY <1>2, <1>4
    <3> QED BY <3>1
  <2>4. \A p \in (a + 1)..N : g[p] = Found(text, quote, g, p)
    <3>1. g = [p \in (a + 1)..N |-> Found(text, quote, g, p)]
      BY <2>2, <2>3 DEF Search
    <3> QED BY <3>1
  <2> DEFINE f == [p \in a..N |-> IF p = a THEN Found(text, quote, g, a) ELSE g[p]]
  <2>5. \A p \in a..N : (p = a \/ p \in (a + 1)..N) /\ f[p] = IF p = a THEN Found(text, quote, g, a) ELSE g[p]
    BY <2>3
  <2>6. \A p \in (a + 1)..N : f[p] = g[p]
    BY <2>3, <2>5
  <2>7. f = [p \in a..N |-> f[p]]
    OBVIOUS
  <2> HIDE DEF f
  <2>8. \A p \in a..N : Found(text, quote, f, p) = Found(text, quote, g, p)
    <3> SUFFICES ASSUME NEW p \in a..N PROVE Found(text, quote, f, p) = Found(text, quote, g, p)
      OBVIOUS
    <3>1. CASE p + L > N
      BY <3>1 DEF Found
    <3>2. CASE ~(p + L > N)
      <4>1. p + L \in (a + 1)..N /\ p + 1 \in (a + 1)..N
        BY <2>3, <3>2
      <4>2. f[p + L] = g[p + L] /\ f[p + 1] = g[p + 1]
        BY <2>6, <4>1
      <4> QED BY <4>2 DEF Found
    <3> QED BY <3>1, <3>2
  <2>9. f = [p \in a..N |-> Found(text, quote, f, p)]
    <3>1. \A p \in a..N : f[p] = Found(text, quote, f, p)
      BY <2>4, <2>5, <2>8
    <3> QED BY <2>7, <3>1
  <2>10. Search(text, quote, f, m)
    BY <2>3, <2>9 DEF Search
  <2> QED BY <1>1, <2>10
<1> QED BY <1>3, <1>4

LEMMA SearchFrom ==
  ASSUME NEW text, NEW quote, Len(text) \in Nat, Len(quote) \in Nat \ {0}
  PROVE  \E f : /\ FromLeft(text, quote) = f[0]
                /\ \A p \in 0..Len(text) : f[p] = Found(text, quote, f, p)
<1> DEFINE N == Len(text)
           f == CHOOSE g : g = [p \in 0..N |-> Found(text, quote, g, p)]
<1>1. FromLeft(text, quote) = f[0]
  BY DEF FromLeft, Found
<1>2. \E g : g = [p \in 0..N |-> Found(text, quote, g, p)]
  <2>1. N \in 0..N /\ N - N = 0
    OBVIOUS
  <2>2. PICK g : Search(text, quote, g, N)
    BY <2>1, SearchExists
  <2> QED BY <2>1, <2>2 DEF Search
<1>3. f = [p \in 0..N |-> Found(text, quote, f, p)]
  BY <1>2
<1> HIDE DEF f
<1>4. \A p \in 0..N : f[p] = Found(text, quote, f, p)
  BY <1>3
<1> QED BY <1>1, <1>4

(* From every place on the search is greedy: take the last place where it is not. *)
LEMMA SearchIsGreedy ==
  ASSUME NEW text, NEW quote, Len(text) \in Nat, Len(quote) \in Nat \ {0},
         NEW f, \A p \in 0..Len(text) : f[p] = Found(text, quote, f, p)
  PROVE  Greedy(Places(text, quote), Len(quote), f[0])
<1>0. PICK N \in Nat, L \in Nat \ {0} : N = Len(text) /\ L = Len(quote)
  OBVIOUS
<1>1. PICK P : P = Places(text, quote) /\ N = Len(text) /\ L = Len(quote)
  BY <1>0
<1> DEFINE bad == {m \in 0..N : ~Greedy(Beyond(P, N - m), L, f[N - m])}
<1>2. \A q \in P : q \in Nat /\ q + L <= N /\ Slice(text, q, q + L) = quote
  BY <1>1 DEF Places
<1>3. bad = {}
  <2> SUFFICES ASSUME bad # {} PROVE FALSE
    OBVIOUS
  <2>1. PICK m \in bad : \A j \in bad : m <= j
    <3>1. bad \in SUBSET Nat
      OBVIOUS
    <3> HIDE DEF bad
    <3> QED BY <3>1, LeastExists
  <2>2. PICK p \in 0..N : p = N - m
    OBVIOUS
  <2>3. \A q \in 0..N : p < q => Greedy(Beyond(P, q), L, f[q])
    <3> SUFFICES ASSUME NEW q \in 0..N, p < q PROVE Greedy(Beyond(P, q), L, f[q])
      OBVIOUS
    <3>1. N - q \in 0..N /\ N - (N - q) = q /\ ~(m <= N - q)
      BY <2>2
    <3>2. N - q \notin bad
      BY <2>1, <3>1
    <3> QED BY <3>1, <3>2
  <2>4. f[p] = Found(text, quote, f, p)
    BY <1>1
  <2>5. CASE p + L > N
    <3>1. f[p] = {} /\ Beyond(P, p) = {}
      BY <1>1, <1>2, <2>4, <2>5 DEF Found, Beyond
    <3>2. Greedy(Beyond(P, p), L, f[p])
      BY <3>1 DEF Greedy
    <3> QED BY <2>1, <2>2, <3>2
  <2>6. CASE p + L <= N /\ Slice(text, p, p + L) = quote
    <3>1. f[p] = {p} \cup f[p + L]
      BY <1>1, <2>4, <2>6 DEF Found
    <3>2. Greedy(Beyond(P, p + L), L, f[p + L])
      <4>1. p + L \in 0..N /\ p < p + L
        BY <2>6
      <4> QED BY <2>3, <4>1
    <3>3. p \in P
      BY <1>1, <2>6 DEF Places
    <3>4. PICK A : A = f[p + L]
      OBVIOUS
    <3>5. A \subseteq Beyond(P, p + L) /\ \A x \in Beyond(P, p + L) : x \in A <=> \A q \in A : q < x => q + L <= x
      BY <3>2, <3>4 DEF Greedy
    <3>6. f[p] \in SUBSET Beyond(P, p)
      <4>1. \A q \in A : q \in P /\ p <= q
        BY <1>2, <3>5 DEF Beyond
      <4> QED BY <3>1, <3>3, <3>4, <4>1 DEF Beyond
    <3>7. ASSUME NEW x \in Beyond(P, p)
          PROVE  x \in f[p] <=> \A q \in f[p] : q < x => q + L <= x
      <4>1. x \in P /\ x \in Nat /\ p <= x /\ \A q \in A : q \in Nat /\ p + L <= q
        BY <1>2, <3>5 DEF Beyond
      <4>2. CASE x = p
        BY <3>1, <3>4, <4>1, <4>2
      <4>3. CASE p < x /\ x < p + L
        <5>1. x # p /\ x \notin A /\ ~(p + L <= x)
          BY <4>1, <4>3
        <5> QED BY <3>1, <3>4, <4>3, <5>1
      <4>4. CASE p + L <= x
        <5>1. x \in Beyond(P, p + L) /\ x # p
          BY <4>1, <4>4 DEF Beyond
        <5>2. x \in A <=> \A q \in A : q < x => q + L <= x
          BY <3>5, <5>1
        <5> QED BY <3>1, <3>4, <4>4, <5>1, <5>2
      <4> QED BY <4>1, <4>2, <4>3, <4>4
    <3>8. Greedy(Beyond(P, p), L, f[p])
      BY <3>6, <3>7 DEF Greedy
    <3> QED BY <2>1, <2>2, <3>8
  <2>7. CASE p + L <= N /\ Slice(text, p, p + L) # quote
    <3>1. f[p] = f[p + 1] /\ p + 1 \in 0..N
      BY <1>1, <2>4, <2>7 DEF Found
    <3>2. p \notin P
      BY <1>2, <2>7
    <3>3. Beyond(P, p) = Beyond(P, p + 1)
      <4>1. \A q \in P : p <= q <=> p + 1 <= q
        BY <1>2, <3>2
      <4> QED BY <4>1 DEF Beyond
    <3>4. Greedy(Beyond(P, p), L, f[p])
      <4>1. p < p + 1
        OBVIOUS
      <4> QED BY <2>3, <3>1, <3>3, <4>1
    <3> QED BY <2>1, <2>2, <3>4
  <2> QED BY <2>5, <2>6, <2>7
<1>4. Greedy(Beyond(P, 0), L, f[0])
  <2>1. N \in 0..N /\ N - N = 0
    OBVIOUS
  <2> QED BY <1>3, <2>1
<1>5. Beyond(P, 0) = P
  BY <1>2 DEF Beyond
<1> QED BY <1>1, <1>4, <1>5

(* Whatever the text and the quote, the set the model relocates quotes by is what the
   search of re.finditer finds. *)
THEOREM OccurrencesFromLeft ==
  ASSUME NEW Tokens, NEW text \in Seq(Tokens), NEW quote \in Seq(Tokens), quote # <<>>
  PROVE  Occurrences(text, quote) = FromLeft(text, quote)
<1>1. Len(text) \in Nat /\ Len(quote) \in Nat \ {0}
  OBVIOUS
<1>2. PICK f : /\ FromLeft(text, quote) = f[0]
               /\ \A p \in 0..Len(text) : f[p] = Found(text, quote, f, p)
  BY <1>1, SearchFrom
<1> QED BY <1>1, <1>2, SearchIsGreedy, OccurrencesAreGreedy
=============================================================================
