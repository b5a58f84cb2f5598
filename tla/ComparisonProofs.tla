-------------------------- MODULE ComparisonProofs --------------------------
(* What a comparison's row and the page's messages can be, for every set of
   papers, fields, drafts and artifacts and any number of comparisons. *)
EXTENDS Comparison, FiniteSetTheorems, TLAPS

(* The extractions of one paper, and the states of a comparison's pool. *)
Possible(p) ==
  {NotExtracted} \cup {Extracted(p, artifact, draft) : artifact \in Artifacts, draft \in Drafts}
Pools == {d \in [Papers -> UNION {Possible(p) : p \in Papers}] :
            \A p \in Papers : d[p] \in Possible(p)}
Complete == {d \in Pools : \A p \in Papers : d[p] # NotExtracted}

(* The tables and rows the thread may store. *)
Tables == {Assembled(d) : d \in {e \in Complete : ~AssemblyRaises(e)}}
Rows == {NoRow} \cup [status : {"RUNNING", "FAILED"}, progress : Nat, table : {NoTable}]
        \cup [status : {"DONE"}, progress : Nat, table : Tables]
-----------------------------------------------------------------------------
(* Every cell of an extraction is about its paper and cites what the paper knows,
   and that is its ledger and its artifact. *)
LEMMA ExtractionFacts ==
  ASSUME NEW p \in Papers, NEW e \in Possible(p), e # NotExtracted
  PROVE  /\ \A c \in e.cells : c.paper = p /\ c.evidence \subseteq e.known
         /\ e.known \subseteq Ledger[p] \cup ArtifactEvidence
<1>1. PICK artifact \in Artifacts, draft \in Drafts : e = Extracted(p, artifact, draft)
  BY DEF Possible
<1>2. Cited(artifact) \subseteq ArtifactEvidence
  BY DEF Cited, ArtifactEvidence
<1>3. \A c \in Reused(p, artifact) : c.paper = p /\ c.evidence \subseteq Cited(artifact)
  BY DEF Reused, Cited, Cell
<1>4. CASE Missing(artifact) = {}
  BY <1>1, <1>2, <1>3, <1>4 DEF Extracted
<1>5. CASE Missing(artifact) # {} /\ Accepted(p, Missing(artifact), draft)
  <2>1. \A c \in Indexed(draft) : c.paper = p /\ c.evidence \subseteq Ledger[p]
    BY <1>5 DEF Accepted, Indexed, CellsOf
  <2>2. e.cells = Indexed(draft) \cup Reused(p, artifact) /\ e.known = Ledger[p] \cup Cited(artifact)
    BY <1>1, <1>5 DEF Extracted
  <2> QED BY <2>1, <2>2, <1>2, <1>3
<1>6. CASE Missing(artifact) # {} /\ ~Accepted(p, Missing(artifact), draft)
  BY <1>1, <1>6 DEF Extracted, Cell
<1> QED BY <1>4, <1>5, <1>6

(* A finished extraction is never taken for a missing one. *)
LEMMA ExtractedIsNew ==
  ASSUME NEW p, NEW artifact, NEW draft
  PROVE  Extracted(p, artifact, draft) # NotExtracted
<1>1. DOMAIN Extracted(p, artifact, draft) = {"cells", "known"}
  BY DEF Extracted
<1>2. DOMAIN NotExtracted = {"cells", "known", "missing"}
  BY DEF NotExtracted
<1> QED BY <1>1, <1>2

(* A cell of the table belongs to its paper and field, and comes from the
   extraction of that paper unless it is the placeholder. *)
LEMMA TableCellFacts ==
  ASSUME NEW d \in Complete, NEW p \in Papers, NEW f \in Fields
  PROVE  /\ Assembled(d)[p][f].paper = p
         /\ Assembled(d)[p][f].field = f
         /\ \/ Assembled(d)[p][f] \in d[p].cells
            \/ Assembled(d)[p][f] = Cell(p, f, "NOT_FOUND", FALSE, {})
<1> DEFINE cells == UNION {d[q].cells : q \in Papers}
<1>1. Assembled(d)[p][f] = TableCell(cells, p, f)
  BY DEF Assembled
<1>2. \A q \in Papers : d[q] \in Possible(q) /\ d[q] # NotExtracted
  BY DEF Complete, Pools
<1>3. \A q \in Papers : \A c \in d[q].cells : c.paper = q
  BY <1>2, ExtractionFacts
<1>4. CASE \E c \in cells : c.paper = p /\ c.field = f
  <2>1. TableCell(cells, p, f) = CHOOSE c \in cells : c.paper = p /\ c.field = f
    BY <1>4 DEF TableCell
  <2>2. /\ TableCell(cells, p, f) \in cells
        /\ TableCell(cells, p, f).paper = p /\ TableCell(cells, p, f).field = f
    BY <1>4, <2>1
  <2>3. PICK q \in Papers : TableCell(cells, p, f) \in d[q].cells
    BY <2>2
  <2>4. q = p
    BY <1>3, <2>2, <2>3
  <2> QED BY <1>1, <2>2, <2>3, <2>4
<1>5. CASE ~\E c \in cells : c.paper = p /\ c.field = f
  <2>1. TableCell(cells, p, f) = Cell(p, f, "NOT_FOUND", FALSE, {})
    BY <1>5 DEF TableCell
  <2> QED BY <1>1, <2>1 DEF Cell
<1> QED BY <1>4, <1>5

(* What a stored table contains. *)
LEMMA TableFacts ==
  ASSUME NEW t \in Tables
  PROVE  /\ DOMAIN t = Papers
         /\ \A p \in Papers, f \in Fields :
              /\ t[p][f].paper = p /\ t[p][f].field = f
              /\ t[p][f].evidence \subseteq Ledger[p] \cup ArtifactEvidence
              /\ t[p][f].status = "FOUND" => t[p][f].value /\ t[p][f].evidence # {}
<1>1. PICK d \in Complete : t = Assembled(d) /\ ~AssemblyRaises(d)
  BY DEF Tables
<1>2. DOMAIN t = Papers
  BY <1>1 DEF Assembled
<1>3. ASSUME NEW p \in Papers, NEW f \in Fields
      PROVE  /\ t[p][f].paper = p /\ t[p][f].field = f
             /\ t[p][f].evidence \subseteq Ledger[p] \cup ArtifactEvidence
             /\ t[p][f].status = "FOUND" => t[p][f].value /\ t[p][f].evidence # {}
  <2>1. /\ t[p][f].evidence \subseteq d[p].known
        /\ t[p][f].status = "FOUND" => t[p][f].value /\ t[p][f].evidence # {}
    BY <1>1, <1>3, Zenon DEF AssemblyRaises
  <2>2. d[p] \in Possible(p) /\ d[p] # NotExtracted
    BY <1>3 DEF Complete, Pools
  <2>3. d[p].known \subseteq Ledger[p] \cup ArtifactEvidence
    BY <2>2, <1>3, ExtractionFacts
  <2>4. Assembled(d)[p][f].paper = p
    BY TableCellFacts, Zenon
  <2>5. Assembled(d)[p][f].field = f
    BY TableCellFacts, Zenon
  <2>6. t[p][f].paper = p /\ t[p][f].field = f
    BY <1>1, <2>4, <2>5, Zenon
  <2> QED BY <2>1, <2>3, <2>6
<1> QED BY <1>2, <1>3

(* The assembly only raises on a FOUND cell of an extraction without value or
   evidence: placeholders, and what a paper cites, never make it raise. *)
LEMMA RaisesOnBareCell ==
  ASSUME NEW d \in Complete, AssemblyRaises(d)
  PROVE  \E p \in Papers : \E cell \in d[p].cells :
           cell.status = "FOUND" /\ (~cell.value \/ cell.evidence = {})
<1>1. PICK p \in Papers, f \in Fields :
        \/ ~(Assembled(d)[p][f].evidence \subseteq d[p].known)
        \/ /\ Assembled(d)[p][f].status = "FOUND"
           /\ ~Assembled(d)[p][f].value \/ Assembled(d)[p][f].evidence = {}
  BY Zenon DEF AssemblyRaises
<1>2. d[p] \in Possible(p) /\ d[p] # NotExtracted
  BY DEF Complete, Pools
<1>3. \A c \in d[p].cells : c.evidence \subseteq d[p].known
  BY <1>2, ExtractionFacts
<1>4. \/ Assembled(d)[p][f] \in d[p].cells
      \/ Assembled(d)[p][f] = Cell(p, f, "NOT_FOUND", FALSE, {})
  BY TableCellFacts
<1>5. CASE Assembled(d)[p][f] \in d[p].cells
  BY <1>1, <1>3, <1>5, Zenon
<1>6. CASE Assembled(d)[p][f] = Cell(p, f, "NOT_FOUND", FALSE, {})
  BY <1>1, <1>6 DEF Cell
<1> QED BY <1>4, <1>5, <1>6
-----------------------------------------------------------------------------
(* What the requests and the messages on the page can be. *)
Statuses == {"NONE", "RUNNING", "DONE", "FAILED"}
Requests == [kind : {"start", "poll", "open", "ask"}, id : Cmps, n : Nat,
             reply : Cmps \cup Statuses \cup {"sent", "error"}]
Notes == [about : Cmps, role : {"user", "assistant"}]

(* The state of the server: rows are made by the thread, a thread that extracts
   has stored the progress it made, and a comparison is started once. *)
RowsOK == row \in [Cmps -> Rows]
PoolsOK == done \in [Cmps -> Pools]
ThreadsOK ==
  \A c \in Cmps : thread[c] = "extract" =>
    row[c].status = "RUNNING" /\ row[c].progress <= Cardinality(Papers \ Pending(c))
StartsOnce ==
  \A m \in inflight : m.kind = "start" =>
    /\ m.reply = "sent" => row[m.id] = NoRow
    /\ \A n \in inflight : n.kind = "start" /\ n.id = m.id => n = m
ThreadType == thread \in [Cmps -> {"none", "extract", "ended", "lost"}]

(* The state of the page: what it names are comparisons, at most one question is
   pending and its messages are those it will extend, and, unless something
   overlapped, all of them are about the comparison shown. *)
PageType ==
  /\ running \in Cmps \cup {NoCmp}
  /\ result.id \in Cmps \cup {NoCmp}
  /\ qa \in Seq(Notes) /\ base \in Seq(Notes)
  /\ history \subseteq Cmps
  /\ inflight \subseteq Requests
  /\ overlap \in BOOLEAN
AsksOK ==
  \A m \in inflight : m.kind = "ask" =>
    /\ base # <<>>
    /\ \A n \in inflight : n.kind = "ask" => n = m
AboutShown ==
  ~overlap =>
    /\ \A i \in DOMAIN qa : qa[i].about = result.id
    /\ base # <<>> => base = qa
    /\ \A m \in inflight : m.kind = "ask" => m.id = result.id

ServerInv == RowsOK /\ PoolsOK /\ ThreadType /\ ThreadsOK
Inv == ServerInv /\ StartsOnce /\ PageType /\ AsksOK /\ AboutShown
-----------------------------------------------------------------------------
(* The pool and the row of one comparison. *)
LEMMA PapersCounted ==
  /\ Cardinality(Papers) \in Nat
  /\ \A S \in SUBSET Papers : IsFiniteSet(S) /\ Cardinality(S) \in Nat
<1>1. IsFiniteSet(Papers)
  BY ComparisonAssumption
<1>. QED
  BY <1>1, FS_CardinalityType, FS_Subset

LEMMA EmptyPool == [p \in Papers |-> NotExtracted] \in Pools
BY DEF Pools, Possible

LEMMA PoolExtended ==
  ASSUME NEW d \in Pools, NEW p \in Papers, NEW artifact \in Artifacts, NEW draft \in Drafts
  PROVE  [d EXCEPT ![p] = Extracted(p, artifact, draft)] \in Pools
<1>1. Extracted(p, artifact, draft) \in Possible(p)
  BY DEF Possible
<1>. QED
  BY <1>1 DEF Pools

LEMMA FirstRows == NoRow \in Rows /\ Row("RUNNING", 0, NoTable) \in Rows
BY DEF NoRow, Row, Rows

(* What the thread stores when no paper is left is a row. *)
LEMMA ConcludedRow ==
  ASSUME NEW d \in Complete
  PROVE  /\ AssemblyRaises(d) => Row("FAILED", 0, NoTable) \in Rows
         /\ ~AssemblyRaises(d) => Row("DONE", Cardinality(Papers), Assembled(d)) \in Rows
<1>1. ~AssemblyRaises(d) => Assembled(d) \in Tables
  BY DEF Tables
<1>. QED
  BY <1>1, PapersCounted DEF Row, Rows

LEMMA AllExtracted ==
  ASSUME PoolsOK, NEW c \in Cmps, Pending(c) = {}
  PROVE  done[c] \in Complete
BY DEF PoolsOK, Pending, Complete

(* Finishing a paper adds it to those that count as progress. *)
LEMMA ProgressCounted ==
  ASSUME PoolsOK, NEW c \in Cmps, NEW p \in Pending(c), NEW e, e # NotExtracted,
         done' = [done EXCEPT ![c][p] = e]
  PROVE  /\ Cardinality((Papers \ Pending(c))') = Cardinality(Papers \ Pending(c)) + 1
         /\ \A o \in Cmps \ {c} : Pending(o)' = Pending(o)
<1>1. p \in Papers /\ done[c][p] = NotExtracted
  BY DEF Pending
<1>2. done'[c] = [done[c] EXCEPT ![p] = e] /\ \A o \in Cmps \ {c} : done'[o] = done[o]
  BY DEF PoolsOK
<1>3. done[c] \in [Papers -> UNION {Possible(q) : q \in Papers}]
  BY DEF PoolsOK, Pools
<1>4. (Papers \ Pending(c))' = (Papers \ Pending(c)) \cup {p}
  BY <1>1, <1>2, <1>3 DEF Pending
<1>5. p \notin Papers \ Pending(c)
  OBVIOUS
<1>6. IsFiniteSet(Papers \ Pending(c))
  BY PapersCounted
<1>7. Cardinality((Papers \ Pending(c)) \cup {p}) = Cardinality(Papers \ Pending(c)) + 1
  BY <1>5, <1>6, FS_AddElement
<1>8. \A o \in Cmps \ {c} : Pending(o)' = Pending(o)
  BY <1>2 DEF Pending
<1>. QED
  BY <1>4, <1>7, <1>8
-----------------------------------------------------------------------------
(* The server's steps. *)
LEMMA ServerSame ==
  ASSUME ServerInv, UNCHANGED <<row, thread, done>>
  PROVE  ServerInv'
BY DEF ServerInv, RowsOK, PoolsOK, ThreadType, ThreadsOK, Pending

LEMMA CreateServer ==
  ASSUME ServerInv, NEW m \in Requests, Create(m)
  PROVE  ServerInv'
<1>1. CASE UNCHANGED <<row, thread>>
  BY <1>1, ServerSame DEF Create
<1>2. CASE /\ row' = [row EXCEPT ![m.id] = Row("RUNNING", 0, NoTable)]
           /\ thread' = [thread EXCEPT ![m.id] = "extract"]
  <2>1. done' = done /\ m.id \in Cmps
    BY DEF Create, Requests
  <2>2. RowsOK' /\ PoolsOK' /\ ThreadType'
    BY <1>2, <2>1, FirstRows DEF ServerInv, RowsOK, PoolsOK, ThreadType
  <2>3. ASSUME NEW c \in Cmps, thread'[c] = "extract"
        PROVE  row'[c].status = "RUNNING" /\ row'[c].progress <= Cardinality((Papers \ Pending(c))')
    <3>1. Pending(c)' = Pending(c)
      BY <2>1 DEF Pending
    <3>2. Cardinality(Papers \ Pending(c)) \in Nat
      BY PapersCounted
    <3>3. CASE c = m.id
      <4>1. row'[c] = Row("RUNNING", 0, NoTable)
        BY <1>2, <3>3 DEF ServerInv, RowsOK
      <4>. QED
        BY <4>1, <3>1, <3>2 DEF Row
    <3>4. CASE c # m.id
      BY <1>2, <2>3, <3>1, <3>4 DEF ServerInv, RowsOK, ThreadType, ThreadsOK
    <3>. QED
      BY <3>3, <3>4
  <2>. QED
    BY <2>2, <2>3 DEF ServerInv, ThreadsOK
<1>. QED
  BY <1>1, <1>2 DEF Create

LEMMA ExtractPaperServer ==
  ASSUME ServerInv, NEW c \in Cmps, NEW p \in Papers, ExtractPaper(c, p)
  PROVE  ServerInv'
<1>1. PICK artifact \in Artifacts, draft \in Drafts :
        done' = [done EXCEPT ![c][p] = Extracted(p, artifact, draft)]
  BY DEF ExtractPaper
<1>2. /\ thread[c] = "extract" /\ p \in Pending(c) /\ thread' = thread
      /\ row' = [row EXCEPT ![c] = Row("RUNNING", Cardinality(Papers \ Pending(c)) + 1, NoTable)]
  BY DEF ExtractPaper
<1>3. PoolsOK'
  <2>1. [done[c] EXCEPT ![p] = Extracted(p, artifact, draft)] \in Pools
    BY PoolExtended DEF ServerInv, PoolsOK
  <2>. QED
    BY <1>1, <2>1 DEF ServerInv, PoolsOK
<1>4. Cardinality(Papers \ Pending(c)) \in Nat
  BY PapersCounted
<1>5. Row("RUNNING", Cardinality(Papers \ Pending(c)) + 1, NoTable) \in Rows
  BY <1>4 DEF Row, Rows
<1>6. RowsOK' /\ ThreadType'
  BY <1>2, <1>5 DEF ServerInv, RowsOK, ThreadType
<1>7. /\ Cardinality((Papers \ Pending(c))') = Cardinality(Papers \ Pending(c)) + 1
      /\ \A o \in Cmps \ {c} : Pending(o)' = Pending(o)
  BY <1>1, <1>2, ExtractedIsNew, ProgressCounted DEF ServerInv
<1>8. row'[c] = Row("RUNNING", Cardinality(Papers \ Pending(c)) + 1, NoTable)
  BY <1>2 DEF ServerInv, RowsOK
<1>9. row'[c].status = "RUNNING" /\ row'[c].progress <= Cardinality((Papers \ Pending(c))')
  BY <1>4, <1>7, <1>8 DEF Row
<1>10. \A o \in Cmps \ {c} : row'[o] = row[o] /\ Pending(o)' = Pending(o)
  BY <1>2, <1>7 DEF ServerInv, RowsOK
<1>11. ThreadsOK'
  BY <1>2, <1>9, <1>10 DEF ServerInv, ThreadsOK
<1>. QED
  BY <1>3, <1>6, <1>11 DEF ServerInv

LEMMA ConcludeServer ==
  ASSUME ServerInv, NEW c \in Cmps, Conclude(c)
  PROVE  ServerInv'
<1>1. done[c] \in Complete
  BY AllExtracted DEF Conclude, ServerInv
<1>2. RowsOK'
  <2>1. (IF AssemblyRaises(done[c]) THEN Row("FAILED", 0, NoTable)
         ELSE Row("DONE", Cardinality(Papers), Assembled(done[c]))) \in Rows
    BY <1>1, ConcludedRow
  <2>. QED
    BY <2>1 DEF Conclude, ServerInv, RowsOK
<1>3. PoolsOK'
  BY EmptyPool DEF Conclude, ServerInv, PoolsOK
<1>4. ThreadType'
  BY DEF Conclude, ServerInv, ThreadType
<1>5. thread'[c] = "ended"
  BY DEF Conclude, ServerInv, ThreadType
<1>6. \A o \in Cmps \ {c} : row'[o] = row[o] /\ thread'[o] = thread[o] /\ done'[o] = done[o]
  BY DEF Conclude, ServerInv, RowsOK, PoolsOK, ThreadType
<1>7. \A o \in Cmps \ {c} : Pending(o)' = Pending(o)
  BY <1>6 DEF Pending
<1>8. ThreadsOK'
  BY <1>5, <1>6, <1>7 DEF ServerInv, ThreadsOK
<1>. QED
  BY <1>2, <1>3, <1>4, <1>8 DEF ServerInv

LEMMA RestartServer ==
  ASSUME ServerInv, Restart
  PROVE  ServerInv'
<1>1. RowsOK'
  BY DEF Restart, page, ServerInv, RowsOK
<1>2. PoolsOK'
  BY EmptyPool DEF Restart, PoolsOK
<1>3. ThreadType'
  BY DEF Restart, ServerInv, ThreadType
<1>4. \A c \in Cmps : thread'[c] # "extract"
  BY DEF Restart, ServerInv, ThreadType
<1>. QED
  BY <1>1, <1>2, <1>3, <1>4 DEF ServerInv, ThreadsOK
-----------------------------------------------------------------------------
(* The requests in flight: answered, delivered, sent, cut off by a restart.  Each
   keeps them requests, keeps the starts unique and adds no question.       *)
RequestsOK == inflight \subseteq Requests /\ StartsOnce
Asks == {m \in inflight : m.kind = "ask"}

LEMMA RepliedKept ==
  ASSUME RequestsOK, AsksOK, NEW m \in inflight, Sent(m),
         NEW r \in Cmps \cup Statuses \cup {"error"}, Replied(m, r),
         \A c \in Cmps : row'[c] = row[c] \/ (m.kind = "start" /\ c = m.id)
  PROVE  /\ RequestsOK'
         /\ \A a, b \in Asks' : a = b
         /\ \A a \in Asks' : \E b \in Asks : b.id = a.id
<1> DEFINE r1 == [m EXCEPT !.reply = r]
<1>1. m \in Requests /\ inflight \subseteq Requests
  BY DEF RequestsOK
<1>2. /\ r1 \in Requests /\ r1.kind = m.kind /\ r1.id = m.id /\ r1.reply = r
  BY <1>1 DEF Requests
<1>3. inflight' = (inflight \ {m}) \cup {r1}
  BY DEF Replied
<1>4. r # "sent"
  BY ComparisonAssumption DEF Statuses
<1> HIDE DEF r1
<1>5. inflight' \subseteq Requests
  BY <1>1, <1>2, <1>3
<1>6. ASSUME NEW a \in inflight', a.kind = "start"
      PROVE  /\ a.reply = "sent" => row'[a.id] = NoRow
             /\ \A b \in inflight' : b.kind = "start" /\ b.id = a.id => b = a
  <2>1. CASE a = r1
    <3>1. \A b \in inflight' : b.kind = "start" /\ b.id = a.id => b = a
      BY <1>2, <1>3, <1>6, <2>1 DEF RequestsOK, StartsOnce
    <3>. QED
      BY <3>1, <1>2, <1>4, <2>1
  <2>2. CASE a \in inflight \ {m}
    <3>1. m.kind = "start" => m.id # a.id
      BY <1>6, <2>2 DEF RequestsOK, StartsOnce
    <3>2. a.id \in Cmps
      BY <1>1, <2>2 DEF Requests
    <3>3. a.reply = "sent" => row'[a.id] = NoRow
      BY <1>6, <2>2, <3>1, <3>2 DEF RequestsOK, StartsOnce
    <3>4. \A b \in inflight' : b.kind = "start" /\ b.id = a.id => b = a
      BY <1>2, <1>3, <1>6, <2>2, <3>1 DEF RequestsOK, StartsOnce
    <3>. QED
      BY <3>3, <3>4
  <2>. QED
    BY <1>3, <2>1, <2>2
<1>7. \A a \in Asks' : \E b \in Asks : b.id = a.id
  BY <1>2, <1>3 DEF Asks
<1>8. \A a, b \in Asks' : a = b
  BY <1>2, <1>3 DEF Asks, AsksOK
<1>. QED
  BY <1>5, <1>6, <1>7, <1>8 DEF RequestsOK, StartsOnce

LEMMA DroppedKept ==
  ASSUME RequestsOK, AsksOK, NEW m, inflight' = inflight \ {m}, row' = row
  PROVE  /\ RequestsOK'
         /\ \A a, b \in Asks' : a = b
         /\ \A a \in Asks' : a \in Asks /\ a # m
BY DEF RequestsOK, StartsOnce, AsksOK, Asks

LEMMA SentKept ==
  ASSUME RequestsOK, AsksOK, NEW m \in Requests, inflight' = inflight \cup {m}, row' = row,
         m.kind = "start" =>
           /\ row[m.id] = NoRow
           /\ \A n \in inflight : n.kind = "start" => n.id # m.id,
         m.kind = "ask" => Asks = {}
  PROVE  /\ RequestsOK'
         /\ \A a, b \in Asks' : a = b
         /\ \A a \in Asks' : a \in Asks \/ (a = m /\ m.kind = "ask")
BY DEF RequestsOK, StartsOnce, AsksOK, Asks

Cut(m) == [m EXCEPT !.reply = IF @ = "sent" THEN "error" ELSE @]

LEMMA CutKept ==
  ASSUME RequestsOK, AsksOK, inflight' = {Cut(m) : m \in inflight}, row' = row
  PROVE  /\ RequestsOK'
         /\ \A a, b \in Asks' : a = b
         /\ \A a \in Asks' : \E b \in Asks : b.id = a.id
<1>1. \A m \in inflight :
        /\ Cut(m) \in Requests /\ Cut(m).kind = m.kind /\ Cut(m).id = m.id
        /\ Cut(m).reply # "sent"
  BY DEF RequestsOK, Requests, Cut
<1>2. ASSUME NEW a \in inflight', a.kind = "start"
      PROVE  /\ a.reply # "sent"
             /\ \A b \in inflight' : b.kind = "start" /\ b.id = a.id => b = a
  <2>1. PICK m \in inflight : a = Cut(m)
    OBVIOUS
  <2>2. ASSUME NEW b \in inflight', b.kind = "start", b.id = a.id
        PROVE  b = a
    <3>1. PICK n \in inflight : b = Cut(n)
      OBVIOUS
    <3>2. n = m
      BY <1>1, <1>2, <2>1, <2>2, <3>1 DEF RequestsOK, StartsOnce
    <3>. QED
      BY <2>1, <3>1, <3>2
  <2>. QED
    BY <1>1, <2>1, <2>2
<1>3. \A a \in Asks' : \E b \in Asks : b.id = a.id /\ a = Cut(b)
  BY <1>1 DEF Asks
<1>4. \A a, b \in Asks : a = b
  BY DEF Asks, AsksOK
<1>5. \A a, b \in Asks' : a = b
  BY <1>3, <1>4
<1>. QED
  BY <1>1, <1>2, <1>3, <1>5 DEF RequestsOK, StartsOnce
-----------------------------------------------------------------------------
(* The messages on the page. *)
AllAbout(s, id) == \A i \in DOMAIN s : s[i].about = id

LEMMA AppendAbout ==
  ASSUME NEW s \in Seq(Notes), NEW id \in Cmps, NEW role \in {"user", "assistant"}
  PROVE  /\ Append(s, Note(id, role)) \in Seq(Notes)
         /\ Append(s, Note(id, role)) # <<>>
         /\ AllAbout(s, id) => AllAbout(Append(s, Note(id, role)), id)
<1>1. Note(id, role) \in Notes /\ Note(id, role).about = id
  BY DEF Note, Notes
<1> DEFINE x == Note(id, role)
<1> HIDE DEF x
<1>2. Append(s, x) \in Seq(Notes) /\ Append(s, x) # <<>>
  BY <1>1 DEF x
<1>3. /\ \A i \in 1..Len(s) : Append(s, x)[i] = s[i]
      /\ Append(s, x)[Len(s) + 1] = x
      /\ DOMAIN Append(s, x) = 1..(Len(s) + 1) /\ DOMAIN s = 1..Len(s) /\ Len(s) \in Nat
  BY <1>1 DEF x
<1>4. AllAbout(s, id) => AllAbout(Append(s, x), id)
  BY <1>1, <1>3 DEF AllAbout, x
<1>. QED
  BY <1>2, <1>4 DEF x

(* The page is unchanged and no question was added or readdressed. *)
PageInv == PageType /\ AsksOK /\ AboutShown
LEMMA PageSame ==
  ASSUME Inv, UNCHANGED <<running, result, qa, base, history, overlap>>, RequestsOK',
         \A a, b \in Asks' : a = b,
         \A a \in Asks' : \E b \in Asks : b.id = a.id
  PROVE  PageInv'
<1>1. PageType'
  BY DEF Inv, PageType, RequestsOK
<1>2. AsksOK'
  BY DEF Inv, AsksOK, Asks
<1>3. AboutShown'
  BY DEF Inv, AboutShown, Asks
<1>. QED
  BY <1>1, <1>2, <1>3 DEF PageInv

LEMMA InvParts ==
  /\ Inv => RequestsOK /\ AsksOK /\ ServerInv /\ PageInv
  /\ ServerInv' /\ RequestsOK' /\ PageInv' => Inv'
BY DEF Inv, RequestsOK, PageInv, PageType
-----------------------------------------------------------------------------
(* One lemma for each kind of step. *)
LEMMA ListedRows ==
  ASSUME RowsOK, NEW c \in Cmps
  PROVE  /\ row[c].status \in Statuses
         /\ row[c].status = "NONE" => row[c] = NoRow
<1>1. NoRow.status = "NONE"
  BY DEF NoRow, Row
<1>. QED
  BY <1>1 DEF RowsOK, Rows, Statuses

LEMMA CreateKept == ASSUME Inv, NEW m \in inflight, Create(m) PROVE Inv'
<1>1. m \in Requests
  BY DEF Inv, PageType
<1>2. ServerInv'
  BY <1>1, CreateServer DEF Inv
<1>3. PICK r \in Cmps : Replied(m, r)
  BY <1>1 DEF Create, CacheHits, Requests
<1>4. \A c \in Cmps : row'[c] = row[c] \/ (m.kind = "start" /\ c = m.id)
  BY <1>1 DEF Create, Inv, ServerInv, RowsOK
<1>5. Sent(m)
  BY DEF Create
<1>6. /\ RequestsOK'
      /\ \A a, b \in Asks' : a = b
      /\ \A a \in Asks' : \E b \in Asks : b.id = a.id
  BY <1>3, <1>4, <1>5, InvParts, RepliedKept
<1>7. PageInv'
  BY <1>6, PageSame DEF Create, page
<1>. QED
  BY <1>2, <1>6, <1>7, InvParts

LEMMA GetKept == ASSUME Inv, NEW m \in inflight, Get(m) PROVE Inv'
<1>1. m.id \in Cmps
  BY DEF Inv, PageType, Requests
<1>2. row[m.id].status \in Statuses
  BY <1>1, ListedRows DEF Inv, ServerInv
<1>3. Sent(m) /\ Replied(m, row[m.id].status) /\ UNCHANGED <<server, page>>
  BY DEF Get
<1>4. /\ RequestsOK'
      /\ \A a, b \in Asks' : a = b
      /\ \A a \in Asks' : \E b \in Asks : b.id = a.id
  BY <1>2, <1>3, InvParts, RepliedKept DEF server
<1>5. PageInv'
  BY <1>3, <1>4, PageSame DEF page
<1>6. ServerInv'
  BY <1>3, ServerSame DEF Inv, server
<1>. QED
  BY <1>4, <1>5, <1>6, InvParts

(* A thread writes rows of comparisons that were started: no start of them is
   waiting. *)
LEMMA ThreadKept == ASSUME Inv, NEW c \in Cmps, ThreadStep(c) PROVE Inv'
<1>1. ServerInv'
  BY ExtractPaperServer, ConcludeServer DEF ThreadStep, Inv
<1>2. /\ thread[c] = "extract" /\ UNCHANGED <<inflight, page>>
      /\ \A o \in Cmps \ {c} : row'[o] = row[o]
  BY DEF ThreadStep, ExtractPaper, Conclude, Inv, ServerInv, RowsOK
<1>3. row[c] # NoRow
  <2>1. row[c].status = "RUNNING"
    BY <1>2 DEF Inv, ServerInv, ThreadsOK
  <2>2. NoRow.status = "NONE"
    BY DEF NoRow, Row
  <2>. QED
    BY <2>1, <2>2
<1>4. RequestsOK'
  <2>1. \A m \in inflight : m.kind = "start" /\ m.reply = "sent" => m.id \in Cmps \ {c}
    BY <1>3 DEF Inv, StartsOnce, PageType, Requests
  <2>2. StartsOnce'
    BY <1>2, <2>1 DEF Inv, StartsOnce
  <2>. QED
    BY <1>2, <2>2 DEF Inv, PageType, RequestsOK
<1>5. (\A a, b \in Asks' : a = b) /\ (\A a \in Asks' : \E b \in Asks : b.id = a.id)
  BY <1>2 DEF Inv, AsksOK, Asks
<1>6. PageInv'
  BY <1>2, <1>4, <1>5, PageSame DEF page
<1>. QED
  BY <1>1, <1>4, <1>6, InvParts

LEMMA RestartKept == ASSUME Inv, Restart PROVE Inv'
<1>1. ServerInv'
  BY RestartServer DEF Inv
<1>2. inflight' = {Cut(m) : m \in inflight} /\ UNCHANGED <<row, page>>
  BY DEF Restart, Cut
<1>3. /\ RequestsOK'
      /\ \A a, b \in Asks' : a = b
      /\ \A a \in Asks' : \E b \in Asks : b.id = a.id
  BY <1>2, InvParts, CutKept
<1>4. PageInv'
  BY <1>2, <1>3, PageSame DEF page
<1>. QED
  BY <1>1, <1>3, <1>4, InvParts

(* The page's own steps leave the server alone. *)
LEMMA StartKept == ASSUME Inv, NEW c \in Cmps, Start(c) PROVE Inv'
<1> DEFINE m == Msg("start", c, 1, "sent")
<1>1. /\ row[c].status = "NONE" /\ \A n \in inflight : n.kind = "start" => n.id # c
      /\ inflight' = inflight \cup {m} /\ UNCHANGED <<row, thread, done>>
  BY DEF Start, Sending, server
<1>2. m \in Requests /\ m.kind = "start" /\ m.id = c
  BY DEF Msg, Requests
<1> HIDE DEF m
<1>3. row[c] = NoRow
  BY <1>1, ListedRows DEF Inv, ServerInv
<1>4. /\ RequestsOK'
      /\ \A a, b \in Asks' : a = b
      /\ \A a \in Asks' : a \in Asks \/ (a = m /\ m.kind = "ask")
  BY <1>1, <1>2, <1>3, InvParts, SentKept
<1>5. ServerInv'
  BY <1>1, ServerSame DEF Inv
<1>6. /\ running' = running /\ base' = base /\ history' = history
      /\ result' = [id |-> NoCmp, status |-> "NONE"] /\ qa' = <<>>
      /\ overlap' = (overlap \/ base # <<>>)
  BY DEF Start, Busy
<1>7. Asks' \subseteq Asks
  BY <1>2, <1>4
<1>8. PageType'
  BY <1>4, <1>6 DEF Inv, PageType, RequestsOK, Statuses
<1>9. AsksOK'
  BY <1>4, <1>6, <1>7 DEF Inv, AsksOK, Asks
<1>10. AboutShown'
  <2>1. CASE base # <<>>
    BY <1>6, <2>1 DEF AboutShown
  <2>2. CASE base = <<>>
    <3>1. Asks = {}
      BY <2>2 DEF Inv, AsksOK, Asks
    <3>. QED
      BY <1>6, <1>7, <2>2, <3>1 DEF AboutShown, Asks
  <2>. QED
    BY <2>1, <2>2
<1>. QED
  BY <1>4, <1>5, <1>8, <1>9, <1>10, InvParts DEF PageInv

(* A request of the page that asks nothing. *)
LEMMA SendKept ==
  ASSUME Inv, NEW m \in Requests, m.kind \in {"poll", "open"},
         inflight' = inflight \cup {m}, UNCHANGED <<server, page>>
  PROVE  Inv'
<1>1. /\ RequestsOK'
      /\ \A a, b \in Asks' : a = b
      /\ \A a \in Asks' : a \in Asks \/ (a = m /\ m.kind = "ask")
  BY InvParts, SentKept DEF server
<1>2. PageInv'
  BY <1>1, PageSame DEF page
<1>3. ServerInv'
  BY ServerSame DEF Inv, server
<1>. QED
  BY <1>1, <1>2, <1>3, InvParts

LEMMA PollKept == ASSUME Inv, PollAgain PROVE Inv'
<1>1. PICK n \in 1..MaxPolls : Poll(n)
  BY DEF PollAgain
<1>2. n \in Nat
  BY ComparisonAssumption
<1>3. running \in Cmps
  BY <1>1 DEF Poll, Inv, PageType
<1>4. Msg("poll", running, n, "sent") \in Requests /\ Msg("poll", running, n, "sent").kind = "poll"
  BY <1>2, <1>3 DEF Msg, Requests
<1>. QED
  BY <1>1, <1>4, SendKept DEF Poll, Sending

LEMMA OpenKept == ASSUME Inv, NEW c \in Cmps, Open(c) PROVE Inv'
<1>1. Msg("open", c, 1, "sent") \in Requests /\ Msg("open", c, 1, "sent").kind = "open"
  BY DEF Msg, Requests
<1>. QED
  BY <1>1, SendKept DEF Open, Sending

LEMMA AskKept == ASSUME Inv, Ask PROVE Inv'
<1> DEFINE id == result.id
           m == Msg("ask", id, 1, "sent")
           s == Append(qa, Note(id, "user"))
<1>1. id \in Cmps
  BY DEF Ask, Inv, PageType
<1>2. m \in Requests /\ m.kind = "ask" /\ m.id = id
  BY <1>1 DEF Msg, Requests
<1>3. /\ s \in Seq(Notes) /\ s # <<>>
      /\ AllAbout(qa, id) => AllAbout(s, id)
  BY <1>1, AppendAbout DEF Inv, PageType
<1>4. /\ base = <<>> /\ qa' = s /\ base' = s /\ inflight' = inflight \cup {m}
      /\ UNCHANGED <<running, result, history, overlap, row, thread, done>>
  BY DEF Ask, Busy, Sending, server
<1> HIDE DEF m, s
<1>5. Asks = {}
  BY <1>4 DEF Inv, AsksOK, Asks
<1>6. /\ RequestsOK'
      /\ \A a, b \in Asks' : a = b
      /\ \A a \in Asks' : a \in Asks \/ (a = m /\ m.kind = "ask")
  BY <1>2, <1>4, <1>5, InvParts, SentKept
<1>7. ServerInv'
  BY <1>4, ServerSame DEF Inv
<1>8. PageType'
  BY <1>3, <1>4, <1>6 DEF Inv, PageType, RequestsOK
<1>9. AsksOK'
  BY <1>3, <1>4, <1>6 DEF AsksOK, Asks
<1>10. AboutShown'
  <2>1. \A a \in Asks' : a.id = id
    BY <1>2, <1>5, <1>6
  <2>2. ~overlap => AllAbout(s, id)
    BY <1>3 DEF Inv, AboutShown, AllAbout
  <2>. QED
    BY <1>4, <2>1, <2>2 DEF AboutShown, AllAbout, Asks
<1>. QED
  BY <1>6, <1>7, <1>8, <1>9, <1>10, InvParts DEF PageInv

(* A reply is delivered: what it carries decides what the page shows next. *)
LEMMA StartedKept == ASSUME Inv, NEW m \in inflight, Started(m) PROVE Inv'
<1>1. /\ inflight' = inflight \ {m} /\ running' \in Cmps \cup {NoCmp}
      /\ UNCHANGED <<result, qa, base, history, overlap, row, thread, done>>
  BY DEF Started, server, Inv, PageType
<1>2. /\ RequestsOK'
      /\ \A a, b \in Asks' : a = b
      /\ \A a \in Asks' : a \in Asks /\ a # m
  BY <1>1, InvParts, DroppedKept
<1>3. ServerInv'
  BY <1>1, ServerSame DEF Inv
<1>4. PageType'
  BY <1>1, <1>2 DEF Inv, PageType, RequestsOK
<1>5. AsksOK'
  BY <1>1, <1>2 DEF Inv, AsksOK, Asks
<1>6. AboutShown'
  BY <1>1, <1>2 DEF Inv, AboutShown, Asks
<1>. QED
  BY <1>2, <1>3, <1>4, <1>5, <1>6, InvParts DEF PageInv

LEMMA PolledKept == ASSUME Inv, NEW m \in inflight, Polled(m) PROVE Inv'
<1>1. m.id \in Cmps
  BY DEF Inv, PageType, Requests
<1>2. /\ inflight' = inflight \ {m} /\ running' \in Cmps \cup {NoCmp}
      /\ UNCHANGED <<qa, base, row, thread, done>>
  BY <1>1 DEF Polled, server, Inv, PageType
<1>3. \/ UNCHANGED <<result, history, overlap>>
      \/ /\ result' = [id |-> m.id, status |-> "DONE"] /\ history' = Listed
         /\ overlap' = (overlap \/ (qa # <<>> /\ result.id # m.id))
  BY DEF Polled
<1>4. /\ RequestsOK'
      /\ \A a, b \in Asks' : a = b
      /\ \A a \in Asks' : a \in Asks /\ a # m
  BY <1>2, InvParts, DroppedKept
<1>5. ServerInv'
  BY <1>2, ServerSame DEF Inv
<1>6. PageType'
  <2>1. overlap' \in BOOLEAN
    BY <1>3, Zenon DEF Inv, PageType
  <2>2. result'.id \in Cmps \cup {NoCmp} /\ history' \subseteq Cmps
    BY <1>1, <1>3 DEF Inv, PageType, Listed
  <2>. QED
    BY <1>2, <1>4, <2>1, <2>2 DEF Inv, PageType, RequestsOK
<1>7. AsksOK'
  BY <1>2, <1>4 DEF Inv, AsksOK, Asks
<1>8. AboutShown'
  <2>1. CASE UNCHANGED <<result, history, overlap>>
    BY <1>2, <1>4, <2>1 DEF Inv, AboutShown, Asks
  <2>2. CASE /\ result' = [id |-> m.id, status |-> "DONE"]
             /\ overlap' = (overlap \/ (qa # <<>> /\ result.id # m.id))
    <3>1. CASE qa # <<>> /\ result.id # m.id
      BY <2>2, <3>1 DEF AboutShown
    <3>2. CASE result.id = m.id
      <4>1. result'.id = result.id /\ (~overlap' => ~overlap)
        BY <2>2, <3>2
      <4>. QED
        BY <1>2, <1>4, <4>1 DEF Inv, AboutShown, Asks
    <3>3. CASE qa = <<>>
      <4>1. ~overlap' => ~overlap
        BY <2>2
      <4>2. ~overlap => base = <<>>
        BY <3>3 DEF Inv, AboutShown
      <4>3. ~overlap => Asks = {}
        BY <4>2 DEF Inv, AsksOK, Asks
      <4>. QED
        BY <1>2, <1>4, <3>3, <4>1, <4>2, <4>3 DEF AboutShown, Asks
    <3>. QED
      BY <3>1, <3>2, <3>3
  <2>. QED
    BY <1>3, <2>1, <2>2
<1>. QED
  BY <1>4, <1>5, <1>6, <1>7, <1>8, InvParts DEF PageInv

LEMMA OpenedKept == ASSUME Inv, NEW m \in inflight, Opened(m) PROVE Inv'
<1>1. m.id \in Cmps /\ m.reply \in Cmps \cup Statuses \cup {"sent", "error"}
  BY DEF Inv, PageType, Requests
<1>2. inflight' = inflight \ {m} /\ UNCHANGED <<base, history, row, thread, done>>
  BY DEF Opened, server
<1>3. \/ UNCHANGED <<running, result, qa, overlap>>
      \/ /\ result' = [id |-> m.id, status |-> m.reply]
         /\ running' = NoCmp /\ qa' = <<>> /\ overlap' = (overlap \/ base # <<>>)
  BY DEF Opened, Busy
<1>4. /\ RequestsOK'
      /\ \A a, b \in Asks' : a = b
      /\ \A a \in Asks' : a \in Asks /\ a # m
  BY <1>2, InvParts, DroppedKept
<1>5. ServerInv'
  BY <1>2, ServerSame DEF Inv
<1>6. PageType'
  <2>1. overlap' \in BOOLEAN
    BY <1>3, Zenon DEF Inv, PageType
  <2>2. running' \in Cmps \cup {NoCmp} /\ result'.id \in Cmps \cup {NoCmp}
    BY <1>1, <1>3 DEF Inv, PageType
  <2>3. qa' \in Seq(Notes)
    <3>1. qa' = qa \/ qa' = <<>>
      BY <1>3
    <3>2. qa \in Seq(Notes) /\ <<>> \in Seq(Notes)
      BY DEF Inv, PageType
    <3>. QED
      BY <3>1, <3>2
  <2>. QED
    BY <1>2, <1>4, <2>1, <2>2, <2>3 DEF Inv, PageType, RequestsOK
<1>7. AsksOK'
  BY <1>2, <1>4 DEF Inv, AsksOK, Asks
<1>8. AboutShown'
  <2>1. CASE UNCHANGED <<running, result, qa, overlap>>
    BY <1>2, <1>4, <2>1 DEF Inv, AboutShown, Asks
  <2>2. CASE qa' = <<>> /\ overlap' = (overlap \/ base # <<>>)
    <3>1. CASE base # <<>>
      BY <2>2, <3>1 DEF AboutShown
    <3>2. CASE base = <<>>
      <4>1. Asks = {}
        BY <3>2 DEF Inv, AsksOK, Asks
      <4>. QED
        BY <1>2, <1>4, <2>2, <3>2, <4>1 DEF AboutShown, Asks
    <3>. QED
      BY <3>1, <3>2
  <2>. QED
    BY <1>3, <2>1, <2>2
<1>. QED
  BY <1>4, <1>5, <1>6, <1>7, <1>8, InvParts DEF PageInv

LEMMA AnsweredKept == ASSUME Inv, NEW m \in inflight, Answered(m) PROVE Inv'
<1> DEFINE s == Append(base, Note(m.id, "assistant"))
<1>1. m \in Asks /\ m.id \in Cmps
  BY DEF Answered, Asks, Inv, PageType, Requests
<1>2. /\ s \in Seq(Notes)
      /\ AllAbout(base, m.id) => AllAbout(s, m.id)
  BY <1>1, AppendAbout DEF Inv, PageType
<1>3. /\ inflight' = inflight \ {m} /\ qa' \in {qa, s} /\ base' = <<>>
      /\ UNCHANGED <<running, result, history, overlap, row, thread, done>>
  BY DEF Answered, server
<1> HIDE DEF s
<1>4. /\ RequestsOK'
      /\ \A a, b \in Asks' : a = b
      /\ \A a \in Asks' : a \in Asks /\ a # m
  BY <1>3, InvParts, DroppedKept
<1>5. Asks' = {}
  BY <1>1, <1>4 DEF Inv, AsksOK, Asks
<1>6. ServerInv'
  BY <1>3, ServerSame DEF Inv
<1>7. PageType'
  BY <1>2, <1>3, <1>4 DEF Inv, PageType, RequestsOK
<1>8. AsksOK'
  BY <1>5 DEF AsksOK, Asks
<1>9. AboutShown'
  <2>1. ~overlap => m.id = result.id /\ base = qa /\ AllAbout(qa, result.id)
    BY <1>1 DEF Inv, AboutShown, AsksOK, Asks, AllAbout
  <2>2. ~overlap => AllAbout(qa', result.id)
    BY <1>2, <1>3, <2>1
  <2>. QED
    BY <1>3, <1>5, <2>2 DEF AboutShown, AllAbout, Asks
<1>. QED
  BY <1>4, <1>6, <1>7, <1>8, <1>9, InvParts DEF PageInv
-----------------------------------------------------------------------------
LEMMA Initially == Init => Inv
<1>. SUFFICES ASSUME Init PROVE Inv
  OBVIOUS
<1>1. ServerInv
  BY EmptyPool, FirstRows DEF Init, ServerInv, RowsOK, PoolsOK, ThreadType, ThreadsOK
<1>2. RequestsOK /\ AsksOK
  BY DEF Init, RequestsOK, StartsOnce, AsksOK
<1>3. PageType
  <2>1. <<>> \in Seq(Notes)
    OBVIOUS
  <2>2. qa = <<>> /\ base = <<>> /\ inflight = {} /\ history = {}
    BY DEF Init
  <2>3. running = NoCmp /\ result.id = NoCmp /\ overlap \in BOOLEAN
    BY DEF Init
  <2>. QED
    BY <2>1, <2>2, <2>3 DEF PageType
<1>4. AboutShown
  BY DEF Init, AboutShown
<1>. QED
  BY <1>1, <1>2, <1>3, <1>4 DEF Inv, RequestsOK

LEMMA Stuttered == Inv /\ UNCHANGED vars => Inv'
<1>. SUFFICES ASSUME Inv, UNCHANGED vars PROVE Inv'
  OBVIOUS
<1>1. ServerInv'
  BY ServerSame DEF Inv, vars
<1>2. RequestsOK' /\ PageType' /\ AsksOK' /\ AboutShown'
  BY DEF vars, Inv, RequestsOK, StartsOnce, PageType, AsksOK, AboutShown
<1>. QED
  BY <1>1, <1>2 DEF Inv, RequestsOK

LEMMA Preserved == Inv /\ [Next]_vars => Inv'
<1>. SUFFICES ASSUME Inv, [Next]_vars PROVE Inv'
  OBVIOUS
<1>1. CASE Serve
  BY <1>1, CreateKept, GetKept DEF Serve
<1>2. CASE Deliver
  BY <1>2, StartedKept, PolledKept, OpenedKept, AnsweredKept DEF Deliver
<1>3. CASE PollAgain \/ Restart \/ Ask
  BY <1>3, PollKept, RestartKept, AskKept
<1>4. CASE \E c \in Cmps : ThreadStep(c) \/ Start(c) \/ Open(c)
  BY <1>4, ThreadKept, StartKept, OpenKept
<1>5. CASE UNCHANGED vars
  BY <1>5, Stuttered
<1>. QED
  BY <1>1, <1>2, <1>3, <1>4, <1>5 DEF Next

THEOREM Invariance == Spec => []Inv
<1>. QED
  BY Initially, Preserved, PTL DEF Spec

(* For every set of papers, fields, drafts and artifacts: a stored table keeps *)
(* the papers apart, in every order the pool may finish them.                  *)
THEOREM TablesHold == Spec => []TableKeepsPapersApart
<1>1. Inv => TableKeepsPapersApart
  <2>. SUFFICES ASSUME Inv, NEW c \in Cmps, row[c].status = "DONE"
                PROVE  /\ DOMAIN row[c].table = Papers
                       /\ \A p \in Papers, f \in Fields :
                            LET cell == row[c].table[p][f]
                            IN /\ cell.paper = p /\ cell.field = f
                               /\ cell.evidence \subseteq Ledger[p] \cup ArtifactEvidence
                               /\ cell.status = "FOUND" => cell.value /\ cell.evidence # {}
    BY DEF TableKeepsPapersApart
  <2>1. NoRow.status = "NONE"
    BY DEF NoRow, Row
  <2>2. row[c].table \in Tables
    BY <2>1 DEF Inv, ServerInv, RowsOK, Rows
  <2>. QED
    BY <2>2, TableFacts, Zenon
<1>. QED
  BY <1>1, Invariance, PTL

(* Whatever the page overlaps: messages about another comparison than the one  *)
(* shown have that one reason.                                                 *)
THEOREM ForeignAnswersExplained == Spec => []ForeignAnswersOnlyFromOverlap
<1>1. Inv => ForeignAnswersOnlyFromOverlap
  BY DEF Inv, AboutShown, ForeignAnswersOnlyFromOverlap
<1>. QED
  BY <1>1, Invariance, PTL
-----------------------------------------------------------------------------
(* What a step does to a row.                                                  *)
LEMMA RowSteps ==
  ASSUME Inv, Next, NEW c \in Cmps
  PROVE  \/ row'[c] = row[c]
         \/ row[c] = NoRow /\ row'[c] = Row("RUNNING", 0, NoTable)
         \/ \E p \in Papers : ExtractPaper(c, p)
         \/ Conclude(c)
<1>1. CASE Serve
  <2>1. PICK m \in inflight : Create(m) \/ Get(m)
    BY <1>1 DEF Serve
  <2>2. CASE Get(m)
    BY <2>2 DEF Get, server
  <2>3. CASE Create(m)
    <3>1. Sent(m) /\ m.kind = "start"
      BY <2>3 DEF Create
    <3>2. row[m.id] = NoRow
      BY <3>1 DEF Inv, StartsOnce, Sent
    <3>. QED
      BY <2>3, <3>2 DEF Create, Inv, ServerInv, RowsOK
  <2>. QED
    BY <2>1, <2>2, <2>3
<1>2. CASE Deliver
  BY <1>2 DEF Deliver, Started, Polled, Opened, Answered, server
<1>3. CASE PollAgain \/ Restart \/ Ask
  BY <1>3 DEF PollAgain, Poll, Restart, Ask, server
<1>4. CASE \E o \in Cmps : Start(o) \/ Open(o)
  BY <1>4 DEF Start, Open, server
<1>5. CASE \E o \in Cmps : ThreadStep(o)
  <2>1. PICK o \in Cmps : ThreadStep(o)
    BY <1>5
  <2>2. CASE o = c
    BY <2>1, <2>2 DEF ThreadStep
  <2>3. CASE o # c
    BY <2>1, <2>3 DEF ThreadStep, ExtractPaper, Conclude, Inv, ServerInv, RowsOK
  <2>. QED
    BY <2>2, <2>3
<1>. QED
  BY <1>1, <1>2, <1>3, <1>4, <1>5 DEF Next

LEMMA ExtractMovesForward ==
  ASSUME Inv, NEW c \in Cmps, NEW p \in Papers, ExtractPaper(c, p)
  PROVE  Forward(row[c], row'[c]) /\ row'[c].status = "RUNNING"
<1>1. row'[c] = Row("RUNNING", Cardinality(Papers \ Pending(c)) + 1, NoTable)
  BY DEF ExtractPaper, Inv, ServerInv, RowsOK
<1>2. row[c].status = "RUNNING" /\ row[c].progress <= Cardinality(Papers \ Pending(c))
  BY DEF ExtractPaper, Inv, ServerInv, ThreadsOK
<1>3. row[c].progress \in Nat /\ Cardinality(Papers \ Pending(c)) \in Nat
  <2>1. NoRow.status = "NONE"
    BY DEF NoRow, Row
  <2>. QED
    BY <2>1, <1>2, PapersCounted DEF Inv, ServerInv, RowsOK, Rows
<1>4. /\ row'[c].status = "RUNNING"
      /\ row'[c].progress = Cardinality(Papers \ Pending(c)) + 1
  BY <1>1 DEF Row
<1>5. row'[c].progress >= row[c].progress
  BY <1>2, <1>3, <1>4
<1>. QED
  BY <1>2, <1>4, <1>5 DEF Forward, Finished

LEMMA ConcludeMovesForward ==
  ASSUME Inv, NEW c \in Cmps, Conclude(c)
  PROVE  /\ Forward(row[c], row'[c])
         /\ row'[c].status = "FAILED" => AssemblyRaises(done[c])
         /\ done[c] \in Complete
<1>1. row[c].status = "RUNNING" /\ done[c] \in Complete
  BY AllExtracted DEF Conclude, Inv, ServerInv, ThreadsOK
<1>2. row'[c] = IF AssemblyRaises(done[c]) THEN Row("FAILED", 0, NoTable)
                ELSE Row("DONE", Cardinality(Papers), Assembled(done[c]))
  BY DEF Conclude, Inv, ServerInv, RowsOK
<1>3. CASE AssemblyRaises(done[c])
  <2>1. row'[c].status = "FAILED"
    BY <1>2, <1>3 DEF Row
  <2>. QED
    BY <1>1, <1>3, <2>1 DEF Forward, Finished
<1>4. CASE ~AssemblyRaises(done[c])
  <2>1. row'[c].status = "DONE"
    BY <1>2, <1>4 DEF Row
  <2>. QED
    BY <1>1, <2>1 DEF Forward, Finished
<1>. QED
  BY <1>3, <1>4

(* A finished row is final and reported progress never goes back, for any number *)
(* of papers the pool may finish in any order, and across restarts.              *)
THEOREM RowsGoForward == Spec => ResultsAreFinal
<1>1. ASSUME Inv, [Next]_vars, NEW c \in Cmps
      PROVE  Forward(row[c], row'[c])
  <2>1. CASE row'[c] = row[c]
    <3>1. row[c].status = "RUNNING" => row[c].progress \in Nat
      <4>1. NoRow.status = "NONE"
        BY DEF NoRow, Row
      <4>2. row[c] \in Rows
        BY <1>1 DEF Inv, ServerInv, RowsOK
      <4>. QED
        BY <4>1, <4>2 DEF Rows
    <3>2. row[c].status = "RUNNING" => row[c].progress >= row[c].progress
      BY <3>1
    <3>. QED
      BY <2>1, <3>2 DEF Forward
  <2>2. CASE row[c] = NoRow /\ row'[c] = Row("RUNNING", 0, NoTable)
    <3>1. row[c].status = "NONE" /\ row[c].progress = 0 /\ row'[c].progress = 0
      BY <2>2 DEF NoRow, Row
    <3>. QED
      BY <3>1 DEF Forward, Finished
  <2>3. CASE UNCHANGED vars
    BY <2>3, <2>1 DEF vars
  <2>4. CASE Next
    BY <1>1, <2>1, <2>2, <2>4, RowSteps, ExtractMovesForward, ConcludeMovesForward
  <2>. QED
    BY <1>1, <2>3, <2>4
<1>2. Inv /\ [Next]_vars => [\A c \in Cmps : Forward(row[c], row'[c])]_row
  BY <1>1
<1>. QED
  BY <1>2, Invariance, PTL DEF Spec, ResultsAreFinal

(* Whatever the extractor drafts: a comparison that fails had a FOUND cell       *)
(* without value or evidence in one of its extractions, and no other reason.     *)
THEOREM FailuresExplained == Spec => FailsOnlyOnBareCells
<1> DEFINE Bare(c) == \E p \in Papers : \E cell \in done[c][p].cells :
                        cell.status = "FOUND" /\ (~cell.value \/ cell.evidence = {})
<1>1. ASSUME Inv, Next, NEW c \in Cmps, row'[c].status = "FAILED", row[c].status # "FAILED"
      PROVE  Bare(c)
  <2>1. CASE row[c] = NoRow /\ row'[c] = Row("RUNNING", 0, NoTable)
    <3>1. row'[c].status = "RUNNING"
      BY <2>1 DEF Row
    <3>. QED
      BY <3>1, <1>1
  <2>2. CASE \E p \in Papers : ExtractPaper(c, p)
    BY <1>1, <2>2, ExtractMovesForward
  <2>3. CASE Conclude(c)
    <3>1. done[c] \in Complete /\ AssemblyRaises(done[c])
      BY <1>1, <2>3, ConcludeMovesForward
    <3>. QED
      BY <3>1, RaisesOnBareCell
  <2>. QED
    BY <1>1, <2>1, <2>2, <2>3, RowSteps
<1>2. Inv /\ [Next]_vars =>
        [\A c \in Cmps : row'[c].status = "FAILED" /\ row[c].status # "FAILED" =>
           \E p \in Papers : \E cell \in done[c][p].cells :
             cell.status = "FOUND" /\ (~cell.value \/ cell.evidence = {})]_vars
  BY <1>1
<1>. QED
  BY <1>2, Invariance, PTL DEF Spec, FailsOnlyOnBareCells
=============================================================================
