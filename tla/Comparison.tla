----------------------------- MODULE Comparison -----------------------------
(***************************************************************************)
(* Comparing two or three papers: POST /api/v1/comparisons starts a daemon *)
(* thread that extracts every paper on its own, assembles the table in     *)
(* code and stores each step in the comparison's row, and the compare page *)
(* polls that row, shows the finished table and asks questions about it.   *)
(* All comparisons here are over the same papers and fields, as when a     *)
(* user repeats one.  The page's requests are messages in flight: sent,    *)
(* answered by the server, delivered to a page that moved on meanwhile.    *)
(***************************************************************************)
EXTENDS Naturals, FiniteSets, Sequences

CONSTANTS
  Cmps,        \* comparison ids
  Papers,      \* the paper versions that are compared
  Fields,      \* the fields that are compared
  Evidence,    \* evidence ids
  Ledger,      \* paper -> the evidence its chunks yield
  Drafts,      \* what the extractor model may answer, for any paper
  Artifacts,   \* what the understanding artifact of a paper may have FOUND
  NoCmp,       \* no comparison
  MaxPolls,    \* bound: polls in flight at the same time
  MaxInFlight, \* bound: requests in flight at the same time
  MaxAsks,     \* bound: questions asked on the page
  MaxRestarts  \* bound: restarts of the server

ASSUME ComparisonAssumption ==
  /\ IsFiniteSet(Papers) /\ Cardinality(Papers) \in 2..3
  /\ NoCmp \notin Cmps /\ "sent" \notin Cmps
  /\ Ledger \in [Papers -> SUBSET Evidence]
  /\ MaxPolls \in Nat /\ MaxInFlight \in Nat /\ MaxAsks \in Nat /\ MaxRestarts \in Nat

VARIABLES
  row,        \* comparison -> its row: status, progress and table
  thread,     \* comparison -> where its background thread is
  done,       \* comparison -> paper -> the extraction that finished, if any
  running,    \* the comparison the page polls, NoCmp if none
  result,     \* the comparison the page shows: its id and the status loaded
  qa,         \* the questions and answers shown, each with its comparison
  base,       \* while a question is pending: the messages it will extend
  history,    \* the comparisons the page's history lists
  inflight,   \* requests of the page that have not been delivered
  broken,     \* rendering the page threw
  asked, restarts,  \* bounded counters
  overlap     \* history: the shown comparison changed under a pending question
              \* or under messages that were kept

server == <<row, thread, done, restarts>>
page == <<running, result, qa, base, history, broken, asked, overlap>>
vars == <<row, thread, done, running, result, qa, base, history, inflight,
          broken, asked, restarts, overlap>>
-----------------------------------------------------------------------------
(* Extraction of one paper, and the table assembled from the extractions.   *)
Cell(p, f, status, value, evidence) ==
  [paper |-> p, field |-> f, status |-> status, value |-> value, evidence |-> evidence]

(* A draft lists its cells; of two for one field the index of the assembly keeps
   the last. *)
CellsOf(draft) == {draft.cells[i] : i \in DOMAIN draft.cells}
Indexed(draft) ==
  {draft.cells[i] : i \in {i \in DOMAIN draft.cells :
     \A k \in DOMAIN draft.cells : draft.cells[k].field = draft.cells[i].field => k <= i}}

(* Mutant: the evidence of the draft is not checked. *)
AcceptsForeignEvidence(p, fields, draft) ==
  /\ draft.paper = p
  /\ {c.field : c \in CellsOf(draft)} = fields
  /\ \A c \in CellsOf(draft) : c.paper = p /\ (c.status = "FOUND" => c.evidence # {})

(* extract_one refuses a draft about another paper or other fields, evidence
   that is not in this paper's ledger, and FOUND without evidence: but not FOUND
   without a value. *)
Accepted(p, fields, draft) ==
  /\ draft.paper = p
  /\ {c.field : c \in CellsOf(draft)} = fields
  /\ \A c \in CellsOf(draft) :
       /\ c.paper = p
       /\ c.evidence \subseteq Ledger[p]
       /\ c.status = "FOUND" => c.evidence # {}

(* Fields the artifact has are reused; the model is asked for the others, if any.
   A failure turns every cell of this paper into a parse gap. *)
Reused(p, artifact) == {Cell(p, a.field, "FOUND", TRUE, a.evidence) : a \in artifact}
Missing(artifact) == Fields \ {a.field : a \in artifact}
Cited(artifact) == UNION {a.evidence : a \in artifact}

Extracted(p, artifact, draft) ==
  IF Missing(artifact) = {}
  THEN [cells |-> Reused(p, artifact), known |-> Cited(artifact)]
  ELSE IF Accepted(p, Missing(artifact), draft)
       THEN [cells |-> Indexed(draft) \cup Reused(p, artifact), known |-> Ledger[p] \cup Cited(artifact)]
       ELSE [cells |-> {Cell(p, f, "PARSE_GAP", FALSE, {}) : f \in Fields}, known |-> {}]

(* A missing cell becomes a placeholder: not found is not the same as not reported. *)
TableCell(cells, p, f) ==
  IF \E c \in cells : c.paper = p /\ c.field = f
  THEN CHOOSE c \in cells : c.paper = p /\ c.field = f
  ELSE Cell(p, f, "NOT_FOUND", FALSE, {})

Assembled(extractions) ==
  LET cells == UNION {extractions[p].cells : p \in Papers}
  IN [p \in Papers |-> [f \in Fields |-> TableCell(cells, p, f)]]

(* Mutant: the assembly checks evidence only. *)
AssemblyIgnoresValues(extractions) ==
  \E p \in Papers, f \in Fields :
    ~(Assembled(extractions)[p][f].evidence \subseteq extractions[p].known)

(* assemble_comparison raises, and with it the whole comparison, on evidence a
   paper does not know and on FOUND without a value or evidence. *)
AssemblyRaises(extractions) ==
  \E p \in Papers, f \in Fields :
    LET c == Assembled(extractions)[p][f]
    IN \/ ~(c.evidence \subseteq extractions[p].known)
       \/ c.status = "FOUND" /\ (~c.value \/ c.evidence = {})
-----------------------------------------------------------------------------
(* The server: the POST, its thread and a restart.                          *)
NoTable == <<>>
NotExtracted == [cells |-> {}, known |-> {}, missing |-> TRUE]
Row(status, progress, table) == [status |-> status, progress |-> progress, table |-> table]
NoRow == Row("NONE", 0, NoTable)
Finished(status) == status \in {"DONE", "FAILED"}
Pending(c) == {p \in Papers : done[c][p] = NotExtracted}

Init ==
  /\ row = [c \in Cmps |-> NoRow]
  /\ thread = [c \in Cmps |-> "none"]
  /\ done = [c \in Cmps |-> [p \in Papers |-> NotExtracted]]
  /\ running = NoCmp
  /\ result = [id |-> NoCmp, status |-> "NONE"]
  /\ qa = <<>> /\ base = <<>>
  /\ history = {}
  /\ inflight = {}
  /\ broken = FALSE
  /\ asked = 0 /\ restarts = 0
  /\ overlap = FALSE

Msg(kind, id, n, reply) == [kind |-> kind, id |-> id, n |-> n, reply |-> reply]
Sent(m) == m \in inflight /\ m.reply = "sent"
Replied(m, reply) == inflight' = (inflight \ {m}) \cup {[m EXCEPT !.reply = reply]}

(* The fields list_comparisons returns for a row: it returns none. *)
ListedFields(c) == {}
CacheHits == {c \in Cmps : row[c].status = "DONE" /\ ListedFields(c) = Fields}

(* create_comparison: a hit of the cache loop is answered with that comparison;
   otherwise the initial row is stored before the thread starts. *)
Create(m) ==
  /\ Sent(m) /\ m.kind = "start"
  /\ IF CacheHits # {}
     THEN /\ \E hit \in CacheHits : Replied(m, hit)
          /\ UNCHANGED <<row, thread>>
     ELSE /\ row' = [row EXCEPT ![m.id] = Row("RUNNING", 0, NoTable)]
          /\ thread' = [thread EXCEPT ![m.id] = "extract"]
          /\ Replied(m, m.id)
  /\ UNCHANGED <<done, restarts, page>>

(* A worker of the pool finishes a paper; the thread stores the progress. *)
ExtractPaper(c, p) ==
  /\ thread[c] = "extract" /\ p \in Pending(c)
  /\ \E artifact \in Artifacts, draft \in Drafts :
       done' = [done EXCEPT ![c][p] = Extracted(p, artifact, draft)]
  /\ row' = [row EXCEPT ![c] = Row("RUNNING", Cardinality(Papers \ Pending(c)) + 1, NoTable)]
  /\ UNCHANGED <<thread, restarts, inflight, page>>

(* Mutant: the result is assembled before the pool has finished. *)
ConcludeEarly(c) ==
  /\ thread[c] = "extract" /\ Pending(c) # Papers
  /\ row' = [row EXCEPT ![c] = Row("DONE", Cardinality(Papers), NoTable)]
  /\ UNCHANGED <<thread, done, restarts, inflight, page>>

(* The thread assembles the table, stores the result or the failure, and ends; the
   event it then publishes is not one the page listens to. *)
Conclude(c) ==
  /\ thread[c] = "extract" /\ Pending(c) = {}
  /\ row' = [row EXCEPT ![c] =
       IF AssemblyRaises(done[c]) THEN Row("FAILED", 0, NoTable)
       ELSE Row("DONE", Cardinality(Papers), Assembled(done[c]))]
  /\ thread' = [thread EXCEPT ![c] = "ended"]
  /\ done' = [done EXCEPT ![c] = [p \in Papers |-> NotExtracted]]
  /\ UNCHANGED <<restarts, inflight, page>>

(* GET of one comparison. *)
Get(m) ==
  /\ Sent(m) /\ m.kind \in {"poll", "open"}
  /\ Replied(m, row[m.id].status)
  /\ UNCHANGED <<server, page>>

(* A restart ends the threads and every request in flight; nothing resumes a
   RUNNING row. *)
Restart ==
  /\ restarts < MaxRestarts
  /\ restarts' = restarts + 1
  /\ thread' = [c \in Cmps |-> IF thread[c] = "extract" THEN "lost" ELSE thread[c]]
  /\ done' = [c \in Cmps |-> [p \in Papers |-> NotExtracted]]
  /\ inflight' = {[m EXCEPT !.reply = IF @ = "sent" THEN "error" ELSE @] : m \in inflight}
  /\ UNCHANGED <<row, page>>
-----------------------------------------------------------------------------
(* The compare page.  A reply is delivered to whatever the page shows then. *)
Note(id, role) == [about |-> id, role |-> role]
Busy == base # <<>>
Listed == {c \in Cmps : row[c].status # "NONE"}
Sending(m) ==
  /\ Cardinality(inflight) < MaxInFlight
  /\ inflight' = inflight \cup {m}

(* The start button: only `running` guards it, so it can be pressed again while
   the POST is in flight. *)
Start(c) ==
  /\ ~broken /\ running = NoCmp
  /\ row[c].status = "NONE" /\ \A m \in inflight : m.kind = "start" => m.id # c
  /\ Sending(Msg("start", c, 1, "sent"))
  /\ result' = [id |-> NoCmp, status |-> "NONE"]
  /\ qa' = <<>>
  /\ overlap' = (overlap \/ Busy)
  /\ UNCHANGED <<running, base, history, broken, asked, server>>

Started(m) ==
  /\ m \in inflight /\ m.kind = "start" /\ m.reply # "sent"
  /\ inflight' = inflight \ {m}
  /\ running' = IF m.reply \in Cmps /\ ~broken THEN m.reply ELSE running
  /\ UNCHANGED <<result, qa, base, history, broken, asked, overlap, server>>

(* The interval of the polling effect fires. *)
Poll(n) ==
  /\ running # NoCmp
  /\ \A m \in inflight : m.kind = "poll" => m.n # n
  /\ Sending(Msg("poll", running, n, "sent"))
  /\ UNCHANGED <<page, server>>

(* Mutant: a failed run is not left. *)
PolledIgnoresFailure(m) ==
  /\ m \in inflight /\ m.kind = "poll" /\ m.reply # "sent"
  /\ inflight' = inflight \ {m}
  /\ running' = IF m.reply = "DONE" THEN NoCmp ELSE running
  /\ result' = IF m.reply = "DONE" THEN [id |-> m.id, status |-> "DONE"] ELSE result
  /\ UNCHANGED <<qa, base, history, broken, asked, overlap, server>>

(* A poll is answered.  RUNNING sets `running` again, also when the user left
   that run meanwhile; DONE replaces what is shown and keeps the messages. *)
Polled(m) ==
  /\ m \in inflight /\ m.kind = "poll" /\ m.reply # "sent"
  /\ inflight' = inflight \ {m}
  /\ running' = IF broken \/ m.reply = "error" THEN running
                ELSE IF Finished(m.reply) THEN NoCmp ELSE m.id
  /\ IF m.reply = "DONE" /\ ~broken
     THEN /\ result' = [id |-> m.id, status |-> "DONE"]
          /\ history' = Listed
          /\ overlap' = (overlap \/ (qa # <<>> /\ result.id # m.id))
     ELSE UNCHANGED <<result, history, overlap>>
  /\ UNCHANGED <<qa, base, broken, asked, server>>

Open(c) ==
  /\ ~broken /\ c \in history
  /\ Sending(Msg("open", c, 1, "sent"))
  /\ Msg("open", c, 1, "sent") \notin inflight
  /\ UNCHANGED <<page, server>>

(* Mutant: the messages of the comparison shown before are kept. *)
OpenedKeepsMessages(m) ==
  /\ m \in inflight /\ m.kind = "open" /\ m.reply # "sent"
  /\ inflight' = inflight \ {m}
  /\ result' = IF m.reply = "error" THEN result ELSE [id |-> m.id, status |-> m.reply]
  /\ running' = NoCmp
  /\ overlap' = (overlap \/ Busy)
  /\ UNCHANGED <<qa, base, history, broken, asked, server>>

(* openComparison shows whatever row it got; grouping the fields of a row that
   has no table yet throws while rendering. *)
Opened(m) ==
  /\ m \in inflight /\ m.kind = "open" /\ m.reply # "sent"
  /\ inflight' = inflight \ {m}
  /\ IF m.reply = "error" \/ broken
     THEN UNCHANGED <<running, result, qa, broken, overlap>>
     ELSE /\ result' = [id |-> m.id, status |-> m.reply]
          /\ running' = NoCmp
          /\ qa' = <<>>
          /\ broken' = (m.reply # "DONE")
          /\ overlap' = (overlap \/ Busy)
  /\ UNCHANGED <<base, history, asked, server>>

Ask ==
  /\ ~broken /\ result.id # NoCmp /\ ~Busy
  /\ asked < MaxAsks /\ asked' = asked + 1
  /\ qa' = Append(qa, Note(result.id, "user"))
  /\ base' = qa'
  /\ Sending(Msg("ask", result.id, 1, "sent"))
  /\ UNCHANGED <<running, result, history, broken, overlap, server>>

(* The server answers a question about a DONE comparison, or the request fails;
   either way a message is appended to those shown when it was asked. *)
Answered(m) ==
  /\ m \in inflight /\ m.kind = "ask"
  /\ inflight' = inflight \ {m}
  /\ qa' = IF broken THEN qa ELSE Append(base, Note(m.id, "assistant"))
  /\ base' = <<>>
  /\ UNCHANGED <<running, result, history, broken, asked, overlap, server>>
-----------------------------------------------------------------------------
ThreadStep(c) == Conclude(c) \/ \E p \in Papers : ExtractPaper(c, p)
Serve == \E m \in inflight : Create(m) \/ Get(m)
Deliver == \E m \in inflight : Started(m) \/ Polled(m) \/ Opened(m) \/ Answered(m)
PollAgain == \E n \in 1..MaxPolls : Poll(n)

Next ==
  \/ Serve \/ Deliver \/ PollAgain \/ Restart \/ Ask
  \/ \E c \in Cmps : ThreadStep(c) \/ Start(c) \/ Open(c)

(* Threads run, the server answers, replies arrive and the interval keeps firing;
   users need not do anything. *)
Fairness ==
  /\ \A c \in Cmps : WF_vars(ThreadStep(c))
  /\ WF_vars(Serve) /\ WF_vars(Deliver) /\ WF_vars(PollAgain)

Spec == Init /\ [][Next]_vars /\ Fairness
-----------------------------------------------------------------------------
(* A finished table has exactly one cell for each field of each paper, made from
   that paper: its evidence is in the paper's ledger or its artifact, and what it
   claims to have FOUND has a value and evidence, whatever the model drafted and
   however the papers' extractions interleaved or failed. *)
ArtifactEvidence == UNION {a.evidence : a \in UNION Artifacts}
TableKeepsPapersApart ==
  \A c \in Cmps : row[c].status = "DONE" =>
    /\ DOMAIN row[c].table = Papers
    /\ \A p \in Papers, f \in Fields :
         LET cell == row[c].table[p][f]
         IN /\ cell.paper = p /\ cell.field = f
            /\ cell.evidence \subseteq Ledger[p] \cup ArtifactEvidence
            /\ cell.status = "FOUND" => cell.value /\ cell.evidence # {}

(* The only way a comparison fails is a FOUND cell without value or evidence:
   a paper whose extraction failed never takes the others with it. *)
FailsOnlyOnBareCells ==
  [][\A c \in Cmps : row'[c].status = "FAILED" /\ row[c].status # "FAILED" =>
       \E p \in Papers : \E cell \in done[c][p].cells :
         cell.status = "FOUND" /\ (~cell.value \/ cell.evidence = {})]_vars

(* A row that a poll may have reported finished never changes again, and the
   progress it reports never goes back. *)
Forward(old, new) ==
  IF Finished(old.status) THEN new = old
  ELSE new.status = "RUNNING" => new.progress >= old.progress
ResultsAreFinal == [][\A c \in Cmps : Forward(row[c], row'[c])]_row

(* Messages about another comparison than the one shown only appear when the
   shown comparison changed under a pending question, or when a poll of a run
   the user had left replaced it. *)
ForeignAnswersOnlyFromOverlap ==
  (\E i \in DOMAIN qa : qa[i].about # result.id) => overlap

(* A run the page polls is resolved, however replies are delayed or reordered,
   unless a restart lost its thread. *)
RunsAreResolved ==
  \A c \in Cmps : (running = c) ~> (running # c \/ thread[c] = "lost")

(* main.py:1237: a repeated comparison returns the latest DONE result at once. *)
RepeatedComparisonIsCached ==
  [][\A c \in Cmps : row[c].status = "NONE" /\ row'[c].status # "NONE" =>
       \A d \in Cmps : row[d].status # "DONE"]_row
=============================================================================
