# PaperLens: a TLA+ specification

PaperLens is a reading workbench for research papers: a FastAPI server imports
papers from arXiv or uploads, parses them, translates them, answers questions
about them and compares them; a web client polls or streams the progress.  This
directory specifies its concurrent core in TLA+, checks the specification with
TLC on small instances and proves its main invariants with TLAPS for all.

## 1. The system

The server is one process.  Requests run in a thread pool, long work runs in
daemon threads (`JobExecutor`, the comparison thread, the verification thread,
the background PDF download) and in short-lived pools of up to four workers.
All of them share a SQLite file: each thread has its own connection and every
repository call commits by itself, so **nothing larger than one repository call
is atomic**.  In memory they share the event bus, the translation semaphore and
a few dictionaries.  A restart loses every thread and all of that memory, keeps
the tables and the files, and nothing resumes what was lost.

| component | state | operations | talks to | what makes it correct |
|---|---|---|---|---|
| Event bus (`server/app/events.py`) | subscriber queues of 500, one lock | subscribe, unsubscribe, publish, stream | jobs, comparisons → SSE clients | events in order, none twice, none lost silently, publish never blocks |
| Job executor (`server/app/jobs.py`) | `jobs` rows, threads | submit, run, complete | import endpoints, bus | one terminal status per job, announced after it is stored |
| Import pipelines (`jobs.py`) | papers, versions, documents, files | HTML import with PDF fallback, PDF import, background download, pre-translation | repository, arXiv, model | a succeeded import can be read; no orphans but from deletions |
| Paper store (`repository.py`) | all tables, files on disk | create, link, store, delete | everything | no dangling rows or files |
| Paper endpoints (`main.py`) | – | upload, import, delete, open the PDF, quota | jobs, repository | quota kept, originals found |
| Page translation (`main.py`, `jobs.py`, `translation.py`) | the `translations` document, a semaphore | translate pages, pre-translate an import | model, repository | nothing translated is lost, one unit per block, bounded calls |
| Reference verification (`main.py`, `scholarly.py`) | the `references` document, a progress dictionary | verify one, verify all, import | Crossref, DataCite, arXiv | no record lost, none verified without evidence |
| Comparison (`main.py`, `comparison.py`, `compare/page.tsx`) | `comparisons` rows; the page's running, shown and discussed comparison | create, poll, list, open, ask | model, bus, page | ends in DONE or FAILED for good, cells never cross papers, cache keyed by its inputs, answers shown with their comparison |
| Research agent (`core/agents`, `services/research.py`) | `research_runs` rows, one copy for each execution | plan, execute | tools, repository | topological execution, status matches results, a stored run is one execution's work |
| Parse pipeline (`core/parsing`) | – | probe, plan, parse, fuse, inspect, repair | parser backends | bounded repair, every page owned by one backend |
| Reader and evidence gate (`reader.py`, `evidence.py`) | the process-wide cache of drafts | retrieve, draft, verify claims | model, retrieval | no claim without its quoted evidence and its own verdict |
| Chat sessions (`main.py`, `repository.py`) | `sessions` and `messages` rows | ask buffered or streamed, delete | reader | each answer after its question, stored as it was shown |
| Projects, workspaces, terms, memory (`repositories/vnext.py`) | vNext tables | save, list, claim, migrate | routers | no lost update, nothing crosses a workspace |
| Retrieval, IR, comparison v2, termbase | – | pure functions | agents, reader | order, coverage, priorities |
| Reader (`Workbench.tsx`) | the units shown, the background loop | translate by loop, scroll and button, load units | translation endpoints | what is stored is shown, the rest is translated |
| Question panel (`AgentPanel.tsx`, `api.ts`) | messages shown, current session, busy | restore, switch, create, delete, ask with fallback | chat endpoints | what is shown is stored, a question once per attempt |
| Home page, PDF viewer, other pages | view state | polling, rendering | all endpoints | – |

The behaviours that are hard to test are listed with their lines under
`hazards` in `PROJECT.json`.  They are of five families: events against a full
or disconnecting queue; two imports, a deletion and a background download
interleaving between single-row commits; documents and runs that are read, worked on for
minutes and written back whole; threads that vanish in a restart; and, in the
browser, replies that are delivered to a page that has moved on.

## 2. Modules

| module | kind | models |
|---|---|---|
| `EventBus` | component | `events.py` |
| `EventBusProofs` | proofs | its inductive invariant and five theorems |
| `JobLifecycle` | abstract specification | what a job promises: status and last event |
| `ImportJobs` | component, composition | executor, both pipelines, fallback, download, deletion, restart, quota, the tables |
| `MCImportJobs` | model checking | symmetry of jobs |
| `ImportJobsProofs` | proofs | `ImportJobs` implements `JobLifecycle`; what the pipelines store, readability, orphans |
| `Translations` | component | `translate_paper` and `translate_initial_pages` |
| `TranslationsProofs` | proofs | its semaphore, its calls, the document and what writers hold of it; and, over an instance of `Workbench`, that stored pages are shown |
| `References` | component | `resolve_reference`, `resolve_all_references` and the progress poll |
| `ReferencesProofs` | proofs | its lists and their completeness |
| `Evidence` | pure operators | the evidence guard, the location of quotes, the outcome of attribution |
| `Chat` | component, over `Evidence` | both chat endpoints, `run_events`, the draft cache, sessions and messages |
| `MCChat` | model checking | two chunks, the drafts cited from them, short texts on which `Occurrences` and the search `FromLeft` must agree |
| `ChatProofs` | proofs | what is shown, how messages are stored, the cache, the location of quotes |
| `Comparison` | component, composition | the comparison endpoints and their thread, and the comparison page over them |
| `MCComparison` | model checking | two papers, four drafts, an artifact |
| `ComparisonProofs` | proofs | its rows, tables and failures, and the messages on the page |
| `AgentPanel` | component, composition | the question panel over the session and chat endpoints |
| `AgentPanelProofs` | proofs | what the panel shows and how often a question is stored |
| `Research` | component | planners, topological order, executor, the stored run |
| `MCResearch` | model checking | both planners' graphs, and every graph of three tasks |
| `ResearchProofs` | proofs | the topological order for every graph, what is skipped, what a stored run consists of |
| `Workbench` | component, composition | translation in the reader over the translation endpoints |
| `MCWorkbench` | model checking | a joint bound on actions and failures |

### EventBus

State: `registered` is `_subscribers` (channel to connections), `lock` the bus
lock with the publisher that holds it, `queue` each connection's `queue.Queue`,
and ghosts for what was published, taken and lost.  `Subscribe` and
`Unsubscribe` are one lock section each.  `publish` is `PublishBegin`, one step
per subscriber (`PutEvent`, or `PutFull` followed by `DropOldest` or
`DropRaises`), and `PublishEnd`: the consumer does not take the lock, so `Take`
interleaves between `queue.Full` and the `get_nowait()` that answers it, which
may then find the queue empty and raise out of `publish`.

### JobLifecycle and ImportJobs

`JobLifecycle` has two variables, a job's stored status and the last lifecycle
event published for it, and five actions: submit, start, announce the start,
finish, announce the end.

`ImportJobs` describes each pipeline by its *script*, the sequence of the
commits it makes and of the computations between them that can raise.  A job's
thread walks the script; `At(j, op)` is its guard.  Documents that are stored
one after the other with no other commit between are one step, named after the group;
`Required`, `BestEffort` and `Raising` say which matter to the reader, which may fail
silently, and which may raise.  An HTML import that raises deletes nothing and continues as a
PDF import under the same job (`HtmlRaises`, `DownloadPdf`), as
`_arxiv_html_with_pdf_fallback` does.  The background download
(`PrefetchDownload`, `PrefetchLink`) outlives its job; `DeletePaper`, `PathExists` and
`OpenPdf` are the endpoints that interfere; `Restart` loses every thread.  Paper and
version ids are hashes of the content: two imports of one work in one form
share them, which is why `papers`, `versions` and `docs` are indexed by work
and form.

### Translations

`units` is the stored document, a list because an import may leave two units of a
block.  Each call has its own copy of what it read (`snapshot`), of what it must do
(`pending`) and of what came back (`fresh`); they die with the call.  The
steps are those at which another call can be seen: reading the document,
acquiring the semaphore, the start and the end of each model call, collecting
a result and storing (`Collect`), the exception path (the pool is joined before the semaphore is
left: `CollectRaises`, `Unwind`), and the last merge.  An import takes no
semaphore, reads the document only when its batches are done, and appends.

### References

`document` is the stored list; a record is its printed entry, its id and its
status.  A run reads the list (`LoadList`), checks the progress entry
(`CheckRunning`) and sets it (`StartRun`) in three steps, as the endpoint does:
two clicks can both pass the check.  Its thread collects results in any order
(`as_completed`), storing *only what it has collected* at every tenth
(`StoreEvery`), so that references vanish from the list while it runs; `StoreAll`
brings them back, `WorkerRaises` does not.  A single verification looks its
record up (`FindRecord`), asks the providers, loads the list again (`Answer`)
and writes it back (`StoreOne`).  `partialRead` is a ghost: some call built on a
list with references missing.

### Evidence and Chat

`Evidence` is the part of the reader that computes.  A text is a sequence of
tokens; only the classes the guard looks for (numbers, negations, comparatives,
sentence ends) are told apart.  `ValidLinks` keeps a quote that is where the model
says, relocates one that occurs once elsewhere, and drops the rest; `Accepted`
is `check_claim`; `LocateChunkSpans` maps a quote to its blocks; `Outcome` keeps
the code's dictionary of verdicts by claim id.

`Chat` walks one call from the endpoint to the stored answer.  A streamed call reads
the history and stores its question before it retrieves, a buffered one reads the history
when the reader starts and stores question and answer at its end.  The cache is
an `OrderedDict` without a lock and streams run in threads, so each of its
operations is a step: `CacheGet`, `CacheTouch`, `CachePut`, `CacheMove`, `CacheTrim`;
between two of them another call may evict the entry, and `MoveToEnd` then raises.
`Attribute` is one step although four workers judge the claims: they share nothing and their
verdicts are put together in order.  A client can leave where the stream yields
(`Disconnect`).  `basis`, `judged` and `broken` are ghosts.

### Comparison

The server half: `Create` is the POST with its cache lookup, `ExtractPaper` one
worker of the pool with the progress row it leads to, `Conclude` the assembly and
the last row, whether DONE or FAILED.  `Extracted` is `extract_paper`: fields the
artifact has are reused, a draft must pass `Accepted`, and any failure turns the
paper's cells into parse gaps.  `Assembled` and `AssemblyRaises` are `assemble_comparison`.

The page half: `running`, `result`, `qa` are its state variables.  Every request is
a message: sent, replied to by the server (`Serve`), delivered to whatever
the page shows by then (`Deliver`).  The polling interval does not wait for its
previous request, so two polls are in flight and may be answered out of order.
`base` is the list a pending question will extend: the closure of `askQuestion`
holds the messages shown when it was asked.

### AgentPanel

`messages`, `busy`, `sessionRef` and `promise` are the panel's; `store` and `exists`
the server's.  A question's run goes from waiting for the session to the stream to
the buffered fallback; `stream` and `post` say how far the server is with each, and
a broken connection does not stop the server's half.  `Patched` and `NoPlaceholder`
are the two ways the code finds "its" message: the last one if it is a
placeholder, or all placeholders.  A stream has no timeout, a buffered request
180 s (`Posted` may give up at any time).

### Research

`Create` stores the planned run; an execution (`Start`, `Task`, `Save`) works on its own copy
and stores it whole.  The first `execute` and any later or overlapping one are the
same action: nothing checks the status.  `Topological` is Kahn's algorithm (`Kahn`, one `Popped` for each pass of its loop) with its
appended rest, `Blocked` the rule of the executor, `Verdict` its final status.

### Workbench

Three sources of requests that know nothing of one another: `TranslateAll` (the
loop), `TranslateVisible` (the observer) and `TranslatePages` (the button, with its
`Poll`).  Each answered request causes a load for each of its pages, and a load
replaces the units shown (`Loaded`).  The server is `Translations` at the
grain of pages.  `StartLoop` is the effect on page count and mode: it runs once
before the document is there, when `pageCount` is 1.

### Left out on purpose

* A raising `publish` is not modelled inside `ImportJobs`: an import publishes
  about six events on its channel and `LosslessBelowCapacity` (proved) says a channel
  with at most 500 never raises.
* In `Chat`: the documents of a version do not change under a call (evidence ids hash the
  excerpt, so a re-parse only makes a cached draft's links unknown); the wording of the answer and its optional
  organisation; which chunks BM25 returns; the paper agent, which can only lead to another question; messages are listed
  in the order of their insertion, as their creation times are.
* SQLite errors (a writer waiting more than 30 s), `delete_paper` between its
  statements, and opening a PDF while it is being replaced.
* In `References`: which verdict the providers lead to (a lookup gives any status
  or raises), the counters of the progress entry, the client's own polling loop,
  which never stops after a restart because it takes "idle" for unfinished.
* In `Comparison`: the alignment verdict (it falls back to a heuristic and cannot fail the
  run), the result records, the translated cells, the export, and adding a paper on the page.  The
  event published at the end cannot raise: its channel carries one event (`LosslessBelowCapacity`).
* In `AgentPanel`: claims shown while they stream, renaming, the section
  switch (which has no effect, see below), and a second tab.
* In `Research`: what a tool finds (it succeeds or fails), the structured
  findings, which grow and are stored with the others, and the choice of a depth.
* In `Workbench`: the text of a unit, highlighting, outline, assets, annotations.
* In `Translations`: blocks that change under a re-parse (units are then discarded by
  content), the section filter, the text of a unit, and the content of glossary
  and profile, whose construction is a step that may fail.

## 3. What the runs check

| run | instance | shows |
|---|---|---|
| `event_bus` | 2 channels, 2 connections, queues of 2 | order, accounting, no loss below capacity, publish returns, queues drain |
| `import_jobs` | 2 imports, 1 deletion or 1 restart | a succeeded import is readable; orphan documents come from deletion races only |
| `import_progress` | 1 import, 1 deletion, 1 restart, 2 PDF requests | the pipeline implements `JobLifecycle`; every accepted import ends or was lost in the restart |
| `translations` | 2 requests, 1 import, 2 blocks on 2 pages, 2 workers, 1 permit | no merge forgets what it has read, answers are stored, no permit is leaked, calls are bounded by the pools of the permits and one call for each other request |
| `references` | 2 runs, 1 single verification, 3 references stored 2 at a time, 1 restart | nothing is listed twice, missing references come back, polling ends |
| `chat` | a streamed and a buffered call, 2 sessions, 2 questions, 2 chunks, 2 drafts, a cache of one | shown quotes are literal and located, shown claims were judged, cached drafts fit, answers follow their questions |
| `comparison` | 2 comparisons of 2 papers and 2 fields, 2 polls and 2 requests in flight, 1 question, 1 restart | tables keep papers apart, only bare cells fail a comparison, results are final, polled runs are resolved, a foreign answer has one cause |
| `comparison_cache` | 2 comparisons, one after the other | **violated**: the cache never hits |
| `agent_panel` | 2 sessions and a third, 2 questions, 1 broken stream, 1 move | shown answers are stored, at rest the panel shows the record, a question is stored once per attempt, busy ends |
| `research` | 2 executions of one run, both planners, 1,024 graphs of 3 tasks in 2 orders | exactly what is on or behind a cycle is skipped, a stored run is one execution's work |
| `workbench` | 2 pages, the loop and 2 acts or an act and a failure | what is stored is shown once all is quiet |
| `workbench_rest` | 5 pages, no act | **violated**: the rest of the paper is never asked for |

Bounds.  Two events of capacity with three published per channel reach every overflow and
drain race; a second channel shows that channels do not mix, a second connection that a
publish can be half way.  Two imports of one work meet in every shared table; a
third adds no new pair.  Deletions, restarts and PDF requests are counted by
`MaxDeletes`, `MaxCrashes`, `MaxOpens`.  Two blocks on two pages are the smallest paper
on which requests can overlap in part, one permit and two workers
the smallest semaphore for which somebody waits while two calls are in flight.
Deadlock is not checked: all these systems stop when their inputs are used up.

The six claims of `chat` are quoted exactly, displaced, ambiguously, out of range, with an invented number,
and from two chunks; a cache of one entry is evicted by every second question.  Only one buffered
call is modelled because at most one can run at a time (its handler blocks the event loop).

One status is enough in `references`, whose properties never look at it; three references stored
two at a time give one partial and one final store.

The drafts of `comparison` are one the extractor should give, one whose FOUND cell has no
value, one that lists a field twice, and one with another paper's evidence; two comparisons are enough for a reply to
be late for.  `agent_panel` numbers sessions in the order of their creation, the only thing
the code tells them apart by; one that is created because the latest could not be had counts as the one move.  The graphs of `research` contain every cycle,
self-dependency and unknown dependency three tasks can have; a third execution adds
nothing, since a stored run is one execution's copy.  `workbench` has one page before and one
behind the point where the loop starts and batches of one, so that the loop has
a second batch; MaxActs bounds what the user does and what fails together.  `workbench_rest`
uses the code's own 4 and 5.

### Where the code does otherwise than it says

Two claims of the code are runs that TLC refutes (`comparison_cache`,
`workbench_rest`).  Others were met while modelling; the models have the behaviour
and no property hides it:

* an overflow of the event bus drops the oldest event *and* the new one (`events.py:41`
  speaks of the oldest); `Accounting` counts both;
* `main.py:52-53` says that the semaphore clamps translation to four batches in the whole process: it admits four
  requests, each with a pool of four, so that up to sixteen batches can run; glossary, profile and repair calls
  (`main.py:1727`, `1759`, `1874`) and the pre-translation of every import, with a pool of its own, take no permit.
  `CallsBounded` states the bound the code has for requests;
* the user quota is counted when an import is submitted and the paper is created by its thread:
  parallel imports exceed it;
* an HTML import has the path `''` until its background download succeeds, and `Path('').exists()` is true:
  `get_pdf` answers with a server error where `main.py:476` promises a lazy download;
* of two overlapping translation requests for different pages the second to store removes
  what the first persisted (`main.py:1853`);
* in a bibliography without printed numbers all references share one id and verifying one
  replaces them all (`main.py:968`);
* a draft with one claim id twice has both claims judged by the last verdict (`reader.py:384`);
* a FOUND cell without a value fails the whole comparison, although one paper's failure should
  only degrade it (`main.py:1230`);
* opening a comparison that is RUNNING or FAILED from the history throws while rendering
  (`page.tsx:364`), and a late RUNNING poll makes the page poll a run the user left;
* a failed dependency does not block a research task, although `executor.py:4` says "completed"; a second execution
  appends to the first one's findings and its report lists the old ones first;
* a failed page translation's notice is set and cleared in the same breath (`Workbench.tsx:446-451`);
* `runQuestion` keeps the `contextFollow` of the first rendering (`AgentPanel.tsx:368`): the section switch never takes effect;
* a paper's loop may be refused for good (`workbench_rest`), and an older load may replace newer units (`Workbench.tsx:416`).

### What TLC taught

Deleting one of two papers that share a PDF takes the other's
original, and a re-import does not repair the stale path, because the version row is
`INSERT OR IGNORE`; `SucceededImportIsReadable` therefore exempts jobs whose work was
deleted from (the ghost `deletion`).  A failed HTML import leaves its paper in
the library.  A rebuild of some pages drops the units of the others
(`UnitsLostOnlyToStaleWriters` names it as one of two causes).

The draft cache can outgrow its limit for good: a call whose entry was evicted between storing and
moving it fails without trimming.  `CacheAccounted` counts such calls, and no others, on top of the limit
and of the calls that are storing; the limit alone does not hold.

### Fairness

`EventBus`: weak fairness of a publisher inside its lock section (it does not
wait for anything there) and of a registered connection's `Take` (the
stream loop polls without end).  `ImportJobs`: weak fairness of each job's thread, because
threads run and all network calls have timeouts; none of deletions,
restarts and PDF requests.  `References`: weak fairness of a started run's thread, whose lookups have timeouts
and bounded retries.  `Comparison`: weak fairness of the thread, of the server's and the
network's replies and of the interval, which is never cleared while a run is polled; none of
the user and of restarts.  `AgentPanel`: weak fairness of the work on each question, whether the server's or
the panel's; nothing is assumed of the session request, which comes before `busy`.  A stream that neither answers nor breaks would
keep the panel busy, since it has no timeout.  `Workbench`: the document arrives, and each
request is answered or given up after 180 s.  `Translations`, `Chat` and `Research` state no liveness.

## 4. What is proved

All theorems hold for every value of the constants, under the named assumptions of
the modules (`ChannelAssumption`, `SizeAssumption`, `SentinelAssumption`...),
which only say that sentinels are not values and bounds are naturals.

`EventBusProofs`.  Order alone is not inductive: that a queue is in order says
nothing about the event a publisher is about to put.  `Inv` adds that a publish in progress
has each subscriber of the locked channel at most once before it (`Serving`), that
a channel lists its own connections once (`Registry`), that no queue holds an event
beyond those that have reached its connection (`Fresh`), and that a full
queue means more publishes than its capacity (`Overflow`).
From it follow `TypeCorrect`, `Ordered`, `Accounted` and `Lossless`.

`ImportJobsProofs`.  `LifecycleInv` says that the row and the last event of a job
are determined by where its thread is.  `RowsFollowThreads` proves it an
invariant; `Implementation` maps every step of the pipeline to a step of
`JobLifecycle` or a stutter, a restart included.  Readability is not inductive: it speaks of jobs that
have succeeded, and so of nothing while they store.  `ImportInv` adds that, until a deletion interferes, all that the script
has *behind* a thread is still there (`StoredBehind`), that a succeeded job points at a paper with its required documents
(`StoredBySucceeded`), that a version records a file of its own work (`VersionsRecordOwnFiles`) and that every file recorded, read or
downloaded is on disk as long as nothing of the work was deleted (`FilesKept`).  `HtmlOrder` and `PdfOrder` are what the proof needs of the order
of the two scripts.  All steps but a deletion only add (`Grows`); a deletion marks every job of its work and touches no other
(`DeletionMarks`, `WorksShareNoFile`).  From it follow `TypesHold`, `SucceededImportsAreReadable` and `OrphansComeFromRaces`.

`TranslationsProofs`.  `SemaphoreSound` says that free permits and holders
add up whatever the number of requests: acquiring, the regular exit and the
exception path each keep the sum.  `HoldersBounded` follows, and with it `CallsAreBounded`: a running batch is
numbered by its holder and a worker of that holder's pool (`CallsNumbered`), a request that calls outside the semaphore holds no
permit (`OutsideHoldsNone`), and a request that enters exchanges its one call for a pool (`PoolsOutweigh`).  The bound is what the
code keeps, not the four batches its comment speaks of (section 3).
`DocumentInv` says that every list in a writer's memory is sparse, as the document is (`Most`: one unit of a block, and one more for each import that
has returned), and that what a writer has collected is one unit for each block of its collected batches (`Holding`).
`WriteList` and `CollectList` are the facts about merging; `OneUnitOfABlock`, `TypesHold` and the two action properties
(`AnswersAreStored`, `OnlyStaleWritersLoseUnits`) follow.

`ReferencesProofs`, for bibliographies that print their numbers (ids are then
unique: without numbers they are not, see section 3).  That a list heals is not
inductive: `Inv` adds that what a run collected and what it has left are its snapshot
in two disjoint parts (`Split`), that every list in memory names an entry once and with its own id
(`GoodLists`), and that snapshots are whole until somebody reads a partial
list (`SnapshotsWhole`).  `MoveStep` reduces each action to the one call that moves.
From it follow `ListsHeal`, `NoDuplicates` and `TypeCorrect`.

`ChatProofs`, in three layers.  `Inv` is about the cache.  That a cached draft fits the request that reuses it is not inductive: `Inv` adds
that every entry of the cache was written from the ledger its key determines (`Matching`), and that a call has
no draft before its retrieval is final (`BasisInv`).  `SizeInv` ties the length of the cache to the calls that are
storing and to those that broke.  `Appending`, `Replacing`, `Moving` and `Trimming` say what the operations of the cache do
to a list with unique keys; one lemma per action follows.  `ShownInv` is about what is shown: the announced claims are literal against the ledger of the draft (`GoodClaims`), were judged if
the draft's ids differ, and `finalize` would find exactly them again (`NamedAgain`: looking claims up by the ids of those already
found finds the same ones, even if several share an id).  Its facts come from the guard: `ValidLinkLiteral` for a link kept or relocated, `Picked` for claims left out, `Validated`
for a draft.  `TalkInv` is about messages: those of a session belong to calls that ask in it, each once; a call whose question was stored (`Past`) has
it in the list unless the session was deleted, which is why an answer appended later comes after it (`AnswerTold`).
`LocatedWithinBlock`
and `LocatedCompletely` are about every segment and quote: what is highlighted is
inside the quoted block, and nothing quoted that a segment covers is missed.
`OccurrencesFromLeft` is about every text and quote as well: `Occurrences`, which the model states as a set, is what the left-to-right search of `re.finditer`
(`FromLeft`, a recursive function) finds.  The search takes from every place on a set that leaves room for the quote
behind each occurrence (`SearchIsGreedy`), and there is one such set only (`GreedyIsUnique`); both take the first place where it fails.
TLC compares the two on short texts (`OccurrencesAgree` in `MCChat`).

`ComparisonProofs`, for any papers, fields, drafts and artifacts.  `Tables` and `Rows` are the tables and rows
the code can make at all: `TableFacts` says that such a table keeps papers apart, `RaisesOnBareCell` that the assembly only
raises on a FOUND cell without value or evidence (a placeholder, a parse gap or foreign evidence never makes it raise).  `Inv` adds what makes it
inductive: a thread that extracts has a RUNNING row whose progress is at most what its pool
has finished (`ThreadsOK`; this needs that an extraction is never taken for a missing one), and a POST waiting to be
answered has no row yet (`StartsOnce`).  For the page, at most one question is
pending, its messages are the ones shown, and all are about the comparison shown unless something overlapped (`AsksOK`, `AboutShown`).
From it follow `TablesHold`, `RowsGoForward`, `FailuresExplained` and `ForeignAnswersExplained`; that runs are resolved stays with TLC.

`AgentPanelProofs`, for any number of sessions, questions, breaks and moves.  `PanelInv` has a part for each property.  How often a question is stored is bounded by what its
requests have done so far (`CopiesInv`, `Attempts`).  An answer is shown only if it is stored or was deleted with its session (`AnswersInv`): the rows in flight
of every load must be safe as well, since they may be delivered at any later time.  That the panel at rest shows the record is the hard one:
while nothing broke and the user waited (`Quiet`), the panel is in one of four situations (`Entering`, `Loading`, `Recreating`,
`Resting`), and in the last one the messages shown are the stored ones except for what the current stream has yet to store (`Answering`, `Caught`).
`Latest` is a largest element that must be shown to exist (`LargestExists`), as a session is created from it.

The second part of `TranslationsProofs` is about the reader, for any number of pages, batches, requests and failures.  It is an instance of
`Workbench` under the prefix `Reader`; what `Workbench` assumes of its constants is the hypothesis `Sized` of its theorem, since an
instance brings no assumptions.  `Pending` says that while nothing failed a page with units is shown, or read, or belongs to
an open request whose answer will load it.  To be inductive it needs that a request is open until it is answered (`Unanswered`) and that what a request has in its
copy is in the document or was lost (`Seen`), because a request writes its whole copy back.  `ClientKept` and
`ServerKept` are the two kinds of steps; `PagesShown` follows.

`ResearchProofs`, for any graphs of tasks, any number of calls and any length of a report.  Its first half is Kahn's algorithm.  What a recursive
function computes cannot be proved by the library's induction, whose operator parameter no installed prover can instantiate, so the proof takes a least
counterexample instead (`LeastExists`, from the well-foundedness of `<`): the least number of rounds for which the recursion
defines no function (`RoundsExist`), and the least round in which `Sound` fails (`KahnSound`).  `Sound` says that a task's degree is the number of its known
dependencies not yet ordered, and zero exactly for the tasks queued or ordered; that what is ordered stands behind its known dependencies; and that each round
orders one task until the queue is empty.  `PoppedSound` is one pass of the loop.  At the end the queue is empty, because the rounds are as many as the tasks;
so a task that is left waits for one that is left, and the tasks left are unorderable (`OrderableIsOrdered`): `OrderIsTopological`.
`ReportIsLast` then derives from the two planners' graphs that their report comes last, without unfolding the algorithm (`LastTask`: nothing else is a task
no task depends on).

The second half is the executor.  That exactly the unorderable tasks are skipped is inductive once it is known that a call under way has results
for the tasks up to a place in its order (`Working`): `NextTask` is the step from there.  `RunIsOneExecutionsWork` is not inductive: `Inv` adds that
every copy has the shape the row must have (`Shapes`), that nobody has a finding of a call that has not stored its run (`Apart`), so that
an execution's findings stand together at the end of its copy (`Own`), and that a planned execution that has taken every task has written its report (`Reported`).
From it follow `SkipsAreUnorderable` and `RunsAreOneExecutionsWork`.

Only model-checked: liveness (`PublishReturns`, `QueueDrains`, `ImportsFinish`, `PollingEnds`, `RunsAreResolved`, `BusyEnds`),
which the prover cannot treat under fairness.  Every safety property of a passing run is proved.

## 5. Plan

1. Proofs: every safety property now has a theorem; new components bring the next ones.
2. `Scholarly`: the provider waterfall behind a verdict, its retries, cache and
   rate limits (a client, and with it the limit, lives for one reference).
3. `ParsePipeline`: plan, fusion, repair passes and their budgets.
4. `Projects`: read-modify-write of projects, workspace claims, the migration.
5. The home page (its watcher stops at the first failed poll) and the page's own import watcher.
6. Pure operators checked against reference definitions: job progress, term
   priority, translation memory, rank fusion, canonical order, comparability.

Of the JavaScript, 64,857 of 70,018 lines are the vendored `pdf.worker.mjs`, which is not this
project's code and is not modelled; most of the rest is markup.
