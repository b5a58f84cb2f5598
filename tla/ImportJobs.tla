----------------------------- MODULE ImportJobs -----------------------------
(***************************************************************************)
(* Importing papers: JobExecutor, create_arxiv_html_job and                *)
(* create_parse_job of server/app/jobs.py, the endpoints of                *)
(* server/app/main.py that submit and interfere with them, and the tables  *)
(* of server/app/repository.py they share.  Every import runs in a thread  *)
(* of its own and every repository call commits by itself, so the steps of *)
(* two imports, a deletion and the background PDF download interleave      *)
(* between any two commits.                                                *)
(*                                                                         *)
(* A paper id is the hash of the imported content: all HTML imports of a   *)
(* work share one paper and version, all its PDF imports another.  A paper *)
(* has exactly one version, so versions are indexed by paper.              *)
(***************************************************************************)
EXTENDS Naturals, Sequences, FiniteSets

CONSTANTS
  Jobs,       \* job ids, each submitted at most once
  Users,      \* X-User-Id values
  Works,      \* arXiv works
  Quota,      \* PAPERLENS_USER_QUOTA
  MaxDeletes, \* bound on the DELETE requests
  MaxCrashes, \* bound on the restarts of the server
  MaxOpens,   \* bound on the requests for the original PDF
  NoUser,     \* no row in the papers table
  NoVersion,  \* no row in the paper_versions table
  EmptyPath,  \* file_path = ''
  NoPaper     \* jobs.paper_id = ''

Forms == {"html", "pdf"}
Papers == Works \X Forms
Files == ({"upload"} \X Jobs) \cup ({"arxiv"} \X Works)
Kinds == {"upload", "matched", "arxiv"}

ASSUME QuotaAssumption == Quota \in Nat
ASSUME BoundsAssumption ==
  MaxDeletes \in Nat /\ MaxCrashes \in Nat /\ MaxOpens \in Nat
ASSUME SentinelAssumption ==
  /\ NoUser \notin Users
  /\ NoVersion \notin Files \cup {EmptyPath}
  /\ EmptyPath \notin Files
  /\ NoPaper \notin Papers

VARIABLES
  request,   \* job -> [user, kind, work] of its submission
  status,    \* job -> status in the jobs table
  jobPaper,  \* job -> paper_id in the jobs table
  announced, \* job -> last lifecycle event published on the bus
  thread,    \* job -> where the import thread is
  pc,        \* job -> index into the script of the pipeline it runs
  prefetch,  \* job -> state of the background PDF download it started
  papers,    \* papers table: paper -> owning user or NoUser
  library,   \* user_papers table
  versions,  \* paper_versions table: paper -> file_path or NoVersion
  docs,      \* documents table: paper -> kinds stored
  files,     \* PDFs on disk
  opened,    \* outcome of the last request for an original PDF
  deletes, crashes, opens,  \* requests and restarts so far, for the bounds
  deletion   \* history: job -> a paper of its work was deleted "before" its
             \* submission, "during" or "after" the import, or never ("clean")

jobVars == <<request, status, jobPaper, announced>>
threadVars == <<thread, pc, prefetch>>
tables == <<papers, library, versions, docs, files>>
environment == <<opened, deletes, crashes, opens, deletion>>
vars == <<jobVars, threadVars, tables, environment>>

-----------------------------------------------------------------------------
(* The two pipelines: the order of their commits and of the computations    *)
(* that can raise.  Consecutive documents are one step, named after the     *)
(* group they form: its computation raises or all of them are stored.       *)

(* Mutant: the HTML job is completed before the body is indexed. *)
HtmlScriptCompleteEarly ==
  <<"fetch", "create_paper", "add_user_paper", "create_version", "link_job", "parse",
    "attach_pdf", "references", "assets", "translations", "complete", "body",
    "sample_questions", "complete">>

(* Mutant: the version row is written after the first documents. *)
HtmlScriptLateVersion ==
  <<"fetch", "create_paper", "add_user_paper", "link_job", "parse", "attach_pdf",
    "references", "create_version", "assets", "body", "translations",
    "sample_questions", "complete">>

HtmlScript ==
  <<"fetch", "create_paper", "add_user_paper", "create_version", "link_job", "parse",
    "attach_pdf", "references", "assets", "body", "translations", "sample_questions",
    "complete">>

PdfScript ==
  <<"read_file", "create_paper", "create_version", "link_job", "add_user_paper",
    "parse", "quality", "body", "references", "translations", "complete">>

Script(form) == IF form = "html" THEN HtmlScript ELSE PdfScript

(* What the reader needs, by pipeline:
     html  references: references, paper_meta;  assets: assets, callouts;
           body: blocks, sections, chunks, canonical_document_v2
     pdf   quality: page_quality, parse_run, paper_meta;  references: references,
           callouts;  body: the same as html and assets *)
Required(form) ==
  IF form = "html" THEN {"references", "assets", "body"} ELSE {"quality", "body", "references"}

DocKinds == Required("html") \cup Required("pdf")

(* Enhancements whose failure is swallowed. *)
BestEffort == {"translations", "sample_questions"}

(* Steps that compute before they commit, and may raise. *)
Raising(form) ==
  Required(form) \cup (IF form = "html" THEN {"fetch", "parse"} ELSE {"read_file", "parse"})

-----------------------------------------------------------------------------
Live == {"queued", "starting", "html", "download", "pdf", "succeeded", "failed"}
Threads == Live \cup {"none", "done", "lost"}

Requests == [user : Users, kind : Kinds, work : Works]

At(j, op) == thread[j] \in Forms /\ Script(thread[j])[pc[j]] = op
Op(j) == Script(thread[j])[pc[j]]
PaperOf(j) == <<request[j].work, thread[j]>>

(* The PDF the pdf pipeline of the job reads. *)
PdfFile(j) ==
  IF request[j].kind = "arxiv" THEN <<"arxiv", request[j].work>> ELSE <<"upload", j>>

HasVersion(p) == versions[p] # NoVersion

Init ==
  /\ request \in [Jobs -> Requests]
  /\ status = [j \in Jobs |-> "NONE"]
  /\ jobPaper = [j \in Jobs |-> NoPaper]
  /\ announced = [j \in Jobs |-> "none"]
  /\ thread = [j \in Jobs |-> "none"]
  /\ pc = [j \in Jobs |-> 1]
  /\ prefetch = [j \in Jobs |-> "idle"]
  /\ papers = [p \in Papers |-> NoUser]
  /\ library = {}
  /\ versions = [p \in Papers |-> NoVersion]
  /\ docs = [p \in Papers |-> {}]
  /\ files = {}
  /\ opened = "none"
  /\ deletes = 0 /\ crashes = 0 /\ opens = 0
  /\ deletion = [j \in Jobs |-> "clean"]

Owned(u) == {p \in Papers : papers[p] = u}

(* upload_paper and import_arxiv: the quota is checked against the papers that
   exist now, an uploaded PDF is written, the row is created and the thread
   started.  (The check and the insertion commute with every other step.) *)
Submit(j) ==
  /\ thread[j] = "none"
  /\ Cardinality(Owned(request[j].user)) < Quota
  /\ status' = [status EXCEPT ![j] = "QUEUED"]
  /\ thread' = [thread EXCEPT ![j] = "queued"]
  /\ files' = IF request[j].kind = "arxiv" THEN files ELSE files \cup {<<"upload", j>>}
  /\ UNCHANGED <<request, jobPaper, announced, pc, prefetch, papers, library, versions,
                 docs, environment>>

(* _run: the row turns RUNNING, then job_started is published. *)
Start(j) ==
  /\ thread[j] = "queued"
  /\ status' = [status EXCEPT ![j] = "RUNNING"]
  /\ thread' = [thread EXCEPT ![j] = "starting"]
  /\ UNCHANGED <<request, jobPaper, announced, pc, prefetch, tables, environment>>

AnnounceStart(j) ==
  /\ thread[j] = "starting"
  /\ announced' = [announced EXCEPT ![j] = "job_started"]
  /\ thread' = [thread EXCEPT ![j] = IF request[j].kind = "upload" THEN "pdf" ELSE "html"]
  /\ UNCHANGED <<request, status, jobPaper, pc, prefetch, tables, environment>>

-----------------------------------------------------------------------------
(* Steps of a pipeline. *)

Advance(j) ==
  /\ pc' = [pc EXCEPT ![j] = @ + 1]
  /\ UNCHANGED <<thread, prefetch>>

(* Work that commits nothing: the HTML fetch, reading the PDF (its file may be
   gone), the parser. *)
Compute(j) ==
  /\ \/ At(j, "fetch") \/ At(j, "parse")
     \/ At(j, "read_file") /\ PdfFile(j) \in files
  /\ Advance(j)
  /\ UNCHANGED <<jobVars, tables, environment>>

(* INSERT OR IGNORE: the first importer stays the owner. *)
CreatePaper(j) ==
  /\ At(j, "create_paper")
  /\ papers' = [papers EXCEPT ![PaperOf(j)] = IF @ = NoUser THEN request[j].user ELSE @]
  /\ Advance(j)
  /\ UNCHANGED <<jobVars, library, versions, docs, files, environment>>

AddUserPaper(j) ==
  /\ At(j, "add_user_paper")
  /\ library' = library \cup {<<request[j].user, PaperOf(j)>>}
  /\ Advance(j)
  /\ UNCHANGED <<jobVars, papers, versions, docs, files, environment>>

CreateVersion(j) ==
  /\ At(j, "create_version")
  /\ versions' = [versions EXCEPT ![PaperOf(j)] =
                    IF @ # NoVersion THEN @
                    ELSE IF thread[j] = "html" THEN EmptyPath ELSE PdfFile(j)]
  /\ Advance(j)
  /\ UNCHANGED <<jobVars, papers, library, docs, files, environment>>

LinkJob(j) ==
  /\ At(j, "link_job")
  /\ jobPaper' = [jobPaper EXCEPT ![j] = PaperOf(j)]
  /\ Advance(j)
  /\ UNCHANGED <<request, status, announced, tables, environment>>

(* UPDATE paper_versions: nothing happens when the row is gone. *)
SetFilePath(p, path) ==
  versions' = [versions EXCEPT ![p] = IF @ = NoVersion THEN @ ELSE path]

(* The PDF of an HTML import: the uploaded file if it is still there, a
   background download otherwise. *)
AttachPdf(j) ==
  /\ At(j, "attach_pdf")
  /\ IF <<"upload", j>> \in files
     THEN SetFilePath(PaperOf(j), <<"upload", j>>) /\ UNCHANGED prefetch
     ELSE prefetch' = [prefetch EXCEPT ![j] = "downloading"] /\ UNCHANGED versions
  /\ pc' = [pc EXCEPT ![j] = @ + 1]
  /\ UNCHANGED <<jobVars, thread, papers, library, docs, files, environment>>

StoreDocument(j) ==
  /\ \E kind \in DocKinds :
       /\ At(j, kind)
       /\ docs' = [docs EXCEPT ![PaperOf(j)] = @ \cup {kind}]
  /\ Advance(j)
  /\ UNCHANGED <<jobVars, papers, library, versions, files, environment>>

(* Initial translation and sample questions store their document or give up. *)
Enhance(j) ==
  /\ \E kind \in BestEffort :
       /\ At(j, kind)
       /\ docs' \in {docs, [docs EXCEPT ![PaperOf(j)] = @ \cup {kind}]}
  /\ Advance(j)
  /\ UNCHANGED <<jobVars, papers, library, versions, files, environment>>

(* complete: the row first, the event later. *)
Complete(j) ==
  /\ At(j, "complete")
  /\ status' = [status EXCEPT ![j] = "SUCCEEDED"]
  /\ thread' = [thread EXCEPT ![j] = "succeeded"]
  /\ UNCHANGED <<request, jobPaper, announced, pc, prefetch, tables, environment>>

(* Mutant: a failure is recorded under a status no client knows. *)
FailUnknownStatus(j) ==
  /\ status' = [status EXCEPT ![j] = "ERROR"]
  /\ thread' = [thread EXCEPT ![j] = "failed"]
  /\ UNCHANGED <<request, jobPaper, announced, pc>>

Fail(j) ==
  /\ status' = [status EXCEPT ![j] = "FAILED"]
  /\ thread' = [thread EXCEPT ![j] = "failed"]
  /\ UNCHANGED <<request, jobPaper, announced, pc>>

(* Mutant: the fallback also runs when complete raised after its commit. *)
HtmlRaisesAfterComplete(j) ==
  /\ \/ thread[j] = "html" /\ Op(j) \in Raising("html")
     \/ thread[j] = "succeeded" /\ jobPaper[j] = <<request[j].work, "html">>
  /\ thread' = [thread EXCEPT ![j] =
                  IF request[j].kind = "arxiv" THEN "download" ELSE "pdf"]
  /\ pc' = [pc EXCEPT ![j] = 1]
  /\ UNCHANGED <<jobVars, prefetch, tables, environment>>

(* Mutant: a failed HTML import is retried instead of falling back. *)
HtmlRaisesRetry(j) ==
  /\ thread[j] = "html" /\ Op(j) \in Raising("html")
  /\ pc' = [pc EXCEPT ![j] = 1]
  /\ UNCHANGED <<jobVars, thread, prefetch, tables, environment>>

(* The HTML pipeline raised: the same job continues with the PDF pipeline, an
   arXiv link after downloading the PDF.  What the HTML attempt stored stays. *)
HtmlRaises(j) ==
  /\ thread[j] = "html" /\ Op(j) \in Raising("html")
  /\ thread' = [thread EXCEPT ![j] =
                  IF request[j].kind = "arxiv" THEN "download" ELSE "pdf"]
  /\ pc' = [pc EXCEPT ![j] = 1]
  /\ UNCHANGED <<jobVars, prefetch, tables, environment>>

DownloadPdf(j) ==
  /\ thread[j] = "download"
  /\ \/ /\ files' = files \cup {PdfFile(j)}
        /\ thread' = [thread EXCEPT ![j] = "pdf"]
        /\ UNCHANGED <<jobVars, pc>>
     \/ Fail(j) /\ UNCHANGED files
  /\ UNCHANGED <<prefetch, papers, library, versions, docs, environment>>

PdfRaises(j) ==
  /\ thread[j] = "pdf" /\ Op(j) \in Raising("pdf")
  /\ Fail(j)
  /\ UNCHANGED <<prefetch, tables, environment>>

AnnounceEnd(j) ==
  /\ thread[j] \in {"succeeded", "failed"}
  /\ announced' = [announced EXCEPT ![j] =
                     IF thread[j] = "succeeded" THEN "job_succeeded" ELSE "job_failed"]
  /\ thread' = [thread EXCEPT ![j] = "done"]
  /\ UNCHANGED <<request, status, jobPaper, pc, prefetch, tables, environment>>

ImportStep(j) ==
  \/ Start(j) \/ AnnounceStart(j)
  \/ Compute(j) \/ CreatePaper(j) \/ AddUserPaper(j) \/ CreateVersion(j) \/ LinkJob(j)
  \/ AttachPdf(j) \/ StoreDocument(j) \/ Enhance(j) \/ Complete(j)
  \/ HtmlRaises(j) \/ DownloadPdf(j) \/ PdfRaises(j) \/ AnnounceEnd(j)

-----------------------------------------------------------------------------
(* The background download of the original PDF. *)

PrefetchDownload(j) ==
  /\ prefetch[j] = "downloading"
  /\ \/ /\ files' = files \cup {<<"arxiv", request[j].work>>}
        /\ prefetch' = [prefetch EXCEPT ![j] = "linking"]
     \/ prefetch' = [prefetch EXCEPT ![j] = "idle"] /\ UNCHANGED files
  /\ UNCHANGED <<jobVars, thread, pc, papers, library, versions, docs, environment>>

PrefetchLink(j) ==
  /\ prefetch[j] = "linking"
  /\ SetFilePath(<<request[j].work, "html">>, <<"arxiv", request[j].work>>)
  /\ prefetch' = [prefetch EXCEPT ![j] = "idle"]
  /\ UNCHANGED <<jobVars, thread, pc, papers, library, docs, files, environment>>

-----------------------------------------------------------------------------
(* Requests that meet the imports, and restarts. *)

(* DELETE /api/papers/{id}: documents and file of its version, the version and
   the paper; the user_papers rows stay. *)
DeletePaper(p) ==
  /\ deletes < MaxDeletes
  /\ papers[p] # NoUser
  /\ docs' = IF HasVersion(p) THEN [docs EXCEPT ![p] = {}] ELSE docs
  /\ files' = files \ {versions[p]}
  /\ versions' = [versions EXCEPT ![p] = NoVersion]
  /\ papers' = [papers EXCEPT ![p] = NoUser]
  /\ deletes' = deletes + 1
  /\ deletion' = [j \in Jobs |->
       IF request[j].work # p[1] THEN deletion[j]
       ELSE IF thread[j] = "none" THEN "before"
       ELSE IF thread[j] \in Live \/ prefetch[j] # "idle" THEN "during"
       ELSE IF deletion[j] = "during" THEN "during" ELSE "after"]
  /\ UNCHANGED <<jobVars, threadVars, library, opened, crashes, opens>>

(* Path(file_path).exists() of get_pdf: Path("") is the working directory. *)
PathExists(path) == path = EmptyPath \/ path \in files

(* GET /api/papers/{id}/pdf: a file that is missing is fetched again for an
   arXiv version; a path that exists is handed to FileResponse, which fails on
   the empty path. *)
OpenPdf(p) ==
  /\ opens < MaxOpens
  /\ HasVersion(p)
  /\ \/ /\ PathExists(versions[p])
        /\ opened' = IF versions[p] = EmptyPath THEN "server_error" ELSE "served"
        /\ UNCHANGED <<versions, files>>
     \/ /\ ~PathExists(versions[p])
        /\ opened' = "missing"
        /\ UNCHANGED <<versions, files>>
     \/ /\ ~PathExists(versions[p]) /\ p[2] = "html"
        /\ files' = files \cup {<<"arxiv", p[1]>>}
        /\ versions' = [versions EXCEPT ![p] = <<"arxiv", p[1]>>]
        /\ opened' = "served"
  /\ opens' = opens + 1
  /\ UNCHANGED <<jobVars, threadVars, papers, library, docs, deletes, crashes, deletion>>

(* All threads are daemons of one process and nothing is resumed. *)
Restart ==
  /\ crashes < MaxCrashes
  /\ crashes' = crashes + 1
  /\ thread' = [j \in Jobs |-> IF thread[j] \in Live THEN "lost" ELSE thread[j]]
  /\ prefetch' = [j \in Jobs |-> "idle"]
  /\ UNCHANGED <<jobVars, pc, tables, opened, deletes, opens, deletion>>

Next ==
  \/ \E j \in Jobs : Submit(j) \/ ImportStep(j) \/ PrefetchDownload(j) \/ PrefetchLink(j)
  \/ \E p \in Papers : DeletePaper(p) \/ OpenPdf(p)
  \/ Restart

(* An import thread is scheduled until it ends: its network calls have
   timeouts and every loop in it is over finite data. *)
Fairness == \A j \in Jobs : WF_vars(ImportStep(j))

Spec == Init /\ [][Next]_vars /\ Fairness

-----------------------------------------------------------------------------
(* Properties. *)

Terminal == {"SUCCEEDED", "FAILED"}
Announcements == {"none", "job_started", "job_succeeded", "job_failed"}

(* Type correctness of rows, threads, tables and files. *)
TypeOK ==
  /\ request \in [Jobs -> Requests]
  /\ status \in [Jobs -> {"NONE", "QUEUED", "RUNNING"} \cup Terminal]
  /\ jobPaper \in [Jobs -> Papers \cup {NoPaper}]
  /\ announced \in [Jobs -> Announcements]
  /\ thread \in [Jobs -> Threads]
  /\ pc \in [Jobs -> 1..Len(HtmlScript)]
  /\ prefetch \in [Jobs -> {"idle", "downloading", "linking"}]
  /\ papers \in [Papers -> Users \cup {NoUser}]
  /\ library \subseteq Users \X Papers
  /\ versions \in [Papers -> Files \cup {EmptyPath, NoVersion}]
  /\ docs \in [Papers -> SUBSET (DocKinds \cup BestEffort)]
  /\ files \subseteq Files
  /\ opened \in {"none", "served", "missing", "server_error"}
  /\ deletes \in Nat /\ crashes \in Nat /\ opens \in Nat
  /\ deletion \in [Jobs -> {"clean", "before", "during", "after"}]

(* The paper can be opened and read: rows and all documents of its pipeline. *)
Readable(p) ==
  papers[p] # NoUser /\ HasVersion(p) /\ Required(p[2]) \subseteq docs[p]

(* A PDF import records a file; an HTML import may have none yet. *)
OriginalOnDisk(p) == IF p[2] = "pdf" THEN versions[p] \in files ELSE PathExists(versions[p])

(* A job the client sees SUCCEEDED points at a paper that can be read and is in
   the library of the user who imported it, whatever fallback, concurrent import
   of the same work or restart happened, unless a paper of that work was deleted
   since the job was submitted.  Its original is on disk unless one was deleted
   at any time: two papers of a work can record one file, and importing again
   does not replace a path that went missing. *)
SucceededImportIsReadable ==
  \A j \in Jobs : status[j] = "SUCCEEDED" =>
    /\ deletion[j] \in {"clean", "before"} =>
         /\ jobPaper[j] \in Papers
         /\ Readable(jobPaper[j])
         /\ <<request[j].user, jobPaper[j]>> \in library
    /\ deletion[j] = "clean" => OriginalOnDisk(jobPaper[j])

(* Documents without a version row, which no request can reach or delete, only
   come from an import that was running when its paper was deleted. *)
OrphanDocumentsOnlyFromRaces ==
  \A p \in Papers :
    docs[p] # {} /\ ~HasVersion(p) =>
      \E j \in Jobs : request[j].work = p[1] /\ deletion[j] = "during"

(* The import implements the job lifecycle its clients rely on: no row leaves a
   terminal status, no terminal event precedes its row, restarts included. *)
Lifecycle == INSTANCE JobLifecycle WITH Jobs <- Jobs, status <- status, announced <- announced
ImplementsLifecycle == Lifecycle!Spec

(* Every accepted import ends, or was lost in a restart. *)
ImportsFinish ==
  \A j \in Jobs :
    [](status[j] = "QUEUED" => <>(status[j] \in Terminal \/ thread[j] = "lost"))
=============================================================================
