-------------------------- MODULE ImportJobsProofs --------------------------
(***************************************************************************)
(* The import pipeline, for every set of jobs, users and works, every      *)
(* quota and every number of deletions, PDF requests and restarts.  First  *)
(* the job lifecycle of JobLifecycle, which it implements; then what the   *)
(* pipelines store, up to what a job reported SUCCEEDED promises.          *)
(***************************************************************************)
EXTENDS ImportJobs, TLAPS

(* What the row and the bus say of a job whose thread is at a given place; a
   lost or finished thread takes no further step. *)
RowOf(j) ==
  CASE thread[j] = "none" -> <<"NONE", "none">>
    [] thread[j] = "queued" -> <<"QUEUED", "none">>
    [] thread[j] = "starting" -> <<"RUNNING", "none">>
    [] thread[j] \in {"html", "download", "pdf"} -> <<"RUNNING", "job_started">>
    [] thread[j] = "succeeded" -> <<"SUCCEEDED", "job_started">>
    [] thread[j] = "failed" -> <<"FAILED", "job_started">>
    [] OTHER -> <<status[j], announced[j]>>

RowFollowsThread == \A j \in Jobs : <<status[j], announced[j]>> = RowOf(j)

ThreadType ==
  /\ status \in [Jobs -> {"NONE", "QUEUED", "RUNNING"} \cup Terminal]
  /\ announced \in [Jobs -> Announcements]
  /\ thread \in [Jobs -> Threads]

LifecycleInv == ThreadType /\ RowFollowsThread

(* The two ways a step can leave the rows and announcements of the jobs alone:
   no thread moves at all, or only between places with the same row. *)
LEMMA QuietStep ==
  ASSUME LifecycleInv, UNCHANGED <<status, announced>>, thread' \in [Jobs -> Threads],
         \A j \in Jobs : \/ thread'[j] = thread[j]
                         \/ thread'[j] = "lost"
                         \/ {thread[j], thread'[j]} \subseteq {"html", "download", "pdf"}
  PROVE  LifecycleInv'
<1>1. ThreadType'
  BY DEF LifecycleInv, ThreadType
<1>2. ASSUME NEW j \in Jobs PROVE <<status'[j], announced'[j]>> = RowOf(j)'
  <2>1. <<status[j], announced[j]>> = RowOf(j)
    BY DEF LifecycleInv, RowFollowsThread
  <2>2. CASE thread'[j] = thread[j]
    BY <2>1, <2>2 DEF RowOf
  <2>3. CASE thread'[j] = "lost"
    BY <2>3 DEF RowOf
  <2>4. CASE {thread[j], thread'[j]} \subseteq {"html", "download", "pdf"}
    BY <2>1, <2>4 DEF RowOf
  <2> QED BY <2>2, <2>3, <2>4
<1> QED BY <1>1, <1>2 DEF LifecycleInv, RowFollowsThread

(* A step of job j that moves its thread from one row to another. *)
LEMMA LoudStep ==
  ASSUME LifecycleInv, NEW j \in Jobs,
         NEW s \in {"NONE", "QUEUED", "RUNNING"} \cup Terminal, NEW a \in Announcements,
         NEW t \in Threads,
         status' = [status EXCEPT ![j] = s], announced' = [announced EXCEPT ![j] = a],
         thread' = [thread EXCEPT ![j] = t],
         \/ t = "queued" /\ s = "QUEUED" /\ a = "none"
         \/ t = "starting" /\ s = "RUNNING" /\ a = "none"
         \/ t \in {"html", "pdf"} /\ s = "RUNNING" /\ a = "job_started"
         \/ t = "succeeded" /\ s = "SUCCEEDED" /\ a = "job_started"
         \/ t = "failed" /\ s = "FAILED" /\ a = "job_started"
         \/ t = "done"
  PROVE  LifecycleInv'
<1>1. ThreadType'
  BY DEF LifecycleInv, ThreadType
<1>2. ASSUME NEW k \in Jobs PROVE <<status'[k], announced'[k]>> = RowOf(k)'
  <2>1. <<status[k], announced[k]>> = RowOf(k)
    BY DEF LifecycleInv, RowFollowsThread
  <2>2. CASE k # j
    <3>1. status'[k] = status[k] /\ announced'[k] = announced[k] /\ thread'[k] = thread[k]
      BY <2>2 DEF LifecycleInv, ThreadType
    <3> QED BY <2>1, <3>1 DEF RowOf
  <2>3. CASE k = j
    <3>1. status'[k] = s /\ announced'[k] = a /\ thread'[k] = t
      BY <2>3 DEF LifecycleInv, ThreadType
    <3> QED BY <3>1 DEF RowOf
  <2> QED BY <2>2, <2>3
<1> QED BY <1>1, <1>2 DEF LifecycleInv, RowFollowsThread

-----------------------------------------------------------------------------
(* Every step, in the lifecycle: a stutter, or the action of the same name.  *)

Simulated == LifecycleInv' /\ [Lifecycle!Next]_(Lifecycle!lifecycleVars)

LEMMA QuietSimulated ==
  ASSUME LifecycleInv, UNCHANGED <<status, announced>>, thread' \in [Jobs -> Threads],
         \A j \in Jobs : \/ thread'[j] = thread[j]
                         \/ thread'[j] = "lost"
                         \/ {thread[j], thread'[j]} \subseteq {"html", "download", "pdf"}
  PROVE  Simulated
  BY QuietStep DEF Simulated, Lifecycle!lifecycleVars

LEMMA SubmitSimulated ==
  ASSUME LifecycleInv, NEW j \in Jobs, Submit(j)
  PROVE  Simulated
<1>1. /\ thread[j] = "none" /\ status' = [status EXCEPT ![j] = "QUEUED"]
      /\ thread' = [thread EXCEPT ![j] = "queued"] /\ announced' = announced
  BY DEF Submit
<1>2. status[j] = "NONE" /\ announced[j] = "none"
  BY <1>1 DEF LifecycleInv, RowFollowsThread, RowOf
<1>3. announced' = [announced EXCEPT ![j] = "none"]
  BY <1>1, <1>2 DEF LifecycleInv, ThreadType
<1>4. LifecycleInv'
  BY <1>1, <1>3, LoudStep DEF Announcements, Threads, Live
<1>5. Lifecycle!Submit(j)
  BY <1>1, <1>2 DEF Lifecycle!Submit, Lifecycle!Move
<1> QED BY <1>4, <1>5 DEF Simulated, Lifecycle!Next

LEMMA StartSimulated ==
  ASSUME LifecycleInv, NEW j \in Jobs, Start(j)
  PROVE  Simulated
<1>1. /\ thread[j] = "queued" /\ status' = [status EXCEPT ![j] = "RUNNING"]
      /\ thread' = [thread EXCEPT ![j] = "starting"] /\ announced' = announced
  BY DEF Start
<1>2. status[j] = "QUEUED" /\ announced[j] = "none"
  BY <1>1 DEF LifecycleInv, RowFollowsThread, RowOf
<1>3. announced' = [announced EXCEPT ![j] = "none"]
  BY <1>1, <1>2 DEF LifecycleInv, ThreadType
<1>4. LifecycleInv'
  BY <1>1, <1>3, LoudStep DEF Announcements, Threads, Live
<1>5. Lifecycle!Start(j)
  BY <1>1, <1>2 DEF Lifecycle!Start, Lifecycle!Move
<1> QED BY <1>4, <1>5 DEF Simulated, Lifecycle!Next

LEMMA AnnounceStartSimulated ==
  ASSUME LifecycleInv, NEW j \in Jobs, AnnounceStart(j)
  PROVE  Simulated
<1>1. /\ thread[j] = "starting" /\ status' = status
      /\ announced' = [announced EXCEPT ![j] = "job_started"]
  BY DEF AnnounceStart
<1>2. PICK t \in {"html", "pdf"} : thread' = [thread EXCEPT ![j] = t]
  BY DEF AnnounceStart
<1>3. status[j] = "RUNNING" /\ announced[j] = "none"
  BY <1>1 DEF LifecycleInv, RowFollowsThread, RowOf
<1>4. status' = [status EXCEPT ![j] = "RUNNING"]
  BY <1>1, <1>3 DEF LifecycleInv, ThreadType
<1>5. LifecycleInv'
  BY <1>1, <1>2, <1>4, LoudStep DEF Announcements, Threads, Live
<1>6. Lifecycle!AnnounceStart(j)
  BY <1>1, <1>3 DEF Lifecycle!AnnounceStart, Lifecycle!Tell
<1> QED BY <1>5, <1>6 DEF Simulated, Lifecycle!Next

(* Complete and Fail: a running thread writes the outcome before it tells it. *)
LEMMA FinishSimulated ==
  ASSUME LifecycleInv, NEW j \in Jobs,
         thread[j] \in {"html", "download", "pdf"}, announced' = announced,
         \/ /\ status' = [status EXCEPT ![j] = "SUCCEEDED"]
            /\ thread' = [thread EXCEPT ![j] = "succeeded"]
         \/ /\ status' = [status EXCEPT ![j] = "FAILED"]
            /\ thread' = [thread EXCEPT ![j] = "failed"]
  PROVE  Simulated
<1>1. status[j] = "RUNNING" /\ announced[j] = "job_started"
  BY DEF LifecycleInv, RowFollowsThread, RowOf
<1>2. announced' = [announced EXCEPT ![j] = "job_started"]
  BY <1>1 DEF LifecycleInv, ThreadType
<1>3. LifecycleInv'
  BY <1>2, LoudStep DEF Announcements, Threads, Live, Terminal
<1>4. \E s \in Lifecycle!Terminal : Lifecycle!Finish(j, s)
  BY <1>1 DEF Lifecycle!Finish, Lifecycle!Move, Lifecycle!Terminal
<1> QED BY <1>3, <1>4 DEF Simulated, Lifecycle!Next

LEMMA AnnounceEndSimulated ==
  ASSUME LifecycleInv, NEW j \in Jobs, AnnounceEnd(j)
  PROVE  Simulated
<1>1. /\ thread[j] \in {"succeeded", "failed"} /\ status' = status
      /\ thread' = [thread EXCEPT ![j] = "done"]
      /\ announced' = [announced EXCEPT ![j] =
                         IF thread[j] = "succeeded" THEN "job_succeeded" ELSE "job_failed"]
  BY DEF AnnounceEnd
<1>2. /\ status[j] = (IF thread[j] = "succeeded" THEN "SUCCEEDED" ELSE "FAILED")
      /\ announced[j] = "job_started"
  BY <1>1 DEF LifecycleInv, RowFollowsThread, RowOf
<1>3. status' = [status EXCEPT ![j] = status[j]]
      /\ status[j] \in {"NONE", "QUEUED", "RUNNING"} \cup Terminal
  BY <1>1 DEF LifecycleInv, ThreadType
<1>4. LifecycleInv'
  BY <1>1, <1>3, LoudStep DEF Announcements, Threads
<1>5. Lifecycle!AnnounceEnd(j)
  BY <1>1, <1>2 DEF Lifecycle!AnnounceEnd, Lifecycle!Tell, Lifecycle!EventOf,
                    Lifecycle!Terminal
<1> QED BY <1>4, <1>5 DEF Simulated, Lifecycle!Next

(* The commits of the two pipelines leave the thread in its pipeline. *)
LEMMA PipelineSimulated ==
  ASSUME LifecycleInv, NEW j \in Jobs,
         \/ Compute(j) \/ CreatePaper(j) \/ AddUserPaper(j) \/ CreateVersion(j)
         \/ LinkJob(j) \/ AttachPdf(j) \/ StoreDocument(j) \/ Enhance(j)
  PROVE  Simulated
<1>1. UNCHANGED <<status, announced, thread>>
  BY DEF Compute, CreatePaper, AddUserPaper, CreateVersion, LinkJob, AttachPdf,
         StoreDocument, Enhance, Advance, jobVars
<1> QED BY <1>1, QuietSimulated DEF LifecycleInv, ThreadType

LEMMA FallbackSimulated ==
  ASSUME LifecycleInv, NEW j \in Jobs, HtmlRaises(j)
  PROVE  Simulated
<1>1. thread[j] = "html" /\ UNCHANGED <<status, announced>>
  BY DEF HtmlRaises, jobVars
<1>2. PICK t \in {"download", "pdf"} : thread' = [thread EXCEPT ![j] = t]
  BY DEF HtmlRaises
<1>3. thread' \in [Jobs -> Threads]
  BY <1>2 DEF LifecycleInv, ThreadType, Threads, Live
<1>4. \A k \in Jobs : k # j => thread'[k] = thread[k]
  BY <1>2 DEF LifecycleInv, ThreadType
<1>5. thread'[j] = t
  BY <1>2 DEF LifecycleInv, ThreadType
<1> QED BY <1>1, <1>3, <1>4, <1>5, QuietSimulated

LEMMA DownloadSimulated ==
  ASSUME LifecycleInv, NEW j \in Jobs, DownloadPdf(j)
  PROVE  Simulated
<1>1. thread[j] = "download"
  BY DEF DownloadPdf
<1>2. CASE thread' = [thread EXCEPT ![j] = "pdf"] /\ UNCHANGED jobVars
  <2>1. UNCHANGED <<status, announced>> /\ thread' \in [Jobs -> Threads]
    BY <1>2 DEF jobVars, LifecycleInv, ThreadType, Threads, Live
  <2>2. thread'[j] = "pdf" /\ \A k \in Jobs : k # j => thread'[k] = thread[k]
    BY <1>2 DEF LifecycleInv, ThreadType
  <2> QED BY <1>1, <2>1, <2>2, QuietSimulated
<1>3. CASE Fail(j)
  BY <1>1, <1>3, FinishSimulated DEF Fail
<1> QED BY <1>2, <1>3 DEF DownloadPdf

(* Background downloads and requests do not touch the rows of jobs; a restart
   only loses threads. *)
LEMMA EnvironmentSimulated ==
  ASSUME LifecycleInv,
         \/ \E j \in Jobs : PrefetchDownload(j) \/ PrefetchLink(j)
         \/ \E p \in Papers : DeletePaper(p) \/ OpenPdf(p)
         \/ Restart
  PROVE  Simulated
<1>1. CASE \/ \E j \in Jobs : PrefetchDownload(j) \/ PrefetchLink(j)
           \/ \E p \in Papers : DeletePaper(p) \/ OpenPdf(p)
  <2>1. UNCHANGED <<status, announced, thread>>
    BY <1>1 DEF PrefetchDownload, PrefetchLink, DeletePaper, OpenPdf, jobVars, threadVars
  <2> QED BY <2>1, QuietSimulated DEF LifecycleInv, ThreadType
<1>2. CASE Restart
  <2>1. /\ UNCHANGED <<status, announced>>
        /\ thread' = [j \in Jobs |-> IF thread[j] \in Live THEN "lost" ELSE thread[j]]
    BY <1>2 DEF Restart, jobVars
  <2>2. thread' \in [Jobs -> Threads]
    BY <2>1 DEF LifecycleInv, ThreadType, Threads
  <2>3. \A j \in Jobs : thread'[j] = thread[j] \/ thread'[j] = "lost"
    BY <2>1
  <2> QED BY <2>1, <2>2, <2>3, QuietSimulated
<1> QED BY <1>1, <1>2

LEMMA NextSimulated == LifecycleInv /\ [Next]_vars => Simulated
<1> SUFFICES ASSUME LifecycleInv, [Next]_vars PROVE Simulated
  OBVIOUS
<1>1. ASSUME NEW j \in Jobs, Submit(j) PROVE Simulated
  BY <1>1, SubmitSimulated
<1>2. ASSUME NEW j \in Jobs, ImportStep(j) PROVE Simulated
  <2>1. CASE Start(j) \/ AnnounceStart(j) \/ AnnounceEnd(j)
    BY <2>1, StartSimulated, AnnounceStartSimulated, AnnounceEndSimulated
  <2>2. CASE \/ Compute(j) \/ CreatePaper(j) \/ AddUserPaper(j) \/ CreateVersion(j)
             \/ LinkJob(j) \/ AttachPdf(j) \/ StoreDocument(j) \/ Enhance(j)
    BY <2>2, PipelineSimulated
  <2>3. CASE Complete(j)
    BY <2>3, FinishSimulated DEF Complete, At, Forms
  <2>4. CASE HtmlRaises(j) \/ DownloadPdf(j)
    BY <2>4, FallbackSimulated, DownloadSimulated
  <2>5. CASE PdfRaises(j)
    BY <2>5, FinishSimulated DEF PdfRaises, Fail
  <2> QED BY <1>2, <2>1, <2>2, <2>3, <2>4, <2>5 DEF ImportStep
<1>3. CASE \/ \E j \in Jobs : PrefetchDownload(j) \/ PrefetchLink(j)
           \/ \E p \in Papers : DeletePaper(p) \/ OpenPdf(p)
           \/ Restart
  BY <1>3, EnvironmentSimulated
<1>4. CASE UNCHANGED vars
  <2>1. UNCHANGED <<status, announced, thread>>
    BY <1>4 DEF vars, jobVars, threadVars
  <2> QED BY <2>1, QuietSimulated DEF LifecycleInv, ThreadType
<1> QED BY <1>1, <1>2, <1>3, <1>4 DEF Next

LEMMA InitSimulated == Init => LifecycleInv /\ Lifecycle!Init
<1> SUFFICES ASSUME Init PROVE LifecycleInv /\ Lifecycle!Init
  OBVIOUS
<1>1. ThreadType
  BY DEF Init, ThreadType, Announcements, Threads
<1>2. RowFollowsThread
  BY DEF Init, RowFollowsThread, RowOf
<1>3. Lifecycle!Init
  BY DEF Init, Lifecycle!Init
<1> QED BY <1>1, <1>2, <1>3 DEF LifecycleInv

-----------------------------------------------------------------------------
(* The lifecycle theorems.                                                 *)

(* The row of a job and its last event agree with where its thread is. *)
THEOREM RowsFollowThreads == Spec => []LifecycleInv
<1>1. LifecycleInv /\ [Next]_vars => LifecycleInv'
  BY NextSimulated DEF Simulated
<1> QED BY <1>1, InitSimulated, PTL DEF Spec

(* _run and complete, with every fallback, deletion and restart, implement the
   lifecycle that clients of the job API rely on. *)
THEOREM Implementation == Spec => ImplementsLifecycle
<1>1. LifecycleInv /\ [Next]_vars => [Lifecycle!Next]_(Lifecycle!lifecycleVars)
  BY NextSimulated DEF Simulated
<1> QED BY <1>1, InitSimulated, RowsFollowThreads, PTL
        DEF Spec, ImplementsLifecycle, Lifecycle!Spec
-----------------------------------------------------------------------------
(* What an import has stored, by where it is in its script.                 *)

(* The first n - 1 operations of a pipeline, and those a job has behind it. *)
Behind(form, n) == {Script(form)[i] : i \in 1..(n - 1)}
Done(j) == Behind(thread[j], pc[j])

(* A paper of the job's work was deleted, if at all, before its submission. *)
Undisturbed(j) == deletion[j] \in {"clean", "before"}

(* The files a version of a work can record. *)
FilesOf(w) == {<<"arxiv", w>>} \cup {<<"upload", j>> : j \in {k \in Jobs : request[k].work = w}}

(* What the file_path of a version can be: only HTML imports may have no PDF. *)
Recordable(p) ==
  FilesOf(p[1]) \cup {NoVersion} \cup (IF p[2] = "html" THEN {EmptyPath} ELSE {})

(* A thread that is not in a pipeline yet is at the start of its script; no
   deletion counts as met by a job that was not submitted, and none as later
   than a job that still runs. *)
Placed ==
  \A j \in Jobs :
    /\ thread[j] \in {"none", "queued", "starting", "download"} => pc[j] = 1
    /\ thread[j] \in Forms => pc[j] <= Len(Script(thread[j]))
    /\ thread[j] = "none" => Undisturbed(j)
    /\ thread[j] \in Live => deletion[j] # "after"

(* Until a deletion interferes, what a pipeline stored is still there; its link
   and its library entry stay in any case. *)
HoldsBehind(j) ==
  /\ "link_job" \in Done(j) => jobPaper[j] = PaperOf(j)
  /\ "add_user_paper" \in Done(j) => <<request[j].user, PaperOf(j)>> \in library
  /\ Undisturbed(j) /\ "create_paper" \in Done(j) => papers[PaperOf(j)] # NoUser
  /\ Undisturbed(j) /\ "create_version" \in Done(j) => HasVersion(PaperOf(j))
  /\ Undisturbed(j) => Done(j) \cap Required(thread[j]) \subseteq docs[PaperOf(j)]

StoredBehind == \A j \in Jobs : thread[j] \in Forms => HoldsBehind(j)

(* A succeeded job points at a paper of its work, complete unless deleted. *)
PointsAtPaper(j) ==
  /\ jobPaper[j] \in Papers
  /\ jobPaper[j][1] = request[j].work
  /\ <<request[j].user, jobPaper[j]>> \in library
  /\ Undisturbed(j) => Readable(jobPaper[j])

StoredBySucceeded == \A j \in Jobs : status[j] = "SUCCEEDED" => PointsAtPaper(j)

(* A version records a file of its own work. *)
VersionsRecordOwnFiles == \A p \in Papers : versions[p] \in Recordable(p)

(* Every file that was recorded, read or downloaded for a work is on disk. *)
WorkFilesOnDisk(w) ==
  /\ \A p \in Papers : p[1] = w /\ versions[p] \in Files => versions[p] \in files
  /\ \A k \in Jobs : /\ request[k].work = w
                     /\ thread[k] = "pdf" /\ "read_file" \in Done(k)
                     => PdfFile(k) \in files
  /\ \A k \in Jobs : request[k].work = w /\ prefetch[k] = "linking" => <<"arxiv", w>> \in files

(* So it is as long as no paper of that work was deleted. *)
FilesKept ==
  \A j \in Jobs : deletion[j] = "clean" => WorkFilesOnDisk(request[j].work)

ImportInv ==
  /\ TypeOK /\ LifecycleInv /\ Placed
  /\ StoredBehind /\ StoredBySucceeded
  /\ VersionsRecordOwnFiles /\ FilesKept
  /\ OrphanDocumentsOnlyFromRaces

(* What the order of the scripts promises: the last operation completes the
   job; a version exists before any document, the PDF was read before its
   version is recorded, and everything a reader needs precedes completion. *)
LEMMA ScriptLengths == Len(HtmlScript) = 13 /\ Len(PdfScript) = 11
  BY DEF HtmlScript, PdfScript

LEMMA ScriptBounds ==
  ASSUME NEW form
  PROVE  1 <= Len(Script(form)) /\ Len(Script(form)) <= Len(HtmlScript)
<1>1. CASE form = "html"
  <2>1. Script(form) = HtmlScript
    BY <1>1 DEF Script
  <2> QED BY <2>1, ScriptLengths
<1>2. CASE form # "html"
  <2>1. Script(form) = PdfScript
    BY <1>2 DEF Script
  <2> QED BY <2>1, ScriptLengths
<1> QED BY <1>1, <1>2

LEMMA HtmlOrder ==
  ASSUME NEW n \in 1..13
  PROVE  /\ HtmlScript[n] # "complete" => n < 13
         /\ HtmlScript[n] \in DocKinds \cup BestEffort => n > 4
         /\ HtmlScript[n] = "complete" => n = 13
  BY DEF HtmlScript, DocKinds, BestEffort, Required

LEMMA PdfOrder ==
  ASSUME NEW n \in 1..11
  PROVE  /\ PdfScript[n] # "complete" => n < 11
         /\ PdfScript[n] \in DocKinds \cup BestEffort => n > 3
         /\ PdfScript[n] = "create_version" => n = 3
         /\ PdfScript[n] = "complete" => n = 11
  BY DEF PdfScript, DocKinds, BestEffort, Required

LEMMA BehindHas ==
  ASSUME NEW form \in Forms, NEW n \in Nat, NEW i \in 1..(n - 1)
  PROVE  Script(form)[i] \in Behind(form, n)
  BY DEF Behind

LEMMA ScriptOrder ==
  ASSUME NEW form \in Forms, NEW n \in 1..Len(Script(form))
  PROVE  /\ Script(form)[n] # "complete" => n + 1 <= Len(Script(form))
         /\ Script(form)[n] \in DocKinds \cup BestEffort => "create_version" \in Behind(form, n)
         /\ form = "pdf" /\ Script(form)[n] = "create_version" => "read_file" \in Behind(form, n)
         /\ Script(form)[n] = "complete" =>
              {"link_job", "add_user_paper", "create_paper", "create_version"}
                \cup Required(form) \subseteq Behind(form, n)
<1>1. CASE form = "html"
  <2>1. Script(form) = HtmlScript /\ n \in 1..13
    BY <1>1, ScriptLengths DEF Script
  <2>2. /\ HtmlScript[2] = "create_paper" /\ HtmlScript[3] = "add_user_paper"
        /\ HtmlScript[4] = "create_version" /\ HtmlScript[5] = "link_job"
        /\ HtmlScript[8] = "references" /\ HtmlScript[9] = "assets" /\ HtmlScript[10] = "body"
    BY DEF HtmlScript
  <2>3. n > 4 => "create_version" \in Behind(form, n)
    BY <2>1, <2>2, BehindHas
  <2>4. n = 13 => {"link_job", "add_user_paper", "create_paper", "create_version"}
                    \cup Required(form) \subseteq Behind(form, n)
    <3> SUFFICES ASSUME n = 13
                 PROVE  \A i \in {2, 3, 4, 5, 8, 9, 10} : HtmlScript[i] \in Behind(form, n)
      BY <1>1, <2>2 DEF Required
    <3>1. \A i \in {2, 3, 4, 5, 8, 9, 10} : i \in 1..(n - 1)
      OBVIOUS
    <3> QED BY <2>1, <3>1 DEF Behind
  <2>5. /\ Script(form)[n] # "complete" => n < 13
        /\ Script(form)[n] \in DocKinds \cup BestEffort => n > 4
        /\ Script(form)[n] = "complete" => n = 13
    BY <2>1, HtmlOrder
  <2>6. Script(form)[n] # "complete" => n + 1 <= Len(Script(form))
    BY <2>1, <2>5, ScriptLengths
  <2> QED BY <1>1, <2>3, <2>4, <2>5, <2>6
<1>2. CASE form = "pdf"
  <2>1. Script(form) = PdfScript /\ n \in 1..11
    BY <1>2, ScriptLengths DEF Script
  <2>2. /\ PdfScript[1] = "read_file" /\ PdfScript[2] = "create_paper"
        /\ PdfScript[3] = "create_version" /\ PdfScript[4] = "link_job"
        /\ PdfScript[5] = "add_user_paper" /\ PdfScript[7] = "quality"
        /\ PdfScript[8] = "body" /\ PdfScript[9] = "references"
    BY DEF PdfScript
  <2>3. n > 3 => "create_version" \in Behind(form, n)
    BY <2>1, <2>2, BehindHas
  <2>4. n = 3 => "read_file" \in Behind(form, n)
    BY <2>1, <2>2, BehindHas
  <2>5. n = 11 => {"link_job", "add_user_paper", "create_paper", "create_version"}
                    \cup Required(form) \subseteq Behind(form, n)
    <3> SUFFICES ASSUME n = 11
                 PROVE  \A i \in {2, 3, 4, 5, 7, 8, 9} : PdfScript[i] \in Behind(form, n)
      BY <1>2, <2>2 DEF Required
    <3>1. \A i \in {2, 3, 4, 5, 7, 8, 9} : i \in 1..(n - 1)
      OBVIOUS
    <3> QED BY <2>1, <3>1 DEF Behind
  <2>6. /\ Script(form)[n] # "complete" => n < 11
        /\ Script(form)[n] \in DocKinds \cup BestEffort => n > 3
        /\ Script(form)[n] = "create_version" => n = 3
        /\ Script(form)[n] = "complete" => n = 11
    BY <2>1, PdfOrder
  <2>7. Script(form)[n] # "complete" => n + 1 <= Len(Script(form))
    BY <2>1, <2>6, ScriptLengths
  <2> QED BY <1>2, <2>3, <2>4, <2>5, <2>6, <2>7
<1> QED BY <1>1, <1>2 DEF Forms

(* An operation that advances its thread: one more is behind it. *)
Pipeline(j) ==
  \/ Compute(j) \/ CreatePaper(j) \/ AddUserPaper(j) \/ CreateVersion(j)
  \/ LinkJob(j) \/ AttachPdf(j) \/ StoreDocument(j) \/ Enhance(j)

LEMMA PipelineAdvances ==
  ASSUME NEW j \in Jobs, Pipeline(j)
  PROVE  /\ thread[j] \in Forms
         /\ Op(j) # "complete"
         /\ pc' = [pc EXCEPT ![j] = pc[j] + 1]
         /\ UNCHANGED <<request, status, announced, thread, opened, deletes, crashes, opens, deletion>>
<1>1. /\ thread[j] \in Forms
      /\ Op(j) # "complete"
  BY DEF Pipeline, Compute, CreatePaper, AddUserPaper, CreateVersion, LinkJob, AttachPdf,
         StoreDocument, Enhance, At, Op, DocKinds, Required, BestEffort
<1>2. /\ pc' = [pc EXCEPT ![j] = pc[j] + 1]
      /\ UNCHANGED <<request, status, announced, thread, opened, deletes, crashes, opens, deletion>>
  BY DEF Pipeline, Compute, CreatePaper, AddUserPaper, CreateVersion, LinkJob, AttachPdf,
         StoreDocument, Enhance, Advance, jobVars, environment
<1> QED BY <1>1, <1>2

(* The types, with the bounds of the scripts. *)
Typed == TypeOK /\ Placed

LEMMA PipelineTyped ==
  ASSUME Typed, NEW j \in Jobs, Pipeline(j)
  PROVE  Typed'
<1> DEFINE n == pc[j]
<1>1. /\ thread[j] \in Forms
      /\ pc' = [pc EXCEPT ![j] = n + 1]
      /\ UNCHANGED <<request, status, announced, thread, opened, deletes, crashes, opens, deletion>>
  BY PipelineAdvances
<1>2. n \in 1..Len(Script(thread[j])) /\ Script(thread[j])[n] # "complete"
  BY <1>1, PipelineAdvances, ScriptLengths DEF Typed, TypeOK, Placed, Op
<1>3. n \in Nat /\ n + 1 <= Len(Script(thread[j]))
  BY <1>1, <1>2, ScriptOrder
<1>4. Len(Script(thread[j])) <= Len(HtmlScript)
  BY ScriptBounds
<1>5. n + 1 \in 1..Len(HtmlScript)
  BY <1>3, <1>4, ScriptLengths
<1>6. pc' \in [Jobs -> 1..Len(HtmlScript)]
  BY <1>1, <1>5 DEF Typed, TypeOK
<1>7. Placed'
  <2> SUFFICES ASSUME NEW k \in Jobs
               PROVE  /\ thread[k] \in {"none", "queued", "starting", "download"} => pc'[k] = 1
                      /\ thread[k] \in Forms => pc'[k] <= Len(Script(thread[k]))
    BY <1>1 DEF Typed, Placed, Undisturbed
  <2>1. CASE k = j
    BY <1>1, <1>3, <2>1 DEF Typed, TypeOK, Forms
  <2>2. CASE k # j
    BY <1>1, <2>2 DEF Typed, TypeOK, Placed
  <2> QED BY <2>1, <2>2
<1> HIDE DEF n
<1>8. PaperOf(j) \in Papers /\ PdfFile(j) \in Files /\ <<"upload", j>> \in Files
  BY <1>1 DEF PaperOf, PdfFile, Papers, Files, Typed, TypeOK, Requests
<1>9. request[j].user \in Users
  BY DEF Typed, TypeOK, Requests
<1>10. /\ jobPaper' \in [Jobs -> Papers \cup {NoPaper}]
       /\ prefetch' \in [Jobs -> {"idle", "downloading", "linking"}]
  BY <1>8 DEF Pipeline, Compute, CreatePaper, AddUserPaper, CreateVersion, LinkJob, AttachPdf,
       StoreDocument, Enhance, Advance, jobVars, Typed, TypeOK
<1>11. papers' \in [Papers -> Users \cup {NoUser}] /\ library' \subseteq Users \X Papers
  <2>1. CASE CreatePaper(j)
    BY <1>8, <1>9, <2>1 DEF CreatePaper, Typed, TypeOK
  <2>2. CASE AddUserPaper(j)
    BY <1>8, <1>9, <2>2 DEF AddUserPaper, Typed, TypeOK
  <2>3. CASE UNCHANGED <<papers, library>>
    BY <2>3 DEF Typed, TypeOK
  <2> QED BY <2>1, <2>2, <2>3 DEF Pipeline, Compute, CreateVersion, LinkJob, AttachPdf,
                                  StoreDocument, Enhance, tables
<1>12. versions' \in [Papers -> Files \cup {EmptyPath, NoVersion}]
  <2>1. CASE CreateVersion(j)
    BY <1>8, <2>1 DEF CreateVersion, Typed, TypeOK
  <2>2. CASE AttachPdf(j)
    BY <1>8, <2>2 DEF AttachPdf, SetFilePath, Typed, TypeOK
  <2>3. CASE versions' = versions
    BY <2>3 DEF Typed, TypeOK
  <2> QED BY <2>1, <2>2, <2>3 DEF Pipeline, Compute, CreatePaper, AddUserPaper, LinkJob,
                                  StoreDocument, Enhance, tables
<1>13. docs' \in [Papers -> SUBSET (DocKinds \cup BestEffort)]
  <2>1. CASE StoreDocument(j)
    BY <1>8, <2>1 DEF StoreDocument, Typed, TypeOK
  <2>2. CASE Enhance(j)
    <3> PICK kind \in BestEffort : docs' \in {docs, [docs EXCEPT ![PaperOf(j)] = @ \cup {kind}]}
      BY <2>2 DEF Enhance
    <3> QED BY <1>8 DEF Typed, TypeOK
  <2>3. CASE docs' = docs
    BY <2>3 DEF Typed, TypeOK
  <2> QED BY <2>1, <2>2, <2>3 DEF Pipeline, Compute, CreatePaper, AddUserPaper, LinkJob,
                                  CreateVersion, AttachPdf, tables
<1>14. files' = files
  BY DEF Pipeline, Compute, CreatePaper, AddUserPaper, CreateVersion, LinkJob, AttachPdf,
       StoreDocument, Enhance, tables
<1> QED BY <1>1, <1>6, <1>7, <1>10, <1>11, <1>12, <1>13, <1>14 DEF Typed, TypeOK

(* The steps that move a thread outside its script. *)
ThreadMove(j) ==
  \/ Submit(j) \/ Start(j) \/ AnnounceStart(j) \/ Complete(j) \/ HtmlRaises(j)
  \/ DownloadPdf(j) \/ PdfRaises(j) \/ AnnounceEnd(j)

LEMMA ThreadMoves ==
  ASSUME Typed, NEW j \in Jobs, ThreadMove(j)
  PROVE  /\ UNCHANGED <<request, jobPaper, prefetch, papers, library, versions, docs, environment>>
         /\ files' \in {files, files \cup {<<"upload", j>>}, files \cup {PdfFile(j)}}
         /\ \E t \in Threads, n \in {1, pc[j]} :
              /\ thread' = [thread EXCEPT ![j] = t] /\ pc' = [pc EXCEPT ![j] = n]
              /\ t \in {"queued", "starting", "download"} \cup Forms => n = 1
              /\ t # "none"
              /\ t \in Live => thread[j] \in Live \cup {"none"}
<1>1. UNCHANGED <<request, jobPaper, prefetch, papers, library, versions, docs, environment>>
  BY DEF ThreadMove, Submit, Start, AnnounceStart, Complete, HtmlRaises, DownloadPdf, PdfRaises,
         AnnounceEnd, Fail, jobVars, tables
<1>2. files' \in {files, files \cup {<<"upload", j>>}, files \cup {PdfFile(j)}}
  BY DEF ThreadMove, Submit, Start, AnnounceStart, Complete, HtmlRaises, DownloadPdf, PdfRaises,
         AnnounceEnd, tables
<1>3. \E t \in Threads, n \in {1, pc[j]} :
        /\ thread' = [thread EXCEPT ![j] = t] /\ pc' = [pc EXCEPT ![j] = n]
        /\ t \in {"queued", "starting", "download"} \cup Forms => n = 1
        /\ t # "none"
        /\ t \in Live => thread[j] \in Live \cup {"none"}
  BY DEF ThreadMove, Submit, Start, AnnounceStart, Complete, HtmlRaises, DownloadPdf, PdfRaises,
         AnnounceEnd, Fail, Threads, Live, Forms, Typed, TypeOK, Placed, At
<1> QED BY <1>1, <1>2, <1>3

LEMMA ThreadTyped ==
  ASSUME Typed, NEW j \in Jobs, ThreadMove(j)
  PROVE  Typed'
<1>1. PdfFile(j) \in Files /\ <<"upload", j>> \in Files
  BY DEF PdfFile, Files, Typed, TypeOK, Requests
<1>2. PICK t \in Threads, n \in {1, pc[j]} :
        /\ thread' = [thread EXCEPT ![j] = t] /\ pc' = [pc EXCEPT ![j] = n]
        /\ t \in {"queued", "starting", "download"} \cup Forms => n = 1
        /\ t # "none"
        /\ t \in Live => thread[j] \in Live \cup {"none"}
  BY ThreadMoves
<1>3. n \in 1..Len(HtmlScript)
  BY ScriptLengths DEF Typed, TypeOK
<1>4. thread' \in [Jobs -> Threads] /\ pc' \in [Jobs -> 1..Len(HtmlScript)]
  BY <1>2, <1>3 DEF Typed, TypeOK
<1>5. status' \in [Jobs -> {"NONE", "QUEUED", "RUNNING"} \cup Terminal]
  BY DEF ThreadMove, Submit, Start, AnnounceStart, Complete, HtmlRaises, DownloadPdf, PdfRaises, AnnounceEnd,
         Fail, jobVars, Terminal, Typed, TypeOK
<1>6. announced' \in [Jobs -> Announcements]
  BY DEF ThreadMove, Submit, Start, AnnounceStart, Complete, HtmlRaises, DownloadPdf, PdfRaises, AnnounceEnd,
         Fail, jobVars, Announcements, Typed, TypeOK
<1>7. files' \in {files, files \cup {<<"upload", j>>}, files \cup {PdfFile(j)}}
  BY ThreadMoves
<1>8. UNCHANGED <<request, jobPaper, prefetch, papers, library, versions, docs, environment>>
  BY ThreadMoves
<1>9. TypeOK'
  BY <1>1, <1>4, <1>5, <1>6, <1>7, <1>8 DEF environment, Typed, TypeOK
<1>10. Placed'
  <2> SUFFICES ASSUME NEW k \in Jobs
               PROVE  /\ thread'[k] \in {"none", "queued", "starting", "download"} => pc'[k] = 1
                      /\ thread'[k] \in Forms => pc'[k] <= Len(Script(thread'[k]))
                      /\ thread'[k] = "none" => Undisturbed(k)
                      /\ thread'[k] \in Live => deletion[k] # "after"
    BY <1>8 DEF Placed, Undisturbed, environment
  <2>1. CASE k = j
    <3>1. thread'[j] = t /\ pc'[j] = n
      BY <1>2 DEF Typed, TypeOK
    <3>2. t \in Forms => pc'[j] <= Len(Script(t))
      <4>1. t \in Forms => pc'[j] = 1
        BY <1>2, <3>1
      <4>2. 1 <= Len(Script(t))
        BY ScriptBounds
      <4> QED BY <4>1, <4>2
    <3>3. t \in Live => deletion[j] # "after"
      BY <1>2 DEF Typed, Placed, Undisturbed
    <3> QED BY <1>2, <2>1, <3>1, <3>2, <3>3
  <2>2. CASE k # j
    <3>1. thread'[k] = thread[k] /\ pc'[k] = pc[k]
      BY <1>2, <2>2 DEF Typed, TypeOK
    <3> QED BY <3>1 DEF Typed, Placed
  <2> QED BY <2>1, <2>2
<1> QED BY <1>9, <1>10 DEF Typed

(* The background download, the requests for a PDF, and stuttering. *)
Background ==
  \/ \E j \in Jobs : PrefetchDownload(j) \/ PrefetchLink(j)
  \/ \E p \in Papers : OpenPdf(p)
  \/ UNCHANGED vars

LEMMA NextCases ==
  ASSUME [Next]_vars
  PROVE  \/ \E j \in Jobs : Pipeline(j) \/ ThreadMove(j)
         \/ Background
         \/ Restart
         \/ \E p \in Papers : DeletePaper(p)
  BY DEF Next, ImportStep, Pipeline, ThreadMove, Background

LEMMA BackgroundTyped ==
  ASSUME Typed, Background
  PROVE  Typed'
<1>1. CASE \E j \in Jobs : PrefetchDownload(j) \/ PrefetchLink(j)
  <2> PICK j \in Jobs : PrefetchDownload(j) \/ PrefetchLink(j)
    BY <1>1
  <2>1. request[j].work \in Works
    BY DEF Typed, TypeOK, Requests
  <2>2. <<"arxiv", request[j].work>> \in Files /\ <<request[j].work, "html">> \in Papers
    BY <2>1 DEF Files, Papers, Forms
  <2>3. /\ files' \subseteq Files
        /\ prefetch' \in [Jobs -> {"idle", "downloading", "linking"}]
    BY <2>2 DEF PrefetchDownload, PrefetchLink, Typed, TypeOK
  <2>4. versions' \in [Papers -> Files \cup {EmptyPath, NoVersion}]
    BY <2>2 DEF PrefetchDownload, PrefetchLink, SetFilePath, Typed, TypeOK
  <2>5. UNCHANGED <<jobVars, thread, pc, papers, library, docs, environment>>
    BY DEF PrefetchDownload, PrefetchLink
  <2>6. TypeOK'
    BY <2>3, <2>4, <2>5 DEF jobVars, environment, Typed, TypeOK
  <2> QED BY <2>5, <2>6 DEF Typed, Placed, Undisturbed, environment
<1>2. CASE \E p \in Papers : OpenPdf(p)
  <2> PICK p \in Papers : OpenPdf(p)
    BY <1>2
  <2>1. <<"arxiv", p[1]>> \in Files
    BY DEF Files, Papers
  <2>2. /\ opened' \in {"none", "served", "missing", "server_error"}
        /\ opens' \in Nat
        /\ \/ UNCHANGED <<versions, files>>
           \/ /\ files' = files \cup {<<"arxiv", p[1]>>}
              /\ versions' = [versions EXCEPT ![p] = <<"arxiv", p[1]>>]
    BY DEF OpenPdf, Typed, TypeOK
  <2>5. /\ files' \subseteq Files
        /\ versions' \in [Papers -> Files \cup {EmptyPath, NoVersion}]
    BY <2>1, <2>2 DEF Typed, TypeOK
  <2>3. UNCHANGED <<jobVars, threadVars, papers, library, docs, deletes, crashes, deletion>>
    BY DEF OpenPdf
  <2>4. TypeOK'
    BY <2>2, <2>3, <2>5 DEF jobVars, threadVars, Typed, TypeOK
  <2> QED BY <2>3, <2>4 DEF Typed, Placed, Undisturbed, threadVars
<1>3. CASE UNCHANGED vars
  BY <1>3 DEF vars, jobVars, threadVars, tables, environment, Typed, TypeOK, Placed, Undisturbed
<1> QED BY <1>1, <1>2, <1>3 DEF Background

LEMMA RestartTyped ==
  ASSUME Typed, Restart
  PROVE  Typed'
<1>1. /\ thread' = [j \in Jobs |-> IF thread[j] \in Live THEN "lost" ELSE thread[j]]
      /\ prefetch' = [j \in Jobs |-> "idle"]
      /\ crashes' \in Nat
      /\ UNCHANGED <<jobVars, pc, tables, opened, deletes, opens, deletion>>
  BY DEF Restart, Typed, TypeOK
<1>2. thread' \in [Jobs -> Threads]
  BY <1>1 DEF Typed, TypeOK, Threads
<1>3. TypeOK'
  BY <1>1, <1>2 DEF jobVars, tables, Typed, TypeOK
<1>4. Placed'
  BY <1>1 DEF Typed, Placed, Undisturbed, Live, Forms
<1> QED BY <1>3, <1>4 DEF Typed

LEMMA DeleteTyped ==
  ASSUME Typed, NEW p \in Papers, DeletePaper(p)
  PROVE  Typed'
<1>1. UNCHANGED <<jobVars, threadVars, library, opened, crashes, opens>>
  BY DEF DeletePaper
<1>2. /\ deletion' \in [Jobs -> {"clean", "before", "during", "after"}]
      /\ deletes' \in Nat
      /\ docs' \in [Papers -> SUBSET (DocKinds \cup BestEffort)]
  BY DEF DeletePaper, Typed, TypeOK
<1>3. /\ files' \subseteq Files
      /\ versions' \in [Papers -> Files \cup {EmptyPath, NoVersion}]
      /\ papers' \in [Papers -> Users \cup {NoUser}]
  BY DEF DeletePaper, Typed, TypeOK
<1>4. TypeOK'
  BY <1>1, <1>2, <1>3 DEF jobVars, threadVars, Typed, TypeOK
<1>5. \A j \in Jobs : /\ thread[j] = "none" => deletion'[j] \in {"clean", "before"}
                      /\ thread[j] \in Live => deletion'[j] # "after"
  BY DEF DeletePaper, Typed, TypeOK, Placed, Undisturbed, Live
<1> QED BY <1>1, <1>4, <1>5 DEF Typed, Placed, Undisturbed, threadVars

LEMMA NextTyped ==
  ASSUME Typed, [Next]_vars
  PROVE  Typed'
  BY NextCases, PipelineTyped, ThreadTyped, BackgroundTyped, RestartTyped, DeleteTyped

(* The rows, threads, tables and files stay well formed. *)
THEOREM TypesHold == Spec => []TypeOK
<1>1. Init => Typed
  BY ScriptLengths DEF Init, Typed, TypeOK, Placed, Undisturbed, Announcements, Threads, Live, Forms
<1>2. Typed /\ [Next]_vars => Typed'
  BY NextTyped
<1> QED BY <1>1, <1>2, PTL DEF Spec, Typed

-----------------------------------------------------------------------------
(* Every step but a deletion only adds rows, documents and files.           *)

Grows ==
  /\ request' = request /\ deletion' = deletion
  /\ library \subseteq library' /\ files \subseteq files'
  /\ \A p \in Papers : /\ papers[p] # NoUser => papers'[p] # NoUser
                       /\ HasVersion(p) => HasVersion(p)'
                       /\ docs[p] \subseteq docs'[p]

LEMMA PipelineGrows ==
  ASSUME Typed, NEW j \in Jobs, Pipeline(j)
  PROVE  Grows
<1>1. /\ UNCHANGED <<request, deletion>>
      /\ thread[j] \in Forms
  BY PipelineAdvances
<1>2. PaperOf(j) \in Papers /\ PdfFile(j) \in Files /\ <<"upload", j>> \in Files
  BY <1>1 DEF PaperOf, PdfFile, Papers, Files, Typed, TypeOK, Requests
<1>3. files' = files /\ library \subseteq library'
  BY DEF Pipeline, Compute, CreatePaper, AddUserPaper, CreateVersion, LinkJob, AttachPdf,
       StoreDocument, Enhance, tables
<1>4. request[j].user # NoUser
  BY SentinelAssumption DEF Typed, TypeOK, Requests
<1>5. ASSUME NEW p \in Papers PROVE papers[p] # NoUser => papers'[p] # NoUser
  <2>1. CASE CreatePaper(j)
    BY <1>2, <1>4, <2>1 DEF CreatePaper, Typed, TypeOK
  <2>2. CASE papers' = papers
    BY <2>2
  <2> QED BY <2>1, <2>2 DEF Pipeline, Compute, AddUserPaper, CreateVersion, LinkJob, AttachPdf,
                            StoreDocument, Enhance, tables
<1>6. ASSUME NEW p \in Papers PROVE HasVersion(p) => HasVersion(p)'
  <2>1. NoVersion # PdfFile(j) /\ NoVersion # <<"upload", j>> /\ NoVersion # EmptyPath
    BY <1>2, SentinelAssumption
  <2>2. CASE CreateVersion(j)
    BY <1>2, <2>1, <2>2 DEF CreateVersion, HasVersion, Typed, TypeOK
  <2>3. CASE AttachPdf(j)
    BY <1>2, <2>1, <2>3 DEF AttachPdf, SetFilePath, HasVersion, Typed, TypeOK
  <2>4. CASE versions' = versions
    BY <2>4 DEF HasVersion
  <2> QED BY <2>2, <2>3, <2>4 DEF Pipeline, Compute, CreatePaper, AddUserPaper, LinkJob,
                                  StoreDocument, Enhance, tables
<1>7. ASSUME NEW p \in Papers PROVE docs[p] \subseteq docs'[p]
  <2>1. CASE StoreDocument(j) \/ Enhance(j)
    <3> PICK kind \in DocKinds \cup BestEffort :
               docs' \in {docs, [docs EXCEPT ![PaperOf(j)] = @ \cup {kind}]}
      BY <2>1 DEF StoreDocument, Enhance
    <3> QED BY <1>2 DEF Typed, TypeOK
  <2>2. CASE docs' = docs
    BY <2>2
  <2> QED BY <2>1, <2>2 DEF Pipeline, Compute, CreatePaper, AddUserPaper, LinkJob,
                            CreateVersion, AttachPdf, tables
<1> QED BY <1>1, <1>3, <1>5, <1>6, <1>7 DEF Grows

(* Setting a path that is no sentinel keeps every version. *)
LEMMA SetFilePathKeeps ==
  ASSUME Typed, NEW q \in Papers, NEW path \in Files, SetFilePath(q, path), NEW p \in Papers
  PROVE  /\ HasVersion(p) => HasVersion(p)'
         /\ versions'[p] \in {versions[p], path}
         /\ versions'[p] = path => p = q \/ versions'[p] = versions[p]
<1>1. path # NoVersion
  BY SentinelAssumption
<1> QED BY <1>1 DEF SetFilePath, HasVersion, Typed, TypeOK

LEMMA BackgroundGrows ==
  ASSUME Typed, Background
  PROVE  Grows
<1>1. CASE \E j \in Jobs : PrefetchDownload(j)
  BY <1>1 DEF PrefetchDownload, Grows, jobVars, environment, HasVersion
<1>2. ASSUME NEW j \in Jobs, PrefetchLink(j) PROVE Grows
  <2>1. <<"arxiv", request[j].work>> \in Files /\ <<request[j].work, "html">> \in Papers
    BY DEF Files, Papers, Forms, Typed, TypeOK, Requests
  <2>2. SetFilePath(<<request[j].work, "html">>, <<"arxiv", request[j].work>>)
    BY <1>2 DEF PrefetchLink
  <2>3. \A p \in Papers : HasVersion(p) => HasVersion(p)'
    BY <2>1, <2>2, SetFilePathKeeps
  <2> QED BY <1>2, <2>3 DEF PrefetchLink, Grows, jobVars, environment
<1>3. ASSUME NEW p \in Papers, OpenPdf(p) PROVE Grows
  <2>1. <<"arxiv", p[1]>> # NoVersion
    BY SentinelAssumption DEF Files, Papers
  <2>2. /\ \/ UNCHANGED versions
           \/ versions' = [versions EXCEPT ![p] = <<"arxiv", p[1]>>]
        /\ files \subseteq files'
        /\ UNCHANGED <<request, deletion, library, papers, docs>>
    BY <1>3 DEF OpenPdf, jobVars
  <2>3. \A q \in Papers : HasVersion(q) => HasVersion(q)'
    BY <2>1, <2>2 DEF HasVersion, Typed, TypeOK
  <2> QED BY <2>2, <2>3 DEF Grows
<1>4. CASE UNCHANGED vars
  BY <1>4 DEF vars, jobVars, tables, environment, Grows, HasVersion
<1> QED BY <1>1, <1>2, <1>3, <1>4 DEF Background

LEMMA ThreadMoveGrows ==
  ASSUME Typed, NEW j \in Jobs, ThreadMove(j)
  PROVE  Grows
<1>1. /\ UNCHANGED <<request, papers, library, versions, docs, environment>>
      /\ files \subseteq files'
  BY ThreadMoves
<1> QED BY <1>1 DEF Grows, environment, HasVersion

LEMMA RestartGrows ==
  ASSUME Restart
  PROVE  Grows
  BY DEF Restart, Grows, jobVars, tables, HasVersion

(* Part by part of the invariant, over the steps that only add. *)
Growing ==
  \/ \E j \in Jobs : Pipeline(j) \/ ThreadMove(j)
  \/ Background
  \/ Restart

LEMMA GrowingGrows ==
  ASSUME Typed, Growing
  PROVE  Grows
  BY PipelineGrows, ThreadMoveGrows, BackgroundGrows, RestartGrows DEF Growing

-----------------------------------------------------------------------------
(* StoredBehind. *)

LEMMA StaysBehind ==
  ASSUME Typed, Grows, NEW j \in Jobs, thread[j] \in Forms, HoldsBehind(j),
         thread'[j] = thread[j], pc'[j] = pc[j], jobPaper'[j] = jobPaper[j]
  PROVE  HoldsBehind(j)'
<1>1. Done(j)' = Done(j)
  BY DEF Done
<1>2. PaperOf(j)' = PaperOf(j) /\ Undisturbed(j)' = Undisturbed(j)
  BY DEF PaperOf, Grows, Undisturbed
<1>3. PaperOf(j) \in Papers
  BY DEF PaperOf, Papers, Typed, TypeOK, Requests
<1>4. (HasVersion(PaperOf(j)) => HasVersion(PaperOf(j))')
  BY <1>2, <1>3 DEF Grows, HasVersion
<1> QED BY <1>1, <1>2, <1>3, <1>4 DEF HoldsBehind, Grows

LEMMA NothingBehind ==
  ASSUME NEW j \in Jobs, pc'[j] = 1
  PROVE  HoldsBehind(j)'
<1>1. Done(j)' = {}
  BY DEF Done, Behind
<1> QED BY <1>1 DEF HoldsBehind

LEMMA OneMoreBehind ==
  ASSUME Typed, NEW j \in Jobs, Pipeline(j)
  PROVE  Done(j)' = Done(j) \cup {Op(j)}
<1>1. /\ pc' = [pc EXCEPT ![j] = pc[j] + 1] /\ thread' = thread
  BY PipelineAdvances
<1>2. pc'[j] = pc[j] + 1 /\ pc[j] \in Nat /\ pc[j] >= 1
  BY <1>1, ScriptLengths DEF Typed, TypeOK
<1>3. 1..(pc'[j] - 1) = 1..(pc[j] - 1) \cup {pc[j]}
  BY <1>2
<1> QED BY <1>1, <1>3 DEF Done, Behind, Op

LEMMA PipelineHolds ==
  ASSUME Typed, Grows, NEW j \in Jobs, Pipeline(j), HoldsBehind(j)
  PROVE  HoldsBehind(j)'
<1>1. /\ thread[j] \in Forms /\ UNCHANGED <<thread, request, deletion>>
  BY PipelineAdvances
<1>2. Done(j)' = Done(j) \cup {Op(j)}
  BY OneMoreBehind
<1>3. PaperOf(j)' = PaperOf(j) /\ Undisturbed(j)' = Undisturbed(j)
  BY <1>1 DEF PaperOf, Undisturbed
<1>4. PaperOf(j) \in Papers /\ request[j].user # NoUser
  BY <1>1, SentinelAssumption DEF PaperOf, Papers, Typed, TypeOK, Requests
<1>5. /\ Op(j) = "link_job" => jobPaper'[j] = PaperOf(j)
      /\ jobPaper'[j] \in {jobPaper[j], PaperOf(j)}
  BY DEF Pipeline, Compute, CreatePaper, AddUserPaper, CreateVersion, LinkJob, AttachPdf,
       StoreDocument, Enhance, At, Op, jobVars, DocKinds, Required, BestEffort, Typed, TypeOK
<1>6. Op(j) = "add_user_paper" => <<request[j].user, PaperOf(j)>> \in library'
  BY DEF Pipeline, Compute, CreatePaper, AddUserPaper, CreateVersion, LinkJob, AttachPdf,
       StoreDocument, Enhance, At, Op, DocKinds, Required, BestEffort
<1>7. Op(j) = "create_paper" => papers'[PaperOf(j)] # NoUser
  <2> SUFFICES ASSUME Op(j) = "create_paper" PROVE papers'[PaperOf(j)] # NoUser
    OBVIOUS
  <2>1. CreatePaper(j)
    BY DEF Pipeline, Compute, AddUserPaper, CreateVersion, LinkJob, AttachPdf,
           StoreDocument, Enhance, At, Op, DocKinds, Required, BestEffort
  <2> QED BY <1>4, <2>1 DEF CreatePaper, Typed, TypeOK
<1>8. Op(j) = "create_version" => versions'[PaperOf(j)] # NoVersion
  <2> SUFFICES ASSUME Op(j) = "create_version" PROVE versions'[PaperOf(j)] # NoVersion
    OBVIOUS
  <2>1. CreateVersion(j)
    BY DEF Pipeline, Compute, AddUserPaper, CreatePaper, LinkJob, AttachPdf,
           StoreDocument, Enhance, At, Op, DocKinds, Required, BestEffort
  <2>2. PdfFile(j) \in Files
    BY DEF PdfFile, Files, Typed, TypeOK, Requests
  <2>3. NoVersion # PdfFile(j) /\ NoVersion # EmptyPath
    BY <2>2, SentinelAssumption
  <2> QED BY <1>4, <2>1, <2>3 DEF CreateVersion, Typed, TypeOK
<1>9. Op(j) \in Required(thread[j]) => Op(j) \in docs'[PaperOf(j)]
  <2> SUFFICES ASSUME Op(j) \in Required(thread[j]) PROVE Op(j) \in docs'[PaperOf(j)]
    OBVIOUS
  <2>1. StoreDocument(j)
    BY DEF Pipeline, Compute, AddUserPaper, CreatePaper, LinkJob, AttachPdf,
           CreateVersion, Enhance, At, Op, Required, BestEffort
  <2>2. docs' = [docs EXCEPT ![PaperOf(j)] = @ \cup {Op(j)}]
    BY <2>1 DEF StoreDocument, At, Op
  <2> QED BY <1>4, <2>2 DEF Typed, TypeOK
<1>10. /\ HasVersion(PaperOf(j)) => versions'[PaperOf(j)] # NoVersion
       /\ papers[PaperOf(j)] # NoUser => papers'[PaperOf(j)] # NoUser
       /\ docs[PaperOf(j)] \subseteq docs'[PaperOf(j)]
       /\ library \subseteq library'
  BY <1>4 DEF Grows, HasVersion
<1>11. HasVersion(PaperOf(j))' <=> versions'[PaperOf(j)] # NoVersion
  BY <1>3 DEF HasVersion
<1> QED BY <1>1, <1>2, <1>3, <1>5, <1>6, <1>7, <1>8, <1>9, <1>10, <1>11 DEF HoldsBehind

LEMMA StoredBehindKept ==
  ASSUME ImportInv, Growing
  PROVE  StoredBehind'
<1>1. Typed /\ Grows
  BY GrowingGrows DEF ImportInv, Typed
<1> SUFFICES ASSUME NEW k \in Jobs, thread'[k] \in Forms PROVE HoldsBehind(k)'
  BY DEF StoredBehind
<1>2. thread[k] \in Forms => HoldsBehind(k)
  BY DEF ImportInv, StoredBehind
<1>3. ASSUME NEW j \in Jobs, Pipeline(j) PROVE HoldsBehind(k)'
  <2>1. pc' = [pc EXCEPT ![j] = pc[j] + 1] /\ thread' = thread
    BY <1>3, PipelineAdvances
  <2>2. CASE k = j
    BY <1>1, <1>2, <1>3, <2>1, <2>2, PipelineHolds
  <2>3. CASE k # j
    <3>1. pc'[k] = pc[k]
      BY <2>1, <2>3 DEF ImportInv, TypeOK
    <3>2. jobPaper'[k] = jobPaper[k]
      BY <1>3, <2>3 DEF Pipeline, Compute, CreatePaper, AddUserPaper, CreateVersion, LinkJob,
           AttachPdf, StoreDocument, Enhance, jobVars, ImportInv, TypeOK
    <3> QED BY <1>1, <1>2, <2>1, <3>1, <3>2, StaysBehind
  <2> QED BY <2>2, <2>3
<1>4. ASSUME NEW j \in Jobs, ThreadMove(j) PROVE HoldsBehind(k)'
  <2>1. jobPaper' = jobPaper
    BY <1>1, <1>4, ThreadMoves
  <2>2. PICK t \in Threads, n \in {1, pc[j]} :
          /\ thread' = [thread EXCEPT ![j] = t] /\ pc' = [pc EXCEPT ![j] = n]
          /\ t \in {"queued", "starting", "download"} \cup Forms => n = 1
    BY <1>1, <1>4, ThreadMoves
  <2>3. CASE k = j
    <3>1. pc'[k] = 1
      BY <2>2, <2>3 DEF ImportInv, TypeOK
    <3> QED BY <3>1, NothingBehind
  <2>4. CASE k # j
    <3>1. thread'[k] = thread[k] /\ pc'[k] = pc[k]
      BY <2>2, <2>4 DEF ImportInv, TypeOK
    <3> QED BY <1>1, <1>2, <2>1, <3>1, StaysBehind
  <2> QED BY <2>3, <2>4
<1>5. CASE Background
  <2>1. UNCHANGED <<jobPaper, thread, pc>>
    BY <1>5 DEF Background, PrefetchDownload, PrefetchLink, OpenPdf, vars, jobVars, threadVars
  <2> QED BY <1>1, <1>2, <2>1, StaysBehind
<1>6. CASE Restart
  <2>1. UNCHANGED <<jobPaper, pc>> /\ thread'[k] = thread[k]
    BY <1>6 DEF Restart, jobVars, Forms
  <2> QED BY <1>1, <1>2, <2>1, StaysBehind
<1> QED BY <1>3, <1>4, <1>5, <1>6 DEF Growing

-----------------------------------------------------------------------------
(* StoredBySucceeded. *)

LEMMA StillPoints ==
  ASSUME Grows, NEW k \in Jobs, PointsAtPaper(k), jobPaper'[k] = jobPaper[k]
  PROVE  PointsAtPaper(k)'
<1>1. jobPaper[k] \in Papers
  BY DEF PointsAtPaper
<1>2. Undisturbed(k)' = Undisturbed(k) /\ request' = request
  BY DEF Grows, Undisturbed
<1>3. Readable(jobPaper[k]) => /\ papers'[jobPaper[k]] # NoUser
                               /\ versions'[jobPaper[k]] # NoVersion
                               /\ Required(jobPaper[k][2]) \subseteq docs'[jobPaper[k]]
  BY <1>1 DEF Readable, HasVersion, Grows
<1>4. library \subseteq library'
  BY DEF Grows
<1> QED BY <1>1, <1>2, <1>3, <1>4 DEF PointsAtPaper, Readable, HasVersion

(* The last commit of a pipeline: everything its reader needs is behind it. *)
LEMMA CompletePoints ==
  ASSUME ImportInv, NEW j \in Jobs, Complete(j)
  PROVE  PointsAtPaper(j)'
<1>1. /\ thread[j] \in Forms /\ Op(j) = "complete"
      /\ UNCHANGED <<request, jobPaper, tables, environment>>
  BY DEF Complete, At, Op
<1>2. pc[j] \in 1..Len(Script(thread[j]))
  BY <1>1, ScriptLengths DEF ImportInv, TypeOK, Placed
<1>3. {"link_job", "add_user_paper", "create_paper", "create_version"}
        \cup Required(thread[j]) \subseteq Done(j)
  BY <1>1, <1>2, ScriptOrder DEF Done, Op
<1>4. HoldsBehind(j)
  BY <1>1 DEF ImportInv, StoredBehind
<1>5. PaperOf(j) \in Papers /\ PaperOf(j)[1] = request[j].work /\ PaperOf(j)[2] = thread[j]
  BY <1>1 DEF PaperOf, Papers, ImportInv, TypeOK, Requests
<1>6. jobPaper[j] = PaperOf(j) /\ <<request[j].user, PaperOf(j)>> \in library
  BY <1>3, <1>4 DEF HoldsBehind
<1>7. Undisturbed(j) => Readable(PaperOf(j))
  BY <1>3, <1>4, <1>5 DEF HoldsBehind, Readable
<1>8. PointsAtPaper(j)
  BY <1>5, <1>6, <1>7 DEF PointsAtPaper
<1> QED BY <1>1, <1>8 DEF PointsAtPaper, Undisturbed, Readable, HasVersion, tables, environment

LEMMA StoredBySucceededKept ==
  ASSUME ImportInv, Growing
  PROVE  StoredBySucceeded'
<1>1. Typed /\ Grows
  BY GrowingGrows DEF ImportInv, Typed
<1> SUFFICES ASSUME NEW k \in Jobs, status'[k] = "SUCCEEDED" PROVE PointsAtPaper(k)'
  BY DEF StoredBySucceeded
<1>2. status[k] = "SUCCEEDED" => PointsAtPaper(k)
  BY DEF ImportInv, StoredBySucceeded
<1>3. ASSUME NEW j \in Jobs, Pipeline(j) PROVE PointsAtPaper(k)'
  <2>1. status' = status /\ thread[j] \in Forms
    BY <1>3, PipelineAdvances
  <2>2. status[j] = "RUNNING"
    BY <2>1 DEF ImportInv, LifecycleInv, RowFollowsThread, RowOf, Forms
  <2>3. k # j
    BY <2>1, <2>2
  <2>4. jobPaper'[k] = jobPaper[k]
    BY <1>3, <2>3 DEF Pipeline, Compute, CreatePaper, AddUserPaper, CreateVersion, LinkJob,
         AttachPdf, StoreDocument, Enhance, jobVars, ImportInv, TypeOK
  <2> QED BY <1>1, <1>2, <2>1, <2>4, StillPoints
<1>4. ASSUME NEW j \in Jobs, ThreadMove(j) PROVE PointsAtPaper(k)'
  <2>1. jobPaper' = jobPaper
    BY <1>1, <1>4, ThreadMoves
  <2>2. CASE Complete(j) /\ k = j
    BY <2>2, CompletePoints
  <2>3. CASE ~(Complete(j) /\ k = j)
    <3>1. status[k] = "SUCCEEDED"
      BY <1>4, <2>3 DEF ThreadMove, Submit, Start, AnnounceStart, Complete, HtmlRaises,
           DownloadPdf, PdfRaises, AnnounceEnd, Fail, jobVars, ImportInv, TypeOK
    <3> QED BY <1>1, <1>2, <2>1, <3>1, StillPoints
  <2> QED BY <2>2, <2>3
<1>5. CASE Background \/ Restart
  <2>1. UNCHANGED <<jobPaper, status>>
    BY <1>5 DEF Background, PrefetchDownload, PrefetchLink, OpenPdf, Restart, vars, jobVars
  <2> QED BY <1>1, <1>2, <2>1, StillPoints
<1> QED BY <1>3, <1>4, <1>5 DEF Growing

-----------------------------------------------------------------------------
(* VersionsRecordOwnFiles. *)

(* The one or two paths a step can record for a version. *)
LEMMA VersionsRecorded ==
  ASSUME Typed, VersionsRecordOwnFiles, request' = request,
         NEW q \in Papers, NEW path \in Recordable(q),
         versions' \in {versions, [versions EXCEPT ![q] = path]}
  PROVE  VersionsRecordOwnFiles'
<1> SUFFICES ASSUME NEW p \in Papers PROVE versions'[p] \in Recordable(p)
  BY DEF VersionsRecordOwnFiles, Recordable, FilesOf
<1>1. versions[p] \in Recordable(p)
  BY DEF VersionsRecordOwnFiles
<1>2. versions \in [Papers -> Files \cup {EmptyPath, NoVersion}]
  BY DEF Typed, TypeOK
<1> QED BY <1>1, <1>2

LEMMA OwnFiles ==
  ASSUME Typed, NEW j \in Jobs
  PROVE  /\ <<"arxiv", request[j].work>> \in FilesOf(request[j].work)
         /\ <<"upload", j>> \in FilesOf(request[j].work)
         /\ PdfFile(j) \in FilesOf(request[j].work)
         /\ request[j].work \in Works
  BY DEF FilesOf, PdfFile, Typed, TypeOK, Requests

LEMMA VersionsKept ==
  ASSUME ImportInv, Growing
  PROVE  VersionsRecordOwnFiles'
<1>1. Typed /\ Grows /\ request' = request /\ VersionsRecordOwnFiles
  BY GrowingGrows DEF ImportInv, Typed, Grows
<1>2. ASSUME NEW q \in Papers, NEW path \in Recordable(q),
             versions' \in {versions, [versions EXCEPT ![q] = path]}
      PROVE  VersionsRecordOwnFiles'
  BY <1>1, <1>2, VersionsRecorded
<1>3. CASE versions' = versions
  BY <1>1, <1>3 DEF VersionsRecordOwnFiles, Recordable, FilesOf
<1>4. ASSUME NEW j \in Jobs, CreateVersion(j) PROVE VersionsRecordOwnFiles'
  <2> DEFINE path == IF thread[j] = "html" THEN EmptyPath ELSE PdfFile(j)
  <2>1. thread[j] \in Forms
    BY <1>4 DEF CreateVersion, At
  <2>2. PaperOf(j) \in Papers /\ path \in Recordable(PaperOf(j))
    BY <1>1, <2>1, OwnFiles DEF PaperOf, Papers, Recordable, Forms
  <2>3. versions' \in {versions, [versions EXCEPT ![PaperOf(j)] = path]}
    BY <1>1, <1>4, <2>2 DEF CreateVersion, Typed, TypeOK
  <2> HIDE DEF path
  <2> QED BY <1>2, <2>2, <2>3
<1>5. ASSUME NEW j \in Jobs, AttachPdf(j) PROVE VersionsRecordOwnFiles'
  <2>1. thread[j] \in Forms
    BY <1>5 DEF AttachPdf, At
  <2>2. PaperOf(j) \in Papers /\ <<"upload", j>> \in Recordable(PaperOf(j))
    BY <1>1, <2>1, OwnFiles DEF PaperOf, Papers, Recordable
  <2>3. versions' \in {versions, [versions EXCEPT ![PaperOf(j)] = <<"upload", j>>]}
    BY <1>1, <1>5, <2>2 DEF AttachPdf, SetFilePath, Typed, TypeOK
  <2> QED BY <1>2, <2>2, <2>3
<1>6. ASSUME NEW j \in Jobs, PrefetchLink(j) PROVE VersionsRecordOwnFiles'
  <2> DEFINE q == <<request[j].work, "html">>   path == <<"arxiv", request[j].work>>
  <2>1. q \in Papers /\ path \in Recordable(q)
    BY <1>1, OwnFiles DEF Papers, Forms, Recordable
  <2>2. versions' \in {versions, [versions EXCEPT ![q] = path]}
    BY <1>1, <1>6, <2>1 DEF PrefetchLink, SetFilePath, Typed, TypeOK
  <2> HIDE DEF q, path
  <2> QED BY <1>2, <2>1, <2>2
<1>7. ASSUME NEW p \in Papers, OpenPdf(p) PROVE VersionsRecordOwnFiles'
  <2>1. <<"arxiv", p[1]>> \in Recordable(p)
    BY DEF Recordable, FilesOf
  <2>2. versions' \in {versions, [versions EXCEPT ![p] = <<"arxiv", p[1]>>]}
    BY <1>7 DEF OpenPdf
  <2> QED BY <1>2, <2>1, <2>2
<1>8. ASSUME NEW j \in Jobs, Pipeline(j) PROVE VersionsRecordOwnFiles'
  BY <1>3, <1>4, <1>5, <1>8 DEF Pipeline, Compute, CreatePaper, AddUserPaper, LinkJob,
                                StoreDocument, Enhance, tables
<1>9. ASSUME NEW j \in Jobs, ThreadMove(j) PROVE VersionsRecordOwnFiles'
  BY <1>1, <1>3, <1>9, ThreadMoves
<1>10. CASE Background
  BY <1>3, <1>6, <1>7, <1>10 DEF Background, PrefetchDownload, vars, tables
<1>11. CASE Restart
  BY <1>3, <1>11 DEF Restart, tables
<1> QED BY <1>8, <1>9, <1>10, <1>11 DEF Growing

-----------------------------------------------------------------------------
(* Orphan documents, deletions aside: a pipeline that stores a document has   *)
(* created its version, which only a deletion during the import removes.      *)

LEMMA OrphansKept ==
  ASSUME ImportInv, Growing
  PROVE  OrphanDocumentsOnlyFromRaces'
<1>1. Typed /\ Grows
  BY GrowingGrows DEF ImportInv, Typed
<1> SUFFICES ASSUME NEW p \in Papers, docs'[p] # {}, ~HasVersion(p)'
             PROVE  \E j \in Jobs : request[j].work = p[1] /\ deletion[j] = "during"
  BY <1>1 DEF OrphanDocumentsOnlyFromRaces, Grows, HasVersion
<1>2. ~HasVersion(p)
  BY <1>1 DEF Grows, HasVersion
<1>3. CASE docs'[p] = docs[p]
  BY <1>2, <1>3 DEF ImportInv, OrphanDocumentsOnlyFromRaces
<1>4. ASSUME NEW j \in Jobs, StoreDocument(j) \/ Enhance(j), docs'[p] # docs[p]
      PROVE  request[j].work = p[1] /\ deletion[j] = "during"
  <2>1. thread[j] \in Forms /\ Op(j) \in DocKinds \cup BestEffort
    BY <1>4 DEF StoreDocument, Enhance, At, Op
  <2>2. p = PaperOf(j)
    <3> PICK kind \in DocKinds \cup BestEffort :
               docs' \in {docs, [docs EXCEPT ![PaperOf(j)] = @ \cup {kind}]}
      BY <1>4 DEF StoreDocument, Enhance
    <3> QED BY <1>1, <1>4 DEF Typed, TypeOK
  <2>3. pc[j] \in 1..Len(Script(thread[j]))
    BY <2>1, ScriptLengths DEF ImportInv, TypeOK, Placed
  <2>4. "create_version" \in Done(j)
    BY <2>1, <2>3, ScriptOrder DEF Done, Op
  <2>5. ~Undisturbed(j)
    BY <1>2, <2>1, <2>2, <2>4 DEF ImportInv, StoredBehind, HoldsBehind
  <2>6. thread[j] \in Live
    BY <2>1 DEF Live, Forms
  <2>7. deletion[j] # "after" /\ deletion[j] \in {"clean", "before", "during", "after"}
    BY <2>6 DEF ImportInv, Placed, TypeOK
  <2> QED BY <2>2, <2>5, <2>7 DEF Undisturbed, PaperOf
<1>5. CASE \E j \in Jobs : Pipeline(j)
  BY <1>3, <1>4, <1>5 DEF Pipeline, Compute, CreatePaper, AddUserPaper, CreateVersion,
                          LinkJob, AttachPdf, tables
<1>6. CASE \E j \in Jobs : ThreadMove(j)
  BY <1>1, <1>3, <1>6, ThreadMoves
<1>7. CASE Background \/ Restart
  BY <1>3, <1>7 DEF Background, PrefetchDownload, PrefetchLink, OpenPdf, Restart, vars, tables
<1> QED BY <1>5, <1>6, <1>7 DEF Growing

-----------------------------------------------------------------------------
(* FilesKept. *)

(* What a version records after a step was recorded before, or is on disk. *)
LEMMA RecordedOnDisk ==
  ASSUME ImportInv, Growing, NEW w \in Works, WorkFilesOnDisk(w),
         NEW p \in Papers, p[1] = w, versions'[p] \in Files
  PROVE  versions'[p] \in files'
<1>1. Typed /\ Grows /\ files \subseteq files'
  BY GrowingGrows DEF ImportInv, Typed, Grows
<1>2. versions[p] \in Files => versions[p] \in files
  BY DEF WorkFilesOnDisk
<1>3. CASE versions'[p] = versions[p]
  BY <1>1, <1>2, <1>3
<1>4. ASSUME NEW j \in Jobs, CreateVersion(j) PROVE versions'[p] \in files'
  <2>1. thread[j] \in Forms /\ Op(j) = "create_version" /\ files' = files
    BY <1>4 DEF CreateVersion, At, Op
  <2>2. PaperOf(j) \in Papers
    BY <1>1, <2>1, OwnFiles DEF PaperOf, Papers
  <2>3. CASE versions'[p] # versions[p]
    <3>1. p = PaperOf(j)
      BY <1>1, <1>4, <2>2, <2>3 DEF CreateVersion, Typed, TypeOK
    <3>2. versions'[p] = IF thread[j] = "html" THEN EmptyPath ELSE PdfFile(j)
      BY <1>1, <1>4, <2>2, <2>3, <3>1 DEF CreateVersion, Typed, TypeOK
    <3>3. thread[j] = "pdf" /\ versions'[p] = PdfFile(j)
      BY <2>1, <3>2, SentinelAssumption DEF Forms
    <3>4. pc[j] \in 1..Len(Script(thread[j]))
      BY <2>1, ScriptLengths DEF ImportInv, TypeOK, Placed
    <3>5. "read_file" \in Done(j)
      BY <2>1, <3>3, <3>4, ScriptOrder DEF Done, Op
    <3>6. request[j].work = w
      BY <3>1 DEF PaperOf
    <3> QED BY <2>1, <3>3, <3>5, <3>6 DEF WorkFilesOnDisk
  <2> QED BY <1>3, <2>3
<1>5. ASSUME NEW j \in Jobs, AttachPdf(j) PROVE versions'[p] \in files'
  <2>1. thread[j] \in Forms /\ files' = files
    BY <1>5 DEF AttachPdf, At
  <2>2. CASE versions'[p] # versions[p]
    BY <1>1, <1>5, <2>1, <2>2 DEF AttachPdf, SetFilePath, Typed, TypeOK
  <2> QED BY <1>3, <2>2
<1>6. ASSUME NEW j \in Jobs, PrefetchLink(j) PROVE versions'[p] \in files'
  <2>1. prefetch[j] = "linking" /\ files' = files
    BY <1>6 DEF PrefetchLink
  <2>2. CASE versions'[p] # versions[p]
    <3>1. p = <<request[j].work, "html">> /\ versions'[p] = <<"arxiv", request[j].work>>
      BY <1>1, <1>6, <2>2 DEF PrefetchLink, SetFilePath, Typed, TypeOK
    <3>2. request[j].work = w
      BY <3>1
    <3> QED BY <2>1, <3>1, <3>2 DEF WorkFilesOnDisk
  <2> QED BY <1>3, <2>2
<1>7. ASSUME NEW q \in Papers, OpenPdf(q) PROVE versions'[p] \in files'
  <2>1. \/ versions' = versions
        \/ /\ versions' = [versions EXCEPT ![q] = <<"arxiv", q[1]>>]
           /\ <<"arxiv", q[1]>> \in files'
    BY <1>7 DEF OpenPdf
  <2>2. CASE versions'[p] # versions[p]
    BY <1>1, <2>1, <2>2 DEF Typed, TypeOK
  <2> QED BY <1>3, <2>2
<1>8. CASE \E j \in Jobs : Pipeline(j)
  BY <1>3, <1>4, <1>5, <1>8 DEF Pipeline, Compute, CreatePaper, AddUserPaper, LinkJob,
                                StoreDocument, Enhance, tables
<1>9. CASE \E j \in Jobs : ThreadMove(j)
  BY <1>1, <1>3, <1>9, ThreadMoves
<1>10. CASE Background
  BY <1>3, <1>6, <1>7, <1>10 DEF Background, PrefetchDownload, vars, tables
<1>11. CASE Restart
  BY <1>3, <1>11 DEF Restart, tables
<1> QED BY <1>8, <1>9, <1>10, <1>11 DEF Growing

(* A PDF a pipeline has read is still on disk. *)
LEMMA ReadOnDisk ==
  ASSUME ImportInv, Growing, NEW k \in Jobs, WorkFilesOnDisk(request[k].work),
         thread'[k] = "pdf", "read_file" \in Done(k)'
  PROVE  PdfFile(k)' \in files'
<1>1. Typed /\ Grows /\ files \subseteq files'
  BY GrowingGrows DEF ImportInv, Typed, Grows
<1>2. PdfFile(k)' = PdfFile(k)
  BY <1>1 DEF PdfFile, Grows
<1>3. thread[k] = "pdf" /\ "read_file" \in Done(k) => PdfFile(k) \in files
  BY DEF WorkFilesOnDisk
<1>4. CASE thread'[k] = thread[k] /\ pc'[k] = pc[k]
  BY <1>1, <1>2, <1>3, <1>4 DEF Done
<1>5. CASE pc'[k] = 1
  BY <1>5 DEF Done, Behind
<1>6. ASSUME NEW j \in Jobs, Pipeline(j) PROVE PdfFile(k)' \in files'
  <2>1. pc' = [pc EXCEPT ![j] = pc[j] + 1] /\ thread' = thread
    BY <1>6, PipelineAdvances
  <2>2. CASE k # j
    BY <1>4, <2>1, <2>2 DEF ImportInv, TypeOK
  <2>3. CASE k = j /\ Op(j) = "read_file"
    BY <1>1, <1>2, <1>6, <2>3 DEF Pipeline, Compute, CreatePaper, AddUserPaper, CreateVersion,
         LinkJob, AttachPdf, StoreDocument, Enhance, At, Op, DocKinds, Required, BestEffort
  <2>4. CASE k = j /\ Op(j) # "read_file"
    <3>1. "read_file" \in Done(k)
      BY <1>1, <1>6, <2>4, OneMoreBehind
    <3> QED BY <1>1, <1>2, <1>3, <2>1, <3>1
  <2> QED BY <2>2, <2>3, <2>4
<1>7. ASSUME NEW j \in Jobs, ThreadMove(j) PROVE PdfFile(k)' \in files'
  <2>1. PICK t \in Threads, n \in {1, pc[j]} :
          /\ thread' = [thread EXCEPT ![j] = t] /\ pc' = [pc EXCEPT ![j] = n]
          /\ t \in {"queued", "starting", "download"} \cup Forms => n = 1
    BY <1>1, <1>7, ThreadMoves
  <2>2. CASE k = j
    BY <1>5, <2>1, <2>2 DEF ImportInv, TypeOK, Forms
  <2>3. CASE k # j
    BY <1>4, <2>1, <2>3 DEF ImportInv, TypeOK
  <2> QED BY <2>2, <2>3
<1>8. CASE Background \/ Restart
  <2>1. thread'[k] = thread[k] /\ pc'[k] = pc[k]
    BY <1>8 DEF Background, PrefetchDownload, PrefetchLink, OpenPdf, Restart, vars, threadVars
  <2> QED BY <1>4, <2>1
<1> QED BY <1>6, <1>7, <1>8 DEF Growing

(* So is one the background download has stored and not linked yet. *)
LEMMA PrefetchedOnDisk ==
  ASSUME ImportInv, Growing, NEW k \in Jobs, WorkFilesOnDisk(request[k].work),
         prefetch'[k] = "linking"
  PROVE  <<"arxiv", request[k].work>> \in files'
<1>1. Typed /\ Grows /\ files \subseteq files'
  BY GrowingGrows DEF ImportInv, Typed, Grows
<1>2. CASE prefetch[k] = "linking"
  BY <1>1, <1>2 DEF WorkFilesOnDisk
<1>3. ASSUME NEW j \in Jobs, Pipeline(j) PROVE prefetch[k] = "linking"
  BY <1>1, <1>3 DEF Pipeline, Compute, CreatePaper, AddUserPaper, CreateVersion, LinkJob, AttachPdf,
       StoreDocument, Enhance, Advance, Typed, TypeOK
<1>4. ASSUME NEW j \in Jobs, ThreadMove(j) PROVE prefetch[k] = "linking"
  BY <1>1, <1>4, ThreadMoves
<1>5. ASSUME NEW j \in Jobs, PrefetchDownload(j), prefetch[k] # "linking"
      PROVE  <<"arxiv", request[k].work>> \in files'
  BY <1>1, <1>5 DEF PrefetchDownload, Typed, TypeOK
<1>6. ASSUME NEW j \in Jobs, PrefetchLink(j) PROVE prefetch[k] = "linking"
  BY <1>1, <1>6 DEF PrefetchLink, Typed, TypeOK
<1>7. CASE \/ \E p \in Papers : OpenPdf(p)
           \/ UNCHANGED vars
  BY <1>2, <1>7 DEF OpenPdf, vars, threadVars
<1>8. CASE Restart
  BY <1>8 DEF Restart
<1> QED BY <1>2, <1>3, <1>4, <1>5, <1>6, <1>7, <1>8 DEF Growing, Background

LEMMA FilesKeptKept ==
  ASSUME ImportInv, Growing
  PROVE  FilesKept'
<1>1. Typed /\ Grows
  BY GrowingGrows DEF ImportInv, Typed
<1>2. request' = request /\ deletion' = deletion
  BY <1>1 DEF Grows
<1> SUFFICES ASSUME NEW i \in Jobs, deletion[i] = "clean"
             PROVE  WorkFilesOnDisk(request[i].work)'
  BY <1>2 DEF FilesKept
<1> DEFINE w == request[i].work
<1>3. WorkFilesOnDisk(w) /\ w \in Works /\ w' = w
  BY <1>1, <1>2, OwnFiles DEF ImportInv, FilesKept
<1> HIDE DEF w
<1>4. \A p \in Papers : p[1] = w /\ versions'[p] \in Files => versions'[p] \in files'
  BY <1>3, RecordedOnDisk
<1>5. \A k \in Jobs : request[k].work = w /\ thread'[k] = "pdf" /\ "read_file" \in Done(k)'
                      => PdfFile(k)' \in files'
  BY <1>3, ReadOnDisk
<1>6. \A k \in Jobs : request[k].work = w /\ prefetch'[k] = "linking" => <<"arxiv", w>> \in files'
  BY <1>3, PrefetchedOnDisk
<1>7. WorkFilesOnDisk(w)'
  BY <1>2, <1>3, <1>4, <1>5, <1>6 DEF WorkFilesOnDisk
<1> QED BY <1>7 DEF w

-----------------------------------------------------------------------------
(* A deletion.  It marks every job of the work, and what it takes away - rows, *)
(* documents, one file - belongs to that work alone.                           *)

LEMMA DeletionMarks ==
  ASSUME Typed, NEW p \in Papers, DeletePaper(p), NEW j \in Jobs
  PROVE  /\ request[j].work # p[1] => deletion'[j] = deletion[j]
         /\ request[j].work = p[1] => deletion'[j] # "clean"
         /\ request[j].work = p[1] /\ thread[j] # "none" => deletion'[j] \in {"during", "after"}
         /\ request[j].work = p[1] /\ thread[j] \in Live => deletion'[j] = "during"
         /\ deletion[j] = "during" => deletion'[j] = "during"
<1>1. thread[j] = "none" => deletion[j] # "during"
  BY DEF Typed, Placed, Undisturbed
<1> QED BY <1>1 DEF DeletePaper, Typed, TypeOK, Live

LEMMA OthersUntouched ==
  ASSUME Typed, NEW p \in Papers, DeletePaper(p), NEW q \in Papers, q # p
  PROVE  papers'[q] = papers[q] /\ versions'[q] = versions[q] /\ docs'[q] = docs[q]
  BY DEF DeletePaper, Typed, TypeOK

LEMMA DeleteStoredBehind ==
  ASSUME ImportInv, NEW p \in Papers, DeletePaper(p)
  PROVE  StoredBehind'
<1>1. Typed /\ UNCHANGED <<request, status, jobPaper, thread, pc, library>>
  BY DEF ImportInv, Typed, DeletePaper, jobVars, threadVars
<1> SUFFICES ASSUME NEW k \in Jobs, thread[k] \in Forms PROVE HoldsBehind(k)'
  BY <1>1 DEF StoredBehind
<1>2. HoldsBehind(k)
  BY DEF ImportInv, StoredBehind
<1>3. Done(k)' = Done(k) /\ PaperOf(k)' = PaperOf(k)
  BY <1>1 DEF Done, PaperOf
<1>4. PaperOf(k) \in Papers
  BY <1>1, OwnFiles DEF PaperOf, Papers
<1>5. thread[k] \in Live
  BY DEF Live, Forms
<1>6. CASE request[k].work = p[1]
  <2>1. ~Undisturbed(k)'
    BY <1>1, <1>5, <1>6, DeletionMarks DEF Undisturbed
  <2> QED BY <1>1, <1>2, <1>3, <2>1 DEF HoldsBehind
<1>7. CASE request[k].work # p[1]
  <2>1. PaperOf(k) # p
    BY <1>7 DEF PaperOf
  <2>2. Undisturbed(k)' = Undisturbed(k)
    BY <1>1, <1>7, DeletionMarks DEF Undisturbed
  <2>3. /\ papers'[PaperOf(k)] = papers[PaperOf(k)]
        /\ versions'[PaperOf(k)] = versions[PaperOf(k)]
        /\ docs'[PaperOf(k)] = docs[PaperOf(k)]
    BY <1>1, <1>4, <2>1, OthersUntouched
  <2> QED BY <1>1, <1>2, <1>3, <2>2, <2>3 DEF HoldsBehind, HasVersion
<1> QED BY <1>6, <1>7

LEMMA DeleteStoredBySucceeded ==
  ASSUME ImportInv, NEW p \in Papers, DeletePaper(p)
  PROVE  StoredBySucceeded'
<1>1. Typed /\ UNCHANGED <<request, status, jobPaper, thread, library>>
  BY DEF ImportInv, Typed, DeletePaper, jobVars, threadVars
<1> SUFFICES ASSUME NEW k \in Jobs, status[k] = "SUCCEEDED" PROVE PointsAtPaper(k)'
  BY <1>1 DEF StoredBySucceeded
<1>2. PointsAtPaper(k)
  BY DEF ImportInv, StoredBySucceeded
<1>3. thread[k] # "none"
  BY DEF ImportInv, LifecycleInv, RowFollowsThread, RowOf
<1>4. CASE request[k].work = p[1]
  <2>1. ~Undisturbed(k)'
    BY <1>1, <1>3, <1>4, DeletionMarks DEF Undisturbed
  <2> QED BY <1>1, <1>2, <2>1 DEF PointsAtPaper
<1>5. CASE request[k].work # p[1]
  <2>1. jobPaper[k] \in Papers /\ jobPaper[k] # p
    BY <1>2, <1>5 DEF PointsAtPaper
  <2>2. Undisturbed(k)' = Undisturbed(k)
    BY <1>1, <1>5, DeletionMarks DEF Undisturbed
  <2>3. /\ papers'[jobPaper[k]] = papers[jobPaper[k]]
        /\ versions'[jobPaper[k]] = versions[jobPaper[k]]
        /\ docs'[jobPaper[k]] = docs[jobPaper[k]]
    BY <1>1, <2>1, OthersUntouched
  <2> QED BY <1>1, <1>2, <2>2, <2>3 DEF PointsAtPaper, Readable, HasVersion
<1> QED BY <1>4, <1>5

LEMMA DeleteVersions ==
  ASSUME ImportInv, NEW p \in Papers, DeletePaper(p)
  PROVE  VersionsRecordOwnFiles'
<1>1. Typed /\ VersionsRecordOwnFiles
  BY DEF ImportInv, Typed
<1>2. request' = request /\ versions' = [versions EXCEPT ![p] = NoVersion]
  BY DEF DeletePaper, jobVars
<1>3. NoVersion \in Recordable(p)
  BY DEF Recordable
<1> QED BY <1>1, <1>2, <1>3, VersionsRecorded

(* Files of different works are different files. *)
LEMMA WorksShareNoFile ==
  ASSUME NEW w, NEW v, NEW path \in FilesOf(w), path \in FilesOf(v)
  PROVE  w = v
  BY DEF FilesOf

LEMMA DeleteFilesKept ==
  ASSUME ImportInv, NEW p \in Papers, DeletePaper(p)
  PROVE  FilesKept'
<1>1. Typed /\ UNCHANGED <<request, thread, pc, prefetch>>
  BY DEF ImportInv, Typed, DeletePaper, jobVars, threadVars
<1>2. files' = files \ {versions[p]}
  BY DEF DeletePaper
<1> SUFFICES ASSUME NEW i \in Jobs, deletion'[i] = "clean"
             PROVE  WorkFilesOnDisk(request[i].work)'
  BY <1>1 DEF FilesKept
<1> DEFINE w == request[i].work
<1>3. w # p[1] /\ w \in Works /\ w' = w
  BY <1>1, DeletionMarks, OwnFiles
<1>4. deletion[i] = "clean"
  BY <1>1, <1>3, DeletionMarks
<1>5. WorkFilesOnDisk(w)
  BY <1>4 DEF ImportInv, FilesKept
<1> HIDE DEF w
<1>6. ASSUME NEW path \in FilesOf(w), path \in files PROVE path \in files'
  <2> SUFFICES ASSUME path = versions[p] PROVE FALSE
    BY <1>2, <1>6
  <2>1. path \in Files
    BY <1>3 DEF FilesOf, Files
  <2>2. versions[p] \in FilesOf(p[1])
    BY <2>1, SentinelAssumption DEF ImportInv, VersionsRecordOwnFiles, Recordable
  <2> QED BY <1>3, <2>2, WorksShareNoFile
<1>7. ASSUME NEW q \in Papers, q[1] = w, versions'[q] \in Files PROVE versions'[q] \in files'
  <2>1. versions'[q] = versions[q]
    BY <1>1, <1>3, <1>7, OthersUntouched
  <2>2. versions[q] \in FilesOf(w)
    BY <1>7, <2>1, SentinelAssumption DEF ImportInv, VersionsRecordOwnFiles, Recordable
  <2> QED BY <1>5, <1>6, <1>7, <2>1, <2>2 DEF WorkFilesOnDisk
<1>8. ASSUME NEW k \in Jobs, request[k].work = w, thread[k] = "pdf", "read_file" \in Done(k)
      PROVE  PdfFile(k) \in files'
  BY <1>1, <1>5, <1>6, <1>8, OwnFiles DEF WorkFilesOnDisk
<1>9. ASSUME NEW k \in Jobs, request[k].work = w, prefetch[k] = "linking"
      PROVE  <<"arxiv", w>> \in files'
  BY <1>1, <1>5, <1>6, <1>9, OwnFiles DEF WorkFilesOnDisk
<1>10. \A k \in Jobs : Done(k)' = Done(k) /\ PdfFile(k)' = PdfFile(k)
  BY <1>1 DEF Done, PdfFile
<1>11. WorkFilesOnDisk(w)'
  BY <1>1, <1>3, <1>7, <1>8, <1>9, <1>10 DEF WorkFilesOnDisk
<1> QED BY <1>11 DEF w

LEMMA DeleteOrphans ==
  ASSUME ImportInv, NEW p \in Papers, DeletePaper(p)
  PROVE  OrphanDocumentsOnlyFromRaces'
<1>1. Typed /\ request' = request
  BY DEF ImportInv, Typed, DeletePaper, jobVars
<1> SUFFICES ASSUME NEW q \in Papers, docs'[q] # {}, ~HasVersion(q)'
             PROVE  \E j \in Jobs : request[j].work = q[1] /\ deletion'[j] = "during"
  BY <1>1 DEF OrphanDocumentsOnlyFromRaces
<1>2. docs[q] # {} /\ ~HasVersion(q)
  <2>1. CASE q = p
    BY <1>1, <2>1 DEF DeletePaper, Typed, TypeOK
  <2>2. CASE q # p
    BY <1>1, <2>2, OthersUntouched DEF HasVersion
  <2> QED BY <2>1, <2>2
<1>3. PICK j \in Jobs : request[j].work = q[1] /\ deletion[j] = "during"
  BY <1>2 DEF ImportInv, OrphanDocumentsOnlyFromRaces
<1> QED BY <1>1, <1>3, DeletionMarks

-----------------------------------------------------------------------------
(* The invariant and what it implies. *)

LEMMA ImportInvInit == Init => ImportInv
<1> SUFFICES ASSUME Init PROVE ImportInv
  OBVIOUS
<1>1. TypeOK
  BY ScriptLengths DEF Init, TypeOK, Announcements, Threads, Live, Forms
<1>2. LifecycleInv
  BY InitSimulated
<1>3. Placed
  BY DEF Init, Placed, Undisturbed, Forms, Live
<1>4. StoredBehind /\ StoredBySucceeded
  BY DEF Init, StoredBehind, StoredBySucceeded, Forms
<1>5. VersionsRecordOwnFiles
  BY DEF Init, VersionsRecordOwnFiles, Recordable
<1>6. FilesKept
  BY SentinelAssumption DEF Init, FilesKept, WorkFilesOnDisk
<1>7. OrphanDocumentsOnlyFromRaces
  BY DEF Init, OrphanDocumentsOnlyFromRaces
<1> QED BY <1>1, <1>2, <1>3, <1>4, <1>5, <1>6, <1>7 DEF ImportInv

LEMMA ImportInvNext == ImportInv /\ [Next]_vars => ImportInv'
<1> SUFFICES ASSUME ImportInv, [Next]_vars PROVE ImportInv'
  OBVIOUS
<1>1. Typed' /\ LifecycleInv'
  BY NextTyped, NextSimulated DEF ImportInv, Typed, Simulated
<1>2. CASE Growing
  BY <1>1, <1>2, StoredBehindKept, StoredBySucceededKept, VersionsKept, FilesKeptKept, OrphansKept
     DEF ImportInv, Typed
<1>3. ASSUME NEW p \in Papers, DeletePaper(p) PROVE ImportInv'
  BY <1>1, <1>3, DeleteStoredBehind, DeleteStoredBySucceeded, DeleteVersions, DeleteFilesKept,
     DeleteOrphans DEF ImportInv, Typed
<1> QED BY <1>2, <1>3, NextCases DEF Growing

LEMMA ImportInvReadable == ImportInv => SucceededImportIsReadable
<1> SUFFICES ASSUME ImportInv, NEW j \in Jobs, status[j] = "SUCCEEDED"
             PROVE  /\ deletion[j] \in {"clean", "before"} =>
                         /\ jobPaper[j] \in Papers
                         /\ Readable(jobPaper[j])
                         /\ <<request[j].user, jobPaper[j]>> \in library
                    /\ deletion[j] = "clean" => OriginalOnDisk(jobPaper[j])
  BY DEF SucceededImportIsReadable
<1>1. PointsAtPaper(j)
  BY DEF ImportInv, StoredBySucceeded
<1>2. ASSUME deletion[j] = "clean" PROVE OriginalOnDisk(jobPaper[j])
  <2> DEFINE p == jobPaper[j]
  <2>1. p \in Papers /\ p[1] = request[j].work /\ HasVersion(p)
    BY <1>1, <1>2 DEF PointsAtPaper, Undisturbed, Readable
  <2>2. versions[p] \in Recordable(p) /\ WorkFilesOnDisk(p[1])
    BY <1>2, <2>1 DEF ImportInv, VersionsRecordOwnFiles, FilesKept
  <2>3. FilesOf(p[1]) \subseteq Files
    BY <2>1 DEF FilesOf, Files, Papers
  <2>4. versions[p] \in Files => versions[p] \in files
    BY <2>1, <2>2 DEF WorkFilesOnDisk
  <2> QED BY <2>1, <2>2, <2>3, <2>4 DEF Recordable, HasVersion, OriginalOnDisk, PathExists
<1> QED BY <1>1, <1>2 DEF PointsAtPaper, Undisturbed

(* The inductive invariant: until a deletion interferes, every row, document
   and file that an import has passed in its script is still there. *)
THEOREM ImportsKeepWhatTheyStore == Spec => []ImportInv
  BY ImportInvInit, ImportInvNext, PTL DEF Spec

(* create_arxiv_html_job and create_parse_job, with the fallback, concurrent
   imports of the work, deletions and restarts: a job reported SUCCEEDED has a
   paper its user can open and read. *)
THEOREM SucceededImportsAreReadable == Spec => []SucceededImportIsReadable
  BY ImportsKeepWhatTheyStore, ImportInvReadable, PTL

(* delete_paper and the pipelines leave documents without a version row only
   when the deletion met a running import. *)
THEOREM OrphansComeFromRaces == Spec => []OrphanDocumentsOnlyFromRaces
<1>1. ImportInv => OrphanDocumentsOnlyFromRaces
  BY DEF ImportInv
<1> QED BY <1>1, ImportsKeepWhatTheyStore, PTL
=============================================================================
