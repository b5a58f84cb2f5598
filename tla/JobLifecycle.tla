---------------------------- MODULE JobLifecycle ----------------------------
(***************************************************************************)
(* What a client of the job API may rely on: the status its polls of       *)
(* GET /api/jobs/{id} read from the jobs table, and the lifecycle event    *)
(* that was published last for the job.  How the job does its work, and    *)
(* what a restart of the server does to it, is left to ImportJobs.         *)
(***************************************************************************)
CONSTANT Jobs

VARIABLES
  status,    \* job -> JobStatus of its row, "NONE" before the row exists
  announced  \* job -> the last lifecycle event published, "none" at first

lifecycleVars == <<status, announced>>

Terminal == {"SUCCEEDED", "FAILED"}
JobStatus == {"QUEUED", "RUNNING"} \cup Terminal
EventOf(outcome) == IF outcome = "SUCCEEDED" THEN "job_succeeded" ELSE "job_failed"

Init ==
  /\ status = [j \in Jobs |-> "NONE"]
  /\ announced = [j \in Jobs |-> "none"]

Move(j, from, to) ==
  /\ status[j] = from
  /\ status' = [status EXCEPT ![j] = to]
  /\ UNCHANGED announced

Submit(j) == Move(j, "NONE", "QUEUED")
Start(j) == Move(j, "QUEUED", "RUNNING")
Finish(j, outcome) == announced[j] = "job_started" /\ Move(j, "RUNNING", outcome)

Tell(j, before, event) ==
  /\ announced[j] = before
  /\ announced' = [announced EXCEPT ![j] = event]
  /\ UNCHANGED status

AnnounceStart(j) == status[j] = "RUNNING" /\ Tell(j, "none", "job_started")
AnnounceEnd(j) ==
  /\ status[j] \in Terminal
  /\ Tell(j, "job_started", EventOf(status[j]))

Next ==
  \E j \in Jobs :
    \/ Submit(j) \/ Start(j) \/ AnnounceStart(j) \/ AnnounceEnd(j)
    \/ \E outcome \in Terminal : Finish(j, outcome)

Spec == Init /\ [][Next]_lifecycleVars
=============================================================================
