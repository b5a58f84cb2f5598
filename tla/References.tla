----------------------------- MODULE References -----------------------------
(***************************************************************************)
(* Online verification of a paper's references: resolve_reference (one     *)
(* reference) and resolve_all_references (a background run over all, with  *)
(* a progress entry that clients poll) of server/app/main.py.  Both read   *)
(* the version's "references" document, ask the scholarly providers for    *)
(* minutes, and write the whole document back.                             *)
(*                                                                         *)
(* An entry is one item of the printed bibliography, a record what is      *)
(* stored of it.  A verification yields a verdict or raises; which verdict *)
(* depends on the providers' answers and is left open.                     *)
(***************************************************************************)
EXTENDS Naturals, Sequences, FiniteSets

CONSTANTS
  NumEntries,  \* entries of the bibliography
  Numbered,    \* whether the bibliography prints its numbers
  StoreEvery,  \* a run stores its results every so many (10)
  Runs,        \* POST resolve-all calls
  Singles,     \* POST resolve calls for one reference
  Statuses,    \* identity statuses
  Unverified,  \* the status of an imported record (UNRESOLVED)
  MaxCrashes,  \* bound on restarts of the server
  NoRun        \* the version has no progress entry

ASSUME SizeAssumption == NumEntries \in Nat \ {0} /\ StoreEvery \in Nat \ {0} /\ MaxCrashes \in Nat
ASSUME StatusAssumption == Unverified \in Statuses /\ Numbered \in BOOLEAN
ASSUME CallAssumption == Runs \cap Singles = {} /\ NoRun \notin Runs

Entries == 1..NumEntries
Calls == Runs \cup Singles

VARIABLES
  document,  \* the "references" document, a list of records
  progress,  \* the run the version's progress entry belongs to, or NoRun
  pc,        \* call -> where it is
  snapshot,  \* call -> the list it read and will build on
  left,      \* run -> positions of the snapshot it has not collected
  updated,   \* run -> the records it collected, in completion order
  found,     \* single call -> the record it verifies, at most one
  crashes,   \* restarts so far
  partialRead \* history: some call built on a list with entries missing

vars == <<document, progress, pc, snapshot, left, updated, found, crashes, partialRead>>

(* "None" of a reference id: the entry's number was not printed. *)
NoNumber == 0

(* The reference id ends in the printed number of the entry. *)
Id(e) == IF Numbered THEN e ELSE NoNumber

Imported == [e \in Entries |-> [entry |-> e, id |-> Id(e), status |-> Unverified]]

Listed(list) == {list[k].entry : k \in DOMAIN list}
Complete(list) == list = <<>> \/ Listed(list) = Entries

(* What the poll of the progress entry answers. *)
Busy == {"running", "stored"}
Polled == IF progress = NoRun THEN "idle" ELSE IF pc[progress] \in Busy THEN "running" ELSE pc[progress]

(* The call ends and its local variables die. *)
Leave(c, how) ==
  /\ pc' = [pc EXCEPT ![c] = how]
  /\ snapshot' = [snapshot EXCEPT ![c] = <<>>]
  /\ left' = [left EXCEPT ![c] = {}]
  /\ updated' = [updated EXCEPT ![c] = <<>>]
  /\ found' = [found EXCEPT ![c] = <<>>]

(* A paper imported before the list was persisted has no document. *)
Init ==
  /\ document \in {<<>>, Imported}
  /\ progress = NoRun
  /\ pc = [c \in Calls |-> "idle"]
  /\ snapshot = [c \in Calls |-> <<>>]
  /\ left = [c \in Calls |-> {}]
  /\ updated = [c \in Calls |-> <<>>]
  /\ found = [c \in Calls |-> <<>>]
  /\ crashes = 0
  /\ partialRead = FALSE

-----------------------------------------------------------------------------
(* resolve_all_references: the request, up to the start of its thread.      *)

LoadList(c) ==
  /\ pc[c] = "idle"
  /\ \/ /\ document = <<>>
        /\ Leave(c, "returned")
        /\ UNCHANGED partialRead
     \/ /\ document # <<>>
        /\ pc' = [pc EXCEPT ![c] = "loaded"]
        /\ snapshot' = [snapshot EXCEPT ![c] = document]
        /\ partialRead' = (partialRead \/ ~Complete(document))
        /\ UNCHANGED <<left, updated, found>>
  /\ UNCHANGED <<document, progress, crashes>>

CheckRunning(c) ==
  /\ pc[c] = "loaded"
  /\ \/ /\ Polled = "running"
        /\ Leave(c, "returned")
     \/ /\ Polled # "running"
        /\ pc' = [pc EXCEPT ![c] = "cleared"]
        /\ UNCHANGED <<snapshot, left, updated, found>>
  /\ UNCHANGED <<document, progress, crashes, partialRead>>

(* Mutant: futures are numbered from zero, positions from one. *)
StartRunFromZero(c) ==
  /\ pc[c] = "cleared"
  /\ progress' = c
  /\ pc' = [pc EXCEPT ![c] = "running"]
  /\ left' = [left EXCEPT ![c] = 0..Len(snapshot[c]) - 1]
  /\ UNCHANGED <<document, snapshot, updated, found, crashes, partialRead>>

StartRun(c) ==
  /\ pc[c] = "cleared"
  /\ progress' = c
  /\ pc' = [pc EXCEPT ![c] = "running"]
  /\ left' = [left EXCEPT ![c] = DOMAIN snapshot[c]]
  /\ UNCHANGED <<document, snapshot, updated, found, crashes, partialRead>>

-----------------------------------------------------------------------------
(* The thread of a run.  Results are collected in any order; every         *)
(* StoreEvery-th result stores the records collected so far.               *)

Collect(c) ==
  /\ pc[c] = "running"
  /\ \E k \in left[c], verdict \in Statuses :
       LET records == Append(updated[c], [snapshot[c][k] EXCEPT !.status = verdict])
       IN /\ left' = [left EXCEPT ![c] = @ \ {k}]
          /\ updated' = [updated EXCEPT ![c] = records]
          /\ document' = IF Len(records) % StoreEvery = 0 THEN records ELSE document
  /\ UNCHANGED <<progress, pc, snapshot, found, crashes, partialRead>>

(* One verification raised: the pool is joined, the rest is not collected. *)
WorkerRaises(c) ==
  /\ pc[c] = "running" /\ left[c] # {}
  /\ Leave(c, "error")
  /\ UNCHANGED <<document, progress, crashes, partialRead>>

(* Mutant: nothing is stored after the last full group of results. *)
StoreAllSkipped(c) ==
  /\ pc[c] = "running" /\ left[c] = {}
  /\ pc' = [pc EXCEPT ![c] = "stored"]
  /\ UNCHANGED <<document, progress, snapshot, left, updated, found, crashes, partialRead>>

StoreAll(c) ==
  /\ pc[c] = "running" /\ left[c] = {}
  /\ document' = updated[c]
  /\ pc' = [pc EXCEPT ![c] = "stored"]
  /\ UNCHANGED <<progress, snapshot, left, updated, found, crashes, partialRead>>

(* Mutant: the thread ends without its last assignment. *)
ReportNothing(c) == pc[c] = "stored" /\ UNCHANGED vars

ReportDone(c) ==
  /\ pc[c] = "stored"
  /\ Leave(c, "done")
  /\ UNCHANGED <<document, progress, crashes, partialRead>>

Thread(c) == Collect(c) \/ WorkerRaises(c) \/ StoreAll(c) \/ ReportDone(c)

-----------------------------------------------------------------------------
(* resolve_reference: the first record with the id is verified; without a   *)
(* document the list is parsed again, so that the record is found.          *)

FindRecord(s) ==
  /\ pc[s] = "idle"
  /\ LET list == IF document = <<>> THEN Imported ELSE document
     IN \E id \in {Id(e) : e \in Entries} :
          \/ /\ \A k \in DOMAIN list : list[k].id # id
             /\ Leave(s, "not_found")
          \/ \E k \in DOMAIN list :
               /\ list[k].id = id
               /\ \A m \in DOMAIN list : m < k => list[m].id # id
               /\ found' = [found EXCEPT ![s] = <<list[k]>>]
               /\ pc' = [pc EXCEPT ![s] = "asking"]
               /\ UNCHANGED <<snapshot, left, updated>>
  /\ UNCHANGED <<document, progress, crashes, partialRead>>

(* The providers answered: the document is loaded once more. *)
Answer(s) ==
  /\ pc[s] = "asking"
  /\ \/ /\ document = <<>>
        /\ Leave(s, "returned")
        /\ UNCHANGED partialRead
     \/ /\ document # <<>>
        /\ \E verdict \in Statuses : found' = [found EXCEPT ![s][1].status = verdict]
        /\ snapshot' = [snapshot EXCEPT ![s] = document]
        /\ partialRead' = (partialRead \/ ~Complete(document))
        /\ pc' = [pc EXCEPT ![s] = "updating"]
        /\ UNCHANGED <<left, updated>>
  /\ UNCHANGED <<document, progress, crashes>>

AnswerRaises(s) ==
  /\ pc[s] = "asking"
  /\ Leave(s, "raised")
  /\ UNCHANGED <<document, progress, crashes, partialRead>>

(* Mutant: the loop appends the verified record to the list it read. *)
StoreOneAppended(s) ==
  /\ pc[s] = "updating"
  /\ document' = Append(snapshot[s], found[s][1])
  /\ Leave(s, "returned")
  /\ UNCHANGED <<progress, crashes, partialRead>>

(* item.update: every record with the id becomes the verified one. *)
StoreOne(s) ==
  /\ pc[s] = "updating"
  /\ document' = [k \in DOMAIN snapshot[s] |->
                    IF snapshot[s][k].id = found[s][1].id THEN found[s][1] ELSE snapshot[s][k]]
  /\ Leave(s, "returned")
  /\ UNCHANGED <<progress, crashes, partialRead>>

-----------------------------------------------------------------------------
(* The process restarts: threads, requests and the progress entries go, the *)
(* document stays.                                                          *)
Restart ==
  /\ crashes < MaxCrashes
  /\ crashes' = crashes + 1
  /\ progress' = NoRun
  /\ pc' = [c \in Calls |-> CASE pc[c] = "running" -> "lost"
                              [] pc[c] \in {"loaded", "cleared", "asking", "updating"} -> "aborted"
                              [] pc[c] = "stored" -> "done"
                              [] OTHER -> pc[c]]
  /\ snapshot' = [c \in Calls |-> <<>>]
  /\ left' = [c \in Calls |-> {}]
  /\ updated' = [c \in Calls |-> <<>>]
  /\ found' = [c \in Calls |-> <<>>]
  /\ UNCHANGED <<document, partialRead>>

Next ==
  \/ \E c \in Runs : LoadList(c) \/ CheckRunning(c) \/ StartRun(c) \/ Thread(c)
  \/ \E s \in Singles : FindRecord(s) \/ Answer(s) \/ AnswerRaises(s) \/ StoreOne(s)
  \/ Restart

(* A started run is a thread, and provider calls time out and retry a       *)
(* bounded number of times; no client has to call.                          *)
Fairness == \A c \in Runs : WF_vars(Thread(c))

Spec == Init /\ [][Next]_vars /\ Fairness

-----------------------------------------------------------------------------
PC == {"idle", "loaded", "cleared", "running", "stored", "asking", "updating",
       "returned", "not_found", "raised", "done", "error", "lost", "aborted"}
Records == [entry : Entries, id : Entries \cup {NoNumber}, status : Statuses]

(* Type correctness: in particular the positions a run has still to collect  *)
(* are positions of its snapshot.                                           *)
TypeOK ==
  /\ document \in Seq(Records)
  /\ progress \in Runs \cup {NoRun}
  /\ pc \in [Calls -> PC]
  /\ snapshot \in [Calls -> Seq(Records)]
  /\ left \in [Calls -> SUBSET Nat]
  /\ updated \in [Calls -> Seq(Records)]
  /\ found \in [Calls -> Seq(Records)]
  /\ crashes \in Nat
  /\ partialRead \in BOOLEAN
  /\ \A c \in Calls : left[c] \subseteq DOMAIN snapshot[c]
  /\ \A c \in Calls : pc[c] \in {"asking", "updating"} => found[c] # <<>>

(* No interleaving of runs and single verifications duplicates a reference. *)
OneRecordPerEntry ==
  \A i, k \in DOMAIN document : document[i].entry = document[k].entry => i = k

(* A run replaces the list by the few records it has verified so far: while  *)
(* it runs references are missing, and they come back.  They stay away only  *)
(* when a run failed or was lost in a restart, or when a call read the list  *)
(* while it was incomplete and wrote that back.                             *)
PartialListsHeal ==
  \/ Complete(document)
  \/ partialRead
  \/ \E c \in Runs : pc[c] \in {"running", "error", "lost"}

(* The progress a client polls does not stay "running": every run ends in    *)
(* done or error, or its entry is gone after a restart.                     *)
PollingEnds == [](Polled = "running" => <>(Polled # "running"))
=============================================================================
