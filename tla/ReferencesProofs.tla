-------------------------- MODULE ReferencesProofs --------------------------
(***************************************************************************)
(* Proofs about References, for every bibliography that prints its         *)
(* numbers, every number of runs and single verifications, and every       *)
(* StoreEvery: the list never holds a reference twice, and it is complete  *)
(* again once no run is under way, failed or was lost.                     *)
(***************************************************************************)
EXTENDS References, TLAPS, SequenceTheorems

(* Lists of records of different entries, each with the id of its entry. *)
GoodLists ==
  {list \in Seq(Records) :
     /\ \A k \in DOMAIN list : list[k].id = Id(list[k].entry)
     /\ \A i, k \in DOMAIN list : list[i].entry = list[k].entry => i = k}

WholeLists == {list \in GoodLists : Listed(list) = Entries}

(* Records with the id of their entry. *)
GoodRecords == {r \in Records : r.id = Id(r.entry)}

LEMMA SameIdSameEntry ==
  ASSUME Numbered, NEW r \in GoodRecords, NEW q \in GoodRecords, r.id = q.id
  PROVE  r.entry = q.entry
BY DEF GoodRecords, Records, Id

LEMMA GoodElement ==
  ASSUME NEW list \in GoodLists, NEW k \in DOMAIN list
  PROVE  list[k] \in GoodRecords /\ k \in Nat
BY DEF GoodLists, GoodRecords

LEMMA EmptyIsGood == <<>> \in GoodLists
BY DEF GoodLists

LEMMA ImportedIsWhole == Imported \in WholeLists
<1>1. Imported \in Seq(Records)
  BY SizeAssumption, StatusAssumption DEF Imported, Entries, Records, Id, NoNumber
<1>2. Imported \in GoodLists
  BY <1>1 DEF GoodLists, Imported
<1>3. Listed(Imported) = Entries
  BY DEF Listed, Imported
<1> QED BY <1>2, <1>3 DEF WholeLists

(* A verdict changes the status of a record only. *)
LEMMA VerdictIsGood ==
  ASSUME NEW r \in GoodRecords, NEW verdict \in Statuses
  PROVE  /\ [r EXCEPT !.status = verdict] \in GoodRecords
         /\ [r EXCEPT !.status = verdict].entry = r.entry
BY DEF GoodRecords, Records

LEMMA AppendIsGood ==
  ASSUME NEW list \in GoodLists, NEW r \in GoodRecords,
         \A k \in DOMAIN list : list[k].entry # r.entry
  PROVE  /\ Append(list, r) \in GoodLists
         /\ Listed(Append(list, r)) = Listed(list) \cup {r.entry}
<1> DEFINE new == Append(list, r)
<1>1. list \in Seq(Records) /\ r \in Records /\ Len(list) \in Nat
  BY DEF GoodLists, GoodRecords
<1>2. /\ new \in Seq(Records) /\ DOMAIN new = 1..Len(list) + 1 /\ DOMAIN list = 1..Len(list)
      /\ new[Len(list) + 1] = r
      /\ \A k \in 1..Len(list) : new[k] = list[k]
  BY <1>1, AppendProperties
<1>3. \A k \in DOMAIN new : new[k].id = Id(new[k].entry)
  BY <1>1, <1>2 DEF GoodLists, GoodRecords
<1>4. \A i, k \in DOMAIN new : new[i].entry = new[k].entry => i = k
  BY <1>1, <1>2 DEF GoodLists
<1>5. Listed(new) = Listed(list) \cup {r.entry}
  BY <1>1, <1>2 DEF Listed
<1> QED BY <1>2, <1>3, <1>4, <1>5 DEF GoodLists

(* item.update keeps the entries of a numbered list. *)
LEMMA UpdateKeepsEntries ==
  ASSUME Numbered, NEW list \in GoodLists, NEW r \in GoodRecords
  PROVE  LET new == [k \in DOMAIN list |-> IF list[k].id = r.id THEN r ELSE list[k]]
         IN  new \in GoodLists /\ Listed(new) = Listed(list) /\ (list # <<>> => new # <<>>)
<1> DEFINE new == [k \in DOMAIN list |-> IF list[k].id = r.id THEN r ELSE list[k]]
<1>1. list \in Seq(Records) /\ r \in Records /\ DOMAIN list = 1..Len(list) /\ Len(list) \in Nat
  BY DEF GoodLists, GoodRecords
<1>2. \A k \in DOMAIN list : list[k] \in GoodRecords
  BY GoodElement
<1>3. \A k \in DOMAIN list : new[k] \in GoodRecords /\ new[k].entry = list[k].entry
  BY <1>2, SameIdSameEntry
<1>4. new \in Seq(Records) /\ DOMAIN new = DOMAIN list
  BY <1>1, <1>3 DEF GoodRecords
<1>5. new \in GoodLists
  BY <1>3, <1>4 DEF GoodLists, GoodRecords
<1>6. Listed(new) = Listed(list)
  BY <1>3, <1>4 DEF Listed
<1>7. list # <<>> => new # <<>>
  BY <1>1, <1>4
<1> QED BY <1>5, <1>6, <1>7

-----------------------------------------------------------------------------
(* The inductive invariant. *)

(* Every list anywhere is good; what a single call verifies is a good record. *)
Lists ==
  /\ document \in GoodLists
  /\ snapshot \in [Calls -> GoodLists]
  /\ updated \in [Calls -> GoodLists]
  /\ \A c \in Calls : found[c] # <<>> => found[c] \in Seq(Records) /\ found[c][1] \in GoodRecords

(* The entries at some positions of a list. *)
EntriesAt(list, S) == {list[k].entry : k \in S}

(* What a run collected and what it has left are its snapshot, in two parts. *)
Split(c) ==
  /\ Listed(updated[c]) \cup EntriesAt(snapshot[c], left[c]) = Listed(snapshot[c])
  /\ \A k \in left[c], i \in DOMAIN updated[c] : updated[c][i].entry # snapshot[c][k].entry

(* Where a call has no results. *)
Before == {"idle", "loaded", "cleared", "asking", "updating"}

RunsSplit ==
  \A c \in Calls :
    /\ pc[c] \in Before => updated[c] = <<>> /\ left[c] = {}
    /\ pc[c] = "running" => Split(c)

(* As long as nobody read a list with entries missing, every call builds on  *)
(* the whole list.                                                          *)
SnapshotsWhole ==
  partialRead \/ \A c \in Calls :
    pc[c] \in {"loaded", "cleared", "running", "updating"} => snapshot[c] \in WholeLists

Inv == TypeOK /\ Lists /\ RunsSplit /\ SnapshotsWhole /\ PartialListsHeal

(* The first state. *)
LEMMA InitInv == Init => Inv
<1> SUFFICES ASSUME Init PROVE Inv
  OBVIOUS
<1>1. document \in GoodLists /\ (document = <<>> \/ Listed(document) = Entries)
  BY EmptyIsGood, ImportedIsWhole DEF Init, WholeLists
<1>2. document \in Seq(Records)
  BY <1>1 DEF GoodLists
<1>3. "idle" \in PC /\ <<>> \in Seq(Records)
  BY DEF PC
<1>4. TypeOK
  BY <1>2, <1>3 DEF Init, TypeOK
<1>5. Lists
  BY <1>1, EmptyIsGood DEF Init, Lists
<1>6. RunsSplit /\ SnapshotsWhole
  BY DEF Init, RunsSplit, SnapshotsWhole, Calls
<1>7. PartialListsHeal
  BY <1>1 DEF PartialListsHeal, Complete
<1> QED BY <1>4, <1>5, <1>6, <1>7 DEF Inv

LEMMA SplitNext ==
  ASSUME NEW c, NEW list, NEW rest, NEW records,
         snapshot'[c] = list, left'[c] = rest, updated'[c] = records,
         Listed(records) \cup EntriesAt(list, rest) = Listed(list),
         \A k \in rest, i \in DOMAIN records : records[i].entry # list[k].entry
  PROVE  Split(c)'
<1>1. Listed(updated[c])' = Listed(records) /\ Listed(snapshot[c])' = Listed(list)
  BY DEF Listed
<1>2. EntriesAt(snapshot[c], left[c])' = EntriesAt(list, rest)
  BY DEF EntriesAt
<1>3. (\A k \in left[c], i \in DOMAIN updated[c] : updated[c][i].entry # snapshot[c][k].entry)'
  OBVIOUS
<1>4. (Listed(updated[c]) \cup EntriesAt(snapshot[c], left[c]) = Listed(snapshot[c]))'
  BY <1>1, <1>2
<1> QED BY <1>3, <1>4 DEF Split

(* One call moves: what the invariant asks of it is enough, because the      *)
(* invariant speaks of one call at a time.                                  *)
LEMMA MoveStep ==
  ASSUME Inv, NEW c \in Calls, NEW how \in PC, pc' = [pc EXCEPT ![c] = how],
         \A d \in Calls \ {c} : /\ snapshot'[d] = snapshot[d] /\ left'[d] = left[d]
                                /\ updated'[d] = updated[d] /\ found'[d] = found[d],
         snapshot' \in [Calls -> GoodLists], updated' \in [Calls -> GoodLists],
         left' \in [Calls -> SUBSET Nat], found' \in [Calls -> Seq(Records)],
         document' \in GoodLists, progress' \in Runs \cup {NoRun}, crashes' \in Nat,
         partialRead' \in BOOLEAN, partialRead => partialRead',
         left'[c] \subseteq DOMAIN snapshot'[c],
         how \in {"asking", "updating"} => found'[c] # <<>>,
         found'[c] # <<>> => found'[c][1] \in GoodRecords,
         how \in Before => updated'[c] = <<>> /\ left'[c] = {},
         how = "running" => Split(c)',
         how \in {"loaded", "cleared", "running", "updating"}
           => partialRead' \/ snapshot'[c] \in WholeLists,
         PartialListsHeal'
  PROVE  Inv'
<1>1. pc' \in [Calls -> PC] /\ pc'[c] = how /\ \A d \in Calls \ {c} : pc'[d] = pc[d]
  BY DEF Inv, TypeOK
<1>2. GoodLists \subseteq Seq(Records)
  BY DEF GoodLists
<1>3. TypeOK'
  <2>1. \A d \in Calls : left'[d] \subseteq DOMAIN snapshot'[d]
    BY DEF Inv, TypeOK
  <2>2. \A d \in Calls : pc'[d] \in {"asking", "updating"} => found'[d] # <<>>
    BY <1>1 DEF Inv, TypeOK
  <2>3. /\ document' \in Seq(Records) /\ snapshot' \in [Calls -> Seq(Records)]
        /\ updated' \in [Calls -> Seq(Records)]
    BY <1>2
  <2> QED BY <1>1, <2>1, <2>2, <2>3 DEF TypeOK
<1>4. Lists'
  <2>1. \A d \in Calls : found'[d] # <<>> => found'[d] \in Seq(Records) /\ found'[d][1] \in GoodRecords
    BY DEF Inv, Lists
  <2> QED BY <2>1 DEF Lists
<1>5. RunsSplit'
  <2> SUFFICES ASSUME NEW d \in Calls
               PROVE  /\ pc'[d] \in Before => updated'[d] = <<>> /\ left'[d] = {}
                      /\ pc'[d] = "running" => Split(d)'
    BY DEF RunsSplit
  <2>1. CASE d = c
    BY <1>1, <2>1
  <2>2. CASE d # c
    <3>1. /\ pc'[d] = pc[d] /\ snapshot'[d] = snapshot[d]
          /\ left'[d] = left[d] /\ updated'[d] = updated[d]
      BY <1>1, <2>2 DEF Calls
    <3>2. Split(d) => Split(d)'
      BY <3>1, SplitNext DEF Split
    <3> QED BY <3>1, <3>2 DEF Inv, RunsSplit
  <2> QED BY <2>1, <2>2
<1>6. SnapshotsWhole'
  BY <1>1 DEF Inv, SnapshotsWhole
<1> QED BY <1>3, <1>4, <1>5, <1>6 DEF Inv

(* What stays true of the list when nobody stores and no run is forgotten. *)
LEMMA HealsStill ==
  ASSUME PartialListsHeal, document' = document, partialRead => partialRead',
         \A d \in Runs : pc[d] \in {"running", "error", "lost"} => pc'[d] \in {"running", "error", "lost"}
  PROVE  PartialListsHeal'
<1>1. Complete(document) => Complete(document)'
  BY DEF Complete, Listed
<1> QED BY <1>1 DEF PartialListsHeal

(* A call that ends without storing. *)
LEMMA LeaveStep ==
  ASSUME Inv, NEW c \in Calls, NEW how \in PC, Leave(c, how),
         how \notin {"idle", "loaded", "cleared", "running", "asking", "updating"},
         pc[c] \in {"running", "error", "lost"} => how \in {"error", "lost"},
         UNCHANGED <<document, progress, crashes, partialRead>>
  PROVE  Inv'
<1>1. /\ snapshot'[c] = <<>> /\ left'[c] = {} /\ updated'[c] = <<>> /\ found'[c] = <<>>
      /\ pc' = [pc EXCEPT ![c] = how] /\ pc'[c] = how
      /\ \A d \in Calls \ {c} : /\ pc'[d] = pc[d] /\ snapshot'[d] = snapshot[d]
                                /\ left'[d] = left[d] /\ updated'[d] = updated[d]
                                /\ found'[d] = found[d]
  BY DEF Inv, TypeOK, Leave
<1>2. /\ snapshot' \in [Calls -> GoodLists] /\ updated' \in [Calls -> GoodLists]
      /\ left' \in [Calls -> SUBSET Nat] /\ found' \in [Calls -> Seq(Records)]
  BY EmptyIsGood DEF Inv, TypeOK, Lists, Leave
<1>3. document' \in GoodLists /\ progress' \in Runs \cup {NoRun} /\ crashes' \in Nat /\ partialRead' \in BOOLEAN
  BY DEF Inv, TypeOK, Lists
<1>4. PartialListsHeal'
  BY <1>1, HealsStill DEF Inv, Calls
<1> QED BY <1>1, <1>2, <1>3, <1>4, MoveStep DEF Before

(* The request of a run. *)
LEMMA LoadListStep ==
  ASSUME Inv, NEW c \in Runs, LoadList(c) PROVE Inv'
<1>0. c \in Calls /\ "loaded" \in PC /\ "returned" \in PC
  BY DEF Calls, PC
<1>1. CASE document = <<>> /\ Leave(c, "returned") /\ UNCHANGED partialRead
  BY <1>0, <1>1, LeaveStep DEF LoadList
<1>2. CASE /\ document # <<>> /\ pc' = [pc EXCEPT ![c] = "loaded"]
           /\ snapshot' = [snapshot EXCEPT ![c] = document]
           /\ partialRead' = (partialRead \/ ~Complete(document))
           /\ UNCHANGED <<left, updated, found>>
  <2>1. /\ pc[c] = "idle" /\ UNCHANGED <<document, progress, crashes>>
        /\ left[c] = {} /\ updated[c] = <<>>
    BY <1>0 DEF LoadList, Inv, TypeOK, RunsSplit, Before
  <2>2. snapshot'[c] = document /\ snapshot' \in [Calls -> GoodLists]
    BY <1>0, <1>2 DEF Inv, TypeOK, Lists
  <2>3. partialRead' \/ snapshot'[c] \in WholeLists
    BY <1>2, <2>2 DEF Inv, Lists, Complete, WholeLists
  <2>4. PartialListsHeal'
    BY <1>0, <1>2, <2>1, HealsStill DEF Inv, TypeOK, Calls
  <2>5. partialRead' \in BOOLEAN /\ (partialRead => partialRead')
    BY <1>2 DEF Inv, TypeOK
  <2>6. /\ updated' \in [Calls -> GoodLists] /\ left' \in [Calls -> SUBSET Nat]
        /\ found' \in [Calls -> Seq(Records)] /\ document' \in GoodLists
        /\ progress' \in Runs \cup {NoRun} /\ crashes' \in Nat
        /\ left'[c] = {} /\ (found'[c] # <<>> => found'[c][1] \in GoodRecords)
    BY <1>0, <1>2, <2>1 DEF Inv, TypeOK, Lists
  <2>7. updated'[c] = <<>> /\ \A d \in Calls \ {c} : snapshot'[d] = snapshot[d]
    BY <1>0, <1>2, <2>1 DEF Inv, Lists
  <2> QED BY <1>0, <1>2, <2>2, <2>3, <2>4, <2>5, <2>6, <2>7, MoveStep DEF Before
<1> QED BY <1>1, <1>2 DEF LoadList

LEMMA CheckRunningStep ==
  ASSUME Inv, NEW c \in Runs, CheckRunning(c) PROVE Inv'
<1>0. c \in Calls /\ "cleared" \in PC /\ "returned" \in PC /\ pc[c] = "loaded"
  BY DEF Calls, PC, CheckRunning
<1>1. CASE Leave(c, "returned")
  BY <1>0, <1>1, LeaveStep DEF CheckRunning
<1>2. CASE pc' = [pc EXCEPT ![c] = "cleared"] /\ UNCHANGED <<snapshot, left, updated, found>>
  <2>1. UNCHANGED <<document, progress, crashes, partialRead>>
    BY DEF CheckRunning
  <2>2. /\ left[c] = {} /\ updated[c] = <<>>
        /\ partialRead \/ snapshot[c] \in WholeLists
    BY <1>0 DEF Inv, RunsSplit, Before, SnapshotsWhole
  <2>3. PartialListsHeal'
    BY <1>0, <1>2, <2>1, HealsStill DEF Inv, TypeOK, Calls
  <2>4. /\ snapshot' \in [Calls -> GoodLists] /\ updated' \in [Calls -> GoodLists]
        /\ left' \in [Calls -> SUBSET Nat] /\ found' \in [Calls -> Seq(Records)]
        /\ document' \in GoodLists /\ progress' \in Runs \cup {NoRun} /\ crashes' \in Nat
        /\ partialRead' \in BOOLEAN /\ (found'[c] # <<>> => found'[c][1] \in GoodRecords)
    BY <1>0, <1>2, <2>1 DEF Inv, TypeOK, Lists
  <2> QED BY <1>0, <1>2, <2>1, <2>2, <2>3, <2>4, MoveStep DEF Before
<1> QED BY <1>1, <1>2 DEF CheckRunning

LEMMA StartRunStep ==
  ASSUME Inv, NEW c \in Runs, StartRun(c) PROVE Inv'
<1>0. c \in Calls /\ "running" \in PC /\ pc[c] = "cleared"
  BY DEF Calls, PC, StartRun
<1>1. /\ pc' = [pc EXCEPT ![c] = "running"] /\ left' = [left EXCEPT ![c] = DOMAIN snapshot[c]]
      /\ progress' = c /\ UNCHANGED <<document, snapshot, updated, found, crashes, partialRead>>
  BY DEF StartRun
<1>2. updated[c] = <<>> /\ (partialRead \/ snapshot[c] \in WholeLists)
  BY <1>0 DEF Inv, RunsSplit, Before, SnapshotsWhole
<1>3. /\ snapshot' \in [Calls -> GoodLists] /\ updated' \in [Calls -> GoodLists]
      /\ found' \in [Calls -> Seq(Records)]
      /\ document' \in GoodLists /\ progress' \in Runs \cup {NoRun} /\ crashes' \in Nat
      /\ partialRead' \in BOOLEAN /\ (found'[c] # <<>> => found'[c][1] \in GoodRecords)
  BY <1>0, <1>1 DEF Inv, TypeOK, Lists
<1>4. /\ left' \in [Calls -> SUBSET Nat] /\ left'[c] = DOMAIN snapshot[c]
      /\ \A d \in Calls \ {c} : left'[d] = left[d]
  <2>1. DOMAIN snapshot[c] \in SUBSET Nat
    BY <1>0, GoodElement DEF Inv, Lists
  <2> QED BY <1>0, <1>1, <2>1 DEF Inv, TypeOK
<1>5. Split(c)'
  <2>1. Listed(<<>>) = {} /\ EntriesAt(snapshot[c], DOMAIN snapshot[c]) = Listed(snapshot[c])
    BY DEF Listed, EntriesAt
  <2>2. Listed(<<>>) \cup EntriesAt(snapshot[c], DOMAIN snapshot[c]) = Listed(snapshot[c])
    BY <2>1
  <2>3. \A k \in DOMAIN snapshot[c], i \in DOMAIN <<>> : <<>>[i].entry # snapshot[c][k].entry
    OBVIOUS
  <2> QED BY <1>1, <1>2, <1>4, <2>2, <2>3, SplitNext
<1>6. PartialListsHeal'
  BY <1>0, <1>1, HealsStill DEF Inv, TypeOK, Calls
<1> QED BY <1>0, <1>1, <1>2, <1>3, <1>4, <1>5, <1>6, MoveStep DEF Before

(* The thread of a run. *)
LEMMA CollectStep ==
  ASSUME Inv, NEW c \in Runs, Collect(c) PROVE Inv'
<1>0. c \in Calls /\ "running" \in PC /\ pc[c] = "running"
  BY DEF Calls, PC, Collect
<1>p. PICK k \in left[c], verdict \in Statuses :
      LET records == Append(updated[c], [snapshot[c][k] EXCEPT !.status = verdict])
      IN /\ left' = [left EXCEPT ![c] = @ \ {k}]
         /\ updated' = [updated EXCEPT ![c] = records]
         /\ document' = IF Len(records) % StoreEvery = 0 THEN records ELSE document
  BY DEF Collect
<1> DEFINE new == [snapshot[c][k] EXCEPT !.status = verdict]
           records == Append(updated[c], new)
<1>1. UNCHANGED <<progress, pc, snapshot, found, crashes, partialRead>>
  BY DEF Collect
<1>2. /\ snapshot[c] \in GoodLists /\ updated[c] \in GoodLists
      /\ left[c] \subseteq DOMAIN snapshot[c] /\ Split(c) /\ left[c] \in SUBSET Nat
  BY <1>0 DEF Inv, TypeOK, Lists, RunsSplit
<1>3. snapshot[c][k] \in GoodRecords
  BY <1>2, GoodElement
<1>4. new \in GoodRecords /\ new.entry = snapshot[c][k].entry
  BY <1>3, VerdictIsGood
<1>5. \A i \in DOMAIN updated[c] : updated[c][i].entry # new.entry
  BY <1>2, <1>4 DEF Split
<1> HIDE DEF new
<1>6. records \in GoodLists /\ Listed(records) = Listed(updated[c]) \cup {new.entry}
  BY <1>2, <1>4, <1>5, AppendIsGood
<1>7. /\ updated' = [updated EXCEPT ![c] = records]
      /\ document' = IF Len(records) % StoreEvery = 0 THEN records ELSE document
      /\ left' = [left EXCEPT ![c] = @ \ {k}]
  BY <1>p DEF new
<1> HIDE DEF records
<1>8. /\ updated' \in [Calls -> GoodLists] /\ updated'[c] = records
      /\ left' \in [Calls -> SUBSET Nat] /\ left'[c] = left[c] \ {k}
      /\ \A d \in Calls \ {c} : left'[d] = left[d] /\ updated'[d] = updated[d]
  BY <1>0, <1>2, <1>6, <1>7 DEF Inv, TypeOK, Lists
<1>9. document' \in GoodLists
  BY <1>6, <1>7 DEF Inv, Lists
<1>10. \A i \in left[c] \ {k} : snapshot[c][i].entry # snapshot[c][k].entry
  BY <1>2 DEF GoodLists
<1>11. Split(c)'
  <2>1. Listed(updated[c]) \cup EntriesAt(snapshot[c], left[c]) = Listed(snapshot[c])
    BY <1>2 DEF Split
  <2>2. EntriesAt(snapshot[c], left[c]) = EntriesAt(snapshot[c], left[c] \ {k}) \cup {new.entry}
    BY <1>4 DEF EntriesAt
  <2>3. Listed(records) \cup EntriesAt(snapshot[c], left[c] \ {k}) = Listed(snapshot[c])
    BY <1>6, <2>1, <2>2
  <2>4. \A i \in left[c] \ {k}, e \in Listed(records) : e # snapshot[c][i].entry
    BY <1>2, <1>4, <1>6, <1>10 DEF Split, Listed
  <2>5. \A i \in left[c] \ {k}, m \in DOMAIN records : records[m].entry # snapshot[c][i].entry
    BY <2>4 DEF Listed
  <2>6. snapshot'[c] = snapshot[c]
    BY <1>1
  <2> DEFINE rest == left[c] \ {k}
             list == snapshot[c]
  <2>7. snapshot'[c] = list /\ left'[c] = rest /\ updated'[c] = records
    BY <1>8, <2>6
  <2>8. Listed(records) \cup EntriesAt(list, rest) = Listed(list)
    BY <2>3
  <2>9. \A i \in rest, m \in DOMAIN records : records[m].entry # list[i].entry
    BY <2>5
  <2> HIDE DEF rest, list
  <2> QED BY <2>7, <2>8, <2>9, SplitNext
<1>12. PartialListsHeal'
  BY <1>0, <1>1 DEF PartialListsHeal
<1>13. /\ snapshot' \in [Calls -> GoodLists] /\ found' \in [Calls -> Seq(Records)]
       /\ progress' \in Runs \cup {NoRun} /\ crashes' \in Nat /\ partialRead' \in BOOLEAN
       /\ (found'[c] # <<>> => found'[c][1] \in GoodRecords)
       /\ partialRead' \/ snapshot'[c] \in WholeLists
       /\ pc' = [pc EXCEPT ![c] = "running"] /\ left'[c] \subseteq DOMAIN snapshot'[c]
  BY <1>0, <1>1, <1>2, <1>8 DEF Inv, TypeOK, Lists, SnapshotsWhole
<1> QED BY <1>0, <1>1, <1>8, <1>9, <1>11, <1>12, <1>13, MoveStep DEF Before

LEMMA EndOfThreadStep ==
  ASSUME Inv, NEW c \in Runs, WorkerRaises(c) \/ ReportDone(c) PROVE Inv'
<1>1. c \in Calls /\ "error" \in PC /\ "done" \in PC
  BY DEF Calls, PC
<1>2. CASE WorkerRaises(c)
  BY <1>1, <1>2, LeaveStep DEF WorkerRaises
<1>3. CASE ReportDone(c)
  BY <1>1, <1>3, LeaveStep DEF ReportDone
<1> QED BY <1>2, <1>3

(* Everything is collected: unless the snapshot had gaps, the list stored is *)
(* whole.                                                                   *)
LEMMA StoreAllStep ==
  ASSUME Inv, NEW c \in Runs, StoreAll(c) PROVE Inv'
<1>0. c \in Calls /\ "stored" \in PC /\ pc[c] = "running" /\ left[c] = {}
  BY DEF Calls, PC, StoreAll
<1>1. /\ document' = updated[c] /\ pc' = [pc EXCEPT ![c] = "stored"]
      /\ UNCHANGED <<progress, snapshot, left, updated, found, crashes, partialRead>>
  BY DEF StoreAll
<1>2. Listed(updated[c]) = Listed(snapshot[c])
  <2>1. Listed(updated[c]) \cup EntriesAt(snapshot[c], {}) = Listed(snapshot[c])
    BY <1>0 DEF Inv, RunsSplit, Split
  <2>2. EntriesAt(snapshot[c], {}) = {}
    BY DEF EntriesAt
  <2> QED BY <2>1, <2>2
<1>3. partialRead \/ Listed(updated[c]) = Entries
  BY <1>0, <1>2 DEF Inv, SnapshotsWhole, WholeLists
<1>4. PartialListsHeal'
  <2>1. Listed(document)' = Listed(updated[c])
    BY <1>1 DEF Listed
  <2> QED BY <1>1, <1>3, <2>1 DEF PartialListsHeal, Complete
<1>5. /\ snapshot' \in [Calls -> GoodLists] /\ updated' \in [Calls -> GoodLists]
      /\ left' \in [Calls -> SUBSET Nat] /\ found' \in [Calls -> Seq(Records)]
      /\ document' \in GoodLists /\ progress' \in Runs \cup {NoRun} /\ crashes' \in Nat
      /\ partialRead' \in BOOLEAN /\ (found'[c] # <<>> => found'[c][1] \in GoodRecords)
      /\ left'[c] \subseteq DOMAIN snapshot'[c]
  BY <1>0, <1>1 DEF Inv, TypeOK, Lists
<1> QED BY <1>0, <1>1, <1>4, <1>5, MoveStep DEF Before

(* The verification of one reference. *)
LEMMA FindRecordStep ==
  ASSUME Inv, NEW s \in Singles, FindRecord(s) PROVE Inv'
<1>0. s \in Calls /\ "asking" \in PC /\ "not_found" \in PC /\ pc[s] = "idle"
  BY DEF Calls, PC, FindRecord
<1> DEFINE list == IF document = <<>> THEN Imported ELSE document
<1>1. list \in GoodLists
  BY ImportedIsWhole DEF Inv, Lists, WholeLists
<1>2. UNCHANGED <<document, progress, crashes, partialRead>>
  BY DEF FindRecord
<1>3. CASE Leave(s, "not_found")
  BY <1>0, <1>2, <1>3, LeaveStep
<1>4. CASE \E k \in DOMAIN list :
             /\ found' = [found EXCEPT ![s] = <<list[k]>>]
             /\ pc' = [pc EXCEPT ![s] = "asking"]
             /\ UNCHANGED <<snapshot, left, updated>>
  <2>1. PICK k \in DOMAIN list : /\ found' = [found EXCEPT ![s] = <<list[k]>>]
                                 /\ pc' = [pc EXCEPT ![s] = "asking"]
                                 /\ UNCHANGED <<snapshot, left, updated>>
    BY <1>4
  <2> DEFINE r == list[k]
  <2>2. r \in GoodRecords /\ r \in Records
    BY <1>1, GoodElement DEF GoodRecords
  <2> HIDE DEF r, list
  <2>3. /\ found' \in [Calls -> Seq(Records)] /\ found'[s] = <<r>>
        /\ \A d \in Calls \ {s} : found'[d] = found[d]
    BY <1>0, <2>1, <2>2 DEF Inv, TypeOK, r
  <2>4. found'[s] # <<>> /\ found'[s][1] \in GoodRecords
    BY <2>2, <2>3
  <2>5. /\ snapshot' \in [Calls -> GoodLists] /\ updated' \in [Calls -> GoodLists]
        /\ left' \in [Calls -> SUBSET Nat] /\ document' \in GoodLists
        /\ progress' \in Runs \cup {NoRun} /\ crashes' \in Nat
        /\ partialRead' \in BOOLEAN /\ left'[s] \subseteq DOMAIN snapshot'[s]
    BY <1>0, <1>2, <2>1 DEF Inv, TypeOK, Lists
  <2>6. PartialListsHeal'
    BY <1>0, <1>2, <2>1, HealsStill DEF Inv, TypeOK, Calls
  <2>7. left'[s] = {} /\ updated'[s] = <<>>
    BY <1>0, <2>1 DEF Inv, RunsSplit, Before
  <2> QED BY <1>0, <1>2, <2>1, <2>3, <2>4, <2>5, <2>6, <2>7, MoveStep DEF Before
<1> QED BY <1>3, <1>4 DEF FindRecord

LEMMA AnswerStep ==
  ASSUME Inv, NEW s \in Singles, Answer(s) PROVE Inv'
<1>0. s \in Calls /\ "updating" \in PC /\ "returned" \in PC /\ pc[s] = "asking"
  BY DEF Calls, PC, Answer
<1>1. UNCHANGED <<document, progress, crashes>>
  BY DEF Answer
<1>2. CASE Leave(s, "returned") /\ UNCHANGED partialRead
  BY <1>0, <1>1, <1>2, LeaveStep
<1>3. CASE /\ document # <<>>
           /\ \E verdict \in Statuses : found' = [found EXCEPT ![s][1].status = verdict]
           /\ snapshot' = [snapshot EXCEPT ![s] = document]
           /\ partialRead' = (partialRead \/ ~Complete(document))
           /\ pc' = [pc EXCEPT ![s] = "updating"]
           /\ UNCHANGED <<left, updated>>
  <2>1. PICK verdict \in Statuses : found' = [found EXCEPT ![s][1].status = verdict]
    BY <1>3
  <2>2. /\ found[s] # <<>> /\ found[s] \in Seq(Records) /\ found[s][1] \in GoodRecords
        /\ found \in [Calls -> Seq(Records)]
    BY <1>0 DEF Inv, TypeOK, Lists
  <2> DEFINE r == [found[s][1] EXCEPT !.status = verdict]
             one == [found[s] EXCEPT ![1] = r]
  <2>3. r \in GoodRecords /\ r \in Records
    BY <2>2, VerdictIsGood DEF GoodRecords
  <2>4. found' = [found EXCEPT ![s] = one]
    BY <2>1
  <2> HIDE DEF r
  <2>5. one \in Seq(Records) /\ one # <<>> /\ one[1] = r
    BY <2>2, <2>3
  <2> HIDE DEF one
  <2>6. /\ found' \in [Calls -> Seq(Records)] /\ found'[s] # <<>> /\ found'[s][1] \in GoodRecords
        /\ \A d \in Calls \ {s} : found'[d] = found[d]
    BY <1>0, <2>2, <2>3, <2>4, <2>5
  <2>7. /\ snapshot'[s] = document /\ snapshot' \in [Calls -> GoodLists]
        /\ \A d \in Calls \ {s} : snapshot'[d] = snapshot[d]
    BY <1>0, <1>3 DEF Inv, TypeOK, Lists
  <2>8. partialRead' \/ snapshot'[s] \in WholeLists
    BY <1>3, <2>7 DEF Inv, Lists, Complete, WholeLists
  <2>9. PartialListsHeal'
    BY <1>0, <1>1, <1>3, HealsStill DEF Inv, TypeOK, Calls
  <2>10. left'[s] = {} /\ updated'[s] = <<>>
    BY <1>0, <1>3 DEF Inv, RunsSplit, Before
  <2>11. /\ updated' \in [Calls -> GoodLists] /\ left' \in [Calls -> SUBSET Nat]
         /\ document' \in GoodLists /\ progress' \in Runs \cup {NoRun} /\ crashes' \in Nat
         /\ partialRead' \in BOOLEAN /\ (partialRead => partialRead')
    BY <1>1, <1>3 DEF Inv, TypeOK, Lists
  <2> QED BY <1>0, <1>3, <2>6, <2>7, <2>8, <2>9, <2>10, <2>11, MoveStep DEF Before
<1> QED BY <1>2, <1>3 DEF Answer

(* item.update on a numbered list keeps its entries. *)
LEMMA StoreOneStep ==
  ASSUME Numbered, Inv, NEW s \in Singles, StoreOne(s) PROVE Inv'
<1>0. s \in Calls /\ s \notin Runs /\ "returned" \in PC /\ pc[s] = "updating"
  BY CallAssumption DEF Calls, PC, StoreOne
<1> DEFINE list == snapshot[s]
           r == found[s][1]
           new == [k \in DOMAIN list |-> IF list[k].id = r.id THEN r ELSE list[k]]
<1>1. document' = new /\ Leave(s, "returned") /\ UNCHANGED <<progress, crashes, partialRead>>
  BY DEF StoreOne
<1>2. list \in GoodLists /\ r \in GoodRecords /\ (partialRead \/ list \in WholeLists)
  BY <1>0 DEF Inv, TypeOK, Lists, SnapshotsWhole
<1>3. new \in GoodLists /\ Listed(new) = Listed(list)
  BY <1>2, UpdateKeepsEntries
<1> HIDE DEF new, list, r
<1>4. partialRead \/ Listed(new) = Entries
  BY <1>2, <1>3 DEF WholeLists
<1>5. PartialListsHeal'
  <2>1. Listed(document)' = Listed(new)
    BY <1>1 DEF Listed
  <2> QED BY <1>1, <1>4, <2>1 DEF PartialListsHeal, Complete
<1>6. /\ pc' = [pc EXCEPT ![s] = "returned"]
      /\ snapshot' \in [Calls -> GoodLists] /\ updated' \in [Calls -> GoodLists]
      /\ left' \in [Calls -> SUBSET Nat] /\ found' \in [Calls -> Seq(Records)]
      /\ snapshot'[s] = <<>> /\ left'[s] = {} /\ updated'[s] = <<>> /\ found'[s] = <<>>
      /\ \A d \in Calls \ {s} : /\ snapshot'[d] = snapshot[d] /\ left'[d] = left[d]
                                /\ updated'[d] = updated[d] /\ found'[d] = found[d]
  BY <1>0, <1>1, EmptyIsGood DEF Inv, TypeOK, Lists, Leave
<1>7. /\ document' \in GoodLists /\ progress' \in Runs \cup {NoRun} /\ crashes' \in Nat
      /\ partialRead' \in BOOLEAN
  BY <1>1, <1>3 DEF Inv, TypeOK
<1> QED BY <1>0, <1>1, <1>5, <1>6, <1>7, MoveStep DEF Before

(* A restart forgets every call; a run it interrupts is lost. *)
LEMMA RestartStep == ASSUME Inv, Restart PROVE Inv'
<1>1. /\ snapshot' = [c \in Calls |-> <<>>] /\ left' = [c \in Calls |-> {}]
      /\ updated' = [c \in Calls |-> <<>>] /\ found' = [c \in Calls |-> <<>>]
      /\ crashes' = crashes + 1 /\ progress' = NoRun /\ UNCHANGED <<document, partialRead>>
  BY DEF Restart
<1>2. \A c \in Calls :
        /\ pc'[c] \in PC /\ pc'[c] \notin {"loaded", "cleared", "running", "asking", "updating"}
        /\ pc[c] \in {"running", "error", "lost"} => pc'[c] \in {"running", "error", "lost"}
  BY DEF Restart, Inv, TypeOK, PC
<1>3. pc' \in [Calls -> PC]
  BY <1>2 DEF Restart
<1>4. TypeOK'
  BY <1>1, <1>2, <1>3 DEF Inv, TypeOK
<1>5. Lists'
  BY <1>1, EmptyIsGood DEF Inv, Lists
<1>6. RunsSplit' /\ SnapshotsWhole'
  BY <1>1, <1>2 DEF RunsSplit, SnapshotsWhole
<1>7. PartialListsHeal'
  BY <1>1, <1>2, HealsStill DEF Inv, Calls
<1> QED BY <1>4, <1>5, <1>6, <1>7 DEF Inv

(* Nothing changes. *)
LEMMA StutterStep == ASSUME Inv, UNCHANGED vars PROVE Inv'
<1>1. TypeOK' /\ Lists'
  BY DEF Inv, vars, TypeOK, Lists
<1>2. SnapshotsWhole'
  BY DEF Inv, vars, SnapshotsWhole
<1>3. RunsSplit'
  <2> SUFFICES ASSUME NEW c \in Calls
               PROVE  /\ pc[c] \in Before => updated[c] = <<>> /\ left[c] = {}
                      /\ pc[c] = "running" => Split(c)'
    BY DEF vars, RunsSplit
  <2>1. Split(c) => Split(c)'
    BY SplitNext DEF vars, Split
  <2> QED BY <2>1 DEF Inv, RunsSplit
<1>4. PartialListsHeal'
  BY HealsStill DEF Inv, vars
<1> QED BY <1>1, <1>2, <1>3, <1>4 DEF Inv

LEMMA Inductive == ASSUME Numbered, Inv, [Next]_vars PROVE Inv'
<1>1. ASSUME NEW c \in Runs, LoadList(c) PROVE Inv'
  BY <1>1, LoadListStep
<1>2. ASSUME NEW c \in Runs, CheckRunning(c) PROVE Inv'
  BY <1>2, CheckRunningStep
<1>3. ASSUME NEW c \in Runs, StartRun(c) PROVE Inv'
  BY <1>3, StartRunStep
<1>4. ASSUME NEW c \in Runs, Collect(c) PROVE Inv'
  BY <1>4, CollectStep
<1>5. ASSUME NEW c \in Runs, WorkerRaises(c) \/ ReportDone(c) PROVE Inv'
  BY <1>5, EndOfThreadStep
<1>6. ASSUME NEW c \in Runs, StoreAll(c) PROVE Inv'
  BY <1>6, StoreAllStep
<1>7. ASSUME NEW s \in Singles, FindRecord(s) PROVE Inv'
  BY <1>7, FindRecordStep
<1>8. ASSUME NEW s \in Singles, Answer(s) PROVE Inv'
  BY <1>8, AnswerStep
<1>9. ASSUME NEW s \in Singles, AnswerRaises(s) PROVE Inv'
  <2>1. s \in Calls /\ "raised" \in PC
    BY DEF Calls, PC
  <2> QED BY <1>9, <2>1, LeaveStep DEF AnswerRaises
<1>10. ASSUME NEW s \in Singles, StoreOne(s) PROVE Inv'
  BY <1>10, StoreOneStep
<1> QED BY <1>1, <1>2, <1>3, <1>4, <1>5, <1>6, <1>7, <1>8, <1>9, <1>10,
           RestartStep, StutterStep DEF Next, Thread

LEMMA InvHolds == ASSUME Numbered PROVE Spec => []Inv
<1>1. Init => Inv
  BY InitInv
<1>2. Inv /\ [Next]_vars => Inv'
  BY Inductive
<1> QED BY <1>1, <1>2, PTL DEF Spec

-----------------------------------------------------------------------------
(* The references endpoints keep every variable in its type.                *)
THEOREM TypeCorrect == ASSUME Numbered PROVE Spec => []TypeOK
<1>1. Inv => TypeOK
  BY DEF Inv
<1> QED BY <1>1, InvHolds, PTL

(* A numbered bibliography never lists a reference twice, however runs and   *)
(* single verifications overlap.                                            *)
THEOREM NoDuplicates == ASSUME Numbered PROVE Spec => []OneRecordPerEntry
<1>1. Inv => OneRecordPerEntry
  BY DEF Inv, Lists, GoodLists, OneRecordPerEntry
<1> QED BY <1>1, InvHolds, PTL

(* References that the partial stores of resolve_all_references take out of  *)
(* the list come back, unless a run failed or was lost, or a call read the   *)
(* incomplete list.                                                         *)
THEOREM ListsHeal == ASSUME Numbered PROVE Spec => []PartialListsHeal
<1>1. Inv => PartialListsHeal
  BY DEF Inv
<1> QED BY <1>1, InvHolds, PTL
=============================================================================
