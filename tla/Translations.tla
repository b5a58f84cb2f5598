---------------------------- MODULE Translations ----------------------------
(***************************************************************************)
(* Translating a paper: translate_paper of server/app/main.py and          *)
(* translate_initial_pages of server/app/jobs.py, the two writers of a     *)
(* version's "translations" document.  Both read the document, spend       *)
(* minutes in language-model calls and write the whole document back, so   *)
(* the reader's overlapping page requests and the pre-translation of an    *)
(* import race on it.                                                      *)
(*                                                                         *)
(* A block is a paragraph long enough to be translated; the blocks of a    *)
(* version do not change.  A unit is the translation of one block; its     *)
(* text is left out.  Blocks are numbered by position.                     *)
(***************************************************************************)
EXTENDS Naturals, Sequences, FiniteSets

CONSTANTS
  Requests,       \* POST /translations calls
  Jobs,           \* import jobs of this version (a re-import repeats one)
  NumBlocks,      \* translatable blocks of the paper
  BlocksPerPage,
  FirstBlocks,    \* blocks an import translates (15)
  BatchSize,      \* paragraphs per model call (6)
  Workers,        \* batches in flight per writer (4)
  Permits,        \* _TRANSLATE_SEMAPHORE (4)
  Rebuilds        \* values of TranslateRequest.rebuild

ASSUME SizeAssumption ==
  /\ NumBlocks \in Nat /\ FirstBlocks \in Nat
  /\ {BlocksPerPage, BatchSize, Workers, Permits} \subseteq Nat \ {0}
ASSUME RebuildAssumption == Rebuilds \subseteq BOOLEAN
ASSUME WriterAssumption ==
  Requests \cap Jobs = {} /\ IsFiniteSet(Requests) /\ IsFiniteSet(Jobs)

Blocks == 1..NumBlocks
Page(b) == ((b - 1) \div BlocksPerPage) + 1
Pages == {Page(b) : b \in Blocks}
Writers == Requests \cup Jobs

VARIABLES
  units,    \* the "translations" document, a list of units
  pc,       \* writer -> where it is
  rebuild,  \* writer -> whether the request asked for a rebuild
  snapshot, \* writer -> the units it read
  pending,  \* writer -> the blocks it translates
  batch,    \* writer -> state of each of its batches, by position
  fresh,    \* writer -> the units its batches produced, in completion order
  permits   \* value of the semaphore

vars == <<units, pc, rebuild, snapshot, pending, batch, fresh, permits>>

UnitStatus == {"TRANSLATED", "NEEDS_RETRY"}
Units == [block : Blocks, status : UnitStatus]

UnitsOf(list, b) == {k \in DOMAIN list : list[k].block = b}
Covered(list) == {list[k].block : k \in DOMAIN list}
Running(w) == {k \in DOMAIN batch[w] : batch[w][k] = "running"}
Finished(w) == \A k \in DOMAIN batch[w] : batch[w][k] \notin {"queued", "running"}

(* The numbers of a set in increasing order: each where its rank puts it. *)
Rank(S, n) == Cardinality({m \in S : m < n})
InOrder(S) == [i \in 1..Cardinality(S) |-> CHOOSE n \in S : Rank(S, n) = i - 1]

(* The pending blocks in document order, BatchSize at a time. *)
Position(S, b) == Rank(S, b) \div BatchSize
Batches(S) == {Position(S, b) : b \in S}

(* Mutant: batches are cut from all blocks by the positions of the pending. *)
BatchBlocksUnfiltered(w, k) == {b \in Blocks : Position(pending[w], b) = k}

BatchBlocks(w, k) == {b \in pending[w] : Position(pending[w], b) = k}

(* A call ends and its local variables die. *)
End(w, how) ==
  /\ pc' = [pc EXCEPT ![w] = how]
  /\ snapshot' = [snapshot EXCEPT ![w] = <<>>]
  /\ pending' = [pending EXCEPT ![w] = {}]
  /\ batch' = [batch EXCEPT ![w] = <<>>]
  /\ fresh' = [fresh EXCEPT ![w] = <<>>]

Init ==
  /\ units = <<>>
  /\ pc = [w \in Writers |-> "idle"]
  /\ rebuild = [w \in Writers |-> FALSE]
  /\ snapshot = [w \in Writers |-> <<>>]
  /\ pending = [w \in Writers |-> {}]
  /\ batch = [w \in Writers |-> <<>>]
  /\ fresh = [w \in Writers |-> <<>>]
  /\ permits = Permits

-----------------------------------------------------------------------------
(* A request. *)

(* The cache: the last unit of a block counts, unless it needs a retry. *)
Cached(list) ==
  {b \in Covered(list) :
     list[CHOOSE k \in UnitsOf(list, b) : \A m \in UnitsOf(list, b) : m <= k].status
       # "NEEDS_RETRY"}

Ask(r) ==
  /\ pc[r] = "idle"
  /\ \E pages \in SUBSET Pages \ {{}}, again \in Rebuilds :
       LET asked == {b \in Blocks : Page(b) \in pages}
           todo == IF again THEN asked ELSE asked \ Cached(units)
       IN /\ rebuild' = [rebuild EXCEPT ![r] = again]
          /\ \/ /\ todo = {}
                /\ End(r, "returned")
             \/ /\ todo # {}
                /\ pending' = [pending EXCEPT ![r] = todo]
                /\ batch' = [batch EXCEPT ![r] = [k \in Batches(todo) |-> "queued"]]
                /\ snapshot' = [snapshot EXCEPT ![r] = units]
                /\ pc' = [pc EXCEPT ![r] = "preparing"]
                /\ fresh' = fresh
  /\ UNCHANGED <<units, permits>>

(* The glossary and the profile of the version are loaded or built; a        *)
(* glossary that cannot be built fails the request.                         *)
Prepare(r) ==
  /\ pc[r] = "preparing"
  /\ \/ /\ pc' = [pc EXCEPT ![r] = "waiting"]
        /\ UNCHANGED <<snapshot, pending, batch, fresh>>
     \/ End(r, "failed")
  /\ UNCHANGED <<units, rebuild, permits>>

(* Mutant: the semaphore admits everyone. *)
AcquireUnguarded(r) ==
  /\ pc[r] = "waiting"
  /\ pc' = [pc EXCEPT ![r] = "translating"]
  /\ UNCHANGED <<units, rebuild, snapshot, pending, batch, fresh, permits>>

Acquire(r) ==
  /\ pc[r] = "waiting"
  /\ permits > 0
  /\ permits' = permits - 1
  /\ pc' = [pc EXCEPT ![r] = "translating"]
  /\ UNCHANGED <<units, rebuild, snapshot, pending, batch, fresh>>

-----------------------------------------------------------------------------
(* The thread pool of a writer: batches start in order, Workers at a time,   *)
(* and run to their end even after the writer has given up.                 *)

StartBatch(w) ==
  /\ pc[w] \in {"translating", "unwinding"}
  /\ Cardinality(Running(w)) < Workers
  /\ \E k \in DOMAIN batch[w] :
       /\ batch[w][k] = "queued"
       /\ \A m \in DOMAIN batch[w] : batch[w][m] = "queued" => k <= m
       /\ batch' = [batch EXCEPT ![w][k] = "running"]
  /\ UNCHANGED <<units, pc, rebuild, snapshot, pending, fresh, permits>>

EndBatch(w) ==
  /\ \E k \in Running(w), end \in {"done", "raised"} : batch' = [batch EXCEPT ![w][k] = end]
  /\ UNCHANGED <<units, pc, rebuild, snapshot, pending, fresh, permits>>

(* make_units: the model answered every paragraph well, or some not. *)
NewUnits(w, k, status) ==
  LET blocks == InOrder(BatchBlocks(w, k))
  IN [i \in DOMAIN blocks |-> [block |-> blocks[i], status |-> status[blocks[i]]]]

(* Mutant: units of blocks translated again are kept beside the new ones. *)
KeptDuplicated(w, new) == IF rebuild[w] THEN <<>> ELSE snapshot[w]

(* A list without the units of some blocks. *)
Without(list, blocks) ==
  LET left == InOrder({k \in DOMAIN list : list[k].block \notin blocks})
  IN [i \in DOMAIN left |-> list[left[i]]]

(* The units of the snapshot that survive a write of the new ones. *)
Kept(w, new) == IF rebuild[w] THEN <<>> ELSE Without(snapshot[w], Covered(new))

(* The next finished batch is collected; a request stores what it has. *)
Collect(w) ==
  /\ pc[w] = "translating"
  /\ \E k \in DOMAIN batch[w] :
       /\ batch[w][k] = "done"
       /\ batch' = [batch EXCEPT ![w][k] = "collected"]
       /\ \E status \in [BatchBlocks(w, k) -> UnitStatus] :
            LET new == fresh[w] \o NewUnits(w, k, status)
            IN /\ fresh' = [fresh EXCEPT ![w] = new]
               /\ units' = IF w \in Requests THEN Kept(w, new) \o new ELSE units
  /\ UNCHANGED <<pc, rebuild, snapshot, pending, permits>>

(* A batch raised: the pool is joined before the exception goes on. *)
CollectRaises(w) ==
  /\ pc[w] = "translating"
  /\ \E k \in DOMAIN batch[w] : batch[w][k] = "raised"
  /\ pc' = [pc EXCEPT ![w] = "unwinding"]
  /\ UNCHANGED <<units, rebuild, snapshot, pending, batch, fresh, permits>>

(* Mutant: the permit is released on the way of a success only. *)
UnwindKeepsPermit(w) ==
  /\ pc[w] = "unwinding"
  /\ Finished(w)
  /\ End(w, "failed")
  /\ UNCHANGED <<units, rebuild, permits>>

Unwind(w) ==
  /\ pc[w] = "unwinding"
  /\ Finished(w)
  /\ End(w, "failed")
  /\ permits' = IF w \in Requests THEN permits + 1 ELSE permits
  /\ UNCHANGED <<units, rebuild>>

(* Mutant: the pool is left when its batches are done, not all collected. *)
CollectedEarly(w) ==
  /\ pc[w] = "translating"
  /\ \A k \in DOMAIN batch[w] : batch[w][k] \in {"done", "collected"}
  /\ pc' = [pc EXCEPT ![w] = "merging"]
  /\ permits' = IF w \in Requests THEN permits + 1 ELSE permits
  /\ snapshot' = IF w \in Jobs THEN [snapshot EXCEPT ![w] = units] ELSE snapshot
  /\ UNCHANGED <<units, rebuild, pending, batch, fresh>>

(* Every batch is collected: a request leaves the semaphore; an import only  *)
(* now reads the units it will keep.                                        *)
Collected(w) ==
  /\ pc[w] = "translating"
  /\ \A k \in DOMAIN batch[w] : batch[w][k] = "collected"
  /\ pc' = [pc EXCEPT ![w] = "merging"]
  /\ permits' = IF w \in Requests THEN permits + 1 ELSE permits
  /\ snapshot' = IF w \in Jobs THEN [snapshot EXCEPT ![w] = units] ELSE snapshot
  /\ UNCHANGED <<units, rebuild, pending, batch, fresh>>

(* After the repair of units that drifted from the glossary, which changes   *)
(* their text only, a request stores the document once more.                *)
Merge(r) ==
  /\ pc[r] = "merging"
  /\ units' = Kept(r, fresh[r]) \o fresh[r]
  /\ End(r, "returned")
  /\ UNCHANGED <<rebuild, permits>>

(* The repair calls the model, which may raise. *)
RepairRaises(r) ==
  /\ pc[r] = "merging"
  /\ End(r, "failed")
  /\ UNCHANGED <<units, rebuild, permits>>

-----------------------------------------------------------------------------
(* The pre-translation of an import. *)

(* It translates the first blocks, whatever the document holds; a glossary   *)
(* that cannot be built fails it.                                           *)
Begin(j) ==
  /\ pc[j] = "idle"
  /\ LET todo == {b \in Blocks : b <= FirstBlocks}
     IN \/ /\ todo # {}
           /\ pending' = [pending EXCEPT ![j] = todo]
           /\ batch' = [batch EXCEPT ![j] = [k \in Batches(todo) |-> "queued"]]
           /\ pc' = [pc EXCEPT ![j] = "translating"]
           /\ UNCHANGED <<snapshot, fresh>>
        \/ End(j, IF todo = {} THEN "returned" ELSE "failed")
  /\ UNCHANGED <<units, rebuild, permits>>

(* Mutant: the units that were there are forgotten. *)
AppendForgets(j) ==
  /\ pc[j] = "merging"
  /\ units' = fresh[j]
  /\ End(j, "returned")
  /\ UNCHANGED <<rebuild, permits>>

(* It appends its units to the ones it just read. *)
AppendUnits(j) ==
  /\ pc[j] = "merging"
  /\ units' = snapshot[j] \o fresh[j]
  /\ End(j, "returned")
  /\ UNCHANGED <<rebuild, permits>>

-----------------------------------------------------------------------------
Pool(w) == StartBatch(w) \/ EndBatch(w) \/ Collect(w) \/ CollectRaises(w) \/ Unwind(w) \/ Collected(w)
Request(r) == Ask(r) \/ Prepare(r) \/ Acquire(r) \/ Merge(r) \/ RepairRaises(r)
Import(j) == Begin(j) \/ AppendUnits(j)

Next ==
  \/ \E r \in Requests : Request(r)
  \/ \E j \in Jobs : Import(j)
  \/ \E w \in Writers : Pool(w)

Spec == Init /\ [][Next]_vars

-----------------------------------------------------------------------------
PC == {"idle", "preparing", "waiting", "translating", "unwinding", "merging", "returned", "failed"}
BatchState == {"queued", "running", "done", "raised", "collected"}
IsUnitList(list) == \A k \in DOMAIN list : list[k] \in Units

(* Every variable has its type; the batches of a writer are those of its     *)
(* pending blocks, and it never has a unit of another block.                *)
TypeOK ==
  /\ IsUnitList(units)
  /\ pc \in [Writers -> PC]
  /\ rebuild \in [Writers -> BOOLEAN]
  /\ pending \in [Writers -> SUBSET Blocks]
  /\ permits \in 0..Permits
  /\ \A w \in Writers :
       /\ IsUnitList(snapshot[w]) /\ IsUnitList(fresh[w])
       /\ Covered(fresh[w]) \subseteq pending[w]
       /\ DOMAIN batch[w] = Batches(pending[w])
       /\ \A k \in DOMAIN batch[w] : batch[w][k] \in BatchState

(* The requests inside the with-block of the semaphore. *)
Holders == {r \in Requests : pc[r] \in {"translating", "unwinding"}}

(* The semaphore accounts for exactly the requests inside its with-block,    *)
(* however their batches end: no exception leaks or duplicates a permit.    *)
PermitsMatchHolders == permits + Cardinality(Holders) = Permits

(* unit ids derive from the block so that the document holds one unit per    *)
(* block; requests keep it so among themselves, whatever their overlap, and  *)
(* each import of the version adds at most one more.                        *)
OneUnitPerBlockAndImport ==
  \A b \in Blocks :
    Cardinality(UnitsOf(units, b))
      <= 1 + Cardinality({j \in Jobs : pc[j] = "returned" /\ b <= FirstBlocks})

(* The model calls of requests: the batches that run, and one at a time of   *)
(* each request outside the semaphore, for glossary, profile or repair.     *)
BatchCalls == {call \in Requests \X (0..NumBlocks) : call[2] \in Running(call[1])}
CallsOutside == {r \in Requests : pc[r] \in {"preparing", "merging"}}

(* With so many requests the model has at most the calls it has when every   *)
(* permit is held by a request with a full pool and all others make a call   *)
(* of their own.  main.py:52 speaks of a clamp to four batches, the number   *)
(* of permits: the code has one permit for each request, so that Workers     *)
(* times as many batches run; imports, with a pool each, take none.          *)
CallsBounded ==
  LET requests == Cardinality(Requests)
      inside == IF requests <= Permits THEN requests ELSE Permits
  IN Cardinality(BatchCalls) + Cardinality(CallsOutside)
       <= inside * Workers + (requests - inside)

(* A call that returns leaves a unit for every block it was to translate,    *)
(* and every cached unit it read for the others unless it rebuilds.         *)
AnswerIsStored ==
  [][\A w \in Writers :
       pc[w] = "merging" /\ pc'[w] = "returned" =>
         /\ pending[w] \subseteq Covered(units')
         /\ ~rebuild[w] => Covered(snapshot[w]) \subseteq Covered(units')]_vars

(* A block loses its units only to a rebuild, or to a writer that read the   *)
(* document before the unit was stored: no merge forgets what it has seen.  *)
UnitsLostOnlyToStaleWriters ==
  [][\A b \in Covered(units) \ Covered(units') :
       \E w \in Writers :
         /\ <<pc[w], fresh[w]>>' # <<pc[w], fresh[w]>>
         /\ rebuild[w] \/ b \notin Covered(snapshot[w])]_vars
=============================================================================
