------------------------------ MODULE Research ------------------------------
(***************************************************************************)
(* The research agent.  A run is planned as a graph of tasks and stored;   *)
(* execute reads the stored run, works through the tasks on its own copy   *)
(* in topological order, and stores the copy as a whole.  Nothing keeps    *)
(* two executions of one run apart, a run may be executed again, and a     *)
(* restart loses the executions under way.                                 *)
(***************************************************************************)
EXTENDS Naturals, FiniteSets, Sequences, SequencesExt, FiniteSetsExt

CONSTANTS
  Calls,       \* calls of execute
  Plans,       \* the plans a run may have
  ReportLimit  \* how many findings a report lists, 12 in the code

(* A plan has task ids, numbered in the order of their names, in the order it
   lists them, and for each id a type and the ids it depends on. *)
ASSUME PlansAssumption ==
  \A p \in Plans : /\ p.tasks \in Seq(Nat) /\ IsInjective(p.tasks)
                   /\ DOMAIN p.type = ToSet(p.tasks) /\ DOMAIN p.deps = ToSet(p.tasks)
ASSUME LimitAssumption == ReportLimit \in Nat

VARIABLES
  plan,  \* the tasks of the run
  row,   \* the stored run, NoRow before it is created
  copy,  \* call -> the run it works on
  order, \* call -> the tasks in the order it takes them
  res,   \* call -> the results so far, by task
  pc     \* call -> "idle", "running", "over" or "lost"

vars == <<plan, row, copy, order, res, pc>>

Run(status, findings, report) == [status |-> status, findings |-> findings, report |-> report]
NoRow == Run("NONE", <<>>, <<>>)
-----------------------------------------------------------------------------
(* The planners: both end in a synthesis and a report; the adaptive one is a
   chain of two to five retrievals. *)
Retrievals(depth) == CASE depth = "QUICK" -> 2 [] depth = "ANALYTIC" -> 3 [] depth = "DEEP" -> 5

AdaptivePlan(depth) ==
  LET k == Retrievals(depth)
  IN [tasks |-> [i \in 1..(k + 2) |-> i],
      type |-> [i \in 1..(k + 2) |-> IF i <= k THEN "RETRIEVE"
                                     ELSE IF i = k + 1 THEN "SYNTHESIZE" ELSE "PRODUCE"],
      deps |-> [i \in 1..(k + 2) |-> IF i = 1 THEN {} ELSE IF i = k + 1 THEN {1, k} ELSE {i - 1}]]

(* By name: compare 1, produce 2, profile 3, retrieve 4, synthesize 5. *)
DefaultType == <<"COMPARE", "PRODUCE", "PROFILE", "RETRIEVE", "SYNTHESIZE">>
DefaultPlan(scoped) ==
  LET ids == IF scoped THEN 1..5 ELSE 1..5 \ {3}
  IN [tasks |-> IF scoped THEN <<4, 3, 1, 5, 2>> ELSE <<4, 1, 5, 2>>,
      type |-> [t \in ids |-> DefaultType[t]],
      deps |-> [t \in ids |-> CASE t = 1 -> ids \cap {3} [] t = 2 -> {5} [] t = 3 -> {4}
                                [] t = 4 -> {} [] t = 5 -> {1, 4}]]
-----------------------------------------------------------------------------
(* Kahn's algorithm.  A dependency on an unknown id counts for nothing, and what
   the queue never reaches is appended in the order of the plan. *)
Ids(p) == ToSet(p.tasks)
Rank(S, n) == Cardinality({m \in S : m < n})
InOrder(S) == [i \in 1..Cardinality(S) |-> CHOOSE n \in S : Rank(S, n) = i - 1]
Pick(seq, places) == LET kept == InOrder(places) IN [i \in DOMAIN kept |-> seq[kept[i]]]

Queued(p) ==
  LET degree == [t \in Ids(p) |-> Cardinality(p.deps[t] \cap Ids(p))]
  IN [queue |-> InOrder({t \in Ids(p) : degree[t] = 0}), degree |-> degree, ordered |-> <<>>]

Popped(p, s) ==
  LET t == Head(s.queue)
      degree == [u \in Ids(p) |-> IF t \in p.deps[u] THEN s.degree[u] - 1 ELSE s.degree[u]]
  IN [queue |-> Tail(s.queue) \o InOrder({u \in Ids(p) : t \in p.deps[u] /\ degree[u] = 0}),
      degree |-> degree,
      ordered |-> Append(s.ordered, t)]

Kahn(p) ==
  LET kahn[n \in 0..Len(p.tasks)] ==
        IF n = 0 THEN Queued(p)
        ELSE IF kahn[n - 1].queue = <<>> THEN kahn[n - 1] ELSE Popped(p, kahn[n - 1])
  IN kahn[Len(p.tasks)]

(* Mutant: the tasks are taken in the order the plan lists them. *)
TopologicalAsListed(p) == p.tasks

Topological(p) ==
  LET ordered == Kahn(p).ordered
  IN ordered \o Pick(p.tasks, {i \in DOMAIN p.tasks : p.tasks[i] \notin ToSet(ordered)})
-----------------------------------------------------------------------------
Init ==
  /\ plan \in Plans
  /\ row = NoRow
  /\ copy = [c \in Calls |-> NoRow]
  /\ order = [c \in Calls |-> <<>>]
  /\ res = [c \in Calls |-> <<>>]
  /\ pc = [c \in Calls |-> "idle"]

Create ==
  /\ row = NoRow
  /\ row' = Run("PLANNED", <<>>, <<>>)
  /\ UNCHANGED <<plan, copy, order, res, pc>>

Start(c) ==
  /\ pc[c] = "idle" /\ row # NoRow
  /\ copy' = [copy EXCEPT ![c] = [row EXCEPT !.status = "RUNNING"]]
  /\ order' = [order EXCEPT ![c] = Topological(plan)]
  /\ pc' = [pc EXCEPT ![c] = "running"]
  /\ UNCHANGED <<plan, row, res>>

(* A task waits for nothing: it is skipped if a dependency has no result yet or was
   skipped, and runs after one that failed.  Tools may fail; the rest is local. *)
Blocked(results, t) ==
  \E d \in plan.deps[t] : d \notin DOMAIN results \/ results[d] = "SKIPPED"

ToolTypes == {"RETRIEVE", "PROFILE", "COMPARE"}
Outcomes(type) ==
  IF type \in ToolTypes THEN {"COMPLETED", "FAILED"}
  ELSE IF type \in {"PLAN", "SYNTHESIZE", "PRODUCE"} THEN {"COMPLETED"} ELSE {"FAILED"}

Finding(c, t) == [call |-> c, task |-> t]
Listed(findings) == SubSeq(findings, 1, Min({Len(findings), ReportLimit}))

(* The copy once task t of call c has the outcome. *)
Effect(c, t, outcome) ==
  IF outcome # "COMPLETED" THEN copy[c]
  ELSE IF plan.type[t] = "PRODUCE" THEN [copy[c] EXCEPT !.report = Listed(copy[c].findings)]
  ELSE [copy[c] EXCEPT !.findings = Append(@, Finding(c, t))]

Task(c) ==
  /\ pc[c] = "running" /\ Cardinality(DOMAIN res[c]) < Len(order[c])
  /\ LET t == order[c][Cardinality(DOMAIN res[c]) + 1]
     IN \E outcome \in IF Blocked(res[c], t) THEN {"SKIPPED"} ELSE Outcomes(plan.type[t]) :
          /\ res' = [res EXCEPT ![c] = [u \in DOMAIN @ \cup {t} |-> IF u = t THEN outcome ELSE @[u]]]
          /\ copy' = [copy EXCEPT ![c] = Effect(c, t, outcome)]
  /\ UNCHANGED <<plan, row, order, pc>>

Succeeded(results, types) ==
  {t \in Ids(plan) : plan.type[t] \in types /\ results[t] = "COMPLETED"}

Verdict(results) ==
  LET reports == {t \in Ids(plan) : plan.type[t] = "PRODUCE"}
  IN IF reports # {} /\ Succeeded(results, {"PRODUCE"}) = reports
        /\ Succeeded(results, ToolTypes) # {}
     THEN "COMPLETED" ELSE "FAILED"

(* Mutant: the findings are added to those stored meanwhile. *)
SaveMerged(c) ==
  /\ pc[c] = "running" /\ Cardinality(DOMAIN res[c]) = Len(order[c])
  /\ row' = [copy[c] EXCEPT !.status = Verdict(res[c]),
       !.findings = row.findings \o SelectSeq(@, LAMBDA f : f.call = c)]
  /\ pc' = [pc EXCEPT ![c] = "over"]
  /\ UNCHANGED <<plan, copy, order, res>>

Save(c) ==
  /\ pc[c] = "running" /\ Cardinality(DOMAIN res[c]) = Len(order[c])
  /\ row' = [copy[c] EXCEPT !.status = Verdict(res[c])]
  /\ pc' = [pc EXCEPT ![c] = "over"]
  /\ UNCHANGED <<plan, copy, order, res>>

Restart ==
  /\ \E c \in Calls : pc[c] = "running"
  /\ pc' = [c \in Calls |-> IF pc[c] = "running" THEN "lost" ELSE pc[c]]
  /\ UNCHANGED <<plan, row, copy, order, res>>

Next == Create \/ Restart \/ \E c \in Calls : Start(c) \/ Task(c) \/ Save(c)

Spec == Init /\ [][Next]_vars
-----------------------------------------------------------------------------
(* Whatever the graph, and however its tools fail, exactly the tasks that cannot be
   ordered are skipped: those on or behind a cycle or an unknown dependency.  A
   failure skips nothing, nor does the order in which a plan lists its tasks. *)
Unorderable(p) ==
  UNION {S \in SUBSET Ids(p) :
           \A t \in S : \E d \in p.deps[t] : d \in S \/ d \notin Ids(p)}
SkippedBehindCycles ==
  \A c \in Calls, t \in Ids(plan) :
    t \in DOMAIN res[c] => (res[c][t] = "SKIPPED" <=> t \in Unorderable(plan))

(* However executions of a run overlap, repeat or are lost, the stored run is one
   execution's work on top of a run that was stored before: its findings keep
   executions apart, its report lists them from the first one (all of them if it is
   the plan's last task), and COMPLETED stands on a finding of a tool. *)
Planned == plan \in {AdaptivePlan(d) : d \in {"QUICK", "ANALYTIC", "DEEP"}}
                     \cup {DefaultPlan(b) : b \in BOOLEAN}
RunIsOneExecutionsWork ==
  LET f == row.findings
  IN /\ IsInjective(f)
     /\ \A i, j, k \in DOMAIN f : i < j /\ j < k /\ f[i].call = f[k].call => f[j].call = f[i].call
     /\ IsPrefix(row.report, f)
     /\ Planned /\ row.status \in {"COMPLETED", "FAILED"} => row.report = Listed(f)
     /\ row.status = "COMPLETED" => \E i \in DOMAIN f : plan.type[f[i].task] \in ToolTypes
=============================================================================
