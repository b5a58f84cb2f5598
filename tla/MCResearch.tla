----------------------------- MODULE MCResearch -----------------------------
(* The planners' graphs, and every graph of two retrievals and a report, in two
   orders, in which a task may depend on itself and one on an unknown task. *)
EXTENDS Research

AnyPlan ==
  {[tasks |-> listed, type |-> <<"RETRIEVE", "RETRIEVE", "PRODUCE">>, deps |-> <<d1, d2, d3>>] :
     listed \in {<<1, 2, 3>>, <<3, 2, 1>>},
     d1 \in SUBSET (1..4), d2 \in SUBSET (1..3), d3 \in SUBSET (1..3)}

MCPlans == AnyPlan
           \cup {AdaptivePlan(d) : d \in {"QUICK", "ANALYTIC", "DEEP"}}
           \cup {DefaultPlan(b) : b \in BOOLEAN}
=============================================================================
