---------------------------- MODULE MCComparison ----------------------------
(* Comparison for TLC: two papers, two fields, one evidence id for each paper. *)
EXTENDS Comparison

MCLedger == [p \in Papers |-> IF p = "p1" THEN {"e1"} ELSE {"e2"}]

Draft(p, cells) == [paper |-> p, cells |-> cells]
Task(p, status, value, evidence) == Cell(p, "task", status, value, evidence)
Metric(p, status, value, evidence) == Cell(p, "metric", status, value, evidence)

(* What the extractor may answer: both fields of p1, well cited; the metric of p1,
   FOUND without a value; the metric of p2 twice, the last well cited; both fields of p2, with
   evidence of p1. *)
MCDrafts == {
  Draft("p1", <<Task("p1", "FOUND", TRUE, {"e1"}), Metric("p1", "NOT_FOUND", FALSE, {})>>),
  Draft("p1", <<Metric("p1", "FOUND", FALSE, {"e1"})>>),
  Draft("p2", <<Metric("p2", "FOUND", FALSE, {"e2"}), Metric("p2", "FOUND", TRUE, {"e2"})>>),
  Draft("p2", <<Task("p2", "FOUND", TRUE, {"e1"}), Metric("p2", "NOT_FOUND", FALSE, {})>>) }

(* No artifact, or one that FOUND the task. *)
MCArtifacts == { {}, {[field |-> "task", evidence |-> {"e3"}]} }
=============================================================================
