---------------------------- MODULE MCImportJobs ----------------------------
(* ImportJobs for TLC: jobs are interchangeable in the safety runs. *)
EXTENDS ImportJobs, TLC

JobSymmetry == Permutations(Jobs)

(* Bound: one deletion or one restart, not both. *)
OneDisturbance == deletes + crashes <= 1
=============================================================================
