---------------------------- MODULE MCWorkbench ----------------------------
(* Workbench for TLC: what the user does and what fails are bounded together. *)
EXTENDS Workbench

Disturbances == acts + failures <= MaxActs
=============================================================================
