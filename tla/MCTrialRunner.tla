---------------------------- MODULE MCTrialRunner ----------------------------
(* TrialRunner for TLC: sequential, or two jobs at a time. *)
EXTENDS TrialRunner
=============================================================================
