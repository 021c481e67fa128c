---------------------------- MODULE MCSubmission ----------------------------
(* Submission for TLC: the configurations give every constant its value.   *)
EXTENDS Submission
=============================================================================
