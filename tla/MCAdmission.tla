---------------------------- MODULE MCAdmission ----------------------------
(* Instance of Admission for TLC. *)
EXTENDS Admission
=============================================================================
