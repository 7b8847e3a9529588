---------------------------- MODULE MCAdmission ----------------------------
(***************************************************************************)
(* Admission with two connections competing for one permit of each sort.    *)
(***************************************************************************)
EXTENDS Admission

OneHandlerEach == [k \in Kind |-> 1]

=============================================================================
