--------------------------- MODULE MCPhoneSession ---------------------------
(***************************************************************************)
(* PhoneSession with two overlapping tasks and two requests.               *)
(***************************************************************************)
EXTENDS PhoneSession, TLC

Symmetry == Permutations(Request) \cup Permutations(Task)

=============================================================================
