--------------------------- MODULE MCPinCooldown ---------------------------
(***************************************************************************)
(* PinCooldown with two overlapping verifications, small cooldowns and a    *)
(* multiplier and a level that saturate within reach.                       *)
(***************************************************************************)
EXTENDS PinCooldown, TLC

Symmetry == Permutations(Task)

=============================================================================
