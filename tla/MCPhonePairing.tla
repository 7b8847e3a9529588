--------------------------- MODULE MCPhonePairing ---------------------------
(***************************************************************************)
(* PhonePairing on a few generations.  Pairing ids are interchangeable.    *)
(* Two generations are enough for two overlapping setups, and for one      *)
(* replacement; a chain of replacements, where one retired generation      *)
(* still waits when the next retires, takes three, and there unlocking     *)
(* (which only reads the store, after a cleanup IsSetup makes as well) is  *)
(* cut to keep the run short.                                              *)
(***************************************************************************)
EXTENDS PhonePairingInvariant, TLC

Symmetry == Permutations(Generation)

UnlockedBeforeTheThird ==
    unlocking # None \/ secrets # None => \E g \in Generation : setup[g] = "unused"

=============================================================================
