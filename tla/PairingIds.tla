----------------------------- MODULE PairingIds -----------------------------
(***************************************************************************)
(* A pairing between one desktop vault and one phone is a generation. Both *)
(* sides name it by the uuid the phone drew for it.                        *)
(***************************************************************************)
CONSTANTS
    Generation,     \* pairing ids, each drawn once
    None            \* no generation: an absent file or keystore entry

ASSUME NoneIsNoGeneration == None \notin Generation

MaybeGeneration == Generation \cup {None}

=============================================================================
