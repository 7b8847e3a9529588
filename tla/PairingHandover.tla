-------------------------- MODULE PairingHandover --------------------------
(***************************************************************************)
(* What pairing promises, without files, messages or storage: a vault and  *)
(* a phone hand over from one generation to the next in three steps that   *)
(* never change places.  The desktop first records what it intends; then   *)
(* the vault moves to the new generation; only then does the phone, which  *)
(* until that moment keeps the old one active; and the intention is struck *)
(* off when both have moved.  Nothing else moves either side, however      *)
(* often a step is cut short and repeated, with one exception: a handover  *)
(* that has moved both sides may leave a stray session behind, and while   *)
(* nothing is intended the vault may relapse to the generation of that     *)
(* session; from there only the next handover leads back.  Module          *)
(* PairingSystem is shown to implement this one.                           *)
(***************************************************************************)
EXTENDS PairingIds

VARIABLES
    desktopGen,   \* generation the vault is encrypted for
    phoneGen,     \* generation whose share the phone releases
    intent,       \* generation being handed over to
    stray         \* generation of the session last left behind

Init == desktopGen = None /\ phoneGen = None /\ intent = None /\ stray = None

\* The vault is at the generation of the session left behind.
HasRelapsed == stray # None /\ desktopGen = stray

Decide(g) ==
    /\ intent = None /\ g \notin {desktopGen, stray}
    /\ intent' = g
    /\ UNCHANGED <<desktopGen, phoneGen, stray>>

DesktopMoves ==
    /\ intent # None
    /\ desktopGen = phoneGen \/ HasRelapsed
    /\ desktopGen' = intent
    /\ UNCHANGED <<phoneGen, intent, stray>>

PhoneMoves ==
    /\ intent # None /\ desktopGen = intent
    /\ phoneGen' = intent
    /\ UNCHANGED <<desktopGen, intent, stray>>

Settle ==
    /\ intent # None /\ phoneGen = intent
    /\ intent' = None
    /\ UNCHANGED <<desktopGen, phoneGen, stray>>

LeaveBehind(g) ==
    /\ intent = None /\ desktopGen = phoneGen /\ g # desktopGen
    /\ stray' = g
    /\ UNCHANGED <<desktopGen, phoneGen, intent>>

Relapse ==
    /\ intent = None /\ stray # None
    /\ desktopGen' = stray
    /\ UNCHANGED <<phoneGen, intent, stray>>

Next ==
    \/ \E g \in Generation : Decide(g) \/ LeaveBehind(g)
    \/ DesktopMoves \/ PhoneMoves \/ Settle \/ Relapse

Spec == Init /\ [][Next]_<<desktopGen, phoneGen, intent, stray>>

=============================================================================
