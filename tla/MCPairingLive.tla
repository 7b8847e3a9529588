--------------------------- MODULE MCPairingLive ---------------------------
(***************************************************************************)
(* Liveness of pairing, from two places to start: nothing paired yet and a  *)
(* single generation to pair with; or old paired already, at the phone that *)
(* may set up a second generation and an open desktop session that may run  *)
(* `ferusa pair'.                                                           *)
(***************************************************************************)
EXTENDS PairingSystem

CONSTANT old

PairedInit ==
    /\ store = [EmptyStore EXCEPT !.active = old, !.bundles = {old}, !.keys = {old}]
    /\ setup = [g \in Generation |-> IF g = old THEN "over" ELSE "unused"]
    /\ authorized = {} /\ unlocking = None /\ secrets = None
    /\ disk = [EmptyDisk EXCEPT !.vault = old, !.pairing = old]
    /\ pc = "open" /\ offer = None /\ session = old /\ stray = None
    /\ wire = {} /\ calm = FALSE

\* A first pairing with the other generation; an earlier setup, of old, got nowhere.
FirstInit ==
    /\ store = EmptyStore
    /\ setup = [g \in Generation |-> IF g = old THEN "over" ELSE "unused"]
    /\ authorized = {} /\ unlocking = None /\ secrets = None
    /\ DesktopInit
    /\ wire = {} /\ calm = FALSE

LiveSpec == (PairedInit \/ FirstInit) /\ [][Next \/ CalmDown]_vars /\ Fairness

=============================================================================
