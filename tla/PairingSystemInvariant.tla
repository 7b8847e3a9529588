----------------------- MODULE PairingSystemInvariant -----------------------
(***************************************************************************)
(* The inductive invariant of PairingSystem, in named parts.  What it says *)
(* of the desktop's files is stated for files d, the generation a that is  *)
(* active on the phone and the generation x of a stray session, so that it *)
(* can be carried through the routines of paths.rs, during which the last  *)
(* two stand still.                                                        *)
(***************************************************************************)
EXTENDS PairingSystem, PhonePairingInvariant

-----------------------------------------------------------------------------
\* The files.

\* The promotion finds the copies it asks for.
Rollbacks(d) == /\ d.txn.hadVault => d.rollbackVault # None
                /\ d.txn.hadPairing => d.rollbackPairing # None

\* The files in place are those of generation a; but a stray session can have taken
\* the vault back, to x.
InPlace(d, a, x) == d.pairing = a /\ (d.vault = a \/ (x # None /\ d.vault = x))

\* The files of g wait to be promoted; the vault has been, the pairing file not yet;
\* both have been.
ToPromote(d, g)    == d.pendingVault = g /\ d.pendingPairing = g
HalfPromoted(d, g) == d.pendingVault = None /\ d.vault = g /\ d.pendingPairing = g
Promoted(d, g)     == /\ d.pendingVault = None /\ d.vault = g
                      /\ d.pendingPairing = None /\ d.pairing = g

FilesSound(d, a, x) ==
    LET g == d.txn.id IN
    /\ d \in Disk
    /\ IF HasTxn(d) THEN g # None ELSE g = None /\ InPlace(d, a, x)
    /\ d.txn.phase = "Prepared" => Rollbacks(d) /\ InPlace(d, a, x) /\ ToPromote(d, g)
    /\ d.txn.phase = "PhoneCommitted" =>
          /\ Rollbacks(d)
          /\ \/ InPlace(d, a, x) /\ ToPromote(d, g)
             \/ d.pairing = a /\ HalfPromoted(d, g)
             \/ Promoted(d, g)
    /\ d.txn.phase = "LocallyActivated" => Promoted(d, g)
    /\ d.txn.phase = "FullyActivated" => Promoted(d, g) /\ a = g

-----------------------------------------------------------------------------
\* The two sides.

\* Only generations the phone has offered have a name elsewhere.
NamesOffered ==
    /\ \A m \in wire : Offered(m.id)
    /\ offer # None => Offered(offer)
    /\ HasTxn(disk) => Offered(disk.txn.id)

\* The phone has come as far with the recorded generation as its phase says.
PhoneFollows ==
    LET g == disk.txn.id IN
    /\ disk.txn.phase = "Prepared" => Waiting(g)
    /\ disk.txn.phase = "PhoneCommitted" => Waiting(g) /\ store.committed = g
    /\ disk.txn.phase = "LocallyActivated" => \/ Waiting(g) /\ store.committed = g
                                              \/ store.active = g

\* Where the desktop is says what it has on record.
PlaceFits ==
    /\ pc \in {"locked", "opening", "open", "accept", "awaitReady"} => ~HasTxn(disk)
    /\ pc \in {"opening", "open"} => session # None
    /\ pc = "awaitReady" => offer # None /\ Waiting(offer) /\ ToPromote(disk, offer)
    /\ pc \in {"awaitCommitAck", "awaitActivateAck", "awaitClose"} => disk.txn.id = offer
    /\ pc = "awaitCommitAck" => disk.txn.phase = "Prepared"
    /\ pc \in {"awaitActivateAck", "awaitClose"} => disk.txn.phase = "LocallyActivated"
    /\ pc = "awaitClose" => store.active = offer
    /\ pc \in {"resume", "resuming"} => disk.txn.phase \in {"Prepared", "LocallyActivated"}

\* The generations of the session and of a stray one have been active on the phone:
\* they do not wait there, nor will they again.
HasBeenActive(g) == g # None => Offered(g) /\ ~Waiting(g)
SessionsPaired == HasBeenActive(session) /\ HasBeenActive(stray)

\* A session opens the vault in place unless it is a stray one; and a vault that has
\* been taken back is open to no other session than the one that took it.
SessionFits ==
    session # None =>
        /\ pc \in {"opening", "open", "accept", "failed"} \cup Awaiting
        /\ pc \in {"opening", "open", "accept"} => session \in {disk.vault, stray}
        /\ Relapsed(disk.vault) => session = disk.vault

\* A setup whose first message is under way is one the desktop has nothing of.
HelloIsFirst ==
    \A g \in Generation : setup[g] = "helloSent" =>
        Waiting(g) /\ disk.txn.id # g /\ Msg("Ready", g) \notin wire

\* The phone is told to activate a generation that it still keeps waiting only when
\* the desktop has moved to it, and has that on record.
ActivationAsked(g) == \/ Msg("Activate", g) \in wire \/ Msg("RecoverActivate", g) \in wire
                      \/ <<"activate", g>> \in authorized
ActivationsFollow ==
    \A g \in Generation : ActivationAsked(g) /\ Waiting(g) =>
        disk.txn.id = g /\ disk.txn.phase = "LocallyActivated"

\* An acknowledgement is still true when it is read.
AcksHold ==
    \A g \in Generation :
        /\ Msg("CommitAck", g) \in wire /\ Waiting(g) => store.committed = g
        /\ Msg("ActivateAck", g) \in wire => ~Waiting(g)
        /\ Msg("RecoverAck", g) \in wire =>
              /\ pc = "resuming" /\ disk.txn.id = g
              /\ Waiting(g) => store.committed = g
              /\ disk.txn.phase = "LocallyActivated" => store.active = g

\* The inductive invariant.
SystemInvariant ==
    /\ PhoneInvariant
    /\ DesktopTypeOK /\ wire \subseteq Message /\ calm \in BOOLEAN
    /\ FilesSound(disk, store.active, stray)
    /\ NamesOffered
    /\ PhoneFollows
    /\ PlaceFits
    /\ SessionsPaired
    /\ SessionFits
    /\ HelloIsFirst
    /\ ActivationsFollow
    /\ AcksHold

-----------------------------------------------------------------------------
\* What a step may do to either side.

\* The phone moves only to the generation on record, which it has committed and
\* to which the desktop's files have moved already.
PhoneMove ==
    store'.active # store.active =>
        /\ disk.txn.phase = "LocallyActivated" /\ disk.txn.id = store'.active
        /\ Promoted(disk, store'.active)
        /\ store.committed = store'.active

\* The desktop records a generation that the phone keeps waiting; moves its vault
\* to the generation on record, away from the one active on the phone; strikes off
\* the record of a generation that is active; or, with nothing on record, leaves a
\* session behind that does not open the vault, or saves the vault for that session.
DesktopMove ==
    \/ /\ stray' = stray
       /\ disk'.vault = disk.vault /\ disk'.txn.id = disk.txn.id
    \/ /\ stray' = stray
       /\ disk'.vault = disk.vault
       /\ disk.txn.id = None /\ disk'.txn.id \in Generation /\ Waiting(disk'.txn.id)
    \/ /\ stray' = stray
       /\ disk'.vault = disk.txn.id /\ InPlace(disk, store.active, stray)
       /\ disk.txn.id # None /\ disk'.txn.id = disk.txn.id
    \/ /\ stray' = stray
       /\ disk'.vault = disk.vault
       /\ disk.txn.id # None /\ store.active = disk.txn.id /\ disk'.txn.id = None
    \/ /\ disk.txn.id = None /\ disk'.txn.id = None
       /\ disk'.vault = disk.vault /\ disk.vault = store.active
       /\ stray' \in Generation \ {disk.vault}
    \/ /\ disk.txn.id = None /\ disk'.txn.id = None
       /\ stray # None /\ disk'.vault = stray /\ stray' = stray

OneSideMoves == \/ disk' = disk /\ stray' = stray /\ PhoneMove
                \/ store' = store /\ DesktopMove

=============================================================================
