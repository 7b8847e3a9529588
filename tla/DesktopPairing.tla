--------------------------- MODULE DesktopPairing ---------------------------
(***************************************************************************)
(* The desktop's side of pairing: `ferusa init` and `ferusa pair`          *)
(* (cli/src/commands/init.rs, pair.rs), the reconciliation every command   *)
(* runs first, and the unlocked session that uses the result               *)
(* (cli/src/session.rs).  One process at a time holds vault.lock, so the   *)
(* desktop is one sequential program; it may stop anywhere.  The phone's   *)
(* answers arrive as parameters, from module PairingSystem.                *)
(***************************************************************************)
EXTENDS DesktopFiles

VARIABLES
    disk,       \* the files in the data directory: survive crashes
    pc,         \* where the process holding vault.lock is; "off": none does
    offer,      \* generation of the handshake in progress
    session,    \* generation whose share is in the unlocked session's key
    stray       \* history: generation of the session that a failed `pair' last left
                \* open although the vault had moved on to another one

desktopVars == <<disk, pc, offer, session, stray>>

Awaiting == {"awaitReady", "awaitCommitAck", "awaitActivateAck", "awaitClose"}
Place == {"off", "recover", "resume", "resuming", "locked", "opening", "open",
          "accept", "failed"} \cup Awaiting

DesktopTypeOK ==
    /\ disk \in Disk
    /\ pc \in Place
    /\ offer \in MaybeGeneration
    /\ session \in MaybeGeneration
    /\ stray \in MaybeGeneration

DesktopInit ==
    /\ disk = EmptyDisk
    /\ pc = "off"
    /\ offer = None
    /\ session = None
    /\ stray = None

\* The files change as outcomes say; the process goes on at next, or otherwise.
FileCall(outcomes, next, otherwise) ==
    \E o \in outcomes : disk' = o.st /\ pc' = IF o.ok THEN next ELSE otherwise

-----------------------------------------------------------------------------
\* ensure_unlocked_for and cmd_init: take vault.lock, reconcile, go on.

DesktopStart ==
    /\ pc = "off"
    /\ pc' = "recover"
    /\ UNCHANGED <<disk, offer, session, stray>>

DesktopRecover ==
    /\ pc = "recover"
    /\ \E o \in RecoverTransaction(disk) :
          /\ disk' = o.st
          /\ pc' = IF ~o.ok THEN "off" ELSE IF HasTxn(o.st) THEN "resume" ELSE "locked"
    /\ UNCHANGED <<offer, session, stray>>

\* The transition the phone still owes to the recorded transaction.
OwedRequest == <<IF disk.txn.phase = "Prepared" THEN "commit" ELSE "activate", disk.txn.id>>

\* The phone's address is read from the pairing files.
DesktopResume ==
    /\ pc = "resume"
    /\ pc' = IF disk.pendingPairing # None \/ disk.pairing # None THEN "resuming" ELSE "off"
    /\ UNCHANGED <<disk, offer, session, stray>>

DesktopResumed ==
    /\ pc = "resuming"
    /\ FileCall(AdvanceTransaction(disk,
                   IF disk.txn.phase = "Prepared" THEN "PhoneCommitted" ELSE "FullyActivated",
                   disk.txn.id),
                "recover", "off")
    /\ UNCHANGED <<offer, session, stray>>

\* The phone releases the share of the pairing on record; the vault opens if
\* that is the share it was encrypted with.
DesktopUnlock(share) ==
    /\ pc = "locked" /\ Ready(disk) /\ disk.vault # None
    /\ share = disk.pairing
    /\ IF share = disk.vault
       THEN session' = share /\ pc' = "opening"
       ELSE session' = None /\ pc' = "off"
    /\ UNCHANGED <<disk, offer, stray>>

-----------------------------------------------------------------------------
\* cmd_init and cmd_pair.

DesktopInitVault ==
    /\ pc = "locked" /\ disk.vault = None
    /\ pc' = "accept"
    /\ UNCHANGED <<disk, offer, session, stray>>

\* The command that unlocked the vault needs no second approval.
DesktopPair(approved) ==
    /\ pc = "opening" \/ (pc = "open" /\ approved)
    /\ Ready(disk)
    /\ pc' = "accept"
    /\ UNCHANGED <<disk, offer, session, stray>>

\* Hello arrived and the user confirmed the code: re-encrypt, then Prepared.
DesktopHello(g) ==
    /\ pc = "accept"
    /\ offer' = g
    /\ FileCall(WritePending(disk, g), "awaitReady", "failed")
    /\ UNCHANGED <<session, stray>>

DesktopReady ==
    /\ pc = "awaitReady"
    /\ FileCall(WriteTransactionPrepared(disk, offer), "awaitCommitAck", "failed")
    /\ UNCHANGED <<offer, session, stray>>

\* Fault: the phone is told to activate before the files are promoted.
FaultActivateFirst ==
    /\ pc = "awaitCommitAck"
    /\ FileCall(AdvanceTransaction(disk, "PhoneCommitted", offer),
                "awaitActivateAck", "failed")
    /\ UNCHANGED <<offer, session, stray>>

DesktopCommitAck ==
    /\ pc = "awaitCommitAck"
    /\ FileCall(Then(AdvanceTransaction(disk, "PhoneCommitted", offer), RecoverTransaction),
                "awaitActivateAck", "failed")
    /\ UNCHANGED <<offer, session, stray>>

DesktopActivateAck ==
    /\ pc = "awaitActivateAck"
    /\ pc' = "awaitClose"
    /\ UNCHANGED <<disk, offer, session, stray>>

\* The session of `pair` goes on with the new keys; `init` is done.
DesktopClosed ==
    /\ pc = "awaitClose"
    /\ \E o \in Then(AdvanceTransaction(disk, "FullyActivated", offer), RecoverTransaction) :
          /\ disk' = o.st
          /\ IF o.ok
             THEN /\ pc' = IF session = None THEN "off" ELSE "open"
                  /\ session' = IF session = None THEN None ELSE offer
                  /\ offer' = None
             ELSE pc' = "failed" /\ UNCHANGED <<offer, session>>
    /\ UNCHANGED stray

\* A timeout, a lost connection, a wrong message, a declined code.
DesktopAbandon ==
    /\ \/ pc \in Awaiting /\ pc' = "failed"
       \/ pc = "accept" /\ pc' = IF session = None THEN "off" ELSE "open"
       \/ pc = "resuming" /\ pc' = "off"
    /\ UNCHANGED <<disk, offer, session, stray>>

\* Fault: a recorded transaction is cleared like any other leftover.
FaultClearRecorded ==
    /\ pc = "failed"
    /\ offer' = None
    /\ \E o \in ClearPendingPairing(disk) : disk' = o.st
    /\ pc' = IF session = None THEN "off" ELSE "open"
    /\ UNCHANGED <<session, stray>>

\* The error branch: a recorded transaction is kept and the session dropped,
\* otherwise what was written so far is removed and the session stays.
DesktopFailed ==
    /\ pc = "failed"
    /\ offer' = None
    /\ IF HasTxn(disk)
       THEN pc' = "off" /\ session' = None /\ UNCHANGED disk
       ELSE /\ \E o \in ClearPendingPairing(disk) : disk' = o.st
            /\ pc' = IF session = None THEN "off" ELSE "open"
            /\ UNCHANGED session
    /\ stray' = IF HasTxn(disk) \/ session \in {None, disk.vault} THEN stray ELSE session

-----------------------------------------------------------------------------
\* The rest of the session.

\* add, edit, remove: the whole vault is written under the session's key, whatever
\* the vault on disk was encrypted for.  A stray session takes the vault back.
DesktopSave(approved) ==
    /\ pc = "opening" \/ (pc = "open" /\ approved /\ Ready(disk))
    /\ \E o \in WriteFile(disk, "vault", session) : disk' = o.st
    /\ pc' = "open"
    /\ UNCHANGED <<offer, session, stray>>

\* The command or the session ends, or the process dies.
DesktopStop ==
    /\ pc # "off"
    /\ pc' = "off"
    /\ offer' = None
    /\ session' = None
    /\ UNCHANGED <<disk, stray>>

=============================================================================
