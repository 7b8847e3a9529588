---------------------------- MODULE DesktopFiles ----------------------------
(***************************************************************************)
(* The desktop's pairing files: cli/src/storage/paths.rs.                  *)
(*                                                                         *)
(* A vault file is identified by the generation whose phone share went     *)
(* into its key, a pairing file by its pairing id; None is "no such file". *)
(* The rollback copies are never read back, only required to exist.  Each  *)
(* operator returns the outcomes of the file operations of one function    *)
(* (module Fallible): rename, unlink and temp-write-rename are atomic, and *)
(* an error may be reported after the effect, by the directory's fsync.    *)
(***************************************************************************)
EXTENDS Fallible, PairingIds

Phase == {"Prepared", "PhoneCommitted", "LocallyActivated", "FullyActivated"}

\* pairing_txn.json; phase "none": there is no such file.
Txn == [phase : Phase \cup {"none"}, id : MaybeGeneration,
        hadVault : BOOLEAN, hadPairing : BOOLEAN]

NoTxn == [phase |-> "none", id |-> None, hadVault |-> FALSE, hadPairing |-> FALSE]

Disk == [vault : MaybeGeneration, pairing : MaybeGeneration,
         pendingVault : MaybeGeneration, pendingPairing : MaybeGeneration,
         rollbackVault : MaybeGeneration, rollbackPairing : MaybeGeneration,
         txn : Txn]

EmptyDisk == [vault |-> None, pairing |-> None,
              pendingVault |-> None, pendingPairing |-> None,
              rollbackVault |-> None, rollbackPairing |-> None, txn |-> NoTxn]

HasTxn(d) == d.txn.phase # "none"

\* PairingStatus::Ready; every other status makes the CLI refuse 2FA.
Ready(d) == d.pendingPairing = None /\ ~HasTxn(d) /\ d.pairing # None

-----------------------------------------------------------------------------
\* Single file operations.

WriteFile(d, f, g) == Write(d, [d EXCEPT ![f] = g])

Remove(d, f) == IF d[f] = None THEN Ok(d) ELSE WriteFile(d, f, None)

WriteTxn(d, txn) == Write(d, [d EXCEPT !.txn = txn])

\* Fault: a finished transaction is marked with a phase nobody reads.
FaultMarkTxn(d) == IF HasTxn(d) THEN WriteTxn(d, [NoTxn EXCEPT !.phase = "Done"]) ELSE Ok(d)

RemoveTxn(d) == IF HasTxn(d) THEN WriteTxn(d, NoTxn) ELSE Ok(d)

\* `if live.exists() { copy_private_file(live, rollback)? }`
Capture(d, live, rollback) ==
    IF d[live] = None THEN Ok(d) ELSE WriteFile(d, rollback, d[live])

\* Fault: the rename is not repeatable.
FaultPromoteOnce(d, pending, live) ==
    IF d[pending] # None THEN Write(d, [d EXCEPT ![live] = d[pending], ![pending] = None])
    ELSE Fail(d)

\* rename(pending, live), or nothing if it has already happened.
Promote(d, pending, live) ==
    IF d[pending] # None THEN Write(d, [d EXCEPT ![live] = d[pending], ![pending] = None])
    ELSE IF d[live] # None THEN Ok(d)
    ELSE Fail(d)

-----------------------------------------------------------------------------

\* Fault: the vault is re-encrypted in place.
FaultWriteInPlace(d, g) ==
    Then(WriteFile(d, "vault", g), LAMBDA t : WriteFile(t, "pendingPairing", g))

WritePending(d, g) ==
    Then(WriteFile(d, "pendingVault", g), LAMBDA t : WriteFile(t, "pendingPairing", g))

ClearPendingPairing(d) ==
    Then(Remove(d, "pendingPairing"), LAMBDA t :
    Then(Remove(t, "pendingVault"), LAMBDA u :
    Then(RemoveTxn(u), LAMBDA v :
    Then(Remove(v, "rollbackPairing"), LAMBDA w :
         Remove(w, "rollbackVault")))))

WriteTransactionPrepared(d, g) ==
    IF HasTxn(d) THEN Fail(d)
    ELSE Then(Remove(d, "rollbackPairing"), LAMBDA t :
         Then(Remove(t, "rollbackVault"), LAMBDA u :
         Then(Capture(u, "vault", "rollbackVault"), LAMBDA v :
         Then(Capture(v, "pairing", "rollbackPairing"), LAMBDA w :
              WriteTxn(w, [phase |-> "Prepared", id |-> g,
                           hadVault |-> d.vault # None,
                           hadPairing |-> d.pairing # None])))))

AdvanceTransaction(d, phase, g) ==
    IF d.txn.id # g THEN Fail(d) ELSE WriteTxn(d, [d.txn EXCEPT !.phase = phase])

PromotePendingPairing(d) ==
    IF \/ d.txn.phase # "PhoneCommitted"
       \/ d.txn.hadVault /\ d.rollbackVault = None
       \/ d.txn.hadPairing /\ d.rollbackPairing = None
    THEN Fail(d)
    ELSE Then(Promote(d, "pendingVault", "vault"), LAMBDA t :
              Promote(t, "pendingPairing", "pairing"))

HasLeftovers(d) ==
    \E f \in {"pendingPairing", "pendingVault", "rollbackPairing", "rollbackVault"} :
        d[f] # None

\* Fault: a locally activated transaction counts as finished.
FaultRecoverEarly(d) ==
    CASE ~HasTxn(d) -> IF HasLeftovers(d) THEN ClearPendingPairing(d) ELSE Ok(d)
      [] d.txn.phase = "PhoneCommitted" ->
            Then(PromotePendingPairing(d), LAMBDA t :
                 AdvanceTransaction(t, "LocallyActivated", d.txn.id))
      [] d.txn.phase \in {"LocallyActivated", "FullyActivated"} -> ClearPendingPairing(d)
      [] OTHER -> Ok(d)

RecoverTransaction(d) ==
    CASE ~HasTxn(d) -> IF HasLeftovers(d) THEN ClearPendingPairing(d) ELSE Ok(d)
      [] d.txn.phase = "PhoneCommitted" ->
            Then(PromotePendingPairing(d), LAMBDA t :
                 AdvanceTransaction(t, "LocallyActivated", d.txn.id))
      [] d.txn.phase = "FullyActivated" -> ClearPendingPairing(d)
      [] OTHER -> Ok(d)

=============================================================================
