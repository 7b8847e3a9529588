--------------------------- MODULE GenerationStore ---------------------------
(***************************************************************************)
(* The phone's pairing generations: app/src-tauri/src/storage.rs.          *)
(*                                                                         *)
(* Every pairing is a generation, named by a fresh uuid.  Its secrets (the *)
(* phone share among them) are one bundle entry; its approval key is an    *)
(* Android Keystore key under an alias of its own.  Five pointer entries   *)
(* say which generation plays which role.  Each function of storage.rs     *)
(* runs under STORAGE_LOCK, so it is one operator here, which returns the  *)
(* outcomes of its calls (module Fallible) in the order the code makes     *)
(* them.  The contents of a bundle are abstracted to its presence, and a   *)
(* failed read to the failure of the call before which it happens.  The    *)
(* PIN attempt entries, which activation also deletes, are left out: no    *)
(* other function here reads them.                                         *)
(***************************************************************************)
EXTENDS Fallible, PairingIds

Pointer == {"active", "staging", "pending", "committed", "retiring"}

Store == [active : MaybeGeneration, staging : MaybeGeneration,
          pending : MaybeGeneration, committed : MaybeGeneration,
          retiring : MaybeGeneration,
          bundles : SUBSET Generation, keys : SUBSET Generation]

EmptyStore == [active |-> None, staging |-> None, pending |-> None,
               committed |-> None, retiring |-> None,
               bundles |-> {}, keys |-> {}]

-----------------------------------------------------------------------------
\* Single keystore calls.

SavePointer(s, p, g) == Write(s, [s EXCEPT ![p] = g])
ClearPointer(s, p)   == Write(s, [s EXCEPT ![p] = None])

DeleteKey(s, g)    == Write(s, [s EXCEPT !.keys = @ \ {g}])
DeleteBundle(s, g) == Write(s, [s EXCEPT !.bundles = @ \ {g}])
SaveBundle(s, g)   == Write(s, [s EXCEPT !.bundles = @ \cup {g}])

GenerateApprovalKey(s, g) == Write(s, [s EXCEPT !.keys = @ \cup {g}])

\* load_metadata_validated_generation: the bundle can be read.
BundleValid(s, g) == g \in s.bundles
\* load_key_bound_generation: and its key still signs.
KeyBound(s, g) == g \in s.bundles \cap s.keys

-----------------------------------------------------------------------------
\* Cleaning up: the key goes before the bundle that names it, and both before
\* the pointer from which a later cleanup would find them.

RemoveGeneration(s, g) ==
    Then(DeleteKey(s, g), LAMBDA t : DeleteBundle(t, g))

\* Fault: the retired generation is destroyed even while it is still active.
FaultCleanupActive(s) ==
    IF s.retiring = None THEN Ok(s)
    ELSE Then(RemoveGeneration(s, s.retiring),
              LAMBDA t : ClearPointer(t, "retiring"))

CleanupRetiring(s) ==
    IF s.retiring = None THEN Ok(s)
    ELSE IF s.active = s.retiring THEN Fail(s)
    ELSE Then(RemoveGeneration(s, s.retiring),
              LAMBDA t : ClearPointer(t, "retiring"))

ClearIfNames(s, p, g) == IF s[p] = g THEN ClearPointer(s, p) ELSE Ok(s)

CleanupActivationMetadata(s, g) ==
    Then(ClearIfNames(s, "staging", g), LAMBDA t :
    Then(ClearIfNames(t, "pending", g), LAMBDA u :
    Then(ClearIfNames(u, "committed", g), LAMBDA v :
         Attempt(CleanupRetiring(v)))))

FinalizeActiveActivation(s) ==
    IF s.active # None /\ s.active = s.committed
    THEN CleanupActivationMetadata(s, s.active)
    ELSE Ok(s)

\* A candidate for removal, unless it is the active generation.
DropCandidate(s, g) ==
    IF g \in {None, s.active} THEN Ok(s) ELSE RemoveGeneration(s, g)

ClearUncommittedPending(s) ==
    Then(FinalizeActiveActivation(s), LAMBDA t :
    IF t.committed # None THEN Fail(t)
    ELSE Then(DropCandidate(t, t.staging), LAMBDA u :
         Then(IF u.pending = u.staging THEN Ok(u) ELSE DropCandidate(u, u.pending),
              LAMBDA v :
         Then(ClearPointer(v, "staging"), LAMBDA w :
              ClearPointer(w, "pending")))))

-----------------------------------------------------------------------------
\* The operations the setup command and the network handlers call.

IsSetup(s) ==
    Then(FinalizeActiveActivation(s), LAMBDA t :
    Then(Attempt(CleanupRetiring(t)), LAMBDA u :
         IF u.active = None \/ BundleValid(u, u.active) THEN Ok(u) ELSE Fail(u)))

\* Fault: a new setup does not stop at a pending one.
FaultBeginOverPending(s, g) ==
    Then(ClearUncommittedPending(s), LAMBDA t : SavePointer(t, "staging", g))

BeginPendingPairing(s, g) ==
    Then(FinalizeActiveActivation(s), LAMBDA t :
    IF t.pending # None THEN Fail(t)
    ELSE Then(ClearUncommittedPending(t), LAMBDA u :
              SavePointer(u, "staging", g)))

StorePendingGeneration(s, g) ==
    IF s.staging # g THEN Fail(s)
    ELSE Then(SaveBundle(s, g), LAMBDA t : SavePointer(t, "pending", g))

AbortUnstartedPairing(s, g) ==
    IF \E p \in {"staging", "pending"} : s[p] \notin {None, g} THEN Fail(s)
    ELSE ClearUncommittedPending(s)

CommitPendingGeneration(s, g) ==
    IF ~BundleValid(s, g) THEN Fail(s)
    ELSE IF s.active = g THEN FinalizeActiveActivation(s)
    ELSE IF s.committed = g THEN Ok(s)
    ELSE IF s.pending # g THEN Fail(s)
    ELSE SavePointer(s, "committed", g)

\* Fault: an older retired generation is overwritten, not destroyed.
FaultRetireOver(s) ==
    IF s.active = None THEN Ok(s) ELSE SavePointer(s, "retiring", s.active)

\* The old generation is named as retiring before the pointer moves, so that
\* a crash after the move cannot forget it; an older one still waiting there
\* is destroyed first.
RetireActive(s) ==
    IF s.active = None THEN Ok(s)
    ELSE Then(IF s.retiring \in {None, s.active} THEN Ok(s) ELSE CleanupRetiring(s),
              LAMBDA t : SavePointer(t, "retiring", t.active))

\* Fault: activation commits a pending generation itself.
FaultActivateUncommitted(s, g) ==
    IF ~BundleValid(s, g) THEN Fail(s)
    ELSE IF s.active = g THEN FinalizeActiveActivation(s)
    ELSE IF s.pending # g THEN Fail(s)
    ELSE Then(SavePointer(s, "committed", g), LAMBDA r :
         Then(RetireActive(r), LAMBDA t :
         Then(SavePointer(t, "active", g), LAMBDA u :
              CleanupActivationMetadata(u, g))))

ActivateGeneration(s, g) ==
    IF ~BundleValid(s, g) THEN Fail(s)
    ELSE IF s.active = g THEN FinalizeActiveActivation(s)
    ELSE IF s.pending # g \/ s.committed # g THEN Fail(s)
    ELSE Then(RetireActive(s), LAMBDA t :
         Then(SavePointer(t, "active", g), LAMBDA u :
              CleanupActivationMetadata(u, g)))

\* Fault: recovery stops being answered once the generation is active.
FaultReferenced(s, g) == g \in {s.pending, s.committed}

\* pairing_generation_cli_node_id: may a recovering desktop speak about g?
Referenced(s, g) == g \in {s.active, s.pending, s.committed}

AuthorizeRecovery(s, g) ==
    Then(FinalizeActiveActivation(s), LAMBDA t :
         IF Referenced(t, g) /\ BundleValid(t, g) THEN Ok(t) ELSE Fail(t))

\* The active generation, its key probed with a signature, which a key refuses once
\* its authentication has expired.
LoadSecrets(s) ==
    Then(Attempt(CleanupRetiring(s)), LAMBDA t :
         Fail(t) \cup (IF t.active # None /\ KeyBound(t, t.active) THEN Ok(t) ELSE {}))

=============================================================================
