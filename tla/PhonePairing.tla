---------------------------- MODULE PhonePairing ----------------------------
(***************************************************************************)
(* The phone's side of pairing: the setup command (setup_complete in       *)
(* app/src-tauri/src/commands.rs, with pair_with_cli in peer.rs), the      *)
(* handlers a recovering desktop reaches (serve_connection), and the part  *)
(* of AppState that holds the unlocked secrets.  The desktop is open here: *)
(* its messages may arrive whenever they could be sent.  Module            *)
(* PairingSystem puts the real desktop on the other end.                   *)
(*                                                                         *)
(* Setup commands are asynchronous and nothing excludes a second one, so   *)
(* every generation has a setup task of its own.  The tasks interleave     *)
(* between their storage calls, and each of these is atomic under          *)
(* STORAGE_LOCK (module GenerationStore).                                  *)
(***************************************************************************)
EXTENDS GenerationStore

VARIABLES
    store,       \* the keystore: survives crashes
    setup,       \* setup[g]: how far the setup task of g has come
    authorized,  \* recovery requests that passed authorization, not yet served
    unlocking,   \* generation a biometric unlock has loaded but not installed
    secrets      \* generation whose share AppState holds, if unlocked

phoneVars == <<store, setup, authorized, unlocking, secrets>>

\* Stages before the phone connects to the desktop, and from there on.
Local     == {"checked", "begun", "keyed", "stored", "signed", "aborting"}
Handshake == {"helloSent", "readySent", "committed", "activated", "closed"}
Stage     == Local \cup Handshake \cup {"unused", "aborted", "over"}

\* The desktop may know g: its PairingHello may have been sent.
Offered(g) == setup[g] \in Handshake \cup {"over"}

Requests == {"commit", "activate"} \X Generation

PhoneTypeOK ==
    /\ store \in Store
    /\ setup \in [Generation -> Stage]
    /\ authorized \subseteq Requests
    /\ unlocking \in MaybeGeneration
    /\ secrets \in MaybeGeneration

PhoneInit ==
    /\ store = EmptyStore
    /\ setup = [g \in Generation |-> "unused"]
    /\ authorized = {}
    /\ unlocking = None
    /\ secrets = None

-----------------------------------------------------------------------------
\* setup_complete, one action per storage call.

\* A storage call of task g: on to stage next, or to stage otherwise.
SetupCall(g, from, outcomes, next, otherwise) ==
    /\ setup[g] = from
    /\ \E o \in outcomes :
          /\ store' = o.st
          /\ setup' = [setup EXCEPT ![g] = IF o.ok THEN next ELSE otherwise]
    /\ UNCHANGED <<authorized, unlocking, secrets>>

SetupCheck(g) == SetupCall(g, "unused", IsSetup(store), "checked", "aborted")
SetupBegin(g) == SetupCall(g, "checked", BeginPendingPairing(store, g), "begun", "aborted")
SetupKey(g)   == SetupCall(g, "begun", GenerateApprovalKey(store, g), "keyed", "aborting")
SetupStore(g) == SetupCall(g, "keyed", StorePendingGeneration(store, g), "stored", "aborting")

\* The biometric prompt and the signature over PairingReady: the prompt can be
\* refused, and a key that is gone cannot sign.
SetupSign(g) ==
    SetupCall(g, "stored", IF g \in store.keys THEN Ok(store) \cup Fail(store) ELSE Fail(store),
              "signed", "aborting")

SetupAbort(g) == SetupCall(g, "aborting", AbortUnstartedPairing(store, g), "aborted", "aborted")

\* pair_with_cli: steps without storage move the task only.
Step(g, from, to) ==
    /\ setup[g] = from
    /\ setup' = [setup EXCEPT ![g] = to]
    /\ UNCHANGED <<store, authorized, unlocking, secrets>>

SendHello(g)       == Step(g, "signed", "helloSent")
ReceivePrepared(g) == Step(g, "helloSent", "readySent")
ReceiveClose(g)    == Step(g, "activated", "closed")

ReceiveCommit(g) ==
    SetupCall(g, "readySent", CommitPendingGeneration(store, g), "committed", "over")
ReceiveActivate(g) ==
    SetupCall(g, "committed", ActivateGeneration(store, g), "activated", "over")

\* Fault: a failed handshake undoes its setup, all of it.
FaultHandshakeFails(g) ==
    \E from \in {"signed", "helloSent", "readySent", "committed", "activated"} :
        SetupCall(g, from, {o \in AbortUnstartedPairing(store, g) : o.ok}, "over", "over")

\* Any step of the handshake may time out or lose its connection; so may the
\* connection attempt itself.  What is stored stays.
HandshakeFails(g) ==
    \E from \in {"signed", "helloSent", "readySent", "committed", "activated"} :
        Step(g, from, "over")

\* After pair_with_cli: install the activated secrets, then lock at once.  If
\* they cannot be loaded the command fails and leaves AppState as it was.
SetupDone(g) ==
    /\ setup[g] = "closed"
    /\ setup' = [setup EXCEPT ![g] = "over"]
    /\ \E o \in LoadSecrets(store) :
          /\ store' = o.st
          /\ unlocking' = IF o.ok THEN None ELSE unlocking
          /\ secrets' = IF o.ok THEN None ELSE secrets
    /\ UNCHANGED authorized

-----------------------------------------------------------------------------
\* Recovery: PairingCommit and PairingActivate on a connection of the desktop's.

\* Authorization and service are two storage calls, with a gap between them.
AuthorizeRequest(kind, g) ==
    /\ \E o \in AuthorizeRecovery(store, g) :
          /\ store' = o.st
          /\ authorized' = authorized \cup (IF o.ok THEN {<<kind, g>>} ELSE {})
    /\ UNCHANGED <<setup, unlocking, secrets>>

ServeCommit(g, acked) ==
    /\ <<"commit", g>> \in authorized
    /\ authorized' = authorized \ {<<"commit", g>>}
    /\ \E o \in CommitPendingGeneration(store, g) : store' = o.st /\ acked = o.ok
    /\ UNCHANGED <<setup, unlocking, secrets>>

\* A served activation locks the app before it acknowledges.
ServeActivate(g, acked) ==
    /\ <<"activate", g>> \in authorized
    /\ authorized' = authorized \ {<<"activate", g>>}
    /\ \E o \in ActivateGeneration(store, g) : store' = o.st /\ acked = o.ok
    /\ unlocking' = IF acked THEN None ELSE unlocking
    /\ secrets' = IF acked THEN None ELSE secrets
    /\ UNCHANGED setup

-----------------------------------------------------------------------------
\* Looking, unlocking, locking, dying.

\* check_setup: the app asks at every start whether it is set up.
CheckSetup ==
    /\ \E o \in IsSetup(store) : store' = o.st
    /\ UNCHANGED <<setup, authorized, unlocking, secrets>>

\* biometric_unlock reads the session generation, loads, and installs only if
\* no lock happened since: a lock therefore forgets what is being loaded.
UnlockLoad ==
    /\ \E o \in LoadSecrets(store) :
          /\ store' = o.st
          /\ unlocking' = IF o.ok THEN o.st.active ELSE unlocking
    /\ UNCHANGED <<setup, authorized, secrets>>

UnlockInstall ==
    /\ unlocking # None
    /\ secrets' = unlocking
    /\ unlocking' = None
    /\ UNCHANGED <<store, setup, authorized>>

Lock ==
    /\ <<unlocking, secrets>> # <<None, None>>
    /\ unlocking' = None
    /\ secrets' = None
    /\ UNCHANGED <<store, setup, authorized>>

\* The process dies: its tasks and its memory are gone, the keystore is not.
PhoneCrash ==
    /\ setup' = [g \in Generation |->
                   IF setup[g] \in Local THEN "aborted"
                   ELSE IF setup[g] \in Handshake THEN "over" ELSE setup[g]]
    /\ authorized' = {}
    /\ unlocking' = None
    /\ secrets' = None
    /\ UNCHANGED store

SetupTask(g) ==
    \/ SetupCheck(g) \/ SetupBegin(g) \/ SetupKey(g) \/ SetupStore(g)
    \/ SetupSign(g) \/ SetupAbort(g)
    \/ SendHello(g) \/ ReceivePrepared(g) \/ ReceiveCommit(g) \/ ReceiveActivate(g)
    \/ ReceiveClose(g) \/ HandshakeFails(g) \/ SetupDone(g)

\* A desktop recovers only a generation it has been offered.
RecoveryRequest(g) ==
    \/ Offered(g) /\ \E kind \in {"commit", "activate"} : AuthorizeRequest(kind, g)
    \/ \E acked \in BOOLEAN : ServeCommit(g, acked) \/ ServeActivate(g, acked)

PhoneNext ==
    \/ \E g \in Generation : SetupTask(g) \/ RecoveryRequest(g)
    \/ CheckSetup \/ UnlockLoad \/ UnlockInstall \/ Lock \/ PhoneCrash

PhoneSpec == PhoneInit /\ [][PhoneNext]_phoneVars

-----------------------------------------------------------------------------
\* Properties.

\* Every generation a desktop may know of, and that the phone still names as
\* pending, committed or active, has its share and its approval key: whatever
\* failed, crashed or overlapped, recovery can use what it finds.
ReferencedIntact ==
    \A g \in Generation : Offered(g) /\ Referenced(store, g) => KeyBound(store, g)

\* No share outlives its last pointer: whatever is stored can still be found by
\* a cleanup (remove_generation before its pointer, retiring before active).
NoForgottenShare ==
    \A g \in store.bundles : \E p \in Pointer : store[p] = g

\* A generation that was offered is not dropped while it is pending: the only
\* way out is to become active, so a prepared desktop can always resume.
PendingKept ==
    \A g \in Generation :
        Offered(g) /\ store.pending = g => g \in {store'.pending, store'.active}

PendingSurvives == [][PendingKept]_phoneVars

\* The active pointer moves only to a generation both sides committed, and the
\* one it leaves is either destroyed or named for destruction.
CommittedMove ==
    store'.active # store.active =>
        /\ store'.active # None
        /\ store'.active = store.pending /\ store'.active = store.committed
        /\ store.active # None =>
              store'.retiring = store.active \/ store.active \notin store'.bundles

HandoverIsCommitted == [][CommittedMove]_phoneVars

=============================================================================
