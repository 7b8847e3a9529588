---------------------------- MODULE PairingSystem ----------------------------
(***************************************************************************)
(* One desktop and one phone, pairing and re-pairing over a network that   *)
(* delays, drops and disconnects, while either side crashes or has a       *)
(* storage call fail.  The actions are those of DesktopPairing and         *)
(* PhonePairing joined at the messages they exchange:                      *)
(*                                                                         *)
(*   handshake   Hello > Prepared > Ready > Commit > CommitAck >           *)
(*               Activate > ActivateAck > Eof > Close                      *)
(*   recovery    RecoverCommit | RecoverActivate > RecoverAck              *)
(*                                                                         *)
(* A handshake has one connection and one generation, so its messages are  *)
(* named by type and generation.  They die with the side that reads them.  *)
(* A recovery request outlives the desktop's patience: the phone may serve *)
(* it after the desktop gave up, restarted or went on to a later pairing.  *)
(***************************************************************************)
EXTENDS PhonePairing, DesktopPairing

VARIABLES
    wire,   \* messages sent and not yet received
    calm    \* from now on nothing fails any more (only for liveness)

vars == <<store, setup, authorized, unlocking, secrets,
          disk, pc, offer, session, stray, wire, calm>>

FromPhone == {"Hello", "Ready", "CommitAck", "ActivateAck", "Close"}
FromDesktop == {"Prepared", "Commit", "Activate", "Eof"}
Recovery == {"RecoverCommit", "RecoverActivate", "RecoverAck"}

Message == [type : FromPhone \cup FromDesktop \cup Recovery, id : Generation]

Msg(type, g) == [type |-> type, id |-> g]
Drop(types, g) == wire \ {Msg(t, g) : t \in types}

TypeOK ==
    /\ PhoneTypeOK
    /\ DesktopTypeOK
    /\ wire \subseteq Message
    /\ calm \in BOOLEAN

Init ==
    /\ PhoneInit
    /\ DesktopInit
    /\ wire = {}
    /\ calm = FALSE

-----------------------------------------------------------------------------
\* The handshake.  A reply goes nowhere when the other side has gone.

Receive(type, g) == Msg(type, g) \in wire

\* Phone to desktop: kept while the desktop still negotiates g.
ToDesktop(type, g) == IF offer = g THEN {Msg(type, g)} ELSE {}
\* Desktop to phone: kept while the setup task of g is still there.
ToPhone(type, g) == IF setup[g] \in Handshake THEN {Msg(type, g)} ELSE {}

PhoneSends(g) ==
    \/ /\ SendHello(g)
       /\ wire' = wire \cup {Msg("Hello", g)}
    \/ /\ Receive("Prepared", g) /\ ReceivePrepared(g)
       /\ wire' = (wire \ {Msg("Prepared", g)}) \cup ToDesktop("Ready", g)
    \/ /\ Receive("Commit", g) /\ ReceiveCommit(g)
       /\ wire' = (wire \ {Msg("Commit", g)})
                    \cup (IF setup'[g] = "committed" THEN ToDesktop("CommitAck", g) ELSE {})
    \/ /\ Receive("Activate", g) /\ ReceiveActivate(g)
       /\ wire' = (wire \ {Msg("Activate", g)})
                    \cup (IF setup'[g] = "activated" THEN ToDesktop("ActivateAck", g) ELSE {})
    \/ /\ Receive("Eof", g) /\ ReceiveClose(g)
       /\ wire' = (wire \ {Msg("Eof", g)}) \cup ToDesktop("Close", g)

PhoneHandshake(g) == PhoneSends(g) /\ UNCHANGED <<desktopVars, calm>>

\* The desktop takes the connection of a setup task that is still waiting.
TakeHello(g) ==
    /\ Receive("Hello", g)
    /\ setup[g] = "helloSent"
    /\ DesktopHello(g)
    /\ wire' = (wire \ {Msg("Hello", g)})
                 \cup (IF pc' = "awaitReady" THEN {Msg("Prepared", g)} ELSE {})

DesktopSends ==
    \/ \E g \in Generation : TakeHello(g)
    \/ /\ offer # None /\ Receive("Ready", offer) /\ DesktopReady
       /\ wire' = (wire \ {Msg("Ready", offer)})
                    \cup (IF pc' = "awaitCommitAck" THEN ToPhone("Commit", offer) ELSE {})
    \/ /\ offer # None /\ Receive("CommitAck", offer) /\ DesktopCommitAck
       /\ wire' = (wire \ {Msg("CommitAck", offer)})
                    \cup (IF pc' = "awaitActivateAck" THEN ToPhone("Activate", offer) ELSE {})
    \/ /\ offer # None /\ Receive("ActivateAck", offer) /\ DesktopActivateAck
       /\ wire' = (wire \ {Msg("ActivateAck", offer)}) \cup ToPhone("Eof", offer)
    \/ /\ offer # None /\ Receive("Close", offer) /\ DesktopClosed
       /\ wire' = wire \ {Msg("Close", offer)}

DesktopHandshake == DesktopSends /\ UNCHANGED <<phoneVars, calm>>

\* Once calm, a side gives up only on a peer that cannot answer any more.
PhoneIsGone == offer # None /\ setup[offer] \notin Handshake
                 /\ \A t \in FromPhone : ~Receive(t, offer)
DesktopIsGone(g) == offer # g /\ pc # "accept" /\ \A t \in FromDesktop : ~Receive(t, g)

PhoneGivesUp(g) ==
    /\ calm => DesktopIsGone(g)
    /\ HandshakeFails(g)
    /\ wire' = Drop(FromDesktop \cup {"Hello"}, g)
    /\ UNCHANGED <<desktopVars, calm>>

RequestInProgress ==
    \/ \E t \in Recovery, g \in Generation : Receive(t, g)
    \/ authorized # {}

DesktopGivesUp ==
    /\ calm => IF pc = "resuming" THEN ~RequestInProgress ELSE PhoneIsGone
    /\ DesktopAbandon
    /\ wire' = IF pc = "resuming" THEN Drop({"RecoverAck"}, disk.txn.id) ELSE wire
    /\ UNCHANGED <<phoneVars, calm>>

DesktopCleansUp ==
    /\ DesktopFailed
    /\ wire' = IF offer = None THEN wire ELSE Drop(FromPhone, offer)
    /\ UNCHANGED <<phoneVars, calm>>

-----------------------------------------------------------------------------
\* Recovery.

RequestType(kind) == IF kind = "commit" THEN "RecoverCommit" ELSE "RecoverActivate"

Reconcile ==
    /\ \/ DesktopStart /\ UNCHANGED wire
       \/ /\ DesktopRecover /\ UNCHANGED wire
          /\ calm => pc' # "off"
       \/ /\ DesktopResume
          /\ wire' = IF pc' = "resuming"
                     THEN wire \cup {Msg(RequestType(OwedRequest[1]), OwedRequest[2])}
                     ELSE wire
       \/ /\ pc = "resuming" /\ Receive("RecoverAck", disk.txn.id)
          /\ DesktopResumed
          /\ calm => pc' # "off"
          /\ wire' = Drop({"RecoverAck"}, disk.txn.id)
    /\ UNCHANGED <<phoneVars, calm>>

\* The acknowledgement reaches a desktop that is still, or again, waiting for it.
AckTo(kind, g) ==
    IF pc = "resuming" /\ OwedRequest = <<kind, g>> THEN {Msg("RecoverAck", g)} ELSE {}

\* A request that is refused closes its connection.
TakeRequest(kind, g) ==
    /\ Receive(RequestType(kind), g)
    /\ AuthorizeRequest(kind, g)
    /\ calm => <<kind, g>> \in authorized' \/ ~Referenced(store, g)
    /\ wire' = Drop({RequestType(kind)}, g)
    /\ UNCHANGED <<desktopVars, calm>>

ServeRequest(kind, g) ==
    /\ \E acked \in BOOLEAN :
          /\ IF kind = "commit" THEN ServeCommit(g, acked) ELSE ServeActivate(g, acked)
          /\ calm => acked
          /\ wire' = wire \cup (IF acked THEN AckTo(kind, g) ELSE {})
    /\ UNCHANGED <<desktopVars, calm>>

-----------------------------------------------------------------------------
\* What each side does by itself, and the commands of an unlocked session.

PhoneAlone ==
    /\ \/ \E g \in Generation :
            \/ SetupCheck(g) \/ SetupBegin(g) \/ SetupKey(g) \/ SetupStore(g)
            \/ SetupSign(g) \/ SetupAbort(g) \/ SetupDone(g)
       \/ CheckSetup \/ UnlockLoad \/ UnlockInstall \/ Lock
    /\ UNCHANGED <<desktopVars, wire, calm>>

\* An unlocked phone answers requests of the generation whose secrets it holds,
\* and signs its answer with that generation's key.
PhoneApproves(g) == g # None /\ secrets = g /\ g \in store.keys

Commands ==
    /\ \/ DesktopInitVault
       \/ PhoneApproves(disk.pairing) /\ DesktopUnlock(secrets)
       \/ DesktopPair(PhoneApproves(session))
       \/ DesktopSave(PhoneApproves(session))
       \/ pc \in {"locked", "opening", "open"} /\ DesktopStop
    /\ UNCHANGED <<phoneVars, wire, calm>>

PhoneDies ==
    /\ ~calm
    /\ PhoneCrash
    /\ wire' = wire \ {m \in wire : m.type \in FromDesktop \cup {"Hello"}}
    /\ UNCHANGED <<desktopVars, calm>>

DesktopDies ==
    /\ ~calm
    /\ pc \notin {"locked", "opening", "open"}
    /\ DesktopStop
    /\ wire' = {m \in wire : m.type # "RecoverAck" /\ ~(m.type \in FromPhone /\ m.id = offer)}
    /\ UNCHANGED <<phoneVars, calm>>

Next ==
    \/ \E g \in Generation : PhoneHandshake(g) \/ PhoneGivesUp(g)
    \/ DesktopHandshake \/ DesktopGivesUp \/ DesktopCleansUp
    \/ Reconcile
    \/ \E g \in Generation, kind \in {"commit", "activate"} :
          TakeRequest(kind, g) \/ ServeRequest(kind, g)
    \/ PhoneAlone \/ Commands
    \/ PhoneDies \/ DesktopDies

Spec == Init /\ [][Next]_vars

-----------------------------------------------------------------------------
\* Liveness: failures stop at some point, both processes go on, and the user
\* reruns a desktop command that failed.

CalmDown == ~calm /\ calm' = TRUE /\ UNCHANGED <<phoneVars, desktopVars, wire>>

DesktopProcess ==
    DesktopHandshake \/ DesktopGivesUp \/ DesktopCleansUp \/ Reconcile

Fairness ==
    /\ WF_vars(CalmDown)
    /\ WF_vars(DesktopProcess)
    /\ \A g \in Generation :
          /\ WF_vars(PhoneHandshake(g))
          /\ WF_vars(PhoneGivesUp(g))
          /\ \A kind \in {"commit", "activate"} :
                WF_vars(TakeRequest(kind, g)) /\ WF_vars(ServeRequest(kind, g))

-----------------------------------------------------------------------------
\* Properties.

\* A session that `pair` left open with the old key, although it had promoted the
\* vault before it failed, takes the vault back with its next save: the one exception
\* of the next properties (AbortedPairingIsUndone shows how it comes about).
Relapsed(v) == stray # None /\ v = stray

\* The vault on disk never loses its phone share: the generation it was
\* encrypted for is whole on the phone, and either active there or about to be,
\* by a transaction the desktop has on record.  The only vault this is not
\* promised of is one that a stray session has taken back.
VaultOpenable ==
    disk.vault # None /\ ~Relapsed(disk.vault) =>
        /\ KeyBound(store, disk.vault)
        /\ \/ store.active = disk.vault
           \/ /\ HasTxn(disk) /\ disk.txn.id = disk.vault
              /\ store.pending = disk.vault /\ store.committed = disk.vault

\* A transaction on record can always be resumed: the phone still knows its
\* generation, as far as the phase says it must.
TransactionResumable ==
    HasTxn(disk) =>
        /\ Referenced(store, disk.txn.id) /\ KeyBound(store, disk.txn.id)
        /\ disk.txn.phase # "Prepared" => disk.txn.id \in {store.committed, store.active}
        /\ disk.txn.phase = "FullyActivated" => store.active = disk.txn.id

\* Promotion, wherever it was cut, has what it needs to be repeated: none of
\* the bails of promote_pending_pairing is reachable.
PromotionNeverStuck ==
    /\ disk.txn.phase = "PhoneCommitted" =>
          \E o \in RecoverTransaction(disk) :
             o.ok /\ o.st.vault = disk.txn.id /\ o.st.pairing = disk.txn.id
    /\ pc = "resume" => disk.pendingPairing = disk.txn.id \/ disk.pairing = disk.txn.id

\* At rest the two files agree with each other and with the phone: an unlock
\* meets no vault that its pairing's share does not open, unless a stray session
\* has taken the vault back; and even then the pairing file stays that of the phone.
FilesAgree ==
    ~HasTxn(disk) => /\ disk.pairing = store.active
                     /\ disk.vault = store.active \/ Relapsed(disk.vault)

\* README: the current generation remains active until the desktop vault has
\* been re-encrypted and both devices have durably committed the replacement.
CurrentRemainsActive ==
    [][store'.active # store.active =>
         /\ disk.txn.phase = "LocallyActivated" /\ disk.txn.id = store'.active
         /\ disk.vault = store'.active /\ disk.pairing = store'.active
         /\ store.committed = store'.active]_vars

\* The whole system implements the handover of module PairingHandover: every
\* crash, retry and late message of it is a stutter or one of its moves, and only
\* a stray session makes the vault relapse.
Handover == INSTANCE PairingHandover WITH
    desktopGen <- disk.vault, phoneGen <- store.active, intent <- disk.txn.id

ImplementsHandover == Handover!Spec

\* README: an interrupted pairing is resumed by restarting the desktop command,
\* and the phone keeps its pending setup "because the desktop may already have
\* prepared it".  So once both sides have let go of a handshake, the setup
\* that blocks every other one is on record at the desktop.
PendingIsResumable ==
    store.pending # None /\ setup[store.pending] = "over" /\ pc = "off" =>
        store.pending \in {disk.txn.id, store.active}

\* When `pair` reports an aborted pairing and lets the session go on, the vault
\* is still the one the session's key opens.
AbortedPairingIsUndone ==
    [][pc = "failed" /\ pc' = "open" => disk.vault = session]_vars

\* A recorded transaction reaches its end: once failures stop, rerunning the
\* desktop command completes it, whatever happened before.
TransactionResolves == HasTxn(disk) ~> ~HasTxn(disk)

=============================================================================
