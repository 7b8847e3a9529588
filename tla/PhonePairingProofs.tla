------------------------- MODULE PhonePairingProofs -------------------------
(***************************************************************************)
(* PhoneInvariant is inductive, for any number of generations, and with it *)
(* the safety properties of PhonePairing hold.  A step either treats the   *)
(* store as the lemmas of GenerationStoreProofs call Keeps or Moves, while *)
(* tasks move on without offering anything (QuietStep), or is one of the   *)
(* few steps of a setup task that are argued one by one.                   *)
(***************************************************************************)
EXTENDS GenerationStoreProofs

USE NoneIsNoGeneration

LEMMA QuietStep ==
    ASSUME PhoneInvariant,
           setup' \in [Generation -> Stage], authorized' \subseteq Requests,
           unlocking' \in MaybeGeneration, secrets' \in MaybeGeneration,
           Sound(store', Offers),
           Keeps(store, store') \/ \E g \in Offers : Moves(store, store', g),
           \A h \in Generation :
              /\ setup'[h] \in Handshake \cup {"over"} <=> setup[h] \in Handshake \cup {"over"}
              /\ setup'[h] \in {"unused", "checked"} => setup[h] \in {"unused", "checked"}
              /\ setup'[h] \in {"stored", "signed"} => setup'[h] = setup[h],
           \A h \in Generation, kind \in {"commit", "activate"} :
              <<kind, h>> \in authorized' => <<kind, h>> \in authorized \/ Offered(h)
    PROVE  PhoneInvariant' /\ PendingKept /\ CommittedMove /\ NoWayBack
<1>1. PhoneTypeOK'
  BY DEF PhoneTypeOK, Sound
<1>2. Offers' = Offers /\ \A h \in Generation : Offered(h)' <=> Offered(h)
  BY DEF Offers, Offered
<1>3. Sound(store, Offers)'
  BY <1>2
<1>4. /\ Named(store') \subseteq Named(store) \cup {None}
      /\ store'.active # store.active => \E g \in Offers : Moves(store, store', g)
  BY DEF Keeps, Moves
<1>5. Fresh'
  BY <1>4 DEF PhoneInvariant, Fresh
<1>6. Prepared'
  <2> SUFFICES ASSUME NEW h \in Generation, setup'[h] \in {"stored", "signed"}
               PROVE  /\ store'.pending = h /\ h \in store'.bundles
                      /\ setup'[h] = "signed" => h \in store'.keys
    BY DEF Prepared
  <2>1. /\ store.pending = h /\ h \in store.bundles
        /\ setup[h] = setup'[h]
        /\ setup[h] = "signed" => h \in store.keys
    BY DEF PhoneInvariant, Prepared
  <2>2. h \notin Offers
    BY <2>1 DEF Offers, Offered, Handshake
  <2>3. h # store.active /\ ~\E g \in Offers : Moves(store, store', g)
    BY <2>1, <2>2 DEF PhoneInvariant, Sound, ActiveWhole, Moves
  <2> QED BY <2>1, <2>3 DEF Keeps
<1>7. RequestsOffered'
  BY <1>2 DEF PhoneInvariant, RequestsOffered
<1>8. PendingKept
  BY DEF PendingKept, Keeps, Moves
<1>9. CommittedMove
  BY <1>4 DEF CommittedMove, Moves, Offers
<1>10. NoWayBack
  <2> SUFFICES ASSUME NEW h \in Generation, store'.pending = h, store'.active # h
               PROVE  /\ store.pending = h /\ store.active # h
                      /\ store.committed = h => store'.committed = h
    BY DEF NoWayBack, Waiting
  <2>1. ~\E g \in Offers : Moves(store, store', g)
    BY DEF Moves
  <2> QED BY <2>1 DEF Keeps
<1> QED BY <1>1, <1>3, <1>5, <1>6, <1>7, <1>8, <1>9, <1>10 DEF PhoneInvariant

-----------------------------------------------------------------------------
\* The steps of a setup task.

\* A task's stage moves from one to another: what QuietStep asks of setup'.
LEMMA StageStep ==
    ASSUME PhoneTypeOK, NEW g \in Generation, NEW to \in Stage,
           setup' = [setup EXCEPT ![g] = to]
    PROVE  /\ setup' \in [Generation -> Stage]
           /\ setup'[g] = to
           /\ \A h \in Generation \ {g} : setup'[h] = setup[h]
BY DEF PhoneTypeOK

LEMMA StageNames ==
    {"checked", "begun", "keyed", "stored", "signed", "aborting", "unused", "aborted", "over",
     "helloSent", "readySent", "committed", "activated", "closed"} = Stage
BY DEF Stage, Local, Handshake

\* A storage call of a task whose outcomes QuietStep covers.
LEMMA QuietCall ==
    ASSUME PhoneInvariant, NEW g \in Generation,
           NEW from \in Stage, NEW next \in Stage, NEW otherwise \in Stage, NEW outcomes,
           SetupCall(g, from, outcomes, next, otherwise),
           {next, otherwise} \cap {"unused", "stored", "signed"} = {},
           "checked" \in {next, otherwise} => from = "unused",
           \A to \in {next, otherwise} :
              to \in Handshake \cup {"over"} <=> from \in Handshake \cup {"over"},
           \A o \in outcomes :
              Sound(o.st, Offers)
              /\ (Keeps(store, o.st) \/ \E h \in Offers : Moves(store, o.st, h))
    PROVE  PhoneInvariant' /\ PendingKept /\ CommittedMove /\ NoWayBack
<1>1. PICK to \in {next, otherwise} : setup' = [setup EXCEPT ![g] = to]
  BY DEF SetupCall
<1>2. PICK o \in outcomes : store' = o.st
  BY DEF SetupCall
<1>3. /\ setup' \in [Generation -> Stage]
      /\ setup'[g] = to
      /\ \A h \in Generation \ {g} : setup'[h] = setup[h]
  BY <1>1, StageStep DEF PhoneInvariant
<1>4. setup[g] = from /\ UNCHANGED <<authorized, unlocking, secrets>>
  BY DEF SetupCall
<1>5. \A h \in Generation :
        /\ setup'[h] \in Handshake \cup {"over"} <=> setup[h] \in Handshake \cup {"over"}
        /\ setup'[h] \in {"unused", "checked"} => setup[h] \in {"unused", "checked"}
        /\ setup'[h] \in {"stored", "signed"} => setup'[h] = setup[h]
  BY <1>1, <1>3, <1>4
<1>6. PhoneTypeOK
  BY DEF PhoneInvariant
<1> QED BY <1>2, <1>3, <1>4, <1>5, <1>6, QuietStep DEF PhoneTypeOK

LEMMA CheckStep ==
    ASSUME PhoneInvariant, NEW g \in Generation, SetupCheck(g)
    PROVE  PhoneInvariant' /\ PendingKept /\ CommittedMove /\ NoWayBack
<1>1. \A o \in IsSetup(store) : Sound(o.st, Offers) /\ Keeps(store, o.st)
  BY IsSetupSound DEF PhoneInvariant, Offers
<1>2. SetupCall(g, "unused", IsSetup(store), "checked", "aborted")
  BY DEF SetupCheck
<1>3. /\ {"unused", "checked", "aborted"} \subseteq Stage
      /\ {"checked", "aborted"} \cap {"unused", "stored", "signed"} = {}
      /\ \A to \in {"checked", "aborted"} :
            to \in Handshake \cup {"over"} <=> "unused" \in Handshake \cup {"over"}
  BY DEF Stage, Local, Handshake
<1> QED BY <1>1, <1>2, <1>3, QuietCall

LEMMA KeyStep ==
    ASSUME PhoneInvariant, NEW g \in Generation, SetupKey(g)
    PROVE  PhoneInvariant' /\ PendingKept /\ CommittedMove /\ NoWayBack
<1>1. \A o \in GenerateApprovalKey(store, g) : Sound(o.st, Offers) /\ Keeps(store, o.st)
  BY GenerateKeySound DEF PhoneInvariant, Offers
<1>2. SetupCall(g, "begun", GenerateApprovalKey(store, g), "keyed", "aborting")
  BY DEF SetupKey
<1>3. /\ {"begun", "keyed", "aborting"} \subseteq Stage
      /\ {"keyed", "aborting"} \cap {"unused", "stored", "signed"} = {}
      /\ \A to \in {"keyed", "aborting"} :
            to \in Handshake \cup {"over"} <=> "begun" \in Handshake \cup {"over"}
  BY DEF Stage, Local, Handshake
<1> QED BY <1>1, <1>2, <1>3, QuietCall

LEMMA ReceiveCommitStep ==
    ASSUME PhoneInvariant, NEW g \in Generation, ReceiveCommit(g)
    PROVE  PhoneInvariant' /\ PendingKept /\ CommittedMove /\ NoWayBack
<1>1. SetupCall(g, "readySent", CommitPendingGeneration(store, g), "committed", "over")
  BY DEF ReceiveCommit
<1>2. g \in Offers
  BY <1>1 DEF SetupCall, Offers, Offered, Handshake
<1>3. \A o \in CommitPendingGeneration(store, g) : Sound(o.st, Offers) /\ Keeps(store, o.st)
  BY <1>2, CommitSound DEF PhoneInvariant, Offers
<1>4. /\ {"readySent", "committed", "over"} \subseteq Stage
      /\ {"committed", "over"} \cap {"unused", "stored", "signed"} = {}
      /\ \A to \in {"committed", "over"} :
            to \in Handshake \cup {"over"} <=> "readySent" \in Handshake \cup {"over"}
  BY DEF Stage, Local, Handshake
<1> QED BY <1>1, <1>3, <1>4, QuietCall

LEMMA ReceiveActivateStep ==
    ASSUME PhoneInvariant, NEW g \in Generation, ReceiveActivate(g)
    PROVE  PhoneInvariant' /\ PendingKept /\ CommittedMove /\ NoWayBack
<1>1. SetupCall(g, "committed", ActivateGeneration(store, g), "activated", "over")
  BY DEF ReceiveActivate
<1>2. g \in Offers
  BY <1>1 DEF SetupCall, Offers, Offered, Handshake
<1>3. \A o \in ActivateGeneration(store, g) :
         Sound(o.st, Offers) /\ (Keeps(store, o.st) \/ \E h \in Offers : Moves(store, o.st, h))
  BY <1>2, ActivateSound DEF PhoneInvariant, Offers
<1>4. /\ {"committed", "activated", "over"} \subseteq Stage
      /\ {"activated", "over"} \cap {"unused", "stored", "signed"} = {}
      /\ \A to \in {"activated", "over"} :
            to \in Handshake \cup {"over"} <=> "committed" \in Handshake \cup {"over"}
  BY DEF Stage, Local, Handshake
<1> QED BY <1>1, <1>3, <1>4, QuietCall

\* A task that moves on without touching the store, or offering anything.
LEMMA QuietMove ==
    ASSUME PhoneInvariant, NEW g \in Generation, NEW from \in Stage, NEW to \in Stage,
           Step(g, from, to),
           to \notin {"unused", "checked", "stored", "signed"},
           to \in Handshake \cup {"over"} <=> from \in Handshake \cup {"over"}
    PROVE  PhoneInvariant' /\ PendingKept /\ CommittedMove /\ NoWayBack
<1>1. /\ setup[g] = from /\ setup' = [setup EXCEPT ![g] = to]
      /\ UNCHANGED <<store, authorized, unlocking, secrets>>
  BY DEF Step
<1>2. /\ setup' \in [Generation -> Stage]
      /\ setup'[g] = to
      /\ \A h \in Generation \ {g} : setup'[h] = setup[h]
  BY <1>1, StageStep DEF PhoneInvariant
<1>3. \A h \in Generation :
        /\ setup'[h] \in Handshake \cup {"over"} <=> setup[h] \in Handshake \cup {"over"}
        /\ setup'[h] \in {"unused", "checked"} => setup[h] \in {"unused", "checked"}
        /\ setup'[h] \in {"stored", "signed"} => setup'[h] = setup[h]
  BY <1>1, <1>2
<1>4. PhoneTypeOK /\ Sound(store', Offers) /\ Keeps(store, store')
  BY <1>1 DEF PhoneInvariant, Keeps
<1> QED BY <1>1, <1>2, <1>3, <1>4, QuietStep DEF PhoneTypeOK

\* Sending the first message offers g: from here on the store owes it its
\* secrets, which Prepared says are there.
LEMMA OfferStep ==
    ASSUME PhoneInvariant, NEW g \in Generation, NEW to \in {"helloSent", "over"},
           Step(g, "signed", to)
    PROVE  PhoneInvariant' /\ PendingKept /\ CommittedMove /\ NoWayBack
<1>1. /\ setup[g] = "signed" /\ setup' = [setup EXCEPT ![g] = to]
      /\ UNCHANGED <<store, authorized, unlocking, secrets>>
  BY DEF Step
<1>2. to \in Stage \cap (Handshake \cup {"over"})
      /\ to \notin {"unused", "checked", "stored", "signed"}
  BY DEF Stage, Local, Handshake
<1>3. /\ setup' \in [Generation -> Stage]
      /\ setup'[g] = to
      /\ \A h \in Generation \ {g} : setup'[h] = setup[h]
  BY <1>1, <1>2, StageStep DEF PhoneInvariant
<1>4. Offers' = Offers \cup {g} /\ \A h \in Generation : Offered(h) => Offered(h)'
  BY <1>2, <1>3 DEF Offers, Offered
<1>5. PhoneTypeOK'
  BY <1>1, <1>3 DEF PhoneInvariant, PhoneTypeOK
<1>6. Sound(store, Offers)'
  <2>1. store.pending = g /\ KeyBound(store, g)
    BY <1>1 DEF PhoneInvariant, Prepared, KeyBound
  <2>2. Sound(store, Offers \cup {g})
    BY <2>1, SoundWhenOffered DEF PhoneInvariant, Offers
  <2> QED BY <1>1, <1>4, <2>2
<1>7. Fresh'
  BY <1>1, <1>2, <1>3 DEF PhoneInvariant, Fresh
<1>8. Prepared'
  BY <1>1, <1>2, <1>3 DEF PhoneInvariant, Prepared
<1>9. RequestsOffered'
  BY <1>1, <1>4 DEF PhoneInvariant, RequestsOffered
<1>10. PendingKept /\ CommittedMove /\ NoWayBack
  BY <1>1 DEF PendingKept, CommittedMove, NoWayBack, Waiting
<1> QED BY <1>5, <1>6, <1>7, <1>8, <1>9, <1>10 DEF PhoneInvariant

\* begin_pending_pairing clears what another setup left, but a setup that has
\* stored its generation holds the pending pointer, and then it stops.
LEMMA BeginStep ==
    ASSUME PhoneInvariant, NEW g \in Generation, SetupBegin(g)
    PROVE  PhoneInvariant' /\ PendingKept /\ CommittedMove /\ NoWayBack
<1>1. /\ setup[g] = "checked"
      /\ \E to \in {"begun", "aborted"} : setup' = [setup EXCEPT ![g] = to]
      /\ \E o \in BeginPendingPairing(store, g) : store' = o.st
      /\ UNCHANGED <<authorized, unlocking, secrets>>
  BY DEF SetupBegin, SetupCall
<1>2. PICK to \in {"begun", "aborted"} : setup' = [setup EXCEPT ![g] = to]
  BY <1>1
<1>3. to \in Stage /\ to \notin Handshake \cup {"over"}
  BY DEF Stage, Local, Handshake
<1>4. /\ setup' \in [Generation -> Stage]
      /\ setup'[g] = to
      /\ \A h \in Generation \ {g} : setup'[h] = setup[h]
  BY <1>2, <1>3, StageStep DEF PhoneInvariant
<1>5. /\ Sound(store', Offers)
      /\ store'.active = store.active
      /\ store'.pending \in {store.pending, None}
      /\ Named(store') \subseteq Named(store) \cup {None, g}
      /\ store.pending \notin {None, store.active} => Keeps(store, store')
  <2>1. g \notin Named(store)
    BY <1>1 DEF PhoneInvariant, Fresh
  <2> QED BY <1>1, <2>1, BeginSound DEF PhoneInvariant, Offers
<1>6. Offers' = Offers /\ \A h \in Generation : Offered(h)' <=> Offered(h)
  BY <1>1, <1>3, <1>4 DEF Offers, Offered, Handshake
<1>7. PhoneTypeOK'
  BY <1>1, <1>4, <1>5 DEF PhoneInvariant, PhoneTypeOK, Sound
<1>8. Sound(store, Offers)'
  BY <1>5, <1>6
<1>9. Fresh'
  BY <1>2, <1>4, <1>5 DEF PhoneInvariant, Fresh
<1>10. Prepared'
  <2> SUFFICES ASSUME NEW h \in Generation, setup'[h] \in {"stored", "signed"}
               PROVE  /\ store'.pending = h /\ h \in store'.bundles
                      /\ setup'[h] = "signed" => h \in store'.keys
    BY DEF Prepared
  <2>1. /\ store.pending = h /\ h \in store.bundles
        /\ setup[h] = setup'[h]
        /\ setup[h] = "signed" => h \in store.keys
    BY <1>2, <1>4 DEF PhoneInvariant, Prepared
  <2>2. h \notin Offers
    BY <2>1 DEF Offers, Offered, Handshake
  <2>3. store.pending \notin {None, store.active}
    BY <2>1, <2>2 DEF PhoneInvariant, Sound, ActiveWhole
  <2> QED BY <1>5, <2>1, <2>3 DEF Keeps
<1>11. RequestsOffered'
  BY <1>1, <1>6 DEF PhoneInvariant, RequestsOffered
<1>12. PendingKept
  BY <1>5 DEF PendingKept, Keeps
<1>13. CommittedMove
  BY <1>5 DEF CommittedMove
<1>14. NoWayBack
  BY <1>5 DEF NoWayBack, Waiting, Keeps
<1> QED BY <1>7, <1>8, <1>9, <1>10, <1>11, <1>12, <1>13, <1>14 DEF PhoneInvariant

\* store_pending_generation and abort_unstarted_pairing change the store only
\* where no other setup holds the pending pointer.
LEMMA OwnPendingStep ==
    ASSUME PhoneInvariant, NEW g \in Generation, NEW to \in Stage,
           setup[g] \in {"keyed", "aborting"},
           setup' = [setup EXCEPT ![g] = to],
           UNCHANGED <<authorized, unlocking, secrets>>,
           to \in {"stored", "aborting", "aborted"},
           Sound(store', Offers),
           store'.active = store.active,
           store'.pending \in {store.pending, None, g},
           Named(store') \subseteq Named(store) \cup {None, g},
           store' # store => store.pending \in {None, g},
           to = "stored" => store'.pending = g /\ g \in store'.bundles
    PROVE  PhoneInvariant' /\ PendingKept /\ CommittedMove /\ NoWayBack
<1>1. /\ setup' \in [Generation -> Stage]
      /\ setup'[g] = to
      /\ \A h \in Generation \ {g} : setup'[h] = setup[h]
  BY StageStep DEF PhoneInvariant
<1>2. Offers' = Offers /\ \A h \in Generation : Offered(h)' <=> Offered(h)
  BY <1>1 DEF Offers, Offered, Handshake
<1>3. PhoneTypeOK'
  BY <1>1 DEF PhoneInvariant, PhoneTypeOK, Sound
<1>4. Sound(store, Offers)'
  BY <1>2
<1>5. Fresh'
  BY <1>1 DEF PhoneInvariant, Fresh
<1>6. Prepared'
  <2> SUFFICES ASSUME NEW h \in Generation, setup'[h] \in {"stored", "signed"}
               PROVE  /\ store'.pending = h /\ h \in store'.bundles
                      /\ setup'[h] = "signed" => h \in store'.keys
    BY DEF Prepared
  <2>1. CASE h = g
    BY <1>1, <2>1
  <2>2. CASE h # g
    <3>1. /\ store.pending = h /\ h \in store.bundles
          /\ setup[h] = setup'[h]
          /\ setup[h] = "signed" => h \in store.keys
      BY <1>1, <2>2 DEF PhoneInvariant, Prepared
    <3>2. store' = store
      BY <2>2, <3>1
    <3> QED BY <3>1, <3>2
  <2> QED BY <2>1, <2>2
<1>7. RequestsOffered'
  BY <1>2 DEF PhoneInvariant, RequestsOffered
<1>8. PendingKept
  <2>1. ~Offered(g)
    BY DEF Offered, Handshake
  <2> QED BY <2>1 DEF PendingKept
<1>9. CommittedMove
  BY DEF CommittedMove
<1>10. NoWayBack
  <2> SUFFICES ASSUME NEW h \in Generation, Offered(h), Waiting(h)'
               PROVE  Waiting(h) /\ (store.committed = h => store'.committed = h)
    BY DEF NoWayBack
  <2>1. h # g
    BY DEF Offered, Handshake
  <2>2. Waiting(h)
    BY <2>1 DEF Waiting
  <2>3. store' = store
    BY <2>1, <2>2 DEF Waiting
  <2> QED BY <2>2, <2>3
<1> QED BY <1>3, <1>4, <1>5, <1>6, <1>7, <1>8, <1>9, <1>10 DEF PhoneInvariant

LEMMA StoreStep ==
    ASSUME PhoneInvariant, NEW g \in Generation, SetupStore(g)
    PROVE  PhoneInvariant' /\ PendingKept /\ CommittedMove /\ NoWayBack
<1>1. PICK o \in StorePendingGeneration(store, g) :
          /\ store' = o.st
          /\ setup' = [setup EXCEPT ![g] = IF o.ok THEN "stored" ELSE "aborting"]
  BY DEF SetupStore, SetupCall
<1>2. setup[g] = "keyed" /\ UNCHANGED <<authorized, unlocking, secrets>>
  BY DEF SetupStore, SetupCall
<1>3. /\ Sound(o.st, Offers)
      /\ o.st.active = store.active
      /\ o.st.pending \in {store.pending, g}
      /\ Named(o.st) \subseteq Named(store) \cup {None, g}
      /\ o.st # store => store.pending \in {None, g}
      /\ o.ok => o.st.pending = g /\ g \in o.st.bundles
  <2>1. g \notin Offers
    BY <1>2 DEF Offers, Offered, Handshake
  <2> QED BY <1>1, <2>1, StorePendingSound DEF PhoneInvariant, Offers
<1>4. {"stored", "aborting"} \subseteq Stage
  BY DEF Stage, Local
<1>5. CASE o.ok
  BY <1>1, <1>2, <1>3, <1>4, <1>5, OwnPendingStep
<1>6. CASE ~o.ok
  BY <1>1, <1>2, <1>3, <1>4, <1>6, OwnPendingStep
<1> QED BY <1>5, <1>6

LEMMA AbortStep ==
    ASSUME PhoneInvariant, NEW g \in Generation, SetupAbort(g)
    PROVE  PhoneInvariant' /\ PendingKept /\ CommittedMove /\ NoWayBack
<1>1. PICK o \in AbortUnstartedPairing(store, g) :
          store' = o.st /\ setup' = [setup EXCEPT ![g] = "aborted"]
  BY DEF SetupAbort, SetupCall
<1>2. setup[g] = "aborting" /\ UNCHANGED <<authorized, unlocking, secrets>>
  BY DEF SetupAbort, SetupCall
<1>3. /\ Sound(o.st, Offers) /\ Trims(store, o.st)
      /\ o.st # store => store.pending \in {None, g}
  <2>1. g \notin Offers
    BY <1>2 DEF Offers, Offered, Handshake
  <2> QED BY <1>1, <2>1, AbortSound DEF PhoneInvariant, Offers
<1>4. "aborted" \in Stage
  BY DEF Stage
<1>5. /\ o.st.active = store.active /\ o.st.pending \in {store.pending, None}
      /\ Named(o.st) \subseteq Named(store) \cup {None, g}
  BY <1>3 DEF Trims
<1> QED BY <1>1, <1>2, <1>3, <1>4, <1>5, OwnPendingStep

LEMMA SignStep ==
    ASSUME PhoneInvariant, NEW g \in Generation, SetupSign(g)
    PROVE  PhoneInvariant' /\ PendingKept /\ CommittedMove /\ NoWayBack
<1>1. /\ setup[g] = "stored"
      /\ UNCHANGED <<authorized, unlocking, secrets>>
      /\ \E o \in (IF g \in store.keys THEN Ok(store) \cup Fail(store) ELSE Fail(store)) :
            /\ store' = o.st
            /\ setup' = [setup EXCEPT ![g] = IF o.ok THEN "signed" ELSE "aborting"]
  BY DEF SetupSign, SetupCall
<1>2. PICK o \in (IF g \in store.keys THEN Ok(store) \cup Fail(store) ELSE Fail(store)) :
          store' = o.st /\ setup' = [setup EXCEPT ![g] = IF o.ok THEN "signed" ELSE "aborting"]
  BY <1>1
<1>3. PICK to \in {"signed", "aborting"} :
          setup' = [setup EXCEPT ![g] = to] /\ (to = "signed" => g \in store.keys)
  <2>1. CASE g \in store.keys
    BY <1>2, <2>1
  <2>2. CASE g \notin store.keys
    <3>1. ~o.ok
      BY <1>2, <2>2 DEF Fail
    <3> QED BY <1>2, <3>1
  <2> QED BY <2>1, <2>2
<1>4. store' = store
  BY <1>2 DEF Ok, Fail
<1>5. to \in Stage /\ to \notin Handshake \cup {"over"}
  BY DEF Stage, Local, Handshake
<1>6. /\ setup' \in [Generation -> Stage]
      /\ setup'[g] = to
      /\ \A h \in Generation \ {g} : setup'[h] = setup[h]
  BY <1>3, <1>5, StageStep DEF PhoneInvariant
<1>7. Offers' = Offers /\ \A h \in Generation : Offered(h)' <=> Offered(h)
  BY <1>1, <1>5, <1>6 DEF Offers, Offered, Handshake
<1>8. PhoneTypeOK'
  BY <1>1, <1>4, <1>6 DEF PhoneInvariant, PhoneTypeOK
<1>9. Sound(store, Offers)'
  BY <1>4, <1>7 DEF PhoneInvariant
<1>10. Fresh'
  BY <1>4, <1>6 DEF PhoneInvariant, Fresh
<1>11. Prepared'
  BY <1>1, <1>4, <1>3, <1>6 DEF PhoneInvariant, Prepared
<1>12. RequestsOffered'
  BY <1>1, <1>7 DEF PhoneInvariant, RequestsOffered
<1>13. PendingKept /\ CommittedMove /\ NoWayBack
  BY <1>4 DEF PendingKept, CommittedMove, NoWayBack, Waiting
<1> QED BY <1>8, <1>9, <1>10, <1>11, <1>12, <1>13 DEF PhoneInvariant

LEMMA TaskStep ==
    ASSUME PhoneInvariant, NEW g \in Generation, SetupTask(g)
    PROVE  PhoneInvariant' /\ PendingKept /\ CommittedMove /\ NoWayBack
<1>1. CASE SendHello(g)
  BY <1>1, OfferStep DEF SendHello
<1>2. CASE ReceivePrepared(g)
  <2>1. Step(g, "helloSent", "readySent")
    BY <1>2 DEF ReceivePrepared
  <2>2. /\ "helloSent" \in Stage \cap Handshake /\ "readySent" \in Stage \cap Handshake
        /\ "readySent" \notin {"unused", "checked", "stored", "signed"}
    BY DEF Stage, Local, Handshake
  <2> QED BY <2>1, <2>2, QuietMove
<1>3. CASE ReceiveClose(g)
  <2>1. Step(g, "activated", "closed")
    BY <1>3 DEF ReceiveClose
  <2>2. /\ "activated" \in Stage \cap Handshake /\ "closed" \in Stage \cap Handshake
        /\ "closed" \notin {"unused", "checked", "stored", "signed"}
    BY DEF Stage, Local, Handshake
  <2> QED BY <2>1, <2>2, QuietMove
<1>4. CASE HandshakeFails(g)
  <2>1. CASE Step(g, "signed", "over")
    BY <2>1, OfferStep
  <2>2. CASE \E from \in {"helloSent", "readySent", "committed", "activated"} :
                Step(g, from, "over")
    <3>1. PICK from \in {"helloSent", "readySent", "committed", "activated"} :
              Step(g, from, "over")
      BY <2>2
    <3>2. /\ from \in Stage \cap Handshake /\ "over" \in Stage
          /\ "over" \notin {"unused", "checked", "stored", "signed"}
      BY DEF Stage, Local, Handshake
    <3> QED BY <3>1, <3>2, QuietMove
  <2> QED BY <1>4, <2>1, <2>2 DEF HandshakeFails
<1>5. CASE SetupDone(g)
  <2>1. PICK o \in LoadSecrets(store) :
            /\ store' = o.st
            /\ unlocking' = IF o.ok THEN None ELSE unlocking
            /\ secrets' = IF o.ok THEN None ELSE secrets
    BY <1>5 DEF SetupDone
  <2>2. setup[g] = "closed" /\ setup' = [setup EXCEPT ![g] = "over"] /\ authorized' = authorized
    BY <1>5 DEF SetupDone
  <2>3. Sound(store', Offers) /\ Keeps(store, store')
    BY <2>1, LoadSecretsSound DEF PhoneInvariant, Offers
  <2>4. PhoneTypeOK /\ unlocking' \in MaybeGeneration /\ secrets' \in MaybeGeneration
    BY <2>1 DEF PhoneInvariant, PhoneTypeOK, MaybeGeneration
  <2>5. /\ setup' \in [Generation -> Stage]
        /\ setup'[g] = "over"
        /\ \A h \in Generation \ {g} : setup'[h] = setup[h]
    BY <2>2, <2>4, StageStep DEF Stage
  <2>6. \A h \in Generation :
          /\ setup'[h] \in Handshake \cup {"over"} <=> setup[h] \in Handshake \cup {"over"}
          /\ setup'[h] \in {"unused", "checked"} => setup[h] \in {"unused", "checked"}
          /\ setup'[h] \in {"stored", "signed"} => setup'[h] = setup[h]
    BY <2>2, <2>5 DEF Handshake
  <2> QED BY <2>2, <2>3, <2>4, <2>5, <2>6, QuietStep DEF PhoneTypeOK
<1> QED
  BY <1>1, <1>2, <1>3, <1>4, <1>5, CheckStep, BeginStep, KeyStep, StoreStep, SignStep,
     AbortStep, ReceiveCommitStep, ReceiveActivateStep DEF SetupTask

-----------------------------------------------------------------------------
\* Recovery requests, and everything else the app does.

\* A step that leaves the tasks alone.
LEMMA ServiceStep ==
    ASSUME PhoneInvariant, UNCHANGED setup,
           Sound(store', Offers),
           Keeps(store, store') \/ \E g \in Offers : Moves(store, store', g),
           authorized' \subseteq Requests,
           unlocking' \in MaybeGeneration, secrets' \in MaybeGeneration,
           \A h \in Generation, kind \in {"commit", "activate"} :
              <<kind, h>> \in authorized' => <<kind, h>> \in authorized \/ Offered(h)
    PROVE  PhoneInvariant' /\ PendingKept /\ CommittedMove /\ NoWayBack
<1>1. setup' \in [Generation -> Stage]
  BY DEF PhoneInvariant, PhoneTypeOK
<1> QED BY <1>1, QuietStep

LEMMA RecoveryStep ==
    ASSUME PhoneInvariant, NEW g \in Generation, RecoveryRequest(g)
    PROVE  PhoneInvariant' /\ PendingKept /\ CommittedMove /\ NoWayBack
<1>1. ASSUME NEW kind \in {"commit", "activate"}, Offered(g), AuthorizeRequest(kind, g)
      PROVE  PhoneInvariant' /\ PendingKept /\ CommittedMove /\ NoWayBack
  <2>1. PICK o \in AuthorizeRecovery(store, g) :
            /\ store' = o.st
            /\ authorized' = authorized \cup (IF o.ok THEN {<<kind, g>>} ELSE {})
    BY <1>1 DEF AuthorizeRequest
  <2>2. Sound(store', Offers) /\ Keeps(store, store')
    BY <2>1, AuthorizeSound DEF PhoneInvariant, Offers
  <2>3. UNCHANGED <<setup, unlocking, secrets>> /\ PhoneTypeOK
    BY <1>1 DEF AuthorizeRequest, PhoneInvariant
  <2>4. authorized' \subseteq Requests
    BY <2>1, <2>3 DEF PhoneTypeOK, Requests
  <2>5. \A h \in Generation, k \in {"commit", "activate"} :
           <<k, h>> \in authorized' => <<k, h>> \in authorized \/ Offered(h)
    BY <1>1, <2>1
  <2> QED BY <2>2, <2>3, <2>4, <2>5, ServiceStep DEF PhoneTypeOK
<1>2. ASSUME NEW acked \in BOOLEAN, ServeCommit(g, acked)
      PROVE  PhoneInvariant' /\ PendingKept /\ CommittedMove /\ NoWayBack
  <2>1. /\ authorized' = authorized \ {<<"commit", g>>} /\ <<"commit", g>> \in authorized
        /\ UNCHANGED <<setup, unlocking, secrets>>
        /\ \E o \in CommitPendingGeneration(store, g) : store' = o.st
    BY <1>2 DEF ServeCommit
  <2>2. g \in Offers /\ PhoneTypeOK
    BY <2>1 DEF PhoneInvariant, RequestsOffered, Offers
  <2>3. Sound(store', Offers) /\ Keeps(store, store')
    BY <2>1, <2>2, CommitSound DEF PhoneInvariant, Offers
  <2> QED BY <2>1, <2>2, <2>3, ServiceStep DEF PhoneTypeOK
<1>3. ASSUME NEW acked \in BOOLEAN, ServeActivate(g, acked)
      PROVE  PhoneInvariant' /\ PendingKept /\ CommittedMove /\ NoWayBack
  <2>1. /\ authorized' = authorized \ {<<"activate", g>>} /\ <<"activate", g>> \in authorized
        /\ unlocking' = IF acked THEN None ELSE unlocking
        /\ secrets' = IF acked THEN None ELSE secrets
        /\ UNCHANGED setup
        /\ \E o \in ActivateGeneration(store, g) : store' = o.st
    BY <1>3 DEF ServeActivate
  <2>2. g \in Offers /\ PhoneTypeOK
    BY <2>1 DEF PhoneInvariant, RequestsOffered, Offers
  <2>3. /\ Sound(store', Offers)
        /\ Keeps(store, store') \/ Moves(store, store', g)
    BY <2>1, <2>2, ActivateSound DEF PhoneInvariant, Offers
  <2>4. unlocking' \in MaybeGeneration /\ secrets' \in MaybeGeneration
    BY <2>1, <2>2 DEF PhoneTypeOK, MaybeGeneration
  <2> QED BY <2>1, <2>2, <2>3, <2>4, ServiceStep DEF PhoneTypeOK
<1> QED BY <1>1, <1>2, <1>3 DEF RecoveryRequest

LEMMA CrashStep ==
    ASSUME PhoneInvariant, PhoneCrash
    PROVE  PhoneInvariant' /\ PendingKept /\ CommittedMove /\ NoWayBack
<1>1. /\ setup' = [g \in Generation |->
                     IF setup[g] \in Local THEN "aborted"
                     ELSE IF setup[g] \in Handshake THEN "over" ELSE setup[g]]
      /\ authorized' = {} /\ unlocking' = None /\ secrets' = None /\ store' = store
  BY DEF PhoneCrash
<1>2. PhoneTypeOK /\ Sound(store', Offers) /\ Keeps(store, store')
  BY <1>1 DEF PhoneInvariant, Keeps
<1>3. setup' \in [Generation -> Stage]
  BY <1>1, <1>2 DEF PhoneTypeOK, Stage
<1>4. \A h \in Generation :
        /\ setup'[h] \in Handshake \cup {"over"} <=> setup[h] \in Handshake \cup {"over"}
        /\ setup'[h] \in {"unused", "checked"} => setup[h] \in {"unused", "checked"}
        /\ setup'[h] \in {"stored", "signed"} => setup'[h] = setup[h]
  BY <1>1, <1>2 DEF PhoneTypeOK, Stage, Local, Handshake
<1> QED BY <1>1, <1>2, <1>3, <1>4, QuietStep DEF MaybeGeneration

LEMMA AppStep ==
    ASSUME PhoneInvariant, CheckSetup \/ UnlockLoad \/ UnlockInstall \/ Lock
    PROVE  PhoneInvariant' /\ PendingKept /\ CommittedMove /\ NoWayBack
<1>1. PhoneTypeOK /\ Sound(store, Offers) /\ Keeps(store, store)
  BY DEF PhoneInvariant, Keeps
<1>2. CASE CheckSetup
  <2>1. UNCHANGED <<setup, authorized, unlocking, secrets>>
        /\ \E o \in IsSetup(store) : store' = o.st
    BY <1>2 DEF CheckSetup
  <2>2. Sound(store', Offers) /\ Keeps(store, store')
    BY <1>1, <2>1, IsSetupSound DEF Offers
  <2> QED BY <1>1, <2>1, <2>2, ServiceStep DEF PhoneTypeOK
<1>3. CASE UnlockLoad
  <2>1. PICK o \in LoadSecrets(store) :
            store' = o.st /\ unlocking' = IF o.ok THEN o.st.active ELSE unlocking
    BY <1>3 DEF UnlockLoad
  <2>2. Sound(store', Offers) /\ Keeps(store, store')
    BY <1>1, <2>1, LoadSecretsSound DEF Offers
  <2>3. unlocking' \in MaybeGeneration
    BY <1>1, <2>1, <2>2 DEF PhoneTypeOK, Sound, Store
  <2> QED BY <1>1, <1>3, <2>2, <2>3, ServiceStep DEF UnlockLoad, PhoneTypeOK
<1>4. CASE UnlockInstall
  BY <1>1, <1>4, ServiceStep DEF UnlockInstall, PhoneTypeOK, MaybeGeneration
<1>5. CASE Lock
  BY <1>1, <1>5, ServiceStep DEF Lock, PhoneTypeOK, MaybeGeneration
<1> QED BY <1>2, <1>3, <1>4, <1>5

LEMMA NextStep ==
    ASSUME PhoneInvariant, [PhoneNext]_phoneVars
    PROVE  PhoneInvariant' /\ PendingKept /\ CommittedMove /\ NoWayBack
<1>1. ASSUME NEW g \in Generation, SetupTask(g)
      PROVE  PhoneInvariant' /\ PendingKept /\ CommittedMove /\ NoWayBack
  BY <1>1, TaskStep
<1>2. ASSUME NEW g \in Generation, RecoveryRequest(g)
      PROVE  PhoneInvariant' /\ PendingKept /\ CommittedMove /\ NoWayBack
  BY <1>2, RecoveryStep
<1>3. CASE CheckSetup \/ UnlockLoad \/ UnlockInstall \/ Lock
  BY <1>3, AppStep
<1>4. CASE PhoneCrash
  BY <1>4, CrashStep
<1>5. CASE UNCHANGED phoneVars
  <2>1. UNCHANGED <<store, setup, authorized, unlocking, secrets>>
    BY <1>5 DEF phoneVars
  <2>2. PhoneTypeOK /\ Sound(store', Offers) /\ Keeps(store, store')
    BY <2>1 DEF PhoneInvariant, Keeps
  <2> QED BY <2>1, <2>2, ServiceStep DEF PhoneTypeOK
<1> QED BY <1>1, <1>2, <1>3, <1>4, <1>5 DEF PhoneNext

-----------------------------------------------------------------------------
\* The theorems.

\* The initial keystore is empty.
LEMMA InitInvariant == PhoneInit => PhoneInvariant
<1> SUFFICES ASSUME PhoneInit PROVE PhoneInvariant
  OBVIOUS
<1>1. PhoneTypeOK
  BY DEF PhoneInit, PhoneTypeOK, EmptyStore, Store, MaybeGeneration, Stage
<1>2. Named(store) = {None} /\ store.bundles = {}
  BY DEF PhoneInit, EmptyStore, Named
<1>3. Sound(store, Offers)
  BY <1>1 DEF PhoneInit, EmptyStore, PhoneTypeOK, Sound, ActiveWhole, PendingWhole,
     CommitFollows, StagingFollows, NothingForgotten, RetiringApart, ActiveSettled, Offers
<1>4. Fresh
  BY <1>2 DEF Fresh
<1>5. Prepared /\ RequestsOffered
  BY DEF PhoneInit, Prepared, RequestsOffered
<1> QED BY <1>1, <1>3, <1>4, <1>5 DEF PhoneInvariant

\* The roles a generation can play overlap only as PhoneInvariant says, through
\* every failure, crash and interleaving of storage.rs's callers.
THEOREM PhoneInvariantHolds == PhoneSpec => []PhoneInvariant
BY InitInvariant, NextStep, PTL DEF PhoneSpec

\* Every variable keeps its type.
THEOREM PhoneTypeCorrect == PhoneSpec => []PhoneTypeOK
<1>1. PhoneInvariant => PhoneTypeOK
  BY DEF PhoneInvariant
<1> QED BY <1>1, PhoneInvariantHolds, PTL

\* Whatever the desktop may still ask for has both its secrets.
THEOREM RecoveryAlwaysPossible == PhoneSpec => []ReferencedIntact
<1>1. PhoneInvariant => ReferencedIntact
  <2> SUFFICES ASSUME PhoneInvariant, NEW g \in Generation, Offered(g), Referenced(store, g)
               PROVE  KeyBound(store, g)
    BY DEF ReferencedIntact
  <2>1. g \in Offers /\ Sound(store, Offers)
    BY DEF Offers, PhoneInvariant
  <2> QED BY <2>1 DEF Sound, ActiveWhole, PendingWhole, CommitFollows, Referenced
<1> QED BY <1>1, PhoneInvariantHolds, PTL

\* No stored share is out of every cleanup's sight.
THEOREM NothingStoredIsForgotten == PhoneSpec => []NoForgottenShare
<1>1. PhoneInvariant => NoForgottenShare
  <2> SUFFICES ASSUME PhoneInvariant, NEW g \in store.bundles
               PROVE  \E p \in Pointer : store[p] = g
    BY DEF NoForgottenShare
  <2>1. store \in Store /\ g \in Named(store)
    BY DEF PhoneInvariant, Sound, NothingForgotten
  <2> QED BY <2>1 DEF Named, Pointer, Store
<1> QED BY <1>1, PhoneInvariantHolds, PTL

\* An offered pending generation stays pending until it is active.
THEOREM PendingUntilActive == PhoneSpec => PendingSurvives
<1>1. PhoneInvariant /\ [PhoneNext]_phoneVars => PendingKept
  BY NextStep
<1> QED BY <1>1, PhoneInvariantHolds, PTL DEF PhoneSpec, PendingSurvives

\* The active pointer moves to committed generations only.
THEOREM ActiveMovesCommitted == PhoneSpec => HandoverIsCommitted
<1>1. PhoneInvariant /\ [PhoneNext]_phoneVars => CommittedMove
  BY NextStep
<1> QED BY <1>1, PhoneInvariantHolds, PTL DEF PhoneSpec, HandoverIsCommitted

\* A generation the desktop may know of never starts to wait again, and a commit it
\* has been told of is not taken back while the generation waits.
THEOREM CommitsStand == PhoneSpec => [][NoWayBack]_phoneVars
<1>1. PhoneInvariant /\ [PhoneNext]_phoneVars => NoWayBack
  BY NextStep
<1> QED BY <1>1, PhoneInvariantHolds, PTL DEF PhoneSpec

=============================================================================
