----------------------- MODULE PhonePairingInvariant -----------------------
(***************************************************************************)
(* The inductive invariant of PhonePairing, in named parts.  The parts     *)
(* about the keystore are stated for a store s and a set O of offered      *)
(* generations, so that they can be carried through a storage routine call *)
(* by call, where setup does not change.                                   *)
(***************************************************************************)
EXTENDS PhonePairing

\* The generations the pointers name (None among them if a pointer is unset).
Named(s) == {s.active, s.staging, s.pending, s.committed, s.retiring}

ActiveWhole(s, O)   == s.active # None => s.active \in O /\ KeyBound(s, s.active)
PendingWhole(s, O)  == s.pending \in O => KeyBound(s, s.pending)
CommitFollows(s, O) == s.committed # None =>
                          s.committed \in O /\ s.committed \in {s.pending, s.active}
StagingFollows(s)   == s.pending # None => s.staging \in {None, s.pending}
NothingForgotten(s) == s.bundles \subseteq Named(s)
RetiringApart(s)    == s.retiring # None =>
                          s.retiring \notin {s.staging, s.pending, s.committed}
\* An active generation still staged or pending is one whose activation was cut
\* after the pointer moved, and then it is still marked as committed.
ActiveSettled(s)    == s.active # None /\ s.active \in {s.staging, s.pending} =>
                          s.committed = s.active

Sound(s, O) ==
    /\ s \in Store
    /\ ActiveWhole(s, O)
    /\ PendingWhole(s, O)
    /\ CommitFollows(s, O)
    /\ StagingFollows(s)
    /\ NothingForgotten(s)
    /\ RetiringApart(s)
    /\ ActiveSettled(s)

Offers == {g \in Generation : Offered(g)}

\* No pointer names a generation before its setup has begun.
Fresh == \A g \in Generation : setup[g] \in {"unused", "checked"} => g \notin Named(store)

\* What a setup has stored stays until its handshake begins.
Prepared ==
    \A g \in Generation : setup[g] \in {"stored", "signed"} =>
        /\ store.pending = g /\ g \in store.bundles
        /\ setup[g] = "signed" => g \in store.keys

\* The phone has prepared g and has not activated it.
Waiting(g) == store.pending = g /\ store.active # g

\* What a step may never do to a generation a desktop may know of: make it wait
\* (again), or take back its commit while it waits.
NoWayBack ==
    \A g \in Generation : Offered(g) /\ Waiting(g)' =>
        /\ Waiting(g)
        /\ store.committed = g => store'.committed = g

\* Requests wait only for generations that have been offered.
RequestsOffered == \A g \in Generation, kind \in {"commit", "activate"} :
                       <<kind, g>> \in authorized => Offered(g)

\* The inductive invariant.  It says how the five pointers may overlap, and so
\* why each cleanup of storage.rs may delete what it deletes.
PhoneInvariant ==
    /\ PhoneTypeOK
    /\ Sound(store, Offers)
    /\ Fresh
    /\ Prepared
    /\ RequestsOffered

=============================================================================
