------------------------- MODULE PairingSystemProofs -------------------------
(***************************************************************************)
(* SystemInvariant is inductive, for any number of generations, and with   *)
(* it the safety properties of PairingSystem hold, and the refinement of   *)
(* PairingHandover.  First what each routine of paths.rs does to sound     *)
(* files, wherever it is cut; then the phone's steps, which leave the      *)
(* files alone, and the desktop's, which leave the store alone.            *)
(***************************************************************************)
EXTENDS PairingSystemInvariant, PhonePairingProofs

USE NoneIsNoGeneration

-----------------------------------------------------------------------------
\* Single file operations.

FileName == {"vault", "pairing", "pendingVault", "pendingPairing",
             "rollbackVault", "rollbackPairing"}

\* The files in place and the pending ones stay, and the record.
Leaves(d, e) ==
    /\ e \in Disk
    /\ e.vault = d.vault /\ e.pairing = d.pairing
    /\ e.pendingVault = d.pendingVault /\ e.pendingPairing = d.pendingPairing
    /\ e.txn = d.txn

\* The files in place stay; the others, and the record, may go.
Clears(d, e) ==
    /\ e \in Disk
    /\ e.vault = d.vault /\ e.pairing = d.pairing
    /\ e.pendingVault \in {d.pendingVault, None}
    /\ e.pendingPairing \in {d.pendingPairing, None}
    /\ e.txn \in {d.txn, NoTxn}

LEMMA WriteFileOutcome ==
    ASSUME NEW d \in Disk, NEW g \in MaybeGeneration, NEW f \in FileName,
           NEW o \in WriteFile(d, f, g)
    PROVE  /\ o.st = d \/ o.st = [d EXCEPT ![f] = g]
           /\ o.ok => o.st = [d EXCEPT ![f] = g]
           /\ o.st \in Disk
<1>1. [d EXCEPT ![f] = g] \in Disk
  BY DEF Disk, FileName
<1>2. /\ o.st = d \/ o.st = [d EXCEPT ![f] = g]
      /\ o.ok => o.st = [d EXCEPT ![f] = g]
  BY WriteOutcome DEF WriteFile
<1> QED BY <1>1, <1>2

LEMMA WriteTxnOutcome ==
    ASSUME NEW d \in Disk, NEW r \in Txn, NEW o \in WriteTxn(d, r)
    PROVE  /\ o.st = d \/ o.st = [d EXCEPT !.txn = r]
           /\ o.ok => o.st = [d EXCEPT !.txn = r]
           /\ o.st \in Disk
<1>1. [d EXCEPT !.txn = r] \in Disk
  BY DEF Disk
<1>2. /\ o.st = d \/ o.st = [d EXCEPT !.txn = r]
      /\ o.ok => o.st = [d EXCEPT !.txn = r]
  BY WriteOutcome DEF WriteTxn
<1> QED BY <1>1, <1>2

LEMMA NoTxnIsTxn == NoTxn \in Txn
BY DEF NoTxn, Txn, MaybeGeneration

LEMMA RemoveFile ==
    ASSUME NEW d \in Disk,
           NEW f \in {"pendingVault", "pendingPairing", "rollbackVault", "rollbackPairing"},
           NEW o \in Remove(d, f)
    PROVE  /\ Clears(d, o.st)
           /\ f \in {"rollbackVault", "rollbackPairing"} => Leaves(d, o.st)
<1>1. CASE d[f] = None
  <2>1. o.st = d
    BY <1>1, OkOutcome DEF Remove
  <2> QED BY <2>1 DEF Clears, Leaves
<1>2. CASE d[f] # None
  <2>1. o \in WriteFile(d, f, None) /\ None \in MaybeGeneration
    BY <1>2 DEF Remove, MaybeGeneration
  <2>0. f \in FileName
    BY DEF FileName
  <2>2. (o.st = d \/ o.st = [d EXCEPT ![f] = None]) /\ o.st \in Disk
    BY <2>0, <2>1, WriteFileOutcome
  <2>3. CASE f = "pendingVault"
    BY <2>2, <2>3 DEF Clears, Disk
  <2>4. CASE f = "pendingPairing"
    BY <2>2, <2>4 DEF Clears, Disk
  <2>5. CASE f = "rollbackVault"
    BY <2>2, <2>5 DEF Clears, Leaves, Disk
  <2>6. CASE f = "rollbackPairing"
    BY <2>2, <2>6 DEF Clears, Leaves, Disk
  <2> QED BY <2>3, <2>4, <2>5, <2>6
<1> QED BY <1>1, <1>2

LEMMA RemoveRecord ==
    ASSUME NEW d \in Disk, NEW o \in RemoveTxn(d)
    PROVE  /\ Clears(d, o.st)
           /\ o.ok => ~HasTxn(o.st)
<1>1. CASE HasTxn(d)
  <2>1. /\ o.st = d \/ o.st = [d EXCEPT !.txn = NoTxn]
        /\ o.ok => o.st = [d EXCEPT !.txn = NoTxn]
        /\ o.st \in Disk
    BY <1>1, NoTxnIsTxn, WriteTxnOutcome DEF RemoveTxn
  <2> QED BY <2>1 DEF Clears, Disk, HasTxn, NoTxn
<1>2. CASE ~HasTxn(d)
  <2>1. o.st = d
    BY <1>2, OkOutcome DEF RemoveTxn
  <2> QED BY <1>2, <2>1 DEF Clears
<1> QED BY <1>1, <1>2

\* copy_private_file: afterwards the copy exists if the file does.
LEMMA CaptureCopies ==
    ASSUME NEW d \in Disk,
           NEW live \in {"vault", "pairing"},
           NEW copy, copy = (IF live = "vault" THEN "rollbackVault" ELSE "rollbackPairing"),
           NEW o \in Capture(d, live, copy)
    PROVE  /\ Leaves(d, o.st)
           /\ live = "pairing" => o.st.rollbackVault = d.rollbackVault
           /\ o.ok /\ d[live] # None => o.st[copy] # None
<1>1. CASE d[live] = None
  <2>1. o.st = d
    BY <1>1, OkOutcome DEF Capture
  <2> QED BY <1>1, <2>1 DEF Leaves
<1>2. CASE d[live] # None
  <2>1. d[live] \in MaybeGeneration
    BY DEF Disk
  <2>2. o \in WriteFile(d, copy, d[live])
    BY <1>2 DEF Capture
  <2>0. copy \in FileName
    BY DEF FileName
  <2>3. /\ o.st = d \/ o.st = [d EXCEPT ![copy] = d[live]]
        /\ o.ok => o.st = [d EXCEPT ![copy] = d[live]]
        /\ o.st \in Disk
    BY <2>0, <2>1, <2>2, WriteFileOutcome
  <2>4. CASE live = "vault"
    BY <1>2, <2>3, <2>4 DEF Leaves, Disk
  <2>5. CASE live = "pairing"
    BY <1>2, <2>3, <2>5 DEF Leaves, Disk
  <2> QED BY <2>4, <2>5
<1> QED BY <1>1, <1>2

-----------------------------------------------------------------------------
\* The routines of paths.rs.

LEMMA ClearsTransitive ==
    ASSUME NEW d, NEW e, NEW f, Clears(d, e), Clears(e, f)
    PROVE  Clears(d, f)
BY DEF Clears

LEMMA LeavesTransitive ==
    ASSUME NEW d, NEW e, NEW f, Leaves(d, e), Leaves(e, f)
    PROVE  Leaves(d, f)
BY DEF Leaves

\* clear_pending_pairing, wherever it is cut.
LEMMA ClearOutcome ==
    ASSUME NEW d \in Disk, NEW o \in ClearPendingPairing(d)
    PROVE  Clears(d, o.st) /\ (o.ok => ~HasTxn(o.st))
<1>1. PICK a \in Remove(d, "pendingPairing") :
          o \in (IF a.ok
                 THEN Then(Remove(a.st, "pendingVault"), LAMBDA u :
                      Then(RemoveTxn(u), LAMBDA v :
                      Then(Remove(v, "rollbackPairing"), LAMBDA w :
                           Remove(w, "rollbackVault"))))
                 ELSE {a})
  BY DEF ClearPendingPairing, Then
<1>2. Clears(d, a.st) /\ a.st \in Disk
  BY RemoveFile DEF Clears
<1>3. CASE ~a.ok
  BY <1>1, <1>2, <1>3
<1>4. CASE a.ok
  <2>1. PICK b \in Remove(a.st, "pendingVault") :
            o \in (IF b.ok
                   THEN Then(RemoveTxn(b.st), LAMBDA v :
                        Then(Remove(v, "rollbackPairing"), LAMBDA w :
                             Remove(w, "rollbackVault")))
                   ELSE {b})
    BY <1>1, <1>4 DEF Then
  <2>2. Clears(a.st, b.st) /\ b.st \in Disk
    BY <1>2, RemoveFile DEF Clears
  <2>3. Clears(d, b.st)
    BY <1>2, <2>2, ClearsTransitive
  <2>4. CASE ~b.ok
    BY <2>1, <2>3, <2>4
  <2>5. CASE b.ok
    <3>1. PICK c \in RemoveTxn(b.st) :
              o \in (IF c.ok
                     THEN Then(Remove(c.st, "rollbackPairing"), LAMBDA w :
                               Remove(w, "rollbackVault"))
                     ELSE {c})
      BY <2>1, <2>5 DEF Then
    <3>2. Clears(b.st, c.st) /\ c.st \in Disk /\ (c.ok => ~HasTxn(c.st))
      BY <2>2, RemoveRecord DEF Clears
    <3>3. Clears(d, c.st)
      BY <2>3, <3>2, ClearsTransitive
    <3>4. CASE ~c.ok
      BY <3>1, <3>3, <3>4
    <3>5. CASE c.ok
      <4>1. PICK e \in Remove(c.st, "rollbackPairing") :
                o \in (IF e.ok THEN Remove(e.st, "rollbackVault") ELSE {e})
        BY <3>1, <3>5 DEF Then
      <4>2. Clears(c.st, e.st) /\ Leaves(c.st, e.st) /\ e.st \in Disk
        BY <3>2, RemoveFile DEF Clears
      <4>3. Clears(d, e.st)
        BY <3>3, <4>2, ClearsTransitive
      <4>4. CASE ~e.ok
        BY <3>2, <3>5, <4>1, <4>2, <4>3, <4>4 DEF Leaves, HasTxn
      <4>5. CASE e.ok
        <5>1. Clears(e.st, o.st) /\ Leaves(e.st, o.st)
          BY <4>1, <4>2, <4>5, RemoveFile
        <5>2. Clears(d, o.st)
          BY <4>3, <5>1, ClearsTransitive
        <5> QED BY <3>2, <3>5, <4>2, <5>1, <5>2 DEF Leaves, HasTxn
      <4> QED BY <4>4, <4>5
    <3> QED BY <3>4, <3>5
  <2> QED BY <2>4, <2>5
<1> QED BY <1>3, <1>4

\* Nothing that matters is cleared before a transaction is recorded, or after
\* the phone has moved to its generation.
LEMMA ClearSound ==
    ASSUME NEW a \in MaybeGeneration, NEW x, NEW d, FilesSound(d, a, x),
           ~HasTxn(d) \/ d.txn.phase = "FullyActivated",
           NEW o \in ClearPendingPairing(d)
    PROVE  FilesSound(o.st, a, x) /\ Clears(d, o.st) /\ (o.ok => ~HasTxn(o.st))
<1>1. d \in Disk
  BY DEF FilesSound
<1>2. Clears(d, o.st) /\ (o.ok => ~HasTxn(o.st))
  BY <1>1, ClearOutcome
<1>3. FilesSound(o.st, a, x)
  BY <1>2 DEF FilesSound, Clears, HasTxn, NoTxn, InPlace, Promoted
<1> QED BY <1>2, <1>3

\* A pending pair of files, and then the record of it.
LEMMA WritePendingSound ==
    ASSUME NEW a \in MaybeGeneration, NEW x, NEW d, FilesSound(d, a, x), ~HasTxn(d),
           NEW g \in Generation, NEW o \in WritePending(d, g)
    PROVE  /\ FilesSound(o.st, a, x)
           /\ o.st.txn = d.txn /\ o.st.vault = d.vault /\ o.st.pairing = d.pairing
           /\ o.ok => ToPromote(o.st, g)
<1>0. d \in Disk /\ g \in MaybeGeneration
  BY DEF FilesSound, MaybeGeneration
<1>1. PICK b \in WriteFile(d, "pendingVault", g) :
          o \in (IF b.ok THEN WriteFile(b.st, "pendingPairing", g) ELSE {b})
  BY DEF WritePending, Then
<1>2. /\ b.st = d \/ b.st = [d EXCEPT !["pendingVault"] = g]
      /\ b.ok => b.st = [d EXCEPT !["pendingVault"] = g]
      /\ b.st \in Disk
  BY <1>0, WriteFileOutcome DEF FileName
<1>3. /\ b.st.txn = d.txn /\ b.st.vault = d.vault /\ b.st.pairing = d.pairing
      /\ b.ok => b.st.pendingVault = g
  BY <1>0, <1>2 DEF Disk
<1>4. CASE ~b.ok
  BY <1>1, <1>2, <1>3, <1>4 DEF FilesSound, HasTxn, InPlace
<1>5. CASE b.ok
  <2>1. /\ o.st = b.st \/ o.st = [b.st EXCEPT !["pendingPairing"] = g]
        /\ o.ok => o.st = [b.st EXCEPT !["pendingPairing"] = g]
        /\ o.st \in Disk
    BY <1>0, <1>1, <1>2, <1>5, WriteFileOutcome DEF FileName
  <2>2. /\ o.st.txn = d.txn /\ o.st.vault = d.vault /\ o.st.pairing = d.pairing
        /\ o.st.pendingVault = g
        /\ o.ok => o.st.pendingPairing = g
    BY <1>2, <1>3, <1>5, <2>1 DEF Disk
  <2> QED BY <2>1, <2>2 DEF FilesSound, HasTxn, InPlace, ToPromote
<1> QED BY <1>4, <1>5

\* write_transaction_prepared records g only once both copies are there.
LEMMA PrepareSound ==
    ASSUME NEW a \in MaybeGeneration, NEW x, NEW d, FilesSound(d, a, x), ~HasTxn(d),
           NEW g \in Generation, ToPromote(d, g),
           NEW o \in WriteTransactionPrepared(d, g)
    PROVE  /\ FilesSound(o.st, a, x) /\ ToPromote(o.st, g)
           /\ o.st.vault = d.vault /\ o.st.pairing = d.pairing
           /\ o.st.txn = d.txn \/ (o.st.txn.phase = "Prepared" /\ o.st.txn.id = g)
           /\ o.ok => o.st.txn.phase = "Prepared" /\ o.st.txn.id = g
<1> DEFINE r == [phase |-> "Prepared", id |-> g,
                 hadVault |-> d.vault # None, hadPairing |-> d.pairing # None]
<1>0. d \in Disk /\ r \in Txn
  BY DEF FilesSound, Txn, MaybeGeneration, Phase
<1>1. ASSUME NEW e, Leaves(d, e)
      PROVE  FilesSound(e, a, x) /\ ToPromote(e, g)
  BY <1>1 DEF FilesSound, Leaves, HasTxn, InPlace, ToPromote
<1>2. PICK b \in Remove(d, "rollbackPairing") :
          o \in (IF b.ok
                 THEN Then(Remove(b.st, "rollbackVault"), LAMBDA u :
                      Then(Capture(u, "vault", "rollbackVault"), LAMBDA v :
                      Then(Capture(v, "pairing", "rollbackPairing"), LAMBDA w :
                           WriteTxn(w, r))))
                 ELSE {b})
  BY DEF WriteTransactionPrepared, Then
<1>3. Leaves(d, b.st) /\ b.st \in Disk
  BY <1>0, RemoveFile DEF Leaves
<1>4. CASE ~b.ok
  BY <1>1, <1>2, <1>3, <1>4 DEF Leaves
<1>5. CASE b.ok
  <2>1. PICK c \in Remove(b.st, "rollbackVault") :
            o \in (IF c.ok
                   THEN Then(Capture(c.st, "vault", "rollbackVault"), LAMBDA v :
                        Then(Capture(v, "pairing", "rollbackPairing"), LAMBDA w :
                             WriteTxn(w, r)))
                   ELSE {c})
    BY <1>2, <1>5 DEF Then
  <2>2. Leaves(b.st, c.st) /\ c.st \in Disk
    BY <1>3, RemoveFile DEF Leaves
  <2>3. Leaves(d, c.st)
    BY <1>3, <2>2, LeavesTransitive
  <2>4. CASE ~c.ok
    BY <1>1, <2>1, <2>3, <2>4 DEF Leaves
  <2>5. CASE c.ok
    <3>1. PICK e \in Capture(c.st, "vault", "rollbackVault") :
              o \in (IF e.ok
                     THEN Then(Capture(e.st, "pairing", "rollbackPairing"), LAMBDA w :
                               WriteTxn(w, r))
                     ELSE {e})
      BY <2>1, <2>5 DEF Then
    <3>2. /\ Leaves(c.st, e.st) /\ e.st \in Disk
          /\ e.ok /\ c.st["vault"] # None => e.st["rollbackVault"] # None
      BY <2>2, CaptureCopies DEF Leaves
    <3>3. Leaves(d, e.st) /\ (e.ok /\ d.vault # None => e.st.rollbackVault # None)
      BY <2>3, <3>2, LeavesTransitive DEF Leaves, Disk
    <3>4. CASE ~e.ok
      BY <1>1, <3>1, <3>3, <3>4 DEF Leaves
    <3>5. CASE e.ok
      <4>1. PICK f \in Capture(e.st, "pairing", "rollbackPairing") :
                o \in (IF f.ok THEN WriteTxn(f.st, r) ELSE {f})
        BY <3>1, <3>5 DEF Then
      <4>2. /\ Leaves(e.st, f.st) /\ f.st \in Disk
            /\ f.st.rollbackVault = e.st.rollbackVault
            /\ f.ok /\ e.st["pairing"] # None => f.st["rollbackPairing"] # None
        BY <3>2, CaptureCopies DEF Leaves
      <4>3. /\ Leaves(d, f.st)
            /\ d.vault # None => f.st.rollbackVault # None
            /\ f.ok /\ d.pairing # None => f.st.rollbackPairing # None
        BY <3>3, <3>5, <4>2, LeavesTransitive DEF Leaves, Disk
      <4>4. CASE ~f.ok
        BY <1>1, <4>1, <4>3, <4>4 DEF Leaves
      <4>5. CASE f.ok
        <5>1. /\ o.st = f.st \/ o.st = [f.st EXCEPT !.txn = r]
              /\ o.ok => o.st = [f.st EXCEPT !.txn = r]
              /\ o.st \in Disk
          BY <1>0, <4>1, <4>2, <4>5, WriteTxnOutcome
        <5>2. CASE o.st = f.st /\ ~o.ok
          BY <1>1, <4>3, <5>2 DEF Leaves
        <5>3. CASE o.st = [f.st EXCEPT !.txn = r]
          <6>1. /\ o.st.vault = d.vault /\ o.st.pairing = d.pairing
                /\ o.st.pendingVault = g /\ o.st.pendingPairing = g
                /\ o.st.rollbackVault = f.st.rollbackVault
                /\ o.st.rollbackPairing = f.st.rollbackPairing
                /\ o.st.txn = r
            BY <4>2, <4>3, <5>3 DEF Leaves, Disk, ToPromote
          <6>2. /\ o.st.txn.phase = "Prepared" /\ o.st.txn.id = g /\ HasTxn(o.st)
                /\ o.st.txn.hadVault = (d.vault # None)
                /\ o.st.txn.hadPairing = (d.pairing # None)
            BY <6>1 DEF HasTxn
          <6>3. Rollbacks(o.st) /\ InPlace(o.st, a, x) /\ ToPromote(o.st, g)
            BY <4>3, <4>5, <6>1, <6>2 DEF Rollbacks, InPlace, ToPromote, FilesSound
          <6> QED BY <5>1, <6>1, <6>2, <6>3 DEF FilesSound
        <5> QED BY <5>1, <5>2, <5>3
      <4> QED BY <4>4, <4>5
    <3> QED BY <3>4, <3>5
  <2> QED BY <2>4, <2>5
<1> QED BY <1>4, <1>5

\* advance_transaction moves the recorded phase, or leaves it.
LEMMA AdvanceOutcome ==
    ASSUME NEW d \in Disk, NEW phase \in Phase, NEW g, d.txn.id = g,
           NEW o \in AdvanceTransaction(d, phase, g)
    PROVE  /\ o.st.vault = d.vault /\ o.st.pairing = d.pairing
           /\ o.st.pendingVault = d.pendingVault /\ o.st.pendingPairing = d.pendingPairing
           /\ o.st.rollbackVault = d.rollbackVault
           /\ o.st.rollbackPairing = d.rollbackPairing
           /\ o.st.txn.id = d.txn.id
           /\ o.st.txn.hadVault = d.txn.hadVault /\ o.st.txn.hadPairing = d.txn.hadPairing
           /\ o.st.txn.phase \in {d.txn.phase, phase}
           /\ o.ok => o.st.txn.phase = phase
           /\ o.st \in Disk
<1>1. [d.txn EXCEPT !.phase = phase] \in Txn
  BY DEF Disk, Txn
<1>2. o \in WriteTxn(d, [d.txn EXCEPT !.phase = phase])
  BY DEF AdvanceTransaction
<1>3. /\ o.st = d \/ o.st = [d EXCEPT !.txn = [d.txn EXCEPT !.phase = phase]]
      /\ o.ok => o.st = [d EXCEPT !.txn = [d.txn EXCEPT !.phase = phase]]
      /\ o.st \in Disk
  BY <1>1, <1>2, WriteTxnOutcome
<1>4. CASE o.st = d /\ ~o.ok
  BY <1>3, <1>4
<1>5. CASE o.st = [d EXCEPT !.txn = [d.txn EXCEPT !.phase = phase]]
  <2>1. o.st.txn = [d.txn EXCEPT !.phase = phase]
    BY <1>5 DEF Disk
  <2>2. /\ o.st.txn.phase = phase /\ o.st.txn.id = d.txn.id
        /\ o.st.txn.hadVault = d.txn.hadVault /\ o.st.txn.hadPairing = d.txn.hadPairing
    BY <2>1 DEF Disk, Txn
  <2> QED BY <1>3, <1>5, <2>2 DEF Disk
<1> QED BY <1>3, <1>4, <1>5

\* Advancing the record keeps the files sound when the files and the phone have
\* come as far as the new phase says.
LEMMA AdvanceSound ==
    ASSUME NEW a \in MaybeGeneration, NEW x, NEW d, FilesSound(d, a, x), HasTxn(d),
           NEW phase \in Phase,
           \/ d.txn.phase = "Prepared" /\ phase = "PhoneCommitted"
           \/ d.txn.phase = "PhoneCommitted" /\ phase = "LocallyActivated"
                 /\ Promoted(d, d.txn.id)
           \/ d.txn.phase = "LocallyActivated" /\ phase = "FullyActivated" /\ d.txn.id = a,
           NEW o \in AdvanceTransaction(d, phase, d.txn.id)
    PROVE  /\ FilesSound(o.st, a, x)
           /\ o.st.vault = d.vault /\ o.st.pairing = d.pairing
           /\ o.st.txn.id = d.txn.id
           /\ o.st.txn.phase \in {d.txn.phase, phase}
           /\ o.ok => o.st.txn.phase = phase
<1>1. d \in Disk
  BY DEF FilesSound
<1>2. /\ o.st.vault = d.vault /\ o.st.pairing = d.pairing
      /\ o.st.pendingVault = d.pendingVault /\ o.st.pendingPairing = d.pendingPairing
      /\ o.st.rollbackVault = d.rollbackVault
      /\ o.st.rollbackPairing = d.rollbackPairing
      /\ o.st.txn.id = d.txn.id
      /\ o.st.txn.hadVault = d.txn.hadVault /\ o.st.txn.hadPairing = d.txn.hadPairing
      /\ o.st.txn.phase \in {d.txn.phase, phase}
      /\ o.ok => o.st.txn.phase = phase
      /\ o.st \in Disk
  BY <1>1, AdvanceOutcome
<1>3. FilesSound(o.st, a, x)
  BY <1>2 DEF FilesSound, HasTxn, InPlace, Rollbacks, ToPromote, HalfPromoted, Promoted, Phase
<1> QED BY <1>2, <1>3

\* promote_pending_pairing: one rename, or none if it has already happened.
LEMMA PromoteOutcome ==
    ASSUME NEW d \in Disk,
           NEW live \in {"vault", "pairing"}, NEW pending,
           pending = (IF live = "vault" THEN "pendingVault" ELSE "pendingPairing"),
           NEW o \in Promote(d, pending, live)
    PROVE  /\ o.st \in Disk /\ o.st.txn = d.txn
           /\ o.st.rollbackVault = d.rollbackVault
           /\ o.st.rollbackPairing = d.rollbackPairing
           /\ \/ o.st = d /\ (o.ok => d[pending] = None)
              \/ d[pending] # None /\ o.st[live] = d[pending] /\ o.st[pending] = None
           /\ live = "vault" => /\ o.st.pairing = d.pairing
                                /\ o.st.pendingPairing = d.pendingPairing
           /\ live = "pairing" => /\ o.st.vault = d.vault
                                  /\ o.st.pendingVault = d.pendingVault
<1>1. CASE d[pending] = None
  <2>1. o.st = d
    BY <1>1, OkOutcome, FailOutcome DEF Promote
  <2> QED BY <1>1, <2>1
<1>2. CASE d[pending] # None
  <2>1. /\ o.st = d \/ o.st = [d EXCEPT ![live] = d[pending], ![pending] = None]
        /\ o.ok => o.st = [d EXCEPT ![live] = d[pending], ![pending] = None]
    BY <1>2, WriteOutcome DEF Promote
  <2>2. CASE o.st = d /\ ~o.ok
    BY <2>2
  <2>3. CASE o.st = [d EXCEPT ![live] = d[pending], ![pending] = None]
    <3>1. CASE live = "vault"
      BY <1>2, <2>3, <3>1 DEF Disk, MaybeGeneration
    <3>2. CASE live = "pairing"
      BY <1>2, <2>3, <3>2 DEF Disk, MaybeGeneration
    <3> QED BY <3>1, <3>2
  <2> QED BY <2>1, <2>2, <2>3
<1> QED BY <1>1, <1>2

\* However often promotion is cut and repeated, the files are in one of three
\* states, in an order that ends with both in place.
LEMMA PromoteSound ==
    ASSUME NEW a \in MaybeGeneration, NEW x, NEW d, FilesSound(d, a, x),
           d.txn.phase = "PhoneCommitted", NEW o \in PromotePendingPairing(d)
    PROVE  /\ FilesSound(o.st, a, x) /\ o.st.txn = d.txn
           /\ o.ok => Promoted(o.st, d.txn.id)
           /\ o.st.vault = d.vault \/ (InPlace(d, a, x) /\ o.st.vault = d.txn.id)
<1> DEFINE g == d.txn.id
<1>1. /\ d \in Disk /\ Rollbacks(d) /\ g # None /\ HasTxn(d)
      /\ \/ InPlace(d, a, x) /\ ToPromote(d, g)
         \/ d.pairing = a /\ HalfPromoted(d, g)
         \/ Promoted(d, g)
  BY DEF FilesSound, HasTxn
<1>2. PICK b \in Promote(d, "pendingVault", "vault") :
          o \in (IF b.ok THEN Promote(b.st, "pendingPairing", "pairing") ELSE {b})
  BY <1>1 DEF PromotePendingPairing, Then, Rollbacks
<1>3. /\ b.st \in Disk /\ b.st.txn = d.txn
      /\ b.st.rollbackVault = d.rollbackVault /\ b.st.rollbackPairing = d.rollbackPairing
      /\ b.st.pairing = d.pairing /\ b.st.pendingPairing = d.pendingPairing
      /\ \/ b.st = d /\ (b.ok => d.pendingVault = None)
         \/ /\ d.pendingVault # None
            /\ b.st.vault = d.pendingVault /\ b.st.pendingVault = None
  BY <1>1, PromoteOutcome
<1>4. /\ Rollbacks(b.st)
      /\ \/ b.st = d /\ ~b.ok
         \/ d.pairing = a /\ HalfPromoted(b.st, g)
         \/ Promoted(b.st, g)
  BY <1>1, <1>3 DEF Rollbacks, InPlace, ToPromote, HalfPromoted, Promoted
<1>5. /\ FilesSound(b.st, a, x)
      /\ b.st.vault = d.vault \/ (InPlace(d, a, x) /\ b.st.vault = g)
  BY <1>1, <1>3, <1>4 DEF FilesSound, HasTxn, ToPromote, HalfPromoted, Promoted
<1>6. CASE ~b.ok
  BY <1>2, <1>3, <1>5, <1>6
<1>7. CASE b.ok
  <2>1. /\ o.st \in Disk /\ o.st.txn = d.txn
        /\ o.st.rollbackVault = d.rollbackVault /\ o.st.rollbackPairing = d.rollbackPairing
        /\ o.st.vault = b.st.vault /\ o.st.pendingVault = b.st.pendingVault
        /\ \/ o.st = b.st /\ (o.ok => b.st.pendingPairing = None)
           \/ /\ b.st.pendingPairing # None
              /\ o.st.pairing = b.st.pendingPairing /\ o.st.pendingPairing = None
    BY <1>2, <1>3, <1>7, PromoteOutcome
  <2>2. /\ Rollbacks(o.st)
        /\ \/ o.st = b.st /\ (o.ok => Promoted(o.st, g))
           \/ Promoted(o.st, g)
    BY <1>1, <1>4, <1>7, <2>1 DEF Rollbacks, HalfPromoted, Promoted
  <2>3. FilesSound(o.st, a, x)
    BY <1>1, <1>5, <2>1, <2>2 DEF FilesSound, HasTxn
  <2> QED BY <1>5, <2>1, <2>2, <2>3
<1> QED BY <1>6, <1>7

\* recover_transaction, in every phase, wherever it is cut.
LEMMA RecoverSound ==
    ASSUME NEW a \in MaybeGeneration, NEW x, NEW d, FilesSound(d, a, x),
           NEW o \in RecoverTransaction(d)
    PROVE  /\ FilesSound(o.st, a, x)
           /\ d.txn.phase \in {"Prepared", "LocallyActivated"} => o.st = d /\ o.ok
           /\ d.txn.phase = "PhoneCommitted" =>
                 /\ o.st.txn.id = d.txn.id
                 /\ o.st.txn.phase \in {"PhoneCommitted", "LocallyActivated"}
                 /\ o.ok => o.st.txn.phase = "LocallyActivated"
                 /\ o.st.vault = d.vault \/ (InPlace(d, a, x) /\ o.st.vault = d.txn.id)
           /\ d.txn.phase \in {"none", "FullyActivated"} =>
                 Clears(d, o.st) /\ (o.ok => ~HasTxn(o.st))
<1>0. d \in Disk /\ d.txn.phase \in Phase \cup {"none"}
  BY DEF FilesSound, Disk, Txn
<1>1. CASE d.txn.phase = "none"
  <2>1. CASE HasLeftovers(d)
    <3>1. o \in ClearPendingPairing(d)
      BY <1>1, <2>1 DEF RecoverTransaction, HasTxn
    <3> QED BY <1>1, <3>1, ClearSound DEF HasTxn
  <2>2. CASE ~HasLeftovers(d)
    <3>1. o.st = d
      BY <1>1, <2>2, OkOutcome DEF RecoverTransaction, HasTxn
    <3> QED BY <1>0, <1>1, <3>1 DEF Clears, HasTxn
  <2> QED BY <2>1, <2>2
<1>2. CASE d.txn.phase = "FullyActivated"
  <2>1. o \in ClearPendingPairing(d)
    BY <1>2 DEF RecoverTransaction, HasTxn
  <2> QED BY <1>2, <2>1, ClearSound
<1>3. CASE d.txn.phase \in {"Prepared", "LocallyActivated"}
  <2>1. o \in Ok(d)
    BY <1>3 DEF RecoverTransaction, HasTxn
  <2> QED BY <1>3, <2>1, OkOutcome
<1>4. CASE d.txn.phase = "PhoneCommitted"
  <2>1. PICK b \in PromotePendingPairing(d) :
            o \in (IF b.ok THEN AdvanceTransaction(b.st, "LocallyActivated", d.txn.id)
                   ELSE {b})
    BY <1>4 DEF RecoverTransaction, HasTxn, Then
  <2>2. /\ FilesSound(b.st, a, x) /\ b.st.txn = d.txn
        /\ b.ok => Promoted(b.st, d.txn.id)
        /\ b.st.vault = d.vault \/ (InPlace(d, a, x) /\ b.st.vault = d.txn.id)
    BY <1>4, <2>1, PromoteSound
  <2>3. CASE ~b.ok
    BY <1>4, <2>1, <2>2, <2>3
  <2>4. CASE b.ok
    <3>1. "LocallyActivated" \in Phase /\ HasTxn(b.st)
      BY <1>4, <2>2 DEF Phase, HasTxn
    <3>2. o \in AdvanceTransaction(b.st, "LocallyActivated", b.st.txn.id)
      BY <2>1, <2>2, <2>4
    <3>3. /\ FilesSound(o.st, a, x)
          /\ o.st.vault = b.st.vault /\ o.st.txn.id = b.st.txn.id
          /\ o.st.txn.phase \in {b.st.txn.phase, "LocallyActivated"}
          /\ o.ok => o.st.txn.phase = "LocallyActivated"
      BY <1>4, <2>2, <2>4, <3>1, <3>2, AdvanceSound
    <3> QED BY <1>4, <2>2, <3>3
  <2> QED BY <2>3, <2>4
<1> QED BY <1>0, <1>1, <1>2, <1>3, <1>4 DEF Phase

-----------------------------------------------------------------------------
\* The phone's steps: the files stand still.

\* A message the phone may add to the wire, and what must be true of it then.
Answer(m) ==
    /\ m \in Message /\ Offered(m.id)'
    /\ m.type \in FromPhone \cup {"RecoverAck"}
    /\ m.type = "Ready" => setup'[m.id] # "helloSent"
    /\ m.type = "CommitAck" /\ Waiting(m.id)' => store'.committed = m.id
    /\ m.type = "ActivateAck" => ~Waiting(m.id)'
    /\ m.type = "RecoverAck" =>
          /\ pc = "resuming" /\ disk.txn.id = m.id
          /\ Waiting(m.id)' => store'.committed = m.id
          /\ disk.txn.phase = "LocallyActivated" => store'.active = m.id

\* What PairingSystem needs to know of a step of the phone.
LEMMA PhoneFrame ==
    ASSUME SystemInvariant, UNCHANGED <<disk, pc, offer, session, stray, calm>>,
           PhoneInvariant', PendingKept, CommittedMove, NoWayBack,
           \A g \in Generation : Offered(g) => Offered(g)',
           store'.active # store.active => ActivationAsked(store'.active),
           \A g \in Generation : setup'[g] = "helloSent" /\ setup[g] # "helloSent" =>
              ~Offered(g) /\ Waiting(g)',
           \A g \in Generation : <<"activate", g>> \in authorized' =>
              <<"activate", g>> \in authorized \/ Msg("RecoverActivate", g) \in wire,
           \A m \in wire' : m \in wire \/ Answer(m)
    PROVE  SystemInvariant' /\ PhoneMove
<1>1. /\ store \in Store /\ store' \in Store /\ disk \in Disk /\ disk' = disk
      /\ disk.txn.id \in MaybeGeneration /\ offer \in MaybeGeneration
  BY DEF SystemInvariant, PhoneInvariant, Sound, FilesSound, DesktopTypeOK, Disk, Txn
<1>2. \A g \in Generation :
         /\ Offered(g) /\ Waiting(g)' => Waiting(g) /\ (store.committed = g => store'.committed = g)
         /\ Offered(g) /\ Waiting(g) => Waiting(g)' \/ store'.active = g
  BY DEF NoWayBack, PendingKept, Waiting
\* Only a generation that the desktop has moved to becomes active.
<1>3. ASSUME store'.active # store.active
      PROVE  /\ disk.txn.id = store'.active /\ disk.txn.phase = "LocallyActivated"
             /\ store'.active \in Generation
             /\ store.committed = store'.active /\ Promoted(disk, store'.active)
  <2>1. /\ store'.active \in Generation /\ Waiting(store'.active)
        /\ store.committed = store'.active
    BY <1>1, <1>3 DEF CommittedMove, Store, MaybeGeneration, Waiting
  <2>2. disk.txn.id = store'.active /\ disk.txn.phase = "LocallyActivated"
    BY <1>3, <2>1 DEF SystemInvariant, ActivationsFollow
  <2> QED BY <2>1, <2>2 DEF SystemInvariant, FilesSound
<1>4. DesktopTypeOK' /\ (wire \subseteq Message)' /\ (calm \in BOOLEAN)'
  BY DEF SystemInvariant, DesktopTypeOK, Answer
<1>5. FilesSound(disk, store.active, stray)'
  <2>1. CASE store'.active = store.active
    BY <1>1, <2>1 DEF SystemInvariant
  <2>2. CASE store'.active # store.active
    BY <1>1, <1>3, <2>2 DEF SystemInvariant, FilesSound, HasTxn
  <2> QED BY <2>1, <2>2
<1>6. NamesOffered'
  <2>1. \A m \in wire' : Offered(m.id)'
    BY DEF SystemInvariant, NamesOffered, Answer, Message
  <2>2. /\ offer # None => Offered(offer)'
        /\ HasTxn(disk) => Offered(disk.txn.id)'
    BY <1>1 DEF SystemInvariant, NamesOffered, FilesSound, MaybeGeneration
  <2> QED BY <1>1, <2>1, <2>2 DEF NamesOffered
<1>7. HasTxn(disk) => disk.txn.id \in Generation /\ Offered(disk.txn.id)
  BY <1>1 DEF SystemInvariant, NamesOffered, FilesSound, MaybeGeneration
<1>8. PhoneFollows'
  BY <1>1, <1>2, <1>3, <1>7 DEF SystemInvariant, PhoneFollows, HasTxn, Waiting
<1>9. PlaceFits'
  <2>1. ASSUME pc = "awaitReady"
        PROVE  offer # None /\ Waiting(offer)' /\ ToPromote(disk, offer)
    <3>1. /\ ~HasTxn(disk) /\ offer # None /\ Waiting(offer) /\ ToPromote(disk, offer)
          /\ offer \in Generation /\ Offered(offer)
      BY <1>1, <2>1 DEF SystemInvariant, PlaceFits, NamesOffered, MaybeGeneration
    <3>2. store'.active = store.active
      BY <1>3, <3>1 DEF HasTxn
    <3> QED BY <1>2, <3>1, <3>2 DEF Waiting
  <2>2. ASSUME pc = "awaitClose"
        PROVE  store'.active = offer
    BY <1>3, <2>2 DEF SystemInvariant, PlaceFits
  <2> QED BY <1>1, <2>1, <2>2 DEF SystemInvariant, PlaceFits, Waiting
<1>10. HelloIsFirst'
  <2> SUFFICES ASSUME NEW g \in Generation, setup'[g] = "helloSent"
               PROVE  Waiting(g)' /\ disk.txn.id # g /\ Msg("Ready", g) \notin wire'
    BY <1>1 DEF HelloIsFirst
  <2>1. ~Answer(Msg("Ready", g))
    BY DEF Answer, Msg
  <2>2. CASE setup[g] = "helloSent"
    <3>1. Offered(g) /\ Waiting(g) /\ disk.txn.id # g /\ Msg("Ready", g) \notin wire
      BY <2>2 DEF SystemInvariant, HelloIsFirst, Offered, Handshake
    <3>2. store'.active # g
      BY <1>3, <3>1 DEF Waiting
    <3> QED BY <1>2, <2>1, <3>1, <3>2
  <2>3. CASE setup[g] # "helloSent"
    <3>1. ~Offered(g) /\ Waiting(g)'
      BY <2>3
    <3>2. Msg("Ready", g) \notin wire
      BY <3>1 DEF SystemInvariant, NamesOffered, Msg
    <3>3. disk.txn.id # g
      BY <1>7, <3>1 DEF SystemInvariant, FilesSound
    <3> QED BY <2>1, <3>1, <3>2, <3>3
  <2> QED BY <2>2, <2>3
<1>11. \A g \in Generation : ActivationAsked(g)' => ActivationAsked(g) /\ Offered(g)
  <2> SUFFICES ASSUME NEW g \in Generation, ActivationAsked(g)'
               PROVE  ActivationAsked(g) /\ Offered(g)
    OBVIOUS
  <2>1. ~Answer(Msg("Activate", g)) /\ ~Answer(Msg("RecoverActivate", g))
    BY DEF Answer, Msg, FromPhone
  <2>2. ActivationAsked(g)
    BY <2>1 DEF ActivationAsked
  <2>3. Msg("Activate", g) \in wire \/ Msg("RecoverActivate", g) \in wire => Offered(g)
    BY DEF SystemInvariant, NamesOffered, Msg
  <2>4. <<"activate", g>> \in authorized => Offered(g)
    BY DEF SystemInvariant, PhoneInvariant, RequestsOffered
  <2> QED BY <2>2, <2>3, <2>4 DEF ActivationAsked
<1>12. ActivationsFollow'
  BY <1>1, <1>2, <1>11 DEF SystemInvariant, ActivationsFollow
<1>13. AcksHold'
  <2> SUFFICES ASSUME NEW g \in Generation
               PROVE  /\ Msg("CommitAck", g) \in wire' /\ Waiting(g)' => store'.committed = g
                      /\ Msg("ActivateAck", g) \in wire' => ~Waiting(g)'
                      /\ Msg("RecoverAck", g) \in wire' =>
                            /\ pc = "resuming" /\ disk.txn.id = g
                            /\ Waiting(g)' => store'.committed = g
                            /\ disk.txn.phase = "LocallyActivated" => store'.active = g
    BY <1>1 DEF AcksHold
  <2>1. /\ Msg("CommitAck", g).type = "CommitAck" /\ Msg("CommitAck", g).id = g
        /\ Msg("ActivateAck", g).type = "ActivateAck" /\ Msg("ActivateAck", g).id = g
        /\ Msg("RecoverAck", g).type = "RecoverAck" /\ Msg("RecoverAck", g).id = g
    BY DEF Msg
  <2>2. \A m \in wire : Offered(m.id)
    BY DEF SystemInvariant, NamesOffered
  <2>3. Msg("CommitAck", g) \in wire' /\ Waiting(g)' => store'.committed = g
    BY <1>2, <2>1, <2>2 DEF SystemInvariant, AcksHold, Answer
  <2>4. Msg("ActivateAck", g) \in wire' => ~Waiting(g)'
    BY <1>2, <2>1, <2>2 DEF SystemInvariant, AcksHold, Answer
  <2>5. Msg("RecoverAck", g) \in wire' =>
              /\ pc = "resuming" /\ disk.txn.id = g
              /\ Waiting(g)' => store'.committed = g
              /\ disk.txn.phase = "LocallyActivated" => store'.active = g
    BY <1>2, <1>3, <2>1, <2>2 DEF SystemInvariant, AcksHold, Answer
  <2> QED BY <2>3, <2>4, <2>5
<1>14. PhoneMove
  BY <1>3 DEF PhoneMove
<1>15. SessionsPaired'
  <2>1. session \in MaybeGeneration /\ stray \in MaybeGeneration
    BY DEF SystemInvariant, DesktopTypeOK
  <2> QED BY <1>2, <2>1 DEF SystemInvariant, SessionsPaired, HasBeenActive, MaybeGeneration
<1>16. SessionFits'
  BY DEF SystemInvariant, SessionFits, Relapsed
<1> QED
  BY <1>4, <1>5, <1>6, <1>8, <1>9, <1>10, <1>12, <1>13, <1>14, <1>15, <1>16 DEF SystemInvariant

\* A step of the setup task of g.
LEMMA TaskFrame ==
    ASSUME SystemInvariant, UNCHANGED <<disk, pc, offer, session, stray, calm>>,
           NEW g \in Generation, SetupTask(g), UNCHANGED authorized,
           NEW to \in Stage, setup' = [setup EXCEPT ![g] = to],
           Offered(g) => to \in Handshake \cup {"over"},
           to = "helloSent" => setup[g] = "signed" /\ store' = store,
           store'.active # store.active => Msg("Activate", store'.active) \in wire,
           \A m \in wire' : m \in wire \/ Answer(m)
    PROVE  SystemInvariant' /\ PhoneMove
<1>1. PhoneInvariant' /\ PendingKept /\ CommittedMove /\ NoWayBack
  BY TaskStep DEF SystemInvariant
<1>2. setup'[g] = to /\ \A h \in Generation \ {g} : setup'[h] = setup[h]
  BY StageStep DEF SystemInvariant, PhoneInvariant
<1>3. \A h \in Generation : Offered(h) => Offered(h)'
  BY <1>2 DEF Offered
<1>4. \A h \in Generation : setup'[h] = "helloSent" /\ setup[h] # "helloSent" =>
         ~Offered(h) /\ Waiting(h)'
  <2> SUFFICES ASSUME to = "helloSent"
               PROVE  ~Offered(g) /\ Waiting(g)'
    BY <1>2
  <2>1. ~Offered(g) /\ store' = store
    BY DEF Offered, Handshake
  <2>2. store.pending = g /\ store.active # g
    BY <2>1 DEF SystemInvariant, PhoneInvariant, Prepared, Sound, ActiveWhole, Offers
  <2> QED BY <2>1, <2>2 DEF Waiting
<1>5. store'.active # store.active => ActivationAsked(store'.active)
  BY DEF ActivationAsked
<1> QED BY <1>1, <1>3, <1>4, <1>5, PhoneFrame

LEMMA HandshakeStages ==
    /\ Handshake \subseteq Stage /\ {"over", "aborted"} \subseteq Stage
    /\ Handshake = {"helloSent", "readySent", "committed", "activated", "closed"}
BY DEF Stage, Handshake

\* Each step of the handshake adds at most the answer that is true after it.
LEMMA PhoneHandshakeStep ==
    ASSUME SystemInvariant, NEW g \in Generation, PhoneHandshake(g)
    PROVE  SystemInvariant' /\ PhoneMove
<1>0. UNCHANGED <<disk, pc, offer, session, stray, calm>> /\ PhoneTypeOK
  BY DEF PhoneHandshake, desktopVars, SystemInvariant, PhoneInvariant
<1>1. \A t \in FromPhone : Msg(t, g) \in Message /\ Msg(t, g).type = t /\ Msg(t, g).id = g
  BY DEF Msg, Message
<1>2. CASE SendHello(g) /\ wire' = wire \cup {Msg("Hello", g)}
  <2>1. /\ setup[g] = "signed" /\ setup' = [setup EXCEPT ![g] = "helloSent"]
        /\ UNCHANGED <<store, authorized>> /\ SetupTask(g)
    BY <1>2 DEF SendHello, Step, SetupTask
  <2>2. "helloSent" \in Stage \cap Handshake
    BY HandshakeStages
  <2>3. setup'[g] = "helloSent"
    BY <1>0, <2>1, <2>2, StageStep
  <2>4. Answer(Msg("Hello", g))
    BY <1>1, <2>2, <2>3 DEF Answer, Offered, FromPhone
  <2> QED BY <1>0, <1>2, <2>1, <2>2, <2>4, TaskFrame
<1>3. CASE /\ ReceivePrepared(g)
           /\ wire' = (wire \ {Msg("Prepared", g)}) \cup ToDesktop("Ready", g)
  <2>1. /\ setup' = [setup EXCEPT ![g] = "readySent"]
        /\ UNCHANGED <<store, authorized>> /\ SetupTask(g)
    BY <1>3 DEF ReceivePrepared, Step, SetupTask
  <2>2. "readySent" \in Stage \cap Handshake
    BY HandshakeStages
  <2>3. setup'[g] = "readySent"
    BY <1>0, <2>1, <2>2, StageStep
  <2>4. Answer(Msg("Ready", g))
    BY <1>1, <2>2, <2>3 DEF Answer, Offered, FromPhone
  <2>5. \A m \in wire' : m \in wire \/ Answer(m)
    BY <1>3, <2>4 DEF ToDesktop
  <2> QED BY <1>0, <2>1, <2>2, <2>5, TaskFrame
<1>4. CASE /\ ReceiveCommit(g)
           /\ wire' = (wire \ {Msg("Commit", g)})
                        \cup (IF setup'[g] = "committed" THEN ToDesktop("CommitAck", g) ELSE {})
  <2>1. PICK o \in CommitPendingGeneration(store, g) :
            store' = o.st /\ setup' = [setup EXCEPT ![g] = IF o.ok THEN "committed" ELSE "over"]
    BY <1>4 DEF ReceiveCommit, SetupCall
  <2>2. setup[g] = "readySent" /\ UNCHANGED authorized /\ SetupTask(g)
    BY <1>4 DEF ReceiveCommit, SetupCall, SetupTask
  <2>3. g \in Offers
    BY <2>2, HandshakeStages DEF Offers, Offered
  <2>4. Keeps(store, store') /\ (o.ok => g \in {store'.active, store'.committed})
    BY <2>1, <2>3, CommitSound DEF SystemInvariant, PhoneInvariant, Offers
  <2>5. PICK to \in {"committed", "over"} :
            setup' = [setup EXCEPT ![g] = to] /\ (to = "committed" => o.ok)
    BY <2>1
  <2>6. to \in Stage \cap (Handshake \cup {"over"})
    BY HandshakeStages
  <2>7. setup'[g] = to
    BY <1>0, <2>5, <2>6, StageStep
  <2>8. to = "committed" => Answer(Msg("CommitAck", g))
    BY <1>1, <2>4, <2>5, <2>6, <2>7 DEF Answer, Offered, FromPhone, Waiting
  <2>9. \A m \in wire' : m \in wire \/ Answer(m)
    BY <1>4, <2>7, <2>8 DEF ToDesktop
  <2>10. store'.active = store.active
    BY <2>4 DEF Keeps
  <2> QED BY <1>0, <2>2, <2>5, <2>6, <2>9, <2>10, TaskFrame
<1>5. CASE /\ Msg("Activate", g) \in wire /\ ReceiveActivate(g)
           /\ wire' = (wire \ {Msg("Activate", g)})
                        \cup (IF setup'[g] = "activated" THEN ToDesktop("ActivateAck", g) ELSE {})
  <2>1. PICK o \in ActivateGeneration(store, g) :
            store' = o.st /\ setup' = [setup EXCEPT ![g] = IF o.ok THEN "activated" ELSE "over"]
    BY <1>5 DEF ReceiveActivate, SetupCall
  <2>2. setup[g] = "committed" /\ UNCHANGED authorized /\ SetupTask(g)
    BY <1>5 DEF ReceiveActivate, SetupCall, SetupTask
  <2>3. g \in Offers
    BY <2>2, HandshakeStages DEF Offers, Offered
  <2>4. (Keeps(store, store') \/ Moves(store, store', g)) /\ (o.ok => store'.active = g)
    BY <2>1, <2>3, ActivateSound DEF SystemInvariant, PhoneInvariant, Offers
  <2>5. PICK to \in {"activated", "over"} :
            setup' = [setup EXCEPT ![g] = to] /\ (to = "activated" => o.ok)
    BY <2>1
  <2>6. to \in Stage \cap (Handshake \cup {"over"})
    BY HandshakeStages
  <2>7. setup'[g] = to
    BY <1>0, <2>5, <2>6, StageStep
  <2>8. to = "activated" => Answer(Msg("ActivateAck", g))
    BY <1>1, <2>4, <2>5, <2>6, <2>7 DEF Answer, Offered, FromPhone, Waiting
  <2>9. \A m \in wire' : m \in wire \/ Answer(m)
    BY <1>5, <2>7, <2>8 DEF ToDesktop
  <2>10. store'.active # store.active => Msg("Activate", store'.active) \in wire
    BY <1>5, <2>4 DEF Keeps, Moves
  <2> QED BY <1>0, <2>2, <2>5, <2>6, <2>9, <2>10, TaskFrame
<1>6. CASE ReceiveClose(g) /\ wire' = (wire \ {Msg("Eof", g)}) \cup ToDesktop("Close", g)
  <2>1. /\ setup' = [setup EXCEPT ![g] = "closed"]
        /\ UNCHANGED <<store, authorized>> /\ SetupTask(g)
    BY <1>6 DEF ReceiveClose, Step, SetupTask
  <2>2. "closed" \in Stage \cap Handshake
    BY HandshakeStages
  <2>3. setup'[g] = "closed"
    BY <1>0, <2>1, <2>2, StageStep
  <2>4. Answer(Msg("Close", g))
    BY <1>1, <2>2, <2>3 DEF Answer, Offered, FromPhone
  <2>5. \A m \in wire' : m \in wire \/ Answer(m)
    BY <1>6, <2>4 DEF ToDesktop
  <2> QED BY <1>0, <2>1, <2>2, <2>5, TaskFrame
<1> QED BY <1>2, <1>3, <1>4, <1>5, <1>6 DEF PhoneHandshake, PhoneSends, Receive

LEMMA PhoneGivesUpStep ==
    ASSUME SystemInvariant, NEW g \in Generation, PhoneGivesUp(g)
    PROVE  SystemInvariant' /\ PhoneMove
<1>1. UNCHANGED <<disk, pc, offer, session, stray, calm>> /\ wire' \subseteq wire
  BY DEF PhoneGivesUp, desktopVars, Drop
<1>2. /\ setup' = [setup EXCEPT ![g] = "over"] /\ UNCHANGED <<store, authorized>>
      /\ SetupTask(g)
  BY DEF PhoneGivesUp, HandshakeFails, Step, SetupTask
<1> QED BY <1>1, <1>2, HandshakeStages, TaskFrame

\* A storage call of a setup that has not been offered.
LEMMA LocalCall ==
    ASSUME SystemInvariant, UNCHANGED <<disk, pc, offer, session, stray, wire, calm>>,
           NEW g \in Generation, SetupTask(g),
           NEW from \in Stage \ (Handshake \cup {"over"}),
           NEW next \in Stage \ {"helloSent"}, NEW otherwise \in Stage \ {"helloSent"},
           NEW outcomes, SetupCall(g, from, outcomes, next, otherwise),
           \A o \in outcomes : o.st.active = store.active
    PROVE  SystemInvariant' /\ PhoneMove
<1>1. PICK to \in {next, otherwise} : setup' = [setup EXCEPT ![g] = to]
  BY DEF SetupCall
<1>2. UNCHANGED authorized /\ setup[g] = from /\ store'.active = store.active
  BY DEF SetupCall
<1>3. ~Offered(g) /\ to \in Stage /\ to # "helloSent"
  BY <1>1, <1>2 DEF Offered
<1> QED BY <1>1, <1>2, <1>3, TaskFrame

LEMMA LocalStages ==
    /\ {"unused", "checked", "begun", "keyed", "stored", "aborting"}
          \subseteq Stage \ (Handshake \cup {"over"})
    /\ {"checked", "begun", "keyed", "stored", "signed", "aborting", "aborted"}
          \subseteq Stage \ {"helloSent"}
BY DEF Stage, Local, Handshake

LEMMA SetupStep ==
    ASSUME SystemInvariant, UNCHANGED <<disk, pc, offer, session, stray, wire, calm>>,
           NEW g \in Generation,
           \/ SetupCheck(g) \/ SetupBegin(g) \/ SetupKey(g) \/ SetupStore(g)
           \/ SetupSign(g) \/ SetupAbort(g) \/ SetupDone(g)
    PROVE  SystemInvariant' /\ PhoneMove
<1>0. /\ Sound(store, Offers) /\ Offers \in SUBSET Generation /\ SetupTask(g) /\ Fresh
      /\ PhoneTypeOK
  BY DEF SystemInvariant, PhoneInvariant, Offers, SetupTask
<1>1. CASE SetupCheck(g)
  <2>1. \A o \in IsSetup(store) : o.st.active = store.active
    BY <1>0, IsSetupSound DEF Keeps
  <2> QED BY <1>0, <1>1, <2>1, LocalCall, LocalStages DEF SetupCheck
<1>2. CASE SetupBegin(g)
  <2>1. g \notin Named(store)
    BY <1>0, <1>2 DEF Fresh, SetupBegin, SetupCall
  <2>2. \A o \in BeginPendingPairing(store, g) : o.st.active = store.active
    BY <1>0, <2>1, BeginSound
  <2> QED BY <1>0, <1>2, <2>2, LocalCall, LocalStages DEF SetupBegin
<1>3. CASE SetupKey(g)
  <2>1. \A o \in GenerateApprovalKey(store, g) : Keeps(store, o.st)
    BY <1>0, GenerateKeySound
  <2>2. \A o \in GenerateApprovalKey(store, g) : o.st.active = store.active
    BY <2>1 DEF Keeps
  <2> QED BY <1>0, <1>3, <2>2, LocalCall, LocalStages DEF SetupKey
<1>4. CASE SetupStore(g)
  <2>1. g \notin Offers
    BY <1>4, LocalStages DEF SetupStore, SetupCall, Offers, Offered
  <2>2. ASSUME NEW o \in StorePendingGeneration(store, g)
        PROVE  Sound(o.st, Offers) /\ o.st.active = store.active
    BY <1>0, <2>1, StorePendingSound
  <2> QED BY <1>0, <1>4, <2>2, LocalCall, LocalStages DEF SetupStore
<1>5. CASE SetupSign(g)
  <2>1. \A o \in (IF g \in store.keys THEN Ok(store) \cup Fail(store) ELSE Fail(store)) :
           o.st.active = store.active
    BY DEF Ok, Fail
  <2> QED BY <1>0, <1>5, <2>1, LocalCall, LocalStages DEF SetupSign
<1>6. CASE SetupAbort(g)
  <2>1. g \notin Offers
    BY <1>6, LocalStages DEF SetupAbort, SetupCall, Offers, Offered
  <2>2. ASSUME NEW o \in AbortUnstartedPairing(store, g)
        PROVE  o.st.active = store.active
    <3>1. Trims(store, o.st)
      BY <1>0, <2>1, AbortSound
    <3> QED BY <3>1 DEF Trims
  <2> QED BY <1>0, <1>6, <2>2, LocalCall, LocalStages DEF SetupAbort
<1>7. CASE SetupDone(g)
  <2>1. /\ setup' = [setup EXCEPT ![g] = "over"] /\ UNCHANGED authorized
        /\ \E o \in LoadSecrets(store) : store' = o.st
    BY <1>7 DEF SetupDone
  <2>2. Keeps(store, store')
    BY <1>0, <2>1, LoadSecretsSound
  <2>3. store'.active = store.active
    BY <2>2 DEF Keeps
  <2> QED BY <1>0, <2>1, <2>3, HandshakeStages, TaskFrame
<1> QED BY <1>1, <1>2, <1>3, <1>4, <1>5, <1>6, <1>7

LEMMA PhoneAloneStep ==
    ASSUME SystemInvariant, PhoneAlone
    PROVE  SystemInvariant' /\ PhoneMove
<1>1. UNCHANGED <<disk, pc, offer, session, stray, wire, calm>>
  BY DEF PhoneAlone, desktopVars
<1>2. CASE CheckSetup \/ UnlockLoad \/ UnlockInstall \/ Lock
  <2>1. PhoneInvariant' /\ PendingKept /\ CommittedMove /\ NoWayBack
    BY <1>2, AppStep DEF SystemInvariant
  <2>2. UNCHANGED <<setup, authorized>>
    BY <1>2 DEF CheckSetup, UnlockLoad, UnlockInstall, Lock
  <2>3. \/ store' = store
        \/ \E o \in IsSetup(store) : store' = o.st
        \/ \E o \in LoadSecrets(store) : store' = o.st
    BY <1>2 DEF CheckSetup, UnlockLoad, UnlockInstall, Lock
  <2>4. Sound(store, Offers) /\ Offers \in SUBSET Generation
    BY DEF SystemInvariant, PhoneInvariant, Offers
  <2>5. store'.active = store.active
    BY <2>3, <2>4, IsSetupSound, LoadSecretsSound DEF Keeps
  <2>6. \A h \in Generation : Offered(h) => Offered(h)'
    BY <2>2 DEF Offered
  <2> QED BY <1>1, <2>1, <2>2, <2>5, <2>6, PhoneFrame
<1>3. CASE \E g \in Generation :
             \/ SetupCheck(g) \/ SetupBegin(g) \/ SetupKey(g) \/ SetupStore(g)
             \/ SetupSign(g) \/ SetupAbort(g) \/ SetupDone(g)
  BY <1>1, <1>3, SetupStep
<1> QED BY <1>2, <1>3 DEF PhoneAlone

\* Authorization forgets nothing: the request that is waiting was on the wire.
LEMMA TakeRequestStep ==
    ASSUME SystemInvariant, NEW g \in Generation, NEW kind \in {"commit", "activate"},
           TakeRequest(kind, g)
    PROVE  SystemInvariant' /\ PhoneMove
<1>1. /\ UNCHANGED <<disk, pc, offer, session, stray, calm>> /\ wire' \subseteq wire
      /\ AuthorizeRequest(kind, g) /\ Msg(RequestType(kind), g) \in wire
  BY DEF TakeRequest, desktopVars, Drop, Receive
<1>2. Offered(g)
  BY <1>1 DEF SystemInvariant, NamesOffered, Msg
<1>3. PhoneInvariant' /\ PendingKept /\ CommittedMove /\ NoWayBack
  BY <1>1, <1>2, RecoveryStep DEF SystemInvariant, RecoveryRequest
<1>4. /\ UNCHANGED setup
      /\ \E o \in AuthorizeRecovery(store, g) : store' = o.st
      /\ authorized' \subseteq authorized \cup {<<kind, g>>}
  BY <1>1 DEF AuthorizeRequest
<1>5. store'.active = store.active
  <2>1. Sound(store, Offers) /\ Offers \in SUBSET Generation
    BY DEF SystemInvariant, PhoneInvariant, Offers
  <2>2. Keeps(store, store')
    BY <1>4, <2>1, AuthorizeSound
  <2> QED BY <2>2 DEF Keeps
<1>6. \A h \in Generation : <<"activate", h>> \in authorized' =>
         <<"activate", h>> \in authorized \/ Msg("RecoverActivate", h) \in wire
  BY <1>1, <1>4 DEF RequestType
<1>7. \A h \in Generation : Offered(h) => Offered(h)'
  BY <1>4 DEF Offered
<1> QED BY <1>1, <1>3, <1>4, <1>5, <1>6, <1>7, PhoneFrame

LEMMA ServeRequestStep ==
    ASSUME SystemInvariant, NEW g \in Generation, NEW kind \in {"commit", "activate"},
           ServeRequest(kind, g)
    PROVE  SystemInvariant' /\ PhoneMove
<1>1. UNCHANGED <<disk, pc, offer, session, stray, calm>>
  BY DEF ServeRequest, desktopVars
<1>2. PICK acked \in BOOLEAN :
          /\ IF kind = "commit" THEN ServeCommit(g, acked) ELSE ServeActivate(g, acked)
          /\ wire' = wire \cup (IF acked THEN AckTo(kind, g) ELSE {})
  BY DEF ServeRequest
<1>3. PhoneInvariant' /\ PendingKept /\ CommittedMove /\ NoWayBack
  BY <1>2, RecoveryStep DEF SystemInvariant, RecoveryRequest
<1>4. UNCHANGED setup /\ authorized' \subseteq authorized /\ <<kind, g>> \in authorized
  BY <1>2 DEF ServeCommit, ServeActivate
<1>5. g \in Offers /\ Sound(store, Offers) /\ Offers \in SUBSET Generation
  BY <1>4 DEF SystemInvariant, PhoneInvariant, RequestsOffered, Offers
<1>6. \A h \in Generation : Offered(h) => Offered(h)'
  BY <1>4 DEF Offered
<1>7. /\ Msg("RecoverAck", g) \in Message
      /\ Msg("RecoverAck", g).type = "RecoverAck" /\ Msg("RecoverAck", g).id = g
  BY DEF Msg, Message, Recovery
<1>8. CASE kind = "commit"
  <2>1. PICK o \in CommitPendingGeneration(store, g) : store' = o.st /\ acked = o.ok
    BY <1>2, <1>8 DEF ServeCommit
  <2>2. Keeps(store, store') /\ (o.ok => g \in {store'.active, store'.committed})
    BY <1>5, <2>1, CommitSound
  <2>3. ASSUME acked, NEW m \in AckTo(kind, g)
        PROVE  Answer(m)
    <3>1. /\ m = Msg("RecoverAck", g) /\ pc = "resuming"
          /\ disk.txn.phase = "Prepared" /\ disk.txn.id = g
      BY <1>8, <2>3 DEF AckTo, OwedRequest
    <3> QED BY <1>5, <1>6, <1>7, <2>1, <2>2, <2>3, <3>1 DEF Answer, Offers, Waiting
  <2>4. store'.active = store.active
    BY <2>2 DEF Keeps
  <2> QED BY <1>1, <1>2, <1>3, <1>4, <1>6, <2>3, <2>4, PhoneFrame
<1>9. CASE kind = "activate"
  <2>1. PICK o \in ActivateGeneration(store, g) : store' = o.st /\ acked = o.ok
    BY <1>2, <1>9 DEF ServeActivate
  <2>2. (Keeps(store, store') \/ Moves(store, store', g)) /\ (o.ok => store'.active = g)
    BY <1>5, <2>1, ActivateSound
  <2>3. ASSUME acked, NEW m \in AckTo(kind, g)
        PROVE  Answer(m)
    <3>1. m = Msg("RecoverAck", g) /\ pc = "resuming" /\ disk.txn.id = g
      BY <1>9, <2>3 DEF AckTo, OwedRequest
    <3> QED BY <1>5, <1>6, <1>7, <2>1, <2>2, <2>3, <3>1 DEF Answer, Offers, Waiting
  <2>4. store'.active # store.active => ActivationAsked(store'.active)
    BY <1>4, <1>9, <2>2 DEF Keeps, Moves, ActivationAsked
  <2> QED BY <1>1, <1>2, <1>3, <1>4, <1>6, <2>3, <2>4, PhoneFrame
<1> QED BY <1>8, <1>9

LEMMA PhoneDiesStep ==
    ASSUME SystemInvariant, PhoneDies
    PROVE  SystemInvariant' /\ PhoneMove
<1>1. /\ UNCHANGED <<disk, pc, offer, session, stray, calm>> /\ wire' \subseteq wire /\ PhoneCrash
  BY DEF PhoneDies, desktopVars
<1>2. PhoneInvariant' /\ PendingKept /\ CommittedMove /\ NoWayBack
  BY <1>1, CrashStep DEF SystemInvariant
<1>3. /\ setup' = [g \in Generation |->
                     IF setup[g] \in Local THEN "aborted"
                     ELSE IF setup[g] \in Handshake THEN "over" ELSE setup[g]]
      /\ authorized' = {} /\ store' = store
  BY <1>1 DEF PhoneCrash
<1>4. \A h \in Generation : Offered(h) => Offered(h)'
  BY <1>3 DEF Offered, Local, Handshake
<1>5. \A h \in Generation : setup'[h] # "helloSent"
  BY <1>3 DEF Handshake
<1> QED BY <1>1, <1>2, <1>3, <1>4, <1>5, PhoneFrame

-----------------------------------------------------------------------------
\* The desktop's steps: the store stands still.

\* A message the desktop may add to the wire, and what must be true of it then.
Question(m) ==
    /\ m \in Message /\ Offered(m.id)
    /\ m.type \in FromDesktop \cup {"RecoverCommit", "RecoverActivate"}
    /\ m.type \in {"Activate", "RecoverActivate"} =>
          disk'.txn.id = m.id /\ disk'.txn.phase = "LocallyActivated"

\* What PairingSystem needs to know of a step of the desktop.
LEMMA DesktopFrame ==
    ASSUME SystemInvariant,
           UNCHANGED <<store, setup, authorized, unlocking, secrets, calm>>,
           pc' \in Place, offer' \in MaybeGeneration,
           session' \in {session, None, store.active}, stray' \in {stray, session},
           FilesSound(disk', store.active, stray'),
           offer' # None => Offered(offer'),
           HasTxn(disk') => Offered(disk'.txn.id),
           PhoneFollows', PlaceFits', SessionFits',
           disk'.txn.id \in {disk.txn.id, None} \/ setup[disk'.txn.id] # "helloSent",
           disk.txn.phase = "LocallyActivated" /\ Waiting(disk.txn.id) =>
              disk'.txn.id = disk.txn.id /\ disk'.txn.phase = "LocallyActivated",
           pc # "resuming" \/ \A g \in Generation : Msg("RecoverAck", g) \notin wire',
           \A m \in wire' : m \in wire \/ Question(m)
    PROVE  SystemInvariant'
<1>1. /\ \A g \in Generation : Offered(g)' <=> Offered(g)
      /\ \A g \in Generation : Waiting(g)' <=> Waiting(g)
      /\ Offers' = Offers
  BY DEF Offered, Waiting, Offers
<1>2. PhoneInvariant'
  <2>1. PhoneTypeOK' /\ Fresh' /\ Prepared'
    BY DEF SystemInvariant, PhoneInvariant, PhoneTypeOK, Fresh, Prepared
  <2>2. Sound(store, Offers)'
    BY <1>1 DEF SystemInvariant, PhoneInvariant
  <2>3. RequestsOffered'
    BY <1>1 DEF SystemInvariant, PhoneInvariant, RequestsOffered
  <2> QED BY <2>1, <2>2, <2>3 DEF PhoneInvariant
<1>0. store.active \in MaybeGeneration /\ HasBeenActive(store.active) /\ HasBeenActive(None)
  BY DEF SystemInvariant, PhoneInvariant, Sound, Store, ActiveWhole, Offers, HasBeenActive, Waiting
<1>3. DesktopTypeOK' /\ (wire \subseteq Message)' /\ (calm \in BOOLEAN)'
  <2>1. session' \in MaybeGeneration /\ stray' \in MaybeGeneration
    BY <1>0 DEF SystemInvariant, DesktopTypeOK, MaybeGeneration
  <2> QED BY <2>1 DEF SystemInvariant, DesktopTypeOK, FilesSound, Question
<1>4. NamesOffered'
  <2>1. \A m \in wire' : Offered(m.id)'
    BY <1>1 DEF SystemInvariant, NamesOffered, Question, Message
  <2>2. /\ offer' # None => Offered(offer)'
        /\ HasTxn(disk)' => Offered(disk.txn.id)'
    BY DEF Offered
  <2> QED BY <2>1, <2>2 DEF NamesOffered
<1>5. HelloIsFirst'
  <2> SUFFICES ASSUME NEW g \in Generation, setup[g] = "helloSent"
               PROVE  Waiting(g) /\ disk'.txn.id # g /\ Msg("Ready", g) \notin wire'
    BY <1>1 DEF HelloIsFirst
  <2>1. Waiting(g) /\ disk.txn.id # g /\ Msg("Ready", g) \notin wire
    BY DEF SystemInvariant, HelloIsFirst
  <2>2. ~Question(Msg("Ready", g))
    BY DEF Question, Msg, FromDesktop
  <2> QED BY <2>1, <2>2
<1>6. ActivationsFollow'
  <2> SUFFICES ASSUME NEW g \in Generation, ActivationAsked(g)', Waiting(g)
               PROVE  disk'.txn.id = g /\ disk'.txn.phase = "LocallyActivated"
    BY <1>1 DEF ActivationsFollow
  <2>1. CASE ActivationAsked(g)
    BY <2>1 DEF SystemInvariant, ActivationsFollow
  <2>2. CASE Question(Msg("Activate", g)) \/ Question(Msg("RecoverActivate", g))
    BY <2>2 DEF Question, Msg
  <2> QED BY <2>1, <2>2 DEF ActivationAsked
<1>7. AcksHold'
  <2> SUFFICES ASSUME NEW g \in Generation
               PROVE  /\ Msg("CommitAck", g) \in wire' /\ Waiting(g) => store.committed = g
                      /\ Msg("ActivateAck", g) \in wire' => ~Waiting(g)
                      /\ Msg("RecoverAck", g) \notin wire'
    BY <1>1 DEF AcksHold
  <2>1. /\ ~Question(Msg("CommitAck", g)) /\ ~Question(Msg("ActivateAck", g))
        /\ ~Question(Msg("RecoverAck", g))
    BY DEF Question, Msg, FromDesktop
  <2> QED BY <2>1 DEF SystemInvariant, AcksHold
<1>8. FilesSound(disk, store.active, stray)'
  OBVIOUS
<1>9. SessionsPaired'
  <2>1. HasBeenActive(session') /\ HasBeenActive(stray')
    BY <1>0 DEF SystemInvariant, SessionsPaired
  <2> QED BY <2>1 DEF SessionsPaired, HasBeenActive, Offered, Waiting
<1> QED BY <1>2, <1>3, <1>4, <1>5, <1>6, <1>7, <1>8, <1>9 DEF SystemInvariant

\* A step that leaves the record as it is.
LEMMA SameRecord ==
    ASSUME SystemInvariant,
           UNCHANGED <<store, setup, authorized, unlocking, secrets, calm>>,
           pc' \in Place, offer' \in MaybeGeneration, offer' # None => Offered(offer'),
           session' \in {session, None, store.active}, stray' \in {stray, session},
           FilesSound(disk', store.active, stray'),
           disk'.txn.id = disk.txn.id, disk'.txn.phase = disk.txn.phase,
           PlaceFits', SessionFits',
           pc # "resuming" \/ \A g \in Generation : Msg("RecoverAck", g) \notin wire',
           \A m \in wire' : m \in wire \/ Question(m)
    PROVE  SystemInvariant'
<1>1. PhoneFollows'
  BY DEF SystemInvariant, PhoneFollows, Waiting
<1>2. HasTxn(disk') => Offered(disk'.txn.id)
  BY DEF SystemInvariant, NamesOffered, HasTxn
<1> QED BY <1>1, <1>2, DesktopFrame

\* A session that goes on, with the vault as it is, fits as it did.
LEMMA SessionStays ==
    ASSUME SystemInvariant, session' \in {session, None},
           disk'.vault = disk.vault, stray' = stray,
           session' # None => pc' \in {"opening", "open", "accept", "failed"} \cup Awaiting,
           pc' \in {"opening", "open", "accept"} => pc \in {"opening", "open", "accept"}
    PROVE  SessionFits'
BY DEF SystemInvariant, SessionFits, Relapsed

LEMMA SystemFacts ==
    ASSUME SystemInvariant
    PROVE  /\ FilesSound(disk, store.active, stray) /\ disk \in Disk
           /\ store.active \in MaybeGeneration
           /\ pc \in Place /\ offer \in MaybeGeneration /\ session \in MaybeGeneration
           /\ stray \in MaybeGeneration
           /\ offer # None => Offered(offer) /\ offer \in Generation
           /\ HasTxn(disk) => disk.txn.id \in Generation /\ Offered(disk.txn.id)
           /\ ~HasTxn(disk) => disk.txn.id = None /\ disk.txn.phase = "none"
           /\ disk.txn.id \in MaybeGeneration
           /\ \A m \in wire : Offered(m.id)
BY DEF SystemInvariant, DesktopTypeOK, NamesOffered, FilesSound, PhoneInvariant, Sound, Store,
   Disk, Txn, MaybeGeneration, HasTxn

\* Messages of each type are messages.
LEMMA MessageOf ==
    ASSUME NEW g \in Generation, NEW t \in FromPhone \cup FromDesktop \cup Recovery
    PROVE  Msg(t, g) \in Message /\ Msg(t, g).type = t /\ Msg(t, g).id = g
BY DEF Msg, Message

\* on_commit: the record advances, then recover_transaction promotes the files.
LEMMA CommitFiles ==
    ASSUME NEW a \in MaybeGeneration, NEW x, NEW d, FilesSound(d, a, x), d.txn.phase = "Prepared",
           NEW o \in Then(AdvanceTransaction(d, "PhoneCommitted", d.txn.id), RecoverTransaction)
    PROVE  /\ FilesSound(o.st, a, x) /\ o.st.txn.id = d.txn.id
           /\ o.st.txn.phase \in {"Prepared", "PhoneCommitted", "LocallyActivated"}
           /\ o.ok => o.st.txn.phase = "LocallyActivated"
           /\ o.st.vault = d.vault \/ (InPlace(d, a, x) /\ o.st.vault = d.txn.id)
<1>1. PICK b \in AdvanceTransaction(d, "PhoneCommitted", d.txn.id) :
          o \in (IF b.ok THEN RecoverTransaction(b.st) ELSE {b})
  BY DEF Then
<1>2. "PhoneCommitted" \in Phase /\ HasTxn(d)
  BY DEF Phase, HasTxn
<1>3. /\ FilesSound(b.st, a, x)
      /\ b.st.vault = d.vault /\ b.st.pairing = d.pairing /\ b.st.txn.id = d.txn.id
      /\ b.st.txn.phase \in {d.txn.phase, "PhoneCommitted"}
      /\ b.ok => b.st.txn.phase = "PhoneCommitted"
  BY <1>2, AdvanceSound
<1>4. CASE ~b.ok
  BY <1>1, <1>3, <1>4
<1>5. CASE b.ok
  <2>1. o \in RecoverTransaction(b.st) /\ b.st.txn.phase = "PhoneCommitted"
    BY <1>1, <1>3, <1>5
  <2>2. /\ FilesSound(o.st, a, x)
        /\ o.st.txn.id = b.st.txn.id
        /\ o.st.txn.phase \in {"PhoneCommitted", "LocallyActivated"}
        /\ o.ok => o.st.txn.phase = "LocallyActivated"
        /\ o.st.vault = b.st.vault \/ (InPlace(b.st, a, x) /\ o.st.vault = b.st.txn.id)
    BY <1>3, <2>1, RecoverSound
  <2> QED BY <1>3, <2>2 DEF InPlace
<1> QED BY <1>4, <1>5

\* on_closed: the record advances once more, and is cleared.
LEMMA CloseFiles ==
    ASSUME NEW a \in MaybeGeneration, NEW x, NEW d, FilesSound(d, a, x),
           d.txn.phase = "LocallyActivated", d.txn.id = a,
           NEW o \in Then(AdvanceTransaction(d, "FullyActivated", d.txn.id), RecoverTransaction)
    PROVE  /\ FilesSound(o.st, a, x) /\ o.st.vault = d.vault
           /\ HasTxn(o.st) => /\ o.st.txn.id = d.txn.id
                              /\ o.st.txn.phase \in {"LocallyActivated", "FullyActivated"}
           /\ o.ok => ~HasTxn(o.st)
<1>1. PICK b \in AdvanceTransaction(d, "FullyActivated", d.txn.id) :
          o \in (IF b.ok THEN RecoverTransaction(b.st) ELSE {b})
  BY DEF Then
<1>2. "FullyActivated" \in Phase /\ HasTxn(d)
  BY DEF Phase, HasTxn
<1>3. /\ FilesSound(b.st, a, x)
      /\ b.st.vault = d.vault /\ b.st.txn.id = d.txn.id
      /\ b.st.txn.phase \in {d.txn.phase, "FullyActivated"}
      /\ b.ok => b.st.txn.phase = "FullyActivated"
  BY <1>2, AdvanceSound
<1>4. CASE ~b.ok
  BY <1>1, <1>3, <1>4
<1>5. CASE b.ok
  <2>1. o \in RecoverTransaction(b.st) /\ b.st.txn.phase = "FullyActivated"
    BY <1>1, <1>3, <1>5
  <2>2. FilesSound(o.st, a, x) /\ Clears(b.st, o.st) /\ (o.ok => ~HasTxn(o.st))
    BY <1>3, <2>1, RecoverSound
  <2> QED BY <1>3, <2>1, <2>2 DEF Clears, HasTxn, NoTxn
<1> QED BY <1>4, <1>5

\* The desktop takes a Hello of a generation of which it has nothing yet.
LEMMA TakeHelloStep ==
    ASSUME SystemInvariant, UNCHANGED <<store, setup, authorized, unlocking, secrets, calm>>,
           NEW g \in Generation, TakeHello(g)
    PROVE  SystemInvariant' /\ DesktopMove
<1>1. /\ setup[g] = "helloSent" /\ pc = "accept" /\ offer' = g
      /\ session' = session /\ stray' = stray
      /\ wire' \subseteq wire \cup {Msg("Prepared", g)}
  BY DEF TakeHello, DesktopHello
<1>2. PICK o \in WritePending(disk, g) :
          disk' = o.st /\ pc' = IF o.ok THEN "awaitReady" ELSE "failed"
  BY DEF TakeHello, DesktopHello, FileCall
<1>3. ~HasTxn(disk)
  BY <1>1 DEF SystemInvariant, PlaceFits
<1>4. /\ FilesSound(o.st, store.active, stray) /\ o.st.txn = disk.txn /\ o.st.vault = disk.vault
      /\ o.ok => ToPromote(o.st, g)
  BY <1>3, SystemFacts, WritePendingSound
<1>5. Waiting(g) /\ Offered(g) /\ g \in MaybeGeneration
  BY <1>1 DEF SystemInvariant, HelloIsFirst, Offered, Handshake, MaybeGeneration
<1>6. PlaceFits'
  BY <1>1, <1>2, <1>3, <1>4, <1>5 DEF PlaceFits, HasTxn, Waiting
<1>7. \A m \in wire' : m \in wire \/ Question(m)
  BY <1>1, <1>5, MessageOf DEF Question, FromDesktop
<1>8. pc' \in Place
  BY <1>2 DEF Place, Awaiting
<1>9. DesktopMove
  BY <1>1, <1>2, <1>4 DEF DesktopMove
<1>10. SessionFits'
  BY <1>1, <1>2, <1>4, SessionStays DEF Awaiting
<1> QED
  BY <1>1, <1>2, <1>4, <1>5, <1>6, <1>7, <1>8, <1>9, <1>10, SystemFacts, SameRecord

\* The record is made while the phone is waiting with g.
LEMMA ReadyStep ==
    ASSUME SystemInvariant, UNCHANGED <<store, setup, authorized, unlocking, secrets, calm>>,
           offer # None, Msg("Ready", offer) \in wire, DesktopReady,
           wire' = (wire \ {Msg("Ready", offer)})
                     \cup (IF pc' = "awaitCommitAck" THEN ToPhone("Commit", offer) ELSE {})
    PROVE  SystemInvariant' /\ DesktopMove
<1>1. /\ pc = "awaitReady" /\ UNCHANGED <<offer, session, stray>>
      /\ wire' \subseteq wire \cup {Msg("Commit", offer)}
  BY DEF DesktopReady, ToPhone
<1>2. PICK o \in WriteTransactionPrepared(disk, offer) :
          disk' = o.st /\ pc' = IF o.ok THEN "awaitCommitAck" ELSE "failed"
  BY DEF DesktopReady, FileCall
<1>3. ~HasTxn(disk) /\ Waiting(offer) /\ ToPromote(disk, offer)
  BY <1>1 DEF SystemInvariant, PlaceFits
<1>4. offer \in Generation /\ Offered(offer)
  BY SystemFacts
<1>5. /\ FilesSound(o.st, store.active, stray) /\ o.st.vault = disk.vault
      /\ o.st.txn = disk.txn \/ (o.st.txn.phase = "Prepared" /\ o.st.txn.id = offer)
      /\ o.ok => o.st.txn.phase = "Prepared" /\ o.st.txn.id = offer
  BY <1>3, <1>4, SystemFacts, PrepareSound
<1>6. PhoneFollows'
  BY <1>2, <1>3, <1>5 DEF PhoneFollows, HasTxn, Waiting
<1>7. PlaceFits'
  BY <1>1, <1>2, <1>3, <1>5 DEF PlaceFits, HasTxn
<1>8. setup[offer] # "helloSent"
  BY <1>4 DEF SystemInvariant, HelloIsFirst
<1>9. \A m \in wire' : m \in wire \/ Question(m)
  BY <1>1, <1>4, MessageOf DEF Question, FromDesktop
<1>10. pc' \in Place
  BY <1>2 DEF Place, Awaiting
<1>11. HasTxn(disk') => Offered(disk'.txn.id)
  BY <1>2, <1>3, <1>4, <1>5 DEF HasTxn
<1>12. disk.txn.phase = "none" /\ disk.txn.id = None
  BY <1>3, SystemFacts
<1>13. DesktopMove
  BY <1>1, <1>2, <1>3, <1>4, <1>5, <1>12 DEF DesktopMove
<1>14. SessionFits'
  BY <1>1, <1>2, <1>5, SessionStays DEF Awaiting
<1> QED
  BY <1>1, <1>2, <1>4, <1>5, <1>6, <1>7, <1>8, <1>9, <1>10, <1>11, <1>12, <1>13, <1>14,
     SystemFacts, DesktopFrame

\* The files move when the phone has committed, and only then is it told to move.
LEMMA CommitAckStep ==
    ASSUME SystemInvariant, UNCHANGED <<store, setup, authorized, unlocking, secrets, calm>>,
           offer # None, Msg("CommitAck", offer) \in wire, DesktopCommitAck,
           wire' = (wire \ {Msg("CommitAck", offer)})
                     \cup (IF pc' = "awaitActivateAck" THEN ToPhone("Activate", offer) ELSE {})
    PROVE  SystemInvariant' /\ DesktopMove
<1>1. /\ pc = "awaitCommitAck" /\ UNCHANGED <<offer, session, stray>>
      /\ disk.txn.id = offer /\ disk.txn.phase = "Prepared"
  BY DEF DesktopCommitAck, SystemInvariant, PlaceFits
<1>2. PICK o \in Then(AdvanceTransaction(disk, "PhoneCommitted", offer), RecoverTransaction) :
          disk' = o.st /\ pc' = IF o.ok THEN "awaitActivateAck" ELSE "failed"
  BY DEF DesktopCommitAck, FileCall
<1>3. offer \in Generation /\ Offered(offer)
  BY SystemFacts
<1>4. Waiting(offer) /\ store.committed = offer
  BY <1>1, <1>3 DEF SystemInvariant, PhoneFollows, AcksHold
<1>5. /\ FilesSound(o.st, store.active, stray) /\ o.st.txn.id = offer
      /\ o.st.txn.phase \in {"Prepared", "PhoneCommitted", "LocallyActivated"}
      /\ o.ok => o.st.txn.phase = "LocallyActivated"
      /\ o.st.vault = disk.vault \/ (InPlace(disk, store.active, stray) /\ o.st.vault = offer)
  BY <1>1, <1>2, SystemFacts, CommitFiles
<1>6. PhoneFollows'
  BY <1>2, <1>4, <1>5 DEF PhoneFollows, Waiting
<1>7. PlaceFits'
  BY <1>1, <1>2, <1>5 DEF PlaceFits
<1>8. \A m \in wire' : m \in wire \/ Question(m)
  <2>1. CASE o.ok
    <3>1. Question(Msg("Activate", offer))
      BY <1>2, <1>3, <1>5, <2>1, MessageOf DEF Question, FromDesktop
    <3> QED BY <3>1 DEF ToPhone
  <2>2. CASE ~o.ok
    BY <1>2, <2>2
  <2> QED BY <2>1, <2>2
<1>9. pc' \in Place
  BY <1>2 DEF Place, Awaiting
<1>10. DesktopMove
  BY <1>1, <1>2, <1>5 DEF DesktopMove
\* The vault that is promoted has not been active, so no stray session has it.
<1>11. SessionFits'
  <2>1. CASE disk'.vault = disk.vault
    BY <1>1, <1>2, <2>1, SessionStays DEF Awaiting
  <2>2. CASE disk'.vault = offer
    <3>1. ~Relapsed(offer)
      BY <1>3, <1>4 DEF SystemInvariant, SessionsPaired, HasBeenActive, Relapsed
    <3> QED BY <1>1, <1>2, <2>2, <3>1 DEF SessionFits, Relapsed, Awaiting
  <2> QED BY <1>2, <1>5, <2>1, <2>2
<1> QED
  BY <1>1, <1>2, <1>3, <1>5, <1>6, <1>7, <1>8, <1>9, <1>10, <1>11, SystemFacts, DesktopFrame

LEMMA ActivateAckStep ==
    ASSUME SystemInvariant, UNCHANGED <<store, setup, authorized, unlocking, secrets, calm>>,
           offer # None, Msg("ActivateAck", offer) \in wire, DesktopActivateAck,
           wire' = (wire \ {Msg("ActivateAck", offer)}) \cup ToPhone("Eof", offer)
    PROVE  SystemInvariant' /\ DesktopMove
<1>1. /\ pc = "awaitActivateAck" /\ pc' = "awaitClose" /\ UNCHANGED <<disk, offer, session, stray>>
      /\ disk.txn.id = offer /\ disk.txn.phase = "LocallyActivated"
      /\ wire' \subseteq wire \cup {Msg("Eof", offer)}
  BY DEF DesktopActivateAck, SystemInvariant, PlaceFits, ToPhone
<1>2. offer \in Generation /\ Offered(offer)
  BY SystemFacts
<1>3. store.active = offer
  BY <1>1, <1>2 DEF SystemInvariant, PhoneFollows, AcksHold
<1>4. PlaceFits'
  BY <1>1, <1>3 DEF PlaceFits
<1>5. \A m \in wire' : m \in wire \/ Question(m)
  BY <1>1, <1>2, MessageOf DEF Question, FromDesktop
<1>6. pc' \in Place
  BY <1>1 DEF Place, Awaiting
<1>7. FilesSound(disk', store.active, stray')
  BY <1>1 DEF SystemInvariant
<1>8. DesktopMove
  BY <1>1 DEF DesktopMove
<1>9. SessionFits'
  BY <1>1, SessionStays DEF Awaiting
<1> QED BY <1>1, <1>2, <1>4, <1>5, <1>6, <1>7, <1>8, <1>9, SystemFacts, SameRecord

LEMMA ClosedStep ==
    ASSUME SystemInvariant, UNCHANGED <<store, setup, authorized, unlocking, secrets, calm>>,
           DesktopClosed, wire' \subseteq wire
    PROVE  SystemInvariant' /\ DesktopMove
<1>1. /\ pc = "awaitClose" /\ stray' = stray
      /\ disk.txn.id = offer /\ disk.txn.phase = "LocallyActivated" /\ store.active = offer
  BY DEF DesktopClosed, SystemInvariant, PlaceFits
<1>2. PICK o \in Then(AdvanceTransaction(disk, "FullyActivated", offer), RecoverTransaction) :
          /\ disk' = o.st
          /\ IF o.ok
             THEN /\ pc' = IF session = None THEN "off" ELSE "open"
                  /\ session' = IF session = None THEN None ELSE offer
                  /\ offer' = None
             ELSE pc' = "failed" /\ UNCHANGED <<offer, session>>
  BY DEF DesktopClosed
<1>3. /\ FilesSound(o.st, store.active, stray) /\ o.st.vault = disk.vault
      /\ HasTxn(o.st) => /\ o.st.txn.id = offer
                         /\ o.st.txn.phase \in {"LocallyActivated", "FullyActivated"}
      /\ o.ok => ~HasTxn(o.st)
  BY <1>1, <1>2, SystemFacts, CloseFiles
<1>0. offer # None
  BY <1>1, SystemFacts DEF FilesSound, HasTxn
<1>4. /\ pc' \in {"off", "open", "failed"} /\ (pc' = "open" => ~HasTxn(disk') /\ session' # None)
      /\ pc' \in Place /\ session' \in {session, None, store.active}
      /\ offer' \in MaybeGeneration /\ (offer' # None => Offered(offer'))
  BY <1>0, <1>1, <1>2, <1>3, SystemFacts DEF Place, MaybeGeneration
<1>5. PlaceFits'
  BY <1>4 DEF PlaceFits
<1>6. PhoneFollows'
  BY <1>1, <1>2, <1>3 DEF PhoneFollows, HasTxn
<1>7. disk'.txn.id \in {disk.txn.id, None}
  BY <1>1, <1>2, <1>3 DEF FilesSound
<1>8. HasTxn(disk') => Offered(disk'.txn.id)
  BY <1>1, <1>2, <1>3, SystemFacts DEF HasTxn
<1>9. ~Waiting(disk.txn.id)
  BY <1>1 DEF Waiting
<1>10. DesktopMove
  BY <1>1, <1>2, <1>3, <1>7 DEF DesktopMove
<1>11. SessionFits'
  <2>1. CASE o.ok
    <3>1. disk'.vault = offer
      BY <1>1, <1>2, <1>3, SystemFacts DEF FilesSound, Promoted
    <3> QED BY <1>2, <2>1, <3>1 DEF SessionFits, Relapsed
  <2>2. CASE ~o.ok
    BY <1>1, <1>2, <1>3, <2>2, SessionStays
  <2> QED BY <2>1, <2>2
<1> QED
  BY <1>1, <1>2, <1>3, <1>4, <1>5, <1>6, <1>7, <1>8, <1>9, <1>10, <1>11, DesktopFrame

LEMMA DesktopHandshakeStep ==
    ASSUME SystemInvariant, DesktopHandshake
    PROVE  SystemInvariant' /\ DesktopMove
<1>1. UNCHANGED <<store, setup, authorized, unlocking, secrets, calm>>
  BY DEF DesktopHandshake, phoneVars
<1>2. ASSUME NEW g \in Generation, TakeHello(g)
      PROVE  SystemInvariant' /\ DesktopMove
  BY <1>1, <1>2, TakeHelloStep
<1>3. ASSUME DesktopClosed, wire' \subseteq wire
      PROVE  SystemInvariant' /\ DesktopMove
  BY <1>1, <1>3, ClosedStep
<1> QED BY <1>1, <1>2, <1>3, ReadyStep, CommitAckStep, ActivateAckStep
        DEF DesktopHandshake, DesktopSends, Receive

LEMMA DesktopGivesUpStep ==
    ASSUME SystemInvariant, DesktopGivesUp
    PROVE  SystemInvariant' /\ DesktopMove
<1>1. /\ UNCHANGED <<store, setup, authorized, unlocking, secrets, calm>>
      /\ UNCHANGED <<disk, offer, session, stray>> /\ wire' \subseteq wire
      /\ \/ pc \in Awaiting /\ pc' = "failed"
         \/ pc = "accept" /\ pc' = IF session = None THEN "off" ELSE "open"
         \/ pc = "resuming" /\ pc' = "off"
  BY DEF DesktopGivesUp, DesktopAbandon, phoneVars, Drop
<1>2. /\ pc' \in Place /\ pc' \in {"failed", "off", "open"}
      /\ pc' = "open" => pc = "accept"
  BY <1>1 DEF Place
<1>3. PlaceFits'
  BY <1>1, <1>2 DEF SystemInvariant, PlaceFits
<1>4. pc # "resuming" \/ \A g \in Generation : Msg("RecoverAck", g) \notin wire'
  BY DEF DesktopGivesUp, Drop, SystemInvariant, AcksHold
<1>5. FilesSound(disk', store.active, stray')
  BY <1>1 DEF SystemInvariant
<1>6. DesktopMove
  BY <1>1 DEF DesktopMove
<1>7. SessionFits'
  BY <1>1, SessionStays DEF SystemInvariant, SessionFits, Awaiting
<1> QED BY <1>1, <1>2, <1>3, <1>4, <1>5, <1>6, <1>7, SystemFacts, SameRecord

\* What an aborted pairing has left is cleared only if it was never recorded.
LEMMA DesktopCleansUpStep ==
    ASSUME SystemInvariant, DesktopCleansUp
    PROVE  SystemInvariant' /\ DesktopMove
<1>1. /\ UNCHANGED <<store, setup, authorized, unlocking, secrets, calm>>
      /\ pc = "failed" /\ offer' = None /\ wire' \subseteq wire
      /\ stray' = IF HasTxn(disk) \/ session \in {None, disk.vault} THEN stray ELSE session
  BY DEF DesktopCleansUp, DesktopFailed, phoneVars, Drop
<1>2. None \in MaybeGeneration /\ {"off", "open"} \subseteq Place
  BY DEF MaybeGeneration, Place
<1>3. CASE HasTxn(disk)
  <2>1. pc' = "off" /\ session' = None /\ disk' = disk /\ stray' = stray
    BY <1>1, <1>3 DEF DesktopCleansUp, DesktopFailed
  <2>2. PlaceFits'
    BY <2>1 DEF PlaceFits
  <2>3. FilesSound(disk', store.active, stray')
    BY <1>1, <2>1 DEF SystemInvariant
  <2>4. DesktopMove
    BY <1>1, <2>1 DEF DesktopMove
  <2>5. SessionFits'
    BY <2>1 DEF SessionFits
  <2> QED BY <1>1, <1>2, <2>1, <2>2, <2>3, <2>4, <2>5, SameRecord
<1>4. CASE ~HasTxn(disk)
  <2>1. PICK o \in ClearPendingPairing(disk) : disk' = o.st
    BY <1>4 DEF DesktopCleansUp, DesktopFailed
  <2>2. pc' = (IF session = None THEN "off" ELSE "open") /\ session' = session
    BY <1>4 DEF DesktopCleansUp, DesktopFailed
  <2>3. FilesSound(disk', store.active, stray) /\ Clears(disk, disk')
    BY <1>4, <2>1, SystemFacts, ClearSound
  <2>4. disk'.txn.id = disk.txn.id /\ disk'.txn.phase = disk.txn.phase
    BY <1>4, <2>3, SystemFacts DEF Clears, NoTxn
  <2>5. PlaceFits'
    BY <1>4, <2>2, <2>4 DEF PlaceFits, HasTxn
  <2>6. CASE session \in {None, disk.vault}
    <3>1. stray' = stray /\ disk'.vault = disk.vault
      BY <1>1, <1>4, <2>3, <2>6 DEF Clears
    <3>2. SessionFits'
      BY <2>2, <2>6, <3>1 DEF SessionFits, Relapsed
    <3>3. DesktopMove
      BY <2>4, <3>1 DEF DesktopMove
    <3> QED BY <1>1, <1>2, <2>2, <2>3, <2>4, <2>5, <3>1, <3>2, <3>3, SystemFacts, SameRecord
  \* The vault has moved on and the session with the old key stays: it is the stray one.
  <2>7. CASE session \notin {None, disk.vault}
    <3>1. stray' = session /\ disk'.vault = disk.vault /\ disk'.txn.id = None
      BY <1>1, <1>4, <2>3, <2>4, <2>7, SystemFacts DEF Clears
    <3>2. disk.vault = store.active
      BY <1>4, <2>7, SystemFacts
         DEF SystemInvariant, SessionFits, Relapsed, FilesSound, InPlace
    <3>3. FilesSound(disk', store.active, stray')
      BY <1>4, <2>3, <2>4, <3>1, <3>2, SystemFacts DEF FilesSound, InPlace, HasTxn
    <3>4. SessionFits'
      BY <2>2, <2>7, <3>1 DEF SessionFits, Relapsed
    <3>5. DesktopMove
      BY <1>4, <2>7, <3>1, <3>2, SystemFacts DEF DesktopMove, MaybeGeneration
    <3> QED BY <1>1, <1>2, <2>2, <2>4, <2>5, <3>1, <3>3, <3>4, <3>5, SystemFacts, SameRecord
  <2> QED BY <2>6, <2>7
<1> QED BY <1>3, <1>4

\* recover_transaction repeats what a dead process had begun.
LEMMA RecoverFilesStep ==
    ASSUME SystemInvariant, UNCHANGED <<store, setup, authorized, unlocking, secrets, calm>>,
           DesktopRecover, UNCHANGED wire
    PROVE  SystemInvariant' /\ DesktopMove
<1>1. pc = "recover" /\ UNCHANGED <<offer, session, stray>>
  BY DEF DesktopRecover
<1>2. PICK o \in RecoverTransaction(disk) :
          /\ disk' = o.st
          /\ pc' = IF ~o.ok THEN "off" ELSE IF HasTxn(o.st) THEN "resume" ELSE "locked"
  BY DEF DesktopRecover
<1>3. /\ FilesSound(o.st, store.active, stray)
      /\ disk.txn.phase \in {"Prepared", "LocallyActivated"} => o.st = disk /\ o.ok
      /\ disk.txn.phase = "PhoneCommitted" =>
            /\ o.st.txn.id = disk.txn.id
            /\ o.st.txn.phase \in {"PhoneCommitted", "LocallyActivated"}
            /\ o.ok => o.st.txn.phase = "LocallyActivated"
            /\ \/ o.st.vault = disk.vault
               \/ InPlace(disk, store.active, stray) /\ o.st.vault = disk.txn.id
      /\ disk.txn.phase \in {"none", "FullyActivated"} =>
            Clears(disk, o.st) /\ (o.ok => ~HasTxn(o.st))
  BY SystemFacts, RecoverSound
<1>4. disk.txn.phase \in {"none", "Prepared", "PhoneCommitted", "LocallyActivated",
                          "FullyActivated"}
  BY SystemFacts DEF Disk, Txn, Phase
<1>5. \/ disk'.txn.id = disk.txn.id /\ disk'.txn.phase = disk.txn.phase
      \/ disk.txn.phase = "FullyActivated" /\ disk'.txn.id = None /\ disk'.txn.phase = "none"
      \/ /\ disk.txn.phase = "PhoneCommitted" /\ disk'.txn.id = disk.txn.id
         /\ disk'.txn.phase = "LocallyActivated"
  BY <1>2, <1>3, <1>4, SystemFacts DEF Clears, NoTxn, HasTxn
<1>6. PhoneFollows'
  BY <1>5 DEF SystemInvariant, PhoneFollows, Waiting
<1>7. pc' = "resume" => disk'.txn.phase \in {"Prepared", "LocallyActivated"}
  BY <1>2, <1>3, <1>4 DEF HasTxn
<1>8. PlaceFits'
  BY <1>2, <1>7 DEF PlaceFits
<1>9. HasTxn(disk') => Offered(disk'.txn.id)
  BY <1>5, SystemFacts DEF HasTxn
<1>10. pc' \in Place
  BY <1>2 DEF Place
<1>11. disk.txn.phase = "LocallyActivated" =>
          disk'.txn.id = disk.txn.id /\ disk'.txn.phase = "LocallyActivated"
  BY <1>5
<1>12. DesktopMove
  <2>1. CASE disk.txn.phase \in {"Prepared", "LocallyActivated"}
    BY <1>1, <1>2, <1>3, <2>1 DEF DesktopMove
  <2>2. CASE disk.txn.phase = "PhoneCommitted"
    <3>1. disk.txn.id # None
      BY <2>2, SystemFacts DEF FilesSound, HasTxn
    <3> QED BY <1>1, <1>2, <1>3, <2>2, <3>1 DEF DesktopMove
  <2>3. CASE disk.txn.phase \in {"none", "FullyActivated"}
    <3>1. disk'.vault = disk.vault
      BY <1>2, <1>3, <2>3 DEF Clears
    <3>2. disk.txn.phase = "FullyActivated" => disk.txn.id # None /\ store.active = disk.txn.id
      BY SystemFacts DEF FilesSound, HasTxn
    <3> QED BY <1>1, <1>5, <2>3, <3>1, <3>2 DEF DesktopMove
  <2> QED BY <1>4, <2>1, <2>2, <2>3
<1>13. SessionFits'
  BY <1>1 DEF SystemInvariant, SessionFits, Awaiting
<1> QED
  BY <1>1, <1>2, <1>3, <1>5, <1>6, <1>8, <1>9, <1>10, <1>11, <1>12, <1>13, SystemFacts,
     DesktopFrame

LEMMA ResumeStep ==
    ASSUME SystemInvariant, UNCHANGED <<store, setup, authorized, unlocking, secrets, calm>>,
           DesktopResume,
           wire' = IF pc' = "resuming"
                   THEN wire \cup {Msg(RequestType(OwedRequest[1]), OwedRequest[2])}
                   ELSE wire
    PROVE  SystemInvariant' /\ DesktopMove
<1>1. /\ pc = "resume" /\ pc' \in {"resuming", "off"} /\ UNCHANGED <<disk, offer, session, stray>>
      /\ disk.txn.phase \in {"Prepared", "LocallyActivated"}
  BY DEF DesktopResume, SystemInvariant, PlaceFits
<1>2. HasTxn(disk) /\ disk.txn.id \in Generation /\ Offered(disk.txn.id)
  BY <1>1, SystemFacts DEF HasTxn
<1> DEFINE kind == OwedRequest[1]
           m == Msg(RequestType(kind), disk.txn.id)
<1>3. Question(m)
  <2>1. CASE disk.txn.phase = "Prepared"
    <3>1. m = Msg("RecoverCommit", disk.txn.id)
      BY <2>1 DEF OwedRequest, RequestType
    <3> QED BY <1>2, <3>1, MessageOf DEF Question, Recovery
  <2>2. CASE disk.txn.phase = "LocallyActivated"
    <3>1. m = Msg("RecoverActivate", disk.txn.id)
      BY <2>2 DEF OwedRequest, RequestType
    <3> QED BY <1>1, <1>2, <2>2, <3>1, MessageOf DEF Question, Recovery
  <2> QED BY <1>1, <2>1, <2>2
<1>4. \A n \in wire' : n \in wire \/ Question(n)
  BY <1>3 DEF OwedRequest
<1>5. PlaceFits'
  BY <1>1 DEF PlaceFits
<1>6. pc' \in Place
  BY <1>1 DEF Place
<1>7. FilesSound(disk', store.active, stray')
  BY <1>1 DEF SystemInvariant
<1>8. DesktopMove
  BY <1>1 DEF DesktopMove
<1>9. SessionFits'
  BY <1>1 DEF SystemInvariant, SessionFits, Awaiting
<1> QED BY <1>1, <1>4, <1>5, <1>6, <1>7, <1>8, <1>9, SystemFacts, SameRecord

\* An acknowledged request advances the record to what the phone has done.
LEMMA ResumedStep ==
    ASSUME SystemInvariant, UNCHANGED <<store, setup, authorized, unlocking, secrets, calm>>,
           Msg("RecoverAck", disk.txn.id) \in wire, DesktopResumed,
           wire' = Drop({"RecoverAck"}, disk.txn.id)
    PROVE  SystemInvariant' /\ DesktopMove
<1> DEFINE to == IF disk.txn.phase = "Prepared" THEN "PhoneCommitted" ELSE "FullyActivated"
<1>1. /\ pc = "resuming" /\ UNCHANGED <<offer, session, stray>>
      /\ disk.txn.phase \in {"Prepared", "LocallyActivated"}
  BY DEF DesktopResumed, SystemInvariant, PlaceFits
<1>2. PICK o \in AdvanceTransaction(disk, to, disk.txn.id) :
          disk' = o.st /\ pc' = IF o.ok THEN "recover" ELSE "off"
  BY DEF DesktopResumed, FileCall
<1>3. HasTxn(disk) /\ disk.txn.id \in Generation /\ Offered(disk.txn.id) /\ to \in Phase
  BY <1>1, SystemFacts DEF HasTxn, Phase
<1>4. /\ Waiting(disk.txn.id) => store.committed = disk.txn.id
      /\ disk.txn.phase = "LocallyActivated" => store.active = disk.txn.id
  BY <1>3 DEF SystemInvariant, AcksHold
<1>5. /\ FilesSound(o.st, store.active, stray)
      /\ o.st.txn.id = disk.txn.id /\ o.st.vault = disk.vault
      /\ o.st.txn.phase \in {disk.txn.phase, to}
  BY <1>1, <1>3, <1>4, SystemFacts, AdvanceSound
<1>6. PhoneFollows'
  BY <1>1, <1>2, <1>4, <1>5 DEF SystemInvariant, PhoneFollows, Waiting
<1>7. PlaceFits'
  BY <1>2 DEF PlaceFits
<1>8. \A g \in Generation : Msg("RecoverAck", g) \notin wire'
  BY DEF Drop, SystemInvariant, AcksHold
<1>9. wire' \subseteq wire /\ pc' \in Place
  BY <1>2 DEF Drop, Place
<1>10. disk.txn.phase = "LocallyActivated" => ~Waiting(disk.txn.id)
  BY <1>4 DEF Waiting
<1>11. DesktopMove
  BY <1>1, <1>2, <1>5 DEF DesktopMove
<1>12. SessionFits'
  BY <1>1 DEF SystemInvariant, SessionFits, Awaiting
<1> QED
  BY <1>1, <1>2, <1>3, <1>5, <1>6, <1>7, <1>8, <1>9, <1>10, <1>11, <1>12, SystemFacts,
     DesktopFrame

LEMMA ReconcileStep ==
    ASSUME SystemInvariant, Reconcile
    PROVE  SystemInvariant' /\ DesktopMove
<1>1. UNCHANGED <<store, setup, authorized, unlocking, secrets, calm>>
  BY DEF Reconcile, phoneVars
<1>2. CASE DesktopStart /\ UNCHANGED wire
  <2>1. pc = "off" /\ pc' = "recover" /\ UNCHANGED <<disk, offer, session, stray, wire>>
    BY <1>2 DEF DesktopStart
  <2>2. PlaceFits' /\ pc' \in Place /\ FilesSound(disk', store.active, stray')
    BY <2>1 DEF PlaceFits, Place, SystemInvariant
  <2>3. DesktopMove
    BY <2>1 DEF DesktopMove
  <2>4. SessionFits'
    BY <2>1 DEF SystemInvariant, SessionFits, Awaiting
  <2> QED BY <1>1, <2>1, <2>2, <2>3, <2>4, SystemFacts, SameRecord
<1> QED BY <1>1, <1>2, RecoverFilesStep, ResumeStep, ResumedStep DEF Reconcile, Receive

\* A saved vault is one of the session's generation: the one in place, or that of the
\* stray session.
LEMMA SaveStep ==
    ASSUME SystemInvariant,
           UNCHANGED <<store, setup, authorized, unlocking, secrets, wire, calm>>,
           NEW approved \in BOOLEAN, DesktopSave(approved)
    PROVE  SystemInvariant' /\ DesktopMove
<1>1. /\ pc \in {"opening", "open"} /\ pc' = "open" /\ UNCHANGED <<offer, session, stray>>
  BY DEF DesktopSave
<1>2. PICK o \in WriteFile(disk, "vault", session) : disk' = o.st
  BY DEF DesktopSave
<1>0. "vault" \in FileName /\ disk \in Disk /\ session \in MaybeGeneration
  BY SystemFacts DEF FileName
<1>3. o.st = disk \/ o.st = [disk EXCEPT !["vault"] = session]
  BY <1>0, <1>2, WriteFileOutcome
<1>4. o.st \in Disk
  BY <1>0, <1>2, WriteFileOutcome
<1>5. /\ o.st.txn = disk.txn /\ o.st.pairing = disk.pairing
      /\ o.st.vault \in {disk.vault, session}
  BY <1>3, SystemFacts DEF Disk
<1>6. ~HasTxn(disk) /\ session # None
  BY <1>1 DEF SystemInvariant, PlaceFits
<1>10. session \in {disk.vault, stray}
  BY <1>1, <1>6 DEF SystemInvariant, SessionFits
<1>7. FilesSound(disk', store.active, stray')
  <2>1. InPlace(disk', store.active, stray')
    BY <1>1, <1>2, <1>5, <1>6, <1>10, SystemFacts DEF FilesSound, InPlace
  <2> QED BY <1>2, <1>4, <1>5, <1>6, <2>1, SystemFacts DEF FilesSound, HasTxn
<1>8. PlaceFits' /\ pc' \in Place
  BY <1>1, <1>2, <1>5, <1>6 DEF PlaceFits, HasTxn, Place
<1>9. DesktopMove
  <2>1. disk.txn.id = None /\ disk'.txn.id = None
    BY <1>2, <1>5, <1>6, SystemFacts
  <2> QED BY <1>1, <1>2, <1>5, <1>6, <1>10, <2>1 DEF DesktopMove
<1>11. SessionFits'
  <2>1. CASE disk'.vault = disk.vault
    BY <1>1, <2>1, SessionStays
  <2>2. CASE disk'.vault = session
    BY <1>1, <2>2 DEF SessionFits, Relapsed
  <2> QED BY <1>2, <1>5, <2>1, <2>2
<1> QED BY <1>1, <1>2, <1>5, <1>7, <1>8, <1>9, <1>11, SystemFacts, SameRecord

LEMMA CommandStep ==
    ASSUME SystemInvariant, Commands
    PROVE  SystemInvariant' /\ DesktopMove
<1>1. UNCHANGED <<store, setup, authorized, unlocking, secrets, wire, calm>>
  BY DEF Commands, phoneVars
<1>2. ASSUME UNCHANGED <<disk, offer, stray>>, session' \in {session, None, store.active},
             pc' \in {"accept", "opening", "off"}, pc' = "opening" => session' # None,
             pc \in {"locked", "opening", "open"}, SessionFits'
      PROVE  SystemInvariant' /\ DesktopMove
  <2>1. ~HasTxn(disk)
    BY <1>2 DEF SystemInvariant, PlaceFits
  <2>2. PlaceFits' /\ pc' \in Place /\ FilesSound(disk', store.active, stray')
    BY <1>2, <2>1 DEF PlaceFits, Place, SystemInvariant
  <2>3. DesktopMove
    BY <1>2 DEF DesktopMove
  <2> QED BY <1>1, <1>2, <2>2, <2>3, SystemFacts, SameRecord
<1>3. CASE DesktopInitVault
  <2>1. SessionFits'
    BY <1>3 DEF DesktopInitVault, SystemInvariant, SessionFits, Awaiting
  <2> QED BY <1>2, <1>3, <2>1, SystemFacts DEF DesktopInitVault
<1>4. CASE PhoneApproves(disk.pairing) /\ DesktopUnlock(secrets)
  <2>1. session' \in {store.active, None}
    <3>1. ~HasTxn(disk)
      BY <1>4 DEF DesktopUnlock, SystemInvariant, PlaceFits
    <3>2. disk.pairing = store.active
      BY <3>1, SystemFacts DEF FilesSound, InPlace
    <3> QED BY <1>4, <3>2 DEF DesktopUnlock, PhoneApproves
  <2>2. /\ UNCHANGED <<disk, offer, stray>> /\ pc' \in {"opening", "off"}
        /\ pc = "locked" /\ (pc' = "opening" => session' # None)
    BY <1>4 DEF DesktopUnlock, PhoneApproves
  <2>3. SessionFits'
    BY <1>4 DEF DesktopUnlock, SessionFits, Relapsed
  <2> QED BY <1>2, <2>1, <2>2, <2>3
<1>5. CASE DesktopPair(PhoneApproves(session))
  <2>1. SessionFits'
    BY <1>5, SessionStays DEF DesktopPair
  <2> QED BY <1>2, <1>5, <2>1, SystemFacts DEF DesktopPair
<1>6. CASE DesktopSave(PhoneApproves(session))
  <2>1. PhoneApproves(session) \in BOOLEAN
    BY DEF PhoneApproves
  <2> QED BY <1>1, <1>6, <2>1, SaveStep
<1>7. CASE pc \in {"locked", "opening", "open"} /\ DesktopStop
  <2>1. pc' = "off" /\ offer' = None /\ session' = None /\ UNCHANGED <<disk, stray>>
    BY <1>7 DEF DesktopStop
  <2>2. PlaceFits' /\ pc' \in Place /\ FilesSound(disk', store.active, stray')
        /\ None \in MaybeGeneration
    BY <2>1 DEF PlaceFits, Place, SystemInvariant, MaybeGeneration
  <2>3. DesktopMove
    BY <2>1 DEF DesktopMove
  <2>4. SessionFits'
    BY <2>1 DEF SessionFits
  <2> QED BY <1>1, <1>7, <2>1, <2>2, <2>3, <2>4, SameRecord
<1> QED BY <1>3, <1>4, <1>5, <1>6, <1>7 DEF Commands

LEMMA DesktopDiesStep ==
    ASSUME SystemInvariant, DesktopDies
    PROVE  SystemInvariant' /\ DesktopMove
<1>1. /\ UNCHANGED <<store, setup, authorized, unlocking, secrets, calm>>
      /\ pc' = "off" /\ offer' = None /\ session' = None /\ UNCHANGED <<disk, stray>>
  BY DEF DesktopDies, DesktopStop, phoneVars
<1>2. wire' \subseteq wire /\ \A g \in Generation : Msg("RecoverAck", g) \notin wire'
  BY DEF DesktopDies, Msg
<1>3. PlaceFits' /\ pc' \in Place /\ FilesSound(disk', store.active, stray')
      /\ None \in MaybeGeneration
  BY <1>1 DEF PlaceFits, Place, SystemInvariant, MaybeGeneration
<1>4. DesktopMove
  BY <1>1 DEF DesktopMove
<1>5. SessionFits'
  BY <1>1 DEF SessionFits
<1> QED BY <1>1, <1>2, <1>3, <1>4, <1>5, SameRecord

-----------------------------------------------------------------------------
\* The theorems.

LEMMA SystemInit == Init => SystemInvariant
<1> SUFFICES ASSUME Init PROVE SystemInvariant
  OBVIOUS
<1>1. PhoneInvariant
  BY InitInvariant DEF Init
<1>2. NoTxn \in Txn /\ NoTxn.phase = "none" /\ NoTxn.id = None
  BY NoTxnIsTxn DEF NoTxn
<1>3. /\ disk.vault = None /\ disk.pairing = None /\ disk.txn = NoTxn /\ ~HasTxn(disk)
      /\ disk \in Disk /\ pc = "off" /\ offer = None /\ session = None
      /\ stray = None /\ store.active = None /\ wire = {} /\ calm = FALSE
  BY <1>2 DEF Init, DesktopInit, PhoneInit, EmptyDisk, EmptyStore, Disk, HasTxn, MaybeGeneration
<1>4. FilesSound(disk, store.active, stray)
  BY <1>2, <1>3 DEF FilesSound, InPlace
<1>5. DesktopTypeOK /\ wire \subseteq Message /\ calm \in BOOLEAN
  BY <1>3 DEF DesktopTypeOK, Place, MaybeGeneration
<1>6. NamesOffered /\ PhoneFollows /\ PlaceFits /\ SessionsPaired /\ SessionFits
  BY <1>2, <1>3 DEF NamesOffered, PhoneFollows, PlaceFits, SessionsPaired, SessionFits,
     HasBeenActive
<1>7. HelloIsFirst /\ ActivationsFollow /\ AcksHold
  BY <1>3 DEF Init, PhoneInit, HelloIsFirst, ActivationsFollow, ActivationAsked, AcksHold
<1> QED BY <1>1, <1>4, <1>5, <1>6, <1>7 DEF SystemInvariant

LEMMA SystemStep ==
    ASSUME SystemInvariant, [Next]_vars
    PROVE  SystemInvariant' /\ OneSideMoves
<1>1. CASE UNCHANGED vars
  <2>1. /\ UNCHANGED <<store, setup, authorized, unlocking, secrets, calm>>
        /\ UNCHANGED <<disk, pc, offer, session, stray, wire>>
    BY <1>1 DEF vars
  <2>2. PhoneInvariant' /\ PendingKept /\ CommittedMove /\ NoWayBack
    BY <2>1, NextStep DEF SystemInvariant, phoneVars
  <2>3. \A g \in Generation : Offered(g) => Offered(g)'
    BY <2>1 DEF Offered
  <2> QED BY <2>1, <2>2, <2>3, PhoneFrame DEF OneSideMoves
<1>2. CASE \E g \in Generation : PhoneHandshake(g) \/ PhoneGivesUp(g)
  <2>1. disk' = disk /\ stray' = stray
    BY <1>2 DEF PhoneHandshake, PhoneGivesUp, desktopVars
  <2> QED BY <1>2, <2>1, PhoneHandshakeStep, PhoneGivesUpStep DEF OneSideMoves
<1>3. CASE \E g \in Generation, kind \in {"commit", "activate"} :
              TakeRequest(kind, g) \/ ServeRequest(kind, g)
  <2>1. disk' = disk /\ stray' = stray
    BY <1>3 DEF TakeRequest, ServeRequest, desktopVars
  <2> QED BY <1>3, <2>1, TakeRequestStep, ServeRequestStep DEF OneSideMoves
<1>4. CASE PhoneAlone \/ PhoneDies
  <2>1. disk' = disk /\ stray' = stray
    BY <1>4 DEF PhoneAlone, PhoneDies, desktopVars
  <2> QED BY <1>4, <2>1, PhoneAloneStep, PhoneDiesStep DEF OneSideMoves
<1>5. CASE DesktopHandshake \/ DesktopGivesUp \/ DesktopCleansUp
  <2>1. store' = store
    BY <1>5 DEF DesktopHandshake, DesktopGivesUp, DesktopCleansUp, phoneVars
  <2> QED BY <1>5, <2>1, DesktopHandshakeStep, DesktopGivesUpStep, DesktopCleansUpStep
          DEF OneSideMoves
<1>6. CASE Reconcile \/ Commands \/ DesktopDies
  <2>1. store' = store
    BY <1>6 DEF Reconcile, Commands, DesktopDies, phoneVars
  <2> QED BY <1>6, <2>1, ReconcileStep, CommandStep, DesktopDiesStep DEF OneSideMoves
<1> QED
  BY <1>1, <1>2, <1>3, <1>4, <1>5, <1>6 DEF Next

\* The files, the store, the messages in between and the places of both programs
\* fit together as SystemInvariant says, whatever fails, crashes, is lost or late.
THEOREM SystemInvariantHolds == Spec => []SystemInvariant
BY SystemInit, SystemStep, PTL DEF Spec

-----------------------------------------------------------------------------
\* What follows from the invariant.

LEMMA TypesFollow == SystemInvariant => TypeOK
BY DEF SystemInvariant, PhoneInvariant, TypeOK

\* The recorded phase says how far the phone has come, and what it has come far
\* with is whole there.
LEMMA ResumableFollows == SystemInvariant => TransactionResumable
<1> SUFFICES ASSUME SystemInvariant, HasTxn(disk)
             PROVE  LET g == disk.txn.id IN
                    /\ Referenced(store, g) /\ KeyBound(store, g)
                    /\ disk.txn.phase # "Prepared" => g \in {store.committed, store.active}
                    /\ disk.txn.phase = "FullyActivated" => store.active = g
  BY DEF TransactionResumable
<1> DEFINE g == disk.txn.id
<1>1. g \in Offers /\ g # None
  BY SystemFacts DEF Offers, FilesSound
<1>2. disk.txn.phase \in Phase
  BY SystemFacts DEF HasTxn, Disk, Txn
<1>3. /\ Waiting(g) \/ store.active = g
      /\ disk.txn.phase # "Prepared" => g \in {store.committed, store.active}
      /\ disk.txn.phase = "FullyActivated" => store.active = g
  BY <1>2, SystemFacts DEF SystemInvariant, PhoneFollows, FilesSound, Phase
<1>4. KeyBound(store, g)
  BY <1>1, <1>3 DEF SystemInvariant, PhoneInvariant, Sound, ActiveWhole, PendingWhole, Waiting
<1>5. Referenced(store, g)
  BY <1>3 DEF Referenced, Waiting
<1> QED BY <1>3, <1>4, <1>5

\* Where the vault may be in each phase.
LEMMA OpenableFollows == SystemInvariant => VaultOpenable
<1> SUFFICES ASSUME SystemInvariant, disk.vault # None, ~Relapsed(disk.vault)
             PROVE  /\ KeyBound(store, disk.vault)
                    /\ \/ store.active = disk.vault
                       \/ /\ HasTxn(disk) /\ disk.txn.id = disk.vault
                          /\ store.pending = disk.vault /\ store.committed = disk.vault
  BY DEF VaultOpenable
<1>1. disk.txn.phase \in Phase \cup {"none"}
  BY SystemFacts DEF Disk, Txn
<1>2. \/ store.active = disk.vault
      \/ /\ HasTxn(disk) /\ disk.txn.id = disk.vault
         /\ Waiting(disk.vault) /\ store.committed = disk.vault
  BY <1>1, SystemFacts DEF SystemInvariant, FilesSound, InPlace, Relapsed, HalfPromoted,
     Promoted, PhoneFollows, HasTxn, Phase
<1>3. CASE store.active = disk.vault
  BY <1>3 DEF SystemInvariant, PhoneInvariant, Sound, ActiveWhole
<1>4. CASE HasTxn(disk) /\ disk.txn.id = disk.vault /\ Waiting(disk.vault)
           /\ store.committed = disk.vault
  <2>1. KeyBound(store, disk.txn.id)
    BY <1>4, ResumableFollows DEF TransactionResumable
  <2> QED BY <1>4, <2>1 DEF Waiting
<1> QED BY <1>2, <1>3, <1>4

LEMMA AgreementFollows == SystemInvariant => FilesAgree
BY SystemFacts DEF FilesAgree, FilesSound, InPlace, Relapsed

\* A rename that has something to do, or has been done, can succeed.
LEMMA PromoteCan ==
    ASSUME NEW d \in Disk, NEW g \in Generation,
           NEW live \in {"vault", "pairing"}, NEW pending,
           pending = (IF live = "vault" THEN "pendingVault" ELSE "pendingPairing"),
           d[pending] = g \/ (d[pending] = None /\ d[live] = g)
    PROVE  \E o \in Promote(d, pending, live) :
              /\ o.ok /\ o.st \in Disk /\ o.st[live] = g /\ o.st.txn = d.txn
              /\ live = "vault" => o.st.pairing = d.pairing
                                   /\ o.st.pendingPairing = d.pendingPairing
              /\ live = "pairing" => o.st.vault = d.vault
<1>1. CASE d[pending] = None
  <2>1. [st |-> d, ok |-> TRUE] \in Promote(d, pending, live)
    BY <1>1 DEF Promote, Ok
  <2> QED BY <1>1, <2>1
<1>2. CASE d[pending] # None
  <2> DEFINE e == [d EXCEPT ![live] = d[pending], ![pending] = None]
  <2>1. [st |-> e, ok |-> TRUE] \in Promote(d, pending, live)
    BY <1>2 DEF Promote, Write, Ok
  <2>2. CASE live = "vault"
    <3>1. /\ e \in Disk /\ e.vault = g /\ e.txn = d.txn /\ e.pairing = d.pairing
          /\ e.pendingPairing = d.pendingPairing
      BY <1>2, <2>2 DEF Disk, MaybeGeneration
    <3> QED BY <2>1, <2>2, <3>1
  <2>3. CASE live = "pairing"
    <3>1. e \in Disk /\ e.pairing = g /\ e.txn = d.txn /\ e.vault = d.vault
      BY <1>2, <2>3 DEF Disk, MaybeGeneration
    <3> QED BY <2>1, <2>3, <3>1
  <2> QED BY <2>2, <2>3
<1> QED BY <1>1, <1>2

\* Wherever promotion was cut, repeating it can succeed, with both files in place.
LEMMA RecoveryCan ==
    ASSUME NEW d, NEW a \in MaybeGeneration, NEW x, FilesSound(d, a, x),
           d.txn.phase = "PhoneCommitted", d.txn.id \in Generation
    PROVE  \E o \in RecoverTransaction(d) :
              o.ok /\ o.st.vault = d.txn.id /\ o.st.pairing = d.txn.id
<1> DEFINE g == d.txn.id
<1>1. d \in Disk /\ Rollbacks(d) /\ (ToPromote(d, g) \/ HalfPromoted(d, g) \/ Promoted(d, g))
  BY DEF FilesSound
<1>2. PICK b \in Promote(d, "pendingVault", "vault") :
          /\ b.ok /\ b.st \in Disk /\ b.st["vault"] = g /\ b.st.txn = d.txn
          /\ b.st.pairing = d.pairing /\ b.st.pendingPairing = d.pendingPairing
  <2>1. d["pendingVault"] = g \/ (d["pendingVault"] = None /\ d["vault"] = g)
    BY <1>1 DEF ToPromote, HalfPromoted, Promoted
  <2> QED BY <1>1, <2>1, PromoteCan
<1>3. PICK c \in Promote(b.st, "pendingPairing", "pairing") :
          c.ok /\ c.st \in Disk /\ c.st["pairing"] = g /\ c.st.txn = d.txn /\ c.st.vault = g
  <2>1. \/ b.st["pendingPairing"] = g
        \/ b.st["pendingPairing"] = None /\ b.st["pairing"] = g
    BY <1>1, <1>2 DEF ToPromote, HalfPromoted, Promoted
  <2> QED BY <1>2, <2>1, PromoteCan
<1>4. c \in PromotePendingPairing(d)
  BY <1>1, <1>2, <1>3 DEF PromotePendingPairing, Rollbacks, Then
<1> DEFINE e == [st |-> [c.st EXCEPT !.txn = [c.st.txn EXCEPT !.phase = "LocallyActivated"]],
                 ok |-> TRUE]
<1>5. e \in AdvanceTransaction(c.st, "LocallyActivated", g)
  BY <1>3 DEF AdvanceTransaction, WriteTxn, Write, Ok
<1>6. e \in RecoverTransaction(d)
  BY <1>3, <1>4, <1>5 DEF RecoverTransaction, HasTxn, Then
<1>7. e.ok /\ e.st.vault = g /\ e.st.pairing = g
  BY <1>3 DEF Disk
<1> QED BY <1>6, <1>7

LEMMA NeverStuckFollows == SystemInvariant => PromotionNeverStuck
<1> SUFFICES ASSUME SystemInvariant PROVE PromotionNeverStuck
  OBVIOUS
<1>1. ASSUME disk.txn.phase = "PhoneCommitted"
      PROVE  \E o \in RecoverTransaction(disk) :
                o.ok /\ o.st.vault = disk.txn.id /\ o.st.pairing = disk.txn.id
  <2>1. disk.txn.id \in Generation
    BY <1>1, SystemFacts DEF HasTxn
  <2> QED BY <1>1, <2>1, SystemFacts, RecoveryCan
<1>2. ASSUME pc = "resume"
      PROVE  disk.pendingPairing = disk.txn.id \/ disk.pairing = disk.txn.id
  <2>1. disk.txn.phase \in {"Prepared", "LocallyActivated"}
    BY <1>2 DEF SystemInvariant, PlaceFits
  <2> QED BY <2>1, SystemFacts DEF FilesSound, ToPromote, Promoted
<1> QED BY <1>1, <1>2 DEF PromotionNeverStuck

\* Under the invariant, each side's moves are moves of the handover.
LEMMA HandoverStep ==
    ASSUME SystemInvariant, OneSideMoves
    PROVE  Handover!Next \/ UNCHANGED <<disk.vault, store.active, disk.txn.id, stray>>
<1>2. CASE disk' = disk /\ stray' = stray /\ PhoneMove
  <2>1. CASE store'.active = store.active
    BY <1>2, <2>1
  <2>2. CASE store'.active # store.active
    <3>1. /\ disk.txn.id = store'.active /\ disk.vault = disk.txn.id
          /\ disk.txn.phase = "LocallyActivated"
      BY <1>2, <2>2 DEF PhoneMove, Promoted
    <3>2. disk.txn.id # None
      BY <3>1, SystemFacts DEF FilesSound, HasTxn
    <3>3. Handover!PhoneMoves
      BY <1>2, <3>1, <3>2 DEF Handover!PhoneMoves
    <3> QED BY <3>3 DEF Handover!Next
  <2> QED BY <2>1, <2>2
<1>3. CASE store' = store /\ DesktopMove
  <2>1. CASE stray' = stray /\ disk'.vault = disk.vault /\ disk'.txn.id = disk.txn.id
    BY <1>3, <2>1
  <2>2. CASE /\ stray' = stray /\ disk'.vault = disk.vault
             /\ disk.txn.id = None /\ disk'.txn.id \in Generation /\ Waiting(disk'.txn.id)
    <3>1. disk'.txn.id \notin {disk.vault, stray}
      BY <2>2, SystemFacts DEF SystemInvariant, SessionsPaired, HasBeenActive, FilesSound,
         InPlace, Waiting
    <3>2. Handover!Decide(disk'.txn.id)
      BY <1>3, <2>2, <3>1 DEF Handover!Decide
    <3> QED BY <2>2, <3>2 DEF Handover!Next
  <2>3. CASE /\ stray' = stray
             /\ disk'.vault = disk.txn.id /\ InPlace(disk, store.active, stray)
             /\ disk.txn.id # None /\ disk'.txn.id = disk.txn.id
    <3>1. Handover!DesktopMoves
      BY <1>3, <2>3 DEF Handover!DesktopMoves, Handover!HasRelapsed, InPlace
    <3> QED BY <3>1 DEF Handover!Next
  <2>4. CASE /\ stray' = stray /\ disk'.vault = disk.vault /\ disk.txn.id # None
             /\ store.active = disk.txn.id /\ disk'.txn.id = None
    <3>1. Handover!Settle
      BY <1>3, <2>4 DEF Handover!Settle
    <3> QED BY <3>1 DEF Handover!Next
  <2>5. CASE /\ disk.txn.id = None /\ disk'.txn.id = None
             /\ disk'.vault = disk.vault /\ disk.vault = store.active
             /\ stray' \in Generation \ {disk.vault}
    <3>1. Handover!LeaveBehind(stray')
      BY <1>3, <2>5 DEF Handover!LeaveBehind
    <3> QED BY <2>5, <3>1 DEF Handover!Next
  <2>6. CASE /\ disk.txn.id = None /\ disk'.txn.id = None
             /\ stray # None /\ disk'.vault = stray /\ stray' = stray
    <3>1. Handover!Relapse
      BY <1>3, <2>6 DEF Handover!Relapse
    <3> QED BY <3>1 DEF Handover!Next
  <2> QED BY <1>3, <2>1, <2>2, <2>3, <2>4, <2>5, <2>6 DEF DesktopMove
<1> QED BY <1>2, <1>3 DEF OneSideMoves

\* What the phone does here, the phone of PhonePairing does: the desktop asks it to
\* recover only what it has been offered.
LEMMA PhoneStep ==
    ASSUME SystemInvariant, [Next]_vars
    PROVE  PhoneNext \/ UNCHANGED phoneVars
<1>1. CASE \E g \in Generation : PhoneHandshake(g) \/ PhoneGivesUp(g)
  <2>1. PICK g \in Generation : SetupTask(g)
    BY <1>1 DEF PhoneHandshake, PhoneSends, PhoneGivesUp, SetupTask
  <2> QED BY <2>1 DEF PhoneNext
<1>2. ASSUME NEW g \in Generation, NEW kind \in {"commit", "activate"},
             TakeRequest(kind, g) \/ ServeRequest(kind, g)
      PROVE  PhoneNext
  <2>1. CASE TakeRequest(kind, g)
    <3>1. Msg(RequestType(kind), g) \in wire /\ AuthorizeRequest(kind, g)
      BY <2>1 DEF TakeRequest, Receive
    <3>2. Offered(g)
      BY <3>1 DEF SystemInvariant, NamesOffered, Msg
    <3> QED BY <3>1, <3>2 DEF PhoneNext, RecoveryRequest
  <2>2. CASE ServeRequest(kind, g)
    BY <2>2 DEF ServeRequest, PhoneNext, RecoveryRequest
  <2> QED BY <1>2, <2>1, <2>2
<1>3. CASE PhoneAlone \/ PhoneDies
  BY <1>3 DEF PhoneAlone, PhoneDies, PhoneNext, SetupTask
<1>4. CASE \/ DesktopHandshake \/ DesktopGivesUp \/ DesktopCleansUp
           \/ Reconcile \/ Commands \/ DesktopDies
  BY <1>4 DEF DesktopHandshake, DesktopGivesUp, DesktopCleansUp, Reconcile, Commands, DesktopDies
<1>5. CASE UNCHANGED vars
  BY <1>5 DEF vars, phoneVars
<1> QED BY <1>1, <1>2, <1>3, <1>4, <1>5 DEF Next

-----------------------------------------------------------------------------
\* The theorems.

\* Every reachable state has the declared types.
THEOREM Typed == Spec => []TypeOK
BY SystemInvariantHolds, TypesFollow, PTL

\* A recorded transaction can always be resumed: the phone still has its
\* generation whole, as far as the recorded phase says (serve_connection finds
\* what resume_transaction asks for).
THEOREM AlwaysResumable == Spec => []TransactionResumable
BY SystemInvariantHolds, ResumableFollows, PTL

\* A promotion that was cut anywhere can be repeated and completed: no bail of
\* promote_pending_pairing is ever met.
THEOREM PromotionCompletes == Spec => []PromotionNeverStuck
BY SystemInvariantHolds, NeverStuckFollows, PTL

\* The phone moves to a generation only when the desktop's files have moved and
\* both sides have that on record.
THEOREM CurrentKept == Spec => CurrentRemainsActive
<1>1. SystemInvariant /\ [Next]_vars =>
         [store'.active # store.active =>
            /\ disk.txn.phase = "LocallyActivated" /\ disk.txn.id = store'.active
            /\ disk.vault = store'.active /\ disk.pairing = store'.active
            /\ store.committed = store'.active]_vars
  BY SystemStep DEF OneSideMoves, PhoneMove, Promoted
<1> QED BY <1>1, SystemInvariantHolds, PTL DEF Spec, CurrentRemainsActive

\* The vault on disk is one that the phone can open, now or after recovery, except
\* while it is where the stray session of a failed `pair' has taken it back to.
THEOREM VaultAlwaysOpenable == Spec => []VaultOpenable
BY SystemInvariantHolds, OpenableFollows, PTL

\* At rest the pairing file is that of the phone, and with the same exception so is
\* the vault.
THEOREM FilesAlwaysAgree == Spec => []FilesAgree
BY SystemInvariantHolds, AgreementFollows, PTL

\* Whatever fails, crashes, is lost or late, the two sides hand over from one
\* generation to the next in the steps of PairingHandover; only a `pair' that fails
\* after both have moved leaves a session behind, and only its saves relapse.
THEOREM RefinesHandover == Spec => ImplementsHandover
<1>1. Init => Handover!Init
  BY NoTxnIsTxn DEF Init, DesktopInit, PhoneInit, EmptyDisk, EmptyStore, NoTxn, Handover!Init
<1>2. SystemInvariant /\ [Next]_vars =>
         [Handover!Next]_<<disk.vault, store.active, disk.txn.id, stray>>
  BY SystemStep, HandoverStep
<1> QED BY <1>1, <1>2, SystemInvariantHolds, PTL DEF Spec, ImplementsHandover, Handover!Spec

\* Composed with the real desktop, the phone does nothing that it could not do with
\* the open one of PhonePairing: what is proved there holds here too.
THEOREM ImplementsPhone == Spec => PhoneSpec
<1>1. Init => PhoneInit
  BY DEF Init
<1>2. SystemInvariant /\ [Next]_vars => [PhoneNext]_phoneVars
  BY PhoneStep
<1> QED BY <1>1, <1>2, SystemInvariantHolds, PTL DEF Spec, PhoneSpec

\* Each step moves one side at most, and only as PhoneMove and DesktopMove say.
THEOREM OneSideAtATime == Spec => [][OneSideMoves]_vars
<1>1. SystemInvariant /\ [Next]_vars => [OneSideMoves]_vars
  BY SystemStep
<1> QED BY <1>1, SystemInvariantHolds, PTL DEF Spec

=============================================================================
