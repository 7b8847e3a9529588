-------------------------- MODULE DesktopUseProofs --------------------------
(***************************************************************************)
(* The desktop in everyday use keeps its vault and its promises: for any    *)
(* number of processes, titles, clipboards and helpers.                     *)
(***************************************************************************)
EXTENDS DesktopUse, TLAPS

USE VaultAssumption, ClipboardAssumption, UseAssumption
    DEF VaultAssumption, ClipboardAssumption, UseAssumption

Places == {"idle", "waiting", "unlocking", "lookup", "approve", "ready", "relock"}
Processes == [at : Places, cmd : Commands, title : Title, open : BOOLEAN, vault : Vaults,
              key : 0 .. MaxPassword, approved : BOOLEAN]

\* Where the processes are: who is past the lock holds it, who looks an entry up has a
\* session, and who is about to act has been approved and found what it wants.
Placed(p, r) ==
    /\ r.open \/ r.at = "unlocking" => lock = p
    /\ r.at \in {"lookup", "approve", "ready", "relock"} => r.open
    /\ r.at = "ready" => r.approved
    /\ r.at \in {"approve", "ready"} /\ r.cmd = "get" => r.vault[r.title] # 0
PlacesAgree == \A p \in Proc : Placed(p, proc[p])

\* An open session shows what the user was last told the vault holds; only the file may
\* be ahead of it, by saves that reported an error.
SessionIsKnown == \A p \in Proc : proc[p].open => proc[p].vault = known

VaultInvariant == VaultTypeOK /\ PlacesAgree /\ SessionIsKnown /\ SessionKeyCurrent /\ NothingLost

-----------------------------------------------------------------------------
\* Types of the values the actions are built from.

\* A process that has not begun, and an empty vault, are of their types.
LEMMA ClosedType ==
    /\ Closed \in Processes /\ Empty \in Vaults
    /\ Closed.at = "idle" /\ ~Closed.open
<1>1. (CHOOSE t \in Title : TRUE) \in Title
  OBVIOUS
<1>2. Empty \in Vaults
  BY DEF Empty, Vaults
<1>. QED
  BY <1>1, <1>2 DEF Closed, Processes, Places, Commands

\* What a mutation makes of the session's vault: another vault, which differs in the
\* entry it is about, and in case of an edit perhaps in one that was free.
LEMMA CandidateType ==
    ASSUME VaultTypeOK, NEW p \in Proc, proc[p].cmd \in Mutations,
           version + Needs(p) <= MaxVersion, NEW c \in Candidates(p)
    PROVE  /\ c \in Vaults
           /\ \A t \in Title : c[t] # proc[p].vault[t] =>
                  t = proc[p].title \/ (proc[p].cmd = "edit" /\ proc[p].vault[t] = 0)
<1>. DEFINE v == proc[p].vault  s == proc[p].title
<1>1. v \in Vaults /\ s \in Title /\ version \in 0 .. MaxVersion
  BY DEF VaultTypeOK
<1>2. 0 \in 0 .. MaxVersion
  OBVIOUS
<1>3. CASE proc[p].cmd = "add"
  <2>1. version + 1 \in 0 .. MaxVersion
    BY <1>1, <1>3 DEF Needs
  <2>2. c = [v EXCEPT ![s] = version + 1]
    BY <1>3 DEF Candidates, Added
  <2>. HIDE DEF v, s
  <2>3. c \in Vaults
    BY <1>1, <2>1, <2>2 DEF Vaults
  <2>4. \A t \in Title : c[t] # v[t] => t = s
    BY <1>1, <2>2 DEF Vaults
  <2>. QED
    BY <2>3, <2>4 DEF v, s
<1>4. CASE proc[p].cmd = "remove"
  <2>1. c = [v EXCEPT ![s] = 0]
    BY <1>4 DEF Candidates, Removed
  <2>. HIDE DEF v, s
  <2>2. c \in Vaults
    BY <1>1, <1>2, <2>1 DEF Vaults
  <2>3. \A t \in Title : c[t] # v[t] => t = s
    BY <1>1, <2>1 DEF Vaults
  <2>. QED
    BY <2>2, <2>3 DEF v, s
<1>5. CASE proc[p].cmd = "edit"
  <2>1. version + 1 \in 0 .. MaxVersion
    BY <1>1, <1>5 DEF Needs
  <2>. DEFINE w == [v EXCEPT ![s] = 0]
  <2>2. PICK u \in Title : (u = s \/ v[u] = 0) /\ c = [w EXCEPT ![u] = version + 1]
    BY <1>5 DEF Candidates, Edited
  <2>. HIDE DEF v, s
  <2>3. w \in Vaults /\ \A t \in Title : t # s => w[t] = v[t]
    BY <1>1, <1>2 DEF Vaults
  <2>. HIDE DEF w
  <2>4. c \in Vaults
    BY <2>1, <2>2, <2>3 DEF Vaults
  <2>5. \A t \in Title : t # u => c[t] = w[t]
    BY <2>2, <2>3 DEF Vaults
  <2>. QED
    BY <1>5, <2>2, <2>3, <2>4, <2>5 DEF v, s
<1>. QED
  BY <1>3, <1>4, <1>5 DEF Mutations

-----------------------------------------------------------------------------
\* The invariant, of the first state and step by step.

LEMMA VaultInitial == VaultInit => VaultInvariant
<1>. SUFFICES ASSUME VaultInit PROVE VaultInvariant
  OBVIOUS
<1>1. \A p \in Proc : proc[p] \in Processes /\ proc[p].at = "idle" /\ ~proc[p].open
  <2>. SUFFICES ASSUME NEW p \in Proc
                PROVE  proc[p] \in Processes /\ proc[p].at = "idle" /\ ~proc[p].open
    BY Zenon
  <2>1. proc = [q \in Proc |-> Closed]
    BY DEF VaultInit
  <2>2. proc[p] = Closed
    BY <2>1, Zenon
  <2>. QED
    BY <2>2, ClosedType, Zenon
<1>2. proc \in [Proc -> Processes]
  BY ClosedType DEF VaultInit
<1>3. VaultTypeOK
  BY <1>1, <1>2, ClosedType DEF VaultInit, VaultTypeOK, Processes, Places
<1>4. PlacesAgree /\ SessionIsKnown /\ SessionKeyCurrent
  BY <1>1 DEF VaultInit, PlacesAgree, Placed, SessionIsKnown, SessionKeyCurrent
<1>5. NothingLost
  BY DEF VaultInit, NothingLost, Empty
<1>. QED
  BY <1>3, <1>4, <1>5 DEF VaultInvariant

\* A process that keeps its session as it is, and goes to a place that agrees with it.
LEMMA Moves ==
    ASSUME VaultInvariant, NEW p \in Proc, NEW r \in Processes,
           proc' = [proc EXCEPT ![p] = r], Placed(p, r),
           r.open = proc[p].open, r.vault = proc[p].vault, r.key = proc[p].key,
           commands' \in 0 .. MaxCommands,
           UNCHANGED <<disk, lock, version, password, history>>
    PROVE  VaultInvariant'
<1>1. proc \in [Proc -> Processes]
  BY DEF VaultInvariant, VaultTypeOK, Processes, Places
<1>2. proc' \in [Proc -> Processes] /\ \A q \in Proc : proc'[q] = IF q = p THEN r ELSE proc[q]
  BY <1>1
<1>3. VaultTypeOK'
  BY <1>2 DEF VaultInvariant, VaultTypeOK, Processes, Places, history
<1>4. PlacesAgree'
  BY <1>2 DEF VaultInvariant, PlacesAgree, Placed
<1>5. SessionIsKnown' /\ SessionKeyCurrent' /\ NothingLost'
  BY <1>2 DEF VaultInvariant, SessionIsKnown, SessionKeyCurrent, NothingLost, history
<1>. QED
  BY <1>3, <1>4, <1>5 DEF VaultInvariant

\* A process that drops its session.
LEMMA Closes ==
    ASSUME VaultInvariant, NEW p \in Proc, proc' = [proc EXCEPT ![p] = Closed],
           lock' = IF lock = p THEN None ELSE lock,
           UNCHANGED <<disk, counters, history>>
    PROVE  VaultInvariant'
<1>1. proc \in [Proc -> Processes]
  BY DEF VaultInvariant, VaultTypeOK, Processes, Places
<1>2. proc' \in [Proc -> Processes]
      /\ \A q \in Proc : proc'[q] = IF q = p THEN Closed ELSE proc[q]
  BY <1>1, ClosedType
<1>3. VaultTypeOK'
  BY <1>2, ClosedType DEF VaultInvariant, VaultTypeOK, Processes, Places, history, counters
<1>4. PlacesAgree'
  BY <1>2, ClosedType DEF VaultInvariant, PlacesAgree, Placed
<1>5. SessionIsKnown' /\ SessionKeyCurrent' /\ NothingLost'
  BY <1>2, ClosedType DEF VaultInvariant, SessionIsKnown, SessionKeyCurrent, NothingLost, history
<1>. QED
  BY <1>3, <1>4, <1>5 DEF VaultInvariant

\* Who has a session, or is making one, holds the lock: nobody else has one.
LEMMA Alone ==
    ASSUME VaultInvariant, NEW p \in Proc, proc[p].open \/ proc[p].at = "unlocking"
    PROVE  lock = p /\ \A q \in Proc \ {p} : ~proc[q].open /\ proc[q].at # "unlocking"
BY DEF VaultInvariant, PlacesAgree, Placed

LEMMA BeginKeeps ==
    ASSUME VaultInvariant, NEW p \in Proc, NEW cmd \in Commands, NEW t \in Title,
           Begin(p, cmd, t)
    PROVE  VaultInvariant'
<1>. DEFINE r == [proc[p] EXCEPT !.at = IF proc[p].open THEN "lookup" ELSE "waiting",
                                 !.cmd = cmd, !.title = t]
<1>1. proc \in [Proc -> Processes] /\ Placed(p, proc[p])
  BY DEF VaultInvariant, VaultTypeOK, PlacesAgree, Processes, Places
<1>2. r \in Processes /\ r.open = proc[p].open /\ r.vault = proc[p].vault /\ r.key = proc[p].key
  BY <1>1 DEF Processes, Places
<1>3. Placed(p, r)
  BY <1>1 DEF Placed, Processes, Places
<1>4. proc' = [proc EXCEPT ![p] = r]
  BY DEF Begin
<1>5. commands' \in 0 .. MaxCommands
  BY DEF Begin, VaultInvariant, VaultTypeOK
<1>. HIDE DEF r
<1>. QED
  BY <1>2, <1>3, <1>4, <1>5, Moves DEF Begin, history

LEMMA AcquireLockKeeps ==
    ASSUME VaultInvariant, NEW p \in Proc, AcquireLock(p)
    PROVE  VaultInvariant'
<1>. DEFINE r == [proc[p] EXCEPT !.at = "unlocking"]
<1>1. proc \in [Proc -> Processes] /\ \A q \in Proc : Placed(q, proc[q])
  BY DEF VaultInvariant, VaultTypeOK, PlacesAgree, Processes, Places
<1>2. r \in Processes /\ r.at = "unlocking" /\ r.open = proc[p].open
  BY <1>1 DEF Processes, Places
<1>3. \A q \in Proc : ~proc[q].open /\ proc[q].at # "unlocking"
  BY <1>1 DEF AcquireLock, Placed
<1>4. proc' = [proc EXCEPT ![p] = r]
  BY DEF AcquireLock, To
<1>. HIDE DEF r
<1>5. proc' \in [Proc -> Processes] /\ \A q \in Proc : proc'[q] = IF q = p THEN r ELSE proc[q]
  BY <1>1, <1>2, <1>4
<1>6. VaultTypeOK'
  BY <1>2, <1>3, <1>5
  DEF AcquireLock, VaultInvariant, VaultTypeOK, Processes, Places, history, counters
<1>7. PlacesAgree'
  BY <1>1, <1>2, <1>3, <1>5 DEF AcquireLock, PlacesAgree, Placed
<1>8. SessionIsKnown' /\ SessionKeyCurrent' /\ NothingLost'
  BY <1>2, <1>3, <1>5
  DEF AcquireLock, VaultInvariant, SessionIsKnown, SessionKeyCurrent, NothingLost, history
<1>. QED
  BY <1>6, <1>7, <1>8 DEF VaultInvariant

LEMMA UnlockKeeps ==
    ASSUME VaultInvariant, NEW p \in Proc, Unlock(p)
    PROVE  VaultInvariant'
<1>. DEFINE r == [proc[p] EXCEPT !.at = IF proc[p].cmd = "unlock" THEN "idle" ELSE "lookup",
                                 !.open = TRUE, !.vault = disk.vault, !.key = disk.key,
                                 !.approved = proc[p].cmd # "unlock"]
<1>1. proc \in [Proc -> Processes] /\ disk.vault \in Vaults /\ disk.key \in 0 .. MaxPassword
  BY DEF VaultInvariant, VaultTypeOK, Processes, Places
<1>2. r \in Processes /\ r.at \in {"idle", "lookup"} /\ r.open
      /\ r.vault = disk.vault /\ r.key = disk.key
  BY <1>1 DEF Processes, Places
<1>3. lock = p /\ \A q \in Proc \ {p} : ~proc[q].open /\ proc[q].at # "unlocking"
  BY Alone DEF Unlock
<1>4. proc' = [proc EXCEPT ![p] = r]
  BY DEF Unlock
<1>. HIDE DEF r
<1>5. proc' \in [Proc -> Processes] /\ \A q \in Proc : proc'[q] = IF q = p THEN r ELSE proc[q]
  BY <1>1, <1>2, <1>4
<1>6. VaultTypeOK'
  <2>1. \A q \in Proc : proc'[q].open => lock' = q
    BY <1>3, <1>5 DEF Unlock
  <2>2. known' \in Vaults /\ maybe' \in [Title -> SUBSET (0 .. MaxVersion)]
        /\ told' \subseteq 0 .. MaxPassword
    BY <1>1 DEF Unlock
  <2>. QED
    BY <1>5, <2>1, <2>2 DEF Unlock, VaultInvariant, VaultTypeOK, Processes, Places, counters
<1>7. PlacesAgree'
  BY <1>2, <1>3, <1>5 DEF Unlock, VaultInvariant, PlacesAgree, Placed
<1>8. SessionIsKnown' /\ SessionKeyCurrent'
  BY <1>2, <1>3, <1>5 DEF Unlock, SessionIsKnown, SessionKeyCurrent
<1>9. NothingLost'
  BY DEF Unlock, NothingLost
<1>. QED
  BY <1>6, <1>7, <1>8, <1>9 DEF VaultInvariant

\* Looking up, being approved, giving up, printing: only place and approval change.
LEMMA PlaceKeeps ==
    ASSUME VaultInvariant, NEW p \in Proc, LookUp(p) \/ Approve(p) \/ GiveUp(p) \/ List(p) \/ Get(p)
    PROVE  VaultInvariant'
<1>1. proc \in [Proc -> Processes] /\ Placed(p, proc[p]) /\ proc[p].open
  BY DEF VaultInvariant, VaultTypeOK, PlacesAgree, Placed, Processes, Places,
         LookUp, Approve, GiveUp, List, Get
<1>2. commands' \in 0 .. MaxCommands /\ UNCHANGED <<disk, lock, version, password, history>>
  BY DEF LookUp, Approve, GiveUp, List, Get, counters, history, VaultInvariant, VaultTypeOK
<1>3. CASE LookUp(p) /\ Fits(p)
  <2>. DEFINE r == [proc[p] EXCEPT !.at = "approve"]
  <2>1. r \in Processes /\ r.open = proc[p].open /\ r.vault = proc[p].vault /\ r.key = proc[p].key
    BY <1>1 DEF Processes, Places
  <2>2. Placed(p, r)
    BY <1>1, <1>3 DEF Placed, Fits, Processes
  <2>3. proc' = [proc EXCEPT ![p] = r]
    BY <1>3 DEF LookUp, To
  <2>. HIDE DEF r
  <2>. QED
    BY <1>2, <2>1, <2>2, <2>3, Moves
<1>4. CASE Approve(p)
  <2>. DEFINE r == [proc[p] EXCEPT !.at = "ready", !.approved = TRUE]
  <2>1. r \in Processes /\ r.open = proc[p].open /\ r.vault = proc[p].vault /\ r.key = proc[p].key
    BY <1>1 DEF Processes, Places
  <2>2. Placed(p, r)
    BY <1>1, <1>4 DEF Approve, Placed, Processes
  <2>3. proc' = [proc EXCEPT ![p] = r]
    BY <1>4 DEF Approve
  <2>. HIDE DEF r
  <2>. QED
    BY <1>2, <2>1, <2>2, <2>3, Moves
<1>5. CASE Idle(p)
  <2>. DEFINE r == [proc[p] EXCEPT !.at = "idle", !.approved = FALSE]
  <2>1. r \in Processes /\ r.open = proc[p].open /\ r.vault = proc[p].vault /\ r.key = proc[p].key
    BY <1>1 DEF Processes, Places
  <2>2. Placed(p, r)
    BY <1>1 DEF Placed, Processes
  <2>3. proc' = [proc EXCEPT ![p] = r]
    BY <1>5 DEF Idle
  <2>. HIDE DEF r
  <2>. QED
    BY <1>2, <2>1, <2>2, <2>3, Moves
<1>. QED
  BY <1>3, <1>4, <1>5 DEF LookUp, GiveUp, List, Get

\* A save.
LEMMA SaveKeeps ==
    ASSUME VaultInvariant, NEW p \in Proc, Save(p)
    PROVE  VaultInvariant'
<1>1. /\ proc \in [Proc -> Processes] /\ version \in 0 .. MaxVersion /\ known \in Vaults
      /\ disk \in [vault : Vaults, key : 0 .. MaxPassword]
      /\ maybe \in [Title -> SUBSET (0 .. MaxVersion)]
  BY DEF VaultInvariant, VaultTypeOK, Processes, Places
<1>2. /\ proc[p].open /\ proc[p].vault = known /\ proc[p].key = disk.key
      /\ lock = p /\ \A q \in Proc \ {p} : ~proc[q].open /\ proc[q].at # "unlocking"
  <2>1. proc[p].open
    BY DEF Save, VaultInvariant, PlacesAgree, Placed
  <2>. QED
    BY <2>1, Alone DEF VaultInvariant, SessionIsKnown, SessionKeyCurrent
<1>3. PICK c \in Candidates(p), done \in BOOLEAN, ok \in BOOLEAN :
         /\ ok => done
         /\ disk' = IF done THEN [vault |-> c, key |-> proc[p].key] ELSE disk
         /\ proc' = [proc EXCEPT ![p].at = "idle", ![p].approved = FALSE,
                                 ![p].vault = IF ok THEN c ELSE @]
         /\ known' = IF ok THEN [t \in Title |-> IF t \in Changed(p, c)
                                                 THEN c[t] ELSE known[t]] ELSE known
         /\ maybe' = [t \in Title |-> IF t \notin Changed(p, c) THEN maybe[t]
                                      ELSE IF ok THEN {} ELSE maybe[t] \cup {c[t]}]
  BY DEF Save, Written
<1>4. c \in Vaults
  BY CandidateType DEF Save, VaultInvariant
<1>5. known' = IF ok THEN c ELSE known
  <2>1. \A t \in Title : t \notin Changed(p, c) => c[t] = known[t]
    BY <1>2 DEF Changed
  <2>2. ok => \A t \in Title : known'[t] = c[t]
    BY <1>3, <2>1
  <2>3. ok => known' = c
    BY <1>3, <1>4, <2>1 DEF Vaults
  <2>. QED
    BY <1>3, <2>3
<1>. DEFINE r == [proc[p] EXCEPT !.at = "idle", !.approved = FALSE, !.vault = IF ok THEN c ELSE @]
<1>6. /\ r \in Processes /\ r.at = "idle" /\ r.open = proc[p].open /\ r.key = proc[p].key
      /\ r.vault = IF ok THEN c ELSE known
  <2>. DEFINE n == IF ok THEN c ELSE proc[p].vault
  <2>1. n \in Vaults /\ n = IF ok THEN c ELSE known
    BY <1>1, <1>2, <1>4
  <2>2. r = [proc[p] EXCEPT !.at = "idle", !.approved = FALSE, !.vault = n]
    OBVIOUS
  <2>. HIDE DEF n, r
  <2>3. proc[p] \in Processes
    BY <1>1
  <2>4. /\ r \in Processes /\ r.at = "idle" /\ r.open = proc[p].open /\ r.key = proc[p].key
        /\ r.vault = n
    BY <2>1, <2>2, <2>3 DEF Processes, Places
  <2>. QED
    BY <2>1, <2>4
<1>7. proc' = [proc EXCEPT ![p] = r]
  BY <1>3
<1>. HIDE DEF r
<1>8. proc' \in [Proc -> Processes] /\ \A q \in Proc : proc'[q] = IF q = p THEN r ELSE proc[q]
  BY <1>1, <1>6, <1>7
<1>9. VaultTypeOK'
  <2>1. disk' \in [vault : Vaults, key : 0 .. MaxPassword] /\ known' \in Vaults
    BY <1>1, <1>2, <1>3, <1>4, <1>5
  <2>2. \A t \in Title : c[t] \in 0 .. MaxVersion
    BY <1>4 DEF Vaults
  <2>3. maybe' \in [Title -> SUBSET (0 .. MaxVersion)]
    BY <1>1, <1>3, <2>2
  <2>4. version' \in 0 .. MaxVersion
    BY <1>1 DEF Save, Needs
  <2>5. \A q \in Proc : proc'[q].open => lock' = q
    BY <1>2, <1>8 DEF Save
  <2>6. UNCHANGED <<lock, password, commands, told>>
    BY DEF Save
  <2>. QED
    BY <1>8, <2>1, <2>3, <2>4, <2>5, <2>6 DEF VaultInvariant, VaultTypeOK, Processes, Places
<1>10. PlacesAgree'
  BY <1>2, <1>6, <1>8 DEF Save, VaultInvariant, PlacesAgree, Placed
<1>11. SessionIsKnown'
  BY <1>2, <1>5, <1>6, <1>8 DEF SessionIsKnown
<1>12. SessionKeyCurrent'
  BY <1>2, <1>3, <1>6, <1>8 DEF Save, VaultInvariant, SessionKeyCurrent
<1>13. NothingLost'
  <2>. SUFFICES ASSUME NEW t \in Title PROVE disk'.vault[t] \in {known'[t]} \cup maybe'[t]
    BY DEF NothingLost
  <2>1. disk.vault[t] \in {known[t]} \cup maybe[t]
    BY DEF VaultInvariant, NothingLost
  <2>2. CASE t \in Changed(p, c)
    BY <1>3, <1>5, <2>1, <2>2
  <2>3. CASE t \notin Changed(p, c)
    <3>1. c[t] = known[t]
      BY <1>2, <2>3 DEF Changed
    <3>. QED
      BY <1>3, <1>5, <2>1, <2>3, <3>1
  <2>. QED
    BY <2>2, <2>3
<1>. QED
  BY <1>9, <1>10, <1>11, <1>12, <1>13 DEF VaultInvariant

\* A change of the master password.
LEMMA RotateKeeps ==
    ASSUME VaultInvariant, NEW p \in Proc, RotateVault(p)
    PROVE  VaultInvariant'
<1>1. /\ proc \in [Proc -> Processes] /\ password + 1 \in 0 .. MaxPassword /\ known \in Vaults
      /\ disk \in [vault : Vaults, key : 0 .. MaxPassword] /\ told \subseteq 0 .. MaxPassword
  BY DEF RotateVault, VaultInvariant, VaultTypeOK, Processes, Places
<1>2. /\ proc[p].open /\ proc[p].vault = known /\ proc[p].key = disk.key
      /\ lock = p /\ \A q \in Proc \ {p} : ~proc[q].open /\ proc[q].at # "unlocking"
  <2>1. proc[p].open
    BY DEF RotateVault, VaultInvariant, PlacesAgree, Placed
  <2>. QED
    BY <2>1, Alone DEF VaultInvariant, SessionIsKnown, SessionKeyCurrent
<1>3. PICK done \in BOOLEAN, ok \in BOOLEAN :
         /\ ok => done
         /\ disk' = IF done THEN [vault |-> proc[p].vault, key |-> password + 1] ELSE disk
         /\ told' = IF ok THEN {password + 1} ELSE told \cup {password + 1}
         /\ IF ok THEN /\ proc' = [proc EXCEPT ![p].at = "relock", ![p].key = password + 1]
                       /\ UNCHANGED lock
                  ELSE Drop(p)
  BY DEF RotateVault, Written
<1>4. PICK r \in Processes :
         /\ proc' = [proc EXCEPT ![p] = r]
         /\ lock' = p \/ ~r.open
         /\ r.open => lock' = p /\ ok /\ r.vault = known /\ r.key = password + 1
         /\ r.at \in {"idle", "relock"} /\ (r.at = "relock" => r.open)
  <2>1. CASE ok
    <3>. DEFINE r == [proc[p] EXCEPT !.at = "relock", !.key = password + 1]
    <3>1. proc[p] \in Processes
      BY <1>1
    <3>2. /\ r \in Processes /\ r.at = "relock" /\ r.key = password + 1
          /\ r.open = proc[p].open /\ r.vault = proc[p].vault
      BY <1>1, <3>1 DEF Processes, Places
    <3>3. proc' = [proc EXCEPT ![p] = r] /\ lock' = p
      BY <1>2, <1>3, <2>1
    <3>. HIDE DEF r
    <3>. QED
      BY <1>2, <2>1, <3>2, <3>3
  <2>2. CASE ~ok
    BY <1>3, <2>2, ClosedType DEF Drop
  <2>. QED
    BY <2>1, <2>2
<1>5. proc' \in [Proc -> Processes] /\ \A q \in Proc : proc'[q] = IF q = p THEN r ELSE proc[q]
  BY <1>1, <1>4
<1>6. lock' \in Proc \cup {None}
  BY <1>2, <1>3 DEF Drop
<1>7. VaultTypeOK'
  <2>1. disk' \in [vault : Vaults, key : 0 .. MaxPassword] /\ told' \subseteq 0 .. MaxPassword
        /\ password' \in 0 .. MaxPassword
    BY <1>1, <1>2, <1>3 DEF RotateVault
  <2>2. \A q \in Proc : proc'[q].open => lock' = q
    BY <1>2, <1>4, <1>5
  <2>3. UNCHANGED <<version, commands, known, maybe>>
    BY DEF RotateVault
  <2>. QED
    BY <1>5, <1>6, <2>1, <2>2, <2>3 DEF VaultInvariant, VaultTypeOK, Processes, Places
<1>8. PlacesAgree'
  BY <1>2, <1>4, <1>5 DEF VaultInvariant, PlacesAgree, Placed
<1>9. SessionIsKnown'
  BY <1>2, <1>4, <1>5 DEF RotateVault, SessionIsKnown
<1>10. SessionKeyCurrent'
  BY <1>1, <1>2, <1>3, <1>4, <1>5 DEF VaultInvariant, SessionKeyCurrent
<1>11. NothingLost'
  BY <1>1, <1>2, <1>3 DEF RotateVault, VaultInvariant, NothingLost
<1>. QED
  BY <1>7, <1>8, <1>9, <1>10, <1>11 DEF VaultInvariant

\* Every step of a process, alone or copying.
LEMMA VaultStepKeeps ==
    ASSUME VaultInvariant, NEW p \in Proc, VaultStep(p) \/ Get(p)
    PROVE  VaultInvariant'
<1>1. CASE \E cmd \in Commands, t \in Title : Begin(p, cmd, t)
  BY <1>1, BeginKeeps
<1>2. CASE AcquireLock(p)
  BY <1>2, AcquireLockKeeps
<1>3. CASE Unlock(p)
  BY <1>3, UnlockKeeps
<1>4. CASE UnlockFails(p) \/ LockAfterRotation(p)
  <2>1. lock = p
    BY <1>4 DEF UnlockFails, LockAfterRotation, VaultInvariant, PlacesAgree, Placed
  <2>. QED
    BY <1>4, <2>1, Closes DEF UnlockFails, LockAfterRotation, Drop
<1>5. CASE LookUp(p) \/ Approve(p) \/ GiveUp(p) \/ List(p) \/ Get(p)
  BY <1>5, PlaceKeeps
<1>6. CASE Save(p)
  BY <1>6, SaveKeeps
<1>7. CASE RotateVault(p)
  BY <1>7, RotateKeeps
<1>8. CASE Stop(p)
  BY <1>8, Closes DEF Stop
<1>. QED
  BY <1>1, <1>2, <1>3, <1>4, <1>5, <1>6, <1>7, <1>8 DEF VaultStep

-----------------------------------------------------------------------------
\* The clipboard.

ClipboardInvariant == ClipboardTypeOK /\ PromisesAreWatched

\* The copy that is none, and the helper that is not started, are of their types, and
\* no copy of a password is the one that is none.
LEMMA NoCopyType ==
    /\ NoCopy.command \in CopyCommands /\ NoCopy.value = 0 /\ NoCopy \in Copies
    /\ Unused.at = "unused" /\ Unused.target \in Target /\ Unused.value = 0
    /\ Unused = [at |-> "unused", target |-> Unused.target, value |-> 0]
<1>1. PICK g \in Target : TRUE
  OBVIOUS
<1>2. [target |-> g, clears |-> TRUE] \in CopyCommands
  BY DEF CopyCommands
<1>3. (CHOOSE c \in CopyCommands : TRUE) \in CopyCommands
  BY <1>2
<1>4. NoCopy.command \in CopyCommands /\ NoCopy.value = 0 /\ NoCopy \in Copies
  BY <1>3 DEF NoCopy, Copies
<1>5. NoCopy.command.target \in Target
  BY <1>4 DEF CopyCommands
<1>. QED
  BY <1>4, <1>5 DEF Unused

LEMMA ClipboardInitial == ClipboardInit => ClipboardInvariant
<1>. SUFFICES ASSUME ClipboardInit PROVE ClipboardInvariant
  OBVIOUS
<1>1. config \in Configs
  BY DEF ClipboardInit, Configs, Timeouts
<1>2. copying \in [User -> Copies]
  BY NoCopyType DEF ClipboardInit
<1>3. helper \in [Helper -> [at : {"unused", "asleep", "owner", "done", "failed"},
                            target : Target, value : {0} \cup Password]]
  BY NoCopyType DEF ClipboardInit
<1>4. configs \in 0 .. MaxConfigs /\ board \in [Target -> {0} \cup Password] /\ promised = {}
  BY DEF ClipboardInit
<1>. QED
  BY <1>1, <1>2, <1>3, <1>4 DEF ClipboardInvariant, ClipboardTypeOK, PromisesAreWatched

LEMMA PipeKeeps ==
    ASSUME ClipboardInvariant, NEW u \in User, NEW n \in Password, Pipe(u, n)
    PROVE  ClipboardInvariant'
<1>. DEFINE g == config.command.target
<1>1. config.command \in CopyCommands /\ g \in Target
  BY DEF ClipboardInvariant, ClipboardTypeOK, Configs, CopyCommands
<1>2. \/ board' = board /\ promised' = promised
      \/ board' = [board EXCEPT ![g] = n] /\ promised' = promised \ {g}
  BY DEF Pipe
<1>3. UNCHANGED <<config, configs, helper>>
  BY DEF Pipe
<1>4. copying' \in [User -> Copies]
  <2>1. [value |-> n, command |-> config.command] \in Copies
    BY <1>1 DEF Copies
  <2>. QED
    BY <2>1 DEF Pipe, ClipboardInvariant, ClipboardTypeOK
<1>. HIDE DEF g
<1>5. board' \in [Target -> {0} \cup Password] /\ promised' \subseteq Target
  BY <1>1, <1>2 DEF ClipboardInvariant, ClipboardTypeOK
<1>6. \A x \in promised' : x \in promised /\ board'[x] = board[x]
  BY <1>1, <1>2 DEF ClipboardInvariant, ClipboardTypeOK
<1>7. ClipboardTypeOK'
  BY <1>3, <1>4, <1>5 DEF ClipboardInvariant, ClipboardTypeOK
<1>8. PromisesAreWatched'
  BY <1>3, <1>6 DEF ClipboardInvariant, PromisesAreWatched
<1>. QED
  BY <1>7, <1>8 DEF ClipboardInvariant

LEMMA AbandonKeeps ==
    ASSUME ClipboardInvariant, NEW u \in User, Abandon(u)
    PROVE  ClipboardInvariant'
<1>1. ClipboardTypeOK'
  BY NoCopyType DEF Abandon, ClipboardInvariant, ClipboardTypeOK
<1>2. PromisesAreWatched'
  BY DEF Abandon, ClipboardInvariant, PromisesAreWatched
<1>. QED
  BY <1>1, <1>2 DEF ClipboardInvariant

Helpers == [at : {"unused", "asleep", "owner", "done", "failed"},
            target : Target, value : {0} \cup Password]

LEMMA ScheduleKeeps ==
    ASSUME ClipboardInvariant, NEW u \in User, Schedule(u)
    PROVE  ClipboardInvariant'
<1>. DEFINE copy == copying[u]  g == copy.command.target
<1>1. copy.value \in Password /\ copy.command \in CopyCommands /\ g \in Target
  BY DEF Schedule, ClipboardInvariant, ClipboardTypeOK, Copies, CopyCommands
<1>2. UNCHANGED <<config, configs, board>> /\ copying' = [copying EXCEPT ![u] = NoCopy]
  BY DEF Schedule
<1>3. copying' \in [User -> Copies]
  BY <1>2, NoCopyType DEF ClipboardInvariant, ClipboardTypeOK
<1>4. CASE UNCHANGED <<helper, promised>>
  BY <1>2, <1>3, <1>4 DEF ClipboardInvariant, ClipboardTypeOK, PromisesAreWatched
<1>5. CASE \E h \in Helper :
             /\ helper[h].at = "unused"
             /\ helper' = [helper EXCEPT ![h] =
                   [at |-> "asleep", target |-> g, value |-> copy.value]]
             /\ promised' = IF board[g] = copy.value THEN promised \cup {g} ELSE promised
  <2>. HIDE DEF copy, g
  <2>1. PICK h \in Helper :
             /\ helper[h].at = "unused"
             /\ helper' = [helper EXCEPT ![h] =
                   [at |-> "asleep", target |-> g, value |-> copy.value]]
             /\ promised' = IF board[g] = copy.value THEN promised \cup {g} ELSE promised
    BY <1>5
  <2>. DEFINE r == [at |-> "asleep", target |-> g, value |-> copy.value]
  <2>2. r \in Helpers /\ r.at = "asleep" /\ r.target = g /\ r.value = copy.value
    BY <1>1 DEF Helpers
  <2>. HIDE DEF r
  <2>3. /\ helper' \in [Helper -> Helpers]
        /\ \A k \in Helper : helper'[k] = IF k = h THEN r ELSE helper[k]
    BY <2>1, <2>2 DEF r, Helpers, ClipboardInvariant, ClipboardTypeOK
  <2>4. ClipboardTypeOK'
    BY <1>1, <1>2, <1>3, <2>1, <2>3 DEF Helpers, ClipboardInvariant, ClipboardTypeOK
  <2>5. PromisesAreWatched'
    <3>. SUFFICES ASSUME NEW x \in promised'
                  PROVE  \E k \in Helper : /\ helper'[k].at \in {"asleep", "owner", "failed"}
                                           /\ helper'[k].target = x /\ helper'[k].value = board'[x]
      BY DEF PromisesAreWatched
    <3>1. CASE x \in promised
      <4>1. PICK k \in Helper : /\ helper[k].at \in {"asleep", "owner", "failed"}
                                /\ helper[k].target = x /\ helper[k].value = board[x]
        BY <3>1 DEF ClipboardInvariant, PromisesAreWatched
      <4>2. helper'[k] = helper[k]
        BY <2>1, <2>3, <4>1
      <4>. QED
        BY <1>2, <4>1, <4>2
    <3>2. CASE x = g /\ board[g] = copy.value
      BY <1>2, <2>2, <2>3, <3>2
    <3>. QED
      BY <2>1, <3>1, <3>2
  <2>. QED
    BY <2>4, <2>5 DEF ClipboardInvariant
<1>. QED
  BY <1>4, <1>5 DEF Schedule

\* The user, the configuration and the helpers.
LEMMA ClipboardAloneKeeps ==
    ASSUME ClipboardInvariant, ClipboardAlone
    PROVE  ClipboardInvariant'
<1>1. CASE SetCommand \/ SetTimeout
  <2>1. ClipboardTypeOK'
    BY <1>1 DEF SetCommand, SetTimeout, ClipboardInvariant, ClipboardTypeOK, Configs, Timeouts
  <2>2. PromisesAreWatched'
    BY <1>1 DEF SetCommand, SetTimeout, ClipboardInvariant, PromisesAreWatched
  <2>. QED
    BY <2>1, <2>2 DEF ClipboardInvariant
<1>2. ASSUME NEW g \in Target, UserCopies(g) PROVE ClipboardInvariant'
  <2>1. ClipboardTypeOK'
    BY <1>2 DEF UserCopies, ClipboardInvariant, ClipboardTypeOK
  <2>2. \A x \in promised' : x \in promised /\ board'[x] = board[x]
    BY <1>2 DEF UserCopies, ClipboardInvariant, ClipboardTypeOK
  <2>3. PromisesAreWatched'
    BY <1>2, <2>2 DEF UserCopies, ClipboardInvariant, PromisesAreWatched
  <2>. QED
    BY <2>1, <2>3 DEF ClipboardInvariant
<1>3. ASSUME NEW h \in Helper, Look(h) \/ Clear(h) \/ HelperFails(h) PROVE ClipboardInvariant'
  <2>1. helper \in [Helper -> Helpers] /\ helper[h].target \in Target
    BY DEF Helpers, ClipboardInvariant, ClipboardTypeOK
  <2>2. PICK at \in {"owner", "done", "failed"} :
           /\ helper' = [helper EXCEPT ![h].at = at]
           /\ at = "done" /\ Look(h) => board[helper[h].target] # helper[h].value
           /\ at = "done" => Look(h) \/ Clear(h)
    BY <1>3 DEF Look, Clear, HelperFails
  <2>. DEFINE r == [helper[h] EXCEPT !.at = at]
  <2>3. r \in Helpers /\ r.at = at /\ r.target = helper[h].target /\ r.value = helper[h].value
    BY <2>1 DEF Helpers
  <2>4. helper' = [helper EXCEPT ![h] = r]
    BY <2>2
  <2>. HIDE DEF r
  <2>5. /\ helper' \in [Helper -> Helpers]
        /\ \A k \in Helper : helper'[k] = IF k = h THEN r ELSE helper[k]
    BY <2>1, <2>3, <2>4
  <2>6. /\ board' \in [Target -> {0} \cup Password] /\ promised' \subseteq Target
        /\ \A x \in promised' : x \in promised /\ board'[x] = board[x]
        /\ Clear(h) => helper[h].target \notin promised'
    BY <1>3, <2>1 DEF Look, Clear, HelperFails, ClipboardInvariant, ClipboardTypeOK
  <2>7. UNCHANGED <<config, configs, copying>>
    BY <1>3 DEF Look, Clear, HelperFails
  <2>8. ClipboardTypeOK'
    BY <2>5, <2>6, <2>7 DEF Helpers, ClipboardInvariant, ClipboardTypeOK
  <2>9. PromisesAreWatched'
    <3>. SUFFICES ASSUME NEW x \in promised'
                  PROVE  \E k \in Helper : /\ helper'[k].at \in {"asleep", "owner", "failed"}
                                           /\ helper'[k].target = x /\ helper'[k].value = board'[x]
      BY DEF PromisesAreWatched
    <3>1. PICK k \in Helper : /\ helper[k].at \in {"asleep", "owner", "failed"}
                              /\ helper[k].target = x /\ helper[k].value = board[x]
      BY <2>6 DEF ClipboardInvariant, PromisesAreWatched
    <3>2. k = h => at # "done"
      BY <2>2, <2>6, <3>1
    <3>3. /\ helper'[k].at \in {"asleep", "owner", "failed"}
          /\ helper'[k].target = x /\ helper'[k].value = board'[x]
      BY <2>3, <2>5, <2>6, <3>1, <3>2
    <3>. QED
      BY <3>3
  <2>. QED
    BY <2>8, <2>9 DEF ClipboardInvariant
<1>. QED
  BY <1>1, <1>2, <1>3 DEF ClipboardAlone

-----------------------------------------------------------------------------
\* The desktop as a whole.

DesktopInvariant == VaultInvariant /\ ClipboardInvariant

\* What `get' hands over is a password, that of the entry as it is known.
LEMMA GetsPassword ==
    ASSUME VaultInvariant, NEW p \in Proc, proc[p].at = "ready", proc[p].cmd = "get"
    PROVE  /\ proc[p].approved /\ proc[p].title \in Title
           /\ proc[p].vault[proc[p].title] = known[proc[p].title]
           /\ known[proc[p].title] \in Password
<1>1. /\ proc[p].approved /\ proc[p].vault = known
      /\ proc[p].vault[proc[p].title] # 0
  BY DEF VaultInvariant, PlacesAgree, Placed, SessionIsKnown
<1>2. proc[p].title \in Title /\ known \in Vaults
  BY DEF VaultInvariant, VaultTypeOK
<1>3. known[proc[p].title] \in 0 .. MaxVersion
  BY <1>2 DEF Vaults
<1>. QED
  BY <1>1, <1>2, <1>3

LEMMA DesktopInductive == DesktopInvariant /\ [Next]_vars => DesktopInvariant'
<1>. SUFFICES ASSUME DesktopInvariant, [Next]_vars PROVE DesktopInvariant'
  OBVIOUS
<1>. USE DEF DesktopInvariant
<1>1. UNCHANGED vaultVars => VaultInvariant'
  BY DEF vaultVars, VaultInvariant, VaultTypeOK, PlacesAgree, Placed, SessionIsKnown,
         SessionKeyCurrent, NothingLost
<1>2. UNCHANGED clipVars => ClipboardInvariant'
  BY DEF clipVars, ClipboardInvariant, ClipboardTypeOK, PromisesAreWatched
<1>3. ASSUME NEW p \in Proc, VaultStep(p),
             IF proc[p].at = "ready" THEN Abandon(p) ELSE UNCHANGED clipVars
      PROVE  DesktopInvariant'
  BY <1>2, <1>3, VaultStepKeeps, AbandonKeeps
<1>4. ASSUME NEW p \in Proc, CopyPassword(p) PROVE DesktopInvariant'
  <2>1. proc[p].vault[proc[p].title] \in Password
    BY <1>4, GetsPassword DEF CopyPassword
  <2>2. ClipboardInvariant'
    BY <1>4, <2>1, PipeKeeps DEF CopyPassword
  <2>3. VaultInvariant'
    BY <1>1, <1>4, VaultStepKeeps DEF CopyPassword
  <2>. QED
    BY <2>2, <2>3
<1>5. ASSUME NEW p \in Proc, ReportCopy(p) PROVE DesktopInvariant'
  BY <1>5, VaultStepKeeps, ScheduleKeeps DEF ReportCopy
<1>6. CASE ClipboardAlone /\ UNCHANGED vaultVars
  BY <1>1, <1>6, ClipboardAloneKeeps
<1>7. CASE UNCHANGED vars
  BY <1>1, <1>2, <1>7 DEF vars
<1>. QED
  BY <1>3, <1>4, <1>5, <1>6, <1>7 DEF Next

\* The invariant all of the theorems below rest on.
THEOREM DesktopInvariantHolds == Spec => []DesktopInvariant
<1>1. Init => DesktopInvariant
  BY VaultInitial, ClipboardInitial DEF Init, DesktopInvariant
<1>2. DesktopInvariant /\ [Next]_vars => DesktopInvariant'
  BY DesktopInductive
<1>. QED
  BY <1>1, <1>2, PTL DEF Spec

\* Every variable stays of its type; one session at a time holds the lock.
THEOREM TypeCorrect == Spec => []TypeOK
<1>1. DesktopInvariant => TypeOK
  BY DEF DesktopInvariant, VaultInvariant, ClipboardInvariant, TypeOK
<1>. QED
  BY <1>1, DesktopInvariantHolds, PTL

\* An open session holds the key of the file it saves to (cmd_passwd and the lock file
\* see to it), and the user knows the password, for any number of processes.
THEOREM SessionKeyCurrentHolds == Spec => []SessionKeyCurrent
<1>1. DesktopInvariant => SessionKeyCurrent
  BY DEF DesktopInvariant, VaultInvariant
<1>. QED
  BY <1>1, DesktopInvariantHolds, PTL

\* No process loses or revives an entry, whatever saves report an error.
THEOREM NothingLostHolds == Spec => []NothingLost
<1>1. DesktopInvariant => NothingLost
  BY DEF DesktopInvariant, VaultInvariant
<1>. QED
  BY <1>1, DesktopInvariantHolds, PTL

\* A clipboard that was promised to be cleared is being watched.
THEOREM PromisesAreWatchedHolds == Spec => []PromisesAreWatched
<1>1. DesktopInvariant => PromisesAreWatched
  BY DEF DesktopInvariant, ClipboardInvariant
<1>. QED
  BY <1>1, DesktopInvariantHolds, PTL

\* The saved vault changes only by an approved command, and as that command asked
\* (save_vault_candidate).
THEOREM SavesWhatWasApprovedHolds == Spec => SavesWhatWasApproved
<1>. DEFINE A == disk'.vault # disk.vault =>
         \E p \in Proc :
            /\ proc[p].approved /\ proc[p].cmd \in Mutations \cup {"passwd"}
            /\ \A t \in Title : disk'.vault[t] # disk.vault[t] =>
                  \/ proc[p].cmd \in Mutations /\ t = proc[p].title
                  \/ proc[p].cmd = "edit" /\ known[t] = 0
                  \/ disk'.vault[t] = known[t]
<1>1. DesktopInvariant /\ [Next]_vars => [A]_vaultVars
  <2>. SUFFICES ASSUME DesktopInvariant, [Next]_vars, disk'.vault # disk.vault PROVE A
    OBVIOUS
  <2>1. PICK p \in Proc : Save(p) \/ RotateVault(p)
    BY Zenon DEF Next, vars, vaultVars, VaultStep, Begin, AcquireLock, Unlock, UnlockFails, LookUp,
           Approve, GiveUp, List, Get, LockAfterRotation, Stop, CopyPassword, ReportCopy
  <2>2. proc[p].approved /\ proc[p].vault = known
    BY <2>1 DEF Save, RotateVault, DesktopInvariant, VaultInvariant, PlacesAgree, Placed,
               SessionIsKnown
  <2>3. CASE RotateVault(p)
    <3>1. disk'.vault = known
      BY <2>2, <2>3 DEF RotateVault
    <3>. QED
      BY <2>2, <2>3, <3>1 DEF RotateVault
  <2>4. CASE Save(p)
    <3>1. PICK c \in Candidates(p) : disk'.vault = c
      BY <2>4 DEF Save
    <3>2. \A t \in Title : c[t] # known[t] =>
             t = proc[p].title \/ (proc[p].cmd = "edit" /\ known[t] = 0)
      BY <2>2, <2>4, <3>1, CandidateType DEF Save, DesktopInvariant, VaultInvariant
    <3>. QED
      BY <2>2, <2>4, <3>1, <3>2 DEF Save
  <2>. QED
    BY <2>1, <2>3, <2>4
<1>. QED
  BY <1>1, DesktopInvariantHolds, PTL DEF Spec, SavesWhatWasApproved

\* What `get' copies is what is saved, in any session (cmd_get).
THEOREM CopiesWhatIsSavedHolds == Spec => CopiesWhatIsSaved
<1>. DEFINE A == \A g \in Target : board'[g] \notin {0, board[g]} =>
         \E p \in Proc :
            /\ proc[p].approved /\ proc[p].cmd = "get"
            /\ board'[g] \in {known[proc[p].title]} \cup maybe[proc[p].title]
<1>1. DesktopInvariant /\ [Next]_vars => [A]_vars
  <2>. SUFFICES ASSUME DesktopInvariant, [Next]_vars,
                       NEW g \in Target, board'[g] \notin {0, board[g]}
                PROVE  \E p \in Proc :
                         /\ proc[p].approved /\ proc[p].cmd = "get"
                         /\ board'[g] \in {known[proc[p].title]} \cup maybe[proc[p].title]
    OBVIOUS
  <2>1. board \in [Target -> {0} \cup Password]
    BY DEF DesktopInvariant, ClipboardInvariant, ClipboardTypeOK
  <2>2. PICK p \in Proc : CopyPassword(p)
    BY <2>1 DEF Next, vars, clipVars, Abandon, ReportCopy, Schedule, ClipboardAlone, SetCommand,
           SetTimeout, UserCopies, Look, Clear, HelperFails
  <2>3. board'[g] = proc[p].vault[proc[p].title]
    BY <2>1, <2>2 DEF CopyPassword, Pipe
  <2>4. proc[p].approved /\ proc[p].cmd = "get" /\ board'[g] = known[proc[p].title]
    BY <2>2, <2>3, GetsPassword DEF CopyPassword, DesktopInvariant
  <2>. QED
    BY <2>4
<1>. QED
  BY <1>1, DesktopInvariantHolds, PTL DEF Spec, CopiesWhatIsSaved

=============================================================================
