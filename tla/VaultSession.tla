---------------------------- MODULE VaultSession ----------------------------
(***************************************************************************)
(* The desktop's vault and the `ferusa' processes that work on it           *)
(* (cli/src/session.rs, commands/*.rs, the shell of interface/repl.rs).     *)
(* A process runs one command at a time; several processes meet at the      *)
(* lock file, which a session holds from its unlock to its lock.            *)
(*                                                                         *)
(* An entry is the version of its last edit, the vault a version per title  *)
(* (0: no such entry), a master password the number of its last change.     *)
(* Approvals by the phone are granted or not (module AuthExchange); pairing *)
(* and its recovery are in module PairingSystem.                            *)
(***************************************************************************)
EXTENDS Naturals

CONSTANTS
    Proc,           \* processes
    Title,          \* titles of entries
    None,           \* nobody holds the lock
    MaxVersion,     \* bound: versions of entries
    MaxPassword,    \* bound: changes of the master password
    MaxCommands     \* bound: commands in a behaviour

ASSUME VaultAssumption ==
    /\ None \notin Proc /\ Title # {}
    /\ MaxVersion \in Nat /\ MaxPassword \in Nat /\ MaxCommands \in Nat

VARIABLES
    disk,       \* vault.enc: contents and the password it opens with
    lock,       \* holder of vault.lock
    proc,       \* the processes
    version,    \* the last version given out
    password,   \* the last master password chosen
    commands,   \* commands started so far
    known,      \* history: per title, the version last read at an unlock or reported saved
    maybe,      \* history: per title, versions whose save since then reported an error
    told        \* history: the passwords the user may have to try

vaultVars == <<disk, lock, proc, version, password, commands, known, maybe, told>>
history   == <<known, maybe, told>>
counters  == <<version, password, commands>>

Mutations == {"add", "edit", "remove"}
Commands  == Mutations \cup {"unlock", "list", "get", "passwd"}
Vaults    == [Title -> 0 .. MaxVersion]
Empty     == [t \in Title |-> 0]

\* approved: whether the phone has approved this very command.
Closed == [at |-> "idle", cmd |-> "unlock", title |-> CHOOSE t \in Title : TRUE,
           open |-> FALSE, vault |-> Empty, key |-> 0, approved |-> FALSE]

VaultTypeOK ==
    /\ disk \in [vault : Vaults, key : 0 .. MaxPassword]
    /\ lock \in Proc \cup {None} /\ \A p \in Proc : proc[p].open => lock = p
    /\ proc \in [Proc -> [at : {"idle", "waiting", "unlocking", "lookup", "approve", "ready",
                                "relock"},
                          cmd : Commands, title : Title, open : BOOLEAN, vault : Vaults,
                          key : 0 .. MaxPassword, approved : BOOLEAN]]
    /\ version \in 0 .. MaxVersion /\ password \in 0 .. MaxPassword
    /\ commands \in 0 .. MaxCommands
    /\ known \in Vaults /\ maybe \in [Title -> SUBSET (0 .. MaxVersion)]
    /\ told \subseteq 0 .. MaxPassword

VaultInit ==
    /\ disk = [vault |-> Empty, key |-> 0]
    /\ lock = None
    /\ proc = [p \in Proc |-> Closed]
    /\ version = 0 /\ password = 0 /\ commands = 0
    /\ known = Empty /\ maybe = [t \in Title |-> {}] /\ told = {0}

-----------------------------------------------------------------------------
\* Dropping a SessionState drops its secrets and its lock.
Drop(p) == /\ proc' = [proc EXCEPT ![p] = Closed]
           /\ lock' = None

\* The command is over, the session stays.
Idle(p)     == proc' = [proc EXCEPT ![p].at = "idle", ![p].approved = FALSE]
To(p, step) == proc' = [proc EXCEPT ![p].at = step]

Begin(p, cmd, t) ==
    /\ proc[p].at = "idle" /\ commands < MaxCommands
    /\ cmd = "unlock" => ~proc[p].open
    /\ commands' = commands + 1
    /\ proc' = [proc EXCEPT ![p].at = IF proc[p].open THEN "lookup" ELSE "waiting",
                            ![p].cmd = cmd, ![p].title = t]
    /\ UNCHANGED <<disk, lock, version, password, history>>

FaultAcquireLock(p) ==
    /\ proc[p].at = "waiting"
    /\ lock' = p
    /\ To(p, "unlocking")
    /\ UNCHANGED <<disk, counters, history>>
AcquireLock(p) ==
    /\ proc[p].at = "waiting" /\ lock = None
    /\ lock' = p
    /\ To(p, "unlocking")
    /\ UNCHANGED <<disk, counters, history>>

\* Right password and approval: the vault is in memory.  The approval was asked for
\* the command itself, which need not ask again.
Unlock(p) ==
    /\ proc[p].at = "unlocking"
    /\ proc' = [proc EXCEPT ![p].at = IF proc[p].cmd = "unlock" THEN "idle" ELSE "lookup",
                            ![p].open = TRUE, ![p].vault = disk.vault, ![p].key = disk.key,
                            ![p].approved = proc[p].cmd # "unlock"]
    /\ known' = disk.vault /\ maybe' = [t \in Title |-> {}] /\ told' = {disk.key}
    /\ UNCHANGED <<disk, lock, counters>>

\* Wrong password, refused or unreachable phone, unreadable vault.
UnlockFails(p) ==
    /\ proc[p].at = "unlocking"
    /\ Drop(p)
    /\ UNCHANGED <<disk, counters, history>>

\* The entry must be there, for `add' it must not; `list' and `passwd' look for none.
Fits(p) ==
    LET found == proc[p].vault[proc[p].title] # 0 IN
    CASE proc[p].cmd = "add" -> ~found
      [] proc[p].cmd \in {"get", "edit", "remove"} -> found
      [] OTHER -> TRUE

FaultLookUp(p) ==
    /\ proc[p].at = "lookup"
    /\ IF Fits(p) THEN To(p, IF proc[p].cmd = "get" THEN "ready" ELSE "approve") ELSE Idle(p)
    /\ UNCHANGED <<disk, lock, counters, history>>
LookUp(p) ==
    /\ proc[p].at = "lookup"
    /\ IF Fits(p) THEN To(p, "approve") ELSE Idle(p)
    /\ UNCHANGED <<disk, lock, counters, history>>

\* Asked only in a session that was open already.
Approve(p) ==
    /\ proc[p].at = "approve"
    /\ proc' = [proc EXCEPT ![p].at = "ready", ![p].approved = TRUE]
    /\ UNCHANGED <<disk, lock, counters, history>>

\* Denied or unanswered, or ended at one of the command's own prompts.
GiveUp(p) ==
    /\ proc[p].at \in {"approve", "ready"}
    /\ Idle(p)
    /\ UNCHANGED <<disk, lock, counters, history>>

\* `list' prints.
List(p) ==
    /\ proc[p].at = "ready" /\ proc[p].cmd = "list"
    /\ Idle(p)
    /\ UNCHANGED <<disk, lock, counters, history>>

\* `get' hands the password to the clipboard (module Clipboard).
Get(p) ==
    /\ proc[p].at = "ready" /\ proc[p].cmd = "get"
    /\ Idle(p)
    /\ UNCHANGED <<disk, lock, counters, history>>

-----------------------------------------------------------------------------
\* Saving.

\* The candidate of a mutation, made from the session's vault.  An edit may also change
\* the title, to one that is free.
Added(v, t)   == {[v EXCEPT ![t] = version + 1]}
Removed(v, t) == {[v EXCEPT ![t] = 0]}
Edited(v, t)  == {[[v EXCEPT ![t] = 0] EXCEPT ![u] = version + 1] :
                     u \in {u \in Title : u = t \/ v[u] = 0}}
Candidates(p) ==
    LET v == proc[p].vault  t == proc[p].title IN
    CASE proc[p].cmd = "add"    -> Added(v, t)
      [] proc[p].cmd = "remove" -> Removed(v, t)
      [] proc[p].cmd = "edit"   -> Edited(v, t)

\* Titles whose entry the candidate changes.
Changed(p, candidate) == {t \in Title : candidate[t] # proc[p].vault[t]}

Needs(p) == IF proc[p].cmd \in {"add", "edit"} THEN 1 ELSE 0

FaultWritten(ok, done) == TRUE
\* A write reported good has been done; one that reports an error may have been (the
\* rename is done, its fsync is not).
Written(ok, done) == ok => done

FaultSave(p) ==
    /\ proc[p].at = "ready" /\ proc[p].cmd \in Mutations
    /\ version + Needs(p) <= MaxVersion
    /\ version' = version + Needs(p)
    /\ \E candidate \in Candidates(p), done, ok \in BOOLEAN :
         /\ Written(ok, done)
         /\ disk' = IF done THEN [vault |-> candidate, key |-> proc[p].key] ELSE disk
         /\ proc' = [proc EXCEPT ![p].at = "idle", ![p].approved = FALSE,
                                 ![p].vault = candidate]
         /\ known' = IF ok THEN [t \in Title |-> IF t \in Changed(p, candidate)
                                                 THEN candidate[t] ELSE known[t]] ELSE known
         /\ maybe' = [t \in Title |-> IF t \notin Changed(p, candidate) THEN maybe[t]
                                      ELSE IF ok THEN {} ELSE maybe[t] \cup {candidate[t]}]
    /\ UNCHANGED <<lock, password, commands, told>>

\* save_vault_candidate: write first, then put the candidate into the session.
Save(p) ==
    /\ proc[p].at = "ready" /\ proc[p].cmd \in Mutations
    /\ version + Needs(p) <= MaxVersion
    /\ version' = version + Needs(p)
    /\ \E candidate \in Candidates(p), done, ok \in BOOLEAN :
         /\ Written(ok, done)
         /\ disk' = IF done THEN [vault |-> candidate, key |-> proc[p].key] ELSE disk
         /\ proc' = [proc EXCEPT ![p].at = "idle", ![p].approved = FALSE,
                                 ![p].vault = IF ok THEN candidate ELSE @]
         /\ known' = IF ok THEN [t \in Title |-> IF t \in Changed(p, candidate)
                                                 THEN candidate[t] ELSE known[t]] ELSE known
         /\ maybe' = [t \in Title |-> IF t \notin Changed(p, candidate) THEN maybe[t]
                                      ELSE IF ok THEN {} ELSE maybe[t] \cup {candidate[t]}]
    /\ UNCHANGED <<lock, password, commands, told>>

FaultRotateVault(p) ==
    /\ proc[p].at = "ready" /\ proc[p].cmd = "passwd" /\ password < MaxPassword
    /\ password' = password + 1
    /\ \E done, ok \in BOOLEAN :
         /\ Written(ok, done)
         /\ disk' = IF done THEN [vault |-> proc[p].vault, key |-> password + 1] ELSE disk
         /\ told' = IF ok THEN {password + 1} ELSE told \cup {password + 1}
         /\ IF ok THEN proc' = [proc EXCEPT ![p].at = "relock", ![p].key = password + 1]
                  ELSE Idle(p)
    /\ UNCHANGED <<lock, version, commands, known, maybe>>

\* passwd: the session's vault under the new key.  After an uncertain write the session
\* and its lock are dropped at once, after a good one when the connection is closed.
RotateVault(p) ==
    /\ proc[p].at = "ready" /\ proc[p].cmd = "passwd" /\ password < MaxPassword
    /\ password' = password + 1
    /\ \E done, ok \in BOOLEAN :
         /\ Written(ok, done)
         /\ disk' = IF done THEN [vault |-> proc[p].vault, key |-> password + 1] ELSE disk
         /\ told' = IF ok THEN {password + 1} ELSE told \cup {password + 1}
         /\ IF ok THEN /\ proc' = [proc EXCEPT ![p].at = "relock", ![p].key = password + 1]
                       /\ UNCHANGED lock
                  ELSE Drop(p)
    /\ UNCHANGED <<version, commands, known, maybe>>

LockAfterRotation(p) ==
    /\ proc[p].at = "relock"
    /\ Drop(p)
    /\ UNCHANGED <<disk, counters, history>>

\* The shell is left or locked, or the process dies, wherever it stands.
Stop(p) ==
    /\ proc[p] # Closed
    /\ proc' = [proc EXCEPT ![p] = Closed]
    /\ lock' = IF lock = p THEN None ELSE lock
    /\ UNCHANGED <<disk, counters, history>>

VaultStep(p) ==
    \/ \E cmd \in Commands, t \in Title : Begin(p, cmd, t)
    \/ AcquireLock(p) \/ Unlock(p) \/ UnlockFails(p) \/ LookUp(p) \/ Approve(p) \/ GiveUp(p)
    \/ List(p)
    \/ Save(p) \/ RotateVault(p) \/ LockAfterRotation(p) \/ Stop(p)

-----------------------------------------------------------------------------
\* What must hold.

\* An open session holds the key vault.enc opens with, so nothing it saves is locked
\* away under a password that has been replaced; and the user knows the passwords to try.
SessionKeyCurrent ==
    /\ \A p \in Proc : proc[p].open => proc[p].key = disk.key
    /\ disk.key \in told

\* What was saved, or what an unlock has shown, stays until a later command on that
\* entry: an uncertain save may have taken effect, a session that missed it may undo it,
\* nothing else may come back or vanish, whichever process saves.
NothingLost == \A t \in Title : disk.vault[t] \in {known[t]} \cup maybe[t]

\* A save changes the entry that was approved (for an edit with a new title also that
\* one), in the session of its approval.  Of every other entry it can only undo a change
\* that was reported as failed; it never carries one through.
SavesWhatWasApproved ==
    [][disk'.vault # disk.vault =>
         \E p \in Proc :
            /\ proc[p].approved /\ proc[p].cmd \in Mutations \cup {"passwd"}
            /\ \A t \in Title : disk'.vault[t] # disk.vault[t] =>
                  \/ proc[p].cmd \in Mutations /\ t = proc[p].title
                  \/ proc[p].cmd = "edit" /\ known[t] = 0
                  \/ disk'.vault[t] = known[t]]_vaultVars

=============================================================================
