---------------------------- MODULE DesktopUse ----------------------------
(***************************************************************************)
(* The desktop in everyday use: processes that read and change the vault    *)
(* (module VaultSession) and, on `get', copy a password (module Clipboard).  *)
(* An entry's password is the entry's version.                               *)
(***************************************************************************)
EXTENDS VaultSession, Clipboard

\* The processes copy the passwords of the entries they read.
ASSUME UseAssumption == User = Proc /\ Password = 1 .. MaxVersion

vars == <<vaultVars, clipVars>>

Init == VaultInit /\ ClipboardInit

\* cmd_get: the entry is read from the session again after the approval.
CopyPassword(p) ==
    /\ proc[p].at = "ready" /\ proc[p].cmd = "get"
    /\ Pipe(p, proc[p].vault[proc[p].title])
    /\ IF copying'[p] = NoCopy THEN Get(p) ELSE UNCHANGED vaultVars

ReportCopy(p) == Get(p) /\ Schedule(p)

Next ==
    \/ \E p \in Proc : \/ VaultStep(p) /\ IF proc[p].at = "ready" THEN Abandon(p)
                                          ELSE UNCHANGED clipVars
                       \/ CopyPassword(p)
                       \/ ReportCopy(p)
    \/ ClipboardAlone /\ UNCHANGED vaultVars

Spec == Init /\ [][Next]_vars

-----------------------------------------------------------------------------
TypeOK == VaultTypeOK /\ ClipboardTypeOK

\* A password comes to a clipboard by an approved `get' of its entry, and it is the one
\* that is saved: no session copies a password that has since been changed elsewhere.
\* (After a save that reported an error the session cannot know.)
CopiesWhatIsSaved ==
    [][\A g \in Target : board'[g] \notin {0, board[g]} =>
         \E p \in Proc :
            /\ proc[p].approved /\ proc[p].cmd = "get"
            /\ board'[g] \in {known[proc[p].title]} \cup maybe[proc[p].title]]_vars

=============================================================================
