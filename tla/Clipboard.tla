----------------------------- MODULE Clipboard -----------------------------
(***************************************************************************)
(* The clipboard a password is copied to (cli/src/clipboard.rs) and the     *)
(* helper processes that clear it after a while.  A helper is given the      *)
(* copied password and the command it was copied with, and looks at that     *)
(* command's target alone, whatever the configuration says by then.          *)
(*                                                                         *)
(* A password is a number; 0 stands for all that is not one: an empty board  *)
(* or text of the user's.                                                    *)
(***************************************************************************)
EXTENDS Naturals

CONSTANTS
    User,           \* processes that copy
    Target,         \* clipboards: selections, seats, displays, pasteboards
    Helper,         \* helper processes (bound: those started in a behaviour)
    Password,       \* passwords, positive numbers
    MaxConfigs      \* bound: calls of `config set'

ASSUME ClipboardAssumption ==
    Password \subseteq Nat \ {0} /\ Target # {} /\ MaxConfigs \in Nat

VARIABLES
    config,     \* the two files of the configuration
    configs,    \* calls of `config set' so far
    board,      \* what each clipboard holds
    copying,    \* per process, the copy it has made and not yet reported
    helper,     \* the helpers
    promised    \* history: clipboards whose password was reported as `will clear'

clipVars == <<config, configs, board, copying, helper, promised>>

\* clipboard_cmd: a target, and whether expiry_commands knows how to read and clear
\* there.  clear-seconds: the helper's delay, none for 0, or a file that cannot be read.
CopyCommands == [target : Target, clears : BOOLEAN]
Timeouts     == {"some", "zero", "unreadable"}
Configs      == [command : CopyCommands, timeout : Timeouts]

NoCopy == [value |-> 0, command |-> CHOOSE c \in CopyCommands : TRUE]
Copies == {NoCopy} \cup [value : Password, command : CopyCommands]
Unused == [at |-> "unused", target |-> NoCopy.command.target, value |-> 0]

ClipboardTypeOK ==
    /\ config \in Configs /\ configs \in 0 .. MaxConfigs
    /\ board \in [Target -> {0} \cup Password]
    /\ copying \in [User -> Copies]
    /\ helper \in [Helper -> [at : {"unused", "asleep", "owner", "done", "failed"},
                              target : Target, value : {0} \cup Password]]
    /\ promised \subseteq Target

ClipboardInit ==
    /\ \E c \in CopyCommands : config = [command |-> c, timeout |-> "some"]
    /\ configs = 0
    /\ board = [g \in Target |-> 0]
    /\ copying = [u \in User |-> NoCopy]
    /\ helper = [h \in Helper |-> Unused]
    /\ promised = {}

-----------------------------------------------------------------------------
\* `config set' replaces the command and then the timeout; either write may fail, and
\* a copy may run between the two: the second file is then written by SetTimeout.
SetCommand ==
    /\ configs < MaxConfigs
    /\ configs' = configs + 1
    /\ \E c \in CopyCommands : config' = [config EXCEPT !.command = c]
    /\ UNCHANGED <<board, copying, helper, promised>>
SetTimeout ==
    /\ configs \in 1 .. MaxConfigs
    /\ \E t \in Timeouts : config' = [config EXCEPT !.timeout = t]
    /\ UNCHANGED <<configs, board, copying, helper, promised>>

\* pipe_to_command: the program may fail before or after it has taken the password.
Pipe(u, value) ==
    LET g == config.command.target IN
    /\ copying[u] = NoCopy
    /\ \/ /\ copying' = [copying EXCEPT ![u] = [value |-> value, command |-> config.command]]
          /\ board' = [board EXCEPT ![g] = value] /\ promised' = promised \ {g}
       \/ /\ UNCHANGED copying
          /\ \/ UNCHANGED <<board, promised>>
             \/ board' = [board EXCEPT ![g] = value] /\ promised' = promised \ {g}
    /\ UNCHANGED <<config, configs, helper>>

\* The rest of copy_password: no helper when it is not wanted, not supported, when the
\* timeout cannot be read or the helper not started; else the user is told when the
\* clipboard will be cleared.
Schedule(u) ==
    LET copy == copying[u]  g == copy.command.target IN
    /\ copy # NoCopy
    /\ copying' = [copying EXCEPT ![u] = NoCopy]
    /\ \/ UNCHANGED <<helper, promised>>
       \/ /\ config.timeout = "some" /\ copy.command.clears
          /\ \E h \in Helper :
               /\ helper[h].at = "unused"
               /\ helper' = [helper EXCEPT ![h] =
                     [at |-> "asleep", target |-> g, value |-> copy.value]]
          /\ promised' = IF board[g] = copy.value THEN promised \cup {g} ELSE promised
    /\ UNCHANGED <<config, configs, board>>

\* A process that dies between the two leaves the password where it is.
Abandon(u) ==
    /\ copying' = [copying EXCEPT ![u] = NoCopy]
    /\ UNCHANGED <<config, configs, board, helper, promised>>

\* The user copies something else.
UserCopies(g) ==
    /\ board[g] # 0
    /\ board' = [board EXCEPT ![g] = 0] /\ promised' = promised \ {g}
    /\ UNCHANGED <<config, configs, copying, helper>>

FaultLook(h) ==
    /\ helper[h].at = "asleep"
    /\ helper' = [helper EXCEPT ![h].at =
          IF board[config.command.target] = helper[h].value THEN "owner" ELSE "done",
          ![h].target = config.command.target]
    /\ UNCHANGED <<config, configs, board, copying, promised>>
\* run_clear_helper, after its sleep: is the password still there?
Look(h) ==
    /\ helper[h].at = "asleep"
    /\ helper' = [helper EXCEPT ![h].at =
          IF board[helper[h].target] = helper[h].value THEN "owner" ELSE "done"]
    /\ UNCHANGED <<config, configs, board, copying, promised>>

\* The clear comes after the look: what was copied in between goes with it.
Clear(h) ==
    LET g == helper[h].target IN
    /\ helper[h].at = "owner"
    /\ helper' = [helper EXCEPT ![h].at = "done"]
    /\ board' = [board EXCEPT ![g] = 0] /\ promised' = promised \ {g}
    /\ UNCHANGED <<config, configs, copying>>

\* The tool that reads or clears fails, or the helper is killed.
HelperFails(h) ==
    /\ helper[h].at \in {"asleep", "owner"}
    /\ helper' = [helper EXCEPT ![h].at = "failed"]
    /\ UNCHANGED <<config, configs, board, copying, promised>>

ClipboardAlone ==
    \/ SetCommand \/ SetTimeout
    \/ \E g \in Target : UserCopies(g)
    \/ \E h \in Helper : Look(h) \/ Clear(h) \/ HelperFails(h)

-----------------------------------------------------------------------------
\* A password that the user was told would be cleared is still being watched, on the
\* clipboard it was copied to, unless the helper that was to do it has failed: neither
\* a changed configuration nor other copies and their helpers make it stay.
PromisesAreWatched ==
    \A g \in promised : \E h \in Helper :
        /\ helper[h].at \in {"asleep", "owner", "failed"}
        /\ helper[h].target = g /\ helper[h].value = board[g]

=============================================================================
