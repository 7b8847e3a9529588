# Verification of ferusa

ferusa is a password vault split over two devices: a desktop command line
program keeps the vault encrypted, a phone app keeps one share of its key and
releases it, after a PIN or biometric check, to the paired desktop. This
directory holds TLA+ models of the program, the TLC configurations that check
them, and proofs that TLAPS checks. Paths below are relative to `src/`.

## 1. The system

### Components

| component | state | operations | code |
|---|---|---|---|
| phone generation store | five pointer entries (active, staging, pending, committed, retiring), one bundle and one approval key per generation | begin, store, commit, activate, abort, finalize, clean up, check, authorize recovery, load secrets | `app/src-tauri/src/storage.rs` |
| phone setup command and recovery handlers | setup tasks; requests authorised but not yet served | `setup_complete`, `pair_with_cli`, `serve_connection` (commit and activate branches), `check_setup` | `app/src-tauri/src/commands.rs`, `peer.rs` |
| phone app session | loaded secrets, session generation, foreground flag, pending request slot, remembered request ids, replacement authorisation | unlock, lock, expire, admit, approve, deny, put back, authorise replacement | `app/src-tauri/src/state.rs`, `commands.rs` |
| PIN cooldown | attempt count, level and start of the cooldown per kind of PIN | verify with cooldown, record failure, clear | `commands.rs`, `storage.rs`, `pin.rs` |
| connection admission | permits: handshakes, handlers, per peer, per source | accept, handshake, classify, serve, release | `app/src-tauri/src/lib.rs`, `peer.rs` |
| desktop pairing files | live, pending and rollback copies of vault and pairing; transaction file | write, capture, promote, advance, clear, recover | `cli/src/storage/paths.rs` |
| desktop pairing commands | the process holding `vault.lock`; the handshake in progress | `init`, `pair`, reconciliation before every command | `cli/src/commands/init.rs`, `pair.rs` |
| desktop vault session | entries, key, vault lock | unlock, look up, add, edit, remove, get, list, change password, lock | `cli/src/session.rs`, `commands/*.rs`, `interface/repl.rs` |
| 2FA exchange | request id, cached connection, the phone's slot, the prompt on its screen | request, retry on a fresh connection, approve, deny, expire | `cli/src/twofa`, `cli/src/net`, `ferusa-core/src/auth.rs`, `app/src/routes/+page.svelte` |
| clipboard expiry | the clipboards, detached helper processes, two configuration files | copy, configure, compare, clear | `cli/src/clipboard.rs` |
| wire format, cryptography, prompts, front-end views | - | - | `ferusa-core`, `cli/src/interface`, `app/src` |

### How they interact

A *pairing generation* is one pairing of a desktop vault and a phone, named by a
fresh uuid. The phone's setup command stages a generation, creates its approval
key, stores its bundle, signs, and then runs the nine-message handshake with the
desktop's `init` or `pair`. The desktop writes the re-encrypted vault beside the
live one, records a transaction (`pairing_txn.json`), asks the phone to commit,
renames its files, asks the phone to activate, and clears the transaction. When
the handshake is cut anywhere, the next desktop command reads the recorded phase
and sends the one transition the phone still owes over a new connection. The
phone drops the old generation once the new one is active.

In everyday use a desktop command takes the vault lock, asks the phone for its
share, decrypts the vault, asks for approval of each further command, saves, and
hands a password to the clipboard, where a detached helper clears it later. On
the phone a connection passes the accept loop's limits, its request passes the
checks of `serve_connection` into the one slot, an event shows it in the front
end, and the user's PIN, guarded by the cooldown, takes it out again, if the
session it was admitted to is still the one that runs.

### What is hard

* Every storage call, on both sides, may fail before or *after* its effect, and
  every function is a string of such calls with `?` between them; a crash may
  come between any two. No single step is hard; what overlaps with what is.
* The phone's commands, connections and timers are concurrent tasks which give way
  at every await. Only single storage functions, and single mutexes of the app
  state, are mutually exclusive.
* Requests, recovery requests, events and answers can arrive late, at a session or
  a prompt that is no longer the one they were meant for.
* Two stores on two devices must agree on which generation is in force; several
  desktop processes must agree on one vault; and both must hold through writes
  whose outcome is unknown.
* Time: two clocks that differ, one of which starts again at boot; deadlines on
  both sides of one exchange.

`PROJECT.json` lists, under `hazards`, the places where this bites, each with the
properties that cover it, or why none does.

### What makes each component correct

* Generation store: what a desktop may still ask for is whole; no share is
  forgotten; an offered generation is never dropped; the active pointer moves
  only when both sides committed.
* Desktop files and commands: promotion can be repeated from any cut; the files
  agree with each other at rest; a transaction on record can be resumed, and
  rerunning the command completes it.
* The pair: the vault can be opened with a share the phone has, now or after recovery;
  the whole system behaves like a three-step handover. The code breaks this in one way
  (finding 2 of section 3), which the properties state as their exception.
* Phone session: nothing secret in the background, no secret or authority from
  before a lock, an approval only in the session and for the request it was given
  for, one answer per request, and an end for every request.
* PIN cooldown: every guess the user learns the outcome of is counted; cooldowns
  are served in true time and double; what the app says about them is true.
* 2FA exchange: accepted means approved with that request on the screen; a retry is
  never a second request; the command ends; tolerable clocks are tolerated.
* Vault session: no save under an old key, no entry lost or revived, no change
  but the one approved; copied passwords are the saved ones.
* Clipboard: a promised clearing is still being watched.
* Admission: permits come back; strangers do not stay.

## 2. The modules

| module | models |
|---|---|
| `Fallible` | routines as sets of outcomes: Rust's `?`, a call that fails before or after its effect, an error that is only logged |
| `PairingIds` | generation names and `None` |
| `GenerationStore` | each function of `storage.rs` as one operator from a store to its outcomes, call by call in the code's order |
| `PhonePairing` | the phone alone, against an open desktop: setup tasks, recovery handlers, unlock and lock, crash |
| `DesktopFiles` | each function of `paths.rs` on the pairing files, call by call |
| `DesktopPairing` | the desktop process: `init`, `pair`, their error branches, reconciliation, the session as far as pairing needs it |
| `PairingSystem` | `PhonePairing` and `DesktopPairing` joined at their messages, with a lossy network; fairness; the system properties |
| `PairingHandover` | the abstract specification: intend, desktop moves, phone moves, settle; and the stray session that may take the vault back |
| `PhoneSession` | `AppState`, the request slot and the commands on them as overlapping tasks |
| `PinCooldown` | `verify_pin_with_cooldown`, its entry and its arithmetic |
| `Admission` | the accept loop's permits and the message loop of a connection |
| `VaultSession` | desktop processes at one vault and its lock file |
| `Clipboard` | clipboards, configuration and clearing helpers |
| `DesktopUse` | `VaultSession` and `Clipboard` joined at `get` |
| `AuthExchange` | one request after another end to end: desktop, streams, slot, prompt, time |
| `Authorization` | the abstract specification of it: ask, reach the phone once, consent, conclude |
| `PhonePairingInvariant`, `GenerationStoreProofs`, `PhonePairingProofs` | the proofs about `PhonePairing` |
| `PairingSystemInvariant`, `PairingSystemProofs` | the proofs about `PairingSystem`: the desktop, its files and the two sides together |
| `DesktopUseProofs` | the proofs about `DesktopUse`, that is `VaultSession` and `Clipboard` |
| `AdmissionProofs` | the proofs about `Admission` |
| `PhoneSessionProofs` | the proofs about `PhoneSession` |
| `PinCooldownProofs` | the proofs about `PinCooldown` |
| `AuthExchangeProofs` | the proofs about `AuthExchange` |
| `MC...` | instances for TLC |

Operators whose names start with `Fault` are deliberately wrong variants of the
definition they stand next to. They are used to see that a property can fail.

### Correspondence with the code: pairing

*Storage.* An entry of the Android keystore is a field of the record `store`, a
file of the data directory a field of `disk`; the contents are reduced to the
generation they belong to. `Write` has three outcomes: done, done but reported as
failed, not done. For the desktop this is `write_private_file`, whose directory
fsync comes after the rename; for the phone a keystore plugin call whose reply is
lost. `Then` is `?`; `Attempt` is `if let Err(..) { log }`.

*Actions.* A storage function under `STORAGE_LOCK` is one action, with all its
calls. Between two of them other tasks and handlers run, and the process may die.
A death inside a function leaves the same store as a failure at the same call,
followed by `PhoneCrash`: so the crash actions do not need to cut functions again.
One file routine of the desktop is one action for the same reason.

*Setup tasks.* Each generation has at most one setup task (`setup[g]` is its
stage), because each task draws a fresh uuid. Any number may overlap.

*Messages.* A handshake belongs to one connection and one generation, so a message
is a type and a generation. It is lost with the process that would read it. A
recovery request stays in `wire` when the desktop gives up on it, and in
`authorized` between the handler's two critical sections.

*Desktop.* `vault.lock` admits one process, so the desktop is one program counter.
`DesktopStop` is a lock, an exit or a crash, at any place. `DesktopSave` writes the vault
under the session's key, whatever the vault on disk was encrypted for: the code does not
compare them. `stray` is history: the generation of the session that a failed `pair` last
left open although the vault had moved on.

### Correspondence with the code: everyday use

*Phone session.* A `Task` is one command, connection handler or session timer; its
`at` is the await it stands at, and what it has read before (session generation,
replacement token, request) goes with it. A mutex section is one action. Deadlines
are `Age...` actions that may happen at any time, so every timer may be early or
late against every other step. The history fields `stale`, `superseded`, `live`
and `putBack` only serve the properties. A request id that has been seen stays in
`recent`: the code forgets it after 600 s, when its timestamp (300 s either way)
can no longer be presented. PINs and prompts have any outcome.

*PIN cooldown.* One kind of PIN; the other has its own entry and gate. `owed`,
`promise`, `rounds` and `wrong` measure in true time and are not read by the code.
An entry in the format of earlier releases (`legacy`) is one of the initial states.

*Admission.* A task holds what its `permit` and `sourced` say. An incoming
connection that is refused in the loop itself holds nothing and is not a step.
Checks against storage may say no when storage is slow, as in the code. `late` says that
the `authentication_deadline` of a connection has passed: it is not renewed, and from
then on a connection that has not authenticated is closed at its next turn. The shorter
timeouts of single streams and frames may fire at any time. A panic in a task is not a step.

*Vault session.* A process runs one command at a time, `lock` is the `flock` on
`vault.lock`. `known` and `maybe` are history: what the user was last told the
vault holds, and what uncertain saves may have made of it. A command's return
paths for "session not unlocked" cannot be reached by a process that is
sequential, so they are no actions. Pairings do not occur here: that an open
session's pairing is the vault's is the subject of `DesktopPairing`.

*Clipboard.* Board contents are passwords or 0, which is anything else the user
copied. Two entries with equal passwords are not told apart from one.

*Exchange.* Time is a `Tick` with urgent timers: it does not pass an expired
deadline. Signature, ids, code and action of an answer are one thing: it is the
answer to this request or none. The phone's session appears as its refusal. An exchange
in a session has one budget (`Total`) that starts with the stream, after a dial of `Phase`;
an exchange of a one-shot command dials within it (`Connect` of `OneShot`).

## 3. What the runs check

| run | instance | asks |
|---|---|---|
| `phone_chain` | phone alone, 3 generations, symmetric; 276,997 states | `ReferencedIntact`, `NoForgottenShare`, `PendingSurvives`, `HandoverIsCommitted`, `PhoneInvariant` (with the types) |
| `pairing` | both sides, 2 generations; 1.76 million states | `TypeOK`, `VaultOpenable`, `TransactionResumable`, `PromotionNeverStuck`, `FilesAgree`, `CurrentRemainsActive`, `ImplementsHandover` |
| `pairing_live` | both sides, from nothing and from a pairing with an open session, fair; 78 thousand states | `TransactionResolves` |
| `phone_session` | 2 requests, 2 overlapping tasks, 5 commands; 1.9 million states | `TypeOK`, `BackgroundIsLocked`, `WaitingIsHeld`, `ApprovalIsCurrent`, `NoRevival`, `AnsweredOnce` |
| `phone_session_live` | 1 request, 2 tasks, 4 commands, fair; 268 thousand states | `RequestEnds` |
| `pin_cooldown` | 2 verifications, 3 failures to a cooldown, 4 levels, multiplier of 2 bits, 1 reboot; 806 thousand states | `TypeOK`, `NoVerdictWhileCooling`, `GuessesAreCounted`, `CooldownsEscalate`, `RetryAfterIsHonest` |
| `auth_exchange` | 2 commands, 3 clock skews, fair; 465 thousand states | `TypeOK`, `ApprovedWhatWasShown`, `RetryIsSafe`, `TimestampsTolerant`, `ImplementsAuthorization`, `CommandEnds` |
| `vault_session` | 2 processes, 2 titles, 4 commands, 2 clipboards, 2 helpers; 3.4 million states | `TypeOK`, `SessionKeyCurrent`, `NothingLost`, `SavesWhatWasApproved`, `CopiesWhatIsSaved`, `PromisesAreWatched` |
| `admission` | 2 connections, 1 permit of each kind, fair; 15 thousand states | `TypeOK`, `PermitsConserved`, `StrangersLeave` |
| `pending_wedge` | one generation | finding: `PendingIsResumable` is violated |
| `aborted_pairing` | two generations | finding: `AbortedPairingIsUndone` is violated |
| `deny_restores` | 1 request, 2 tasks, fair | finding: `RequestAnswered` is violated |

*Bounds of the pairing runs.* The only bound is the number of generations; nothing
else counts up. Two generations give two overlapping setups, or a first pairing and
a replacement, with every late message of the first. Three are needed for a third
party to the roles (active, pending, retiring all different); the theorems of
section 4 cover any number for the phone. In `phone_chain` the constraint
`UnlockedBeforeTheThird` explores unlocking only until all three generations are in
use: loading reads the store after a cleanup that `IsSetup` also makes, so the store
visits nothing new behind it.

*Bounds of the others.* Two tasks, processes, verifications or connections are what
it takes for one to overtake another, and two requests or titles for one to be taken
for the other. `MaxCommands` bounds how much is started: five commands are
an unlock, a request, an approval, a lock overtaking it and something that comes
after. In `pin_cooldown` levels and multiplier saturate inside the bounds (level 4
of 4, 2 bits of shift at level 3), so the arithmetic at the limits is reached; the
clock runs to 9, three times the longest cooldown. In `auth_exchange` the deadlines
keep the code's order (response < slot < total, 60 s < 65 s < 70 s as 2, 3, 3: the
phone's slot outlives the desktop's wait; a one-shot's 15 s and 75 s as 2 and 4), skews are clocks that nearly agree and one
at the limit of what is tolerated, and timestamps wrap at `Word`. `CooldownsEscalate`
is checked for the first four levels only, which with these constants includes the
saturated ones; section 4 has it for every level.

*Deadlock* is not checked where the bounds use things up (generations, commands,
helpers): then both sides rest. It is checked in the other runs.

*The exception* in `VaultOpenable`, `FilesAgree` and `ImplementsHandover` is `Relapsed`:
the vault is of the generation `stray`. Nothing keeps such a session from saving, in the
code or in the model, and no property hides a save of any other session: a vault taken
back to a generation that no failed `pair` has left open violates all three.

*Fairness.* `TransactionResolves`: the environment calms down at some point (`calm`:
no more crashes or failing storage calls, and a side gives up only on a peer that
can no longer answer); each process goes on with what it has started (tokio polls
ready tasks); the user reruns a desktop command (`DesktopStart`), as the README
tells users to. `RequestEnds`: tasks are polled and timers fire; nobody need touch the
phone. `CommandEnds`: time passes and timers fire; the phone and the network need do
nothing. `StrangersLeave`: tasks are polled and the timeouts of `serve_connection`
fire; the peer may send what it likes. Weak fairness is enough everywhere, since each
awaited action stays enabled until taken. Nothing is assumed of the users, but for
rerunning a command.

### Findings

1. `pending_wedge`. README 81-83 asks users to keep the phone's pending setup
   because the desktop can resume it. `setup_complete` keeps it after any
   failure of `pair_with_cli`, also one before the desktop prepared anything; then
   the desktop has no transaction, nothing resumes, and every later setup is
   refused by `begin_pending_pairing`.
2. `aborted_pairing`. `cmd_pair` decides between aborted and recorded by looking
   for the transaction file. If the last cleanup of a *completed* replacement
   reports an error after removing that file, the session stays open with the old
   key, as after an abort, against the rule of `commands/passwd.rs` 48-49. A later save
   from that session writes the vault for the retired generation's share: the exception
   of `VaultOpenable`, `FilesAgree` and `ImplementsHandover`.
3. `deny_restores`. `deny_request` puts a request back into the slot whenever its
   answer could not be signed for want of authentication, without the questions
   `restore_pending_after_sign_error` asks for approvals. If the request's expiry task
   has run in between, nothing ends it any more, against the comment at
   `commands.rs` 652-654. `RequestEnds` is stated up to this case.

Two observations short of a finding: a password stays on the clipboard, unpromised,
if the process dies or fails between the copy and the start of the helper
(`Abandon`); and what is copied between a helper's look and its clear is cleared with
it, although the README (108) says otherwise. The tools offer no way to do both at once.

## 4. What is proved

### The phone's pairings

`PhonePairingProofs` proves for any set of generations, from the single
assumption `None \notin Generation`:

* `PhoneInvariantHolds`: `PhoneSpec => []PhoneInvariant`
* `PhoneTypeCorrect`, `RecoveryAlwaysPossible` (`ReferencedIntact`),
  `NothingStoredIsForgotten` (`NoForgottenShare`)
* `PendingUntilActive` (`PendingSurvives`), `ActiveMovesCommitted`
  (`HandoverIsCommitted`), `CommitsStand`: action properties. The last says that a
  generation that was offered never starts to wait again and that its commit, while it
  waits, is not taken back: what the desktop has been told stays true.

*The invariant.* None of the safety properties is inductive. That a committed
generation is whole, say, depends on no cleanup deleting it, which depends on how
pointers may overlap. `PhoneInvariant` (module `PhonePairingInvariant`) says how:
the committed pointer is the pending or the active one; staging equals pending
if both are set; retiring overlaps at most with active; and a generation both
active and still staged or pending is one whose activation was interrupted, so it is
still marked committed (`ActiveSettled`). The last part is why
`finalize_active_activation`, which keys on `active = committed`, is able to find
every interrupted activation, and why `cleanup_activation_metadata` must clear
`committed` last of the three. `Fresh` and `Prepared` tie the store to the tasks: a
generation enters the store with its own setup, and what a setup has stored
stays until its handshake.

*The argument.* The keystore parts are stated as `Sound(s, O)` for a store and the
set of offered generations, so `GenerationStoreProofs` can carry them through
each routine, call by call, for every outcome. Each routine also `Keeps` the
pending and active generations, or `Trims` an unoffered one, or `Moves` the
active pointer. `PhonePairingProofs` then has one lemma per kind of step. Most
are `QuietStep`; sending the first message (`OfferStep`) needs that a signed setup
is whole, and a second setup beginning (`BeginStep`) needs that it stops at a pending
generation.

### The two sides together

`PairingSystemProofs` proves for any set of generations, from the single assumption
`None \notin Generation`, and whatever the network loses:

* `SystemInvariantHolds`: `Spec => []SystemInvariant`
* `Typed` (`TypeOK`), `AlwaysResumable` (`TransactionResumable`), `PromotionCompletes`
  (`PromotionNeverStuck`), `CurrentKept` (`CurrentRemainsActive`)
* `ImplementsPhone`: `Spec => PhoneSpec`. The phone of the joint system does nothing that
  the phone of `PhonePairing`, against a desktop that may ask anything of what it was
  offered, could not do. So the theorems above hold of the joint system as well.
* `OneSideAtATime`: a step moves one side at most, and only forward: the phone to the
  generation on record, once the files are there; the desktop by recording, promoting,
  striking off, leaving a session behind, or a save for it.
* `VaultAlwaysOpenable` (`VaultOpenable`), `FilesAlwaysAgree` (`FilesAgree`),
  `RefinesHandover` (`ImplementsHandover`).

No theorem has a condition on what a session does. The last three carry the exception of
section 3 in what they state: the code lets a session save after its own `pair` has
failed past the promotion (`aborted_pairing`), and then the vault is of a generation the
phone has retired. They say how far that goes: the vault is always of the active
generation, the recorded one, or that one; the pairing file stays that of the phone; and
only a handover that has moved both sides, and has nothing on record any more, leaves
such a session behind.

*The invariant* `SystemInvariant` (module `PairingSystemInvariant`) has `PhoneInvariant` for
the phone, and for the rest what no property says by itself but each depends on.
`FilesSound`: which of the copies there are for each recorded phase, so that promotion,
repeated from any cut, finds what it asks for; a promotion that stops half way is the one
place where vault and pairing file differ. `NamesOffered`: only generations the phone
has offered are on the wire or on record. `PhoneFollows`: how far the phone has come with the
recorded generation, for each phase; this is what makes a transaction resumable.
`PlaceFits`: what the desktop has on record at each place of its program.
`SessionsPaired` and `SessionFits`: whose key a session can have: the
vault's, or, once `pair` has failed, that of the stray session, and never one that the
phone still keeps waiting.
`HelloIsFirst`: of a setup whose first message is under way the desktop has nothing.
`ActivationsFollow`: the phone is told to activate what it keeps waiting only when the files have
moved. `AcksHold`: an acknowledgement is still true when it is read, however late. TLC
checked it on the instance of the `pairing` run before it was proved.

*The argument.* The parts on files are stated for a value `d` of them, so they can be
carried through each routine of `paths.rs`, call by call. A step of the phone leaves
the files alone (`PhoneFrame`) and `CommitsStand` says what it cannot undo; a step of
the desktop leaves the store alone (`DesktopFrame`), most of them the record too
(`SameRecord`). `PromotionNeverStuck` says that recovery has an outcome
without error: its proof names one. The refinement follows from `OneSideMoves`.

### The desktop in everyday use

`DesktopUseProofs` proves for any processes, titles, clipboards and helpers, from the
assumptions of `VaultSession`, `Clipboard` and `DesktopUse` (the bounds are natural
numbers, there is a title and a clipboard, `None` is no process, processes copy the
passwords of their entries):

* `TypeCorrect` (`TypeOK`), `SessionKeyCurrentHolds`, `NothingLostHolds`,
  `PromisesAreWatchedHolds`
* `SavesWhatWasApprovedHolds`, `CopiesWhatIsSavedHolds`: action properties.

*The invariant* `DesktopInvariant`. `NothingLost` alone does not survive a save: the
candidate is made from the session's vault, not from the file. So the invariant says
where that vault comes from: `PlacesAgree` (who is past the lock holds it, so nobody
else has a session; who acts has been approved and has found its entry) and
`SessionIsKnown` (an open session shows what the user was last told; the file can
only be ahead of it, by writes that reported an error). With these a save can only
write its own entry or fall back to what the user knows.
`PromisesAreWatched` is inductive together with the clipboard's types.

*The argument.* `Moves` (a process keeps its session and changes place) and `Closes`
(it drops it) carry the invariant through most actions; `SaveKeeps` and `RotateKeeps`
go through every outcome of the write. `GetsPassword` joins the two halves: what
`get` hands over is a password, and the one that is known.

### Connection admission

`AdmissionProofs` proves for any connections, peers, sources and limits, from
`AdmissionAssumption` (finitely many connections, natural limits, some peer and some
source): `AdmissionTypeCorrect` (`TypeOK`) and `PermitsConservedHolds`
(`PermitsConserved`).

`AdmissionInvariant` adds to the two what a task holds at each place (`Held`): no
source slot while idle, no handler permit before it has asked for one. Without it a
connection that ends early could give back what it never took. Every action changes
one task, so each counter follows from `OneElement`: how the cardinality of a set
changes when one element may have come or gone.

### The phone's session and its requests

`PhoneSessionProofs` proves for any requests and overlapping tasks, and any bounds, from
`PhoneSessionAssumption` (`None` is no request, the bounds are natural numbers):

* `SessionTypeCorrect` (`TypeOK`), `BackgroundStaysLocked` (`BackgroundIsLocked`),
  `WaitingIsHeldOnce` (`WaitingIsHeld`)
* `AnsweredOnceHolds`, `NoRevivalHolds`, `ApprovalIsCurrentHolds`: action properties.

*The invariant* `SessionInvariant`. `BackgroundIsLocked` is kept step by step; the
others lean on what connects a task, which read the session before its await, with the
session it finds after it. `TasksConsistent`: the generation and token a task has read are
not ahead of the session, and strictly behind once a lock or a newer attempt has
overtaken it, so the comparison the code makes after the await does tell.
`LiveIfCurrent`: a request of the generation that runs, in a session that is unlocked, has
seen no lock. `Remembered`: whatever was admitted is among the recent ids, so an
id that is not is new. `HeldOnce` says `WaitingIsHeld` place by place.

*The argument.* A step leaves requests where they are (`Settled`, `Quiet`,
`SessionStep`), or moves one in one of four ways (`TakenFromSlot`, `EndedInSlot`,
`EndedInHand`, `PutInSlot`: `ChangesHands`), at the end of the session or within it. Locks
and newer attempts mark every task they find (`Overtaking`, `Superseding`). The
action properties then need which steps can do such a thing at all (`OnlyWaitingEnds`,
`OnlyTheseInstall`, `OnlyTakeVerified`).

### The PIN cooldown

`PinCooldownProofs` proves for any verifications, limits, durations and bounds, from
`PinCooldownAssumption` (`None` is no number and no verification, the rest are natural
numbers), `PowersAreNumbers` and `PowersDouble` (what powers of two are, which the provers
do not know), and, for the doubling, `SaturatesLate`: the multiplier saturates beyond the
longest cooldown, as 30 s times 2^32 - 1 does beyond 30 minutes:

* `TypeCorrect` (`TypeOK`), `NoVerdictEarly` (`NoVerdictWhileCooling`),
  `EveryGuessCounted` (`GuessesAreCounted`), `CooldownsDouble` (`CooldownsEscalate`)
* `RetryTimeHonest` (`RetryAfterIsHonest`): action property.

*The invariant* `CooldownInvariant` measures the entry against true time. `Left` is what
`active_cooldown_remaining_ms` would find at a clock value; `Owes` says that true time
asks for no more than that, `Promised` that nobody was told less. Both survive a reboot
because an entry of another boot counts in full, and a step of the clock because
`EntryPast` has its start in the past. `TasksSound` covers the clock value a
verification reads before it has the entry: a cooldown that restarts from such a value
still ends late enough, and a check that finds nothing left may go on to Argon2, whose
verdict then meets `owed = 0`. `Gated` keeps the others out until it is recorded.

*The argument.* `CheckedEntry` and `CountedEntry` say what the two functions on the entry
return; `EntryAfterCheck`, `EntryAfterFailure` and `Forgiven` carry the invariant through
a save that happens or not; then one lemma per action.

*Doubling.* `CooldownsEscalate` compares what the code computes from the level, a shift in
32 bits, with a recursive definition from one cooldown to the next. The provers cannot
instantiate the library's induction, which takes a predicate; `SetInduction` derives the
same for a set of numbers from the well-foundedness of `<`. It gives that the recursive
definition defines a function (`ExpectedExists`), and that no level falls short of it
or of an earlier one (`LongEnough`). `Escalating` then says, step by step, that the
entry's level is never behind the cooldowns in a row.

### The exchange

`AuthExchangeProofs` proves for any number of commands, durations and clocks, from
`ExchangeAssumption` (all positive numbers; the answer is awaited for less time than the
phone keeps the request and than the exchange may last; a phase, 10 s, is no longer than
an exchange, 70 s; a one-shot, 75 s, has room for its dial, 15 s, and a phase, and is not
longer than two phases and an exchange):

* `TypeCorrect` (`TypeOK`), `ApprovedIsWhatWasShown` (`ApprovedWhatWasShown`),
  `RetryNeverRepeats` (`RetryIsSafe`), `ClocksAreTolerated` (`TimestampsTolerant`)
* `RefinesAuthorization` (`ImplementsAuthorization`): the exchange implements
  `Authorization`.

*The invariant* `ExchangeInvariant`. `RetryIsSafe` needs that until the command has written its
request the phone cannot have it (`CommandPlaced`), and that what is still under way has
not come in (`SentHasNotArrived`). `ApprovedWhatWasShown` needs the same of the slot
(`HeldInSlot`) and of a yes on a stream (`YesIsApproved`). `TimestampsTolerant` is a matter of
arithmetic: `InTime` says what the timers that run leave of the age a request can still
reach. An exchange that falls back to a fresh connection starts its total timer anew, and still
the request gets no older than two phases and a total (`LateMeansFarApart`), because the
first of its phases ends before the new dial; a one-shot dials within its own total. TLC checked the invariant on the instance of
`auth_exchange` first.

*The refinement.* `QuietFollows`, `OverFollows`, `AskFollows`, `ArrivalFollows` and
`SlotFollows` are the kinds of steps: a stutter, a verdict, a question, its arrival, a
consent. They need that there is no verdict before its time (`NoVerdictYet`) and that the
screen shows only what has come in (`ShownHasCome`). So an answer that comes when the
command has given up, or for a prompt that lags behind, changes no verdict.

### Only model-checked

Liveness under fairness (`TransactionResolves`, `RequestEnds`, `CommandEnds`,
`StrangersLeave`), which these provers do not reach, and the violations behind the
findings, which are behaviours. Every invariant and action property of the passing runs is
also a theorem.

## 5. Plan

Done: pairing, then everything of the plan's items for the app session, PIN
cooldown, exchange, vault session, clipboard and admission.

Proved: all safety properties of the runs, and the refinements of `PairingHandover`, of
`PhoneSpec` by the joint system, and of `Authorization`.

Left:

1. `AuthExchange` over `PhoneSession` in place of its one-line phone: a specification of the
   phone's slot that both implement, so that what one proves of it the other can use.
2. A memory of request ids that forgets (600 s, 4096 entries), in `PhoneSession` with the
   clock of `AuthExchange`.

## 6. What is not modelled, and why

* Cryptography, key derivation, serialisation: library code; a bundle or a vault is
  represented by the generation or password that opens it.
* Contents of vault entries, terminal prompts, argument and command parsing, the
  password generator, error texts: no state that other parts depend on.
* Front-end views other than the prompt: they show back-end state and refetch it.
* Forgetting request ids: `PhoneSession` keeps an id for good, so `AnsweredOnce` and
  `RequestEnds` say nothing about ids forgotten after 600 s or a table that is full.
* `TimestampsTolerant` is about the desktop's check of an answer. The phone's check of a
  request (`Timely`) is modelled, but no property says when it may refuse.
* A cooldown that a crash in `activate_generation` hands on to the next pairing is a
  reachable state of `PinCooldown`, but violates no property there: the histories begin
  anew with a pairing.
* Panics and aborted tasks on the phone. `PermitsConserved` covers the ways the code ends
  a connection; after a panic the count per peer (`lib.rs` 396), which is no guard object,
  would stay too high.
* Approval keys have no counterpart of `NoForgottenShare`: a setup whose staging
  entry was cleared by another still creates its key afterwards, and nothing
  names that key. It signs nothing, since no bundle comes with it.
* Reads that fail are modelled as the failure of the write before which they come.
* The `dev-2fa-stub` build, which has no phone.
* Endpoint start-up and shut-down, QUIC, relays and discovery: external; a connection
  is up or down.
