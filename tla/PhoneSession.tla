---------------------------- MODULE PhoneSession ----------------------------
(***************************************************************************)
(* The phone app between an unlock and a lock: AppState                    *)
(* (app/src-tauri/src/state.rs), the one pending-request slot and the      *)
(* commands of commands.rs that work on them.  Commands, connections and   *)
(* timers are asynchronous tasks that interleave at every await; what runs *)
(* under one mutex is one action here.                                     *)
(*                                                                         *)
(* Time appears as ageing: a deadline may pass between any two steps, and  *)
(* `aged', "old" or a cleared flag says that it has.  PINs are only right, *)
(* wrong or cooling down (module PinCooldown), pairings do not appear      *)
(* (module PhonePairing), and whether a signed denial or only the closing  *)
(* of the connection ends a request is not told apart where the code       *)
(* itself falls back from one to the other.                                *)
(***************************************************************************)
EXTENDS Naturals, FiniteSets

CONSTANTS
    Request,        \* request ids; a desktop may present the same id again
    Task,           \* commands, connections and session timers that can overlap
    None,           \* an empty slot
    MaxRecent,      \* MAX_RECENT_REQUEST_IDS
    MaxCommands     \* bound: tasks started in a behaviour

ASSUME PhoneSessionAssumption ==
    None \notin Request /\ MaxRecent \in Nat /\ MaxCommands \in Nat

VARIABLES
    session,    \* AppState: what a lock clears, and what guards it
    slot,       \* the pending request
    recent,     \* recent_request_ids
    request,    \* per id: its identity, its age and how it ended
    task,       \* where each task stands and what it has read
    timers,     \* session generations whose expiry timer is still asleep
    started     \* number of tasks started so far

vars == <<session, slot, recent, request, task, timers, started>>

Answers == {"approved", "denied", "closed", "dropped"}

Steps == {"idle", "prompt", "load", "loadForReplacement", "pins", "grant", "pairing",
          "deny", "lock", "admit", "emit", "pin", "key", "takeToApprove", "takeToDeny",
          "takeAny", "share", "sendApproval", "sendDenial", "sendRetryDenial", "putBack",
          "restore"}

Idle == [at |-> "idle", next |-> "idle", asked |-> None, req |-> None,
         gen |-> 0, token |-> 0, stale |-> FALSE, superseded |-> FALSE]

TypeOK ==
    /\ session \in [generation : Nat, foreground : BOOLEAN, secrets : BOOLEAN,
                    unlocked : {"no", "fresh", "old"}, keyAuth : BOOLEAN,
                    replacement : BOOLEAN, token : Nat]
    /\ slot \in Request \cup {None}
    /\ recent \subseteq Request
    /\ request \in [Request -> [answer : Answers \cup {"none", "waiting"}, gen : Nat,
                                aged : BOOLEAN, armed : BOOLEAN, live : BOOLEAN,
                                putBack : BOOLEAN]]
    /\ task \in [Task -> [at : Steps, next : Steps, asked : Request \cup {None},
                          req : Request \cup {None}, gen : Nat, token : Nat,
                          stale : BOOLEAN, superseded : BOOLEAN]]
    \* no timer and no request is ahead of the session
    /\ timers \subseteq 0 .. session.generation
    /\ \A r \in Request : request[r].gen <= session.generation
    /\ started \in Nat

Init ==
    /\ session = [generation |-> 0, foreground |-> FALSE, secrets |-> FALSE, unlocked |-> "no",
                  keyAuth |-> FALSE, replacement |-> FALSE, token |-> 0]
    /\ slot = None
    /\ recent = {}
    /\ request = [r \in Request |-> [answer |-> "none", gen |-> 0, aged |-> FALSE,
                                     armed |-> FALSE, live |-> FALSE, putBack |-> FALSE]]
    /\ task = [t \in Task |-> Idle]
    /\ timers = {}
    /\ started = 0

-----------------------------------------------------------------------------
\* Tasks.

Begins(t, record) ==
    /\ task[t].at = "idle" /\ started < MaxCommands
    /\ started' = started + 1
    /\ task' = [task EXCEPT ![t] = record]

At(t, step)   == task[t].at = step /\ UNCHANGED started
To(t, step)   == [task EXCEPT ![t].at = step]
Done(t)       == [task EXCEPT ![t] = Idle]
Goes(t, step) == task' = IF step = "idle" THEN Done(t) ELSE To(t, step)

Answered(r, answer) == [request EXCEPT ![r].answer = answer]

\* History: a lock has overtaken a task since it read the generation it will be
\* checked against (stale), or a newer authorisation or a cancellation a
\* replacement (superseded); a lock has overtaken a request since its admission.
Overtaken(tasks) == [u \in Task |-> IF tasks[u].at = "idle" THEN tasks[u]
                                    ELSE [tasks[u] EXCEPT !.stale = TRUE]]
Severed(reqs)    == [r \in Request |-> [reqs[r] EXCEPT !.live = FALSE]]
Superseded(tasks) == [u \in Task |-> IF tasks[u].token = 0 THEN tasks[u]
                                     ELSE [tasks[u] EXCEPT !.superseded = TRUE]]

-----------------------------------------------------------------------------
\* AppState.

\* Fault: the key authentication outlives the session.
FaultCleared(s) == [s EXCEPT !.generation = @ + 1, !.secrets = FALSE, !.unlocked = "no",
                             !.replacement = FALSE]
Cleared(s) == [s EXCEPT !.generation = @ + 1, !.secrets = FALSE, !.unlocked = "no",
                        !.keyAuth = FALSE, !.replacement = FALSE]

\* The session ends, with the tasks and requests otherwise as given.
EndSession(tasks, reqs) ==
    /\ session' = Cleared(session)
    /\ task' = Overtaken(tasks)
    /\ request' = Severed(reqs)

Matches(s, gen) == s.generation = gen /\ s.foreground

Marked(s) == [s EXCEPT !.keyAuth = TRUE]

FaultUnlocked(s) == [s EXCEPT !.secrets = TRUE, !.unlocked = "fresh"]
Unlocked(s) == [s EXCEPT !.secrets = TRUE, !.unlocked = "fresh", !.generation = @ + 1]

\* Whether ensure_active_session finds the session alive.
Active(s) == s.foreground /\ s.unlocked = "fresh" /\ s.secrets

-----------------------------------------------------------------------------
\* Locking.  expire_session denies the pending request, then clears the session.

LockCommand(t) ==
    /\ Begins(t, [Idle EXCEPT !.at = "deny"])
    /\ UNCHANGED <<session, slot, recent, request, timers>>

Background(t) ==
    /\ session.foreground
    /\ task[t].at = "idle" /\ started < MaxCommands /\ started' = started + 1
    /\ session' = [Cleared(session) EXCEPT !.foreground = FALSE]
    /\ task' = [Overtaken(task) EXCEPT ![t] = [Idle EXCEPT !.at = "deny"]]
    /\ request' = Severed(request)
    /\ UNCHANGED <<slot, recent, timers>>

Foreground ==
    /\ session' = [session EXCEPT !.foreground = TRUE]
    /\ UNCHANGED <<slot, recent, request, task, timers, started>>

TakeAndDeny(t) ==
    /\ At(t, "deny")
    /\ request' = IF slot = None THEN request ELSE Answered(slot, "denied")
    /\ slot' = None
    /\ Goes(t, "lock")
    /\ UNCHANGED <<session, recent, timers>>

ClearSession(t) ==
    /\ At(t, "lock")
    /\ EndSession(Done(t), request)
    /\ UNCHANGED <<slot, recent, timers>>

\* The timer of schedule_session_expiry: if its session is still the current one
\* and has outlived its time, it is expired like a lock.
SessionTimer(t, g) ==
    /\ g \in timers
    /\ g = session.generation => session.unlocked # "fresh"
    /\ timers' = timers \ {g}
    /\ task[t].at = "idle"
    /\ task' = IF g = session.generation /\ session.unlocked = "old"
               THEN To(t, "deny") ELSE task
    /\ UNCHANGED <<session, slot, recent, request, started>>

-----------------------------------------------------------------------------
\* Biometric prompt and unlock.

UnlockCommand(t) ==
    /\ session.foreground
    /\ Begins(t, [Idle EXCEPT !.at = "prompt", !.next = "load", !.gen = session.generation])
    /\ UNCHANGED <<session, slot, recent, request, timers>>

PromptPassed(t) ==
    /\ At(t, "prompt")
    /\ IF Matches(session, task[t].gen)
       THEN session' = Marked(session) /\ Goes(t, task[t].next)
       ELSE UNCHANGED session /\ Goes(t, "idle")
    /\ UNCHANGED <<slot, recent, request, timers>>

PromptFailed(t) ==
    /\ At(t, "prompt")
    /\ Goes(t, "idle")
    /\ UNCHANGED <<session, slot, recent, request, timers>>

CompleteUnlock(t) ==
    /\ At(t, "load")
    /\ IF Matches(session, task[t].gen)
       THEN /\ session' = Unlocked(session)
            /\ timers' = timers \cup {session.generation + 1}
       ELSE UNCHANGED <<session, timers>>
    /\ Goes(t, "idle")
    /\ UNCHANGED <<slot, recent, request>>

\* load_secrets reports an error, perhaps that the approval key needs a new prompt.
LoadFailed(t) ==
    /\ task[t].at \in {"load", "loadForReplacement", "pairing"} /\ UNCHANGED started
    /\ \E authRequired \in BOOLEAN :
           session' = [session EXCEPT !.keyAuth = @ /\ ~authRequired]
    /\ Goes(t, "idle")
    /\ UNCHANGED <<slot, recent, request, timers>>

-----------------------------------------------------------------------------
\* Authorisation of a replacement pairing, and the setup that spends it.

ReplacementCommand(t) ==
    /\ session.foreground
    /\ task[t].at = "idle" /\ started < MaxCommands /\ started' = started + 1
    /\ session' = [session EXCEPT !.replacement = FALSE, !.token = @ + 1]
    /\ task' = [Superseded(task) EXCEPT ![t] =
                   [Idle EXCEPT !.at = "prompt", !.next = "loadForReplacement",
                                !.gen = session.generation, !.token = session.token + 1]]
    /\ UNCHANGED <<slot, recent, request, timers>>

LoadForReplacement(t) ==
    /\ At(t, "loadForReplacement")
    /\ Goes(t, "pins")
    /\ UNCHANGED <<session, slot, recent, request, timers>>

\* Both PINs right; one wrong or cooling down; or a cooldown started by this attempt.
VerifyReplacementPins(t) ==
    /\ At(t, "pins")
    /\ \E next \in {"grant", "idle", "deny"} : Goes(t, next)
    /\ UNCHANGED <<session, slot, recent, request, timers>>

FaultGrant(t) ==
    /\ At(t, "grant")
    /\ session' = IF Matches(session, task[t].gen) THEN [session EXCEPT !.replacement = TRUE]
                                                   ELSE session
    /\ Goes(t, "idle")
    /\ UNCHANGED <<slot, recent, request, timers>>

CompleteReplacement(t) ==
    /\ At(t, "grant")
    /\ session' = IF Matches(session, task[t].gen) /\ session.token = task[t].token
                  THEN [session EXCEPT !.replacement = TRUE] ELSE session
    /\ Goes(t, "idle")
    /\ UNCHANGED <<slot, recent, request, timers>>

CancelReplacement ==
    /\ started < MaxCommands /\ started' = started + 1
    /\ session' = [session EXCEPT !.replacement = FALSE, !.token = @ + 1]
    /\ task' = Superseded(task)
    /\ UNCHANGED <<slot, recent, request, timers>>

\* setup_complete on a phone that is set up: refused unless an authorisation is there.
SetupCommand(t) ==
    /\ session.replacement
    /\ Begins(t, [Idle EXCEPT !.at = "pairing"])
    /\ session' = [session EXCEPT !.replacement = FALSE]
    /\ UNCHANGED <<slot, recent, request, timers>>

\* After the handshake: the new secrets go into memory, and then the app is locked.
SetupLoaded(t) ==
    /\ At(t, "pairing")
    /\ session' = [session EXCEPT !.secrets = TRUE]
    /\ Goes(t, "lock")
    /\ UNCHANGED <<slot, recent, request, timers>>

-----------------------------------------------------------------------------
\* An AuthRequest arrives on a connection.

\* Peer and session are checked first; what they said may be stale at admission.
RequestArrives(t, r) ==
    /\ session.secrets
    /\ Begins(t, IF Active(session) THEN [Idle EXCEPT !.at = "admit", !.req = r]
                                    ELSE [Idle EXCEPT !.at = "deny"])
    /\ UNCHANGED <<session, slot, recent, request, timers>>

\* An id is kept at least as long as its timestamp lets it be presented again.
FaultAdmissible(r) == slot = None /\ Cardinality(recent) < MaxRecent
Admissible(r) == slot = None /\ r \notin recent /\ Cardinality(recent) < MaxRecent

Admit(t) ==
    LET r == task[t].req IN
    /\ At(t, "admit")
    /\ IF session.foreground /\ Admissible(r)
       THEN /\ slot' = r
            /\ recent' = recent \cup {r}
            /\ request' = [request EXCEPT ![r] =
                  [answer |-> "waiting", gen |-> session.generation, aged |-> FALSE,
                   armed |-> TRUE, live |-> session.unlocked # "no",
                   putBack |-> FALSE]]
            /\ Goes(t, "emit")
       ELSE UNCHANGED <<slot, recent, request>> /\ Goes(t, "idle")
    /\ UNCHANGED <<session, timers>>

\* The prompt reaches the front end, or the handler takes its own request back.
Emit(t) ==
    LET r == task[t].req IN
    /\ At(t, "emit")
    /\ \/ UNCHANGED <<slot, request>>
       \/ slot = r /\ slot' = None /\ request' = Answered(r, "denied")
    /\ Goes(t, "idle")
    /\ UNCHANGED <<session, recent, timers>>

FaultExpireRequest(r) ==
    LET mine == slot = r /\ request[r].gen = session.generation IN
    /\ request[r].armed /\ request[r].aged
    /\ slot' = IF mine THEN None ELSE slot
    /\ request' = [request EXCEPT ![r].armed = FALSE,
                                  ![r].answer = IF mine THEN "denied" ELSE @]
    /\ UNCHANGED <<session, recent, task, timers, started>>
\* The expiry task of one request: it ends that request, if it still waits.
ExpireRequest(r) ==
    /\ request[r].armed /\ request[r].aged
    /\ slot' = IF slot = r THEN None ELSE slot
    /\ request' = [request EXCEPT ![r].armed = FALSE,
                                  ![r].answer = IF slot = r THEN "denied" ELSE @]
    /\ UNCHANGED <<session, recent, task, timers, started>>

-----------------------------------------------------------------------------
\* approve_request.

ApproveCommand(t, r) ==
    /\ \/ /\ Active(session) /\ slot = r /\ ~request[r].aged
          /\ Begins(t, [Idle EXCEPT !.at = "pin", !.asked = r])
       \/ ~Active(session) /\ Begins(t, [Idle EXCEPT !.at = "deny"])
    /\ UNCHANGED <<session, slot, recent, request, timers>>

\* Right, wrong (the request stays), or a cooldown, upon which it is denied.
VerifyPin(t) ==
    /\ At(t, "pin")
    /\ \/ Goes(t, "idle")
       \/ \E next \in {"takeToApprove", "takeToDeny"} :
              task' = [task EXCEPT ![t].at = "key", ![t].next = next]
    /\ UNCHANGED <<session, slot, recent, request, timers>>

\* ensure_approval_key_auth: go on, or prompt again in the session of now.
EnsureKeyAuth(t) ==
    /\ At(t, "key")
    /\ IF session.keyAuth THEN Goes(t, task[t].next)
       ELSE IF session.foreground
       THEN task' = [task EXCEPT ![t].at = "prompt", ![t].gen = session.generation,
                                 ![t].stale = FALSE]
       ELSE Goes(t, "idle")
    /\ UNCHANGED <<session, slot, recent, request, timers>>

FaultVerified(r) == Matches(session, request[r].gen) /\ session.unlocked = "fresh" /\ slot # None
\* take_verified_pending: the request of the session that is still running.
Verified(r) ==
    /\ Matches(session, request[r].gen) /\ session.unlocked = "fresh"
    /\ slot = r /\ ~request[r].aged

TakeVerified(t) ==
    LET r == task[t].asked IN
    /\ task[t].at \in {"takeToApprove", "takeToDeny"} /\ UNCHANGED started
    /\ IF Verified(r)
       THEN /\ slot' = None
            /\ task' = [task EXCEPT ![t].req = slot,
                   ![t].at = IF @ = "takeToApprove" THEN "share" ELSE "sendRetryDenial"]
       ELSE UNCHANGED slot /\ Goes(t, "idle")
    /\ UNCHANGED <<session, recent, request, timers>>

\* The checks between taking the request and signing: foreground, the share still
\* in memory if it is asked for, the request not yet expired.
CopyShare(t) ==
    LET r == task[t].req IN
    /\ At(t, "share")
    /\ \/ /\ ~session.foreground
          /\ EndSession(Done(t), Answered(r, "closed"))
       \/ /\ session.foreground
          /\ ~session.secrets \/ request[r].aged
          /\ request' = Answered(r, "closed")
          /\ Goes(t, "idle") /\ UNCHANGED session
       \/ /\ session.foreground /\ ~request[r].aged
          /\ Goes(t, "sendApproval") /\ UNCHANGED <<session, request>>
    /\ UNCHANGED <<slot, recent, timers>>

\* send_signed_response succeeds; a cooldown denial then locks the app.
Send(t) ==
    LET r == task[t].req IN
    /\ task[t].at \in {"sendApproval", "sendDenial", "sendRetryDenial"} /\ UNCHANGED started
    /\ request' = Answered(r, IF task[t].at = "sendApproval" THEN "approved" ELSE "denied")
    /\ Goes(t, IF task[t].at = "sendRetryDenial" THEN "lock" ELSE "idle")
    /\ UNCHANGED <<session, slot, recent, timers>>

\* Signing or writing fails and the request is dropped: its stream ends unanswered.
SendFailed(t) ==
    /\ task[t].at \in {"sendApproval", "sendDenial", "sendRetryDenial"} /\ UNCHANGED started
    /\ request' = Answered(task[t].req, "dropped")
    /\ Goes(t, "idle")
    /\ UNCHANGED <<session, slot, recent, timers>>

\* The keystore asks for a new prompt: the request is to go back into the slot.
SignRefused(t) ==
    /\ task[t].at \in {"sendApproval", "sendDenial", "sendRetryDenial"} /\ UNCHANGED started
    /\ session' = [session EXCEPT !.keyAuth = FALSE]
    /\ Goes(t, IF task[t].at = "sendDenial" THEN "putBack" ELSE "restore")
    /\ UNCHANGED <<slot, recent, request, timers>>

\* restore_pending_after_sign_error
FaultRestorable(r) == Matches(session, request[r].gen) /\ ~request[r].aged
Restorable(r) == Matches(session, request[r].gen) /\ ~request[r].aged /\ slot = None

RestorePending(t) ==
    LET r == task[t].req IN
    /\ At(t, "restore")
    /\ IF Restorable(r) THEN slot' = r /\ UNCHANGED request
                        ELSE UNCHANGED slot /\ request' = Answered(r, "dropped")
    /\ Goes(t, "idle")
    /\ UNCHANGED <<session, recent, timers>>

-----------------------------------------------------------------------------
\* deny_request.

DenyCommand(t, r) ==
    /\ IF Active(session)
       THEN Begins(t, [Idle EXCEPT !.at = "key", !.next = "takeAny", !.asked = r])
       ELSE Begins(t, [Idle EXCEPT !.at = "deny"])
    /\ UNCHANGED <<session, slot, recent, request, timers>>

\* It takes whatever is pending, and looks at the id afterwards.
TakeAny(t) ==
    /\ At(t, "takeAny")
    /\ \/ slot = None /\ Goes(t, "idle") /\ UNCHANGED <<session, slot, request>>
       \/ /\ slot # None /\ slot # task[t].asked
          /\ task' = [task EXCEPT ![t].at = "putBack", ![t].req = slot]
          /\ slot' = None /\ UNCHANGED <<session, request>>
       \/ /\ slot = task[t].asked /\ session.foreground
          /\ task' = [task EXCEPT ![t].at = "sendDenial", ![t].req = slot]
          /\ slot' = None /\ UNCHANGED <<session, request>>
       \/ /\ slot = task[t].asked /\ ~session.foreground
          /\ EndSession(Done(t), Answered(slot, "closed"))
          /\ slot' = None
    /\ UNCHANGED <<recent, timers>>

\* `*pending.lock().await = Some(pending_req)`, whatever the slot holds by now.
PutBack(t) ==
    /\ At(t, "putBack")
    /\ slot' = task[t].req
    /\ request' = [r \in Request |->
          IF r = task[t].req THEN [request[r] EXCEPT !.putBack = TRUE]
          ELSE IF r = slot THEN [request[r] EXCEPT !.answer = "dropped"] ELSE request[r]]
    /\ Goes(t, "idle")
    /\ UNCHANGED <<session, recent, timers>>

-----------------------------------------------------------------------------
\* Time.

AgeSession == /\ session.unlocked = "fresh" /\ session' = [session EXCEPT !.unlocked = "old"]
              /\ UNCHANGED <<slot, recent, request, task, timers, started>>
AgeKeyAuth == /\ session.keyAuth /\ session' = [session EXCEPT !.keyAuth = FALSE]
              /\ UNCHANGED <<slot, recent, request, task, timers, started>>
AgeReplacement == /\ session.replacement /\ session' = [session EXCEPT !.replacement = FALSE]
                  /\ UNCHANGED <<slot, recent, request, task, timers, started>>
AgeRequest(r) ==
    /\ request[r].answer = "waiting" /\ ~request[r].aged
    /\ request' = [request EXCEPT ![r].aged = TRUE]
    /\ UNCHANGED <<session, slot, recent, task, timers, started>>

-----------------------------------------------------------------------------
Starts(t) ==
    \/ LockCommand(t) \/ Background(t) \/ UnlockCommand(t) \/ ReplacementCommand(t)
    \/ SetupCommand(t)
    \/ \E r \in Request : RequestArrives(t, r) \/ ApproveCommand(t, r) \/ DenyCommand(t, r)

\* The steps a started task takes by itself.
Continues(t) ==
    \/ TakeAndDeny(t) \/ ClearSession(t) \/ CompleteUnlock(t) \/ LoadFailed(t)
    \/ LoadForReplacement(t) \/ VerifyReplacementPins(t) \/ CompleteReplacement(t)
    \/ SetupLoaded(t) \/ Admit(t) \/ Emit(t) \/ VerifyPin(t) \/ EnsureKeyAuth(t)
    \/ TakeVerified(t) \/ CopyShare(t) \/ Send(t) \/ SendFailed(t) \/ SignRefused(t)
    \/ RestorePending(t) \/ TakeAny(t) \/ PutBack(t)

Next ==
    \/ \E t \in Task : Starts(t) \/ Continues(t) \/ PromptPassed(t) \/ PromptFailed(t)
    \/ \E t \in Task, g \in timers : SessionTimer(t, g)
    \/ \E r \in Request : ExpireRequest(r) \/ AgeRequest(r)
    \/ Foreground \/ CancelReplacement \/ AgeSession \/ AgeKeyAuth \/ AgeReplacement

Spec == Init /\ [][Next]_vars

\* Runnable tasks run, time passes, timers fire.  Nobody has to answer a prompt.
Fairness ==
    /\ \A t \in Task : WF_vars(Continues(t))
    /\ \A r \in Request : WF_vars(AgeRequest(r)) /\ WF_vars(ExpireRequest(r))
    /\ WF_vars(AgeSession)
    /\ WF_vars(\E t \in Task, g \in timers : SessionTimer(t, g))

FairSpec == Spec /\ Fairness

-----------------------------------------------------------------------------
\* What must hold.

\* An app in the background has nothing to approve with: no session, no fresh
\* approval-key authentication, no replacement authorisation, and secrets only for
\* the moment between the end of a setup and its lock.  A prompt, a keystore call
\* or a PIN check that outlives set_foreground(false) must not undo that.
BackgroundIsLocked ==
    ~session.foreground =>
        /\ session.unlocked = "no" /\ ~session.keyAuth /\ ~session.replacement
        /\ session.secrets => \E t \in Task : task[t].at = "lock"

\* A waiting request is in exactly one place: the slot, or the hands of one task.
\* Otherwise nobody would answer it, or two would.
Holding == {"share", "sendApproval", "sendDenial", "sendRetryDenial", "putBack", "restore"}
Holders(r) == {t \in Task : task[t].at \in Holding /\ task[t].req = r}
WaitingIsHeld ==
    \A r \in Request :
        /\ request[r].answer = "waiting" => (slot = r) # (Holders(r) # {})
        /\ request[r].answer # "waiting" => slot # r /\ Holders(r) = {}
        /\ Cardinality(Holders(r)) <= 1

\* The request approve_request takes to sign is the one the user entered the PIN
\* for, and the session that admitted it has run on without a lock since.
ApprovalIsCurrent ==
    [][\A t \in Task :
          task[t].at = "takeToApprove" /\ task'[t].at = "share" =>
              task'[t].req = task[t].asked /\ request[task[t].asked].live]_vars

\* Nothing is installed (session, key authentication, replacement authorisation)
\* by a task that a lock, or for a replacement a cancellation or a newer attempt,
\* has overtaken since it began.
Installs   == \/ session'.unlocked = "fresh" /\ session.unlocked # "fresh"
              \/ session'.keyAuth /\ ~session.keyAuth
Authorises == session'.replacement /\ ~session.replacement
NoRevival ==
    [][/\ Installs \/ Authorises => \E t \in Task : task'[t] # task[t] /\ ~task[t].stale
       /\ Authorises => \E t \in Task : task'[t] # task[t] /\ ~task[t].superseded]_vars

\* However a request ended, it stays ended: an id presented again is not admitted
\* again, and no second answer is given for it.
AnsweredOnce ==
    [][\A r \in Request : request[r].answer \in Answers =>
                              request'[r].answer = request[r].answer]_vars

\* Every admitted request comes to an end, without anybody touching the phone,
\* unless deny_request has put it back (RequestAnswered says what that breaks).
RequestEnds ==
    \A r \in Request :
        request[r].answer = "waiting" ~> request[r].answer # "waiting" \/ request[r].putBack

\* commands.rs 652-654: "Keep it pending until approval, denial, or retry exhaustion
\* so the CLI always receives a terminal response instead of waiting for a timeout."
RequestAnswered ==
    \A r \in Request : request[r].answer = "waiting" ~> request[r].answer # "waiting"

=============================================================================
