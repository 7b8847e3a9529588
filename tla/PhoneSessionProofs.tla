------------------------- MODULE PhoneSessionProofs -------------------------
(***************************************************************************)
(* The phone app keeps its sessions and its requests apart: for any number  *)
(* of requests and overlapping tasks, locks, prompts and deadlines.          *)
(***************************************************************************)
EXTENDS PhoneSession, FiniteSetTheorems, TLAPS

USE PhoneSessionAssumption DEF PhoneSessionAssumption

Sessions == [generation : Nat, foreground : BOOLEAN, secrets : BOOLEAN,
             unlocked : {"no", "fresh", "old"}, keyAuth : BOOLEAN,
             replacement : BOOLEAN, token : Nat]
Requests == [answer : Answers \cup {"none", "waiting"}, gen : Nat, aged : BOOLEAN,
             armed : BOOLEAN, live : BOOLEAN, putBack : BOOLEAN]
Tasks == [at : Steps, next : Steps, asked : Request \cup {None}, req : Request \cup {None},
          gen : Nat, token : Nat, stale : BOOLEAN, superseded : BOOLEAN]

\* A task that works on a request knows which.
Takes == {"takeToApprove", "takeToDeny", "takeAny"}
Asks(r) == /\ r.at = "admit" => r.req \in Request
           /\ r.at \in {"pin"} \cup Takes \/ r.next \in Takes => r.asked \in Request

\* What a task has read of the session is not ahead of it, and behind it once a lock,
\* or a newer authorisation, has overtaken the task.
Consistent(r, s) ==
    /\ Asks(r)
    /\ r.gen <= s.generation /\ (r.stale => r.gen < s.generation)
    /\ r.token <= s.token /\ (r.superseded => r.token < s.token)
    /\ r.next \in {"idle", "load", "loadForReplacement", "takeToApprove", "takeToDeny", "takeAny"}
TasksConsistent == \A t \in Task : Consistent(task[t], session)

\* A request that was admitted to the session that runs has seen no lock.
LiveIfCurrent ==
    \A r \in Request :
        request[r].answer = "waiting" /\ request[r].gen = session.generation
            /\ session.unlocked # "no" => request[r].live

\* An id that was admitted is remembered.
Remembered == \A r \in Request : request[r].answer # "none" => r \in recent

\* WaitingIsHeld, place by place.
HeldOnce ==
    /\ slot # None => request[slot].answer = "waiting"
    /\ \A t \in Task : task[t].at \in Holding =>
          /\ task[t].req \in Request /\ task[t].req # slot
          /\ request[task[t].req].answer = "waiting"
    /\ \A t, u \in Task : task[t].at \in Holding /\ task[u].at \in Holding
                             /\ task[t].req = task[u].req => t = u
    /\ \A r \in Request : request[r].answer = "waiting" =>
          slot = r \/ \E t \in Task : task[t].at \in Holding /\ task[t].req = r

SessionInvariant ==
    /\ TypeOK /\ TasksConsistent /\ LiveIfCurrent /\ Remembered /\ HeldOnce /\ BackgroundIsLocked

-----------------------------------------------------------------------------
LEMMA Typed ==
    ASSUME TypeOK
    PROVE  /\ session \in Sessions /\ request \in [Request -> Requests]
           /\ task \in [Task -> Tasks]
BY DEF TypeOK, Sessions, Requests, Tasks

LEMMA IdleType == /\ Idle \in Tasks /\ Idle.at = "idle" /\ Idle.next = "idle" /\ Idle.gen = 0
                  /\ Idle.token = 0 /\ ~Idle.stale /\ ~Idle.superseded
                  /\ \A s \in Sessions : Consistent(Idle, s)
<1>1. /\ Idle \in Tasks /\ Idle.at = "idle" /\ Idle.next = "idle" /\ Idle.gen = 0
      /\ Idle.token = 0 /\ ~Idle.stale /\ ~Idle.superseded
  BY DEF Idle, Tasks, Steps
<1>. QED
  BY <1>1 DEF Sessions, Consistent, Asks, Takes

\* What an unlock and a lock make of a session.
LEMMA UnlockedSession ==
    ASSUME NEW s \in Sessions
    PROVE  /\ Unlocked(s) \in Sessions /\ Unlocked(s).generation = s.generation + 1
           /\ Unlocked(s).token = s.token /\ Unlocked(s).foreground = s.foreground
<1>. DEFINE g == s.generation + 1
<1>1. g \in Nat
  BY DEF Sessions
<1>2. Unlocked(s).generation = g
  BY DEF Unlocked, Sessions
<1>3. Unlocked(s).token = s.token /\ Unlocked(s).foreground = s.foreground
  BY DEF Unlocked, Sessions
<1>. HIDE DEF g
<1>4. [s EXCEPT !.secrets = TRUE, !.unlocked = "fresh", !.generation = g] \in Sessions
  BY <1>1 DEF Sessions
<1>5. Unlocked(s) \in Sessions
  BY <1>4 DEF Unlocked, g
<1>. QED
  BY <1>2, <1>3, <1>5 DEF g

LEMMA ClearedSession ==
    ASSUME NEW s \in Sessions
    PROVE  /\ Cleared(s) \in Sessions /\ Cleared(s).generation = s.generation + 1
           /\ Cleared(s).token = s.token /\ Cleared(s).foreground = s.foreground
           /\ Cleared(s).unlocked = "no" /\ ~Cleared(s).keyAuth
           /\ ~Cleared(s).replacement /\ ~Cleared(s).secrets
<1>. DEFINE g == s.generation + 1
<1>1. g \in Nat
  BY DEF Sessions
<1>2. Cleared(s).generation = g
  BY DEF Cleared, Sessions
<1>3. /\ Cleared(s).token = s.token /\ Cleared(s).foreground = s.foreground
      /\ Cleared(s).unlocked = "no"
  BY DEF Cleared, Sessions
<1>4. ~Cleared(s).keyAuth /\ ~Cleared(s).replacement /\ ~Cleared(s).secrets
  BY DEF Cleared, Sessions
<1>. HIDE DEF g
<1>5. [s EXCEPT !.generation = g, !.secrets = FALSE, !.unlocked = "no",
                !.keyAuth = FALSE, !.replacement = FALSE] \in Sessions
  BY <1>1 DEF Sessions
<1>6. Cleared(s) \in Sessions
  BY <1>5 DEF Cleared, g
<1>. QED
  BY <1>2, <1>3, <1>4, <1>6 DEF g

\* A timer for the session that begins.
LEMMA NewTimer ==
    ASSUME NEW g \in Nat, NEW S, S \subseteq 0 .. g
    PROVE  S \cup {g + 1} \subseteq 0 .. g + 1
OBVIOUS

\* Where the requests are is settled: the rest follows if time goes on.
LEMMA Rest ==
    ASSUME SessionInvariant,
           session' \in Sessions, session.generation <= session'.generation,
           task' \in [Task -> Tasks], \A u \in Task : Consistent(task'[u], session'),
           request' \in [Request -> Requests],
           \A r \in Request : /\ request'[r].gen = request[r].gen
                              /\ request'[r].answer = "waiting" => request[r].answer = "waiting"
                              /\ request[r].answer = "none" => request'[r].answer = "none",
           \/ session.generation < session'.generation
           \/ /\ session'.unlocked # "no" => session.unlocked # "no"
              /\ \A r \in Request : request'[r].live = request[r].live,
           slot' \in Request \cup {None}, UNCHANGED recent,
           timers' \subseteq 0 .. session'.generation, started' \in Nat,
           HeldOnce', BackgroundIsLocked'
    PROVE  SessionInvariant'
<1>1. session \in Sessions /\ request \in [Request -> Requests]
  BY Typed DEF SessionInvariant
<1>2. \A r \in Request : request[r].gen <= session.generation /\ request[r].gen \in Nat
  BY <1>1 DEF SessionInvariant, TypeOK, Requests
<1>3. session.generation \in Nat /\ session'.generation \in Nat
  BY <1>1 DEF Sessions
<1>4. TypeOK'
  <2>1. \A r \in Request : request'[r].gen <= session'.generation
    BY <1>2, <1>3
  <2>2. recent' \subseteq Request
    BY DEF SessionInvariant, TypeOK
  <2>. QED
    BY <2>1, <2>2 DEF TypeOK, Sessions, Requests, Tasks
<1>5. TasksConsistent'
  BY DEF TasksConsistent
<1>6. LiveIfCurrent'
  BY <1>2, <1>3 DEF SessionInvariant, LiveIfCurrent
<1>7. Remembered'
  BY DEF SessionInvariant, Remembered
<1>. QED
  BY <1>4, <1>5, <1>6, <1>7 DEF SessionInvariant

\* Nobody takes or gives a request.
Same(u) == /\ task'[u].at \in Holding <=> task[u].at \in Holding
           /\ task'[u].at \in Holding => task'[u].req = task[u].req

LEMMA Settled ==
    ASSUME SessionInvariant,
           session' \in Sessions, session.generation <= session'.generation,
           task' \in [Task -> Tasks], \A u \in Task : Consistent(task'[u], session') /\ Same(u),
           request' \in [Request -> Requests],
           \A r \in Request : /\ request'[r].gen = request[r].gen
                              /\ request'[r].answer = request[r].answer,
           \/ session.generation < session'.generation
           \/ /\ session'.unlocked # "no" => session.unlocked # "no"
              /\ \A r \in Request : request'[r].live = request[r].live,
           UNCHANGED <<slot, recent>>,
           timers' \subseteq 0 .. session'.generation, started' \in Nat,
           BackgroundIsLocked'
    PROVE  SessionInvariant'
<1>1. slot \in Request \cup {None}
  BY DEF SessionInvariant, TypeOK
<1>2. HeldOnce'
  BY <1>1 DEF SessionInvariant, HeldOnce, Same
<1>. QED
  BY <1>1, <1>2, Rest

\* A step of one task that leaves the rest alone.
LEMMA Quiet ==
    ASSUME SessionInvariant, NEW t \in Task, NEW r \in Tasks,
           task' = [task EXCEPT ![t] = r], Consistent(r, session),
           r.at \in Holding <=> task[t].at \in Holding,
           r.at \in Holding => r.req = task[t].req,
           task[t].at = "lock" => r.at = "lock",
           UNCHANGED <<session, slot, recent, request>>,
           timers' \subseteq timers, started' \in Nat
    PROVE  SessionInvariant'
<1>1. session \in Sessions /\ request \in [Request -> Requests] /\ task \in [Task -> Tasks]
  BY Typed DEF SessionInvariant
<1>2. task' \in [Task -> Tasks] /\ \A u \in Task : task'[u] = IF u = t THEN r ELSE task[u]
  BY <1>1
<1>3. \A u \in Task : Consistent(task'[u], session') /\ Same(u)
  BY <1>2 DEF SessionInvariant, TasksConsistent, Same, Consistent
<1>4. BackgroundIsLocked'
  BY <1>2 DEF SessionInvariant, BackgroundIsLocked
<1>5. timers' \subseteq 0 .. session'.generation
  BY DEF SessionInvariant, TypeOK
<1>6. session.generation <= session'.generation
  BY <1>1 DEF Sessions
<1>. QED
  BY <1>1, <1>2, <1>3, <1>4, <1>5, <1>6, Settled

\* A step of one task that changes the session.
LEMMA SessionStep ==
    ASSUME SessionInvariant, NEW t \in Task, NEW r \in Tasks,
           task' = [task EXCEPT ![t] = r], Consistent(r, session'),
           r.at \in Holding <=> task[t].at \in Holding,
           r.at \in Holding => r.req = task[t].req,
           session' \in Sessions, session.generation <= session'.generation,
           session.token <= session'.token,
           \/ session.generation < session'.generation
           \/ session'.unlocked # "no" => session.unlocked # "no",
           UNCHANGED <<slot, recent, request>>,
           timers' \subseteq 0 .. session'.generation, started' \in Nat,
           BackgroundIsLocked'
    PROVE  SessionInvariant'
<1>1. session \in Sessions /\ request \in [Request -> Requests] /\ task \in [Task -> Tasks]
  BY Typed DEF SessionInvariant
<1>2. task' \in [Task -> Tasks] /\ \A u \in Task : task'[u] = IF u = t THEN r ELSE task[u]
  BY <1>1
<1>3. \A u \in Task : Consistent(task[u], session')
  BY <1>1 DEF SessionInvariant, TasksConsistent, Consistent, Sessions, Tasks
<1>4. \A u \in Task : Consistent(task'[u], session') /\ Same(u)
  BY <1>2, <1>3 DEF Same
<1>. QED
  BY <1>1, <1>2, <1>4, Settled

\* The steps a task goes to whatever it has been asked, and the one it was told.
Onward(t) == (Steps \ ({"admit", "pin"} \cup Takes \cup Holding)) \cup {task[t].next}

\* The next step of a task, or its end.
LEMMA Going ==
    ASSUME SessionInvariant, NEW t \in Task, NEW step \in Steps, Goes(t, step),
           step \notin {"admit", "pin"} \cup Takes \/ step = task[t].next
    PROVE  \E r \in Tasks : /\ task' = [task EXCEPT ![t] = r] /\ r.at = step
                            /\ Consistent(r, session)
                            /\ step # "idle" => r.req = task[t].req
                            /\ r = IF step = "idle" THEN Idle ELSE [task[t] EXCEPT !.at = step]
<1>1. session \in Sessions /\ task[t] \in Tasks /\ Consistent(task[t], session)
  BY Typed DEF SessionInvariant, TasksConsistent
<1>2. CASE step = "idle"
  BY <1>1, <1>2, IdleType DEF Goes, Done
<1>3. CASE step # "idle"
  <2>. DEFINE r == [task[t] EXCEPT !.at = step]
  <2>1. r \in Tasks /\ r.at = step /\ r.req = task[t].req
    BY <1>1 DEF Tasks
  <2>2. Consistent(r, session)
    <3>1. r.next = task[t].next /\ r.asked = task[t].asked
      BY <1>1 DEF Tasks
    <3>2. Asks(r)
      BY <1>1, <2>1, <3>1 DEF Asks, Consistent, Takes
    <3>. QED
      BY <1>1, <3>2 DEF Consistent, Tasks
  <2>3. task' = [task EXCEPT ![t] = r]
    BY <1>3 DEF Goes, To
  <2>. HIDE DEF r
  <2>4. r = IF step = "idle" THEN Idle ELSE [task[t] EXCEPT !.at = step]
    BY <1>3 DEF r
  <2>. QED
    BY <1>3, <2>1, <2>2, <2>3, <2>4
<1>. QED
  BY <1>2, <1>3

-----------------------------------------------------------------------------
\* Commands, requests and timers begin.

LEMMA Begun ==
    ASSUME SessionInvariant, NEW t \in Task, NEW r \in Tasks, Begins(t, r),
           r.at \notin Holding, Consistent(r, session),
           UNCHANGED <<session, slot, recent, request, timers>>
    PROVE  SessionInvariant'
<1>1. task[t].at = "idle" /\ task' = [task EXCEPT ![t] = r] /\ started' \in Nat
  BY DEF Begins, SessionInvariant, TypeOK
<1>. QED
  BY <1>1, Quiet DEF Holding

\* What a command or a connection starts with.
Fresh(r, gen, token) ==
    /\ r \in Tasks /\ r.at \notin Holding /\ Asks(r)
    /\ r.next \in {"idle", "load", "loadForReplacement", "takeAny"}
    /\ r.gen = gen /\ r.token = token /\ ~r.stale /\ ~r.superseded

LEMMA NewTask ==
    ASSUME NEW s \in Sessions, NEW r, Fresh(r, r.gen, r.token),
           r.gen <= s.generation, r.token <= s.token
    PROVE  r \in Tasks /\ r.at \notin Holding /\ Consistent(r, s)
BY DEF Fresh, Consistent

LEMMA CommandKeeps ==
    ASSUME SessionInvariant, NEW t \in Task, NEW q,
           \/ LockCommand(t) \/ UnlockCommand(t)
           \/ /\ q \in Request
              /\ RequestArrives(t, q) \/ ApproveCommand(t, q) \/ DenyCommand(t, q)
    PROVE  SessionInvariant'
<1>1. session \in Sessions /\ session.generation \in Nat /\ session.token \in Nat
  BY Typed DEF SessionInvariant, Sessions
<1>2. UNCHANGED <<session, slot, recent, request, timers>>
  BY DEF LockCommand, UnlockCommand, RequestArrives, ApproveCommand, DenyCommand
<1>3. ASSUME NEW r, NEW gen \in {0, session.generation}, Fresh(r, gen, 0), Begins(t, r)
      PROVE  SessionInvariant'
  <2>1. r.gen = gen /\ r.token = 0 /\ gen <= session.generation /\ 0 <= session.token
    BY <1>1, <1>3 DEF Fresh
  <2>2. r \in Tasks /\ r.at \notin Holding /\ Consistent(r, session)
    BY <1>1, <1>3, <2>1, NewTask
  <2>. QED
    BY <1>2, <1>3, <2>2, Begun
<1>4. CASE Begins(t, [Idle EXCEPT !.at = "deny"])
  <2>. DEFINE r == [Idle EXCEPT !.at = "deny"]
  <2>1. Fresh(r, 0, 0)
    BY <1>1, IdleType DEF Fresh, Tasks, Steps, Holding, Asks, Takes
  <2>2. Begins(t, r)
    BY <1>4
  <2>. HIDE DEF r
  <2>. QED
    BY <1>3, <2>1, <2>2
<1>5. CASE Begins(t, [Idle EXCEPT !.at = "prompt", !.next = "load", !.gen = session.generation])
  <2>. DEFINE r == [Idle EXCEPT !.at = "prompt", !.next = "load", !.gen = session.generation]
  <2>1. Fresh(r, session.generation, 0)
    BY <1>1, IdleType DEF Fresh, Tasks, Steps, Holding, Asks, Takes
  <2>2. Begins(t, r)
    BY <1>5
  <2>. HIDE DEF r
  <2>. QED
    BY <1>3, <2>1, <2>2
<1>6. CASE q \in Request /\ Begins(t, [Idle EXCEPT !.at = "admit", !.req = q])
  <2>. DEFINE r == [Idle EXCEPT !.at = "admit", !.req = q]
  <2>1. Fresh(r, 0, 0)
    BY <1>1, <1>6, IdleType DEF Fresh, Tasks, Steps, Holding, Asks, Takes
  <2>2. Begins(t, r)
    BY <1>6
  <2>. HIDE DEF r
  <2>. QED
    BY <1>3, <2>1, <2>2
<1>7. CASE q \in Request /\ Begins(t, [Idle EXCEPT !.at = "pin", !.asked = q])
  <2>. DEFINE r == [Idle EXCEPT !.at = "pin", !.asked = q]
  <2>1. Fresh(r, 0, 0)
    BY <1>1, <1>7, IdleType DEF Fresh, Tasks, Steps, Holding, Asks, Takes
  <2>2. Begins(t, r)
    BY <1>7
  <2>. HIDE DEF r
  <2>. QED
    BY <1>3, <2>1, <2>2
<1>8. CASE q \in Request /\ Begins(t, [Idle EXCEPT !.at = "key", !.next = "takeAny", !.asked = q])
  <2>. DEFINE r == [Idle EXCEPT !.at = "key", !.next = "takeAny", !.asked = q]
  <2>1. Fresh(r, 0, 0)
    BY <1>1, <1>8, IdleType DEF Fresh, Tasks, Steps, Holding, Asks, Takes
  <2>2. Begins(t, r)
    BY <1>8
  <2>. HIDE DEF r
  <2>. QED
    BY <1>3, <2>1, <2>2
<1>. QED
  BY <1>4, <1>5, <1>6, <1>7, <1>8
  DEF LockCommand, UnlockCommand, RequestArrives, ApproveCommand, DenyCommand

\* The timer of a session, if it is the one that runs, becomes a lock.
LEMMA TimerKeeps ==
    ASSUME SessionInvariant, NEW t \in Task, NEW g \in timers, SessionTimer(t, g)
    PROVE  SessionInvariant'
<1>1. task \in [Task -> Tasks] /\ task[t] \in Tasks /\ Consistent(task[t], session) /\ started \in Nat
  BY Typed DEF SessionInvariant, TasksConsistent, TypeOK
<1>2. /\ task[t].at = "idle" /\ timers' \subseteq timers
      /\ UNCHANGED <<session, slot, recent, request, started>>
  BY DEF SessionTimer
<1>3. CASE task' = task
  BY <1>1, <1>2, <1>3, Quiet
<1>4. CASE task' = To(t, "deny")
  <2>. DEFINE r == [task[t] EXCEPT !.at = "deny"]
  <2>1. r \in Tasks /\ r.at = "deny"
    BY <1>1 DEF Tasks, Steps
  <2>2. Consistent(r, session)
    <3>1. r.next = task[t].next /\ r.asked = task[t].asked
      BY <1>1 DEF Tasks
    <3>2. Asks(r)
      BY <1>1, <2>1, <3>1 DEF Asks, Consistent, Takes
    <3>. QED
      BY <1>1, <3>2 DEF Tasks, Consistent
  <2>3. task' = [task EXCEPT ![t] = r]
    BY <1>4 DEF To
  <2>. HIDE DEF r
  <2>. QED
    BY <1>1, <1>2, <2>1, <2>2, <2>3, Quiet DEF Holding
<1>. QED
  BY <1>3, <1>4 DEF SessionTimer

-----------------------------------------------------------------------------
\* Steps between two awaits that leave the session and the requests alone.

LEMMA GoesQuietly ==
    ASSUME SessionInvariant, NEW t \in Task, NEW step \in Steps, Goes(t, step),
           step \notin {"admit", "pin"} \cup Takes \/ step = task[t].next,
           step \notin Holding, task[t].at \notin Holding, task[t].at # "lock",
           UNCHANGED <<session, slot, recent, request, timers, started>>
    PROVE  SessionInvariant'
<1>1. PICK r \in Tasks : task' = [task EXCEPT ![t] = r] /\ r.at = step /\ Consistent(r, session)
  BY Going
<1>2. started \in Nat
  BY DEF SessionInvariant, TypeOK
<1>. QED
  BY <1>1, <1>2, Quiet

LEMMA NextType ==
    ASSUME SessionInvariant, NEW t \in Task
    PROVE  task[t].next \in Steps /\ task[t].next \notin Holding /\ task[t].next # "prompt"
BY DEF SessionInvariant, TasksConsistent, Consistent, Steps, Holding

LEMMA AwaitKeeps ==
    ASSUME SessionInvariant, NEW t \in Task,
           \/ PromptFailed(t) \/ LoadForReplacement(t) \/ VerifyReplacementPins(t)
           \/ VerifyPin(t) \/ EnsureKeyAuth(t)
    PROVE  SessionInvariant'
<1>1. /\ task[t].at \notin Holding \cup {"lock"}
      /\ UNCHANGED <<session, slot, recent, request, timers, started>>
  BY DEF PromptFailed, LoadForReplacement, VerifyReplacementPins, VerifyPin, EnsureKeyAuth, At, Holding
<1>2. ASSUME NEW step \in Onward(t), Goes(t, step) PROVE SessionInvariant'
  BY <1>1, <1>2, NextType, GoesQuietly DEF Onward
<1>3. session \in Sessions /\ task[t] \in Tasks /\ Consistent(task[t], session) /\ started \in Nat
  BY Typed DEF SessionInvariant, TasksConsistent, TypeOK
<1>4. CASE PromptFailed(t) \/ LoadForReplacement(t) \/ VerifyReplacementPins(t)
  BY <1>2, <1>4 DEF PromptFailed, LoadForReplacement, VerifyReplacementPins, Steps, Holding, Onward, Takes
<1>5. CASE VerifyPin(t)
  <2>1. CASE Goes(t, "idle")
    BY <1>2, <2>1 DEF Steps, Holding, Onward, Takes
  <2>2. ASSUME NEW next \in {"takeToApprove", "takeToDeny"},
               task' = [task EXCEPT ![t].at = "key", ![t].next = next]
        PROVE  SessionInvariant'
    <3>. DEFINE r == [task[t] EXCEPT !.at = "key", !.next = next]
    <3>1. r \in Tasks /\ r.at = "key"
      BY <1>3 DEF Tasks, Steps
    <3>2. Consistent(r, session)
      <4>1. r.next = next /\ r.asked = task[t].asked
        BY <1>3 DEF Tasks, Steps
      <4>2. Asks(r)
        BY <1>3, <1>5, <3>1, <4>1 DEF VerifyPin, At, Asks, Consistent, Takes
      <4>. QED
        BY <1>3, <4>1, <4>2 DEF Tasks, Consistent
    <3>3. task' = [task EXCEPT ![t] = r]
      BY <2>2
    <3>. HIDE DEF r
    <3>. QED
      BY <1>1, <1>3, <3>1, <3>2, <3>3, Quiet DEF Holding
  <2>. QED
    BY <1>5, <2>1, <2>2 DEF VerifyPin
<1>6. CASE EnsureKeyAuth(t)
  <2>1. CASE task' = [task EXCEPT ![t].at = "prompt", ![t].gen = session.generation,
                                  ![t].stale = FALSE]
    <3>. DEFINE r == [task[t] EXCEPT !.at = "prompt", !.gen = session.generation, !.stale = FALSE]
    <3>1. r \in Tasks /\ r.at = "prompt"
      BY <1>3 DEF Tasks, Steps, Sessions
    <3>2. Consistent(r, session)
      <4>1. r.next = task[t].next /\ r.asked = task[t].asked
        BY <1>3 DEF Tasks
      <4>2. Asks(r)
        BY <1>3, <3>1, <4>1 DEF Asks, Consistent, Takes
      <4>. QED
        BY <1>3, <4>1, <4>2 DEF Tasks, Consistent, Sessions
    <3>3. task' = [task EXCEPT ![t] = r]
      BY <2>1
    <3>. HIDE DEF r
    <3>. QED
      BY <1>1, <1>3, <3>1, <3>2, <3>3, Quiet DEF Holding
  <2>2. CASE Goes(t, "idle") \/ Goes(t, task[t].next)
    BY <1>2, <2>2, NextType DEF Steps, Holding, Onward, Takes
  <2>. QED
    BY <1>6, <2>1, <2>2 DEF EnsureKeyAuth
<1>. QED
  BY <1>4, <1>5, <1>6

-----------------------------------------------------------------------------
\* Steps of one task that change the session.

\* The session goes on, or a new one begins; in the background it gains no authority.
SessionGoes(t) ==
    /\ session' \in Sessions /\ session.generation <= session'.generation
    /\ session.token = session'.token /\ session'.foreground = session.foreground
    /\ \/ session.generation < session'.generation
       \/ session'.unlocked # "no" => session.unlocked # "no"
    /\ timers' \subseteq 0 .. session'.generation
    /\ ~session.foreground =>
          /\ session'.unlocked = session.unlocked
          /\ session'.keyAuth => session.keyAuth
          /\ session'.replacement => session.replacement
          /\ session'.secrets => session.secrets \/ SetupLoaded(t)

LEMMA SessionTaskKeeps ==
    ASSUME SessionInvariant, NEW t \in Task,
           \/ PromptPassed(t) \/ CompleteUnlock(t) \/ LoadFailed(t) \/ CompleteReplacement(t)
           \/ SetupLoaded(t)
    PROVE  SessionInvariant'
<1>1. session \in Sessions /\ started \in Nat /\ timers \subseteq 0 .. session.generation
      /\ BackgroundIsLocked
  BY Typed DEF SessionInvariant, TypeOK
<1>2. /\ task[t].at \notin Holding \cup {"lock"} /\ UNCHANGED <<slot, recent, request, started>>
  BY DEF PromptPassed, CompleteUnlock, LoadFailed, CompleteReplacement, SetupLoaded, At, Holding
<1>3. PICK step \in Onward(t) : Goes(t, step) /\ (SetupLoaded(t) => step = "lock")
  BY DEF PromptPassed, CompleteUnlock, LoadFailed, CompleteReplacement, SetupLoaded,
         Onward, Takes, Steps, Holding
<1>3a. step \in Steps \ Holding /\ (step \notin {"admit", "pin"} \cup Takes \/ step = task[t].next)
  BY NextType DEF Onward
<1>4. PICK r \in Tasks : task' = [task EXCEPT ![t] = r] /\ r.at = step /\ Consistent(r, session)
  BY <1>3, <1>3a, Going
<1>5. \/ UNCHANGED <<session, timers>>
      \/ session.foreground /\ session' = Marked(session) /\ UNCHANGED timers
      \/ session.foreground /\ session' = Unlocked(session)
         /\ timers' = timers \cup {session.generation + 1}
      \/ /\ \E b \in BOOLEAN : session' = [session EXCEPT !.keyAuth = @ /\ b]
         /\ UNCHANGED timers
      \/ session.foreground /\ session' = [session EXCEPT !.replacement = TRUE] /\ UNCHANGED timers
      \/ session' = [session EXCEPT !.secrets = TRUE] /\ SetupLoaded(t) /\ UNCHANGED timers
  <2>1. CASE LoadFailed(t)
    <3>1. PICK authRequired \in BOOLEAN : session' = [session EXCEPT !.keyAuth = @ /\ ~authRequired]
      BY <2>1 DEF LoadFailed
    <3>. QED
      BY <2>1, <3>1 DEF LoadFailed
  <2>2. CASE PromptPassed(t) \/ CompleteUnlock(t) \/ CompleteReplacement(t) \/ SetupLoaded(t)
    BY <2>2 DEF PromptPassed, CompleteUnlock, CompleteReplacement, SetupLoaded, Matches
  <2>. QED
    BY <2>1, <2>2
<1>6. SessionGoes(t)
  <2>. USE DEF SessionGoes
  <2>0. session.generation \in Nat /\ session.generation <= session.generation
    BY <1>1 DEF Sessions
  <2>1. CASE UNCHANGED <<session, timers>>
    BY <1>1, <2>0, <2>1
  <2>2. CASE session.foreground /\ session' = Marked(session) /\ UNCHANGED timers
    <3>1. /\ session' \in Sessions /\ session'.generation = session.generation
          /\ session'.token = session.token /\ session'.foreground = session.foreground
          /\ session'.unlocked = session.unlocked
      BY <1>1, <2>2 DEF Sessions, Marked
    <3>2. /\ session'.keyAuth = TRUE /\ session'.replacement = session.replacement
          /\ session'.secrets = session.secrets
      BY <1>1, <2>2 DEF Sessions, Marked
    <3>. QED
      BY <1>1, <2>0, <2>2, <3>1, <3>2
  <2>3. CASE session.foreground /\ session' = Unlocked(session)
             /\ timers' = timers \cup {session.generation + 1}
    <3>1. /\ session' \in Sessions /\ session'.generation = session.generation + 1
          /\ session'.token = session.token /\ session'.foreground = session.foreground
      BY <1>1, <2>3, UnlockedSession
    <3>2. timers' \subseteq 0 .. session'.generation
      BY <1>1, <2>0, <2>3, <3>1, NewTimer
    <3>3. session.generation < session'.generation /\ session.generation <= session'.generation
      BY <2>0, <3>1
    <3>. QED
      BY <2>3, <3>1, <3>2, <3>3
  <2>4. ASSUME NEW b \in BOOLEAN, session' = [session EXCEPT !.keyAuth = @ /\ b], UNCHANGED timers
        PROVE  SessionGoes(t)
    BY <1>1, <2>4 DEF Sessions
  <2>5. CASE session.foreground /\ session' = [session EXCEPT !.replacement = TRUE]
             /\ UNCHANGED timers
    <3>1. /\ session' \in Sessions /\ session'.generation = session.generation
          /\ session'.token = session.token /\ session'.foreground = session.foreground
          /\ session'.unlocked = session.unlocked
      BY <1>1, <2>5 DEF Sessions
    <3>2. /\ session'.keyAuth = session.keyAuth /\ session'.replacement = TRUE
          /\ session'.secrets = session.secrets
      BY <1>1, <2>5 DEF Sessions
    <3>. QED
      BY <1>1, <2>0, <2>5, <3>1, <3>2
  <2>6. CASE session' = [session EXCEPT !.secrets = TRUE] /\ SetupLoaded(t) /\ UNCHANGED timers
    <3>1. /\ session' \in Sessions /\ session'.generation = session.generation
          /\ session'.token = session.token /\ session'.foreground = session.foreground
          /\ session'.unlocked = session.unlocked
      BY <1>1, <2>6 DEF Sessions
    <3>2. /\ session'.keyAuth = session.keyAuth /\ session'.replacement = session.replacement
          /\ session'.secrets = TRUE
      BY <1>1, <2>6 DEF Sessions
    <3>. QED
      BY <1>1, <2>0, <2>6, <3>1, <3>2
  <2>. QED
    BY <1>5, <2>1, <2>2, <2>3, <2>4, <2>5, <2>6
<1>. USE DEF SessionGoes
<1>7. Consistent(r, session')
  BY <1>1, <1>4, <1>6 DEF Consistent, Sessions, Tasks
<1>8. BackgroundIsLocked'
  <2>. SUFFICES ASSUME ~session'.foreground PROVE BackgroundIsLocked'
    BY DEF BackgroundIsLocked
  <2>1. ~session.foreground
    BY <1>6
  <2>3. task \in [Task -> Tasks]
    BY Typed DEF SessionInvariant
  <2>4. \A u \in Task : task[u].at = "lock" => task'[u].at = "lock"
    BY <1>2, <1>4, <2>3
  <2>5. SetupLoaded(t) => task'[t].at = "lock"
    BY <1>3, <1>4, <2>3
  <2>. QED
    BY <1>1, <1>6, <2>1, <2>4, <2>5 DEF BackgroundIsLocked
<1>. QED
  <2>1. session.token <= session'.token
    BY <1>1, <1>6 DEF Sessions
  <2>. QED
    BY <1>1, <1>2, <1>3a, <1>4, <1>6, <1>7, <1>8, <2>1, SessionStep

LEMMA SetupKeeps ==
    ASSUME SessionInvariant, NEW t \in Task, SetupCommand(t)
    PROVE  SessionInvariant'
<1>1. session \in Sessions /\ started \in Nat /\ task \in [Task -> Tasks]
      /\ timers \subseteq 0 .. session.generation
  BY Typed DEF SessionInvariant, TypeOK
<1>. DEFINE r == [Idle EXCEPT !.at = "pairing"]
<1>2. r \in Tasks /\ r.at = "pairing"
  BY DEF Idle, Tasks, Steps
<1>3. /\ session' = [session EXCEPT !.replacement = FALSE] /\ task[t].at = "idle"
      /\ task' = [task EXCEPT ![t] = r] /\ started' \in Nat
      /\ UNCHANGED <<slot, recent, request, timers>>
  BY <1>1 DEF SetupCommand, Begins
<1>4. /\ session' \in Sessions /\ session'.generation = session.generation
      /\ session'.token = session.token /\ session'.unlocked = session.unlocked
      /\ session'.keyAuth = session.keyAuth /\ session'.secrets = session.secrets
      /\ session'.foreground = session.foreground /\ ~session'.replacement
  BY <1>1, <1>3 DEF Sessions
<1>5. Consistent(r, session')
  <2>1. Asks(r)
    BY <1>2, IdleType DEF Asks, Takes, Tasks
  <2>. QED
    BY <1>4, <2>1, IdleType DEF Consistent, Sessions, Tasks
<1>. HIDE DEF r
<1>6. \A u \in Task : task[u].at = "lock" => task'[u].at = "lock"
  BY <1>1, <1>3
<1>7. BackgroundIsLocked'
  BY <1>4, <1>6 DEF SessionInvariant, BackgroundIsLocked
<1>8. session.generation <= session'.generation /\ session.token <= session'.token
  BY <1>1, <1>4 DEF Sessions
<1>. QED
  BY <1>1, <1>2, <1>3, <1>4, <1>5, <1>7, <1>8, SessionStep DEF Holding

-----------------------------------------------------------------------------
\* A lock, and a newer authorisation, overtake the tasks and requests they find.

LEMMA Overtaking ==
    ASSUME NEW tasks \in [Task -> Tasks], NEW s \in Sessions, NEW later \in Sessions,
           \A u \in Task : Consistent(tasks[u], s),
           later.generation = s.generation + 1, later.token = s.token
    PROVE  /\ Overtaken(tasks) \in [Task -> Tasks]
           /\ \A u \in Task : /\ Consistent(Overtaken(tasks)[u], later)
                              /\ Overtaken(tasks)[u].at = tasks[u].at
                              /\ Overtaken(tasks)[u].req = tasks[u].req
<1>1. ASSUME NEW u \in Task
      PROVE  LET r == Overtaken(tasks)[u] IN
             r \in Tasks /\ Consistent(r, later) /\ r.at = tasks[u].at /\ r.req = tasks[u].req
  <2>1. tasks[u] \in Tasks /\ Consistent(tasks[u], s)
    OBVIOUS
  <2>2. /\ s.generation \in Nat /\ later.generation = s.generation + 1 /\ later.token = s.token
        /\ tasks[u].gen \in Nat
    BY <2>1 DEF Sessions, Tasks
  <2>3. CASE tasks[u].at = "idle"
    <3>1. Consistent(tasks[u], later)
      BY <2>1, <2>2 DEF Consistent
    <3>2. Overtaken(tasks)[u] = tasks[u]
      BY <2>3 DEF Overtaken
    <3>. QED
      BY <2>1, <3>1, <3>2
  <2>4. CASE tasks[u].at # "idle"
    <3>. DEFINE r == [tasks[u] EXCEPT !.stale = TRUE]
    <3>1. Overtaken(tasks)[u] = r
      BY <2>4 DEF Overtaken
    <3>2. r \in Tasks /\ r.at = tasks[u].at /\ r.req = tasks[u].req
      BY <2>1 DEF Tasks
    <3>3. /\ r.next = tasks[u].next /\ r.asked = tasks[u].asked /\ r.gen = tasks[u].gen
          /\ r.token = tasks[u].token /\ r.superseded = tasks[u].superseded
      BY <2>1 DEF Tasks
    <3>. HIDE DEF r
    <3>4. Asks(r)
      BY <2>1, <3>2, <3>3 DEF Consistent, Asks
    <3>5. Consistent(r, later)
      BY <2>1, <2>2, <3>3, <3>4 DEF Consistent
    <3>. QED
      BY <3>1, <3>2, <3>5
  <2>. QED
    BY <2>3, <2>4
<1>. QED
  BY <1>1 DEF Overtaken

LEMMA Superseding ==
    ASSUME NEW tasks \in [Task -> Tasks], NEW s \in Sessions, NEW later \in Sessions,
           \A u \in Task : Consistent(tasks[u], s),
           later.generation = s.generation, later.token = s.token + 1
    PROVE  /\ Superseded(tasks) \in [Task -> Tasks]
           /\ \A u \in Task : /\ Consistent(Superseded(tasks)[u], later)
                              /\ Superseded(tasks)[u].at = tasks[u].at
                              /\ Superseded(tasks)[u].req = tasks[u].req
<1>1. ASSUME NEW u \in Task
      PROVE  LET r == Superseded(tasks)[u] IN
             r \in Tasks /\ Consistent(r, later) /\ r.at = tasks[u].at /\ r.req = tasks[u].req
  <2>1. tasks[u] \in Tasks /\ Consistent(tasks[u], s)
    OBVIOUS
  <2>2. /\ s.token \in Nat /\ later.generation = s.generation /\ later.token = s.token + 1
        /\ tasks[u].token \in Nat
    BY <2>1 DEF Sessions, Tasks
  <2>3. CASE tasks[u].token = 0
    <3>1. Consistent(tasks[u], later)
      BY <2>1, <2>2 DEF Consistent
    <3>2. Superseded(tasks)[u] = tasks[u]
      BY <2>3 DEF Superseded
    <3>. QED
      BY <2>1, <3>1, <3>2
  <2>4. CASE tasks[u].token # 0
    <3>. DEFINE r == [tasks[u] EXCEPT !.superseded = TRUE]
    <3>1. Superseded(tasks)[u] = r
      BY <2>4 DEF Superseded
    <3>2. r \in Tasks /\ r.at = tasks[u].at /\ r.req = tasks[u].req
      BY <2>1 DEF Tasks
    <3>3. /\ r.next = tasks[u].next /\ r.asked = tasks[u].asked /\ r.gen = tasks[u].gen
          /\ r.token = tasks[u].token /\ r.stale = tasks[u].stale
      BY <2>1 DEF Tasks
    <3>. HIDE DEF r
    <3>4. Asks(r)
      BY <2>1, <3>2, <3>3 DEF Consistent, Asks
    <3>5. Consistent(r, later)
      BY <2>1, <2>2, <3>3, <3>4 DEF Consistent
    <3>. QED
      BY <3>1, <3>2, <3>5
  <2>. QED
    BY <2>3, <2>4
<1>. QED
  BY <1>1 DEF Superseded

LEMMA Answering ==
    ASSUME request \in [Request -> Requests], NEW q \in Request,
           NEW answer \in Answers \cup {"waiting"}
    PROVE  /\ Answered(q, answer) \in [Request -> Requests]
           /\ \A r \in Request :
                 /\ Answered(q, answer)[r].answer = IF r = q THEN answer ELSE request[r].answer
                 /\ Answered(q, answer)[r].gen = request[r].gen
                 /\ Answered(q, answer)[r].live = request[r].live
BY DEF Answered, Requests

LEMMA Severing ==
    ASSUME NEW reqs \in [Request -> Requests]
    PROVE  /\ Severed(reqs) \in [Request -> Requests]
           /\ \A r \in Request : /\ Severed(reqs)[r].answer = reqs[r].answer
                                 /\ Severed(reqs)[r].gen = reqs[r].gen
BY DEF Severed, Requests

LEMMA Finishing ==
    ASSUME SessionInvariant, NEW t \in Task
    PROVE  /\ Done(t) \in [Task -> Tasks]
           /\ \A u \in Task : /\ Consistent(Done(t)[u], session)
                              /\ Done(t)[u] = IF u = t THEN Idle ELSE task[u]
<1>1. session \in Sessions /\ task \in [Task -> Tasks] /\ TasksConsistent
  BY Typed DEF SessionInvariant
<1>. QED
  BY <1>1, IdleType DEF Done, TasksConsistent

LEMMA Ending ==
    ASSUME SessionInvariant, NEW tasks \in [Task -> Tasks], NEW reqs \in [Request -> Requests],
           \A u \in Task : Consistent(tasks[u], session),
           EndSession(tasks, reqs), UNCHANGED timers
    PROVE  /\ session' \in Sessions /\ session.generation < session'.generation
           /\ session.generation <= session'.generation
           /\ task' \in [Task -> Tasks] /\ request' \in [Request -> Requests]
           /\ \A u \in Task : /\ Consistent(task'[u], session')
                              /\ task'[u].at = tasks[u].at /\ task'[u].req = tasks[u].req
           /\ \A r \in Request : /\ request'[r].answer = reqs[r].answer
                                 /\ request'[r].gen = reqs[r].gen
           /\ timers' \subseteq 0 .. session'.generation
           /\ BackgroundIsLocked'
<1>1. session \in Sessions /\ session.generation \in Nat /\ timers \subseteq 0 .. session.generation
  BY Typed DEF SessionInvariant, TypeOK, Sessions
<1>2. session' = Cleared(session) /\ task' = Overtaken(tasks) /\ request' = Severed(reqs)
  BY DEF EndSession
<1>3. session' \in Sessions /\ session'.generation = session.generation + 1
      /\ session'.token = session.token
  BY <1>1, <1>2, ClearedSession
<1>4. BackgroundIsLocked'
  BY <1>1, <1>2, ClearedSession DEF BackgroundIsLocked
<1>5. timers' \subseteq 0 .. session'.generation
  BY <1>1, <1>3
<1>6. session.generation < session'.generation /\ session.generation <= session'.generation
  BY <1>1, <1>3
<1>7. /\ task' \in [Task -> Tasks]
      /\ \A u \in Task : /\ Consistent(task'[u], session')
                         /\ task'[u].at = tasks[u].at /\ task'[u].req = tasks[u].req
  BY <1>1, <1>2, <1>3, Overtaking
<1>. QED
  BY <1>2, <1>3, <1>4, <1>5, <1>6, <1>7, Severing

-----------------------------------------------------------------------------
\* A request changes hands, or ends.

Ends(q) == \A r \in Request : IF r = q THEN request'[r].answer \in Answers
                                       ELSE request'[r].answer = request[r].answer
Kept    == \A r \in Request : request'[r].answer = request[r].answer

TakenFromSlot(t) == /\ slot # None /\ slot' = None /\ Kept
                    /\ task[t].at \notin Holding
                    /\ task'[t].at \in Holding /\ task'[t].req = slot
EndedInSlot(t)   == slot # None /\ slot' = None /\ Ends(slot) /\ Same(t)
EndedInHand(t)   == /\ UNCHANGED slot /\ Ends(task[t].req)
                    /\ task[t].at \in Holding /\ task'[t].at \notin Holding
PutInSlot(t)     == /\ slot' = task[t].req
                    /\ task[t].at \in Holding /\ task'[t].at \notin Holding
                    /\ IF slot = None THEN Kept ELSE Ends(slot)

LEMMA ChangesHands ==
    ASSUME SessionInvariant, NEW t, \A u \in Task \ {t} : Same(u),
           \/ EndedInSlot(t)
           \/ t \in Task /\ (TakenFromSlot(t) \/ EndedInHand(t) \/ PutInSlot(t))
    PROVE  /\ HeldOnce' /\ slot' \in Request \cup {None}
           /\ \A r \in Request : /\ request'[r].answer = "waiting" => request[r].answer = "waiting"
                                 /\ request[r].answer = "none" => request'[r].answer = "none"
<1>. USE DEF Same
<1>1. HeldOnce /\ slot \in Request \cup {None} /\ "waiting" \notin Answers
  BY DEF SessionInvariant, TypeOK, Answers
<1>2. CASE t \in Task /\ TakenFromSlot(t)
  BY <1>1, <1>2 DEF TakenFromSlot, Kept, HeldOnce
<1>3. CASE EndedInSlot(t)
  BY <1>1, <1>3 DEF EndedInSlot, Ends, HeldOnce
<1>4. CASE t \in Task /\ EndedInHand(t)
  BY <1>1, <1>4 DEF EndedInHand, Ends, HeldOnce
<1>5. CASE t \in Task /\ PutInSlot(t)
  BY <1>1, <1>5 DEF PutInSlot, Kept, Ends, HeldOnce
<1>. QED
  BY <1>2, <1>3, <1>4, <1>5

\* By a step of one task that leaves the session alone.
LEMMA Moves ==
    ASSUME SessionInvariant, NEW t \in Task, NEW new \in Tasks,
           task' = [task EXCEPT ![t] = new], Consistent(new, session),
           task[t].at # "lock" \/ new.at = "lock",
           TakenFromSlot(t) \/ EndedInSlot(t) \/ EndedInHand(t) \/ PutInSlot(t),
           request' \in [Request -> Requests],
           \A r \in Request : request'[r].gen = request[r].gen /\ request'[r].live = request[r].live,
           UNCHANGED <<session, recent, timers, started>>
    PROVE  SessionInvariant'
<1>1. /\ session \in Sessions /\ task \in [Task -> Tasks] /\ TasksConsistent /\ BackgroundIsLocked
      /\ timers \subseteq 0 .. session.generation /\ started \in Nat
  BY Typed DEF SessionInvariant, TypeOK
<1>2. task' \in [Task -> Tasks] /\ \A u \in Task : task'[u] = IF u = t THEN new ELSE task[u]
  BY <1>1
<1>3. \A u \in Task \ {t} : Same(u)
  BY <1>2 DEF Same
<1>4. \A u \in Task : Consistent(task'[u], session')
  BY <1>1, <1>2 DEF TasksConsistent
<1>5. BackgroundIsLocked'
  BY <1>1, <1>2 DEF BackgroundIsLocked
<1>6. session.generation <= session'.generation
  BY <1>1 DEF Sessions
<1>. QED
  BY <1>1, <1>2, <1>3, <1>4, <1>5, <1>6, ChangesHands, Rest

\* At the end of the session.
LEMMA MovesAtEnd ==
    ASSUME SessionInvariant, NEW t \in Task, NEW reqs \in [Request -> Requests],
           EndSession(Done(t), reqs),
           \A r \in Request : reqs[r].gen = request[r].gen,
           EndedInSlot(t) \/ EndedInHand(t),
           UNCHANGED <<recent, timers, started>>
    PROVE  SessionInvariant'
<1>1. task \in [Task -> Tasks] /\ started \in Nat
  BY Typed DEF SessionInvariant, TypeOK
<1>2. /\ Done(t) \in [Task -> Tasks]
      /\ \A u \in Task : /\ Consistent(Done(t)[u], session)
                         /\ Done(t)[u] = IF u = t THEN Idle ELSE task[u]
  BY Finishing
<1>3. /\ session' \in Sessions /\ session.generation < session'.generation
      /\ session.generation <= session'.generation
      /\ task' \in [Task -> Tasks] /\ request' \in [Request -> Requests]
      /\ \A u \in Task : /\ Consistent(task'[u], session')
                         /\ task'[u].at = Done(t)[u].at /\ task'[u].req = Done(t)[u].req
      /\ \A r \in Request : request'[r].gen = request[r].gen
      /\ timers' \subseteq 0 .. session'.generation /\ BackgroundIsLocked'
  BY <1>2, Ending
<1>4. \A u \in Task \ {t} : Same(u)
  BY <1>2, <1>3 DEF Same
<1>. QED
  BY <1>1, <1>3, <1>4, ChangesHands, Rest

-----------------------------------------------------------------------------
\* The steps that do so.

LEMMA TakeAndDenyKeeps ==
    ASSUME SessionInvariant, NEW t \in Task, TakeAndDeny(t)
    PROVE  SessionInvariant'
<1>1. /\ task[t].at = "deny" /\ Goes(t, "lock") /\ slot' = None
      /\ UNCHANGED <<session, recent, timers, started>>
      /\ request' = IF slot = None THEN request ELSE Answered(slot, "denied")
  BY DEF TakeAndDeny, At
<1>2. PICK r \in Tasks : task' = [task EXCEPT ![t] = r] /\ r.at = "lock" /\ Consistent(r, session)
  BY <1>1, Going DEF Steps, Takes
<1>3. /\ slot \in Request \cup {None} /\ request \in [Request -> Requests]
      /\ task \in [Task -> Tasks] /\ started \in Nat
  BY Typed DEF SessionInvariant, TypeOK
<1>4. CASE slot = None
  BY <1>1, <1>2, <1>3, <1>4, Quiet DEF Holding
<1>5. CASE slot # None
  <2>1. /\ request' \in [Request -> Requests] /\ Ends(slot)
        /\ \A r1 \in Request : /\ request'[r1].gen = request[r1].gen
                               /\ request'[r1].live = request[r1].live
    BY <1>1, <1>3, <1>5, Answering DEF Ends, Answers
  <2>2. Same(t)
    BY <1>1, <1>2, <1>3 DEF Same, Holding
  <2>3. EndedInSlot(t)
    BY <1>1, <1>5, <2>1, <2>2 DEF EndedInSlot
  <2>. QED
    BY <1>1, <1>2, <2>1, <2>3, Moves
<1>. QED
  BY <1>4, <1>5

LEMMA ClearSessionKeeps ==
    ASSUME SessionInvariant, NEW t \in Task, ClearSession(t)
    PROVE  SessionInvariant'
<1>1. /\ task[t].at = "lock" /\ EndSession(Done(t), request)
      /\ UNCHANGED <<slot, recent, timers, started>>
  BY DEF ClearSession, At
<1>2. /\ request \in [Request -> Requests] /\ started \in Nat
  BY Typed DEF SessionInvariant, TypeOK
<1>3. /\ Done(t) \in [Task -> Tasks]
      /\ \A u \in Task : /\ Consistent(Done(t)[u], session)
                         /\ Done(t)[u] = IF u = t THEN Idle ELSE task[u]
  BY Finishing
<1>4. \A u \in Task : /\ Consistent(task'[u], session')
                     /\ task'[u].at = Done(t)[u].at /\ task'[u].req = Done(t)[u].req
  BY <1>1, <1>2, <1>3, Ending
<1>5. \A u \in Task : Same(u)
  BY <1>1, <1>3, <1>4, IdleType DEF Same, Holding
<1>. QED
  BY <1>1, <1>2, <1>3, <1>4, <1>5, Ending, Settled

LEMMA EmitKeeps ==
    ASSUME SessionInvariant, NEW t \in Task, Emit(t)
    PROVE  SessionInvariant'
<1>1. task[t].at = "emit" /\ Goes(t, "idle") /\ UNCHANGED <<session, recent, timers, started>>
  BY DEF Emit, At
<1>2. PICK r \in Tasks : task' = [task EXCEPT ![t] = r] /\ r.at = "idle" /\ Consistent(r, session)
  BY <1>1, Going DEF Steps, Takes
<1>3. /\ slot \in Request \cup {None} /\ request \in [Request -> Requests]
      /\ task \in [Task -> Tasks] /\ started \in Nat
  BY Typed DEF SessionInvariant, TypeOK
<1>4. CASE UNCHANGED <<slot, request>>
  BY <1>1, <1>2, <1>3, <1>4, Quiet DEF Holding
<1>5. CASE slot = None /\ slot' = None /\ request' = Answered(None, "denied")
  <2>1. request' = request
    BY <1>3, <1>5 DEF Answered
  <2>. QED
    BY <1>1, <1>2, <1>3, <1>5, <2>1, Quiet DEF Holding
<1>6. CASE slot # None /\ slot' = None /\ request' = Answered(slot, "denied")
  <2>1. /\ request' \in [Request -> Requests] /\ Ends(slot)
        /\ \A r1 \in Request : /\ request'[r1].gen = request[r1].gen
                               /\ request'[r1].live = request[r1].live
    BY <1>3, <1>6, Answering DEF Ends, Answers
  <2>2. Same(t)
    BY <1>1, <1>2, <1>3 DEF Same, Holding
  <2>3. EndedInSlot(t)
    BY <1>6, <2>1, <2>2 DEF EndedInSlot
  <2>. QED
    BY <1>1, <1>2, <2>1, <2>3, Moves
<1>. QED
  BY <1>4, <1>5, <1>6 DEF Emit

\* A task that takes the request in the slot.
LEMMA TakesFromSlot ==
    ASSUME SessionInvariant, NEW t \in Task, NEW step \in Holding,
           task[t].at \notin Holding \cup {"lock"}, slot # None, slot' = None,
           task' = [task EXCEPT ![t].req = slot, ![t].at = step],
           UNCHANGED <<session, recent, request, timers, started>>
    PROVE  SessionInvariant'
<1>1. /\ slot \in Request \cup {None} /\ request \in [Request -> Requests]
      /\ task \in [Task -> Tasks] /\ task[t] \in Tasks /\ Consistent(task[t], session)
  BY Typed DEF SessionInvariant, TypeOK, TasksConsistent
<1>. DEFINE r == [task[t] EXCEPT !.req = slot, !.at = step]
<1>2. task' = [task EXCEPT ![t] = r]
  OBVIOUS
<1>3. r \in Tasks /\ r.at = step /\ r.req = slot
  BY <1>1 DEF Tasks, Steps, Holding
<1>4. Consistent(r, session)
  <2>1. /\ r.next = task[t].next /\ r.asked = task[t].asked /\ r.gen = task[t].gen
        /\ r.token = task[t].token /\ r.stale = task[t].stale
        /\ r.superseded = task[t].superseded
    BY <1>1 DEF Tasks
  <2>2. Asks(r)
    BY <1>1, <1>3, <2>1 DEF Asks, Consistent, Takes, Holding
  <2>. QED
    BY <1>1, <2>1, <2>2 DEF Consistent
<1>. HIDE DEF r
<1>5. TakenFromSlot(t)
  BY <1>1, <1>2, <1>3 DEF TakenFromSlot, Kept
<1>. QED
  BY <1>1, <1>2, <1>3, <1>4, <1>5, Moves

LEMMA TakeVerifiedKeeps ==
    ASSUME SessionInvariant, NEW t \in Task, TakeVerified(t)
    PROVE  SessionInvariant'
<1>1. /\ task[t].at \in {"takeToApprove", "takeToDeny"}
      /\ UNCHANGED <<session, recent, request, timers, started>>
  BY DEF TakeVerified
<1>2. task[t].asked \in Request
  BY <1>1 DEF SessionInvariant, TasksConsistent, Consistent, Asks, Takes
<1>3. CASE UNCHANGED slot /\ Goes(t, "idle")
  BY <1>1, <1>3, GoesQuietly DEF Steps, Holding, Takes
<1>4. CASE /\ Verified(task[t].asked) /\ slot' = None
           /\ task' = [task EXCEPT ![t].req = slot,
                  ![t].at = IF @ = "takeToApprove" THEN "share" ELSE "sendRetryDenial"]
  <2>. DEFINE step == IF task[t].at = "takeToApprove" THEN "share" ELSE "sendRetryDenial"
  <2>1. slot # None
    BY <1>2, <1>4 DEF Verified
  <2>2. step \in Holding
    BY DEF Holding
  <2>3. task' = [task EXCEPT ![t].req = slot, ![t].at = step]
    BY <1>4, Typed DEF SessionInvariant, Tasks
  <2>. HIDE DEF step
  <2>. QED
    BY <1>1, <1>4, <2>1, <2>2, <2>3, TakesFromSlot DEF Holding
<1>. QED
  BY <1>3, <1>4 DEF TakeVerified

\* What a task holds is a waiting request.
LEMMA HeldWaits ==
    ASSUME SessionInvariant, NEW t \in Task, task[t].at \in Holding
    PROVE  /\ task[t].req \in Request /\ request[task[t].req].answer = "waiting"
           /\ task[t].req # slot
BY DEF SessionInvariant, HeldOnce

\* It ends it, and itself or goes on to lock.
LEMMA AnswersKeeps ==
    ASSUME SessionInvariant, NEW t \in Task, task[t].at \in Holding,
           NEW answer \in Answers, request' = Answered(task[t].req, answer),
           NEW step \in {"idle", "lock"}, Goes(t, step),
           UNCHANGED <<session, slot, recent, timers, started>>
    PROVE  SessionInvariant'
<1>1. task[t].req \in Request /\ request \in [Request -> Requests] /\ task \in [Task -> Tasks]
  BY Typed, HeldWaits DEF SessionInvariant
<1>2. PICK r \in Tasks : task' = [task EXCEPT ![t] = r] /\ r.at = step /\ Consistent(r, session)
  BY Going DEF Steps, Takes
<1>3. /\ request' \in [Request -> Requests] /\ Ends(task[t].req)
      /\ \A q \in Request : request'[q].gen = request[q].gen /\ request'[q].live = request[q].live
  BY <1>1, Answering DEF Ends
<1>4. EndedInHand(t) /\ task[t].at # "lock"
  BY <1>1, <1>2, <1>3 DEF EndedInHand, Holding
<1>. QED
  BY <1>2, <1>3, <1>4, Moves

LEMMA SendKeeps ==
    ASSUME SessionInvariant, NEW t \in Task, Send(t) \/ SendFailed(t)
    PROVE  SessionInvariant'
<1>1. /\ task[t].at \in Holding /\ UNCHANGED <<session, slot, recent, timers, started>>
  BY DEF Send, SendFailed, Holding
<1>2. \E answer \in Answers, step \in {"idle", "lock"} :
          request' = Answered(task[t].req, answer) /\ Goes(t, step)
  BY DEF Send, SendFailed, Answers
<1>. QED
  BY <1>1, <1>2, AnswersKeeps

LEMMA CopyShareKeeps ==
    ASSUME SessionInvariant, NEW t \in Task, CopyShare(t)
    PROVE  SessionInvariant'
<1>1. task[t].at = "share" /\ task[t].at \in Holding
      /\ UNCHANGED <<slot, recent, timers, started>>
  BY DEF CopyShare, At, Holding
<1>2. /\ task[t].req \in Request /\ request \in [Request -> Requests]
      /\ task \in [Task -> Tasks] /\ session \in Sessions /\ started \in Nat
  BY <1>1, Typed, HeldWaits DEF SessionInvariant, TypeOK
<1>3. CASE EndSession(Done(t), Answered(task[t].req, "closed"))
  <2>. DEFINE reqs == Answered(task[t].req, "closed")
  <2>1. /\ reqs \in [Request -> Requests]
        /\ \A r \in Request : /\ reqs[r].answer = IF r = task[t].req THEN "closed"
                                                                    ELSE request[r].answer
                              /\ reqs[r].gen = request[r].gen
    BY <1>2, Answering DEF Answers
  <2>2. EndSession(Done(t), reqs)
    BY <1>3
  <2>. HIDE DEF reqs
  <2>3. /\ \A r \in Request : request'[r].answer = reqs[r].answer
        /\ task'[t].at = Done(t)[t].at
    BY <1>1, <2>1, <2>2, Finishing, Ending
  <2>4. task'[t].at = "idle"
    BY <2>3, Finishing, IdleType
  <2>5. EndedInHand(t)
    BY <1>1, <2>1, <2>3, <2>4 DEF EndedInHand, Ends, Answers, Holding
  <2>. QED
    BY <1>1, <2>1, <2>2, <2>5, MovesAtEnd
<1>4. CASE request' = Answered(task[t].req, "closed") /\ Goes(t, "idle") /\ UNCHANGED session
  BY <1>1, <1>4, AnswersKeeps DEF Answers
<1>5. CASE Goes(t, "sendApproval") /\ UNCHANGED <<session, request>>
  <2>1. PICK r \in Tasks : /\ task' = [task EXCEPT ![t] = r] /\ r.at = "sendApproval"
                           /\ Consistent(r, session) /\ r.req = task[t].req
    BY <1>5, Going DEF Steps, Takes
  <2>. QED
    BY <1>1, <1>2, <1>5, <2>1, Quiet DEF Holding
<1>. QED
  BY <1>3, <1>4, <1>5 DEF CopyShare

LEMMA SignRefusedKeeps ==
    ASSUME SessionInvariant, NEW t \in Task, SignRefused(t)
    PROVE  SessionInvariant'
<1>1. /\ task[t].at \in Holding /\ session' = [session EXCEPT !.keyAuth = FALSE]
      /\ UNCHANGED <<slot, recent, request, timers, started>>
  BY DEF SignRefused, Holding
<1>2. PICK step \in {"putBack", "restore"} : Goes(t, step)
  BY DEF SignRefused
<1>3. PICK r \in Tasks : /\ task' = [task EXCEPT ![t] = r] /\ r.at = step
                         /\ Consistent(r, session) /\ r.req = task[t].req
  BY <1>2, Going DEF Steps, Takes
<1>4. /\ session \in Sessions /\ started \in Nat /\ task \in [Task -> Tasks]
      /\ timers \subseteq 0 .. session.generation /\ BackgroundIsLocked
  BY Typed DEF SessionInvariant, TypeOK
<1>5. /\ session' \in Sessions /\ session'.generation = session.generation
      /\ session'.token = session.token /\ session'.unlocked = session.unlocked
      /\ session'.foreground = session.foreground
  BY <1>1, <1>4 DEF Sessions
<1>6. ~session'.keyAuth /\ session'.replacement = session.replacement
      /\ session'.secrets = session.secrets
  BY <1>1, <1>4 DEF Sessions
<1>7. \A u \in Task : task[u].at = "lock" => task'[u].at = "lock"
  BY <1>1, <1>3, <1>4 DEF Holding
<1>8. BackgroundIsLocked'
  BY <1>4, <1>5, <1>6, <1>7 DEF BackgroundIsLocked
<1>9. Consistent(r, session') /\ session.generation <= session'.generation
      /\ session.token <= session'.token
  BY <1>3, <1>4, <1>5 DEF Consistent, Sessions
<1>. QED
  BY <1>1, <1>3, <1>4, <1>5, <1>8, <1>9, SessionStep DEF Holding

\* A task that gives its request back to the slot.
LEMMA GivesBack ==
    ASSUME SessionInvariant, NEW t \in Task, task[t].at \in Holding, Goes(t, "idle"),
           slot' = task[t].req, request' \in [Request -> Requests],
           IF slot = None THEN Kept ELSE Ends(slot),
           \A q \in Request : request'[q].gen = request[q].gen /\ request'[q].live = request[q].live,
           UNCHANGED <<session, recent, timers, started>>
    PROVE  SessionInvariant'
<1>1. PICK r \in Tasks : task' = [task EXCEPT ![t] = r] /\ r.at = "idle" /\ Consistent(r, session)
  BY Going DEF Steps, Takes
<1>2. task \in [Task -> Tasks]
  BY Typed DEF SessionInvariant
<1>3. PutInSlot(t) /\ task[t].at # "lock"
  BY <1>1, <1>2 DEF PutInSlot, Holding
<1>. QED
  BY <1>1, <1>3, Moves

LEMMA RestorePendingKeeps ==
    ASSUME SessionInvariant, NEW t \in Task, RestorePending(t)
    PROVE  SessionInvariant'
<1>1. /\ task[t].at = "restore" /\ task[t].at \in Holding /\ Goes(t, "idle")
      /\ UNCHANGED <<session, recent, timers, started>>
  BY DEF RestorePending, At, Holding
<1>2. request \in [Request -> Requests]
  BY Typed DEF SessionInvariant
<1>3. CASE slot = None /\ slot' = task[t].req /\ UNCHANGED request
  BY <1>1, <1>2, <1>3, GivesBack DEF Kept
<1>4. CASE UNCHANGED slot /\ request' = Answered(task[t].req, "dropped")
  BY <1>1, <1>4, AnswersKeeps DEF Answers
<1>. QED
  BY <1>3, <1>4 DEF RestorePending, Restorable

LEMMA PutBackKeeps ==
    ASSUME SessionInvariant, NEW t \in Task, PutBack(t)
    PROVE  SessionInvariant'
<1>1. /\ task[t].at = "putBack" /\ task[t].at \in Holding /\ Goes(t, "idle")
      /\ slot' = task[t].req /\ UNCHANGED <<session, recent, timers, started>>
      /\ request' = [r \in Request |->
            IF r = task[t].req THEN [request[r] EXCEPT !.putBack = TRUE]
            ELSE IF r = slot THEN [request[r] EXCEPT !.answer = "dropped"] ELSE request[r]]
  BY DEF PutBack, At, Holding
<1>2. request \in [Request -> Requests] /\ slot \in Request \cup {None} /\ task[t].req # slot
  BY <1>1, Typed, HeldWaits DEF SessionInvariant, TypeOK
<1>3. ASSUME NEW r \in Request
      PROVE  /\ request'[r] \in Requests
             /\ request'[r].gen = request[r].gen /\ request'[r].live = request[r].live
             /\ request'[r].answer = IF r = slot THEN "dropped" ELSE request[r].answer
  <2>1. CASE r = task[t].req
    BY <1>1, <1>2, <2>1 DEF Requests
  <2>2. CASE r # task[t].req /\ r = slot
    BY <1>1, <1>2, <2>2 DEF Requests, Answers
  <2>3. CASE r # task[t].req /\ r # slot
    BY <1>1, <1>2, <2>3
  <2>. QED
    BY <2>1, <2>2, <2>3
<1>4. request' \in [Request -> Requests]
  BY <1>1, <1>3
<1>5. IF slot = None THEN Kept ELSE Ends(slot)
  BY <1>2, <1>3 DEF Kept, Ends, Answers
<1>. QED
  BY <1>1, <1>3, <1>4, <1>5, GivesBack

LEMMA TakeAnyKeeps ==
    ASSUME SessionInvariant, NEW t \in Task, TakeAny(t)
    PROVE  SessionInvariant'
<1>1. task[t].at = "takeAny" /\ UNCHANGED <<recent, timers, started>>
  BY DEF TakeAny, At
<1>2. /\ task[t].asked \in Request /\ slot \in Request \cup {None}
      /\ request \in [Request -> Requests] /\ task \in [Task -> Tasks]
  BY <1>1, Typed DEF SessionInvariant, TypeOK, TasksConsistent, Consistent, Asks, Takes
<1>3. CASE Goes(t, "idle") /\ UNCHANGED <<session, slot, request>>
  BY <1>1, <1>3, GoesQuietly DEF Steps, Holding, Takes
<1>4. ASSUME NEW step \in {"putBack", "sendDenial"}, slot # None, slot' = None,
             task' = [task EXCEPT ![t].at = step, ![t].req = slot],
             UNCHANGED <<session, request>>
      PROVE  SessionInvariant'
  <2>1. task' = [task EXCEPT ![t].req = slot, ![t].at = step]
    BY <1>2, <1>4 DEF Tasks
  <2>. QED
    BY <1>1, <1>4, <2>1, TakesFromSlot DEF Holding
<1>5. CASE slot = task[t].asked /\ slot' = None /\ EndSession(Done(t), Answered(slot, "closed"))
  <2>. DEFINE reqs == Answered(slot, "closed")
  <2>1. /\ reqs \in [Request -> Requests]
        /\ \A r \in Request : /\ reqs[r].answer = IF r = slot THEN "closed" ELSE request[r].answer
                              /\ reqs[r].gen = request[r].gen
    BY <1>2, <1>5, Answering DEF Answers
  <2>2. EndSession(Done(t), reqs)
    BY <1>5
  <2>. HIDE DEF reqs
  <2>3. /\ \A r \in Request : request'[r].answer = reqs[r].answer
        /\ task'[t].at = Done(t)[t].at
    BY <1>1, <2>1, <2>2, Finishing, Ending
  <2>4. task'[t].at = "idle"
    BY <2>3, Finishing, IdleType
  <2>5. EndedInSlot(t)
    BY <1>1, <1>2, <1>5, <2>1, <2>3, <2>4 DEF EndedInSlot, Ends, Answers, Holding, Same
  <2>. QED
    BY <1>1, <2>1, <2>2, <2>5, MovesAtEnd
<1>. QED
  BY <1>2, <1>3, <1>4, <1>5 DEF TakeAny

LEMMA ExpireRequestKeeps ==
    ASSUME SessionInvariant, NEW q \in Request, ExpireRequest(q)
    PROVE  SessionInvariant'
<1>1. /\ UNCHANGED <<session, recent, task, timers, started>>
      /\ slot' = IF slot = q THEN None ELSE slot
      /\ request' = [request EXCEPT ![q].armed = FALSE,
                                    ![q].answer = IF slot = q THEN "denied" ELSE @]
  BY DEF ExpireRequest
<1>2. /\ slot \in Request \cup {None} /\ request \in [Request -> Requests]
      /\ task \in [Task -> Tasks] /\ TasksConsistent /\ BackgroundIsLocked
      /\ session \in Sessions /\ timers \subseteq 0 .. session.generation /\ started \in Nat
  BY Typed DEF SessionInvariant, TypeOK
<1>3. ASSUME NEW r \in Request
      PROVE  /\ request'[r] \in Requests
             /\ request'[r].gen = request[r].gen /\ request'[r].live = request[r].live
             /\ request'[r].answer = IF r = q /\ slot = q THEN "denied" ELSE request[r].answer
  <2>1. CASE r = q /\ slot = q
    BY <1>1, <1>2, <2>1 DEF Requests, Answers
  <2>2. CASE r = q /\ slot # q
    BY <1>1, <1>2, <2>2 DEF Requests
  <2>3. CASE r # q
    BY <1>1, <1>2, <2>3
  <2>. QED
    BY <2>1, <2>2, <2>3
<1>4. request' \in [Request -> Requests]
  BY <1>1, <1>2, <1>3
<1>5. /\ task' \in [Task -> Tasks] /\ \A u \in Task : Consistent(task'[u], session') /\ Same(u)
      /\ BackgroundIsLocked' /\ session.generation <= session'.generation
  BY <1>1, <1>2 DEF TasksConsistent, Same, BackgroundIsLocked, Sessions
<1>6. CASE slot = q
  <2>1. EndedInSlot(None)
    BY <1>1, <1>2, <1>3, <1>5, <1>6 DEF EndedInSlot, Ends, Answers, Same
  <2>. QED
    BY <1>1, <1>2, <1>3, <1>4, <1>5, <2>1, ChangesHands, Rest
<1>7. CASE slot # q
  BY <1>1, <1>2, <1>3, <1>4, <1>5, <1>7, Settled
<1>. QED
  BY <1>6, <1>7

-----------------------------------------------------------------------------
\* Admission, the foreground, replacements and time.

LEMMA AdmitKeeps ==
    ASSUME SessionInvariant, NEW t \in Task, Admit(t)
    PROVE  SessionInvariant'
<1>. DEFINE q == task[t].req
<1>1. task[t].at = "admit" /\ UNCHANGED <<session, timers, started>>
  BY DEF Admit, At
<1>2. /\ q \in Request /\ request \in [Request -> Requests] /\ task \in [Task -> Tasks]
      /\ session \in Sessions /\ started \in Nat
  BY <1>1, Typed DEF SessionInvariant, TypeOK, TasksConsistent, Consistent, Asks
<1>3. CASE Goes(t, "idle") /\ UNCHANGED <<slot, recent, request>>
  BY <1>1, <1>3, GoesQuietly DEF Steps, Holding, Takes
<1>4. ASSUME slot = None, q \notin recent, slot' = q, recent' = recent \cup {q}, Goes(t, "emit"),
             request' = [request EXCEPT ![q] =
                  [answer |-> "waiting", gen |-> session.generation, aged |-> FALSE,
                   armed |-> TRUE, live |-> session.unlocked # "no", putBack |-> FALSE]]
      PROVE  SessionInvariant'
  <2>1. PICK r \in Tasks : task' = [task EXCEPT ![t] = r] /\ r.at = "emit" /\ Consistent(r, session)
    BY <1>4, Going DEF Steps, Takes
  <2>. DEFINE new == [answer |-> "waiting", gen |-> session.generation, aged |-> FALSE,
                      armed |-> TRUE, live |-> session.unlocked # "no", putBack |-> FALSE]
  <2>2. /\ new \in Requests /\ new.answer = "waiting" /\ new.gen = session.generation
        /\ session.unlocked # "no" => new.live
    <3>1. (session.unlocked # "no") \in BOOLEAN
      OBVIOUS
    <3>2. new \in Requests
      BY <1>2, <3>1 DEF Requests, Sessions
    <3>. QED
      BY <3>2
  <2>3. request' = [request EXCEPT ![q] = new]
    BY <1>4
  <2>. HIDE DEF new, q
  <2>4. /\ request' \in [Request -> Requests]
        /\ \A r1 \in Request : request'[r1] = IF r1 = q THEN new ELSE request[r1]
    BY <1>2, <2>2, <2>3
  <2>5. task' \in [Task -> Tasks] /\ \A u \in Task : task'[u] = IF u = t THEN r ELSE task[u]
    BY <1>2, <2>1
  <2>6. request[q].answer = "none"
    BY <1>2, <1>4 DEF SessionInvariant, Remembered
  <2>7. TypeOK'
    <3>1. \A r1 \in Request : request[r1].gen <= session.generation
      BY DEF SessionInvariant, TypeOK
    <3>2. session.generation <= session.generation
      BY <1>2 DEF Sessions
    <3>3. \A r1 \in Request : request'[r1].gen <= session'.generation
      BY <1>1, <2>2, <2>4, <3>1, <3>2
    <3>4. recent' \subseteq Request /\ slot' \in Request \cup {None}
          /\ timers' \subseteq 0 .. session'.generation
      BY <1>1, <1>2, <1>4 DEF SessionInvariant, TypeOK
    <3>5. session' \in Sessions /\ started' \in Nat
      BY <1>1, <1>2
    <3>. QED
      BY <2>4, <2>5, <3>3, <3>4, <3>5 DEF TypeOK, Sessions, Requests, Tasks
  <2>8. TasksConsistent'
    BY <1>1, <2>1, <2>5 DEF SessionInvariant, TasksConsistent
  <2>9. LiveIfCurrent'
    BY <1>1, <2>2, <2>4 DEF SessionInvariant, LiveIfCurrent
  <2>10. Remembered'
    BY <1>4, <2>4 DEF SessionInvariant, Remembered
  <2>11. HeldOnce'
    <3>1. task[t].at \notin Holding /\ task'[t].at \notin Holding
      BY <1>1, <2>1, <2>5 DEF Holding
    <3>2. \A u \in Task : u # t => task'[u] = task[u]
      BY <2>5
    <3>3. \A u \in Task : task[u].at \in Holding => task[u].req # q
      BY <2>6 DEF SessionInvariant, HeldOnce
    <3>. QED
      BY <1>2, <1>4, <2>2, <2>4, <3>1, <3>2, <3>3 DEF SessionInvariant, HeldOnce
  <2>12. BackgroundIsLocked'
    BY <1>1, <2>5 DEF SessionInvariant, BackgroundIsLocked
  <2>. QED
    BY <2>7, <2>8, <2>9, <2>10, <2>11, <2>12 DEF SessionInvariant
<1>. QED
  BY <1>3, <1>4 DEF Admit, Admissible

LEMMA BackgroundKeeps ==
    ASSUME SessionInvariant, NEW t \in Task, Background(t)
    PROVE  SessionInvariant'
<1>1. /\ task[t].at = "idle" /\ started' = started + 1 /\ UNCHANGED <<slot, recent, timers>>
      /\ session' = [Cleared(session) EXCEPT !.foreground = FALSE]
      /\ task' = [Overtaken(task) EXCEPT ![t] = [Idle EXCEPT !.at = "deny"]]
      /\ request' = Severed(request)
  BY DEF Background
<1>2. /\ session \in Sessions /\ session.generation \in Nat /\ request \in [Request -> Requests]
      /\ task \in [Task -> Tasks] /\ TasksConsistent /\ started' \in Nat
      /\ timers \subseteq 0 .. session.generation
  BY <1>1, Typed DEF SessionInvariant, TypeOK, Sessions
<1>3. /\ session' \in Sessions /\ session'.generation = session.generation + 1
      /\ session'.token = session.token /\ session'.unlocked = "no"
      /\ ~session'.keyAuth /\ ~session'.replacement /\ ~session'.secrets
  <2>. DEFINE s == Cleared(session)
  <2>1. /\ s \in Sessions /\ s.generation = session.generation + 1
        /\ s.token = session.token /\ s.unlocked = "no"
        /\ ~s.keyAuth /\ ~s.replacement /\ ~s.secrets
    BY <1>2, ClearedSession
  <2>2. session' = [s EXCEPT !.foreground = FALSE]
    BY <1>1
  <2>. HIDE DEF s
  <2>3. /\ session' \in Sessions /\ session'.generation = s.generation
        /\ session'.token = s.token /\ session'.unlocked = s.unlocked
    BY <2>1, <2>2 DEF Sessions
  <2>4. /\ session'.keyAuth = s.keyAuth /\ session'.replacement = s.replacement
        /\ session'.secrets = s.secrets
    BY <2>1, <2>2 DEF Sessions
  <2>. QED
    BY <2>1, <2>3, <2>4
<1>4. BackgroundIsLocked'
  BY <1>3 DEF BackgroundIsLocked
<1>. DEFINE new == [Idle EXCEPT !.at = "deny"]
<1>5. Fresh(new, 0, 0) /\ new.at = "deny"
  BY IdleType DEF Fresh, Tasks, Steps, Holding, Asks, Takes
<1>6. new \in Tasks /\ Consistent(new, session')
  <2>1. /\ new.gen = 0 /\ new.token = 0
        /\ 0 <= session'.generation /\ 0 <= session'.token
    BY <1>3, <1>5 DEF Fresh, Sessions
  <2>. HIDE DEF new
  <2>. QED
    BY <1>3, <1>5, <2>1, NewTask
<1>7. /\ Overtaken(task) \in [Task -> Tasks]
      /\ \A u \in Task : /\ Consistent(Overtaken(task)[u], session')
                         /\ Overtaken(task)[u].at = task[u].at
                         /\ Overtaken(task)[u].req = task[u].req
  BY <1>2, <1>3, Overtaking DEF TasksConsistent
<1>8. task' = [Overtaken(task) EXCEPT ![t] = new]
  BY <1>1
<1>. HIDE DEF new
<1>9. /\ task' \in [Task -> Tasks]
      /\ \A u \in Task : task'[u] = IF u = t THEN new ELSE Overtaken(task)[u]
  BY <1>6, <1>7, <1>8
<1>10. \A u \in Task : Consistent(task'[u], session') /\ Same(u)
  BY <1>1, <1>5, <1>6, <1>7, <1>9 DEF Same, Holding
<1>11. /\ session.generation < session'.generation /\ session.generation <= session'.generation
       /\ timers' \subseteq 0 .. session'.generation
  BY <1>1, <1>2, <1>3
<1>12. /\ request' \in [Request -> Requests]
       /\ \A r \in Request : /\ request'[r].gen = request[r].gen
                             /\ request'[r].answer = request[r].answer
  BY <1>1, <1>2, Severing
<1>. QED
  BY <1>1, <1>2, <1>3, <1>4, <1>9, <1>10, <1>11, <1>12, Settled

\* A new attempt, or a cancellation, takes a granted replacement back.
LEMMA Revoked ==
    ASSUME SessionInvariant, session' = [session EXCEPT !.replacement = FALSE, !.token = @ + 1]
    PROVE  /\ session' \in Sessions /\ session'.generation = session.generation
           /\ session'.token = session.token + 1 /\ session'.unlocked = session.unlocked
           /\ session'.keyAuth = session.keyAuth /\ session'.secrets = session.secrets
           /\ session'.foreground = session.foreground /\ ~session'.replacement
           /\ session.generation <= session'.generation
<1>. DEFINE n == session.token + 1
<1>1. session \in Sessions /\ n \in Nat /\ session.generation <= session.generation
  BY Typed DEF SessionInvariant, Sessions
<1>2. session' = [session EXCEPT !.replacement = FALSE, !.token = n]
  OBVIOUS
<1>. HIDE DEF n
<1>3. /\ session' \in Sessions /\ session'.generation = session.generation
      /\ session'.token = n /\ session'.unlocked = session.unlocked
  BY <1>1, <1>2 DEF Sessions
<1>4. /\ session'.keyAuth = session.keyAuth /\ session'.secrets = session.secrets
      /\ session'.foreground = session.foreground /\ ~session'.replacement
  BY <1>1, <1>2 DEF Sessions
<1>. QED
  BY <1>1, <1>3, <1>4 DEF n

LEMMA ReplacementKeeps ==
    ASSUME SessionInvariant, CancelReplacement \/ \E t \in Task : ReplacementCommand(t)
    PROVE  SessionInvariant'
<1>1. /\ session' = [session EXCEPT !.replacement = FALSE, !.token = @ + 1]
      /\ started' = started + 1 /\ UNCHANGED <<slot, recent, request, timers>>
  BY DEF CancelReplacement, ReplacementCommand
<1>2. /\ session \in Sessions /\ session.generation \in Nat /\ request \in [Request -> Requests]
      /\ task \in [Task -> Tasks] /\ TasksConsistent /\ BackgroundIsLocked /\ started' \in Nat
      /\ timers \subseteq 0 .. session.generation
  BY <1>1, Typed DEF SessionInvariant, TypeOK, Sessions
<1>3. /\ session' \in Sessions /\ session'.generation = session.generation
      /\ session'.token = session.token + 1 /\ session'.unlocked = session.unlocked
      /\ session'.keyAuth = session.keyAuth /\ session'.secrets = session.secrets
      /\ session'.foreground = session.foreground /\ ~session'.replacement
      /\ session.generation <= session'.generation
  BY <1>1, Revoked
<1>4. /\ Superseded(task) \in [Task -> Tasks]
      /\ \A u \in Task : /\ Consistent(Superseded(task)[u], session')
                         /\ Superseded(task)[u].at = task[u].at
                         /\ Superseded(task)[u].req = task[u].req
  BY <1>2, <1>3, Superseding DEF TasksConsistent
<1>5. ASSUME task' \in [Task -> Tasks], \A u \in Task : Consistent(task'[u], session') /\ Same(u),
             \A u \in Task : task[u].at = "lock" => task'[u].at = "lock"
      PROVE  SessionInvariant'
  <2>1. BackgroundIsLocked'
    BY <1>2, <1>3, <1>5 DEF BackgroundIsLocked
  <2>2. timers' \subseteq 0 .. session'.generation
    BY <1>1, <1>2, <1>3
  <2>. QED
    BY <1>1, <1>2, <1>3, <1>5, <2>1, <2>2, Settled
<1>6. CASE CancelReplacement
  <2>1. task' = Superseded(task)
    BY <1>6 DEF CancelReplacement
  <2>2. \A u \in Task : Same(u)
    BY <1>4, <2>1 DEF Same
  <2>. QED
    BY <1>4, <1>5, <2>1, <2>2
<1>7. ASSUME NEW t \in Task, ReplacementCommand(t)
      PROVE  SessionInvariant'
  <2>. DEFINE new == [Idle EXCEPT !.at = "prompt", !.next = "loadForReplacement",
                                  !.gen = session.generation, !.token = session.token + 1]
  <2>1. /\ task[t].at = "idle" /\ task' = [Superseded(task) EXCEPT ![t] = new]
    BY <1>7 DEF ReplacementCommand
  <2>2. session.token \in Nat /\ session.token + 1 \in Nat
    BY <1>2 DEF Sessions
  <2>3. Fresh(new, session.generation, session.token + 1) /\ new.at = "prompt"
    BY <1>2, <2>2, IdleType DEF Fresh, Tasks, Steps, Holding, Asks, Takes
  <2>. HIDE DEF new
  <2>4. /\ new.gen = session.generation /\ new.token = session.token + 1
        /\ new.gen <= session'.generation /\ new.token <= session'.token
    BY <1>2, <1>3, <2>2, <2>3 DEF Fresh
  <2>5. new \in Tasks /\ Consistent(new, session')
    BY <1>3, <2>3, <2>4, NewTask
  <2>6. /\ task' \in [Task -> Tasks]
        /\ \A u \in Task : task'[u] = IF u = t THEN new ELSE Superseded(task)[u]
    BY <1>4, <2>1, <2>5
  <2>7. /\ \A u \in Task : Consistent(task'[u], session') /\ Same(u)
        /\ \A u \in Task : task[u].at = "lock" => task'[u].at = "lock"
    BY <1>4, <2>1, <2>3, <2>5, <2>6 DEF Same, Holding
  <2>. QED
    BY <1>5, <2>6, <2>7
<1>. QED
  BY <1>6, <1>7

\* The app comes back, or something of the session runs out.
LEMMA AgesKeep ==
    ASSUME SessionInvariant, Foreground \/ AgeSession \/ AgeKeyAuth \/ AgeReplacement
    PROVE  SessionInvariant'
<1>1. /\ session \in Sessions /\ request \in [Request -> Requests] /\ task \in [Task -> Tasks]
      /\ TasksConsistent /\ BackgroundIsLocked /\ started \in Nat
      /\ timers \subseteq 0 .. session.generation
  BY Typed DEF SessionInvariant, TypeOK
<1>2. UNCHANGED <<slot, recent, request, task, timers, started>>
  BY DEF Foreground, AgeSession, AgeKeyAuth, AgeReplacement
<1>3. /\ session' \in Sessions /\ session'.generation = session.generation
      /\ session'.token = session.token
      /\ session'.unlocked # "no" => session.unlocked # "no"
  BY <1>1 DEF Foreground, AgeSession, AgeKeyAuth, AgeReplacement, Sessions
<1>4. BackgroundIsLocked'
  <2>1. CASE Foreground
    <3>1. session'.foreground
      BY <1>1, <2>1 DEF Foreground, Sessions
    <3>. QED
      BY <3>1 DEF BackgroundIsLocked
  <2>2. CASE AgeSession
    <3>1. /\ session.unlocked = "fresh" /\ session'.foreground = session.foreground
      BY <1>1, <2>2 DEF AgeSession, Sessions
    <3>. QED
      BY <1>1, <3>1 DEF BackgroundIsLocked
  <2>3. CASE AgeKeyAuth
    <3>1. /\ session.keyAuth /\ session'.foreground = session.foreground
      BY <1>1, <2>3 DEF AgeKeyAuth, Sessions
    <3>. QED
      BY <1>1, <3>1 DEF BackgroundIsLocked
  <2>4. CASE AgeReplacement
    <3>1. /\ session.replacement /\ session'.foreground = session.foreground
      BY <1>1, <2>4 DEF AgeReplacement, Sessions
    <3>. QED
      BY <1>1, <3>1 DEF BackgroundIsLocked
  <2>. QED
    BY <2>1, <2>2, <2>3, <2>4
<1>5. \A u \in Task : Consistent(task'[u], session') /\ Same(u)
  BY <1>1, <1>2, <1>3 DEF TasksConsistent, Consistent, Same
<1>6. session.generation <= session'.generation /\ timers' \subseteq 0 .. session'.generation
  BY <1>1, <1>2, <1>3 DEF Sessions
<1>. QED
  BY <1>1, <1>2, <1>3, <1>4, <1>5, <1>6, Settled

LEMMA AgeRequestKeeps ==
    ASSUME SessionInvariant, NEW q \in Request, AgeRequest(q)
    PROVE  SessionInvariant'
<1>1. /\ session \in Sessions /\ request \in [Request -> Requests] /\ task \in [Task -> Tasks]
      /\ TasksConsistent /\ BackgroundIsLocked /\ started \in Nat
      /\ timers \subseteq 0 .. session.generation
  BY Typed DEF SessionInvariant, TypeOK
<1>2. /\ UNCHANGED <<session, slot, recent, task, timers, started>>
      /\ request' = [request EXCEPT ![q].aged = TRUE]
  BY DEF AgeRequest
<1>3. /\ request' \in [Request -> Requests]
      /\ \A r \in Request : /\ request'[r].gen = request[r].gen
                            /\ request'[r].answer = request[r].answer
                            /\ request'[r].live = request[r].live
  BY <1>1, <1>2 DEF Requests
<1>4. /\ \A u \in Task : Consistent(task'[u], session') /\ Same(u)
      /\ BackgroundIsLocked'
      /\ session.generation <= session'.generation
  BY <1>1, <1>2 DEF TasksConsistent, Same, BackgroundIsLocked, Sessions
<1>. QED
  BY <1>1, <1>2, <1>3, <1>4, Settled

-----------------------------------------------------------------------------
\* The invariant.

LEMMA SessionInitial == Init => SessionInvariant
<1>. SUFFICES ASSUME Init PROVE SessionInvariant
  OBVIOUS
<1>1. /\ session.generation = 0 /\ session.token = 0 /\ session.unlocked = "no"
      /\ ~session.keyAuth /\ ~session.replacement /\ ~session.secrets
      /\ session \in Sessions
  BY DEF Init, Sessions
<1>2. /\ task \in [Task -> Tasks] /\ \A t \in Task : task[t] = Idle
      /\ timers = {} /\ slot = None /\ recent = {} /\ started = 0
  BY IdleType DEF Init
<1>3. /\ request \in [Request -> Requests]
      /\ \A r \in Request : request[r].answer = "none" /\ request[r].gen = 0
  BY DEF Init, Requests
<1>4. TypeOK
  BY <1>1, <1>2, <1>3 DEF TypeOK, Sessions, Requests, Tasks
<1>5. TasksConsistent
  BY <1>1, <1>2, IdleType DEF TasksConsistent
<1>6. LiveIfCurrent /\ Remembered
  BY <1>3 DEF LiveIfCurrent, Remembered
<1>7. HeldOnce
  BY <1>2, <1>3, IdleType DEF HeldOnce, Holding
<1>8. BackgroundIsLocked
  BY <1>1 DEF BackgroundIsLocked
<1>. QED
  BY <1>4, <1>5, <1>6, <1>7, <1>8 DEF SessionInvariant

LEMMA SessionInductive == SessionInvariant /\ [Next]_vars => SessionInvariant'
<1>. SUFFICES ASSUME SessionInvariant, [Next]_vars PROVE SessionInvariant'
  OBVIOUS
<1>1. ASSUME NEW t \in Task, Starts(t)
      PROVE  SessionInvariant'
  <2>1. CASE LockCommand(t) \/ UnlockCommand(t)
    BY <2>1, CommandKeeps
  <2>2. CASE \E q \in Request : RequestArrives(t, q) \/ ApproveCommand(t, q) \/ DenyCommand(t, q)
    BY <2>2, CommandKeeps
  <2>3. CASE Background(t)
    BY <2>3, BackgroundKeeps
  <2>4. CASE ReplacementCommand(t)
    BY <2>4, ReplacementKeeps
  <2>5. CASE SetupCommand(t)
    BY <2>5, SetupKeeps
  <2>. QED
    BY <1>1, <2>1, <2>2, <2>3, <2>4, <2>5 DEF Starts
<1>2. ASSUME NEW t \in Task, Continues(t) \/ PromptPassed(t) \/ PromptFailed(t)
      PROVE  SessionInvariant'
  BY <1>2, TakeAndDenyKeeps, ClearSessionKeeps, SessionTaskKeeps, AwaitKeeps, AdmitKeeps, EmitKeeps,
     TakeVerifiedKeeps, CopyShareKeeps, SendKeeps, SignRefusedKeeps, RestorePendingKeeps,
     TakeAnyKeeps, PutBackKeeps DEF Continues
<1>3. ASSUME NEW t \in Task, NEW g \in timers, SessionTimer(t, g)
      PROVE  SessionInvariant'
  BY <1>3, TimerKeeps
<1>4. ASSUME NEW r \in Request, ExpireRequest(r) \/ AgeRequest(r)
      PROVE  SessionInvariant'
  BY <1>4, ExpireRequestKeeps, AgeRequestKeeps
<1>5. CASE Foreground \/ AgeSession \/ AgeKeyAuth \/ AgeReplacement
  BY <1>5, AgesKeep
<1>6. CASE CancelReplacement
  BY <1>6, ReplacementKeeps
<1>7. CASE UNCHANGED vars
  BY <1>7 DEF vars, SessionInvariant, TypeOK, TasksConsistent, LiveIfCurrent, Remembered, HeldOnce,
              BackgroundIsLocked
<1>. QED
  BY <1>1, <1>2, <1>3, <1>4, <1>5, <1>6, <1>7 DEF Next

\* The invariant the theorems below rest on.
THEOREM SessionInvariantHolds == Spec => []SessionInvariant
<1>. QED
  BY SessionInitial, SessionInductive, PTL DEF Spec

\* The parts of AppState, the slot and the tasks have their types, no request and no
\* timer is ahead of the session.
THEOREM SessionTypeCorrect == Spec => []TypeOK
<1>1. SessionInvariant => TypeOK
  BY DEF SessionInvariant
<1>. QED
  BY <1>1, SessionInvariantHolds, PTL

\* set_foreground(false) is not undone by what was under way.
THEOREM BackgroundStaysLocked == Spec => []BackgroundIsLocked
<1>1. SessionInvariant => BackgroundIsLocked
  BY DEF SessionInvariant
<1>. QED
  BY <1>1, SessionInvariantHolds, PTL

\* A waiting request is in exactly one place, and only waiting requests are.
THEOREM WaitingIsHeldOnce == Spec => []WaitingIsHeld
<1>1. SessionInvariant => WaitingIsHeld
  <2>. SUFFICES ASSUME SessionInvariant, NEW r \in Request
                PROVE  /\ request[r].answer = "waiting" => (slot = r) # (Holders(r) # {})
                       /\ request[r].answer # "waiting" => slot # r /\ Holders(r) = {}
                       /\ Cardinality(Holders(r)) <= 1
    BY DEF WaitingIsHeld
  <2>1. HeldOnce
    BY DEF SessionInvariant
  <2>2. request[r].answer = "waiting" => slot = r \/ Holders(r) # {}
    BY <2>1 DEF HeldOnce, Holders
  <2>3. ~(slot = r /\ Holders(r) # {})
    BY <2>1 DEF HeldOnce, Holders
  <2>4. request[r].answer # "waiting" => slot # r /\ Holders(r) = {}
    BY <2>1 DEF HeldOnce, Holders
  <2>5. Cardinality(Holders(r)) <= 1
    <3>1. CASE Holders(r) = {}
      BY <3>1, FS_EmptySet
    <3>2. CASE Holders(r) # {}
      <4>1. PICK u \in Holders(r) : TRUE
        BY <3>2
      <4>2. Holders(r) = {u}
        BY <2>1, <4>1 DEF HeldOnce, Holders
      <4>3. Cardinality({u}) = 1
        BY FS_Singleton
      <4>. QED
        BY <4>2, <4>3
    <3>. QED
      BY <3>1, <3>2
  <2>. QED
    BY <2>2, <2>3, <2>4, <2>5
<1>. QED
  BY <1>1, SessionInvariantHolds, PTL

-----------------------------------------------------------------------------
\* What single steps may do.

\* Only a request that waits, or was never there, gets an answer.
LEMMA OnlyWaitingEnds ==
    ASSUME SessionInvariant, Next, NEW r \in Request,
           request'[r].answer # request[r].answer
    PROVE  request[r].answer \notin Answers
<1>. SUFFICES ASSUME request[r].answer \in Answers PROVE FALSE
  OBVIOUS
<1>1. /\ request \in [Request -> Requests] /\ slot \in Request \cup {None} /\ slot # r
      /\ \A t \in Task : task[t].at \in Holding => task[t].req # r /\ task[t].req \in Request
      /\ r \in recent
  BY Typed DEF SessionInvariant, TypeOK, HeldOnce, Answers, Remembered
<1>2. request' # request
  OBVIOUS
<1>3. ASSUME NEW q, q # r, NEW answer, request' = Answered(q, answer) PROVE FALSE
  BY <1>1, <1>3 DEF Answered
<1>4. ASSUME NEW reqs, request' = Severed(reqs), reqs[r].answer = request[r].answer,
             reqs \in [Request -> Requests]
      PROVE  FALSE
  BY <1>4, Severing
<1>5. ASSUME NEW t \in Task, TakeAndDeny(t) \/ Emit(t) PROVE FALSE
  BY <1>1, <1>2, <1>3, <1>5 DEF TakeAndDeny, Emit
<1>6. ASSUME NEW t \in Task, Send(t) \/ SendFailed(t) \/ RestorePending(t) PROVE FALSE
  <2>1. task[t].at \in Holding
    BY <1>6 DEF Send, SendFailed, RestorePending, At, Holding
  <2>. QED
    BY <1>1, <1>2, <1>3, <1>6, <2>1 DEF Send, SendFailed, RestorePending
<1>7. ASSUME NEW t \in Task, ClearSession(t) \/ Background(t) PROVE FALSE
  BY <1>1, <1>4, <1>7 DEF ClearSession, Background, EndSession
<1>8. ASSUME NEW t \in Task, CopyShare(t) PROVE FALSE
  <2>1. task[t].at \in Holding
    BY <1>8 DEF CopyShare, At, Holding
  <2>2. CASE EndSession(Done(t), Answered(task[t].req, "closed"))
    <3>1. /\ Answered(task[t].req, "closed") \in [Request -> Requests]
          /\ Answered(task[t].req, "closed")[r].answer = request[r].answer
      BY <1>1, <2>1, Answering DEF Answers
    <3>. QED
      BY <1>4, <2>2, <3>1 DEF EndSession
  <2>. QED
    BY <1>1, <1>2, <1>3, <1>8, <2>1, <2>2 DEF CopyShare
<1>9. ASSUME NEW t \in Task, TakeAny(t) PROVE FALSE
  <2>1. CASE slot \in Request /\ EndSession(Done(t), Answered(slot, "closed"))
    <3>1. /\ Answered(slot, "closed") \in [Request -> Requests]
          /\ Answered(slot, "closed")[r].answer = request[r].answer
      BY <1>1, <2>1, Answering DEF Answers
    <3>. QED
      BY <1>4, <2>1, <3>1 DEF EndSession
  <2>2. task[t].at = "takeAny" => task[t].asked \in Request
    BY DEF SessionInvariant, TasksConsistent, Consistent, Asks, Takes
  <2>. QED
    BY <1>1, <1>2, <1>9, <2>1, <2>2 DEF TakeAny, At
<1>10. ASSUME NEW t \in Task, PutBack(t) PROVE FALSE
  <2>1. task[t].at \in Holding
    BY <1>10 DEF PutBack, At, Holding
  <2>2. request'[r] = request[r]
    BY <1>1, <1>10, <2>1 DEF PutBack
  <2>. QED
    BY <2>2
<1>11. ASSUME NEW t \in Task, Admit(t) PROVE FALSE
  BY <1>1, <1>2, <1>11 DEF Admit, Admissible
<1>12. ASSUME NEW q \in Request, ExpireRequest(q) \/ AgeRequest(q) PROVE FALSE
  BY <1>1, <1>12 DEF ExpireRequest, AgeRequest, Requests
<1>13. ASSUME NEW t \in Task, Starts(t), ~Background(t) PROVE FALSE
  <2>1. ASSUME NEW q \in Request, RequestArrives(t, q) \/ ApproveCommand(t, q) \/ DenyCommand(t, q)
        PROVE  FALSE
    BY <1>2, <2>1 DEF RequestArrives, ApproveCommand, DenyCommand
  <2>2. CASE LockCommand(t) \/ UnlockCommand(t) \/ ReplacementCommand(t) \/ SetupCommand(t)
    BY <1>2, <2>2 DEF LockCommand, UnlockCommand, ReplacementCommand, SetupCommand
  <2>. QED
    BY <1>13, <2>1, <2>2 DEF Starts
<1>14. ASSUME NEW t \in Task,
              \/ CompleteUnlock(t) \/ LoadFailed(t) \/ LoadForReplacement(t)
              \/ VerifyReplacementPins(t) \/ CompleteReplacement(t) \/ SetupLoaded(t)
              \/ VerifyPin(t) \/ EnsureKeyAuth(t) \/ TakeVerified(t) \/ SignRefused(t)
              \/ PromptPassed(t) \/ PromptFailed(t)
       PROVE  FALSE
  BY <1>2, <1>14 DEF CompleteUnlock, LoadFailed, LoadForReplacement, VerifyReplacementPins,
     CompleteReplacement, SetupLoaded, VerifyPin, EnsureKeyAuth, TakeVerified, SignRefused,
     PromptPassed, PromptFailed
<1>15. ASSUME NEW t \in Task, NEW g \in timers, SessionTimer(t, g) PROVE FALSE
  BY <1>2, <1>15 DEF SessionTimer
<1>16. CASE Foreground \/ CancelReplacement \/ AgeSession \/ AgeKeyAuth \/ AgeReplacement
  BY <1>2, <1>16 DEF Foreground, CancelReplacement, AgeSession, AgeKeyAuth, AgeReplacement
<1>. QED
  BY <1>5, <1>6, <1>7, <1>8, <1>9, <1>10, <1>11, <1>12, <1>13, <1>14, <1>15, <1>16
  DEF Next, Continues

\* However a request ended, it stays ended.
THEOREM AnsweredOnceHolds == Spec => AnsweredOnce
<1>. DEFINE Step == \A r \in Request : request[r].answer \in Answers =>
                                           request'[r].answer = request[r].answer
<1>1. SessionInvariant /\ [Next]_vars => [Step]_vars
  BY OnlyWaitingEnds
<1>. QED
  BY <1>1, SessionInvariantHolds, PTL DEF Spec, AnsweredOnce

\* The session gains nothing by a step.
GainsNothing == /\ session'.unlocked = "fresh" => session.unlocked = "fresh"
                /\ session'.keyAuth => session.keyAuth
                /\ session'.replacement => session.replacement

LEMMA OnlyTheseInstall ==
    ASSUME SessionInvariant, Next
    PROVE  \/ GainsNothing
           \/ ~Authorises /\ \E t \in Task : /\ PromptPassed(t) \/ CompleteUnlock(t)
                                             /\ Matches(session, task[t].gen)
           \/ ~Installs /\ \E t \in Task : /\ CompleteReplacement(t)
                                           /\ Matches(session, task[t].gen)
                                           /\ session.token = task[t].token
<1>1. session \in Sessions
  BY Typed DEF SessionInvariant
<1>2. UNCHANGED session => GainsNothing
  BY DEF GainsNothing
<1>3. session' = Cleared(session) => GainsNothing
  BY <1>1, ClearedSession DEF GainsNothing
<1>4. ASSUME session' = [Cleared(session) EXCEPT !.foreground = FALSE] PROVE GainsNothing
  <2>. DEFINE s == Cleared(session)
  <2>1. s \in Sessions /\ s.unlocked = "no" /\ ~s.keyAuth /\ ~s.replacement
    BY <1>1, ClearedSession
  <2>2. session' = [s EXCEPT !.foreground = FALSE]
    BY <1>4
  <2>. HIDE DEF s
  <2>3. session'.unlocked = "no" /\ session'.keyAuth = s.keyAuth
        /\ session'.replacement = s.replacement
    BY <2>1, <2>2 DEF Sessions
  <2>. QED
    BY <2>1, <2>3 DEF GainsNothing
<1>5. ASSUME session' = [session EXCEPT !.replacement = FALSE, !.token = @ + 1] PROVE GainsNothing
  BY <1>5, Revoked DEF GainsNothing
<1>6. ASSUME \/ session' = [session EXCEPT !.replacement = FALSE]
             \/ session' = [session EXCEPT !.keyAuth = FALSE]
             \/ session' = [session EXCEPT !.foreground = TRUE]
             \/ session' = [session EXCEPT !.secrets = TRUE]
             \/ session' = [session EXCEPT !.unlocked = "old"]
      PROVE  GainsNothing
  BY <1>1, <1>6 DEF GainsNothing, Sessions
<1>7. ASSUME NEW b \in BOOLEAN, session' = [session EXCEPT !.keyAuth = @ /\ ~b]
      PROVE  GainsNothing
  BY <1>1, <1>7 DEF GainsNothing, Sessions
<1>8. ASSUME NEW t \in Task, Starts(t) PROVE GainsNothing
  <2>1. ASSUME NEW q \in Request, RequestArrives(t, q) \/ ApproveCommand(t, q) \/ DenyCommand(t, q)
        PROVE  UNCHANGED session
    BY <2>1 DEF RequestArrives, ApproveCommand, DenyCommand
  <2>2. CASE LockCommand(t) \/ UnlockCommand(t)
    BY <1>2, <2>2 DEF LockCommand, UnlockCommand
  <2>3. CASE Background(t) \/ ReplacementCommand(t) \/ SetupCommand(t)
    BY <1>4, <1>5, <1>6, <2>3 DEF Background, ReplacementCommand, SetupCommand
  <2>. QED
    BY <1>2, <1>8, <2>1, <2>2, <2>3 DEF Starts
<1>9. ASSUME NEW t \in Task, PromptPassed(t) \/ CompleteUnlock(t)
      PROVE  \/ GainsNothing
             \/ ~Authorises /\ Matches(session, task[t].gen)
  <2>1. CASE UNCHANGED session
    BY <1>2, <2>1
  <2>2. CASE session' = Marked(session) /\ Matches(session, task[t].gen)
    BY <1>1, <2>2 DEF Marked, Authorises, Sessions
  <2>3. CASE session' = Unlocked(session) /\ Matches(session, task[t].gen)
    BY <1>1, <2>3 DEF Unlocked, Authorises, Sessions
  <2>. QED
    BY <1>9, <2>1, <2>2, <2>3 DEF PromptPassed, CompleteUnlock
<1>10. ASSUME NEW t \in Task, CompleteReplacement(t)
       PROVE  \/ GainsNothing
              \/ /\ ~Installs /\ Matches(session, task[t].gen)
                 /\ session.token = task[t].token
  <2>1. CASE UNCHANGED session
    BY <1>2, <2>1
  <2>2. CASE /\ session' = [session EXCEPT !.replacement = TRUE]
             /\ Matches(session, task[t].gen) /\ session.token = task[t].token
    BY <1>1, <2>2 DEF Installs, Sessions
  <2>. QED
    BY <1>10, <2>1, <2>2 DEF CompleteReplacement
<1>11. ASSUME NEW t \in Task,
              \/ LoadFailed(t) \/ SetupLoaded(t) \/ SignRefused(t)
              \/ ClearSession(t) \/ CopyShare(t) \/ TakeAny(t)
       PROVE  GainsNothing
  BY <1>2, <1>3, <1>6, <1>7, <1>11 DEF LoadFailed, SetupLoaded, SignRefused, ClearSession, CopyShare,
     TakeAny, EndSession
<1>12. ASSUME NEW t \in Task,
              \/ TakeAndDeny(t) \/ LoadForReplacement(t) \/ VerifyReplacementPins(t) \/ Admit(t)
              \/ Emit(t) \/ VerifyPin(t) \/ EnsureKeyAuth(t) \/ TakeVerified(t) \/ Send(t)
              \/ SendFailed(t) \/ RestorePending(t) \/ PutBack(t) \/ PromptFailed(t)
       PROVE  UNCHANGED session
  BY <1>12 DEF TakeAndDeny, LoadForReplacement, VerifyReplacementPins, Admit, Emit, VerifyPin,
     EnsureKeyAuth, TakeVerified, Send, SendFailed, RestorePending, PutBack, PromptFailed
<1>13. ASSUME NEW t \in Task, NEW g \in timers, SessionTimer(t, g) PROVE UNCHANGED session
  BY <1>13 DEF SessionTimer
<1>14. ASSUME NEW q \in Request, ExpireRequest(q) \/ AgeRequest(q) PROVE UNCHANGED session
  BY <1>14 DEF ExpireRequest, AgeRequest
<1>15. ASSUME Foreground \/ CancelReplacement \/ AgeSession \/ AgeKeyAuth \/ AgeReplacement
       PROVE  GainsNothing
  BY <1>5, <1>6, <1>15 DEF Foreground, CancelReplacement, AgeSession, AgeKeyAuth, AgeReplacement
<1>. QED
  BY <1>2, <1>8, <1>9, <1>10, <1>11, <1>12, <1>13, <1>14, <1>15 DEF Next, Continues

\* Nothing is installed by a task that a lock or a newer authorisation has overtaken.
THEOREM NoRevivalHolds == Spec => NoRevival
<1>. DEFINE Step == /\ Installs \/ Authorises => \E t \in Task : task'[t] # task[t] /\ ~task[t].stale
                    /\ Authorises => \E t \in Task : task'[t] # task[t] /\ ~task[t].superseded
<1>1. ASSUME SessionInvariant, Next PROVE Step
  <2>1. session \in Sessions /\ task \in [Task -> Tasks] /\ TasksConsistent
    BY <1>1, Typed DEF SessionInvariant
  <2>2. CASE GainsNothing
    BY <2>1, <2>2 DEF GainsNothing, Installs, Authorises, Sessions
  <2>3. ASSUME NEW t \in Task, Matches(session, task[t].gen) PROVE ~task[t].stale
    <3>1. task[t].gen = session.generation /\ session.generation \in Nat
      BY <2>1, <2>3 DEF Matches, Sessions
    <3>2. task[t].stale => task[t].gen < session.generation
      BY <2>1 DEF TasksConsistent, Consistent
    <3>. QED
      BY <3>1, <3>2
  <2>4. ASSUME NEW t \in Task, session.token = task[t].token PROVE ~task[t].superseded
    <3>1. session.token \in Nat
      BY <2>1 DEF Sessions
    <3>2. task[t].superseded => task[t].token < session.token
      BY <2>1 DEF TasksConsistent, Consistent
    <3>. QED
      BY <2>4, <3>1, <3>2
  <2>5. ASSUME NEW t \in Task, PromptPassed(t) \/ CompleteUnlock(t) \/ CompleteReplacement(t)
        PROVE  task'[t] # task[t]
    <3>1. task[t].next \in Steps /\ task[t].next # "prompt"
      BY <1>1, NextType
    <3>2. PICK step \in {"idle", task[t].next} : Goes(t, step) /\ step # task[t].at
      BY <2>5, <3>1 DEF PromptPassed, CompleteUnlock, CompleteReplacement, At
    <3>3. task'[t].at = step
      BY <2>1, <3>2, IdleType DEF Goes, Done, To, Tasks
    <3>. QED
      BY <3>2, <3>3
  <2>6. CASE ~Authorises /\ \E t \in Task : /\ PromptPassed(t) \/ CompleteUnlock(t)
                                            /\ Matches(session, task[t].gen)
    BY <2>3, <2>5, <2>6
  <2>7. CASE \E t \in Task : /\ CompleteReplacement(t) /\ Matches(session, task[t].gen)
                             /\ session.token = task[t].token
    BY <2>3, <2>4, <2>5, <2>7
  <2>. QED
    BY <1>1, <2>2, <2>6, <2>7, OnlyTheseInstall
<1>2. SessionInvariant /\ [Next]_vars => [Step]_vars
  BY <1>1
<1>. QED
  BY <1>2, SessionInvariantHolds, PTL DEF Spec, NoRevival

\* Only take_verified_pending takes a request to approve it.
LEMMA OnlyTakeVerified ==
    ASSUME SessionInvariant, Next, NEW t \in Task,
           task[t].at = "takeToApprove", task'[t].at = "share"
    PROVE  TakeVerified(t)
<1>1. /\ task \in [Task -> Tasks] /\ session \in Sessions /\ TasksConsistent
      /\ request \in [Request -> Requests]
  BY Typed DEF SessionInvariant
<1>2. SUFFICES ASSUME ~TakeVerified(t) PROVE FALSE
  OBVIOUS
<1>3. task' # task
  OBVIOUS
<1>4. ASSUME NEW u \in Task, u # t, NEW r, task' = [task EXCEPT ![u] = r] PROVE FALSE
  BY <1>1, <1>4
<1>5. ASSUME NEW u \in Task, u # t, NEW step, Goes(u, step) PROVE FALSE
  BY <1>1, <1>5 DEF Goes, Done, To
<1>6. ASSUME NEW tasks \in [Task -> Tasks], tasks[t].at # "share",
             task' = Overtaken(tasks) \/ task' = Superseded(tasks)
      PROVE  FALSE
  <2>1. Overtaken(tasks)[t].at = tasks[t].at /\ Superseded(tasks)[t].at = tasks[t].at
    BY <1>6 DEF Overtaken, Superseded, Tasks
  <2>. QED
    BY <1>6, <2>1
<1>7. ASSUME NEW u \in Task PROVE Done(u) \in [Task -> Tasks] /\ Done(u)[t].at # "share"
  BY <1>1, <1>7, Finishing, IdleType
<1>8. ASSUME NEW u \in Task, Starts(u) PROVE FALSE
  <2>1. ASSUME NEW r, Begins(u, r) PROVE FALSE
    <3>1. u # t
      BY <2>1 DEF Begins
    <3>. QED
      BY <1>4, <2>1, <3>1 DEF Begins
  <2>2. CASE Background(u)
    <3>1. task[u].at = "idle" /\ u # t
      BY <2>2 DEF Background
    <3>2. task'[t] = Overtaken(task)[t]
      BY <2>2, <3>1 DEF Background, Overtaken
    <3>3. Overtaken(task)[t].at = task[t].at
      BY <1>1 DEF Overtaken, Tasks
    <3>. QED
      BY <3>2, <3>3
  <2>3. CASE ReplacementCommand(u)
    <3>1. task[u].at = "idle" /\ u # t
      BY <2>3 DEF ReplacementCommand
    <3>2. task'[t] = Superseded(task)[t]
      BY <2>3, <3>1 DEF ReplacementCommand, Superseded
    <3>3. Superseded(task)[t].at = task[t].at
      BY <1>1 DEF Superseded, Tasks
    <3>. QED
      BY <3>2, <3>3
  <2>4. CASE LockCommand(u) \/ UnlockCommand(u) \/ SetupCommand(u)
    BY <2>1, <2>4 DEF LockCommand, UnlockCommand, SetupCommand
  <2>5. ASSUME NEW q \in Request, RequestArrives(u, q) \/ ApproveCommand(u, q) \/ DenyCommand(u, q)
        PROVE  FALSE
    BY <2>1, <2>5 DEF RequestArrives, ApproveCommand, DenyCommand
  <2>. QED
    BY <1>8, <2>2, <2>3, <2>4, <2>5 DEF Starts
<1>9. ASSUME NEW u \in Task, ClearSession(u) \/ CopyShare(u) \/ TakeAny(u) PROVE FALSE
  <2>1. CASE task' = Overtaken(Done(u))
    BY <1>6, <1>7, <2>1
  <2>2. u # t
    BY <1>9 DEF ClearSession, CopyShare, TakeAny, At
  <2>. QED
    BY <1>4, <1>5, <1>9, <2>1, <2>2 DEF ClearSession, CopyShare, TakeAny, EndSession
<1>10. ASSUME NEW u \in Task,
              \/ TakeAndDeny(u) \/ CompleteUnlock(u) \/ LoadFailed(u) \/ LoadForReplacement(u)
              \/ VerifyReplacementPins(u) \/ CompleteReplacement(u) \/ SetupLoaded(u) \/ Admit(u)
              \/ Emit(u) \/ Send(u) \/ SendFailed(u) \/ SignRefused(u) \/ RestorePending(u)
              \/ PutBack(u) \/ PromptPassed(u) \/ PromptFailed(u)
       PROVE  FALSE
  <2>1. u # t
    BY <1>10 DEF TakeAndDeny, CompleteUnlock, LoadFailed, LoadForReplacement, VerifyReplacementPins,
       CompleteReplacement, SetupLoaded, Admit, Emit, Send, SendFailed, SignRefused, RestorePending,
       PutBack, PromptPassed, PromptFailed, At
  <2>2. \E step : Goes(u, step)
    BY <1>10 DEF TakeAndDeny, CompleteUnlock, LoadFailed, LoadForReplacement, VerifyReplacementPins,
       CompleteReplacement, SetupLoaded, Admit, Emit, Send, SendFailed, SignRefused, RestorePending,
       PutBack, PromptPassed, PromptFailed
  <2>. QED
    BY <1>5, <2>1, <2>2
<1>11. ASSUME NEW u \in Task, VerifyPin(u) \/ EnsureKeyAuth(u) \/ TakeVerified(u) PROVE FALSE
  <2>1. u # t
    BY <1>2, <1>11 DEF VerifyPin, EnsureKeyAuth, At
  <2>2. task'[t] = task[t]
    BY <1>1, <1>11, <2>1 DEF VerifyPin, EnsureKeyAuth, TakeVerified, Goes, Done, To
  <2>. QED
    BY <2>2
<1>12. ASSUME NEW u \in Task, NEW g \in timers, SessionTimer(u, g) PROVE FALSE
  <2>1. u # t
    BY <1>12 DEF SessionTimer
  <2>. QED
    BY <1>3, <1>4, <1>12, <2>1 DEF SessionTimer, To
<1>13. CASE CancelReplacement
  BY <1>1, <1>6, <1>13 DEF CancelReplacement
<1>14. CASE Foreground \/ AgeSession \/ AgeKeyAuth \/ AgeReplacement
            \/ \E r \in Request : ExpireRequest(r) \/ AgeRequest(r)
  BY <1>3, <1>14 DEF Foreground, AgeSession, AgeKeyAuth, AgeReplacement, ExpireRequest, AgeRequest
<1>. QED
  BY <1>8, <1>9, <1>10, <1>11, <1>12, <1>13, <1>14 DEF Next, Continues

\* What approve_request signs is what the user entered the PIN for, in the session
\* that admitted it.
THEOREM ApprovalIsCurrentHolds == Spec => ApprovalIsCurrent
<1>. DEFINE Step == \A t \in Task : task[t].at = "takeToApprove" /\ task'[t].at = "share" =>
                        task'[t].req = task[t].asked /\ request[task[t].asked].live
<1>1. ASSUME SessionInvariant, Next, NEW t \in Task,
             task[t].at = "takeToApprove", task'[t].at = "share"
      PROVE  task'[t].req = task[t].asked /\ request[task[t].asked].live
  <2>1. TakeVerified(t)
    BY <1>1, OnlyTakeVerified
  <2>2. task[t].asked \in Request /\ task \in [Task -> Tasks]
    BY <1>1, Typed DEF SessionInvariant, TasksConsistent, Consistent, Asks, Takes
  <2>3. Verified(task[t].asked) /\ task' = [task EXCEPT ![t].req = slot,
                   ![t].at = IF @ = "takeToApprove" THEN "share" ELSE "sendRetryDenial"]
    <3>1. CASE Goes(t, "idle")
      BY <1>1, <2>2, <3>1, IdleType DEF Goes, Done
    <3>. QED
      BY <2>1, <3>1 DEF TakeVerified
  <2>4. task'[t].req = slot
    BY <2>2, <2>3 DEF Tasks
  <2>5. /\ slot = task[t].asked /\ session.unlocked = "fresh"
        /\ request[task[t].asked].gen = session.generation
    BY <2>3 DEF Verified, Matches
  <2>6. request[task[t].asked].answer = "waiting"
    BY <1>1, <2>2, <2>5 DEF SessionInvariant, HeldOnce
  <2>. QED
    BY <1>1, <2>2, <2>4, <2>5, <2>6 DEF SessionInvariant, LiveIfCurrent
<1>2. SessionInvariant /\ [Next]_vars => [Step]_vars
  BY <1>1
<1>. QED
  BY <1>2, SessionInvariantHolds, PTL DEF Spec, ApprovalIsCurrent

=============================================================================
