---------------------------- MODULE PinCooldown ----------------------------
(***************************************************************************)
(* verify_pin_with_cooldown (app/src-tauri/src/commands.rs) and the entry   *)
(* it keeps in the keystore (storage.rs), for one kind of PIN; the other    *)
(* kind has an entry and a gate of its own and the same code.               *)
(*                                                                         *)
(* The phone's clock counts from boot.  A reboot starts it again under a    *)
(* new boot count; a crash only loses what is in memory.  `owed' and        *)
(* `promise' run in true time and are what the properties measure by.       *)
(***************************************************************************)
EXTENDS Naturals

CONSTANTS
    Task,           \* verifications that can overlap
    None,           \* an Option that is None
    Failures,       \* PIN_FAILURES_BEFORE_COOLDOWN
    Base,           \* PIN_COOLDOWN_BASE
    Longest,        \* PIN_COOLDOWN_MAX
    ShiftBits,      \* bits of the multiplier, 32
    MaxLevel,       \* largest cooldown_level, 255
    MaxElapsed,     \* bound: clock value within one boot
    MaxBoot         \* bound: number of reboots

ASSUME PinCooldownAssumption ==
    /\ None \notin Nat /\ None \notin Task
    /\ {Failures, Base, Longest, ShiftBits, MaxLevel, MaxElapsed, MaxBoot} \subseteq Nat
    /\ Failures > 0 /\ ShiftBits > 0 /\ MaxLevel > 0

\* True of any ShiftBits; stated for the provers, which know nothing of powers.
ASSUME PowersAreNumbers == \A n \in 0 .. ShiftBits : 2 ^ n \in Nat \ {0}
ASSUME PowersDouble == 2 ^ 0 = 1 /\ \A n \in 0 .. ShiftBits - 1 : 2 ^ (n + 1) = 2 * 2 ^ n

\* The multiplier saturates beyond the longest cooldown: 30 s times 2^32 - 1 is over 30 min.
ASSUME SaturatesLate == Longest <= Base * (2 ^ ShiftBits - 1)

VARIABLES
    entry,      \* PinAttemptState; an absent entry reads as Default
    elapsed,    \* elapsed_realtime
    boot,       \* boot_count
    gate,       \* holder of the pin_attempt_gate
    task,       \* verifications under way
    report,     \* the outcome returned in the last step, if it returned one
    owed,       \* history: true time until the recorded cooldown is over
    promise,    \* history: true time until the app said it would take a PIN again
    rounds,     \* history: cooldowns recorded since the last right PIN or activation
    wrong       \* history: wrong PINs told so since then, as far as the entry can count

vars == <<entry, elapsed, boot, gate, task, report, owed, promise, rounds, wrong>>
history == <<owed, promise, rounds, wrong>>
clock == <<elapsed, boot>>

Lesser(a, b) == IF a < b THEN a ELSE b
Minus(a, b)  == IF a > b THEN a - b ELSE 0       \* saturating_sub

Default == [failed |-> 0, level |-> 0, legacy |-> FALSE,
            started |-> None, boot |-> None, duration |-> None]
Optional == Nat \cup {None}

\* `legacy': cooldown_until_ms is set.
Entry == [failed : 0 .. Failures - 1, level : 0 .. MaxLevel, legacy : BOOLEAN,
          started : Optional, boot : Optional, duration : Optional]

Resting == [at |-> "idle", seen |-> 0, due |-> FALSE]
Silent  == [outcome |-> "none", retry |-> 0]
Outcomes == {"none", "verified", "incorrect", "started", "cooling"}

TypeOK ==
    /\ entry \in Entry
    /\ elapsed \in Nat /\ boot \in Nat
    /\ gate \in Task \cup {None}
    /\ task \in [Task -> [at : {"idle", "waiting", "check", "hash", "clear", "record"},
                          seen : Nat, due : BOOLEAN]]
    /\ report \in [outcome : Outcomes, retry : Nat]
    /\ owed \in Nat /\ promise \in Optional
    /\ rounds \in 0 .. MaxLevel /\ wrong \in 0 .. Failures * MaxLevel

-----------------------------------------------------------------------------
\* The arithmetic of the entry.

\* `1u32.checked_shl(level - 1).unwrap_or(u32::MAX)', times the base, at most Longest.
FaultCooldownDuration(level) ==
    IF level = 0 THEN 0
    ELSE Lesser(Base * (2 ^ (level - 1) % 2 ^ ShiftBits), Longest)
CooldownDuration(level) ==
    LET multiplier == IF level - 1 < ShiftBits THEN 2 ^ (level - 1) ELSE 2 ^ ShiftBits - 1
    IN  IF level = 0 THEN 0 ELSE Lesser(Base * multiplier, Longest)

Stopped(s) == [s EXCEPT !.legacy = FALSE, !.started = None, !.boot = None, !.duration = None]

\* active_cooldown_remaining_ms at clock value `now': the entry it leaves, and what
\* remains (0 for None).  An old-style cooldown, and one from before a reboot, runs
\* its whole duration again.
FaultActiveCooldown(s, now) ==
    LET left == IF s.started = None \/ s.boot # boot THEN 0
                ELSE Minus(s.started + s.duration, now)
    IN  IF left = 0 THEN [entry |-> Stopped(s), left |-> 0] ELSE [entry |-> s, left |-> left]
FaultRestarting(s, now) ==
    LET duration == IF s.duration # None THEN s.duration ELSE CooldownDuration(s.level)
    IN  IF s.duration = None /\ ~s.legacy THEN [entry |-> s, left |-> 0]
        ELSE [entry |-> [s EXCEPT !.legacy = FALSE, !.started = now, !.boot = boot,
                                  !.duration = duration],
              left |-> duration]
ActiveCooldown(s, now) ==
    LET duration == IF s.duration # None THEN s.duration ELSE CooldownDuration(s.level)
        left     == Minus(s.started + duration, now)
    IN  IF s.duration = None /\ ~s.legacy THEN [entry |-> s, left |-> 0]
        ELSE IF s.boot # boot \/ s.started = None
        THEN [entry |-> [s EXCEPT !.legacy = FALSE, !.started = now, !.boot = boot,
                                  !.duration = duration],
              left |-> duration]
        ELSE IF left = 0 THEN [entry |-> Stopped(s), left |-> 0]
        ELSE [entry |-> s, left |-> left]

\* record_pin_failure_state: one more failure, or at the limit the next cooldown.
LimitReached(s) == s.failed + 1 >= Failures
FaultAfterFailure(s, now) ==
    IF ~LimitReached(s) THEN [s EXCEPT !.failed = @ + 1]
    ELSE [s EXCEPT !.failed = 0, !.level = @ + 1, !.legacy = FALSE, !.started = now,
                   !.boot = boot, !.duration = CooldownDuration(s.level + 1)]
AfterFailure(s, now) ==
    LET level == Lesser(s.level + 1, MaxLevel)
    IN  IF ~LimitReached(s) THEN [s EXCEPT !.failed = @ + 1]
        ELSE [failed |-> 0, level |-> level, legacy |-> FALSE, started |-> now,
              boot |-> boot, duration |-> CooldownDuration(level)]

-----------------------------------------------------------------------------
Init ==
    /\ entry \in {Default} \cup {[Default EXCEPT !.level = l, !.legacy = TRUE] : l \in 1 .. MaxLevel}
    /\ elapsed = 0 /\ boot = 0
    /\ gate = None
    /\ task = [t \in Task |-> Resting]
    /\ report = Silent
    /\ owed = CooldownDuration(entry.level) /\ promise = None
    /\ rounds = entry.level /\ wrong = 0

\* update_pin_attempt_state: load, change, save.  The save may fail before or after
\* its effect; only a save that succeeds lets the command go on.
Update(new, done, ok) ==
    /\ entry' = IF done THEN new ELSE entry
    /\ ok => done

Leaves(t) == gate' = None /\ task' = [task EXCEPT ![t] = Resting]
Reports(outcome, retry) == report' = [outcome |-> outcome, retry |-> retry]

Begin(t) ==
    /\ task[t].at = "idle"
    /\ task' = [task EXCEPT ![t].at = "waiting"]
    /\ report' = Silent
    /\ UNCHANGED <<entry, clock, gate, history>>

\* The gate is ours; the clock is read before storage is locked.
Acquire(t) ==
    /\ task[t].at = "waiting" /\ gate = None
    /\ gate' = t
    /\ task' = [task EXCEPT ![t] = [at |-> "check", seen |-> elapsed, due |-> promise = 0]]
    /\ report' = Silent
    /\ UNCHANGED <<entry, clock, history>>

\* A cooldown that is over is erased, one that runs is reported.
CheckCooldown(t) ==
    LET active == ActiveCooldown(entry, task[t].seen) IN
    /\ task[t].at = "check"
    /\ \E done, ok \in BOOLEAN :
         /\ Update(active.entry, done, ok)
         /\ IF ok /\ active.left = 0
            THEN /\ task' = [task EXCEPT ![t].at = "hash"]
                 /\ report' = Silent /\ UNCHANGED <<gate, promise>>
            ELSE /\ Leaves(t)
                 /\ IF ok THEN /\ Reports("cooling", active.left)
                               /\ promise' = IF promise = None THEN active.left
                                             ELSE Lesser(promise, active.left)
                          ELSE report' = Silent /\ UNCHANGED promise
    /\ UNCHANGED <<clock, owed, rounds, wrong>>

\* Argon2 decides; after a wrong PIN the clock is read again.
HashPin(t) ==
    /\ task[t].at = "hash"
    /\ \/ /\ task' = [task EXCEPT ![t].at = "clear"]
          /\ wrong' = 0 /\ rounds' = 0
       \/ /\ task' = [task EXCEPT ![t].at = "record", ![t].seen = elapsed]
          /\ UNCHANGED <<wrong, rounds>>
    /\ report' = Silent
    /\ UNCHANGED <<entry, clock, gate, owed, promise>>

ClearAttempts(t) ==
    /\ task[t].at = "clear"
    /\ \E done, ok \in BOOLEAN :
         /\ Update(Default, done, ok)
         /\ report' = IF ok THEN [outcome |-> "verified", retry |-> 0] ELSE Silent
    /\ Leaves(t)
    /\ UNCHANGED <<clock, history>>

FaultRecordFailure(t) ==
    /\ task[t].at = "record"
    /\ \E done \in BOOLEAN : Update(AfterFailure(entry, task[t].seen), done, done)
    /\ Reports("incorrect", 0)
    /\ wrong' = Lesser(wrong + 1, Failures * MaxLevel)
    /\ Leaves(t)
    /\ UNCHANGED <<clock, owed, promise, rounds>>
RecordFailure(t) ==
    LET new      == AfterFailure(entry, task[t].seen)
        duration == CooldownDuration(new.level)
    IN
    /\ task[t].at = "record"
    /\ \E done, ok \in BOOLEAN :
         /\ Update(new, done, ok)
         /\ IF done /\ LimitReached(entry)
            THEN /\ owed' = Minus(task[t].seen + duration, elapsed)
                 /\ rounds' = Lesser(rounds + 1, MaxLevel)
                 /\ promise' = IF ok THEN duration ELSE None
            ELSE UNCHANGED <<owed, rounds, promise>>
         /\ wrong' = IF ok THEN Lesser(wrong + 1, Failures * MaxLevel) ELSE wrong
         /\ IF ~ok THEN report' = Silent
            ELSE IF LimitReached(entry) THEN Reports("started", duration)
            ELSE Reports("incorrect", 0)
    /\ Leaves(t)
    /\ UNCHANGED clock

\* Reading the clock or the entry, or the Argon2 job, fails: an error, no verdict.
GivesUp(t) ==
    /\ gate = t
    /\ Leaves(t)
    /\ report' = Silent
    /\ UNCHANGED <<entry, clock, history>>

-----------------------------------------------------------------------------
\* activate_generation deletes the entry of the pairing it replaces, best effort
\* and after the pointer has moved: a failure or a crash leaves it.
ActivatePairing ==
    /\ entry' \in {entry, Default}
    /\ owed' = 0 /\ rounds' = 0 /\ wrong' = 0
    /\ report' = Silent
    /\ UNCHANGED <<clock, gate, task, promise>>

MemoryLost == /\ gate' = None
              /\ task' = [t \in Task |-> Resting]
              /\ report' = Silent

Crash == MemoryLost /\ UNCHANGED <<entry, clock, history>>

Reboot ==
    /\ boot < MaxBoot
    /\ MemoryLost
    /\ boot' = boot + 1 /\ elapsed' = 0
    /\ promise' = None
    /\ UNCHANGED <<entry, owed, rounds, wrong>>

Tick ==
    /\ elapsed < MaxElapsed
    /\ elapsed' = elapsed + 1
    /\ owed' = Minus(owed, 1)
    /\ promise' = IF promise = None THEN None ELSE Minus(promise, 1)
    /\ report' = Silent
    /\ UNCHANGED <<entry, boot, gate, task, rounds, wrong>>

Next ==
    \/ \E t \in Task : \/ Begin(t) \/ Acquire(t) \/ CheckCooldown(t) \/ HashPin(t)
                       \/ ClearAttempts(t) \/ RecordFailure(t) \/ GivesUp(t)
    \/ ActivatePairing \/ Crash \/ Reboot \/ Tick

Spec == Init /\ [][Next]_vars

-----------------------------------------------------------------------------
\* What must hold.

\* A guess is judged, right or wrong, only when every cooldown recorded for this
\* pairing has run out in true time: overlapping verifications, an app killed while
\* it verifies and a reboot cannot shorten one.
NoVerdictWhileCooling ==
    report.outcome \in {"verified", "incorrect"} => owed = 0

\* Every wrong PIN that was told wrong is in the entry, so the entry bounds the
\* guesses made so far, whatever failed or died in between.
GuessesAreCounted == wrong <= Failures * entry.level + entry.failed

\* The n-th cooldown in a row lasts twice as long as the one before it, up to the
\* longest; the level's saturation and the multiplier's never make one shorter.
Expected[n \in 0 .. MaxLevel] == IF n = 0 THEN 0
                                 ELSE IF n = 1 THEN Lesser(Base, Longest)
                                 ELSE Lesser(2 * Expected[n - 1], Longest)
CooldownsEscalate ==
    report.outcome = "started" => report.retry >= Expected[rounds]

\* What the app says about the time to wait is true: after that time, on a phone
\* that stayed on, a PIN is not refused for the same cooldown again.
RetryAfterIsHonest ==
    [][\A t \in Task : task[t].at = "check" /\ task[t].due => report'.outcome # "cooling"]_vars

=============================================================================
