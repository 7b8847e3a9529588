------------------------- MODULE PinCooldownProofs -------------------------
(***************************************************************************)
(* No PIN is judged while a cooldown runs, and no wrong one goes uncounted: *)
(* for any number of overlapping verifications, crashes and reboots, and    *)
(* any length of the cooldowns.  Cooldowns in a row double up to the        *)
(* longest, at any level: by induction over the level, which is a theorem   *)
(* about sets of numbers here, and over the steps.                          *)
(***************************************************************************)
EXTENDS PinCooldown, WellFoundedInduction, TLAPS

USE PinCooldownAssumption DEF PinCooldownAssumption

Tasks == [at : {"idle", "waiting", "check", "hash", "clear", "record"}, seen : Nat, due : BOOLEAN]

\* What remains of the cooldown in an entry, at a clock value of one boot.
Cooling(s)      == s.duration # None \/ s.legacy
Unstarted(s, b) == s.boot # b \/ s.started = None
Duration(s)     == IF s.duration # None THEN s.duration ELSE CooldownDuration(s.level)
Left(s, b, now) == IF ~Cooling(s) THEN 0
                   ELSE IF Unstarted(s, b) THEN Duration(s)
                   ELSE Minus(s.started + Duration(s), now)

\* The entry is of a time that has been.
EntryPast == /\ entry.boot # None => entry.boot <= boot
             /\ entry.boot = boot /\ entry.started # None => entry.started <= elapsed

\* What is owed in true time is what the entry says, or less.
Owes == owed <= Left(entry, boot, elapsed)

\* What was promised is that, or more; and the clock runs.
Promised == promise # None => /\ ~(Cooling(entry) /\ Unstarted(entry, boot))
                              /\ Left(entry, boot, elapsed) <= promise

\* A task that has passed the check owes nothing; one before it has a clock value
\* that will do for the time that is owed, and for a promise that was due.
Sound(r) ==
    /\ r.seen <= elapsed
    /\ r.at \in {"hash", "clear", "record"} => owed = 0
    /\ r.at = "clear" => wrong = 0
    /\ r.at = "check" =>
          /\ Cooling(entry) /\ Unstarted(entry, boot) => owed <= Minus(r.seen + Duration(entry), elapsed)
          /\ r.due => Left(entry, boot, r.seen) = 0
TasksSound == \A t \in Task : Sound(task[t])

\* Only the holder of the gate is beyond it.
Gated == \A t \in Task : task[t].at \in {"check", "hash", "clear", "record"} => gate = t

CooldownInvariant ==
    /\ TypeOK /\ EntryPast /\ Owes /\ Promised /\ TasksSound /\ Gated
    /\ GuessesAreCounted /\ NoVerdictWhileCooling

-----------------------------------------------------------------------------
\* The arithmetic of the entry.

LEMMA DurationType == \A level \in 0 .. MaxLevel : CooldownDuration(level) \in Nat
<1>. SUFFICES ASSUME NEW level \in 0 .. MaxLevel PROVE CooldownDuration(level) \in Nat
  OBVIOUS
<1>. DEFINE multiplier == IF level - 1 < ShiftBits THEN 2 ^ (level - 1) ELSE 2 ^ ShiftBits - 1
<1>1. CASE level = 0
  BY <1>1 DEF CooldownDuration
<1>2. CASE level # 0
  <2>1. level - 1 \in Nat /\ ShiftBits \in 0 .. ShiftBits /\ 2 ^ ShiftBits \in Nat \ {0}
    BY <1>2, PowersAreNumbers
  <2>2. level - 1 < ShiftBits => 2 ^ (level - 1) \in Nat
    BY <2>1, PowersAreNumbers
  <2>3. multiplier \in Nat
    BY <2>1, <2>2
  <2>4. CooldownDuration(level) = Lesser(Base * multiplier, Longest)
    BY <1>2 DEF CooldownDuration
  <2>. HIDE DEF multiplier
  <2>5. Base * multiplier \in Nat /\ Longest \in Nat
    BY <2>3
  <2>. QED
    BY <2>4, <2>5 DEF Lesser
<1>. QED
  BY <1>1, <1>2

LEMMA EntryTypes ==
    ASSUME NEW s \in Entry
    PROVE  /\ s.failed \in Nat /\ s.failed < Failures /\ s.level \in Nat /\ s.level <= MaxLevel
           /\ s.legacy \in BOOLEAN /\ s.started \in Optional /\ s.boot \in Optional
           /\ s.duration \in Optional /\ Duration(s) \in Nat
           /\ \A b, now \in Nat : Left(s, b, now) \in Nat
<1>1. /\ s.failed \in Nat /\ s.failed < Failures /\ s.level \in Nat /\ s.level <= MaxLevel
      /\ s.legacy \in BOOLEAN /\ s.started \in Optional /\ s.boot \in Optional
      /\ s.duration \in Optional
  BY DEF Entry
<1>2. Duration(s) \in Nat
  BY <1>1, DurationType DEF Duration, Optional
<1>3. \A b, now \in Nat : Left(s, b, now) \in Nat
  BY <1>1, <1>2 DEF Left, Minus, Unstarted, Optional
<1>. QED
  BY <1>1, <1>2, <1>3

LEMMA Absent == /\ Default \in Entry /\ ~Cooling(Default) /\ Default.failed = 0 /\ Default.level = 0
                /\ Default.boot = None /\ Default.started = None /\ Default.duration = None
BY DEF Default, Entry, Optional, Cooling

\* What a check makes of the entry.
LEMMA CheckedEntry ==
    ASSUME NEW s \in Entry, NEW now \in Nat, boot \in Nat
    PROVE  LET e == ActiveCooldown(s, now).entry IN
           /\ ActiveCooldown(s, now).left = Left(s, boot, now)
           /\ e \in Entry /\ e.failed = s.failed /\ e.level = s.level
           /\ \/ e = s /\ (Left(s, boot, now) # 0 => ~Unstarted(s, boot))
              \/ /\ Cooling(s) /\ Unstarted(s, boot) /\ Cooling(e)
                 /\ e.started = now /\ e.boot = boot /\ Duration(e) = Duration(s)
              \/ Left(s, boot, now) = 0 /\ ~Cooling(e) /\ e.started = None /\ e.boot = None
<1>1. Duration(s) \in Nat
  BY EntryTypes
<1>2. CASE ~Cooling(s)
  <2>1. ActiveCooldown(s, now) = [entry |-> s, left |-> 0]
    BY <1>2 DEF ActiveCooldown, Cooling
  <2>. QED
    BY <1>2, <2>1 DEF Left
<1>3. CASE Cooling(s) /\ Unstarted(s, boot)
  <2>. DEFINE d == Duration(s)
  <2>. DEFINE e == [s EXCEPT !.legacy = FALSE, !.started = now, !.boot = boot, !.duration = d]
  <2>1. ActiveCooldown(s, now) = [entry |-> e, left |-> d]
    BY <1>3 DEF ActiveCooldown, Cooling, Unstarted, Duration
  <2>. HIDE DEF d
  <2>2. d \in Nat /\ d # None
    BY <1>1 DEF d
  <2>3. e \in Entry /\ e.failed = s.failed /\ e.level = s.level
    BY <2>2 DEF Entry, Optional
  <2>4. e.started = now /\ e.boot = boot /\ e.duration = d
    BY <2>2 DEF Entry, Optional
  <2>. HIDE DEF e
  <2>5. Cooling(e) /\ Duration(e) = Duration(s)
    BY <2>2, <2>4 DEF Cooling, Duration, d
  <2>6. Left(s, boot, now) = d
    BY <1>3 DEF Left, d
  <2>. QED
    BY <1>3, <2>1, <2>3, <2>4, <2>5, <2>6
<1>4. CASE Cooling(s) /\ ~Unstarted(s, boot)
  <2>1. Left(s, boot, now) = Minus(s.started + Duration(s), now)
    BY <1>4 DEF Left
  <2>2. CASE Left(s, boot, now) = 0
    <3>1. ActiveCooldown(s, now) = [entry |-> Stopped(s), left |-> 0]
      BY <1>4, <2>1, <2>2 DEF ActiveCooldown, Cooling, Unstarted, Duration
    <3>2. Stopped(s) \in Entry /\ Stopped(s).failed = s.failed /\ Stopped(s).level = s.level
      BY DEF Stopped, Entry, Optional
    <3>3. /\ Stopped(s).started = None /\ Stopped(s).boot = None /\ Stopped(s).duration = None
          /\ ~Stopped(s).legacy
      BY DEF Stopped, Entry, Optional
    <3>. QED
      BY <2>2, <3>1, <3>2, <3>3 DEF Cooling
  <2>3. CASE Left(s, boot, now) # 0
    <3>1. ActiveCooldown(s, now) = [entry |-> s, left |-> Left(s, boot, now)]
      BY <1>4, <2>1, <2>3 DEF ActiveCooldown, Cooling, Unstarted, Duration
    <3>. QED
      BY <1>4, <3>1
  <2>. QED
    BY <2>2, <2>3
<1>. QED
  BY <1>2, <1>3, <1>4

\* What a wrong PIN makes of it.
LEMMA CountedEntry ==
    ASSUME NEW s \in Entry, NEW now \in Nat, boot \in Nat
    PROVE  LET e == AfterFailure(s, now) IN
           /\ e \in Entry /\ CooldownDuration(e.level) \in Nat
           /\ \/ Failures * s.level + s.failed < Failures * e.level + e.failed
              \/ e.level = MaxLevel /\ e.failed = 0
           /\ LimitReached(s) => /\ Cooling(e) /\ e.started = now /\ e.boot = boot
                                 /\ Duration(e) = CooldownDuration(e.level)
           /\ ~LimitReached(s) => /\ e.started = s.started /\ e.boot = s.boot
                                  /\ e.duration = s.duration /\ e.legacy = s.legacy
                                  /\ e.level = s.level
<1>. DEFINE e == AfterFailure(s, now)
<1>1. /\ s.failed \in Nat /\ s.failed < Failures /\ s.level \in Nat /\ s.level <= MaxLevel
  BY EntryTypes
<1>2. CASE ~LimitReached(s)
  <2>1. e = [s EXCEPT !.failed = s.failed + 1]
    BY <1>2 DEF AfterFailure
  <2>2. s.failed + 1 \in 0 .. Failures - 1
    BY <1>1, <1>2 DEF LimitReached
  <2>. HIDE DEF e
  <2>3. e \in Entry /\ e.failed = s.failed + 1 /\ e.level = s.level
    BY <2>1, <2>2 DEF Entry
  <2>4. /\ e.started = s.started /\ e.boot = s.boot /\ e.duration = s.duration /\ e.legacy = s.legacy
    BY <2>1, <2>2 DEF Entry
  <2>5. Failures * s.level \in Nat
    BY <1>1
  <2>6. Failures * s.level + s.failed < Failures * e.level + e.failed
    BY <1>1, <2>3, <2>5
  <2>. QED
    BY <1>1, <1>2, <2>3, <2>4, <2>6, DurationType DEF e
<1>3. CASE LimitReached(s)
  <2>. DEFINE level == Lesser(s.level + 1, MaxLevel)
  <2>1. level \in 0 .. MaxLevel /\ (level = s.level + 1 \/ (level = MaxLevel /\ s.level = MaxLevel))
    BY <1>1 DEF Lesser
  <2>2. e = [failed |-> 0, level |-> level, legacy |-> FALSE, started |-> now,
             boot |-> boot, duration |-> CooldownDuration(level)]
    BY <1>3 DEF AfterFailure
  <2>. HIDE DEF level, e
  <2>3. CooldownDuration(level) \in Nat /\ CooldownDuration(level) # None
    BY <2>1, DurationType
  <2>4. /\ e.failed = 0 /\ e.level = level /\ e.started = now /\ e.boot = boot
        /\ e.duration = CooldownDuration(level)
    BY <2>2
  <2>5. e \in Entry
    BY <2>1, <2>2, <2>3 DEF Entry, Optional
  <2>6. Cooling(e) /\ Duration(e) = CooldownDuration(e.level)
    BY <2>3, <2>4 DEF Cooling, Duration
  <2>7. s.failed + 1 = Failures
    BY <1>1, <1>3 DEF LimitReached
  <2>8. CASE level = s.level + 1
    <3>1. Failures * level = Failures * s.level + Failures /\ Failures * s.level \in Nat
      BY <1>1, <2>8
    <3>. QED
      BY <1>1, <1>3, <2>3, <2>4, <2>5, <2>6, <2>7, <3>1 DEF e
  <2>9. CASE level = MaxLevel /\ s.level = MaxLevel
    BY <1>1, <1>3, <2>3, <2>4, <2>5, <2>6, <2>7, <2>9 DEF e
  <2>. QED
    BY <2>1, <2>8, <2>9
<1>. QED
  BY <1>2, <1>3

LEMMA LeftShrinks ==
    ASSUME NEW s \in Entry, NEW b \in Nat, NEW now \in Nat, NEW later \in Nat, now <= later
    PROVE  Left(s, b, later) <= Left(s, b, now)
<1>1. Duration(s) \in Nat /\ s.started \in Optional
  BY EntryTypes
<1>2. CASE Cooling(s) /\ ~Unstarted(s, b)
  BY <1>1, <1>2 DEF Left, Minus, Unstarted, Optional
<1>3. CASE ~Cooling(s) \/ Unstarted(s, b)
  BY <1>1, <1>3 DEF Left
<1>. QED
  BY <1>2, <1>3

-----------------------------------------------------------------------------
\* Steps of one verification.

LEMMA Typed ==
    ASSUME TypeOK
    PROVE  /\ entry \in Entry /\ elapsed \in Nat /\ boot \in Nat /\ owed \in Nat
           /\ wrong \in Nat /\ wrong <= Failures * MaxLevel /\ promise \in Optional
           /\ task \in [Task -> Tasks] /\ gate \in Task \cup {None} /\ rounds \in 0 .. MaxLevel
           /\ Failures * MaxLevel \in Nat
<1>1. Failures * MaxLevel \in Nat
  OBVIOUS
<1>. QED
  BY <1>1 DEF TypeOK, Tasks

\* Nobody else is beyond the gate.
LEMMA OneTask ==
    ASSUME CooldownInvariant, NEW t \in Task, NEW r \in Tasks, gate \in {t, None},
           task' = [task EXCEPT ![t] = r], Sound(r)', UNCHANGED clock,
           \/ gate' = t
           \/ gate' = None /\ r.at \in {"idle", "waiting"}
    PROVE  /\ TasksSound' /\ Gated' /\ task' \in [Task -> Tasks] /\ gate' \in Task \cup {None}
           /\ elapsed' \in Nat /\ boot' \in Nat
<1>1. task \in [Task -> Tasks] /\ elapsed \in Nat /\ boot \in Nat /\ TasksSound /\ Gated
  BY Typed DEF CooldownInvariant
<1>2. task' \in [Task -> Tasks] /\ \A u \in Task : task'[u] = IF u = t THEN r ELSE task[u]
  BY <1>1
<1>3. \A u \in Task : u # t => task[u].at \in {"idle", "waiting"}
  <2>. SUFFICES ASSUME NEW u \in Task, u # t PROVE task[u].at \in {"idle", "waiting"}
    OBVIOUS
  <2>1. task[u].at \notin {"check", "hash", "clear", "record"}
    BY <1>1 DEF Gated
  <2>. QED
    BY <1>1, <2>1 DEF Tasks
<1>4. \A u \in Task : u # t => Sound(task[u])'
  BY <1>1, <1>3 DEF TasksSound, Sound, clock
<1>5. TasksSound'
  BY <1>2, <1>4 DEF TasksSound
<1>6. Gated'
  BY <1>2, <1>3 DEF Gated
<1>. QED
  BY <1>1, <1>2, <1>5, <1>6 DEF clock

\* The task gives up, or has reported: it holds nothing any more.
LEMMA Rested ==
    ASSUME CooldownInvariant
    PROVE  Resting \in Tasks /\ Resting.at = "idle" /\ Sound(Resting)
<1>1. elapsed \in Nat
  BY Typed DEF CooldownInvariant
<1>. QED
  BY <1>1 DEF Resting, Tasks, Sound

\* Nothing but tasks and the gate has changed.
LEMMA Unrecorded ==
    ASSUME CooldownInvariant, UNCHANGED <<entry, clock, owed, promise, rounds, wrong>>,
           report' \in [outcome : Outcomes, retry : Nat],
           report'.outcome \in {"verified", "incorrect"} => owed = 0,
           task' \in [Task -> Tasks], gate' \in Task \cup {None}, TasksSound', Gated'
    PROVE  CooldownInvariant'
<1>1. TypeOK'
  BY DEF CooldownInvariant, TypeOK, Tasks, clock
<1>2. EntryPast' /\ Owes' /\ GuessesAreCounted' /\ NoVerdictWhileCooling'
  BY DEF CooldownInvariant, EntryPast, Owes, GuessesAreCounted, NoVerdictWhileCooling, clock
<1>3. Promised'
  BY DEF CooldownInvariant, Promised, clock
<1>. QED
  BY <1>1, <1>2, <1>3 DEF CooldownInvariant

LEMMA Quietly == /\ Silent \in [outcome : Outcomes, retry : Nat]
                 /\ Silent.outcome \notin {"verified", "incorrect"}
BY DEF Silent, Outcomes

LEMMA BeginKeeps ==
    ASSUME CooldownInvariant, NEW t \in Task, Begin(t)
    PROVE  CooldownInvariant'
<1>1. /\ task[t].at = "idle" /\ task' = [task EXCEPT ![t].at = "waiting"] /\ report' = Silent
      /\ UNCHANGED <<entry, clock, owed, promise, rounds, wrong, gate>>
  BY DEF Begin, history
<1>2. task \in [Task -> Tasks] /\ TasksSound /\ Gated /\ gate \in Task \cup {None}
  BY Typed DEF CooldownInvariant
<1>3. PICK r \in Tasks : /\ r = [task[t] EXCEPT !.at = "waiting"]
                         /\ r.at = "waiting" /\ r.seen = task[t].seen
  <2>. DEFINE r == [task[t] EXCEPT !.at = "waiting"]
  <2>1. r \in Tasks /\ r.at = "waiting" /\ r.seen = task[t].seen
    BY <1>2 DEF Tasks
  <2>. QED
    BY <2>1
<1>4. task' = [task EXCEPT ![t] = r]
  BY <1>1, <1>3
<1>5. task' \in [Task -> Tasks] /\ \A u \in Task : task'[u] = IF u = t THEN r ELSE task[u]
  BY <1>2, <1>3, <1>4
<1>6. \A u \in Task : Sound(task[u])'
  BY <1>1, <1>2 DEF TasksSound, Sound, clock
<1>7. Sound(r)'
  BY <1>1, <1>2, <1>3 DEF TasksSound, Sound, clock
<1>8. TasksSound' /\ Gated'
  BY <1>1, <1>2, <1>3, <1>5, <1>6, <1>7 DEF TasksSound, Gated
<1>. QED
  BY <1>1, <1>2, <1>5, <1>8, Quietly, Unrecorded

LEMMA AcquireKeeps ==
    ASSUME CooldownInvariant, NEW t \in Task, Acquire(t)
    PROVE  CooldownInvariant'
<1>1. /\ entry \in Entry /\ elapsed \in Nat /\ boot \in Nat /\ owed \in Nat
      /\ Owes /\ Promised
  BY Typed DEF CooldownInvariant
<1>2. Duration(entry) \in Nat /\ Left(entry, boot, elapsed) \in Nat
  BY <1>1, EntryTypes
<1>3. PICK r \in Tasks : r = [at |-> "check", seen |-> elapsed, due |-> promise = 0]
  <2>1. [at |-> "check", seen |-> elapsed, due |-> promise = 0] \in Tasks
    BY <1>1 DEF Tasks
  <2>. QED
    BY <2>1
<1>4. /\ gate = None /\ gate' = t /\ task' = [task EXCEPT ![t] = r] /\ report' = Silent
      /\ UNCHANGED <<entry, clock, owed, promise, rounds, wrong>>
  BY <1>3 DEF Acquire, history
<1>5. r.at = "check" /\ r.seen = elapsed /\ (r.due => promise = 0)
  BY <1>3
<1>6. r.due => Left(entry, boot, elapsed) = 0
  BY <1>1, <1>2, <1>5 DEF Promised
<1>7. Cooling(entry) /\ Unstarted(entry, boot) => owed <= Minus(elapsed + Duration(entry), elapsed)
  BY <1>1, <1>2 DEF Owes, Left, Minus
<1>8. Sound(r)'
  BY <1>1, <1>4, <1>5, <1>6, <1>7 DEF Sound, clock
<1>9. TasksSound' /\ Gated' /\ task' \in [Task -> Tasks] /\ gate' \in Task \cup {None}
  BY <1>4, <1>8, OneTask
<1>. QED
  BY <1>4, <1>9, Quietly, Unrecorded

LEMMA GivesUpKeeps ==
    ASSUME CooldownInvariant, NEW t \in Task, GivesUp(t)
    PROVE  CooldownInvariant'
<1>1. PICK r \in Tasks : r = Resting
  BY Rested
<1>2. /\ gate = t /\ gate' = None /\ task' = [task EXCEPT ![t] = r] /\ report' = Silent
      /\ UNCHANGED <<entry, clock, owed, promise, rounds, wrong>>
  BY <1>1 DEF GivesUp, Leaves, history
<1>3. r.at = "idle" /\ Sound(r)
  BY <1>1, Rested
<1>4. Sound(r)'
  BY <1>2, <1>3 DEF Sound, clock
<1>5. TasksSound' /\ Gated' /\ task' \in [Task -> Tasks] /\ gate' \in Task \cup {None}
  BY <1>2, <1>3, <1>4, OneTask
<1>. QED
  BY <1>2, <1>5, Quietly, Unrecorded

\* The entry after a check, saved or not: it still covers what is owed and what was
\* promised, and what the check found left of it is no promise too early.
LEMMA EntryAfterCheck ==
    ASSUME CooldownInvariant, NEW t \in Task, task[t].at = "check",
           NEW e, NEW left, e = ActiveCooldown(entry, task[t].seen).entry,
           left = ActiveCooldown(entry, task[t].seen).left,
           entry' \in {entry, e}, UNCHANGED <<elapsed, boot, owed, wrong>>
    PROVE  /\ entry' \in Entry /\ EntryPast' /\ Owes' /\ GuessesAreCounted' /\ left \in Nat
           /\ UNCHANGED promise => Promised'
           /\ left = 0 => owed = 0
           /\ entry' = e /\ left # 0 => /\ ~(Cooling(entry) /\ Unstarted(entry, boot))'
                                      /\ Left(entry, boot, elapsed)' <= left
<1>. DEFINE seen == task[t].seen
<1>1. /\ entry \in Entry /\ elapsed \in Nat /\ boot \in Nat /\ owed \in Nat /\ promise \in Optional
      /\ EntryPast /\ Owes /\ Promised /\ GuessesAreCounted /\ Sound(task[t])
  BY Typed DEF CooldownInvariant, TasksSound
<1>2. seen \in Nat /\ seen <= elapsed
  BY <1>1, Typed DEF Sound, CooldownInvariant, Tasks
<1>3. /\ left = Left(entry, boot, seen)
      /\ e \in Entry /\ e.failed = entry.failed /\ e.level = entry.level
      /\ \/ e = entry /\ (Left(entry, boot, seen) # 0 => ~Unstarted(entry, boot))
         \/ /\ Cooling(entry) /\ Unstarted(entry, boot) /\ Cooling(e)
            /\ e.started = seen /\ e.boot = boot /\ Duration(e) = Duration(entry)
         \/ Left(entry, boot, seen) = 0 /\ ~Cooling(e) /\ e.started = None /\ e.boot = None
  BY <1>1, <1>2, CheckedEntry
<1>4. /\ Left(entry, boot, elapsed) <= left /\ left \in Nat /\ Left(entry, boot, elapsed) \in Nat
      /\ Duration(entry) \in Nat
  <2>. HIDE DEF seen
  <2>1. \A b, now \in Nat : Left(entry, b, now) \in Nat
    BY <1>1, EntryTypes
  <2>2. Duration(entry) \in Nat
    BY <1>1, EntryTypes
  <2>3. Left(entry, boot, elapsed) <= Left(entry, boot, seen)
    BY <1>1, <1>2, LeftShrinks
  <2>. QED
    BY <1>1, <1>2, <1>3, <2>1, <2>2, <2>3
<1>5. left = 0 => owed = 0
  BY <1>1, <1>4 DEF Owes
<1>6. Cooling(entry) /\ Unstarted(entry, boot) => owed <= Minus(seen + Duration(entry), elapsed)
  BY <1>1 DEF Sound
<1>. HIDE DEF seen
<1>7. entry' \in Entry /\ GuessesAreCounted'
  BY <1>1, <1>3 DEF GuessesAreCounted
<1>8. CASE entry' = entry
  <2>1. EntryPast' /\ Owes' /\ (UNCHANGED promise => Promised')
    BY <1>1, <1>8 DEF EntryPast, Owes, Promised
  <2>2. CASE entry' = e
    <3>1. left # 0 => ~(Cooling(entry) /\ Unstarted(entry, boot))
      <4>1. CASE e = entry /\ (Left(entry, boot, seen) # 0 => ~Unstarted(entry, boot))
        BY <1>3, <4>1
      <4>2. CASE Cooling(e) /\ e.started = seen /\ e.boot = boot
        BY <1>2, <1>8, <2>2, <4>2 DEF Unstarted
      <4>3. CASE Left(entry, boot, seen) = 0
        BY <1>3, <4>3
      <4>. QED
        BY <1>3, <4>1, <4>2, <4>3
    <3>. QED
      BY <1>4, <1>5, <1>7, <1>8, <2>1, <3>1
  <2>. QED
    BY <1>4, <1>5, <1>7, <1>8, <2>1, <2>2
<1>9. CASE /\ entry' = e /\ Cooling(entry) /\ Unstarted(entry, boot) /\ Cooling(e)
           /\ e.started = seen /\ e.boot = boot /\ Duration(e) = Duration(entry)
  <2>1. ~Unstarted(e, boot)
    BY <1>2, <1>9 DEF Unstarted
  <2>2. Left(e, boot, elapsed) = Minus(seen + Duration(entry), elapsed)
    BY <1>9, <2>1 DEF Left
  <2>3. left = Duration(entry)
    BY <1>3, <1>9 DEF Left
  <2>4. Left(e, boot, elapsed) <= left
    BY <1>1, <1>2, <1>4, <2>2, <2>3 DEF Minus
  <2>5. promise = None
    BY <1>1, <1>9 DEF Promised
  <2>6. EntryPast'
    BY <1>1, <1>2, <1>9 DEF EntryPast
  <2>7. Owes'
    BY <1>6, <1>9, <2>2 DEF Owes
  <2>8. UNCHANGED promise => Promised'
    BY <2>5 DEF Promised
  <2>9. ~(Cooling(entry) /\ Unstarted(entry, boot))' /\ Left(entry, boot, elapsed)' <= left
    BY <1>9, <2>1, <2>4
  <2>. QED
    BY <1>4, <1>5, <1>7, <2>6, <2>7, <2>8, <2>9
<1>10. CASE /\ entry' = e /\ Left(entry, boot, seen) = 0
            /\ ~Cooling(e) /\ e.started = None /\ e.boot = None
  <2>1. Left(e, boot, elapsed) = 0 /\ owed = 0
    BY <1>3, <1>5, <1>10 DEF Left
  <2>2. EntryPast' /\ Owes'
    BY <1>1, <1>10, <2>1 DEF EntryPast, Owes
  <2>3. UNCHANGED promise => Promised'
    BY <1>1, <1>10, <2>1 DEF Promised, Optional
  <2>. QED
    BY <1>3, <1>4, <1>5, <1>7, <1>10, <2>1, <2>2, <2>3
<1>. QED
  BY <1>3, <1>8, <1>9, <1>10

LEMMA CheckKeeps ==
    ASSUME CooldownInvariant, NEW t \in Task, CheckCooldown(t)
    PROVE  CooldownInvariant'
<1>. DEFINE active == ActiveCooldown(entry, task[t].seen)
<1>1. PICK e, left : e = active.entry /\ left = active.left
  OBVIOUS
<1>2. /\ task[t].at = "check" /\ UNCHANGED <<elapsed, boot, owed, rounds, wrong>>
      /\ \E done, ok \in BOOLEAN :
           /\ entry' = IF done THEN e ELSE entry
           /\ ok => done
           /\ IF ok /\ left = 0
              THEN /\ task' = [task EXCEPT ![t].at = "hash"]
                   /\ report' = Silent /\ UNCHANGED <<gate, promise>>
              ELSE /\ Leaves(t)
                   /\ IF ok THEN /\ Reports("cooling", left)
                                 /\ promise' = IF promise = None THEN left ELSE Lesser(promise, left)
                            ELSE report' = Silent /\ UNCHANGED promise
  BY <1>1 DEF CheckCooldown, Update, clock
<1>. HIDE DEF active
<1>3. PICK done, ok \in BOOLEAN :
           /\ entry' = IF done THEN e ELSE entry
           /\ ok => done
           /\ IF ok /\ left = 0
              THEN /\ task' = [task EXCEPT ![t].at = "hash"]
                   /\ report' = Silent /\ UNCHANGED <<gate, promise>>
              ELSE /\ Leaves(t)
                   /\ IF ok THEN /\ Reports("cooling", left)
                                 /\ promise' = IF promise = None THEN left ELSE Lesser(promise, left)
                            ELSE report' = Silent /\ UNCHANGED promise
  BY <1>2
<1>4. entry' \in {entry, e}
  BY <1>3
<1>5. /\ entry' \in Entry /\ EntryPast' /\ Owes' /\ GuessesAreCounted' /\ left \in Nat
      /\ UNCHANGED promise => Promised'
      /\ left = 0 => owed = 0
      /\ entry' = e /\ left # 0 => /\ ~(Cooling(entry) /\ Unstarted(entry, boot))'
                                 /\ Left(entry, boot, elapsed)' <= left
  BY <1>1, <1>2, <1>4, EntryAfterCheck DEF active
<1>6. /\ elapsed \in Nat /\ boot \in Nat /\ task \in [Task -> Tasks] /\ promise \in Optional
      /\ gate = t /\ Sound(task[t]) /\ Promised /\ TypeOK
  BY <1>2, Typed DEF CooldownInvariant, Gated, TasksSound
<1>7. ASSUME NEW r \in Tasks, task' = [task EXCEPT ![t] = r], Sound(r)',
             gate' = t \/ (gate' = None /\ r.at \in {"idle", "waiting"}),
             report' \in [outcome : Outcomes, retry : Nat],
             report'.outcome \notin {"verified", "incorrect"}, promise' \in Optional, Promised'
      PROVE  CooldownInvariant'
  <2>1. /\ TasksSound' /\ Gated' /\ task' \in [Task -> Tasks] /\ gate' \in Task \cup {None}
    BY <1>2, <1>6, <1>7, OneTask DEF clock
  <2>2. TypeOK'
    BY <1>2, <1>5, <1>6, <1>7, <2>1 DEF TypeOK, Tasks
  <2>3. NoVerdictWhileCooling'
    BY <1>7 DEF NoVerdictWhileCooling
  <2>. QED
    BY <1>5, <1>7, <2>1, <2>2, <2>3 DEF CooldownInvariant
<1>8. CASE ok /\ left = 0
  <2>1. PICK r \in Tasks : /\ r = [task[t] EXCEPT !.at = "hash"]
                         /\ r.at = "hash" /\ r.seen = task[t].seen
    <3>. DEFINE r == [task[t] EXCEPT !.at = "hash"]
    <3>1. r \in Tasks /\ r.at = "hash" /\ r.seen = task[t].seen
      BY <1>6 DEF Tasks
    <3>. QED
      BY <3>1
  <2>2. task' = [task EXCEPT ![t] = r] /\ report' = Silent /\ UNCHANGED <<gate, promise>>
    BY <1>3, <1>8, <2>1
  <2>3. Sound(r)'
    BY <1>2, <1>5, <1>6, <1>8, <2>1 DEF Sound
  <2>. QED
    BY <1>5, <1>6, <1>7, <2>2, <2>3, Quietly
<1>9. CASE ~(ok /\ left = 0)
  <2>1. PICK r \in Tasks : r = Resting
    BY Rested
  <2>2. r.at = "idle" /\ Sound(r)
    BY <2>1, Rested
  <2>3. Sound(r)'
    BY <1>2, <2>2 DEF Sound
  <2>4. task' = [task EXCEPT ![t] = r] /\ gate' = None
    BY <1>3, <1>9, <2>1 DEF Leaves
  <2>5. CASE ok
    <3>1. /\ report' = [outcome |-> "cooling", retry |-> left] /\ entry' = e /\ left # 0
          /\ promise' = IF promise = None THEN left ELSE Lesser(promise, left)
      BY <1>3, <1>9, <2>5 DEF Reports
    <3>2. report' \in [outcome : Outcomes, retry : Nat] /\ report'.outcome = "cooling"
      BY <1>5, <3>1 DEF Outcomes
    <3>3. promise' = left \/ promise' = promise
      BY <3>1 DEF Lesser
    <3>4. promise' \in Optional
      BY <1>5, <1>6, <3>3 DEF Optional
    <3>5. CASE promise' = left
      <4>1. Promised'
        BY <1>5, <3>1, <3>5 DEF Promised
      <4>. QED
        BY <1>7, <2>2, <2>3, <2>4, <3>2, <3>4, <4>1
    <3>6. CASE promise' = promise
      BY <1>5, <1>7, <2>2, <2>3, <2>4, <3>2, <3>4, <3>6
    <3>. QED
      BY <3>3, <3>5, <3>6
  <2>6. CASE ~ok
    <3>1. report' = Silent /\ UNCHANGED promise
      BY <1>3, <2>6
    <3>. QED
      BY <1>5, <1>6, <1>7, <2>2, <2>3, <2>4, <3>1, Quietly
  <2>. QED
    BY <2>5, <2>6
<1>. QED
  BY <1>8, <1>9

\* Argon2 runs only on a task that owes nothing; it owes nothing after it either.
LEMMA HashKeeps ==
    ASSUME CooldownInvariant, NEW t \in Task, HashPin(t)
    PROVE  CooldownInvariant'
<1>1. /\ task[t].at = "hash" /\ report' = Silent
      /\ UNCHANGED <<entry, elapsed, boot, gate, owed, promise>>
      /\ \/ /\ task' = [task EXCEPT ![t].at = "clear"] /\ wrong' = 0 /\ rounds' = 0
         \/ /\ task' = [task EXCEPT ![t].at = "record", ![t].seen = elapsed]
            /\ UNCHANGED <<wrong, rounds>>
  BY DEF HashPin, clock
<1>2. /\ elapsed \in Nat /\ boot \in Nat /\ task \in [Task -> Tasks] /\ gate = t
      /\ Sound(task[t]) /\ TypeOK /\ entry \in Entry /\ Failures * MaxLevel \in Nat
      /\ rounds \in 0 .. MaxLevel
  BY <1>1, Typed DEF CooldownInvariant, Gated, TasksSound
<1>3. owed = 0 /\ task[t].seen <= elapsed
  BY <1>1, <1>2 DEF Sound
<1>4. PICK r \in Tasks : /\ task' = [task EXCEPT ![t] = r] /\ r.seen <= elapsed
                         /\ (r.at = "clear" /\ wrong' = 0) \/ r.at = "record"
  <2>1. CASE task' = [task EXCEPT ![t].at = "clear"] /\ wrong' = 0
    <3>. DEFINE r == [task[t] EXCEPT !.at = "clear"]
    <3>1. r \in Tasks /\ r.at = "clear" /\ r.seen = task[t].seen
      BY <1>2 DEF Tasks
    <3>2. task' = [task EXCEPT ![t] = r]
      BY <2>1
    <3>. HIDE DEF r
    <3>. QED
      BY <1>3, <2>1, <3>1, <3>2
  <2>2. CASE task' = [task EXCEPT ![t].at = "record", ![t].seen = elapsed]
    <3>. DEFINE r == [task[t] EXCEPT !.at = "record", !.seen = elapsed]
    <3>1. r \in Tasks /\ r.at = "record" /\ r.seen = elapsed
      BY <1>2 DEF Tasks
    <3>2. task' = [task EXCEPT ![t] = r]
      BY <1>2, <2>2
    <3>3. elapsed <= elapsed
      BY <1>2
    <3>. HIDE DEF r
    <3>. QED
      BY <2>2, <3>1, <3>2, <3>3
  <2>. QED
    BY <1>1, <2>1, <2>2
<1>5. Sound(r)'
  BY <1>1, <1>3, <1>4 DEF Sound
<1>6. /\ TasksSound' /\ Gated' /\ task' \in [Task -> Tasks] /\ gate' \in Task \cup {None}
  BY <1>1, <1>2, <1>4, <1>5, OneTask DEF clock
<1>7. wrong' \in 0 .. Failures * MaxLevel /\ rounds' \in 0 .. MaxLevel
  BY <1>1, <1>2 DEF TypeOK
<1>8. TypeOK'
  BY <1>1, <1>2, <1>6, <1>7, Quietly DEF TypeOK, Tasks
<1>9. EntryPast' /\ Owes' /\ Promised' /\ NoVerdictWhileCooling'
  BY <1>1, Quietly DEF CooldownInvariant, EntryPast, Owes, Promised, NoVerdictWhileCooling
<1>10. GuessesAreCounted'
  <2>1. entry.level \in Nat /\ entry.failed \in Nat
    BY <1>2, EntryTypes
  <2>2. Failures * entry.level \in Nat
    BY <2>1
  <2>3. wrong' = 0 \/ wrong' = wrong
    BY <1>1
  <2>. QED
    BY <1>1, <2>1, <2>2, <2>3 DEF CooldownInvariant, GuessesAreCounted
<1>. QED
  BY <1>6, <1>8, <1>9, <1>10 DEF CooldownInvariant

\* The entry is gone, or as it was: nothing is owed, and every wrong PIN is counted.
LEMMA Forgiven ==
    ASSUME CooldownInvariant, entry' \in {entry, Default}, UNCHANGED <<elapsed, boot, promise>>,
           owed' = 0, wrong' = 0
    PROVE  entry' \in Entry /\ EntryPast' /\ Owes' /\ Promised' /\ GuessesAreCounted'
<1>1. /\ entry \in Entry /\ elapsed \in Nat /\ boot \in Nat /\ promise \in Optional
      /\ EntryPast /\ Promised
  BY Typed DEF CooldownInvariant
<1>2. entry' \in Entry
  BY <1>1, Absent
<1>3. Left(entry', boot, elapsed) \in Nat /\ entry'.level \in Nat /\ entry'.failed \in Nat
  BY <1>1, <1>2, EntryTypes
<1>4. Owes'
  BY <1>3 DEF Owes
<1>5. Failures * entry'.level \in Nat
  BY <1>3
<1>6. GuessesAreCounted'
  BY <1>3, <1>5 DEF GuessesAreCounted
<1>7. CASE entry' = entry
  BY <1>1, <1>2, <1>4, <1>6, <1>7 DEF EntryPast, Promised
<1>8. CASE entry' = Default
  <2>1. EntryPast'
    BY <1>1, <1>8, Absent DEF EntryPast
  <2>2. Left(Default, boot, elapsed) = 0
    BY Absent DEF Left
  <2>3. Promised'
    BY <1>1, <1>8, <2>2, Absent DEF Promised, Optional
  <2>. QED
    BY <1>2, <1>4, <1>6, <2>1, <2>3
<1>. QED
  BY <1>7, <1>8

LEMMA ClearKeeps ==
    ASSUME CooldownInvariant, NEW t \in Task, ClearAttempts(t)
    PROVE  CooldownInvariant'
<1>1. /\ task[t].at = "clear" /\ UNCHANGED <<elapsed, boot, owed, promise, rounds, wrong>>
      /\ entry' \in {entry, Default} /\ Leaves(t)
      /\ report' \in {Silent, [outcome |-> "verified", retry |-> 0]}
  BY DEF ClearAttempts, Update, clock, history
<1>2. /\ elapsed \in Nat /\ boot \in Nat /\ task \in [Task -> Tasks] /\ gate = t
      /\ Sound(task[t]) /\ TypeOK
  BY <1>1, Typed DEF CooldownInvariant, Gated, TasksSound
<1>3. owed = 0 /\ wrong = 0
  BY <1>1, <1>2 DEF Sound
<1>4. entry' \in Entry /\ EntryPast' /\ Owes' /\ Promised' /\ GuessesAreCounted'
  BY <1>1, <1>3, Forgiven
<1>5. PICK r \in Tasks : r = Resting
  BY Rested
<1>6. r.at = "idle" /\ Sound(r)
  BY <1>5, Rested
<1>7. Sound(r)'
  BY <1>1, <1>6 DEF Sound
<1>8. task' = [task EXCEPT ![t] = r] /\ gate' = None
  BY <1>1, <1>5 DEF Leaves
<1>9. /\ TasksSound' /\ Gated' /\ task' \in [Task -> Tasks] /\ gate' \in Task \cup {None}
  BY <1>1, <1>2, <1>6, <1>7, <1>8, OneTask DEF clock
<1>10. report' \in [outcome : Outcomes, retry : Nat]
  BY <1>1, Quietly DEF Outcomes
<1>11. TypeOK'
  BY <1>1, <1>2, <1>4, <1>9, <1>10 DEF TypeOK, Tasks
<1>12. NoVerdictWhileCooling'
  BY <1>1, <1>3 DEF NoVerdictWhileCooling
<1>. QED
  BY <1>4, <1>9, <1>11, <1>12 DEF CooldownInvariant

\* The entry with one more failure, and the cooldown that it may have started.
LEMMA EntryAfterFailure ==
    ASSUME CooldownInvariant, NEW t \in Task, task[t].at = "record",
           NEW e, e = AfterFailure(entry, task[t].seen), entry' = e, UNCHANGED <<elapsed, boot>>,
           IF LimitReached(entry)
           THEN /\ owed' = Minus(task[t].seen + CooldownDuration(e.level), elapsed)
                /\ promise' \in {CooldownDuration(e.level), None}
           ELSE UNCHANGED <<owed, promise>>,
           wrong' \in {wrong, Lesser(wrong + 1, Failures * MaxLevel)}
    PROVE  /\ entry' \in Entry /\ EntryPast' /\ Owes' /\ Promised' /\ GuessesAreCounted'
           /\ owed' \in Nat /\ promise' \in Optional
<1>. DEFINE seen == task[t].seen
<1>. DEFINE cooldown == CooldownDuration(e.level)
<1>1. /\ entry \in Entry /\ elapsed \in Nat /\ boot \in Nat /\ owed \in Nat /\ promise \in Optional
      /\ EntryPast /\ Owes /\ Promised /\ GuessesAreCounted /\ Sound(task[t])
      /\ wrong \in Nat /\ wrong <= Failures * MaxLevel /\ Failures * MaxLevel \in Nat
  BY Typed DEF CooldownInvariant, TasksSound
<1>2. seen \in Nat /\ seen <= elapsed /\ owed = 0
  BY <1>1, Typed DEF Sound, CooldownInvariant, Tasks
<1>3. /\ e \in Entry /\ cooldown \in Nat
      /\ \/ Failures * entry.level + entry.failed < Failures * e.level + e.failed
         \/ e.level = MaxLevel /\ e.failed = 0
      /\ LimitReached(entry) => /\ Cooling(e) /\ e.started = seen /\ e.boot = boot
                                /\ Duration(e) = cooldown
      /\ ~LimitReached(entry) => /\ e.started = entry.started /\ e.boot = entry.boot
                                 /\ e.duration = entry.duration /\ e.legacy = entry.legacy
                                 /\ e.level = entry.level
  BY <1>1, <1>2, CountedEntry
<1>4. IF LimitReached(entry)
      THEN owed' = Minus(seen + cooldown, elapsed) /\ promise' \in {cooldown, None}
      ELSE UNCHANGED <<owed, promise>>
  OBVIOUS
<1>. HIDE DEF seen, cooldown
<1>5. GuessesAreCounted'
  <2>1. /\ entry.level \in Nat /\ entry.failed \in Nat /\ e.level \in Nat /\ e.failed \in Nat
    BY <1>1, <1>3, EntryTypes
  <2>2. Failures * entry.level \in Nat /\ Failures * e.level \in Nat
    BY <2>1
  <2>3. wrong' <= wrong + 1 /\ wrong' <= Failures * MaxLevel
    BY <1>1 DEF Lesser
  <2>4. wrong' \in Nat
    BY <1>1 DEF Lesser
  <2>5. CASE Failures * entry.level + entry.failed < Failures * e.level + e.failed
    BY <1>1, <2>1, <2>2, <2>3, <2>4, <2>5 DEF GuessesAreCounted
  <2>6. CASE e.level = MaxLevel /\ e.failed = 0
    BY <1>1, <2>3, <2>4, <2>6 DEF GuessesAreCounted
  <2>. QED
    BY <1>3, <2>5, <2>6
<1>6. CASE LimitReached(entry)
  <2>1. ~Unstarted(e, boot)
    BY <1>2, <1>3, <1>6 DEF Unstarted
  <2>2. Left(e, boot, elapsed) = Minus(seen + cooldown, elapsed)
    BY <1>3, <1>6, <2>1 DEF Left
  <2>3. Left(e, boot, elapsed) <= cooldown /\ Left(e, boot, elapsed) \in Nat
    BY <1>1, <1>2, <1>3, <2>2 DEF Minus
  <2>4. EntryPast'
    BY <1>1, <1>2, <1>3, <1>6 DEF EntryPast
  <2>5. owed' = Left(e, boot, elapsed)
    BY <1>4, <1>6, <2>2
  <2>6. Owes'
    BY <2>3, <2>5 DEF Owes
  <2>7. promise' \in {cooldown, None}
    BY <1>4, <1>6
  <2>8. Promised'
    BY <2>1, <2>3, <2>7 DEF Promised
  <2>. QED
    BY <1>3, <1>5, <2>3, <2>4, <2>5, <2>6, <2>7, <2>8 DEF Optional
<1>7. CASE ~LimitReached(entry)
  <2>1. EntryPast'
    BY <1>1, <1>3, <1>7 DEF EntryPast
  <2>2. /\ Left(e, boot, elapsed) = Left(entry, boot, elapsed)
        /\ Cooling(e) /\ Unstarted(e, boot) => Cooling(entry) /\ Unstarted(entry, boot)
    BY <1>3, <1>7 DEF Left, Cooling, Unstarted, Duration
  <2>3. UNCHANGED <<owed, promise>>
    BY <1>4, <1>7
  <2>4. Owes' /\ Promised'
    BY <1>1, <2>2, <2>3 DEF Owes, Promised
  <2>. QED
    BY <1>1, <1>3, <1>5, <2>1, <2>3, <2>4
<1>. QED
  BY <1>6, <1>7

LEMMA RecordKeeps ==
    ASSUME CooldownInvariant, NEW t \in Task, RecordFailure(t)
    PROVE  CooldownInvariant'
<1>1. PICK e : e = AfterFailure(entry, task[t].seen)
  OBVIOUS
<1>2. PICK cooldown : cooldown = CooldownDuration(e.level)
  OBVIOUS
<1>3. task[t].at = "record" /\ Leaves(t) /\ UNCHANGED <<elapsed, boot>>
  BY DEF RecordFailure, clock
<1>4. PICK done, ok \in BOOLEAN :
         /\ entry' = IF done THEN e ELSE entry
         /\ ok => done
         /\ IF done /\ LimitReached(entry)
            THEN /\ owed' = Minus(task[t].seen + cooldown, elapsed)
                 /\ rounds' = Lesser(rounds + 1, MaxLevel)
                 /\ promise' = IF ok THEN cooldown ELSE None
            ELSE UNCHANGED <<owed, rounds, promise>>
         /\ wrong' = IF ok THEN Lesser(wrong + 1, Failures * MaxLevel) ELSE wrong
         /\ IF ~ok THEN report' = Silent
            ELSE IF LimitReached(entry) THEN Reports("started", cooldown)
            ELSE Reports("incorrect", 0)
  BY <1>1, <1>2 DEF RecordFailure, Update
<1>5. /\ TypeOK /\ elapsed \in Nat /\ boot \in Nat /\ task \in [Task -> Tasks] /\ gate = t
      /\ Sound(task[t]) /\ rounds \in 0 .. MaxLevel /\ entry \in Entry /\ owed \in Nat
      /\ promise \in Optional /\ wrong \in 0 .. Failures * MaxLevel
  BY <1>3, Typed DEF CooldownInvariant, Gated, TasksSound, TypeOK
<1>6. owed = 0 /\ task[t].seen \in Nat
  BY <1>3, <1>5 DEF Sound, Tasks
<1>7. /\ entry' \in Entry /\ EntryPast' /\ Owes' /\ Promised' /\ GuessesAreCounted'
      /\ owed' \in Nat /\ promise' \in Optional
  <2>1. CASE done
    <3>1. entry' = e /\ wrong' \in {wrong, Lesser(wrong + 1, Failures * MaxLevel)}
      BY <1>4, <2>1
    <3>2. IF LimitReached(entry)
          THEN /\ owed' = Minus(task[t].seen + CooldownDuration(e.level), elapsed)
               /\ promise' \in {CooldownDuration(e.level), None}
          ELSE UNCHANGED <<owed, promise>>
      BY <1>2, <1>4, <2>1
    <3>. QED
      BY <1>1, <1>3, <3>1, <3>2, EntryAfterFailure
  <2>2. CASE ~done
    <3>1. UNCHANGED <<entry, owed, promise, wrong>>
      BY <1>4, <2>2
    <3>. QED
      BY <1>3, <1>5, <3>1 DEF CooldownInvariant, EntryPast, Owes, Promised, GuessesAreCounted
  <2>. QED
    BY <2>1, <2>2
<1>8. PICK r \in Tasks : r = Resting
  BY Rested
<1>9. r.at = "idle" /\ Sound(r)
  BY <1>8, Rested
<1>10. Sound(r)'
  BY <1>3, <1>9 DEF Sound
<1>11. task' = [task EXCEPT ![t] = r] /\ gate' = None
  BY <1>3, <1>8 DEF Leaves
<1>12. /\ TasksSound' /\ Gated' /\ task' \in [Task -> Tasks] /\ gate' \in Task \cup {None}
  BY <1>3, <1>5, <1>9, <1>10, <1>11, OneTask DEF clock
<1>13. cooldown \in Nat
  BY <1>1, <1>2, <1>5, <1>6, CountedEntry
<1>14. report' \in [outcome : Outcomes, retry : Nat] /\ NoVerdictWhileCooling'
  <2>1. CASE report' = Silent
    BY <2>1, Quietly DEF NoVerdictWhileCooling
  <2>2. CASE report' = [outcome |-> "started", retry |-> cooldown]
    <3>1. report'.outcome = "started" /\ report' \in [outcome : Outcomes, retry : Nat]
      BY <1>13, <2>2 DEF Outcomes
    <3>. QED
      BY <3>1 DEF NoVerdictWhileCooling
  <2>3. CASE report' = [outcome |-> "incorrect", retry |-> 0] /\ ~LimitReached(entry)
    <3>1. owed' = 0
      BY <1>4, <1>6, <2>3
    <3>. QED
      BY <2>3, <3>1 DEF NoVerdictWhileCooling, Outcomes
  <2>. QED
    BY <1>4, <2>1, <2>2, <2>3 DEF Reports
<1>15. rounds' \in 0 .. MaxLevel /\ wrong' \in 0 .. Failures * MaxLevel
  <2>1. Failures * MaxLevel \in Nat
    OBVIOUS
  <2>2. rounds' \in 0 .. MaxLevel
    BY <1>4, <1>5 DEF Lesser
  <2>3. wrong' \in 0 .. Failures * MaxLevel
    BY <1>4, <1>5, <2>1 DEF Lesser
  <2>. QED
    BY <2>2, <2>3
<1>16. TypeOK'
  BY <1>3, <1>5, <1>7, <1>12, <1>14, <1>15 DEF TypeOK, Tasks
<1>. QED
  BY <1>7, <1>12, <1>14, <1>16 DEF CooldownInvariant

-----------------------------------------------------------------------------
\* What happens around the verifications.

LEMMA ActivateKeeps ==
    ASSUME CooldownInvariant, ActivatePairing
    PROVE  CooldownInvariant'
<1>1. /\ entry' \in {entry, Default} /\ owed' = 0 /\ rounds' = 0 /\ wrong' = 0 /\ report' = Silent
      /\ UNCHANGED <<elapsed, boot, gate, task, promise>>
  BY DEF ActivatePairing, clock
<1>2. /\ TypeOK /\ entry \in Entry /\ elapsed \in Nat /\ boot \in Nat /\ Failures * MaxLevel \in Nat
      /\ task \in [Task -> Tasks] /\ TasksSound /\ Gated
  BY Typed DEF CooldownInvariant
<1>3. entry' \in Entry /\ EntryPast' /\ Owes' /\ Promised' /\ GuessesAreCounted'
  BY <1>1, Forgiven
<1>4. TasksSound'
  <2>. SUFFICES ASSUME NEW u \in Task PROVE Sound(task[u])'
    BY DEF TasksSound
  <2>. DEFINE r == task[u]
  <2>1. r \in Tasks /\ Sound(r)
    BY <1>2 DEF TasksSound
  <2>2. r.seen \in Nat /\ r.seen <= elapsed
    BY <2>1 DEF Tasks, Sound
  <2>3. r.at = "check" /\ r.due => Left(entry, boot, r.seen) = 0
    BY <2>1 DEF Sound
  <2>4. Left(Default, boot, r.seen) = 0
    BY Absent DEF Left
  <2>5. Duration(entry') \in Nat
    BY <1>3, EntryTypes
  <2>6. 0 <= Minus(r.seen + Duration(entry'), elapsed)
    BY <1>2, <2>2, <2>5 DEF Minus
  <2>. QED
    BY <1>1, <2>2, <2>3, <2>4, <2>6 DEF Sound
<1>5. Gated'
  BY <1>1, <1>2 DEF Gated
<1>6. TypeOK'
  BY <1>1, <1>2, <1>3, Quietly DEF TypeOK
<1>7. NoVerdictWhileCooling'
  BY <1>1, Quietly DEF NoVerdictWhileCooling
<1>. QED
  BY <1>3, <1>4, <1>5, <1>6, <1>7 DEF CooldownInvariant

\* A new process has no verification under way.
LEMMA NoTask ==
    ASSUME MemoryLost, elapsed' \in Nat
    PROVE  /\ TasksSound' /\ Gated' /\ task' \in [Task -> Tasks] /\ gate' \in Task \cup {None}
           /\ report' \in [outcome : Outcomes, retry : Nat] /\ NoVerdictWhileCooling'
<1>1. /\ gate' = None /\ report' = Silent /\ task' = [t \in Task |-> Resting]
  BY DEF MemoryLost
<1>2. Resting \in Tasks /\ Resting.at = "idle" /\ Resting.seen = 0
  BY DEF Resting, Tasks
<1>3. \A t \in Task : task'[t] = Resting
  BY <1>1
<1>4. TasksSound' /\ Gated'
  BY <1>2, <1>3 DEF TasksSound, Sound, Gated
<1>. QED
  BY <1>1, <1>2, <1>4, Quietly DEF NoVerdictWhileCooling

LEMMA CrashKeeps ==
    ASSUME CooldownInvariant, Crash
    PROVE  CooldownInvariant'
<1>1. MemoryLost /\ UNCHANGED <<entry, elapsed, boot, owed, promise, rounds, wrong>>
  BY DEF Crash, clock, history
<1>2. elapsed' \in Nat
  BY <1>1, Typed DEF CooldownInvariant
<1>3. /\ TasksSound' /\ Gated' /\ task' \in [Task -> Tasks] /\ gate' \in Task \cup {None}
      /\ report' \in [outcome : Outcomes, retry : Nat] /\ NoVerdictWhileCooling'
  BY <1>1, <1>2, NoTask
<1>4. TypeOK'
  BY <1>1, <1>3 DEF CooldownInvariant, TypeOK, Tasks
<1>5. EntryPast' /\ Owes' /\ Promised' /\ GuessesAreCounted'
  BY <1>1 DEF CooldownInvariant, EntryPast, Owes, Promised, GuessesAreCounted
<1>. QED
  BY <1>3, <1>4, <1>5 DEF CooldownInvariant

\* A reboot gives a cooldown its whole length back.
LEMMA RebootKeeps ==
    ASSUME CooldownInvariant, Reboot
    PROVE  CooldownInvariant'
<1>1. /\ MemoryLost /\ boot' = boot + 1 /\ elapsed' = 0 /\ promise' = None
      /\ UNCHANGED <<entry, owed, rounds, wrong>>
  BY DEF Reboot
<1>2. /\ entry \in Entry /\ elapsed \in Nat /\ boot \in Nat /\ owed \in Nat /\ TypeOK
      /\ EntryPast /\ Owes
  BY Typed DEF CooldownInvariant
<1>3. /\ Duration(entry) \in Nat /\ entry.boot \in Optional /\ entry.started \in Optional
  BY <1>2, EntryTypes
<1>4. /\ TasksSound' /\ Gated' /\ task' \in [Task -> Tasks] /\ gate' \in Task \cup {None}
      /\ report' \in [outcome : Outcomes, retry : Nat] /\ NoVerdictWhileCooling'
  BY <1>1, NoTask
<1>5. TypeOK'
  BY <1>1, <1>2, <1>4 DEF TypeOK, Tasks, Optional
<1>6. EntryPast' /\ Promised' /\ GuessesAreCounted'
  <2>1. entry.boot # boot + 1 /\ (entry.boot # None => entry.boot <= boot + 1)
    BY <1>2, <1>3 DEF EntryPast, Optional
  <2>2. EntryPast'
    BY <1>1, <2>1 DEF EntryPast
  <2>3. Promised' /\ GuessesAreCounted'
    BY <1>1 DEF CooldownInvariant, Promised, GuessesAreCounted
  <2>. QED
    BY <2>2, <2>3
<1>7. Owes'
  <2>1. Unstarted(entry, boot + 1)
    BY <1>2, <1>3 DEF Unstarted, EntryPast, Optional
  <2>2. Left(entry, boot + 1, 0) = IF Cooling(entry) THEN Duration(entry) ELSE 0
    BY <2>1 DEF Left
  <2>3. CASE ~Cooling(entry)
    BY <1>1, <1>2, <2>2, <2>3 DEF Owes, Left
  <2>4. CASE Cooling(entry) /\ Unstarted(entry, boot)
    BY <1>1, <1>2, <2>2, <2>4 DEF Owes, Left
  <2>5. CASE Cooling(entry) /\ ~Unstarted(entry, boot)
    <3>1. entry.started \in Nat /\ entry.started <= elapsed
      BY <1>2, <1>3, <2>5 DEF Unstarted, EntryPast, Optional
    <3>2. Minus(entry.started + Duration(entry), elapsed) <= Duration(entry)
      BY <1>2, <1>3, <3>1 DEF Minus
    <3>3. owed <= Minus(entry.started + Duration(entry), elapsed)
      BY <1>2, <2>5 DEF Owes, Left
    <3>4. Minus(entry.started + Duration(entry), elapsed) \in Nat
      BY <1>2, <1>3, <3>1 DEF Minus
    <3>5. owed <= Duration(entry)
      BY <1>2, <1>3, <3>2, <3>3, <3>4
    <3>. QED
      BY <1>1, <2>2, <2>5, <3>5 DEF Owes
  <2>. QED
    BY <2>3, <2>4, <2>5
<1>. QED
  BY <1>4, <1>5, <1>6, <1>7 DEF CooldownInvariant

\* The clock runs for the entry and for what is owed alike.
LEMMA TickKeeps ==
    ASSUME CooldownInvariant, Tick
    PROVE  CooldownInvariant'
<1>1. /\ elapsed' = elapsed + 1 /\ owed' = Minus(owed, 1)
      /\ promise' = IF promise = None THEN None ELSE Minus(promise, 1)
      /\ report' = Silent /\ UNCHANGED <<entry, boot, gate, task, rounds, wrong>>
  BY DEF Tick
<1>2. /\ entry \in Entry /\ elapsed \in Nat /\ boot \in Nat /\ owed \in Nat /\ TypeOK
      /\ promise \in Optional /\ task \in [Task -> Tasks]
      /\ EntryPast /\ Owes /\ Promised /\ TasksSound /\ Gated
  BY Typed DEF CooldownInvariant
<1>3. /\ Duration(entry) \in Nat /\ entry.boot \in Optional /\ entry.started \in Optional
      /\ Left(entry, boot, elapsed) \in Nat
  BY <1>2, EntryTypes
<1>4. /\ owed' \in Nat /\ (owed' = 0 \/ owed' = owed - 1) /\ owed' <= owed /\ (owed = 0 => owed' = 0)
  BY <1>1, <1>2 DEF Minus
<1>5. Left(entry, boot, elapsed + 1) = IF Cooling(entry) /\ Unstarted(entry, boot) THEN Duration(entry)
                                       ELSE Minus(Left(entry, boot, elapsed), 1)
  <2>1. CASE Cooling(entry) /\ ~Unstarted(entry, boot)
    <3>1. entry.started \in Nat
      BY <1>3, <2>1 DEF Unstarted, Optional
    <3>2. Minus(entry.started + Duration(entry), elapsed + 1)
            = Minus(Minus(entry.started + Duration(entry), elapsed), 1)
      BY <1>2, <1>3, <3>1 DEF Minus
    <3>. QED
      BY <2>1, <3>2 DEF Left
  <2>2. CASE ~Cooling(entry) \/ Unstarted(entry, boot)
    BY <2>2 DEF Left, Minus
  <2>. QED
    BY <2>1, <2>2
<1>6. Owes'
  <2>1. CASE Cooling(entry) /\ Unstarted(entry, boot)
    <3>1. owed <= Duration(entry)
      BY <1>2, <2>1 DEF Owes, Left
    <3>. QED
      BY <1>1, <1>2, <1>3, <1>4, <1>5, <2>1, <3>1 DEF Owes
  <2>2. CASE ~(Cooling(entry) /\ Unstarted(entry, boot))
    <3>1. Minus(owed, 1) <= Minus(Left(entry, boot, elapsed), 1)
      BY <1>2, <1>3 DEF Owes, Minus
    <3>. QED
      BY <1>1, <1>5, <2>2, <3>1 DEF Owes
  <2>. QED
    BY <2>1, <2>2
<1>7. Promised'
  <2>1. CASE promise = None
    BY <1>1, <2>1 DEF Promised
  <2>2. CASE promise # None
    <3>1. promise \in Nat /\ ~(Cooling(entry) /\ Unstarted(entry, boot))
          /\ Left(entry, boot, elapsed) <= promise
      BY <1>2, <2>2 DEF Promised, Optional
    <3>2. Minus(Left(entry, boot, elapsed), 1) <= Minus(promise, 1)
      BY <1>3, <3>1 DEF Minus
    <3>. QED
      BY <1>1, <1>5, <2>2, <3>1, <3>2 DEF Promised
  <2>. QED
    BY <2>1, <2>2
<1>8. TasksSound'
  <2>. SUFFICES ASSUME NEW u \in Task PROVE Sound(task[u])'
    BY DEF TasksSound
  <2>. DEFINE r == task[u]
  <2>1. r \in Tasks /\ Sound(r)
    BY <1>2 DEF TasksSound
  <2>2. r.seen \in Nat /\ r.seen <= elapsed
    BY <2>1 DEF Tasks, Sound
  <2>3. r.seen <= elapsed + 1
    BY <1>2, <2>2
  <2>4. ASSUME r.at = "check", Cooling(entry), Unstarted(entry, boot)
        PROVE  Minus(owed, 1) <= Minus(r.seen + Duration(entry), elapsed + 1)
    <3>1. owed <= Minus(r.seen + Duration(entry), elapsed)
      BY <2>1, <2>4 DEF Sound
    <3>. HIDE DEF r
    <3>. QED
      BY <1>2, <1>3, <2>2, <3>1 DEF Minus
  <2>5. /\ r.at \in {"hash", "clear", "record"} => owed = 0
        /\ r.at = "clear" => wrong = 0
        /\ r.at = "check" /\ r.due => Left(entry, boot, r.seen) = 0
    BY <2>1 DEF Sound
  <2>. QED
    BY <1>1, <1>4, <2>3, <2>4, <2>5 DEF Sound
<1>9. EntryPast'
  BY <1>1, <1>2, <1>3 DEF EntryPast, Optional
<1>10. Gated' /\ GuessesAreCounted' /\ NoVerdictWhileCooling'
  BY <1>1, Quietly DEF CooldownInvariant, Gated, GuessesAreCounted, NoVerdictWhileCooling
<1>11. promise' \in Optional /\ elapsed' \in Nat
  BY <1>1, <1>2 DEF Optional, Minus
<1>12. TypeOK'
  BY <1>1, <1>2, <1>4, <1>11, Quietly DEF TypeOK
<1>. QED
  BY <1>6, <1>7, <1>8, <1>9, <1>10, <1>12 DEF CooldownInvariant

-----------------------------------------------------------------------------
\* The invariant, and what follows from it.

LEMMA CooldownInit ==
    ASSUME Init
    PROVE  CooldownInvariant
<1>1. /\ elapsed = 0 /\ boot = 0 /\ gate = None /\ task = [t \in Task |-> Resting] /\ report = Silent
      /\ promise = None /\ wrong = 0 /\ rounds = entry.level /\ owed = CooldownDuration(entry.level)
  BY Zenon DEF Init
<1>2. /\ entry \in Entry /\ entry.boot = None /\ entry.started = None /\ entry.duration = None
      /\ entry.level # 0 => entry.legacy
  <2>1. CASE entry = Default
    BY <2>1, Absent
  <2>2. CASE \E l \in 1 .. MaxLevel : entry = [Default EXCEPT !.level = l, !.legacy = TRUE]
    <3>1. PICK l \in 1 .. MaxLevel : entry = [Default EXCEPT !.level = l, !.legacy = TRUE]
      BY <2>2, Zenon
    <3>2. 0 \in 0 .. Failures - 1 /\ l \in 0 .. MaxLevel
      OBVIOUS
    <3>. QED
      BY <3>1, <3>2 DEF Default, Entry, Optional
  <2>3. entry = Default \/ \E l \in 1 .. MaxLevel : entry = [Default EXCEPT !.level = l, !.legacy = TRUE]
    BY Zenon DEF Init
  <2>. QED
    BY <2>1, <2>2, <2>3, Zenon
<1>3. /\ entry.level \in Nat /\ entry.level <= MaxLevel /\ entry.failed \in Nat /\ owed \in Nat
      /\ Left(entry, boot, elapsed) \in Nat /\ Failures * MaxLevel \in Nat /\ Failures * entry.level \in Nat
  <2>1. entry.level \in Nat /\ entry.level <= MaxLevel /\ entry.failed \in Nat
    BY <1>2, EntryTypes
  <2>2. Left(entry, boot, elapsed) \in Nat
    BY <1>1, <1>2, EntryTypes
  <2>3. owed \in Nat
    BY <1>1, <2>1, DurationType
  <2>4. Failures * MaxLevel \in Nat /\ Failures * entry.level \in Nat
    BY <2>1
  <2>. QED
    BY <2>1, <2>2, <2>3, <2>4
<1>4. Owes
  <2>1. CASE entry.level = 0
    <3>1. owed = 0
      BY <1>1, <2>1 DEF CooldownDuration
    <3>. QED
      BY <1>3, <3>1 DEF Owes
  <2>2. CASE entry.level # 0
    <3>1. Left(entry, boot, elapsed) = CooldownDuration(entry.level)
      BY <1>1, <1>2, <2>2 DEF Left, Cooling, Unstarted, Duration
    <3>. QED
      BY <1>1, <1>3, <3>1 DEF Owes
  <2>. QED
    BY <2>1, <2>2
<1>5. EntryPast /\ Promised /\ GuessesAreCounted
  BY <1>1, <1>2, <1>3 DEF EntryPast, Promised, GuessesAreCounted
<1>6. Resting \in Tasks /\ Resting.at = "idle" /\ Resting.seen = 0
  BY DEF Resting, Tasks
<1>7. \A t \in Task : task[t] = Resting
  BY <1>1, Zenon
<1>8. TasksSound /\ Gated
  BY <1>1, <1>6, <1>7 DEF TasksSound, Sound, Gated
<1>9. TypeOK
  <2>1. task \in [Task -> Tasks] /\ wrong \in 0 .. Failures * MaxLevel /\ rounds \in 0 .. MaxLevel
    BY <1>1, <1>3, <1>6
  <2>. QED
    BY <1>1, <1>2, <1>3, <2>1, Quietly DEF TypeOK, Tasks, Optional
<1>10. NoVerdictWhileCooling
  BY <1>1, Quietly DEF NoVerdictWhileCooling
<1>. QED
  BY <1>4, <1>5, <1>8, <1>9, <1>10 DEF CooldownInvariant

LEMMA CooldownStep ==
    ASSUME CooldownInvariant, [Next]_vars
    PROVE  CooldownInvariant'
<1>1. CASE \E t \in Task : Begin(t)
  BY <1>1, BeginKeeps
<1>2. CASE \E t \in Task : Acquire(t)
  BY <1>2, AcquireKeeps
<1>3. CASE \E t \in Task : CheckCooldown(t)
  BY <1>3, CheckKeeps
<1>4. CASE \E t \in Task : HashPin(t)
  BY <1>4, HashKeeps
<1>5. CASE \E t \in Task : ClearAttempts(t)
  BY <1>5, ClearKeeps
<1>6. CASE \E t \in Task : RecordFailure(t)
  BY <1>6, RecordKeeps
<1>7. CASE \E t \in Task : GivesUp(t)
  BY <1>7, GivesUpKeeps
<1>8. CASE ActivatePairing
  BY <1>8, ActivateKeeps
<1>9. CASE Crash
  BY <1>9, CrashKeeps
<1>10. CASE Reboot
  BY <1>10, RebootKeeps
<1>11. CASE Tick
  BY <1>11, TickKeeps
<1>12. CASE UNCHANGED vars
  BY <1>12 DEF vars, CooldownInvariant, TypeOK, EntryPast, Owes, Promised, TasksSound, Sound, Gated,
               GuessesAreCounted, NoVerdictWhileCooling
<1>. QED
  BY <1>1, <1>2, <1>3, <1>4, <1>5, <1>6, <1>7, <1>8, <1>9, <1>10, <1>11, <1>12 DEF Next

THEOREM CooldownSafe == Spec => []CooldownInvariant
<1>1. Init => CooldownInvariant
  BY CooldownInit
<1>2. CooldownInvariant /\ [Next]_vars => CooldownInvariant'
  BY CooldownStep
<1>. QED
  BY <1>1, <1>2, PTL DEF Spec

\* The entry, the clock, the gate, the tasks and the histories have their types.
THEOREM TypeCorrect == Spec => []TypeOK
<1>1. CooldownInvariant => TypeOK
  BY DEF CooldownInvariant
<1>. QED
  BY <1>1, CooldownSafe, PTL

\* verify_pin_with_cooldown judges no PIN, right or wrong, before every cooldown
\* recorded for this pairing has run out in true time.
THEOREM NoVerdictEarly == Spec => []NoVerdictWhileCooling
<1>1. CooldownInvariant => NoVerdictWhileCooling
  BY DEF CooldownInvariant
<1>. QED
  BY <1>1, CooldownSafe, PTL

\* Every PIN that verify_pin_with_cooldown called wrong is in the entry.
THEOREM EveryGuessCounted == Spec => []GuessesAreCounted
<1>1. CooldownInvariant => GuessesAreCounted
  BY DEF CooldownInvariant
<1>. QED
  BY <1>1, CooldownSafe, PTL

\* A step that refuses a PIN for a cooldown is a check that found one running.
LEMMA WhoReportsCooling ==
    ASSUME CooldownInvariant, NEW t \in Task, task[t].at = "check", task[t].due, Next
    PROVE  report'.outcome # "cooling"
<1>1. /\ entry \in Entry /\ boot \in Nat /\ task[t].seen \in Nat /\ gate = t
      /\ Left(entry, boot, task[t].seen) = 0
  BY Typed DEF CooldownInvariant, Gated, TasksSound, Sound, Tasks
<1>2. ActiveCooldown(entry, task[t].seen).left = 0
  BY <1>1, CheckedEntry
<1>3. Silent.outcome # "cooling"
  BY DEF Silent
<1>4. ASSUME NEW u \in Task, CheckCooldown(u) PROVE report'.outcome # "cooling"
  <2>1. u = t
    BY <1>1, <1>4 DEF CooldownInvariant, Gated, CheckCooldown
  <2>2. report' = Silent
    BY <1>2, <1>4, <2>1 DEF CheckCooldown
  <2>. QED
    BY <1>3, <2>2
<1>5. ASSUME NEW u \in Task, Begin(u) \/ Acquire(u) \/ HashPin(u) \/ GivesUp(u)
      PROVE  report'.outcome # "cooling"
  BY <1>3, <1>5 DEF Begin, Acquire, HashPin, GivesUp
<1>6. ASSUME NEW u \in Task, ClearAttempts(u) PROVE report'.outcome # "cooling"
  BY <1>3, <1>6 DEF ClearAttempts
<1>7. ASSUME NEW u \in Task, RecordFailure(u) PROVE report'.outcome # "cooling"
  <2>1. \/ report' = Silent
        \/ \E retry : Reports("started", retry) \/ Reports("incorrect", retry)
    BY <1>7 DEF RecordFailure
  <2>. QED
    BY <1>3, <2>1 DEF Reports
<1>8. CASE ActivatePairing \/ Crash \/ Reboot \/ Tick
  BY <1>3, <1>8 DEF ActivatePairing, Crash, Reboot, MemoryLost, Tick
<1>. QED
  BY <1>4, <1>5, <1>6, <1>7, <1>8 DEF Next

\* The time to wait that verify_pin_with_cooldown gave out is true: when it is over, on
\* a phone that stayed on, no PIN is refused for the same cooldown.
THEOREM RetryTimeHonest == Spec => RetryAfterIsHonest
<1>1. ASSUME CooldownInvariant, [Next]_vars
      PROVE  [\A t \in Task : task[t].at = "check" /\ task[t].due => report'.outcome # "cooling"]_vars
  BY <1>1, WhoReportsCooling
<1>. QED
  BY <1>1, CooldownSafe, PTL DEF Spec, RetryAfterIsHonest

-----------------------------------------------------------------------------
\* Cooldowns double.  What one lasts is computed in 32 bits from the level, what it
\* should last is defined from the one before: the two are compared by induction.

\* The library's induction takes a predicate, which the provers cannot instantiate;
\* this is the same for a set.
LEMMA SetInduction ==
    ASSUME NEW S, 0 \in S, \A n \in Nat : n \in S => n + 1 \in S
    PROVE  Nat \subseteq S
<1>. DEFINE R == OpToRel(<, Nat)
            T == Nat \ S
<1>1. SUFFICES ASSUME T # {} PROVE FALSE
  OBVIOUS
<1>2. \A x, y \in Nat : x < y => <<x, y>> \in R
  BY DEF OpToRel
<1>3. IsWellFoundedOn(R, Nat)
  BY NatLessThanWellFounded DEF OpToRel
<1>. HIDE DEF R
<1>4. T \subseteq Nat
  OBVIOUS
<1>5. PICK x \in T : \A y \in T : <<y, x>> \notin R
  <2>. HIDE DEF T
  <2>. QED
    BY <1>1, <1>3, <1>4, WFMin
<1>6. x \in Nat /\ x # 0 /\ x - 1 \in Nat /\ x - 1 < x /\ (x - 1) + 1 = x
  BY <1>5
<1>7. x - 1 \in S
  BY <1>2, <1>5, <1>6
<1>8. x \in S
  BY <1>6, <1>7
<1>. QED
  BY <1>5, <1>8

\* One level more, from the level below.
Doubled(n, below) == IF n = 0 THEN 0
                     ELSE IF n = 1 THEN Lesser(Base, Longest)
                     ELSE Lesser(2 * below, Longest)

\* The recursive definition defines a function: there are such functions as far as any level.
LEMMA ExpectedExists ==
    \E f : f = [n \in 0 .. MaxLevel |-> Doubled(n, f[n - 1])]
<1>. DEFINE Upto(k) == \E f : f = [n \in 0 .. k |-> Doubled(n, f[n - 1])]
            S == {k \in Nat : Upto(k)}
<1>1. 0 \in S
  <2>. DEFINE f == [n \in 0 .. 0 |-> 0]
  <2>1. \A n \in 0 .. 0 : n = 0 /\ Doubled(n, f[n - 1]) = 0
    BY DEF Doubled
  <2>2. f = [n \in 0 .. 0 |-> Doubled(n, f[n - 1])]
    BY <2>1
  <2>. HIDE DEF f
  <2>. QED
    BY <2>2
<1>2. ASSUME NEW k \in Nat, k \in S PROVE k + 1 \in S
  <2>1. PICK f : f = [n \in 0 .. k |-> Doubled(n, f[n - 1])]
    BY <1>2
  <2>. DEFINE g == [n \in 0 .. k + 1 |-> IF n = k + 1 THEN Doubled(n, f[k]) ELSE f[n]]
  <2>2. ASSUME NEW n \in 0 .. k + 1 PROVE g[n] = Doubled(n, g[n - 1])
    <3>1. CASE n = k + 1
      <4>1. g[n] = Doubled(n, f[k]) /\ n - 1 = k /\ k \in 0 .. k + 1 /\ k # k + 1
        BY <3>1
      <4>2. g[k] = f[k]
        BY <4>1
      <4>. QED
        BY <4>1, <4>2
    <3>2. CASE n # k + 1
      <4>1. n \in 0 .. k /\ g[n] = f[n] /\ f[n] = Doubled(n, f[n - 1])
        BY <2>1, <3>2
      <4>2. CASE n = 0
        BY <4>1, <4>2 DEF Doubled
      <4>3. CASE n # 0
        <5>1. n - 1 \in 0 .. k + 1 /\ n - 1 # k + 1
          BY <3>2, <4>3
        <5>2. g[n - 1] = f[n - 1]
          BY <5>1
        <5>. QED
          BY <4>1, <5>2
      <4>. QED
        BY <4>2, <4>3
    <3>. QED
      BY <3>1, <3>2
  <2>3. g = [n \in 0 .. k + 1 |-> g[n]]
    OBVIOUS
  <2>. HIDE DEF g
  <2>4. g = [n \in 0 .. k + 1 |-> Doubled(n, g[n - 1])]
    BY <2>2, <2>3
  <2>. QED
    BY <2>4
<1>3. Nat \subseteq S
  <2>. HIDE DEF S
  <2>. QED
    BY <1>1, <1>2, SetInduction
<1>. QED
  BY <1>3

LEMMA ExpectedDoubles == \A n \in 0 .. MaxLevel : Expected[n] = Doubled(n, Expected[n - 1])
<1>1. PICK f : f = [n \in 0 .. MaxLevel |-> Doubled(n, f[n - 1])]
  BY ExpectedExists
<1>2. f = [n \in 0 .. MaxLevel |-> IF n = 0 THEN 0
                                   ELSE IF n = 1 THEN Lesser(Base, Longest)
                                   ELSE Lesser(2 * f[n - 1], Longest)]
  BY <1>1 DEF Doubled
<1>3. Expected = [n \in 0 .. MaxLevel |-> IF n = 0 THEN 0
                                          ELSE IF n = 1 THEN Lesser(Base, Longest)
                                          ELSE Lesser(2 * Expected[n - 1], Longest)]
  BY <1>2 DEF Expected
<1>. QED
  BY <1>3 DEF Doubled

\* With one failure more, 1u32 << level and its saturated value make at least twice the cooldown.
LEMMA DurationDoubles ==
    ASSUME NEW n \in Nat, n < MaxLevel
    PROVE  Doubled(n + 1, CooldownDuration(n)) <= CooldownDuration(n + 1)
<1>1. n \in 0 .. MaxLevel /\ n + 1 \in 0 .. MaxLevel
  OBVIOUS
<1>2. CooldownDuration(n) \in Nat /\ CooldownDuration(n + 1) \in Nat
  BY <1>1, DurationType
<1>3. CASE n >= ShiftBits
  <2>1. CooldownDuration(n + 1) = Lesser(Base * (2 ^ ShiftBits - 1), Longest)
    BY <1>3 DEF CooldownDuration
  <2>2. ShiftBits \in 0 .. ShiftBits /\ 2 ^ ShiftBits \in Nat \ {0}
    BY PowersAreNumbers
  <2>3. Base * (2 ^ ShiftBits - 1) \in Nat
    BY <2>2
  <2>4. CooldownDuration(n + 1) = Longest
    BY <2>1, <2>3, SaturatesLate DEF Lesser
  <2>. QED
    BY <1>2, <2>4 DEF Doubled, Lesser
<1>4. CASE n = 0
  <2>1. CooldownDuration(n + 1) = Lesser(Base * (2 ^ 0), Longest)
    BY <1>4 DEF CooldownDuration
  <2>2. CooldownDuration(n + 1) = Lesser(Base, Longest)
    BY <2>1, PowersDouble
  <2>. QED
    BY <1>4, <2>2 DEF Doubled, Lesser
<1>5. CASE n # 0 /\ n < ShiftBits
  <2>. DEFINE p == 2 ^ (n - 1)
  <2>1. n - 1 \in 0 .. ShiftBits /\ n - 1 \in 0 .. ShiftBits - 1 /\ (n - 1) + 1 = n /\ (n + 1) - 1 = n
    BY <1>5
  <2>2. p \in Nat /\ 2 ^ n = 2 * p
    BY <2>1, PowersAreNumbers, PowersDouble
  <2>3. CooldownDuration(n) = Lesser(Base * p, Longest)
    BY <1>5, <2>1 DEF CooldownDuration
  <2>4. CooldownDuration(n + 1) = Lesser(Base * (2 ^ n), Longest)
    BY <1>5, <2>1 DEF CooldownDuration
  <2>. HIDE DEF p
  <2>5. Base * p \in Nat /\ Base * (2 * p) = 2 * (Base * p)
    BY <2>2
  <2>6. Doubled(n + 1, CooldownDuration(n)) = Lesser(2 * CooldownDuration(n), Longest)
    BY <1>5 DEF Doubled
  <2>. QED
    BY <2>2, <2>3, <2>4, <2>5, <2>6 DEF Lesser
<1>. QED
  BY <1>3, <1>4, <1>5

\* A cooldown is as long as it should be, or as any before it should have been.
LEMMA LongEnough ==
    ASSUME NEW l \in 0 .. MaxLevel, NEW m \in 0 .. l
    PROVE  Expected[m] \in Nat /\ Expected[m] <= CooldownDuration(l)
<1>. DEFINE Good(n) == /\ Expected[n] \in Nat /\ Expected[n] <= Longest
                       /\ Expected[n] <= CooldownDuration(n)
                       /\ \A i \in 0 .. n : Expected[i] \in Nat /\ Expected[i] <= Expected[n]
            S == {n \in Nat : n <= MaxLevel => Good(n)}
<1>1. 0 \in S
  <2>1. Expected[0] = 0 /\ CooldownDuration(0) = 0
    BY ExpectedDoubles DEF Doubled, CooldownDuration
  <2>. QED
    BY <2>1
<1>2. ASSUME NEW n \in Nat, n \in S PROVE n + 1 \in S
  <2>. SUFFICES ASSUME n + 1 <= MaxLevel PROVE Good(n + 1)
    OBVIOUS
  <2>1. Good(n) /\ n \in 0 .. MaxLevel /\ n + 1 \in 0 .. MaxLevel /\ n < MaxLevel /\ (n + 1) - 1 = n
    BY <1>2
  <2>2. Expected[n + 1] = Doubled(n + 1, Expected[n])
    BY <2>1, ExpectedDoubles
  <2>3. CooldownDuration(n) \in Nat /\ CooldownDuration(n + 1) \in Nat
    BY <2>1, DurationType
  <2>4. Doubled(n + 1, CooldownDuration(n)) <= CooldownDuration(n + 1)
    BY <2>1, DurationDoubles
  <2>5. /\ Expected[n + 1] \in Nat /\ Expected[n + 1] <= Longest /\ Expected[n] <= Expected[n + 1]
        /\ Expected[n + 1] <= Doubled(n + 1, CooldownDuration(n))
        /\ Doubled(n + 1, CooldownDuration(n)) \in Nat
    <3>1. CASE n = 0
      <4>1. Expected[n] = 0
        BY <2>1, <3>1, ExpectedDoubles DEF Doubled
      <4>. QED
        BY <2>2, <3>1, <4>1 DEF Doubled, Lesser
    <3>2. CASE n # 0
      BY <2>1, <2>2, <2>3, <3>2 DEF Doubled, Lesser
    <3>. QED
      BY <3>1, <3>2
  <2>6. Expected[n + 1] <= CooldownDuration(n + 1)
    BY <2>3, <2>4, <2>5
  <2>7. ASSUME NEW i \in 0 .. n + 1 PROVE Expected[i] \in Nat /\ Expected[i] <= Expected[n + 1]
    <3>1. CASE i = n + 1
      BY <2>5, <3>1
    <3>2. CASE i # n + 1
      <4>1. i \in 0 .. n
        BY <3>2
      <4>. QED
        BY <2>1, <2>5, <4>1
    <3>. QED
      BY <3>1, <3>2
  <2>. QED
    BY <2>5, <2>6, <2>7
<1>3. Nat \subseteq S
  <2>. HIDE DEF S
  <2>. QED
    BY <1>1, <1>2, SetInduction
<1>4. Good(l)
  BY <1>3
<1>. HIDE DEF Good
<1>5. CooldownDuration(l) \in Nat
  BY DurationType
<1>. QED
  BY <1>4, <1>5 DEF Good

\* The entry's level is never behind the cooldowns in a row, and a right PIN forgets both.
Escalating == /\ rounds <= entry.level
              /\ \A t \in Task : task[t].at = "clear" => rounds = 0
              /\ CooldownsEscalate

LEMMA EscalatingInit ==
    ASSUME Init
    PROVE  Escalating
<1>1. rounds = entry.level /\ report = Silent /\ task = [t \in Task |-> Resting]
  BY Zenon DEF Init
<1>2. CooldownInvariant
  BY CooldownInit
<1>3. rounds <= entry.level
  BY <1>1, <1>2, Typed DEF CooldownInvariant
<1>4. \A t \in Task : task[t].at # "clear"
  <2>1. \A t \in Task : task[t] = Resting
    BY <1>1, Zenon
  <2>2. Resting.at # "clear"
    BY DEF Resting
  <2>. QED
    BY <2>1, <2>2, Zenon
<1>. QED
  BY <1>1, <1>3, <1>4 DEF Escalating, CooldownsEscalate, Silent

\* A step that reports no cooldown started, and does not bring a task to `clear'.
LEMMA Unescalated ==
    ASSUME Escalating, report'.outcome # "started", rounds' <= entry'.level,
           \/ rounds' = 0
           \/ /\ rounds' = rounds
              /\ \A t \in Task : task'[t].at = "clear" => task[t].at = "clear"
    PROVE  Escalating'
BY DEF Escalating, CooldownsEscalate

LEMMA EscalatingStep ==
    ASSUME CooldownInvariant, Escalating, [Next]_vars
    PROVE  Escalating'
<1>1. /\ entry \in Entry /\ boot \in Nat /\ task \in [Task -> Tasks] /\ rounds \in 0 .. MaxLevel
      /\ TasksSound /\ Gated
  BY Typed DEF CooldownInvariant
<1>2. entry.level \in Nat /\ entry.level <= MaxLevel /\ rounds \in Nat /\ rounds <= entry.level
  <2>1. entry.level \in 0 .. MaxLevel
    BY <1>1 DEF Entry
  <2>. QED
    BY <1>1, <2>1 DEF Escalating
<1>3. Silent.outcome # "started" /\ Resting.at # "clear"
  BY DEF Silent, Resting
<1>4. ASSUME NEW t \in Task, Leaves(t) PROVE \A u \in Task : task'[u].at = "clear" => task[u].at = "clear"
  BY <1>1, <1>3, <1>4 DEF Leaves
<1>5. ASSUME NEW t \in Task, Begin(t) PROVE Escalating'
  <2>1. report' = Silent /\ UNCHANGED <<entry, rounds>> /\ task' = [task EXCEPT ![t].at = "waiting"]
    BY <1>5 DEF Begin, history
  <2>2. \A u \in Task : task'[u].at = "clear" => task[u].at = "clear"
    BY <1>1, <2>1 DEF Tasks
  <2>. QED
    BY <1>2, <1>3, <2>1, <2>2, Unescalated
<1>6. ASSUME NEW t \in Task, Acquire(t) PROVE Escalating'
  <2>1. /\ report' = Silent /\ UNCHANGED <<entry, rounds>>
        /\ task' = [task EXCEPT ![t] = [at |-> "check", seen |-> elapsed, due |-> promise = 0]]
    BY <1>6 DEF Acquire, history
  <2>2. \A u \in Task : task'[u].at = "clear" => task[u].at = "clear"
    BY <1>1, <2>1 DEF Tasks
  <2>. QED
    BY <1>2, <1>3, <2>1, <2>2, Unescalated
<1>7. ASSUME NEW t \in Task, CheckCooldown(t) PROVE Escalating'
  <2>1. task[t].seen \in Nat
    BY <1>1 DEF Tasks
  <2>2. entry' \in {entry, ActiveCooldown(entry, task[t].seen).entry} /\ rounds' = rounds
    BY <1>7 DEF CheckCooldown, Update
  <2>3. entry'.level = entry.level
    BY <1>1, <2>1, <2>2, CheckedEntry
  <2>4. report'.outcome # "started"
    BY <1>3, <1>7 DEF CheckCooldown, Reports
  <2>5. task' = [task EXCEPT ![t].at = "hash"] \/ Leaves(t)
    BY <1>7 DEF CheckCooldown
  <2>6. \A u \in Task : task'[u].at = "clear" => task[u].at = "clear"
    BY <1>1, <1>4, <2>5 DEF Tasks
  <2>. QED
    BY <1>2, <2>2, <2>3, <2>4, <2>6, Unescalated
<1>8. ASSUME NEW t \in Task, HashPin(t) PROVE Escalating'
  <2>1. report' = Silent /\ entry' = entry
    BY <1>8 DEF HashPin
  <2>2. \/ rounds' = 0
        \/ rounds' = rounds /\ task' = [task EXCEPT ![t].at = "record", ![t].seen = elapsed]
    BY <1>8 DEF HashPin
  <2>3. \/ rounds' = 0
        \/ rounds' = rounds /\ \A u \in Task : task'[u].at = "clear" => task[u].at = "clear"
    BY <1>1, <2>2 DEF Tasks
  <2>. QED
    BY <1>2, <1>3, <2>1, <2>3, Unescalated
<1>9. ASSUME NEW t \in Task, ClearAttempts(t) PROVE Escalating'
  <2>1. rounds = 0 /\ rounds' = 0
    BY <1>9 DEF ClearAttempts, history, Escalating
  <2>2. entry' \in {entry, Default} /\ report'.outcome # "started"
    BY <1>3, <1>9 DEF ClearAttempts, Update
  <2>. QED
    BY <1>2, <2>1, <2>2, Absent, Unescalated
<1>10. ASSUME NEW t \in Task, RecordFailure(t) PROVE Escalating'
  <2>. DEFINE e == AfterFailure(entry, task[t].seen)
  <2>1. task[t].seen \in Nat
    BY <1>1 DEF Tasks
  <2>2. PICK done, ok \in BOOLEAN :
           /\ entry' = IF done THEN e ELSE entry
           /\ ok => done
           /\ IF done /\ LimitReached(entry) THEN rounds' = Lesser(rounds + 1, MaxLevel)
              ELSE rounds' = rounds
           /\ IF ~ok THEN report' = Silent
              ELSE IF LimitReached(entry) THEN Reports("started", CooldownDuration(e.level))
              ELSE Reports("incorrect", 0)
    BY <1>10 DEF RecordFailure, Update
  <2>3. /\ e \in Entry /\ e.level = IF LimitReached(entry) THEN Lesser(entry.level + 1, MaxLevel)
                                    ELSE entry.level
    BY <1>1, <2>1, CountedEntry DEF AfterFailure
  <2>. HIDE DEF e
  <2>4. e.level \in 0 .. MaxLevel
    BY <2>3 DEF Entry
  <2>5. rounds' \in Nat /\ rounds' <= entry'.level
    BY <1>1, <1>2, <2>2, <2>3 DEF Lesser
  <2>6. \A u \in Task : task'[u].at = "clear" => rounds' = 0
    <3>. SUFFICES ASSUME NEW u \in Task, task'[u].at = "clear" PROVE FALSE
      OBVIOUS
    <3>1. task[u].at = "clear" /\ task[t].at = "record"
      BY <1>4, <1>10 DEF RecordFailure
    <3>2. u = t
      BY <1>1, <3>1 DEF Gated
    <3>. QED
      BY <3>1, <3>2
  <2>7. CooldownsEscalate'
    <3>. SUFFICES ASSUME report'.outcome = "started" PROVE report'.retry >= Expected[rounds']
      BY DEF CooldownsEscalate
    <3>1. ok /\ done /\ LimitReached(entry) /\ report' = [outcome |-> "started", retry |-> CooldownDuration(e.level)]
      BY <1>3, <2>2 DEF Reports
    <3>2. rounds' \in 0 .. e.level
      BY <2>2, <2>4, <2>5, <3>1
    <3>3. Expected[rounds'] \in Nat /\ Expected[rounds'] <= CooldownDuration(e.level)
      BY <2>4, <3>2, LongEnough
    <3>4. CooldownDuration(e.level) \in Nat
      BY <2>4, DurationType
    <3>. QED
      BY <3>1, <3>3, <3>4
  <2>. QED
    BY <2>5, <2>6, <2>7 DEF Escalating
<1>11. ASSUME NEW t \in Task, GivesUp(t) PROVE Escalating'
  <2>1. report' = Silent /\ UNCHANGED <<entry, rounds>>
    BY <1>11 DEF GivesUp, history
  <2>2. \A u \in Task : task'[u].at = "clear" => task[u].at = "clear"
    BY <1>4, <1>11 DEF GivesUp
  <2>. QED
    BY <1>2, <1>3, <2>1, <2>2, Unescalated
<1>12. CASE ActivatePairing
  <2>1. entry' \in {entry, Default} /\ rounds' = 0 /\ report' = Silent
    BY <1>12 DEF ActivatePairing
  <2>. QED
    BY <1>2, <1>3, <2>1, Absent, Unescalated
<1>13. CASE Crash \/ Reboot
  <2>1. MemoryLost /\ UNCHANGED <<entry, rounds>>
    BY <1>13 DEF Crash, Reboot, history
  <2>2. report' = Silent /\ \A u \in Task : task'[u].at # "clear"
    BY <1>3, <2>1 DEF MemoryLost
  <2>. QED
    BY <1>2, <1>3, <2>1, <2>2, Unescalated
<1>14. CASE Tick
  <2>1. report' = Silent /\ UNCHANGED <<entry, rounds, task>>
    BY <1>14 DEF Tick
  <2>. QED
    BY <1>2, <1>3, <2>1, Unescalated
<1>15. CASE UNCHANGED vars
  BY <1>15 DEF vars, Escalating, CooldownsEscalate
<1>. QED
  BY <1>5, <1>6, <1>7, <1>8, <1>9, <1>10, <1>11, <1>12, <1>13, <1>14, <1>15 DEF Next

\* However many wrong PINs, each cooldown that starts lasts at least twice as long as
\* the one before it, up to the longest: neither the level's saturation nor the
\* multiplier's shortens one.
THEOREM CooldownsDouble == Spec => []CooldownsEscalate
<1>1. Init => Escalating
  BY EscalatingInit
<1>2. CooldownInvariant /\ Escalating /\ [Next]_vars => Escalating'
  BY EscalatingStep
<1>3. Escalating => CooldownsEscalate
  BY DEF Escalating
<1>. QED
  BY <1>1, <1>2, <1>3, CooldownSafe, PTL DEF Spec

=============================================================================
