----------------------- MODULE GenerationStoreProofs -----------------------
(***************************************************************************)
(* What the routines of storage.rs do to a sound store, whichever of their *)
(* calls fails: one lemma per routine, from single writes upwards.         *)
(***************************************************************************)
EXTENDS PhonePairingInvariant, TLAPS

\* What a routine that only cleans up leaves alone: the active generation, the
\* pending one unless it has become active, their secrets, and a commit that has
\* not been acted on.
Keeps(s, t) ==
    /\ t.active = s.active
    /\ Named(t) \subseteq Named(s) \cup {None}
    /\ t.pending # s.pending => t.pending = None /\ s.pending = s.active
    /\ s.committed \notin {None, s.active} => t.committed = s.committed
    /\ \A g \in {s.pending, s.active} :
          (g \in s.bundles => g \in t.bundles) /\ (g \in s.keys => g \in t.keys)

USE NoneIsNoGeneration

-----------------------------------------------------------------------------
\* Single writes.

LEMMA WriteOutcome ==
    ASSUME NEW s, NEW t, NEW o \in Write(s, t)
    PROVE  (o.st = s \/ o.st = t) /\ (o.ok => o.st = t)
BY DEF Write, Ok, Fail

LEMMA OkOutcome ==
    ASSUME NEW s, NEW o \in Ok(s)
    PROVE  o.st = s /\ o.ok
BY DEF Ok

LEMMA FailOutcome ==
    ASSUME NEW s, NEW o \in Fail(s)
    PROVE  o.st = s /\ ~o.ok
BY DEF Fail

LEMMA KeepsTransitive ==
    ASSUME NEW s \in Store, NEW t \in Store, NEW u \in Store, Keeps(s, t), Keeps(t, u)
    PROVE  Keeps(s, u)
BY DEF Keeps, Named, Store, MaybeGeneration

\* Removing a generation that is neither active nor an offered pending one.
LEMMA RemoveOutcome ==
    ASSUME NEW s \in Store, NEW g \in Generation, NEW o \in RemoveGeneration(s, g)
    PROVE  /\ o.st \in Store
           /\ o.st.active = s.active /\ o.st.staging = s.staging /\ o.st.pending = s.pending
           /\ o.st.committed = s.committed /\ o.st.retiring = s.retiring
           /\ o.st.keys \in {s.keys, s.keys \ {g}}
           /\ o.st.bundles \in {s.bundles, s.bundles \ {g}}
           /\ o.ok => g \notin o.st.bundles
<1>1. PICK a \in DeleteKey(s, g) : o \in (IF a.ok THEN DeleteBundle(a.st, g) ELSE {a})
  BY DEF RemoveGeneration, Then
<1>2. (a.st = s \/ a.st = [s EXCEPT !.keys = @ \ {g}]) /\ a.st \in Store
  BY <1>1, WriteOutcome DEF DeleteKey, Store
<1>3. CASE a.ok
  <2>1. [a.st EXCEPT !.bundles = @ \ {g}] \in Store
    BY <1>2 DEF Store
  <2>2. /\ o.st = a.st \/ o.st = [a.st EXCEPT !.bundles = @ \ {g}]
        /\ o.ok => o.st = [a.st EXCEPT !.bundles = @ \ {g}]
    BY <1>1, <1>2, <1>3, <2>1, WriteOutcome DEF DeleteBundle
  <2> QED BY <1>2, <2>2 DEF Store
<1>4. CASE ~a.ok
  BY <1>1, <1>2, <1>4 DEF Store
<1> QED BY <1>3, <1>4

LEMMA RemoveSound ==
    ASSUME NEW O \in SUBSET Generation, NEW s, Sound(s, O), NEW g \in Generation,
           g # s.active, g = s.pending => g \notin O,
           NEW o \in RemoveGeneration(s, g)
    PROVE  Sound(o.st, O)
<1>1. s \in Store
  BY DEF Sound
<1> QED
  BY <1>1, RemoveOutcome DEF Sound, ActiveWhole, PendingWhole, CommitFollows, StagingFollows,
     NothingForgotten, RetiringApart, ActiveSettled, KeyBound, Named

-----------------------------------------------------------------------------
\* Cleaning up.

\* Clearing a pointer that names nothing stored, or nothing not named elsewhere.
LEMMA ClearRetiring ==
    ASSUME NEW O \in SUBSET Generation, NEW s, Sound(s, O),
           s.retiring \notin s.bundles,
           NEW o \in ClearPointer(s, "retiring")
    PROVE  /\ Sound(o.st, O) /\ Keeps(s, o.st)
           /\ o.st = s \/ o.st = [s EXCEPT !.retiring = None]
           /\ o.ok => o.st.retiring = None
<1>1. [s EXCEPT !["retiring"] = None] = [s EXCEPT !.retiring = None]
      /\ [s EXCEPT !.retiring = None] \in Store /\ s \in Store
  BY DEF Sound, Store, MaybeGeneration
<1>2. (o.st = s \/ o.st = [s EXCEPT !.retiring = None])
      /\ (o.ok => o.st = [s EXCEPT !.retiring = None])
  BY <1>1, WriteOutcome DEF ClearPointer
<1> QED
  BY <1>1, <1>2 DEF Sound, ActiveWhole, PendingWhole, CommitFollows, StagingFollows,
     NothingForgotten, RetiringApart, ActiveSettled, KeyBound, Named, Keeps, Store

\* cleanup_retiring_generation touches the retired generation and its pointer.
LEMMA CleanupRetiringSound ==
    ASSUME NEW O \in SUBSET Generation, NEW s, Sound(s, O),
           NEW o \in CleanupRetiring(s)
    PROVE  /\ Sound(o.st, O) /\ Keeps(s, o.st)
           /\ o.st.staging = s.staging /\ o.st.pending = s.pending
           /\ o.st.committed = s.committed
           /\ o.st.retiring \in {s.retiring, None}
           /\ o.st.bundles \subseteq s.bundles
           /\ o.st.retiring # s.retiring => s.retiring \notin o.st.bundles
           /\ o.ok => o.st.retiring = None
<1>0. s \in Store
  BY DEF Sound
<1>1. CASE s.retiring = None
  <2>1. o.st = s
    BY <1>0, <1>1, OkOutcome DEF CleanupRetiring
  <2> QED BY <1>1, <2>1 DEF Keeps
<1>2. CASE s.retiring # None /\ s.active = s.retiring
  <2>1. o.st = s /\ ~o.ok
    BY <1>0, <1>2, FailOutcome DEF CleanupRetiring
  <2> QED BY <2>1 DEF Keeps
<1>3. CASE s.retiring # None /\ s.active # s.retiring
  <2>1. PICK a \in RemoveGeneration(s, s.retiring) :
            o \in (IF a.ok THEN ClearPointer(a.st, "retiring") ELSE {a})
    BY <1>3 DEF CleanupRetiring, Then
  <2>2. s.retiring \in Generation
    BY <1>0, <1>3 DEF Store, MaybeGeneration
  <2>3. /\ a.st \in Store
        /\ a.st.active = s.active /\ a.st.staging = s.staging /\ a.st.pending = s.pending
        /\ a.st.committed = s.committed /\ a.st.retiring = s.retiring
        /\ a.st.keys \in {s.keys, s.keys \ {s.retiring}}
        /\ a.st.bundles \in {s.bundles, s.bundles \ {s.retiring}}
        /\ a.ok => s.retiring \notin a.st.bundles
    BY <1>0, <2>1, <2>2, RemoveOutcome
  <2>4. s.retiring # s.pending
    BY <1>3 DEF Sound, RetiringApart
  <2>5. Sound(a.st, O)
    BY <1>3, <2>1, <2>2, <2>4, RemoveSound
  <2>6. Keeps(s, a.st)
    BY <1>3, <2>3, <2>4 DEF Keeps, Named
  <2>7. CASE ~a.ok
    BY <2>1, <2>3, <2>5, <2>6, <2>7
  <2>8. CASE a.ok
    <3>1. /\ Sound(o.st, O) /\ Keeps(a.st, o.st)
          /\ o.st = a.st \/ o.st = [a.st EXCEPT !.retiring = None]
          /\ o.ok => o.st.retiring = None
      BY <2>1, <2>3, <2>5, <2>8, ClearRetiring
    <3>2. Keeps(s, o.st)
      BY <1>0, <2>3, <2>6, <3>1, KeepsTransitive DEF Sound
    <3> QED BY <2>3, <2>8, <3>1, <3>2 DEF Store
  <2> QED BY <2>7, <2>8
<1> QED BY <1>1, <1>2, <1>3

LEMMA ClearStaging ==
    ASSUME NEW O \in SUBSET Generation, NEW s, Sound(s, O),
           s.staging \in s.bundles => s.staging = s.active,
           NEW o \in ClearPointer(s, "staging")
    PROVE  /\ Sound(o.st, O) /\ Keeps(s, o.st)
           /\ o.st = s \/ o.st = [s EXCEPT !.staging = None]
           /\ o.ok => o.st.staging = None
<1>1. [s EXCEPT !["staging"] = None] = [s EXCEPT !.staging = None]
      /\ [s EXCEPT !.staging = None] \in Store /\ s \in Store
  BY DEF Sound, Store, MaybeGeneration
<1>2. (o.st = s \/ o.st = [s EXCEPT !.staging = None])
      /\ (o.ok => o.st = [s EXCEPT !.staging = None])
  BY <1>1, WriteOutcome DEF ClearPointer
<1> QED
  BY <1>1, <1>2 DEF Sound, ActiveWhole, PendingWhole, CommitFollows, StagingFollows,
     NothingForgotten, RetiringApart, ActiveSettled, KeyBound, Named, Keeps, Store

LEMMA ClearPending ==
    ASSUME NEW O \in SUBSET Generation, NEW s, Sound(s, O),
           s.pending \in s.bundles => s.pending = s.active,
           s.committed \in {None, s.active},
           NEW o \in ClearPointer(s, "pending")
    PROVE  /\ Sound(o.st, O)
           /\ s.pending = s.active => Keeps(s, o.st)
           /\ o.st = s \/ o.st = [s EXCEPT !.pending = None]
           /\ o.ok => o.st.pending = None
<1>1. [s EXCEPT !["pending"] = None] = [s EXCEPT !.pending = None]
      /\ [s EXCEPT !.pending = None] \in Store /\ s \in Store
  BY DEF Sound, Store, MaybeGeneration
<1>2. (o.st = s \/ o.st = [s EXCEPT !.pending = None])
      /\ (o.ok => o.st = [s EXCEPT !.pending = None])
  BY <1>1, WriteOutcome DEF ClearPointer
<1> QED
  BY <1>1, <1>2 DEF Sound, ActiveWhole, PendingWhole, CommitFollows, StagingFollows,
     NothingForgotten, RetiringApart, ActiveSettled, KeyBound, Named, Keeps, Store

LEMMA ClearCommitted ==
    ASSUME NEW O \in SUBSET Generation, NEW s, Sound(s, O),
           s.committed = s.active, s.active \notin {s.staging, s.pending},
           NEW o \in ClearPointer(s, "committed")
    PROVE  /\ Sound(o.st, O) /\ Keeps(s, o.st)
           /\ o.st = s \/ o.st = [s EXCEPT !.committed = None]
           /\ o.ok => o.st.committed = None
<1>1. [s EXCEPT !["committed"] = None] = [s EXCEPT !.committed = None]
      /\ [s EXCEPT !.committed = None] \in Store /\ s \in Store
  BY DEF Sound, Store, MaybeGeneration
<1>2. (o.st = s \/ o.st = [s EXCEPT !.committed = None])
      /\ (o.ok => o.st = [s EXCEPT !.committed = None])
  BY <1>1, WriteOutcome DEF ClearPointer
<1> QED
  BY <1>1, <1>2 DEF Sound, ActiveWhole, PendingWhole, CommitFollows, StagingFollows,
     NothingForgotten, RetiringApart, ActiveSettled, KeyBound, Named, Keeps, Store

\* cleanup_activation_metadata clears the three pointers in an order in which
\* every prefix can be finished later.
LEMMA CleanupActivationSound ==
    ASSUME NEW O \in SUBSET Generation, NEW s, Sound(s, O),
           NEW g \in Generation, s.active = g, s.committed = g,
           NEW o \in CleanupActivationMetadata(s, g)
    PROVE  /\ Sound(o.st, O) /\ Keeps(s, o.st)
           /\ o.ok => o.st.committed = None
           /\ o.st.retiring # s.retiring => s.retiring \notin o.st.bundles
<1>0. s \in Store
  BY DEF Sound
<1>1. PICK a \in ClearIfNames(s, "staging", g) :
          o \in (IF a.ok
                 THEN Then(ClearIfNames(a.st, "pending", g), LAMBDA u :
                      Then(ClearIfNames(u, "committed", g), LAMBDA v :
                           Attempt(CleanupRetiring(v))))
                 ELSE {a})
  BY DEF CleanupActivationMetadata, Then
<1>2. /\ Sound(a.st, O) /\ Keeps(s, a.st)
      /\ a.st.retiring = s.retiring /\ a.st.committed = g
      /\ a.ok => a.st.staging # g
  <2>1. CASE s.staging = g
    <3>1. a \in ClearPointer(s, "staging")
      BY <1>0, <1>1, <2>1 DEF ClearIfNames, Store
    <3>2. /\ Sound(a.st, O) /\ Keeps(s, a.st)
          /\ a.st = s \/ a.st = [s EXCEPT !.staging = None]
          /\ a.ok => a.st.staging = None
      BY <2>1, <3>1, ClearStaging
    <3> QED BY <1>0, <3>2 DEF Store
  <2>2. CASE s.staging # g
    <3>1. a \in Ok(s)
      BY <1>0, <1>1, <2>2 DEF ClearIfNames, Store
    <3> QED BY <1>0, <2>2, <3>1, OkOutcome DEF Keeps
  <2> QED BY <2>1, <2>2
<1>3. CASE ~a.ok
  BY <1>1, <1>2, <1>3
<1>4. CASE a.ok
  <2>0. a.st \in Store /\ a.st.active = g
    BY <1>2 DEF Sound, Keeps
  <2>1. PICK b \in ClearIfNames(a.st, "pending", g) :
            o \in (IF b.ok
                   THEN Then(ClearIfNames(b.st, "committed", g), LAMBDA v :
                             Attempt(CleanupRetiring(v)))
                   ELSE {b})
    BY <1>1, <1>4 DEF Then
  <2>2. /\ Sound(b.st, O) /\ Keeps(a.st, b.st)
        /\ b.st.retiring = s.retiring /\ b.st.committed = g
        /\ b.st.staging # g
        /\ b.ok => b.st.pending # g
    <3>1. CASE a.st.pending = g
      <4>1. b \in ClearPointer(a.st, "pending")
        BY <2>0, <2>1, <3>1 DEF ClearIfNames, Store
      <4>2. /\ Sound(b.st, O) /\ Keeps(a.st, b.st)
            /\ b.st = a.st \/ b.st = [a.st EXCEPT !.pending = None]
            /\ b.ok => b.st.pending = None
        BY <1>2, <2>0, <3>1, <4>1, ClearPending
      <4> QED BY <1>2, <1>4, <2>0, <4>2 DEF Store
    <3>2. CASE a.st.pending # g
      <4>1. b \in Ok(a.st)
        BY <2>0, <2>1, <3>2 DEF ClearIfNames, Store
      <4> QED BY <1>2, <1>4, <2>0, <3>2, <4>1, OkOutcome DEF Keeps
    <3> QED BY <3>1, <3>2
  <2>3. Keeps(s, b.st)
    BY <1>0, <1>2, <2>0, <2>2, KeepsTransitive DEF Sound
  <2>4. CASE ~b.ok
    BY <2>1, <2>2, <2>3, <2>4
  <2>5. CASE b.ok
    <3>0. b.st \in Store /\ b.st.active = g
      BY <2>0, <2>2 DEF Sound, Keeps
    <3>1. PICK c \in ClearIfNames(b.st, "committed", g) :
              o \in (IF c.ok THEN Attempt(CleanupRetiring(c.st)) ELSE {c})
      BY <2>1, <2>5 DEF Then
    <3>2. c \in ClearPointer(b.st, "committed")
      BY <2>2, <3>0, <3>1 DEF ClearIfNames, Store
    <3>3. /\ Sound(c.st, O) /\ Keeps(b.st, c.st)
          /\ c.st = b.st \/ c.st = [b.st EXCEPT !.committed = None]
          /\ c.ok => c.st.committed = None
      BY <2>2, <2>5, <3>0, <3>2, ClearCommitted
    <3>4. Keeps(s, c.st) /\ c.st.retiring = s.retiring
      BY <1>0, <2>2, <2>3, <3>0, <3>3, KeepsTransitive DEF Sound, Store
    <3>5. CASE ~c.ok
      BY <3>1, <3>3, <3>4, <3>5
    <3>6. CASE c.ok
      <4>1. PICK d \in CleanupRetiring(c.st) : o = [d EXCEPT !.ok = TRUE]
        BY <3>1, <3>6 DEF Attempt
      <4>2. o.st = d.st
        BY <4>1
      <4>3. /\ Sound(d.st, O) /\ Keeps(c.st, d.st)
            /\ d.st.committed = c.st.committed
            /\ d.st.retiring # c.st.retiring => c.st.retiring \notin d.st.bundles
        BY <3>3, <4>1, CleanupRetiringSound
      <4>4. Keeps(s, d.st)
        BY <1>0, <3>3, <3>4, <4>3, KeepsTransitive DEF Sound
      <4> QED BY <3>3, <3>4, <3>6, <4>2, <4>3, <4>4
    <3> QED BY <3>5, <3>6
  <2> QED BY <2>4, <2>5
<1> QED BY <1>3, <1>4

LEMMA FinalizeSound ==
    ASSUME NEW O \in SUBSET Generation, NEW s, Sound(s, O),
           NEW o \in FinalizeActiveActivation(s)
    PROVE  /\ Sound(o.st, O) /\ Keeps(s, o.st)
           /\ o.ok => o.st.active = None \/ o.st.active # o.st.committed
<1>0. s \in Store
  BY DEF Sound
<1>1. CASE s.active # None /\ s.active = s.committed
  <2>1. s.active \in Generation /\ o \in CleanupActivationMetadata(s, s.active)
    BY <1>0, <1>1 DEF FinalizeActiveActivation, Store, MaybeGeneration
  <2>2. /\ Sound(o.st, O) /\ Keeps(s, o.st)
        /\ o.ok => o.st.committed = None
    BY <1>1, <2>1, CleanupActivationSound
  <2> QED BY <2>2
<1>2. CASE ~(s.active # None /\ s.active = s.committed)
  <2>1. o.st = s
    BY <1>0, <1>2, OkOutcome DEF FinalizeActiveActivation
  <2> QED BY <1>2, <2>1 DEF Keeps
<1> QED BY <1>1, <1>2

-----------------------------------------------------------------------------
\* Clearing a setup that has not been offered.

\* What clearing leaves alone: the active generation and its secrets.
Trims(s, t) ==
    /\ t.active = s.active
    /\ Named(t) \subseteq Named(s) \cup {None}
    /\ t.pending \in {s.pending, None}
    /\ s.active \in s.bundles => s.active \in t.bundles

LEMMA DropCandidateFrame ==
    ASSUME NEW s \in Store, NEW g \in MaybeGeneration, NEW o \in DropCandidate(s, g)
    PROVE  /\ o.st.staging = s.staging /\ o.st.pending = s.pending
           /\ o.st.committed = s.committed
           /\ o.st.bundles \subseteq s.bundles
           /\ o.ok => (g \in o.st.bundles => g = s.active)
<1>1. CASE g \in {None, s.active}
  <2>1. o.st = s
    BY <1>1, OkOutcome DEF DropCandidate
  <2> QED BY <1>1, <2>1 DEF Store
<1>2. CASE g \notin {None, s.active}
  <2>1. g \in Generation /\ o \in RemoveGeneration(s, g)
    BY <1>2 DEF DropCandidate, MaybeGeneration
  <2> QED BY <2>1, RemoveOutcome
<1> QED BY <1>1, <1>2

LEMMA DropCandidateSound ==
    ASSUME NEW O \in SUBSET Generation, NEW s, Sound(s, O), NEW g \in MaybeGeneration,
           g = s.pending => g \notin O,
           NEW o \in DropCandidate(s, g)
    PROVE  Sound(o.st, O) /\ Trims(s, o.st)
<1>0. s \in Store
  BY DEF Sound
<1>1. CASE g \in {None, s.active}
  <2>1. o.st = s
    BY <1>0, <1>1, OkOutcome DEF DropCandidate
  <2> QED BY <2>1 DEF Trims
<1>2. CASE g \notin {None, s.active}
  <2>1. g \in Generation /\ o \in RemoveGeneration(s, g)
    BY <1>2 DEF DropCandidate, MaybeGeneration
  <2>2. Sound(o.st, O)
    BY <1>2, <2>1, RemoveSound
  <2> QED BY <1>0, <1>2, <2>1, <2>2, RemoveOutcome DEF Trims, Named
<1> QED BY <1>1, <1>2

\* clear_uncommitted_pending removes every candidate before it clears the
\* pointers, and never the active generation.
LEMMA ClearUncommittedSound ==
    ASSUME NEW O \in SUBSET Generation, NEW s, Sound(s, O), s.pending \notin O,
           NEW o \in ClearUncommittedPending(s)
    PROVE  /\ Sound(o.st, O) /\ Trims(s, o.st)
           /\ o.ok => /\ o.st.staging = None /\ o.st.pending = None
                      /\ o.st.committed = None
<1>0. s \in Store
  BY DEF Sound
<1>1. PICK a \in FinalizeActiveActivation(s) :
          o \in (IF a.ok
                 THEN IF a.st.committed # None THEN Fail(a.st)
                      ELSE Then(DropCandidate(a.st, a.st.staging), LAMBDA u :
                           Then(IF u.pending = u.staging THEN Ok(u)
                                ELSE DropCandidate(u, u.pending), LAMBDA v :
                           Then(ClearPointer(v, "staging"), LAMBDA w :
                                ClearPointer(w, "pending"))))
                 ELSE {a})
  BY DEF ClearUncommittedPending, Then
<1>2. Sound(a.st, O) /\ Keeps(s, a.st)
  BY <1>1, FinalizeSound
<1>3. a.st \in Store /\ Trims(s, a.st) /\ a.st.pending \notin O
  BY <1>0, <1>2 DEF Sound, Keeps, Trims, Store
<1>4. CASE ~a.ok
  BY <1>1, <1>2, <1>3, <1>4
<1>5. CASE a.ok /\ a.st.committed # None
  <2>1. o.st = a.st /\ ~o.ok
    BY <1>1, <1>3, <1>5, FailOutcome
  <2> QED BY <1>2, <1>3, <2>1
<1>6. CASE a.ok /\ a.st.committed = None
  <2>1. PICK b \in DropCandidate(a.st, a.st.staging) :
            o \in (IF b.ok
                   THEN Then(IF b.st.pending = b.st.staging THEN Ok(b.st)
                             ELSE DropCandidate(b.st, b.st.pending), LAMBDA v :
                        Then(ClearPointer(v, "staging"), LAMBDA w :
                             ClearPointer(w, "pending")))
                   ELSE {b})
    BY <1>1, <1>6 DEF Then
  <2>2. a.st.staging \in MaybeGeneration
    BY <1>3 DEF Store
  <2>3. /\ Sound(b.st, O) /\ Trims(a.st, b.st)
        /\ b.st.staging = a.st.staging /\ b.st.pending = a.st.pending
        /\ b.st.committed = None
        /\ b.ok => (b.st.staging \in b.st.bundles => b.st.staging = b.st.active)
    <3>1. Sound(b.st, O) /\ Trims(a.st, b.st)
      BY <1>2, <1>3, <2>1, <2>2, DropCandidateSound
    <3>2. /\ b.st.staging = a.st.staging /\ b.st.pending = a.st.pending
          /\ b.st.committed = None
          /\ b.ok => (a.st.staging \in b.st.bundles => a.st.staging = a.st.active)
      BY <1>3, <1>6, <2>1, <2>2, DropCandidateFrame
    <3> QED BY <3>1, <3>2 DEF Trims
  <2>4. b.st \in Store /\ Trims(s, b.st) /\ b.st.pending \notin O
    BY <1>3, <2>3 DEF Sound, Trims
  <2>5. CASE ~b.ok
    BY <2>1, <2>3, <2>4, <2>5
  <2>6. CASE b.ok
    <3>1. PICK c \in (IF b.st.pending = b.st.staging THEN Ok(b.st)
                      ELSE DropCandidate(b.st, b.st.pending)) :
              o \in (IF c.ok
                     THEN Then(ClearPointer(c.st, "staging"), LAMBDA w :
                               ClearPointer(w, "pending"))
                     ELSE {c})
      BY <2>1, <2>6 DEF Then
    <3>2. /\ Sound(c.st, O) /\ Trims(b.st, c.st)
          /\ c.st.staging = b.st.staging /\ c.st.pending = b.st.pending
          /\ c.st.committed = None
          /\ c.st.staging \in c.st.bundles => c.st.staging = c.st.active
          /\ c.ok => (c.st.pending \in c.st.bundles => c.st.pending = c.st.active)
      <4>1. CASE b.st.pending = b.st.staging
        <5>1. c.st = b.st
          BY <2>4, <3>1, <4>1, OkOutcome
        <5> QED BY <2>3, <2>4, <2>6, <4>1, <5>1 DEF Trims
      <4>2. CASE b.st.pending # b.st.staging
        <5>1. c \in DropCandidate(b.st, b.st.pending) /\ b.st.pending \in MaybeGeneration
          BY <2>4, <3>1, <4>2 DEF Store
        <5>2. Sound(c.st, O) /\ Trims(b.st, c.st)
          BY <2>3, <2>4, <5>1, DropCandidateSound
        <5>3. /\ c.st.staging = b.st.staging /\ c.st.pending = b.st.pending
              /\ c.st.committed = b.st.committed
              /\ c.st.bundles \subseteq b.st.bundles
              /\ c.ok => (b.st.pending \in c.st.bundles => b.st.pending = b.st.active)
          BY <2>4, <5>1, DropCandidateFrame
        <5> QED BY <2>3, <2>6, <5>2, <5>3 DEF Trims
      <4> QED BY <4>1, <4>2
    <3>3. c.st \in Store /\ Trims(s, c.st) /\ c.st.pending \notin O
      BY <2>4, <3>2 DEF Sound, Trims
    <3>4. CASE ~c.ok
      BY <3>1, <3>2, <3>3, <3>4
    <3>5. CASE c.ok
      <4>1. PICK d \in ClearPointer(c.st, "staging") :
                o \in (IF d.ok THEN ClearPointer(d.st, "pending") ELSE {d})
        BY <3>1, <3>5 DEF Then
      <4>2. /\ Sound(d.st, O) /\ Keeps(c.st, d.st)
            /\ d.st = c.st \/ d.st = [c.st EXCEPT !.staging = None]
            /\ d.ok => d.st.staging = None
        BY <3>2, <4>1, ClearStaging
      <4>3. d.st \in Store /\ d.st.pending = c.st.pending /\ d.st.committed = None
            /\ d.st.bundles = c.st.bundles /\ d.st.active = c.st.active
        BY <3>2, <3>3, <4>2 DEF Sound, Store
      <4>4. Trims(s, d.st)
        BY <3>3, <4>2, <4>3 DEF Keeps, Trims
      <4>5. CASE ~d.ok
        BY <4>1, <4>2, <4>4, <4>5
      <4>6. CASE d.ok
        <5>1. /\ Sound(o.st, O)
              /\ o.st = d.st \/ o.st = [d.st EXCEPT !.pending = None]
              /\ o.ok => o.st.pending = None
          BY <3>2, <3>5, <4>1, <4>2, <4>3, <4>6, ClearPending
        <5>2. Trims(d.st, o.st)
          BY <4>3, <5>1 DEF Trims, Named, Store
        <5> QED BY <4>2, <4>3, <4>4, <4>6, <5>1, <5>2 DEF Trims, Store
      <4> QED BY <4>5, <4>6
    <3> QED BY <3>4, <3>5
  <2> QED BY <2>5, <2>6
<1> QED BY <1>4, <1>5, <1>6

-----------------------------------------------------------------------------
\* The routines the handlers call.

LEMMA AttemptRetiringSound ==
    ASSUME NEW O \in SUBSET Generation, NEW s, Sound(s, O),
           NEW o \in Attempt(CleanupRetiring(s))
    PROVE  Sound(o.st, O) /\ Keeps(s, o.st)
<1>1. PICK a \in CleanupRetiring(s) : o = [a EXCEPT !.ok = TRUE]
  BY DEF Attempt
<1>2. o.st = a.st
  BY <1>1
<1>3. Sound(a.st, O) /\ Keeps(s, a.st)
  BY <1>1, CleanupRetiringSound
<1> QED BY <1>2, <1>3

LEMMA IsSetupSound ==
    ASSUME NEW O \in SUBSET Generation, NEW s, Sound(s, O), NEW o \in IsSetup(s)
    PROVE  Sound(o.st, O) /\ Keeps(s, o.st)
<1>1. PICK a \in FinalizeActiveActivation(s) :
          o \in (IF a.ok
                 THEN Then(Attempt(CleanupRetiring(a.st)), LAMBDA u :
                           IF u.active = None \/ BundleValid(u, u.active)
                           THEN Ok(u) ELSE Fail(u))
                 ELSE {a})
  BY DEF IsSetup, Then
<1>2. Sound(a.st, O) /\ Keeps(s, a.st)
  BY <1>1, FinalizeSound
<1>3. CASE ~a.ok
  BY <1>1, <1>2, <1>3
<1>4. CASE a.ok
  <2>1. PICK b \in Attempt(CleanupRetiring(a.st)) :
            o \in (IF b.ok
                   THEN IF b.st.active = None \/ BundleValid(b.st, b.st.active)
                        THEN Ok(b.st) ELSE Fail(b.st)
                   ELSE {b})
    BY <1>1, <1>4 DEF Then
  <2>2. Sound(b.st, O) /\ Keeps(a.st, b.st)
    BY <1>2, <2>1, AttemptRetiringSound
  <2>3. Keeps(s, b.st)
    BY <1>2, <2>2, KeepsTransitive DEF Sound
  <2>4. o.st = b.st
    BY <2>1 DEF Ok, Fail
  <2> QED BY <2>2, <2>3, <2>4
<1> QED BY <1>3, <1>4

LEMMA LoadSecretsSound ==
    ASSUME NEW O \in SUBSET Generation, NEW s, Sound(s, O), NEW o \in LoadSecrets(s)
    PROVE  Sound(o.st, O) /\ Keeps(s, o.st)
<1>1. PICK a \in Attempt(CleanupRetiring(s)) :
          o \in (IF a.ok
                 THEN Fail(a.st) \cup (IF a.st.active # None /\ KeyBound(a.st, a.st.active)
                                       THEN Ok(a.st) ELSE {})
                 ELSE {a})
  BY DEF LoadSecrets, Then
<1>2. Sound(a.st, O) /\ Keeps(s, a.st)
  BY <1>1, AttemptRetiringSound
<1>3. o.st = a.st
  BY <1>1 DEF Ok, Fail
<1> QED BY <1>2, <1>3

LEMMA AuthorizeSound ==
    ASSUME NEW O \in SUBSET Generation, NEW s, Sound(s, O), NEW g \in Generation,
           NEW o \in AuthorizeRecovery(s, g)
    PROVE  Sound(o.st, O) /\ Keeps(s, o.st)
<1>1. PICK a \in FinalizeActiveActivation(s) :
          o \in (IF a.ok
                 THEN IF Referenced(a.st, g) /\ BundleValid(a.st, g)
                      THEN Ok(a.st) ELSE Fail(a.st)
                 ELSE {a})
  BY DEF AuthorizeRecovery, Then
<1>2. Sound(a.st, O) /\ Keeps(s, a.st)
  BY <1>1, FinalizeSound
<1>3. o.st = a.st
  BY <1>1 DEF Ok, Fail
<1> QED BY <1>2, <1>3

\* Clearing before a new setup stops at a pending generation of another.
LEMMA BeginSound ==
    ASSUME NEW O \in SUBSET Generation, NEW s, Sound(s, O),
           NEW g \in Generation, g \notin Named(s),
           NEW o \in BeginPendingPairing(s, g)
    PROVE  /\ Sound(o.st, O)
           /\ o.st.active = s.active
           /\ o.st.pending \in {s.pending, None}
           /\ Named(o.st) \subseteq Named(s) \cup {None, g}
           /\ s.pending \notin {None, s.active} => Keeps(s, o.st)
<1>0. s \in Store
  BY DEF Sound
<1>1. PICK a \in FinalizeActiveActivation(s) :
          o \in (IF a.ok
                 THEN IF a.st.pending # None THEN Fail(a.st)
                      ELSE Then(ClearUncommittedPending(a.st),
                                LAMBDA u : SavePointer(u, "staging", g))
                 ELSE {a})
  BY DEF BeginPendingPairing, Then
<1>2. Sound(a.st, O) /\ Keeps(s, a.st)
  BY <1>1, FinalizeSound
<1>3. a.st \in Store
  BY <1>2 DEF Sound
<1>4. CASE ~a.ok \/ a.st.pending # None
  <2>1. o.st = a.st
    BY <1>1, <1>4 DEF Fail
  <2> QED BY <1>2, <2>1 DEF Keeps
<1>5. CASE a.ok /\ a.st.pending = None
  <2>1. PICK b \in ClearUncommittedPending(a.st) :
            o \in (IF b.ok THEN SavePointer(b.st, "staging", g) ELSE {b})
    BY <1>1, <1>5 DEF Then
  <2>2. a.st.pending \notin O
    BY <1>5
  <2>3. /\ Sound(b.st, O) /\ Trims(a.st, b.st)
        /\ b.ok => /\ b.st.staging = None /\ b.st.pending = None
                   /\ b.st.committed = None
    BY <1>2, <2>1, <2>2, ClearUncommittedSound
  <2>4. /\ b.st.active = s.active
        /\ b.st.pending \in {s.pending, None}
        /\ Named(b.st) \subseteq Named(s) \cup {None}
        /\ ~(s.pending \notin {None, s.active})
    BY <1>2, <1>5, <2>3 DEF Keeps, Trims
  <2>5. CASE ~b.ok
    BY <2>1, <2>3, <2>4, <2>5
  <2>6. CASE b.ok
    <3>1. b.st \in Store /\ [b.st EXCEPT !["staging"] = g] = [b.st EXCEPT !.staging = g]
          /\ [b.st EXCEPT !.staging = g] \in Store
      BY <2>3 DEF Sound, Store, MaybeGeneration
    <3>2. o.st = b.st \/ o.st = [b.st EXCEPT !.staging = g]
      BY <2>1, <2>6, <3>1, WriteOutcome DEF SavePointer
    <3>3. g \notin Named(b.st)
      BY <2>4
    <3>4. Sound(o.st, O)
      BY <2>3, <2>6, <3>1, <3>2, <3>3 DEF Sound, ActiveWhole, PendingWhole, CommitFollows,
         StagingFollows, NothingForgotten, RetiringApart, ActiveSettled, KeyBound, Named, Store
    <3>5. /\ o.st.active = s.active
          /\ o.st.pending \in {s.pending, None}
          /\ Named(o.st) \subseteq Named(s) \cup {None, g}
      BY <2>4, <3>1, <3>2 DEF Named, Store
    <3> QED BY <2>4, <3>4, <3>5
  <2> QED BY <2>5, <2>6
<1> QED BY <1>4, <1>5

LEMMA GenerateKeySound ==
    ASSUME NEW O \in SUBSET Generation, NEW s, Sound(s, O), NEW g \in Generation,
           NEW o \in GenerateApprovalKey(s, g)
    PROVE  Sound(o.st, O) /\ Keeps(s, o.st)
<1>1. s \in Store /\ [s EXCEPT !.keys = @ \cup {g}] \in Store
  BY DEF Sound, Store
<1>2. o.st = s \/ o.st = [s EXCEPT !.keys = @ \cup {g}]
  BY <1>1, WriteOutcome DEF GenerateApprovalKey
<1> QED BY <1>1, <1>2 DEF Sound, ActiveWhole, PendingWhole, CommitFollows, StagingFollows,
     NothingForgotten, RetiringApart, ActiveSettled, KeyBound, Named, Keeps, Store

\* The bundle is stored before the pointer that offers it.
LEMMA StorePendingSound ==
    ASSUME NEW O \in SUBSET Generation, NEW s, Sound(s, O),
           NEW g \in Generation, g \notin O,
           NEW o \in StorePendingGeneration(s, g)
    PROVE  /\ Sound(o.st, O)
           /\ o.st.active = s.active
           /\ o.st.pending \in {s.pending, g}
           /\ Named(o.st) \subseteq Named(s) \cup {None, g}
           /\ o.st # s => s.pending \in {None, g}
           /\ o.ok => o.st.pending = g /\ g \in o.st.bundles
<1>0. s \in Store
  BY DEF Sound
<1>1. CASE s.staging # g
  <2>1. o.st = s /\ ~o.ok
    BY <1>0, <1>1, FailOutcome DEF StorePendingGeneration
  <2> QED BY <2>1
<1>2. CASE s.staging = g
  <2>1. PICK a \in SaveBundle(s, g) :
            o \in (IF a.ok THEN SavePointer(a.st, "pending", g) ELSE {a})
    BY <1>2 DEF StorePendingGeneration, Then
  <2>2. [s EXCEPT !.bundles = @ \cup {g}] \in Store
    BY <1>0 DEF Store
  <2>3. /\ a.st = s \/ a.st = [s EXCEPT !.bundles = @ \cup {g}]
        /\ a.ok => a.st = [s EXCEPT !.bundles = @ \cup {g}]
    BY <1>0, <2>1, <2>2, WriteOutcome DEF SaveBundle
  <2>4. /\ Sound(a.st, O)
        /\ a.st.active = s.active /\ a.st.staging = g
        /\ Named(a.st) = Named(s)
        /\ a.ok => g \in a.st.bundles
    BY <1>0, <1>2, <2>2, <2>3 DEF Sound, ActiveWhole, PendingWhole, CommitFollows,
       StagingFollows, NothingForgotten, RetiringApart, ActiveSettled, KeyBound, Named, Store
  <2>5. s.pending \in {None, g} /\ a.st.pending = s.pending
    BY <1>0, <1>2, <2>3 DEF Sound, StagingFollows, Store
  <2>6. CASE ~a.ok
    BY <2>1, <2>4, <2>5, <2>6
  <2>7. CASE a.ok
    <3>1. a.st \in Store /\ [a.st EXCEPT !["pending"] = g] = [a.st EXCEPT !.pending = g]
          /\ [a.st EXCEPT !.pending = g] \in Store
      BY <2>4 DEF Sound, Store, MaybeGeneration
    <3>2. /\ o.st = a.st \/ o.st = [a.st EXCEPT !.pending = g]
          /\ o.ok => o.st = [a.st EXCEPT !.pending = g]
      BY <2>1, <2>7, <3>1, WriteOutcome DEF SavePointer
    <3>3. Sound(o.st, O)
      BY <2>4, <2>5, <2>7, <3>1, <3>2 DEF Sound, ActiveWhole, PendingWhole, CommitFollows,
         StagingFollows, NothingForgotten, RetiringApart, ActiveSettled, KeyBound, Named, Store
    <3>4. /\ o.st.active = s.active
          /\ o.st.pending \in {s.pending, g}
          /\ Named(o.st) \subseteq Named(s) \cup {None, g}
          /\ o.ok => o.st.pending = g /\ g \in o.st.bundles
      BY <2>4, <2>5, <2>7, <3>1, <3>2 DEF Named, Store
    <3> QED BY <2>5, <3>3, <3>4
  <2> QED BY <2>6, <2>7
<1> QED BY <1>1, <1>2

LEMMA AbortSound ==
    ASSUME NEW O \in SUBSET Generation, NEW s, Sound(s, O),
           NEW g \in Generation, g \notin O,
           NEW o \in AbortUnstartedPairing(s, g)
    PROVE  /\ Sound(o.st, O) /\ Trims(s, o.st)
           /\ o.st # s => s.pending \in {None, g}
<1>0. s \in Store
  BY DEF Sound
<1>1. CASE \E p \in {"staging", "pending"} : s[p] \notin {None, g}
  <2>1. o.st = s
    BY <1>0, <1>1, FailOutcome DEF AbortUnstartedPairing
  <2> QED BY <2>1 DEF Trims
<1>2. CASE ~\E p \in {"staging", "pending"} : s[p] \notin {None, g}
  <2>1. s.pending \in {None, g}
    BY <1>0, <1>2 DEF Store
  <2>2. s.pending \notin O /\ o \in ClearUncommittedPending(s)
    BY <1>2, <2>1 DEF AbortUnstartedPairing
  <2> QED BY <2>1, <2>2, ClearUncommittedSound
<1> QED BY <1>1, <1>2

LEMMA CommitSound ==
    ASSUME NEW O \in SUBSET Generation, NEW s, Sound(s, O), NEW g \in O,
           NEW o \in CommitPendingGeneration(s, g)
    PROVE  /\ Sound(o.st, O) /\ Keeps(s, o.st)
           /\ o.ok => g \in {o.st.active, o.st.committed}
<1>0. s \in Store /\ Keeps(s, s)
  BY DEF Sound, Keeps
<1>1. CASE BundleValid(s, g) /\ s.active = g
  BY <1>1, FinalizeSound DEF CommitPendingGeneration, Keeps
<1>2. CASE BundleValid(s, g) /\ s.active # g /\ s.committed # g /\ s.pending = g
  <2>1. o \in SavePointer(s, "committed", g)
    BY <1>2 DEF CommitPendingGeneration
  <2>2. [s EXCEPT !["committed"] = g] = [s EXCEPT !.committed = g]
        /\ [s EXCEPT !.committed = g] \in Store
    BY <1>0 DEF Store, MaybeGeneration
  <2>3. /\ o.st = s \/ o.st = [s EXCEPT !.committed = g]
        /\ o.ok => o.st = [s EXCEPT !.committed = g]
    BY <1>0, <2>1, <2>2, WriteOutcome DEF SavePointer
  <2> QED
    BY <1>0, <1>2, <2>2, <2>3 DEF Sound, ActiveWhole, PendingWhole, CommitFollows,
       StagingFollows, NothingForgotten, RetiringApart, ActiveSettled, KeyBound, Named,
       Keeps, Store
<1>3. CASE ~BundleValid(s, g) \/ (s.active # g /\ (s.committed = g \/ s.pending # g))
  <2>1. o.st = s /\ (o.ok => s.committed = g)
    BY <1>3 DEF CommitPendingGeneration, Ok, Fail
  <2> QED BY <1>0, <2>1
<1> QED BY <1>1, <1>2, <1>3

\* The retiring pointer is moved only after what it named is destroyed.
LEMMA RetireActiveSound ==
    ASSUME NEW O \in SUBSET Generation, NEW s, Sound(s, O),
           s.pending # None, s.pending = s.committed, s.pending # s.active,
           NEW o \in RetireActive(s)
    PROVE  /\ Sound(o.st, O) /\ Keeps(s, o.st)
           /\ o.st.pending = s.pending /\ o.st.committed = s.committed
           /\ o.ok => o.st.active \in {None, o.st.retiring}
<1>0. s \in Store /\ Keeps(s, s)
  BY DEF Sound, Keeps
<1>1. CASE s.active = None
  <2>1. o.st = s
    BY <1>0, <1>1, OkOutcome DEF RetireActive
  <2> QED BY <1>0, <1>1, <2>1
<1>2. CASE s.active # None
  <2>1. PICK a \in (IF s.retiring \in {None, s.active} THEN Ok(s) ELSE CleanupRetiring(s)) :
            o \in (IF a.ok THEN SavePointer(a.st, "retiring", a.st.active) ELSE {a})
    BY <1>2 DEF RetireActive, Then
  <2>2. /\ Sound(a.st, O) /\ Keeps(s, a.st)
        /\ a.st.pending = s.pending /\ a.st.committed = s.committed
        /\ a.ok => a.st.retiring \in {None, a.st.active}
    <3>1. CASE s.retiring \in {None, s.active}
      <4>1. a.st = s
        BY <1>0, <2>1, <3>1, OkOutcome
      <4> QED BY <1>0, <3>1, <4>1
    <3>2. CASE s.retiring \notin {None, s.active}
      <4>1. a \in CleanupRetiring(s)
        BY <2>1, <3>2
      <4> QED BY <4>1, CleanupRetiringSound
    <3> QED BY <3>1, <3>2
  <2>3. CASE ~a.ok
    BY <2>1, <2>2, <2>3
  <2>4. CASE a.ok
    <3>1. a.st \in Store /\ a.st.active = s.active
      BY <2>2 DEF Sound, Keeps
    <3>2. [a.st EXCEPT !["retiring"] = a.st.active] = [a.st EXCEPT !.retiring = a.st.active]
          /\ [a.st EXCEPT !.retiring = a.st.active] \in Store
      BY <3>1 DEF Store, MaybeGeneration
    <3>3. /\ o.st = a.st \/ o.st = [a.st EXCEPT !.retiring = a.st.active]
          /\ o.ok => o.st = [a.st EXCEPT !.retiring = a.st.active]
      BY <2>1, <2>4, <3>1, <3>2, WriteOutcome DEF SavePointer
    <3>4. Sound(o.st, O)
      BY <1>2, <2>2, <2>4, <3>1, <3>2, <3>3 DEF Sound, ActiveWhole, PendingWhole,
         CommitFollows, StagingFollows, NothingForgotten, RetiringApart, ActiveSettled,
         KeyBound, Named, Store
    <3>5. /\ Keeps(a.st, o.st) /\ o.st \in Store
          /\ o.st.pending = s.pending /\ o.st.committed = s.committed
          /\ o.ok => o.st.active \in {None, o.st.retiring}
      BY <2>2, <3>1, <3>2, <3>3 DEF Keeps, Named, Store
    <3>6. Keeps(s, o.st)
      BY <1>0, <2>2, <3>1, <3>5, KeepsTransitive
    <3> QED BY <3>4, <3>5, <3>6
  <2> QED BY <2>3, <2>4
<1> QED BY <1>1, <1>2

\* The active pointer moves to g, which is committed, and what it leaves is
\* named for destruction or gone.
Moves(s, t, g) ==
    /\ s.pending = g /\ s.committed = g /\ s.active # g
    /\ t.active = g /\ t.pending \in {s.pending, None}
    /\ Named(t) \subseteq Named(s) \cup {None}
    /\ s.active # None => t.retiring = s.active \/ s.active \notin t.bundles

LEMMA ActivateSound ==
    ASSUME NEW O \in SUBSET Generation, NEW s, Sound(s, O), NEW g \in O,
           NEW o \in ActivateGeneration(s, g)
    PROVE  /\ Sound(o.st, O)
           /\ Keeps(s, o.st) \/ Moves(s, o.st, g)
           /\ o.ok => o.st.active = g
<1>0. s \in Store /\ Keeps(s, s)
  BY DEF Sound, Keeps
<1>1. CASE BundleValid(s, g) /\ s.active = g
  <2>1. o \in FinalizeActiveActivation(s)
    BY <1>1 DEF ActivateGeneration
  <2>2. Sound(o.st, O) /\ Keeps(s, o.st)
    BY <2>1, FinalizeSound
  <2> QED BY <1>1, <2>2 DEF Keeps
<1>2. CASE ~BundleValid(s, g) \/ (s.active # g /\ (s.pending # g \/ s.committed # g))
  <2>1. o.st = s /\ ~o.ok
    BY <1>2 DEF ActivateGeneration, Fail
  <2> QED BY <1>0, <2>1
<1>3. CASE BundleValid(s, g) /\ s.active # g /\ s.pending = g /\ s.committed = g
  <2>1. PICK a \in RetireActive(s) :
            o \in (IF a.ok
                   THEN Then(SavePointer(a.st, "active", g), LAMBDA u :
                             CleanupActivationMetadata(u, g))
                   ELSE {a})
    BY <1>3 DEF ActivateGeneration, Then
  <2>2. g # None
    OBVIOUS
  <2>3. /\ Sound(a.st, O) /\ Keeps(s, a.st)
        /\ a.st.pending = g /\ a.st.committed = g
        /\ a.ok => a.st.active \in {None, a.st.retiring}
    BY <1>3, <2>1, <2>2, RetireActiveSound
  <2>4. a.st \in Store /\ a.st.active = s.active
    BY <2>3 DEF Sound, Keeps
  <2>5. CASE ~a.ok
    BY <2>1, <2>3, <2>5
  <2>6. CASE a.ok
    <3>1. PICK b \in SavePointer(a.st, "active", g) :
              o \in (IF b.ok THEN CleanupActivationMetadata(b.st, g) ELSE {b})
      BY <2>1, <2>6 DEF Then
    <3>2. [a.st EXCEPT !["active"] = g] = [a.st EXCEPT !.active = g]
          /\ [a.st EXCEPT !.active = g] \in Store
      BY <2>4 DEF Store, MaybeGeneration
    <3>3. /\ b.st = a.st \/ b.st = [a.st EXCEPT !.active = g]
          /\ b.ok => b.st = [a.st EXCEPT !.active = g]
      BY <2>4, <3>1, <3>2, WriteOutcome DEF SavePointer
    <3>4. CASE b.st = a.st /\ ~b.ok
      <4>1. o.st = a.st /\ ~o.ok
        BY <3>1, <3>4
      <4> QED BY <2>3, <4>1
    <3>5. CASE b.st = [a.st EXCEPT !.active = g]
      <4>1. Sound(b.st, O)
        BY <1>3, <2>2, <2>3, <2>4, <2>6, <3>2, <3>5 DEF Sound, ActiveWhole, PendingWhole,
           CommitFollows, StagingFollows, NothingForgotten, RetiringApart, ActiveSettled,
           KeyBound, Named, Store
      <4>2. /\ b.st.active = g /\ b.st.committed = g /\ b.st.pending = s.pending
            /\ s.active # None => b.st.retiring = s.active
            /\ Named(b.st) \subseteq Named(s) \cup {None}
        BY <2>3, <2>4, <2>6, <3>2, <3>5 DEF Keeps, Named, Store
      <4>3. Moves(s, b.st, g)
        BY <1>3, <4>2 DEF Moves
      <4>4. CASE ~b.ok
        BY <3>1, <4>1, <4>3, <4>4 DEF Moves
      <4>5. CASE b.ok
        <5>1. o \in CleanupActivationMetadata(b.st, g)
          BY <3>1, <4>5
        <5>2. /\ Sound(o.st, O) /\ Keeps(b.st, o.st)
              /\ o.st.retiring # b.st.retiring => b.st.retiring \notin o.st.bundles
          BY <4>1, <4>2, <5>1, CleanupActivationSound
        <5>3. Moves(s, o.st, g)
          BY <1>3, <4>2, <5>2 DEF Keeps, Moves
        <5> QED BY <5>2, <5>3 DEF Moves
      <4> QED BY <4>4, <4>5
    <3> QED BY <3>3, <3>4, <3>5
  <2> QED BY <2>5, <2>6
<1> QED BY <1>1, <1>2, <1>3

-----------------------------------------------------------------------------
\* Once the desktop may know of the pending generation, the store owes it more:
\* nothing but its two secrets, which are there.
LEMMA SoundWhenOffered ==
    ASSUME NEW O \in SUBSET Generation, NEW s, Sound(s, O), NEW g \in Generation,
           s.pending = g, KeyBound(s, g)
    PROVE  Sound(s, O \cup {g})
BY DEF Sound, ActiveWhole, PendingWhole, CommitFollows, StagingFollows, NothingForgotten,
   RetiringApart, ActiveSettled, KeyBound

=============================================================================
