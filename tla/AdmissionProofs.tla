-------------------------- MODULE AdmissionProofs --------------------------
(***************************************************************************)
(* The phone's accept loop gives every permit back, for any number of       *)
(* connections, peers and sources and any limits.                           *)
(***************************************************************************)
EXTENDS Admission, FiniteSetTheorems, TLAPS

USE AdmissionAssumption DEF AdmissionAssumption

\* What a task holds follows its place: nothing before it is accepted, no handler
\* permit before it has taken one.
Held(r) ==
    /\ r.at = "idle" => ~r.sourced
    /\ r.at \in {"idle", "handshake", "classify", "permit"} => r.permit = "none"

Counted(r, p) == r.at \in Serving \cup {"ended"} /\ r.peer = p
Sourced(r, s) == r.sourced /\ r.source = s

AdmissionInvariant == TypeOK /\ PermitsConserved /\ \A c \in Conn : Held(conn[c])

Bit(b) == IF b THEN 1 ELSE 0

-----------------------------------------------------------------------------
\* A set that differs in one element at most.
LEMMA OneElement ==
    ASSUME NEW S, NEW T, IsFiniteSet(S), NEW c, S \ {c} = T \ {c}
    PROVE  /\ IsFiniteSet(T) /\ Cardinality(S) \in Nat /\ Cardinality(T) \in Nat
           /\ Cardinality(T) = Cardinality(S) + (IF c \in T THEN 1 ELSE 0)
                                           - (IF c \in S THEN 1 ELSE 0)
<1>. DEFINE R == S \ {c}
<1>1. IsFiniteSet(R) /\ c \notin R
  BY FS_RemoveElement
<1>2. (S = R \/ S = R \cup {c}) /\ (T = R \/ T = R \cup {c})
  OBVIOUS
<1>. HIDE DEF R
<1>3. IsFiniteSet(R \cup {c}) /\ Cardinality(R \cup {c}) = Cardinality(R) + 1
  BY <1>1, FS_AddElement
<1>4. Cardinality(R) \in Nat
  BY <1>1, FS_CardinalityType
<1>5. Cardinality(S) = Cardinality(R) + (IF c \in S THEN 1 ELSE 0)
  BY <1>1, <1>2, <1>3, <1>4
<1>6. Cardinality(T) = Cardinality(R) + (IF c \in T THEN 1 ELSE 0) /\ IsFiniteSet(T)
  BY <1>1, <1>2, <1>3, <1>4
<1>. QED
  BY <1>4, <1>5, <1>6

\* NoTask is a task, and holds nothing.
LEMMA NoTaskHeld == NoTask \in Task /\ Held(NoTask) /\ NoTask.at = "idle"
                    /\ NoTask.permit = "none" /\ ~NoTask.sourced
<1>1. (CHOOSE p \in Peer : TRUE) \in Peer /\ (CHOOSE s \in Source : TRUE) \in Source
  OBVIOUS
<1>. QED
  BY <1>1 DEF NoTask, Task, Held

\* What the limits are within, whatever is free.
Within ==
    /\ referenced \subseteq Peer
    /\ handshakes \in Nat /\ handlers \in [Kind -> Nat]
    /\ peers \in [Peer -> Int] /\ \A p \in Peer : peers[p] <= MaxPerPeer
    /\ sources \in [Source -> Int] /\ \A s \in Source : sources[s] <= MaxPerSource

\* The limits change by what a task gives back that becomes r, and by what r takes.
Balance(c, r) ==
    /\ handshakes' = handshakes + Bit(conn[c].at = "handshake") - Bit(r.at = "handshake")
    /\ \A k \in Kind : handlers'[k] = handlers[k] + Bit(conn[c].permit = k) - Bit(r.permit = k)
    /\ \A p \in Peer :
          peers'[p] = peers[p] - Bit(Counted(conn[c], p)) + Bit(Counted(r, p))
    /\ \A s \in Source :
          sources'[s] = sources[s] - Bit(Sourced(conn[c], s)) + Bit(Sourced(r, s))

\* One task changes, and the accounts stay right.
LEMMA Accounts ==
    ASSUME AdmissionInvariant, NEW c \in Conn, NEW r \in Task, Held(r),
           conn' = [conn EXCEPT ![c] = r], Within', Balance(c, r)
    PROVE  AdmissionInvariant'
<1>1. conn \in [Conn -> Task] /\ handshakes \in Int /\ handlers \in [Kind -> Int]
      /\ peers \in [Peer -> Int] /\ sources \in [Source -> Int]
  BY DEF AdmissionInvariant, TypeOK
<1>2. conn' \in [Conn -> Task] /\ \A d \in Conn : conn'[d] = IF d = c THEN r ELSE conn[d]
  BY <1>1
<1>3. /\ IsFiniteSet(Handshaking) /\ \A k \in Kind : IsFiniteSet(Holding(k))
      /\ \A p \in Peer : IsFiniteSet(CountedFor(p))
      /\ \A s \in Source : IsFiniteSet(SourcedFrom(s))
  BY FS_Subset DEF Handshaking, Holding, CountedFor, SourcedFrom
<1>4. handshakes' + Cardinality(Handshaking') = MaxHandshakes
      /\ Cardinality(Handshaking') \in Nat
  <2>. DEFINE S == Handshaking  T == Handshaking'
  <2>1. IsFiniteSet(S) /\ S \ {c} = T \ {c}
    BY <1>2, <1>3 DEF Handshaking
  <2>2. (c \in S <=> conn[c].at = "handshake") /\ (c \in T <=> r.at = "handshake")
    BY <1>2 DEF Handshaking
  <2>3. handshakes' = handshakes + (IF c \in S THEN 1 ELSE 0) - (IF c \in T THEN 1 ELSE 0)
    BY <2>2 DEF Bit, Balance
  <2>4. handshakes + Cardinality(S) = MaxHandshakes
    BY DEF AdmissionInvariant, PermitsConserved
  <2>5. handshakes \in Int
    BY <1>1
  <2>. HIDE DEF S, T
  <2>6. /\ Cardinality(S) \in Nat /\ Cardinality(T) \in Nat
        /\ Cardinality(T) = Cardinality(S) + (IF c \in T THEN 1 ELSE 0)
                                           - (IF c \in S THEN 1 ELSE 0)
    BY <2>1, OneElement
  <2>7. handshakes' + Cardinality(T) = MaxHandshakes
    BY <2>3, <2>4, <2>5, <2>6
  <2>. QED
    BY <2>6, <2>7 DEF T
<1>5. ASSUME NEW k \in Kind
      PROVE  handlers'[k] + Cardinality(Holding(k)') = MaxHandlers[k]
             /\ Cardinality(Holding(k)') \in Nat
  <2>. DEFINE S == Holding(k)  T == Holding(k)'
  <2>1. IsFiniteSet(S) /\ S \ {c} = T \ {c}
    BY <1>2, <1>3 DEF Holding
  <2>2. (c \in S <=> conn[c].permit = k) /\ (c \in T <=> r.permit = k)
    BY <1>2 DEF Holding
  <2>3. handlers'[k] = handlers[k] + (IF c \in S THEN 1 ELSE 0) - (IF c \in T THEN 1 ELSE 0)
    BY <2>2 DEF Bit, Balance
  <2>4. handlers[k] + Cardinality(S) = MaxHandlers[k]
    BY DEF AdmissionInvariant, PermitsConserved
  <2>5. handlers[k] \in Int
    BY <1>1
  <2>. HIDE DEF S, T
  <2>6. /\ Cardinality(S) \in Nat /\ Cardinality(T) \in Nat
        /\ Cardinality(T) = Cardinality(S) + (IF c \in T THEN 1 ELSE 0)
                                           - (IF c \in S THEN 1 ELSE 0)
    BY <2>1, OneElement
  <2>7. handlers'[k] + Cardinality(T) = MaxHandlers[k]
    BY <2>3, <2>4, <2>5, <2>6
  <2>. QED
    BY <2>6, <2>7 DEF T
<1>6. ASSUME NEW p \in Peer
      PROVE  peers'[p] = Cardinality(CountedFor(p)') /\ Cardinality(CountedFor(p)') \in Nat
  <2>. DEFINE S == CountedFor(p)  T == CountedFor(p)'
  <2>1. IsFiniteSet(S) /\ S \ {c} = T \ {c}
    BY <1>2, <1>3 DEF CountedFor
  <2>2. (c \in S <=> Counted(conn[c], p)) /\ (c \in T <=> Counted(r, p))
    BY <1>2 DEF CountedFor, Counted
  <2>3. peers'[p] = peers[p] - (IF c \in S THEN 1 ELSE 0) + (IF c \in T THEN 1 ELSE 0)
    BY <2>2 DEF Bit, Balance
  <2>4. peers[p] = Cardinality(S)
    BY DEF AdmissionInvariant, PermitsConserved
  <2>5. peers[p] \in Int
    BY <1>1
  <2>. HIDE DEF S, T
  <2>6. /\ Cardinality(S) \in Nat /\ Cardinality(T) \in Nat
        /\ Cardinality(T) = Cardinality(S) + (IF c \in T THEN 1 ELSE 0)
                                           - (IF c \in S THEN 1 ELSE 0)
    BY <2>1, OneElement
  <2>7. peers'[p] = Cardinality(T)
    BY <2>3, <2>4, <2>5, <2>6
  <2>. QED
    BY <2>6, <2>7 DEF T
<1>7. ASSUME NEW s \in Source
      PROVE  sources'[s] = Cardinality(SourcedFrom(s)') /\ Cardinality(SourcedFrom(s)') \in Nat
  <2>. DEFINE S == SourcedFrom(s)  T == SourcedFrom(s)'
  <2>1. IsFiniteSet(S) /\ S \ {c} = T \ {c}
    BY <1>2, <1>3 DEF SourcedFrom
  <2>2. (c \in S <=> Sourced(conn[c], s)) /\ (c \in T <=> Sourced(r, s))
    BY <1>2 DEF SourcedFrom, Sourced
  <2>3. sources'[s] = sources[s] - (IF c \in S THEN 1 ELSE 0) + (IF c \in T THEN 1 ELSE 0)
    BY <2>2 DEF Bit, Balance
  <2>4. sources[s] = Cardinality(S)
    BY DEF AdmissionInvariant, PermitsConserved
  <2>5. sources[s] \in Int
    BY <1>1
  <2>. HIDE DEF S, T
  <2>6. /\ Cardinality(S) \in Nat /\ Cardinality(T) \in Nat
        /\ Cardinality(T) = Cardinality(S) + (IF c \in T THEN 1 ELSE 0)
                                           - (IF c \in S THEN 1 ELSE 0)
    BY <2>1, OneElement
  <2>7. sources'[s] = Cardinality(T)
    BY <2>3, <2>4, <2>5, <2>6
  <2>. QED
    BY <2>6, <2>7 DEF T
<1>8. PermitsConserved'
  BY <1>4, <1>5, <1>6, <1>7 DEF PermitsConserved
<1>9. TypeOK'
  <2>1. handshakes' \in 0 .. MaxHandshakes
    BY <1>4 DEF Within
  <2>2. \A k \in Kind : handlers'[k] <= MaxHandlers[k]
    BY <1>5 DEF Within
  <2>3. peers' \in [Peer -> 0 .. MaxPerPeer]
    BY <1>6 DEF Within
  <2>4. sources' \in [Source -> 0 .. MaxPerSource]
    BY <1>7 DEF Within
  <2>. QED
    BY <1>2, <2>1, <2>2, <2>3, <2>4 DEF Within, TypeOK
<1>10. \A d \in Conn : Held(conn'[d])
  BY <1>2 DEF AdmissionInvariant
<1>. QED
  BY <1>8, <1>9, <1>10 DEF AdmissionInvariant

-----------------------------------------------------------------------------
\* The steps.

\* The types the steps rely on.
LEMMA Typed ==
    ASSUME AdmissionInvariant, NEW c \in Conn
    PROVE  /\ conn[c] \in Task /\ Held(conn[c]) /\ Within
           /\ conn[c].peer \in Peer /\ conn[c].source \in Source
           /\ conn[c].permit \in Kind \cup {"none"} /\ conn[c].sourced \in BOOLEAN
BY DEF AdmissionInvariant, TypeOK, Task, Within

\* A task that holds what it held, at a place where nothing else is due.
LEMMA Quiet ==
    ASSUME AdmissionInvariant, NEW c \in Conn, NEW r \in Task,
           conn' = [conn EXCEPT ![c] = r], UNCHANGED <<referenced, Kept>>,
           r.peer = conn[c].peer, r.source = conn[c].source, r.sourced = conn[c].sourced,
           r.permit = conn[c].permit,
           \/ conn[c].at = "classify" /\ r.at = "permit"
           \/ conn[c].at \in Serving /\ r.at \in Serving \cup {"ended"}
    PROVE  AdmissionInvariant'
<1>1. Held(r)
  BY Typed DEF Held, Serving
<1>2. Within'
  BY Typed DEF Within, Kept
<1>3. Balance(c, r)
  <2>1. Bit(conn[c].at = "handshake") = 0 /\ Bit(r.at = "handshake") = 0
    BY DEF Bit, Serving
  <2>2. \A k \in Kind : Bit(conn[c].permit = k) = Bit(r.permit = k) /\ Bit(r.permit = k) \in 0 .. 1
    BY DEF Bit
  <2>3. \A p \in Peer : Bit(Counted(conn[c], p)) = Bit(Counted(r, p)) /\ Bit(Counted(r, p)) \in 0 .. 1
    BY DEF Bit, Counted, Serving
  <2>4. \A s \in Source : Bit(Sourced(conn[c], s)) = Bit(Sourced(r, s)) /\ Bit(Sourced(r, s)) \in 0 .. 1
    BY DEF Bit, Sourced
  <2>. QED
    BY <2>1, <2>2, <2>3, <2>4, Typed DEF Balance, Within, Kept
<1>. QED
  BY <1>1, <1>2, <1>3, Accounts

\* A task that is over gives back everything.
LEMMA Going ==
    ASSUME AdmissionInvariant, NEW c \in Conn, Gone(c), UNCHANGED referenced,
           handshakes' = handshakes + Bit(conn[c].at = "handshake"),
           peers' = IF conn[c].at \in Serving \cup {"ended"}
                    THEN [peers EXCEPT ![conn[c].peer] = @ - 1] ELSE peers
    PROVE  AdmissionInvariant'
<1>1. /\ conn' = [conn EXCEPT ![c] = NoTask]
      /\ NoTask \in Task /\ Held(NoTask)
  BY NoTaskHeld DEF Gone
<1>2. Within'
  <2>1. handshakes' \in Nat
    BY Typed DEF Within, Bit
  <2>2. handlers' \in [Kind -> Nat]
    BY Typed DEF Within, Gone, DropHandler
  <2>3. peers' \in [Peer -> Int] /\ \A p \in Peer : peers'[p] <= MaxPerPeer
    BY Typed DEF Within
  <2>4. sources' \in [Source -> Int] /\ \A s \in Source : sources'[s] <= MaxPerSource
    BY Typed DEF Within, Gone, DropSource
  <2>. QED
    BY <2>1, <2>2, <2>3, <2>4, Typed DEF Within
<1>3. Balance(c, NoTask)
  <2>1. Bit(NoTask.at = "handshake") = 0 /\ Bit(conn[c].at = "handshake") \in 0 .. 1
    BY NoTaskHeld DEF Bit
  <2>2. \A k \in Kind : handlers'[k] = handlers[k] + Bit(conn[c].permit = k) - Bit(NoTask.permit = k)
    BY Typed, NoTaskHeld DEF Within, Gone, DropHandler, Bit, Kind
  <2>3. \A p \in Peer : peers'[p] = peers[p] - Bit(Counted(conn[c], p)) + Bit(Counted(NoTask, p))
    BY Typed, NoTaskHeld DEF Within, Counted, Serving, Bit
  <2>4. \A s \in Source : sources'[s] = sources[s] - Bit(Sourced(conn[c], s)) + Bit(Sourced(NoTask, s))
    BY Typed, NoTaskHeld DEF Within, Gone, DropSource, Sourced, Bit
  <2>. QED
    BY <2>1, <2>2, <2>3, <2>4, Typed DEF Balance, Within
<1>. QED
  BY <1>1, <1>2, <1>3, Accounts

LEMMA AcceptKeeps ==
    ASSUME AdmissionInvariant, NEW c \in Conn, NEW p \in Peer, NEW s \in Source,
           NEW relay \in BOOLEAN, AcceptIncoming(c, p, s, relay)
    PROVE  AdmissionInvariant'
<1>1. PICK claims \in {FALSE, relay /\ p \in referenced} :
        /\ conn[c].at = "idle" /\ handshakes > 0
        /\ claims \/ sources[s] < MaxPerSource
        /\ conn' = [conn EXCEPT ![c] = [NoTask EXCEPT !.at = "handshake", !.peer = p,
                                                      !.source = s, !.sourced = ~claims]]
        /\ sources' = IF claims THEN sources ELSE [sources EXCEPT ![s] = @ + 1]
        /\ handshakes' = handshakes - 1
        /\ UNCHANGED <<referenced, handlers, peers>>
  BY Zenon DEF AcceptIncoming
<1>. claims \in BOOLEAN
  OBVIOUS
<1>. DEFINE r == [NoTask EXCEPT !.at = "handshake", !.peer = p, !.source = s, !.sourced = ~claims]
<1>2. /\ r \in Task /\ r.at = "handshake" /\ r.peer = p /\ r.source = s /\ r.sourced = ~claims
      /\ r.permit = "none"
  BY NoTaskHeld DEF Task
<1>3. conn' = [conn EXCEPT ![c] = r]
  BY <1>1
<1>. HIDE DEF r
<1>4. Held(r)
  BY <1>2 DEF Held
<1>5. Within'
  BY <1>1, Typed DEF Within
<1>6. Balance(c, r)
  <2>1. Bit(conn[c].at = "handshake") = 0 /\ Bit(r.at = "handshake") = 1
    BY <1>1, <1>2 DEF Bit
  <2>2. \A k \in Kind : Bit(conn[c].permit = k) = 0 /\ Bit(r.permit = k) = 0
    BY <1>1, <1>2, Typed DEF Bit, Held, Kind
  <2>3. \A q \in Peer : Bit(Counted(conn[c], q)) = 0 /\ Bit(Counted(r, q)) = 0
    BY <1>1, <1>2 DEF Bit, Counted, Serving
  <2>4. \A q \in Source : Bit(Sourced(conn[c], q)) = 0
    BY <1>1, Typed DEF Bit, Sourced, Held
  <2>5. \A q \in Source : sources'[q] = sources[q] + Bit(Sourced(r, q))
    <3>1. \A q \in Source : sources[q] \in Int /\ (Sourced(r, q) <=> ~claims /\ q = s)
      BY <1>2, Typed DEF Within, Sourced
    <3>2. \A q \in Source : sources'[q] = IF ~claims /\ q = s THEN sources[q] + 1 ELSE sources[q]
      BY <1>1, Typed DEF Within
    <3>. QED
      BY <3>1, <3>2 DEF Bit
  <2>6. \A q \in Source : Bit(Sourced(r, q)) \in 0 .. 1
    BY DEF Bit
  <2>. QED
    BY <1>1, <2>1, <2>2, <2>3, <2>4, <2>5, <2>6, Typed DEF Balance, Within
<1>. QED
  BY <1>2, <1>3, <1>4, <1>5, <1>6, Accounts

LEMMA HandshakeKeeps ==
    ASSUME AdmissionInvariant, NEW c \in Conn, HandshakeDone(c) \/ HandshakeFails(c)
    PROVE  AdmissionInvariant'
<1>1. CASE HandshakeFails(c)
  BY <1>1, Going DEF HandshakeFails, Bit, Serving
<1>2. CASE HandshakeDone(c)
  <2>. DEFINE r == [conn[c] EXCEPT !.at = "classify"]
  <2>1. /\ r \in Task /\ r.at = "classify" /\ r.peer = conn[c].peer /\ r.source = conn[c].source
        /\ r.sourced = conn[c].sourced /\ r.permit = conn[c].permit
    BY Typed DEF Task
  <2>2. conn' = [conn EXCEPT ![c] = r]
    BY <1>2 DEF HandshakeDone, To
  <2>. HIDE DEF r
  <2>3. Held(r) /\ Within'
    BY <1>2, <2>1, Typed DEF HandshakeDone, Held, Within
  <2>4. Balance(c, r)
    <3>1. Bit(conn[c].at = "handshake") = 1 /\ Bit(r.at = "handshake") = 0
      BY <1>2, <2>1 DEF HandshakeDone, Bit
    <3>2. \A k \in Kind : Bit(conn[c].permit = k) = Bit(r.permit = k) /\ Bit(r.permit = k) \in 0 .. 1
      BY <2>1 DEF Bit
    <3>3. \A p \in Peer : Bit(Counted(conn[c], p)) = 0 /\ Bit(Counted(r, p)) = 0
      BY <1>2, <2>1 DEF HandshakeDone, Bit, Counted, Serving
    <3>4. \A s \in Source : Bit(Sourced(conn[c], s)) = Bit(Sourced(r, s)) /\ Bit(Sourced(r, s)) \in 0 .. 1
      BY <2>1 DEF Bit, Sourced
    <3>. QED
      BY <1>2, <3>1, <3>2, <3>3, <3>4, Typed DEF HandshakeDone, Balance, Within
  <2>. QED
    BY <2>1, <2>2, <2>3, <2>4, Accounts
<1>. QED
  BY <1>1, <1>2

LEMMA TakeHandlerKeeps ==
    ASSUME AdmissionInvariant, NEW c \in Conn, TakeHandler(c)
    PROVE  AdmissionInvariant'
<1>. DEFINE kind == IF conn[c].trusted THEN "paired" ELSE "untrusted"
<1>1. conn[c].at = "permit" /\ kind \in Kind /\ UNCHANGED <<referenced, handshakes, peers>>
  BY DEF TakeHandler, Kind
<1>2. CASE handlers[kind] > 0
  <2>. DEFINE r == [conn[c] EXCEPT !.at = "slot", !.permit = kind]
  <2>1. /\ r \in Task /\ r.at = "slot" /\ r.peer = conn[c].peer /\ r.source = conn[c].source
        /\ r.sourced = conn[c].sourced /\ r.permit = kind
    BY <1>1, Typed DEF Task
  <2>2. /\ conn' = [conn EXCEPT ![c] = r] /\ handlers' = [handlers EXCEPT ![kind] = @ - 1]
        /\ UNCHANGED sources
    BY <1>2 DEF TakeHandler
  <2>. HIDE DEF r, kind
  <2>3. Held(r) /\ Within'
    BY <1>1, <1>2, <2>1, <2>2, Typed DEF Held, Within
  <2>4. Balance(c, r)
    <3>1. Bit(conn[c].at = "handshake") = 0 /\ Bit(r.at = "handshake") = 0
      BY <1>1, <2>1 DEF Bit
    <3>2. \A k \in Kind : Bit(conn[c].permit = k) = 0 /\ handlers'[k] = handlers[k] - Bit(r.permit = k)
      BY <1>1, <2>1, <2>2, Typed DEF Bit, Held, Kind, Within
    <3>3. \A p \in Peer : Bit(Counted(conn[c], p)) = 0 /\ Bit(Counted(r, p)) = 0
      BY <1>1, <2>1 DEF Bit, Counted, Serving
    <3>4. \A s \in Source : Bit(Sourced(conn[c], s)) = Bit(Sourced(r, s)) /\ Bit(Sourced(r, s)) \in 0 .. 1
      BY <2>1 DEF Bit, Sourced
    <3>5. \A k \in Kind : Bit(r.permit = k) \in 0 .. 1
      BY DEF Bit
    <3>. QED
      BY <1>1, <2>2, <3>1, <3>2, <3>3, <3>4, <3>5, Typed DEF Balance, Within
  <2>. QED
    BY <2>1, <2>2, <2>3, <2>4, Accounts
<1>3. CASE ~(handlers[kind] > 0)
  <2>1. Gone(c) /\ Bit(conn[c].at = "handshake") = 0 /\ conn[c].at \notin Serving \cup {"ended"}
    BY <1>1, <1>3 DEF TakeHandler, Bit, Serving
  <2>2. handshakes' = handshakes + Bit(conn[c].at = "handshake")
    BY <1>1, <2>1, Typed DEF Within
  <2>. QED
    BY <1>1, <2>1, <2>2, Going
<1>. QED
  BY <1>2, <1>3

LEMMA TakePeerSlotKeeps ==
    ASSUME AdmissionInvariant, NEW c \in Conn, TakePeerSlot(c)
    PROVE  AdmissionInvariant'
<1>1. conn[c].at = "slot" /\ UNCHANGED <<referenced, handshakes>>
  BY DEF TakePeerSlot
<1>2. CASE peers[conn[c].peer] < MaxPerPeer
  <2>. DEFINE r == [conn[c] EXCEPT !.at = "stream"]
  <2>1. /\ r \in Task /\ r.at = "stream" /\ r.peer = conn[c].peer /\ r.source = conn[c].source
        /\ r.sourced = conn[c].sourced /\ r.permit = conn[c].permit
    BY Typed DEF Task, Serving
  <2>2. /\ conn' = [conn EXCEPT ![c] = r] /\ peers' = [peers EXCEPT ![conn[c].peer] = @ + 1]
        /\ UNCHANGED <<handlers, sources>>
    BY <1>2 DEF TakePeerSlot, To
  <2>. HIDE DEF r
  <2>3. Held(r) /\ Within'
    BY <1>1, <1>2, <2>1, <2>2, Typed DEF Held, Within
  <2>4. Balance(c, r)
    <3>1. Bit(conn[c].at = "handshake") = 0 /\ Bit(r.at = "handshake") = 0
      BY <1>1, <2>1 DEF Bit
    <3>2. \A k \in Kind : Bit(conn[c].permit = k) = Bit(r.permit = k) /\ Bit(r.permit = k) \in 0 .. 1
      BY <2>1 DEF Bit
    <3>3. \A p \in Peer : Bit(Counted(conn[c], p)) = 0 /\ peers'[p] = peers[p] + Bit(Counted(r, p))
      BY <1>1, <2>1, <2>2, Typed DEF Bit, Counted, Serving, Within
    <3>4. \A s \in Source : Bit(Sourced(conn[c], s)) = Bit(Sourced(r, s)) /\ Bit(Sourced(r, s)) \in 0 .. 1
      BY <2>1 DEF Bit, Sourced
    <3>5. \A p \in Peer : Bit(Counted(r, p)) \in 0 .. 1
      BY DEF Bit
    <3>. QED
      BY <1>1, <2>2, <3>1, <3>2, <3>3, <3>4, <3>5, Typed DEF Balance, Within
  <2>. QED
    BY <2>1, <2>2, <2>3, <2>4, Accounts
<1>3. CASE ~(peers[conn[c].peer] < MaxPerPeer)
  <2>1. Gone(c) /\ UNCHANGED peers /\ conn[c].at \notin Serving \cup {"ended"}
    BY <1>1, <1>3 DEF TakePeerSlot, Serving
  <2>2. handshakes' = handshakes + Bit(conn[c].at = "handshake")
    BY <1>1, Typed DEF Within, Bit
  <2>. QED
    BY <1>1, <2>1, <2>2, Going
<1>. QED
  BY <1>2, <1>3

LEMMA LeavePeerSlotKeeps ==
    ASSUME AdmissionInvariant, NEW c \in Conn, LeavePeerSlot(c)
    PROVE  AdmissionInvariant'
<1>1. handshakes' = handshakes + Bit(conn[c].at = "handshake")
  BY Typed DEF LeavePeerSlot, Within, Bit
<1>. QED
  BY <1>1, Going DEF LeavePeerSlot

\* serve_connection and is_referenced_pairing_peer: no permit changes hands.
LEMMA ServingKeeps ==
    ASSUME AdmissionInvariant, NEW c \in Conn,
           \/ Classify(c) \/ StreamOpened(c) \/ FrameBroken(c) \/ StreamEnds(c)
           \/ FrameTimesOut(c) \/ DeadlinePasses(c) \/ Message(c)
    PROVE  AdmissionInvariant'
<1>0. /\ conn[c].authenticated \in BOOLEAN /\ \A known \in Checks(c) : known \in BOOLEAN
      /\ \A known \in {FALSE, conn[c].peer \in referenced} : known \in BOOLEAN
  BY Typed DEF Checks, Task
<1>1. UNCHANGED <<referenced, Kept>>
  BY DEF Classify, StreamOpened, FrameBroken, StreamEnds, FrameTimesOut, DeadlinePasses, Message, ServePing,
         ServeRecovery, ServeRequest, ServeOther
<1>2. CASE Classify(c)
  <2>1. PICK known \in {FALSE, conn[c].peer \in referenced} :
           conn' = [conn EXCEPT ![c].at = "permit", ![c].trusted = known]
    BY <1>2, Zenon DEF Classify
  <2>. known \in BOOLEAN
    BY <1>0
  <2>. DEFINE r == [conn[c] EXCEPT !.at = "permit", !.trusted = known]
  <2>2. /\ r \in Task /\ r.at = "permit" /\ r.peer = conn[c].peer /\ r.source = conn[c].source
        /\ r.sourced = conn[c].sourced /\ r.permit = conn[c].permit
    BY Typed DEF Task
  <2>3. conn' = [conn EXCEPT ![c] = r]
    BY <2>1
  <2>4. conn[c].at = "classify"
    BY <1>2 DEF Classify
  <2>. HIDE DEF r
  <2>. QED
    BY <1>1, <2>2, <2>3, <2>4, Quiet
<1>3. ASSUME conn[c].at \in Serving, NEW step \in Serving \cup {"ended"}, NEW auth \in BOOLEAN,
             Goes(c, step, auth)
      PROVE  AdmissionInvariant'
  <2>. DEFINE r == [conn[c] EXCEPT !.at = step, !.authenticated = auth]
  <2>1. /\ r \in Task /\ r.at = step /\ r.peer = conn[c].peer /\ r.source = conn[c].source
        /\ r.sourced = conn[c].sourced /\ r.permit = conn[c].permit
    BY Typed DEF Task, Serving
  <2>2. conn' = [conn EXCEPT ![c] = r]
    BY <1>3 DEF Goes
  <2>. HIDE DEF r
  <2>. QED
    BY <1>1, <1>3, <2>1, <2>2, Quiet
<1>4. ASSUME conn[c].at \in Serving, NEW step \in Serving \cup {"ended"}, To(c, step)
      PROVE  AdmissionInvariant'
  <2>. DEFINE r == [conn[c] EXCEPT !.at = step]
  <2>1. /\ r \in Task /\ r.at = step /\ r.peer = conn[c].peer /\ r.source = conn[c].source
        /\ r.sourced = conn[c].sourced /\ r.permit = conn[c].permit
    BY Typed DEF Task, Serving
  <2>2. conn' = [conn EXCEPT ![c] = r]
    BY <1>4 DEF To
  <2>. HIDE DEF r
  <2>. QED
    BY <1>1, <1>4, <2>1, <2>2, Quiet
<1>5. CASE StreamOpened(c) \/ FrameBroken(c) \/ StreamEnds(c) \/ FrameTimesOut(c) \/ ServeOther(c)
  BY <1>4, <1>5 DEF StreamOpened, FrameBroken, StreamEnds, FrameTimesOut, ServeOther, Serving
<1>6. CASE DeadlinePasses(c)
  <2>. DEFINE r == [conn[c] EXCEPT !.late = TRUE]
  <2>1. /\ r \in Task /\ r.at = conn[c].at /\ r.peer = conn[c].peer /\ r.source = conn[c].source
        /\ r.sourced = conn[c].sourced /\ r.permit = conn[c].permit
    BY Typed DEF Task
  <2>2. conn' = [conn EXCEPT ![c] = r] /\ conn[c].at \in Serving
    BY <1>6 DEF DeadlinePasses
  <2>. HIDE DEF r
  <2>. QED
    BY <1>1, <2>1, <2>2, Quiet
<1>7. CASE ServePing(c) \/ ServeRecovery(c) \/ ServeRequest(c)
  <2>1. conn[c].at \in Serving
    BY <1>7 DEF ServePing, ServeRecovery, ServeRequest, Serving
  <2>2. \E step \in Serving \cup {"ended"}, auth \in BOOLEAN : Goes(c, step, auth)
    BY <1>0, <1>7 DEF ServePing, ServeRecovery, ServeRequest, Serving
  <2>. QED
    BY <1>3, <2>1, <2>2
<1>. QED
  BY <1>2, <1>5, <1>6, <1>7 DEF Message

-----------------------------------------------------------------------------
LEMMA AdmissionInitial == Init => AdmissionInvariant
<1>. SUFFICES ASSUME Init PROVE AdmissionInvariant
  OBVIOUS
<1>1. \A c \in Conn : conn[c] = NoTask
  BY Zenon DEF Init
<1>2. TypeOK
  BY NoTaskHeld DEF Init, TypeOK, Kind
<1>3. \A c \in Conn : Held(conn[c])
  BY <1>1, NoTaskHeld
<1>4. /\ Handshaking = {} /\ \A k \in Kind : Holding(k) = {}
      /\ \A p \in Peer : CountedFor(p) = {}
      /\ \A s \in Source : SourcedFrom(s) = {}
  BY <1>1, NoTaskHeld DEF Handshaking, Holding, CountedFor, SourcedFrom, Serving, Kind
<1>5. PermitsConserved
  <2>1. Cardinality({}) = 0
    BY FS_EmptySet
  <2>2. handshakes + 0 = MaxHandshakes /\ \A k \in Kind : handlers[k] + 0 = MaxHandlers[k]
    BY DEF Init
  <2>3. (\A p \in Peer : peers[p] = 0) /\ \A s \in Source : sources[s] = 0
    BY DEF Init
  <2>. QED
    BY <1>4, <2>1, <2>2, <2>3, Zenon DEF PermitsConserved
<1>. QED
  BY <1>2, <1>3, <1>5 DEF AdmissionInvariant

LEMMA AdmissionInductive == AdmissionInvariant /\ [Next]_vars => AdmissionInvariant'
<1>. SUFFICES ASSUME AdmissionInvariant, [Next]_vars PROVE AdmissionInvariant'
  OBVIOUS
<1>1. ASSUME NEW c \in Conn,
             \/ \E p \in Peer, s \in Source, relay \in BOOLEAN : AcceptIncoming(c, p, s, relay)
             \/ HandshakeDone(c) \/ Runs(c) \/ StreamOpened(c)
             \/ FrameBroken(c) \/ StreamEnds(c) \/ FrameTimesOut(c) \/ DeadlinePasses(c)
      PROVE  AdmissionInvariant'
  BY <1>1, AcceptKeeps, HandshakeKeeps, TakeHandlerKeeps, TakePeerSlotKeeps,
     LeavePeerSlotKeeps, ServingKeeps DEF Runs
<1>2. CASE PairingsChange \/ UNCHANGED vars
  <2>1. UNCHANGED <<conn, handshakes, handlers, peers, sources>> /\ referenced' \subseteq Peer
    BY <1>2 DEF PairingsChange, vars, Kept, AdmissionInvariant, TypeOK
  <2>. QED
    BY <2>1 DEF AdmissionInvariant, TypeOK, PermitsConserved, Handshaking, Holding, CountedFor,
                SourcedFrom
<1>. QED
  BY <1>1, <1>2 DEF Next

\* The invariant both theorems below rest on.
THEOREM AdmissionInvariantHolds == Spec => []AdmissionInvariant
<1>. QED
  BY AdmissionInitial, AdmissionInductive, PTL DEF Spec

\* The counters stay within the limits of lib.rs and peer.rs.
THEOREM AdmissionTypeCorrect == Spec => []TypeOK
<1>1. AdmissionInvariant => TypeOK
  BY DEF AdmissionInvariant
<1>. QED
  BY <1>1, AdmissionInvariantHolds, PTL

\* Every permit that is not free is held by a connection that is still there.
THEOREM PermitsConservedHolds == Spec => []PermitsConserved
<1>1. AdmissionInvariant => PermitsConserved
  BY DEF AdmissionInvariant
<1>. QED
  BY <1>1, AdmissionInvariantHolds, PTL

=============================================================================
