----------------------------- MODULE Admission -----------------------------
(***************************************************************************)
(* The phone's accept loop (app/src-tauri/src/lib.rs), the limiter of       *)
(* peer.rs and the message loop of serve_connection (commands.rs) as far    *)
(* as it decides how long a connection stays.  Each accepted connection is  *)
(* a task that holds permits; it gives them back by whichever way it ends.  *)
(*                                                                         *)
(* A connection the loop refuses at once leaves no trace and takes no step. *)
(* Timeouts may fire at any time a task waits; what a frame contains is     *)
(* only told apart as far as the loop does.                                 *)
(***************************************************************************)
EXTENDS Naturals, FiniteSets

CONSTANTS
    Peer,               \* node ids
    Source,             \* addresses and relays
    Conn,               \* connections that can exist at the same time
    MaxHandshakes,      \* MAX_INBOUND_HANDSHAKES
    MaxHandlers,        \* MAX_PAIRED_ and MAX_UNTRUSTED_CONNECTION_HANDLERS
    MaxPerPeer,         \* MAX_INBOUND_CONNECTIONS_PER_PEER
    MaxPerSource        \* MAX_INBOUND_CONNECTIONS_PER_SOURCE

Kind == {"paired", "untrusted"}

ASSUME AdmissionAssumption ==
    /\ IsFiniteSet(Conn)
    /\ MaxHandshakes \in Nat /\ MaxHandlers \in [Kind -> Nat]
    /\ MaxPerPeer \in Nat /\ MaxPerSource \in Nat
    /\ Peer # {} /\ Source # {}

VARIABLES
    referenced,     \* peers that a stored pairing or the loaded secrets name
    conn,           \* the connection tasks
    handshakes,     \* free permits of inbound_handshakes
    handlers,       \* free permits of paired_handlers and untrusted_handlers
    peers,          \* inbound_peer_counts
    sources         \* counts of the SourceAdmissionLimiter

vars == <<referenced, conn, handshakes, handlers, peers, sources>>

Serving == {"stream", "frame"}

\* sourced, permit: what the task holds of the limits above; late: authentication_deadline
\* is past.
Task == [at : {"idle", "handshake", "classify", "permit", "slot", "ended"} \cup Serving,
         peer : Peer, source : Source, sourced : BOOLEAN, trusted : BOOLEAN,
         permit : Kind \cup {"none"}, authenticated : BOOLEAN, late : BOOLEAN]

NoTask == [at |-> "idle", peer |-> CHOOSE p \in Peer : TRUE, source |-> CHOOSE s \in Source : TRUE,
           sourced |-> FALSE, trusted |-> FALSE, permit |-> "none", authenticated |-> FALSE,
           late |-> FALSE]

TypeOK ==
    /\ referenced \subseteq Peer
    /\ conn \in [Conn -> Task]
    /\ handshakes \in 0 .. MaxHandshakes
    /\ handlers \in [Kind -> Nat]
    /\ \A k \in Kind : handlers[k] <= MaxHandlers[k]
    /\ peers \in [Peer -> 0 .. MaxPerPeer]
    /\ sources \in [Source -> 0 .. MaxPerSource]

Init ==
    /\ referenced \in SUBSET Peer
    /\ conn = [c \in Conn |-> NoTask]
    /\ handshakes = MaxHandshakes
    /\ handlers = MaxHandlers
    /\ peers = [p \in Peer |-> 0]
    /\ sources = [s \in Source |-> 0]

-----------------------------------------------------------------------------
\* Permits.

Kept == <<handshakes, handlers, peers, sources>>
To(c, step) == conn' = [conn EXCEPT ![c].at = step]

\* Dropping _source_permit and _handler_permit: the task is over.
DropSource(c) ==
    sources' = IF conn[c].sourced THEN [sources EXCEPT ![conn[c].source] = @ - 1] ELSE sources
DropHandler(c) ==
    handlers' = IF conn[c].permit # "none" THEN [handlers EXCEPT ![conn[c].permit] = @ + 1]
                                           ELSE handlers
Gone(c) == /\ conn' = [conn EXCEPT ![c] = NoTask]
           /\ DropSource(c) /\ DropHandler(c)

-----------------------------------------------------------------------------
\* The accept loop.  A relay vouches for the peer's id before the handshake; a peer
\* that is referenced then needs no source permit.
AcceptIncoming(c, p, s, relay) ==
    \E claims \in {FALSE, relay /\ p \in referenced} :
        /\ conn[c].at = "idle"
        /\ claims \/ sources[s] < MaxPerSource
        /\ handshakes > 0
        /\ conn' = [conn EXCEPT ![c] = [NoTask EXCEPT !.at = "handshake", !.peer = p,
                                                          !.source = s, !.sourced = ~claims]]
        /\ sources' = IF claims THEN sources ELSE [sources EXCEPT ![s] = @ + 1]
        /\ handshakes' = handshakes - 1
        /\ UNCHANGED <<referenced, handlers, peers>>

HandshakeDone(c) ==
    /\ conn[c].at = "handshake"
    /\ To(c, "classify")
    /\ handshakes' = handshakes + 1
    /\ UNCHANGED <<referenced, handlers, peers, sources>>

FaultHandshakeFails(c) ==
    /\ conn[c].at = "handshake"
    /\ Gone(c)
    /\ UNCHANGED <<referenced, handshakes, peers>>
\* Refused, broken off or timed out.
HandshakeFails(c) ==
    /\ conn[c].at = "handshake"
    /\ Gone(c)
    /\ handshakes' = handshakes + 1
    /\ UNCHANGED <<referenced, peers>>

\* is_referenced_pairing_peer; when storage is slow or fails the answer is no.
Classify(c) ==
    /\ conn[c].at = "classify"
    /\ \E known \in {FALSE, conn[c].peer \in referenced} :
           conn' = [conn EXCEPT ![c].at = "permit", ![c].trusted = known]
    /\ UNCHANGED <<referenced, Kept>>

\* Fault: a connection waits for a handler permit to come free.
FaultTakeHandler(c) ==
    LET kind == IF conn[c].trusted THEN "paired" ELSE "untrusted" IN
    /\ conn[c].at = "permit" /\ handlers[kind] > 0
    /\ conn' = [conn EXCEPT ![c].at = "slot", ![c].permit = kind]
    /\ handlers' = [handlers EXCEPT ![kind] = @ - 1]
    /\ UNCHANGED <<referenced, handshakes, peers, sources>>
TakeHandler(c) ==
    LET kind == IF conn[c].trusted THEN "paired" ELSE "untrusted" IN
    /\ conn[c].at = "permit"
    /\ IF handlers[kind] > 0
       THEN /\ conn' = [conn EXCEPT ![c].at = "slot", ![c].permit = kind]
            /\ handlers' = [handlers EXCEPT ![kind] = @ - 1]
            /\ UNCHANGED sources
       ELSE Gone(c)
    /\ UNCHANGED <<referenced, handshakes, peers>>

FaultTakePeerSlot(c) ==
    /\ conn[c].at = "slot"
    /\ peers' = [peers EXCEPT ![conn[c].peer] = @ + 1]
    /\ IF peers[conn[c].peer] < MaxPerPeer
       THEN To(c, "stream") /\ UNCHANGED <<handlers, sources>> ELSE Gone(c)
    /\ UNCHANGED <<referenced, handshakes>>
TakePeerSlot(c) ==
    /\ conn[c].at = "slot"
    /\ IF peers[conn[c].peer] < MaxPerPeer
       THEN /\ To(c, "stream")
            /\ peers' = [peers EXCEPT ![conn[c].peer] = @ + 1]
            /\ UNCHANGED <<handlers, sources>>
       ELSE Gone(c) /\ UNCHANGED peers
    /\ UNCHANGED <<referenced, handshakes>>

\* serve_connection has returned: the peer's count goes down, the permits drop.
LeavePeerSlot(c) ==
    /\ conn[c].at = "ended"
    /\ peers' = [peers EXCEPT ![conn[c].peer] = @ - 1]
    /\ Gone(c)
    /\ UNCHANGED <<referenced, handshakes>>

-----------------------------------------------------------------------------
\* serve_connection: one stream and one message in it at a time.

\* The time to authenticate counts from the start; no stream or message renews it.
DeadlinePasses(c) ==
    /\ conn[c].at \in Serving /\ ~conn[c].authenticated /\ ~conn[c].late
    /\ conn' = [conn EXCEPT ![c].late = TRUE]
    /\ UNCHANGED <<referenced, Kept>>
Expired(c) == conn[c].late /\ ~conn[c].authenticated

StreamOpened(c) == /\ conn[c].at = "stream" /\ ~Expired(c) /\ To(c, "frame")
                   /\ UNCHANGED <<referenced, Kept>>

\* A broken frame ends a connection that has not authenticated yet.
FrameBroken(c)  == /\ conn[c].at = "frame"
                   /\ To(c, IF conn[c].authenticated THEN "stream" ELSE "ended")
                   /\ UNCHANGED <<referenced, Kept>>

\* The peer closes, the idle or frame timeout fires, or the authentication deadline passes.
StreamEnds(c)   == /\ conn[c].at = "stream" /\ To(c, "ended")
                   /\ UNCHANGED <<referenced, Kept>>
FrameTimesOut(c) == /\ conn[c].at = "frame" /\ To(c, "ended")
                    /\ UNCHANGED <<referenced, Kept>>

Goes(c, step, authenticated) ==
    conn' = [conn EXCEPT ![c].at = step, ![c].authenticated = authenticated]

\* What a peer check may say of a peer: yes only in time, and if a pairing names it.
Checks(c) == {FALSE, ~Expired(c) /\ conn[c].peer \in referenced}

\* An authenticated connection is not checked again for a ping.
ServePing(c) ==
    /\ conn[c].at = "frame"
    /\ \E known \in Checks(c), sent \in BOOLEAN :
           LET paired == conn[c].authenticated \/ known
           IN  Goes(c, IF sent /\ paired THEN "stream" ELSE "ended", paired)
    /\ UNCHANGED <<referenced, Kept>>

\* PairingCommit and PairingActivate; the acknowledgement may fail without ending it.
ServeRecovery(c) ==
    /\ conn[c].at = "frame"
    /\ \E known \in Checks(c) :
           Goes(c, IF known THEN "stream" ELSE "ended", known \/ conn[c].authenticated)
    /\ UNCHANGED <<referenced, Kept>>

\* Every AuthRequest is checked, and a stale one, or one outside a session, ends it.
ServeRequest(c) ==
    /\ conn[c].at = "frame"
    /\ \E known \in Checks(c), fresh \in BOOLEAN :
           Goes(c, IF known /\ fresh THEN "stream" ELSE "ended", known \/ conn[c].authenticated)
    /\ UNCHANGED <<referenced, Kept>>

\* A message of another type, or one that does not decode.
ServeOther(c) ==
    /\ conn[c].at = "frame"
    /\ To(c, IF conn[c].authenticated THEN "stream" ELSE "ended")
    /\ UNCHANGED <<referenced, Kept>>

\* Pairings come and go (module PhonePairing).
PairingsChange ==
    /\ referenced' \in SUBSET Peer
    /\ UNCHANGED <<conn, Kept>>

-----------------------------------------------------------------------------
Message(c) == ServePing(c) \/ ServeRecovery(c) \/ ServeRequest(c) \/ ServeOther(c)

\* The task's own steps and timers, without the peer.
Runs(c) ==
    \/ HandshakeFails(c) \/ Classify(c) \/ TakeHandler(c) \/ TakePeerSlot(c)
    \/ LeavePeerSlot(c) \/ Message(c)

Next ==
    \/ \E c \in Conn :
         \/ \E p \in Peer, s \in Source, relay \in BOOLEAN : AcceptIncoming(c, p, s, relay)
         \/ HandshakeDone(c) \/ Runs(c) \/ StreamOpened(c)
         \/ FrameBroken(c) \/ StreamEnds(c) \/ FrameTimesOut(c) \/ DeadlinePasses(c)
    \/ PairingsChange

Spec == Init /\ [][Next]_vars

\* Tasks are polled and timers fire; the peer need do nothing.
Fairness == \A c \in Conn : /\ WF_vars(Runs(c))
                            /\ WF_vars(StreamEnds(c)) /\ WF_vars(FrameTimesOut(c))
                            /\ WF_vars(DeadlinePasses(c))
FairSpec == Spec /\ Fairness

-----------------------------------------------------------------------------
\* What must hold.

Handshaking    == {c \in Conn : conn[c].at = "handshake"}
Holding(k)     == {c \in Conn : conn[c].permit = k}
CountedFor(p)  == {c \in Conn : conn[c].at \in Serving \cup {"ended"} /\ conn[c].peer = p}
SourcedFrom(s) == {c \in Conn : conn[c].sourced /\ conn[c].source = s}

\* Every permit that is not free is held by a connection that is still there, however
\* the others ended; a leak would in the end lock every desktop out.
PermitsConserved ==
    /\ handshakes + Cardinality(Handshaking) = MaxHandshakes
    /\ \A k \in Kind   : handlers[k] + Cardinality(Holding(k)) = MaxHandlers[k]
    /\ \A p \in Peer   : peers[p] = Cardinality(CountedFor(p))
    /\ \A s \in Source : sources[s] = Cardinality(SourcedFrom(s))

\* A connection that does not authenticate goes away by itself, whatever it sends.
StrangersLeave ==
    \A c \in Conn : conn[c].at # "idle" /\ ~conn[c].authenticated
                        ~> conn[c].at = "idle" \/ conn[c].authenticated

=============================================================================
