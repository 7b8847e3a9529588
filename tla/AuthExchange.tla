---------------------------- MODULE AuthExchange ----------------------------
(***************************************************************************)
(* One request for approval after another, end to end: the desktop session   *)
(* that asks (cli/src/twofa/mod.rs, net/phone_connection.rs, net/cli_peer.rs, *)
(* session_conn.rs), the streams between, the phone's single slot for a       *)
(* request and the prompt its user sees (app commands.rs, +page.svelte).      *)
(* The phone's own sessions are in module PhoneSession: here a phone that is  *)
(* locked, in the background or holds no key just refuses.                    *)
(*                                                                         *)
(* Time passes in Ticks.  A request is the number of its command; request,    *)
(* code and action are as one, its id.                                        *)
(***************************************************************************)
EXTENDS Integers

CONSTANTS
    MaxRequests,    \* bound: commands in a behaviour
    Phase,          \* 10 s: dialling again, opening a stream, writing
    Connect,        \* 15 s: dialling for one exchange
    Response,       \* 60 s: waiting for the answer
    Total,          \* 70 s: all of an exchange on one of the session's connections
    OneShot,        \* 75 s: all of an exchange that dials for itself
    PendingTTL,     \* 65 s: a request in the phone's slot
    MaxSkew,        \* 5 min: AUTH_TIMESTAMP_MAX_SKEW_MS
    Skews,          \* phone clock minus desktop clock, the values to consider
    MaxAge,         \* bound: age of a request, the last value standing for all later ones
    Word            \* values of a timestamp (2^64), for arithmetic at its ends

ASSUME ExchangeAssumption ==
    /\ {MaxRequests, Phase, Connect, Response, Total, OneShot, PendingTTL, MaxSkew, MaxAge, Word}
          \subseteq Nat \ {0}
    /\ Skews \subseteq Int
    /\ Response < PendingTTL /\ Response < Total /\ Response < OneShot /\ Phase <= Total
    /\ Connect + Phase <= OneShot /\ OneShot <= 2 * Phase + Total

VARIABLES
    desk,       \* the desktop's command
    pending,    \* SessionState::pending_requests
    phoneConn,  \* SessionState::phone_conn: none, or a connection that is up or down
    stream,     \* per request, the stream it was last sent on
    age,        \* per request, ticks since it was made
    slot,       \* the phone's pending request
    event,      \* the auth-request event on its way to the front end (0: none)
    shown,      \* the request the front end's prompt shows (0: none)
    skew,       \* phone clock minus desktop clock
    made,       \* requests made
    outcome,    \* history: what the desktop made of each request
    arrived,    \* history: how often a request has come in at the phone
    approvals   \* history: requests the user has approved while reading them

vars == <<desk, pending, phoneConn, stream, age, slot, event, shown, skew, made,
          outcome, arrived, approvals>>
phone    == <<slot, event, shown, approvals>>
desktop  == <<desk, pending, phoneConn, made, outcome>>

Requests == 1 .. MaxRequests
Free     == [request |-> 0, left |-> 0]
Unsent   == [state |-> "unsent", at |-> 0]

\* An exchange on the session's connection, on a new one that would replace it, or on one
\* of its own, the dialling of which counts for its time; up: that connection is.
Exchange(step, conn, phase, total) ==
    [at |-> step, via |-> conn, phase |-> phase, total |-> total, up |-> TRUE]
Idle == Exchange("idle", "cached", 0, 0)

TypeOK ==
    /\ desk \in [at : {"idle", "open", "dial", "write", "wait"},
                 via : {"cached", "new", "oneshot"},
                 phase : 0 .. Phase + Connect + Response, total : 0 .. Total + OneShot, up : BOOLEAN]
    /\ pending \in SUBSET Requests /\ pending \subseteq (IF desk.at = "idle" THEN {} ELSE {made})
    /\ phoneConn \in {"none", "up", "down"}
    \* at: the request's age at the answer
    /\ stream \in [Requests -> [state : {"unsent", "sent", "held", "yes", "no", "reset"},
                                at : 0 .. MaxAge]]
    /\ age \in [Requests -> 0 .. MaxAge]
    /\ slot \in [request : Requests, left : 0 .. PendingTTL] \cup {Free}
    /\ event \in 0 .. MaxRequests /\ shown \in 0 .. MaxRequests
    /\ skew \in Skews /\ made \in 0 .. MaxRequests
    /\ outcome \in [Requests -> {"none", "approved", "denied", "skew", "error"}]
    /\ arrived \in [Requests -> 0 .. 2] /\ approvals \subseteq Requests

Init ==
    /\ desk = Idle /\ pending = {} /\ phoneConn \in {"none", "up"}
    /\ stream = [r \in Requests |-> Unsent] /\ age = [r \in Requests |-> 0]
    /\ slot = Free /\ event = 0 /\ shown = 0
    /\ skew \in Skews /\ made = 0
    /\ outcome = [r \in Requests |-> "none"]
    /\ arrived = [r \in Requests |-> 0] /\ approvals = {}

-----------------------------------------------------------------------------
\* The desktop.

\* A command of an open session registers its request and takes the session's
\* connection, or dials for this one exchange when there is none.
Ask ==
    /\ desk.at = "idle" /\ made < MaxRequests
    /\ made' = made + 1
    /\ pending' = pending \cup {made + 1}
    /\ desk' = IF phoneConn # "none" THEN Exchange("open", "cached", Phase, Total)
               ELSE Exchange("dial", "oneshot", Connect, OneShot)
    /\ UNCHANGED <<phoneConn, stream, age, outcome, skew, arrived, phone>>

\* The unlock itself has no session to register in, and always dials.
AskForShare ==
    /\ desk.at = "idle" /\ made < MaxRequests
    /\ made' = made + 1
    /\ desk' = Exchange("dial", "oneshot", Connect, OneShot)
    /\ UNCHANGED <<pending, phoneConn, stream, age, outcome, skew, arrived, phone>>

\* The command is over, its stream left in some state, no more of it needed than that.
FaultFinishWith(result, state) ==
    /\ desk' = Idle
    /\ pending' = IF result = "error" THEN pending ELSE pending \ {made}
    /\ outcome' = [outcome EXCEPT ![made] = result]
    /\ stream' = [stream EXCEPT ![made] = [state |-> state, at |-> 0]]
    /\ age' = [age EXCEPT ![made] = IF state = "sent" THEN @ ELSE 0]
FinishWith(result, state) ==
    /\ desk' = Idle
    /\ pending' = pending \ {made}
    /\ outcome' = [outcome EXCEPT ![made] = result]
    /\ stream' = [stream EXCEPT ![made] = [state |-> state, at |-> 0]]
    /\ age' = [age EXCEPT ![made] = IF state = "sent" THEN @ ELSE 0]
Finish(result) == FinishWith(result, stream[made].state)

\* Nothing has been sent yet: the stream cannot be opened, or not within its time.
\* A session's connection is forgotten and the phone dialled again, once.
OpenFails ==
    /\ desk.at = "open"
    /\ IF desk.via = "cached"
       THEN /\ desk' = Exchange("dial", "new", Phase, Total)
            /\ phoneConn' = "none"
            /\ UNCHANGED <<pending, outcome, stream, age>>
       ELSE Finish("error") /\ UNCHANGED phoneConn
    /\ UNCHANGED <<skew, made, arrived, phone>>

Open ==
    /\ desk.at = "open" /\ (desk.via = "cached" => phoneConn = "up")
    /\ desk' = [desk EXCEPT !.at = "write", !.phase = Phase]
    /\ UNCHANGED <<pending, phoneConn, outcome, stream, age, skew, made, arrived, phone>>

Dial ==
    /\ desk.at = "dial"
    /\ \/ /\ desk' = [desk EXCEPT !.at = "open", !.phase = Phase,
                                   !.total = IF desk.via = "oneshot" THEN @ ELSE Total]
          /\ UNCHANGED <<pending, outcome, stream, age>>
       \/ Finish("error")
    /\ UNCHANGED <<phoneConn, skew, made, arrived, phone>>

FaultWrite ==
    /\ desk.at = "write"
    /\ \/ /\ desk' = [desk EXCEPT !.at = "wait", !.phase = Response]
          /\ stream' = [stream EXCEPT ![made].state = "sent"]
          /\ UNCHANGED <<pending, outcome, age, phoneConn>>
       \/ \E state \in {"unsent", "sent"} :
            IF desk.via = "cached"
            THEN /\ desk' = Exchange("dial", "new", Phase, Total)
                 /\ stream' = [stream EXCEPT ![made].state = state]
                 /\ phoneConn' = "none"
                 /\ UNCHANGED <<pending, outcome, age>>
            ELSE FinishWith("error", state) /\ UNCHANGED phoneConn
    /\ UNCHANGED <<skew, made, arrived, phone>>
\* From here on the phone may have the request: a write that fails may have got through,
\* and nothing is sent again.
Write ==
    /\ desk.at = "write"
    /\ \/ /\ desk' = [desk EXCEPT !.at = "wait", !.phase = Response]
          /\ stream' = [stream EXCEPT ![made].state = "sent"]
          /\ UNCHANGED <<pending, outcome, age>>
       \/ \E state \in {"unsent", "sent"} : FinishWith("error", state)
    /\ UNCHANGED <<phoneConn, skew, made, arrived, phone>>

\* saturating_sub of two timestamps.
FaultMinus(a, b) == (a - b) % Word
Minus(a, b) == IF a < b THEN 0 ELSE a - b

\* validate_auth_timestamp: a stamp at most MaxSkew old, at most MaxSkew in the future.
Fresh(stamp, now) == Minus(now, stamp) <= MaxSkew /\ Minus(stamp, now) <= MaxSkew

\* validate_auth_exchange, by the desktop's clock, which read 0 when the request was made.
TimesMatch(r) == Fresh(0, age[r]) /\ Fresh(stream[r].at + skew, age[r])

FaultReceive ==
    /\ made \in Requests /\ desk.at \in {"idle", "wait"}
    /\ stream[made].state \in {"yes", "no"}
    /\ Finish(IF stream[made].state = "yes" THEN "approved" ELSE "denied")
    /\ UNCHANGED <<phoneConn, skew, made, arrived, phone>>
\* The answer to the request on its own stream, its signature checked.  A connection
\* dialled for it becomes the session's.
Receive ==
    /\ desk.at = "wait" /\ desk.up /\ stream[made].state \in {"yes", "no"}
    /\ Finish(IF ~TimesMatch(made) THEN "skew"
              ELSE IF stream[made].state = "yes" THEN "approved" ELSE "denied")
    /\ phoneConn' = IF desk.via = "new" THEN "up" ELSE phoneConn
    /\ UNCHANGED <<skew, made, arrived, phone>>

\* The stream or its connection is gone, or the frame is not an answer.
ReceiveFails ==
    /\ desk.at = "wait" /\ (~desk.up \/ stream[made].state = "reset")
    /\ Finish("error")
    /\ UNCHANGED <<phoneConn, skew, made, arrived, phone>>

FaultTimedOut ==
    desk.at \in {"dial", "write", "wait"} /\ desk.up /\ (desk.phase = 0 \/ desk.total = 0)
TimedOut == desk.at \in {"dial", "write", "wait"} /\ (desk.phase = 0 \/ desk.total = 0)

Timeout ==
    /\ TimedOut
    /\ Finish("error")
    /\ UNCHANGED <<phoneConn, skew, made, arrived, phone>>

\* `reconnect' closes the connection and pings over a new one before keeping it.
Reconnect ==
    /\ desk.at = "idle"
    /\ phoneConn' \in {"none", "up"}
    /\ UNCHANGED <<desk, pending, stream, age, skew, made, outcome, arrived, phone>>

-----------------------------------------------------------------------------
\* The network: connections die unnoticed, with what is on them.
Using(conns) == desk.at # "idle" /\ desk.via \in conns

CachedDies ==
    /\ phoneConn = "up"
    /\ phoneConn' = "down"
    /\ desk' = IF Using({"cached"}) THEN [desk EXCEPT !.up = FALSE] ELSE desk
    /\ UNCHANGED <<pending, stream, age, skew, made, outcome, arrived, phone>>

OtherDies ==
    /\ Using({"new", "oneshot"}) /\ desk.at = "wait" /\ desk.up
    /\ desk' = [desk EXCEPT !.up = FALSE]
    /\ UNCHANGED <<pending, phoneConn, stream, age, skew, made, outcome, arrived, phone>>

-----------------------------------------------------------------------------
\* The phone.

Waited(r) == r = made /\ desk.at # "idle"

Settle(r, state) ==
    /\ stream' = [stream EXCEPT ![r] =
          [state |-> state, at |-> IF Waited(r) THEN age[r] ELSE 0]]
    /\ age' = [age EXCEPT ![r] = IF Waited(r) THEN @ ELSE 0]

Arrive(r) == /\ stream[r].state = "sent"
             /\ arrived' = [arrived EXCEPT ![r] = IF @ < 2 THEN @ + 1 ELSE @]

\* Not now: locked, in the background, its time over, an unknown peer, a stale stamp.
Refuse(r) ==
    /\ Arrive(r) /\ Settle(r, "reset")
    /\ phoneConn' = IF Waited(r) /\ desk.via = "cached" THEN "down" ELSE phoneConn
    /\ UNCHANGED <<desk, pending, skew, made, outcome, phone>>

Timely(r) == Fresh(0, age[r] + skew)

\* The slot takes it, unless the id has been seen, and the front end is told.
Admit(r) ==
    /\ Arrive(r) /\ Timely(r) /\ slot = Free /\ arrived[r] = 0
    /\ slot' = [request |-> r, left |-> PendingTTL]
    /\ event' = r
    /\ Settle(r, "held")
    /\ UNCHANGED <<desktop, skew, shown, approvals>>

\* Another request is before the user: the new one is denied, if the key can sign.
Busy(r) ==
    /\ Arrive(r) /\ Timely(r) /\ (slot # Free \/ arrived[r] > 0)
    /\ \E answer \in {"no", "reset"} : Settle(r, answer)
    /\ UNCHANGED <<desktop, skew, phone>>

\* Its time is over, or the session ends: the request is denied or its connection closed.
Drop ==
    /\ slot # Free
    /\ slot' = Free
    /\ \E answer \in {"no", "reset"} : Settle(slot.request, answer)
    /\ UNCHANGED <<desktop, skew, arrived, event, shown, approvals>>

\* handleAuthRequest: an event shows its request, whatever has become of it.
ShowEvent ==
    /\ event # 0
    /\ shown' = event /\ event' = 0
    /\ UNCHANGED <<desktop, stream, age, skew, arrived, slot, approvals>>

\* reconcilePendingRequest, every two seconds.
Poll ==
    /\ shown # slot.request
    /\ shown' = slot.request
    /\ UNCHANGED <<desktop, stream, age, skew, arrived, slot, event, approvals>>

FaultMatches == slot # Free /\ slot.left > 0
\* The prompt's request is the one in the slot, and not too old.
Matches == slot.request = shown /\ slot.left > 0

\* The user enters the PIN for what the prompt shows.  The slot is emptied, its request
\* answered, or its stream is lost; a key that wants authentication again restores it.
UserApproves ==
    /\ shown # 0
    /\ approvals' = approvals \cup {shown}
    /\ IF Matches
       THEN \/ /\ slot' = Free
               /\ \E answer \in {"yes", "reset"} : Settle(slot.request, answer)
            \/ UNCHANGED <<slot, stream, age>>
       ELSE UNCHANGED <<slot, stream, age>>
    /\ UNCHANGED <<desktop, skew, arrived, event, shown>>

UserDenies ==
    /\ shown # 0 /\ slot.request = shown
    /\ slot' = Free
    /\ \E answer \in {"no", "reset"} : Settle(slot.request, answer)
    /\ UNCHANGED <<desktop, skew, arrived, event, shown, approvals>>

-----------------------------------------------------------------------------
Down(n) == IF n = 0 THEN 0 ELSE n - 1

\* Timers are prompt: nothing waits beyond its time.
Tick ==
    /\ ~TimedOut /\ ~(desk.at = "open" /\ desk.phase = 0)
    /\ slot # Free => slot.left > 0
    /\ desk' = [desk EXCEPT !.phase = Down(@), !.total = Down(@)]
    /\ slot' = [slot EXCEPT !.left = Down(@)]
    /\ age' = [r \in Requests |->
                 IF (Waited(r) \/ stream[r].state = "sent") /\ age[r] < MaxAge
                 THEN age[r] + 1 ELSE age[r]]
    /\ UNCHANGED <<pending, phoneConn, stream, event, shown, skew, made, outcome, arrived,
                   approvals>>

DeskStep == \/ Ask \/ AskForShare
            \/ OpenFails \/ Open \/ Dial \/ Write \/ Receive \/ ReceiveFails \/ Timeout
            \/ Reconnect
PhoneStep == \/ \E r \in Requests : Refuse(r) \/ Admit(r) \/ Busy(r)
             \/ Drop \/ ShowEvent \/ Poll \/ UserApproves \/ UserDenies
Network == CachedDies \/ OtherDies

Next == DeskStep \/ PhoneStep \/ Network \/ Tick

Spec == Init /\ [][Next]_vars

\* Time passes and timers fire.
FairSpec == Spec /\ WF_vars(Tick) /\ WF_vars(Timeout)
                 /\ WF_vars(OpenFails /\ desk.phase = 0) /\ WF_vars(Drop /\ slot.left = 0)

-----------------------------------------------------------------------------
\* What must hold.

\* What the desktop takes for approved, the user has approved, with that very request
\* before their eyes: not a prompt that has outlived its request, not the request that
\* came after it.
ApprovedWhatWasShown == \A r \in Requests : outcome[r] = "approved" => r \in approvals

\* Redialling after a failure never puts a request to the phone a second time.
RetryIsSafe == \A r \in Requests : arrived[r] <= 1

ClockSlack == 2 * Phase + Total

\* Clocks that differ by less than what five minutes leave after the longest exchange
\* never cost a command: its answer is not thrown away for its timestamp.
TimestampsTolerant ==
    \A r \in Requests : outcome[r] = "skew" =>
        skew > MaxSkew - ClockSlack \/ skew < ClockSlack - MaxSkew

\* The exchange implements the questions and verdicts of module Authorization: whatever
\* dies, is dialled again or comes late, a question reaches the phone once at most and
\* gets one verdict, which nothing that comes after it changes.
Asking == INSTANCE Authorization WITH
    Last <- MaxRequests, asked <- made, waiting <- desk.at # "idle", reached <- arrived,
    consented <- approvals, verdict <- outcome

ImplementsAuthorization == Asking!Spec

\* A command that asks for approval ends, whatever the phone and the network do.
CommandEnds == [](desk.at # "idle" => <>(desk.at = "idle"))

=============================================================================
