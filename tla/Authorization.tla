--------------------------- MODULE Authorization ---------------------------
(***************************************************************************)
(* What asking the phone for leave promises, without connections, streams, *)
(* slots, prompts or clocks.  The desktop asks one question at a time; a   *)
(* question reaches the phone once or never; its user consents to what has *)
(* reached the phone; and the desktop closes each question with one verdict *)
(* that stands from then on, a yes only where the user's consent came first. *)
(* Questions may reach the phone, and be consented to, when the desktop no *)
(* longer waits: that changes no verdict.  Module AuthExchange is shown to *)
(* implement this one.                                                     *)
(***************************************************************************)
EXTENDS Naturals

CONSTANT Last           \* the last question

VARIABLES
    asked,      \* questions asked so far
    waiting,    \* the desktop waits for a verdict on the last one
    reached,    \* per question, how often it has reached the phone
    consented,  \* questions the phone's user has consented to
    verdict     \* per question, what the desktop made of it

Question == 1 .. Last

Init ==
    /\ asked = 0 /\ waiting = FALSE
    /\ reached = [q \in Question |-> 0]
    /\ consented = {}
    /\ verdict = [q \in Question |-> "none"]

Ask ==
    /\ ~waiting /\ asked < Last
    /\ asked' = asked + 1 /\ waiting' = TRUE
    /\ UNCHANGED <<reached, consented, verdict>>

Reach(q) ==
    /\ q <= asked /\ reached[q] = 0
    /\ reached' = [reached EXCEPT ![q] = 1]
    /\ UNCHANGED <<asked, waiting, consented, verdict>>

Consent(q) ==
    /\ reached[q] = 1
    /\ consented' = consented \cup {q}
    /\ UNCHANGED <<asked, waiting, reached, verdict>>

Conclude(v) ==
    /\ waiting /\ verdict[asked] = "none"
    /\ v = "approved" => asked \in consented
    /\ verdict' = [verdict EXCEPT ![asked] = v]
    /\ waiting' = FALSE
    /\ UNCHANGED <<asked, reached, consented>>

Next ==
    \/ Ask
    \/ \E q \in Question : Reach(q) \/ Consent(q)
    \/ \E v \in {"approved", "denied", "skew", "error"} : Conclude(v)

Spec == Init /\ [][Next]_<<asked, waiting, reached, consented, verdict>>

=============================================================================
