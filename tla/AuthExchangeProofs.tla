------------------------- MODULE AuthExchangeProofs -------------------------
(***************************************************************************)
(* The safety properties of AuthExchange, for any number of requests, any  *)
(* durations and any clocks.  The bound on the age of an answer is the one *)
(* that takes an argument: it adds up what the desktop's timers leave of   *)
(* an exchange that is dialled twice.                                      *)
(* Last comes the refinement of Authorization, step by step.               *)
(***************************************************************************)
EXTENDS AuthExchange, TLAPS

-----------------------------------------------------------------------------
\* The inductive invariant.

\* Nothing is known of a request before it is made.
NotYetMade == \A r \in Requests : r > made => stream[r] = Unsent /\ age[r] = 0

\* The command in progress is about the last request made, and until it has written
\* it, the phone cannot have it.
CommandPlaced ==
    /\ desk.at # "idle" => made \in Requests
    /\ desk.at \in {"open", "dial", "write"} => stream[made].state = "unsent"

\* A request that is still to be written or under way has not come in.
SentHasNotArrived ==
    \A r \in Requests : stream[r].state \in {"unsent", "sent"} => arrived[r] = 0

\* The request in the phone's slot is held by the task of its stream.
HeldInSlot == slot # Free => stream[slot.request].state = "held"

\* The phone says yes only to what its user has approved.
YesIsApproved == \A r \in Requests : stream[r].state = "yes" => r \in approvals

\* What is left on the timers bounds the age the request may still reach; the answer
\* is not older than the request.
InTime ==
    desk.at # "idle" =>
        /\ stream[made].at <= age[made]
        /\ desk.at = "open" => desk.phase <= desk.total
        /\ desk.at = "open" /\ desk.via = "cached" => age[made] + desk.phase <= Phase
        /\ desk.at = "dial" => desk.via \in {"new", "oneshot"}
        /\ desk.at = "dial" /\ desk.via = "new" => age[made] + desk.phase <= 2 * Phase
        /\ desk.at = "dial" /\ desk.via = "oneshot" => desk.phase + Phase <= desk.total
        /\ ~(desk.at = "dial" /\ desk.via = "new") => age[made] + desk.total <= ClockSlack

ExchangeInvariant ==
    /\ TypeOK
    /\ NotYetMade
    /\ CommandPlaced
    /\ SentHasNotArrived
    /\ HeldInSlot
    /\ YesIsApproved
    /\ InTime
    /\ ApprovedWhatWasShown
    /\ RetryIsSafe
    /\ TimestampsTolerant

-----------------------------------------------------------------------------
\* Names and numbers.

State == {"unsent", "sent", "held", "yes", "no", "reset"}
Stream == [state : State, at : 0 .. MaxAge]
Slot == [request : Requests, left : 0 .. PendingTTL] \cup {Free}
PhaseLeft == 0 .. Phase + Connect + Response
TotalLeft == 0 .. Total + OneShot
Desk == [at : {"idle", "open", "dial", "write", "wait"},
         via : {"cached", "new", "oneshot"},
         phase : PhaseLeft, total : TotalLeft, up : BOOLEAN]

\* The bounds of the clocks that TimestampsTolerant excuses.
FarApart == skew > MaxSkew - ClockSlack \/ skew < ClockSlack - MaxSkew

LEMMA Numbers ==
    /\ MaxRequests \in Nat /\ Phase \in Nat /\ Response \in Nat /\ Total \in Nat
    /\ PendingTTL \in Nat /\ MaxSkew \in Nat /\ MaxAge \in Nat /\ Skews \subseteq Int
    /\ Connect \in Nat /\ OneShot \in Nat
    /\ MaxRequests > 0 /\ Phase <= Total /\ Response < Total
    /\ Connect + Phase <= OneShot /\ OneShot <= ClockSlack
    /\ ClockSlack = 2 * Phase + Total
    /\ Requests = 1 .. MaxRequests
BY ExchangeAssumption DEF ClockSlack, Requests

LEMMA Durations ==
    /\ {0, Phase, Connect, Response} \subseteq PhaseLeft /\ PhaseLeft \subseteq Nat
    /\ {0, Total, OneShot} \subseteq TotalLeft /\ TotalLeft \subseteq Nat
BY Numbers DEF PhaseLeft, TotalLeft

\* The exchanges a command begins with, and the one that dials again.
LEMMA FirstExchanges ==
    /\ LET x == Exchange("open", "cached", Phase, Total) IN
       x \in Desk /\ x.at = "open" /\ x.via = "cached" /\ x.phase = Phase /\ x.total = Total
    /\ LET x == Exchange("dial", "oneshot", Connect, OneShot) IN
       x \in Desk /\ x.at = "dial" /\ x.via = "oneshot" /\ x.phase = Connect /\ x.total = OneShot
    /\ LET x == Exchange("dial", "new", Phase, Total) IN
       x \in Desk /\ x.at = "dial" /\ x.via = "new" /\ x.phase = Phase /\ x.total = Total
BY Durations DEF Exchange, Desk

LEMMA IdleIsDesk == Idle \in Desk /\ Idle.at = "idle" /\ Idle.via = "cached"
BY Durations DEF Idle, Exchange, Desk

LEMMA TypeFacts ==
    ASSUME TypeOK
    PROVE  /\ desk \in Desk /\ made \in 0 .. MaxRequests /\ skew \in Int
           /\ stream \in [Requests -> Stream] /\ age \in [Requests -> 0 .. MaxAge]
           /\ arrived \in [Requests -> 0 .. 2] /\ slot \in Slot
           /\ slot # Free => slot.request \in Requests /\ slot \in [request : Requests, left : 0 .. PendingTTL]
BY Numbers DEF TypeOK, Desk, PhaseLeft, TotalLeft, Stream, State, Slot

-----------------------------------------------------------------------------
\* What kinds of steps there are.

\* The desktop's command goes on, or a prompt changes; no stream does.
LEMMA StreamsStand ==
    ASSUME ExchangeInvariant, UNCHANGED <<stream, age, skew, made, outcome, arrived>>,
           desk' \in Desk, pending' = pending, desk'.at = "idle" <=> desk.at = "idle",
           phoneConn' \in {"none", "up", "down"},
           event' \in 0 .. MaxRequests, shown' \in 0 .. MaxRequests,
           slot' = slot, approvals \subseteq approvals', approvals' \subseteq Requests,
           desk'.at \in {"open", "dial", "write"} => stream[made].state = "unsent",
           InTime'
    PROVE  ExchangeInvariant'
<1>1. TypeOK'
  BY DEF ExchangeInvariant, TypeOK, Desk, PhaseLeft, TotalLeft
<1>2. NotYetMade' /\ SentHasNotArrived' /\ HeldInSlot' /\ YesIsApproved'
  BY DEF ExchangeInvariant, NotYetMade, SentHasNotArrived, HeldInSlot, YesIsApproved
<1>3. CommandPlaced'
  BY DEF ExchangeInvariant, CommandPlaced
<1>4. ApprovedWhatWasShown' /\ RetryIsSafe' /\ TimestampsTolerant'
  BY DEF ExchangeInvariant, ApprovedWhatWasShown, RetryIsSafe, TimestampsTolerant
<1> QED BY <1>1, <1>2, <1>3, <1>4 DEF ExchangeInvariant

\* The command is over.
LEMMA CommandOver ==
    ASSUME ExchangeInvariant, desk.at # "idle",
           NEW result \in {"approved", "denied", "skew", "error"},
           NEW state \in State, FinishWith(result, state),
           \/ state = stream[made].state
           \/ stream[made].state = "unsent" /\ state = "sent",
           phoneConn' \in {"none", "up", "down"},
           UNCHANGED <<skew, made, arrived, phone>>,
           result = "approved" => made \in approvals,
           result = "skew" => FarApart
    PROVE  ExchangeInvariant'
<1>1. /\ made \in Requests /\ desk' = Idle /\ pending' = pending \ {made}
      /\ UNCHANGED <<slot, event, shown, approvals>>
  BY DEF ExchangeInvariant, CommandPlaced, FinishWith, phone
<1>2. stream' \in [Requests -> Stream] /\ age' \in [Requests -> 0 .. MaxAge]
  BY <1>1, TypeFacts, Numbers DEF ExchangeInvariant, FinishWith, Stream
<1>3. /\ stream'[made] = [state |-> state, at |-> 0]
      /\ \A r \in Requests : r # made => stream'[r] = stream[r] /\ age'[r] = age[r]
  BY <1>1, TypeFacts DEF ExchangeInvariant, FinishWith
<1>4. /\ outcome' \in [Requests -> {"none", "approved", "denied", "skew", "error"}]
      /\ outcome'[made] = result
      /\ \A r \in Requests : r # made => outcome'[r] = outcome[r]
  BY <1>1 DEF ExchangeInvariant, TypeOK, FinishWith
<1>5. pending' = {}
  BY <1>1 DEF ExchangeInvariant, TypeOK
<1>6. TypeOK'
  BY <1>1, <1>2, <1>4, <1>5, IdleIsDesk DEF ExchangeInvariant, TypeOK, Desk, PhaseLeft, TotalLeft,
     Stream, State
<1>7. NotYetMade'
  BY <1>1, <1>3, TypeFacts, Numbers DEF ExchangeInvariant, NotYetMade
<1>8. CommandPlaced' /\ InTime'
  BY <1>1, IdleIsDesk DEF CommandPlaced, InTime
<1>9. \A r \in Requests : \/ stream'[r].state = stream[r].state
                          \/ stream[r].state = "unsent" /\ stream'[r].state = "sent"
  BY <1>3
<1>10. SentHasNotArrived' /\ HeldInSlot' /\ YesIsApproved'
  BY <1>1, <1>9, TypeFacts
     DEF ExchangeInvariant, SentHasNotArrived, HeldInSlot, YesIsApproved
<1>11. ApprovedWhatWasShown' /\ RetryIsSafe'
  BY <1>1, <1>4 DEF ExchangeInvariant, ApprovedWhatWasShown, RetryIsSafe
<1>12. TimestampsTolerant'
  BY <1>1, <1>4 DEF ExchangeInvariant, TimestampsTolerant, FarApart, ClockSlack
<1> QED BY <1>6, <1>7, <1>8, <1>10, <1>11, <1>12 DEF ExchangeInvariant

\* The phone takes a request off its stream, or answers it.
LEMMA RequestSettled ==
    ASSUME ExchangeInvariant, NEW r \in Requests, stream[r].state # "unsent",
           NEW state \in {"held", "yes", "no", "reset"}, Settle(r, state),
           UNCHANGED <<desk, pending, skew, made, outcome>>,
           phoneConn' \in {"none", "up", "down"},
           event' \in 0 .. MaxRequests, shown' \in 0 .. MaxRequests,
           approvals \subseteq approvals', approvals' \subseteq Requests,
           state = "yes" => r \in approvals',
           \/ arrived' = arrived
           \/ Arrive(r),
           slot' \in Slot,
           \/ slot' = Free
           \/ slot' = slot /\ (slot # Free => slot.request # r)
           \/ slot'.request = r /\ state = "held"
    PROVE  ExchangeInvariant'
<1>1. /\ stream' \in [Requests -> Stream]
      /\ stream'[r].state = state
      /\ stream'[r].at = IF Waited(r) THEN age[r] ELSE 0
      /\ \A q \in Requests : q # r => stream'[q] = stream[q]
  BY TypeFacts, Numbers DEF ExchangeInvariant, Settle, Stream, State
<1>2. /\ age' \in [Requests -> 0 .. MaxAge]
      /\ age'[r] = IF Waited(r) THEN age[r] ELSE 0
      /\ \A q \in Requests : q # r => age'[q] = age[q]
  BY TypeFacts, Numbers DEF ExchangeInvariant, Settle
<1>3. /\ arrived' \in [Requests -> 0 .. 2] /\ arrived'[r] \in 0 .. 1
      /\ \A q \in Requests : q # r => arrived'[q] = arrived[q]
  <2>1. arrived \in [Requests -> 0 .. 2] /\ arrived[r] \in 0 .. 1
    BY TypeFacts DEF ExchangeInvariant, RetryIsSafe
  <2>2. CASE arrived' = arrived
    BY <2>1, <2>2
  <2>3. CASE Arrive(r)
    <3>1. arrived[r] = 0 /\ arrived' = [arrived EXCEPT ![r] = IF @ < 2 THEN @ + 1 ELSE @]
      BY <2>3 DEF Arrive, ExchangeInvariant, SentHasNotArrived
    <3> QED BY <2>1, <3>1
  <2> QED BY <2>2, <2>3
<1>4. TypeOK'
  BY <1>1, <1>2, <1>3 DEF ExchangeInvariant, TypeOK, Stream, State, Slot
<1>5. NotYetMade'
  <2>1. ~(r > made)
    BY DEF ExchangeInvariant, NotYetMade, Unsent
  <2> QED BY <1>1, <1>2, <2>1 DEF ExchangeInvariant, NotYetMade
<1>6. CommandPlaced'
  BY <1>1 DEF ExchangeInvariant, CommandPlaced
<1>7. SentHasNotArrived' /\ YesIsApproved'
  BY <1>1, <1>3 DEF ExchangeInvariant, SentHasNotArrived, YesIsApproved
<1>8. HeldInSlot'
  BY <1>1, TypeFacts DEF ExchangeInvariant, HeldInSlot
<1>9. InTime'
  <2> SUFFICES ASSUME desk.at # "idle"
               PROVE  stream'[made].at <= age'[made] /\ age'[made] = age[made]
    BY DEF ExchangeInvariant, InTime
  <2>1. made \in Requests
    BY DEF ExchangeInvariant, CommandPlaced
  <2>2. CASE r = made
    <3>1. Waited(r) /\ age[made] \in 0 .. MaxAge
      BY <2>1, <2>2, TypeFacts DEF Waited, ExchangeInvariant
    <3> QED BY <1>1, <1>2, <2>2, <3>1, Numbers
  <2>3. CASE r # made
    BY <1>1, <1>2, <2>1, <2>3 DEF ExchangeInvariant, InTime
  <2> QED BY <2>2, <2>3
<1>10. ApprovedWhatWasShown' /\ TimestampsTolerant'
  BY DEF ExchangeInvariant, ApprovedWhatWasShown, TimestampsTolerant
<1>11. RetryIsSafe'
  BY <1>3, Numbers DEF ExchangeInvariant, RetryIsSafe
<1> QED BY <1>4, <1>5, <1>6, <1>7, <1>8, <1>9, <1>10, <1>11 DEF ExchangeInvariant

-----------------------------------------------------------------------------
\* The desktop's steps.

\* A new command is about a request of which nothing is known.
LEMMA NewCommand ==
    ASSUME ExchangeInvariant, desk.at = "idle", made < MaxRequests, made' = made + 1,
           pending' \in {pending, pending \cup {made + 1}},
           desk' \in {Exchange("open", "cached", Phase, Total),
                      Exchange("dial", "oneshot", Connect, OneShot)},
           UNCHANGED <<phoneConn, stream, age, outcome, skew, arrived, phone>>
    PROVE  ExchangeInvariant'
<1>0. UNCHANGED <<slot, event, shown, approvals>> /\ made \in 0 .. MaxRequests
  BY TypeFacts DEF phone, ExchangeInvariant
<1>1. made' \in Requests /\ made' \in 0 .. MaxRequests /\ made < made'
  BY <1>0, Numbers
<1>2. stream[made'] = Unsent /\ age[made'] = 0
  BY <1>0, <1>1, Numbers DEF ExchangeInvariant, NotYetMade
<1>3. pending = {}
  BY DEF ExchangeInvariant, TypeOK
<1>4. TypeOK'
  <2>1. desk' \in Desk /\ desk'.at # "idle"
    BY FirstExchanges
  <2> QED BY <1>0, <1>1, <1>3, <2>1 DEF ExchangeInvariant, TypeOK, Desk, PhaseLeft, TotalLeft
<1>5. NotYetMade'
  BY <1>0, <1>1, Numbers DEF ExchangeInvariant, NotYetMade
<1>6. CommandPlaced'
  BY <1>1, <1>2 DEF CommandPlaced, Unsent
<1>7. InTime'
  <2>1. stream'[made'].at = 0 /\ age'[made'] = 0
    BY <1>2 DEF Unsent
  <2>2. CASE desk' = Exchange("open", "cached", Phase, Total)
    <3>1. /\ desk'.at = "open" /\ desk'.via = "cached"
          /\ desk'.phase = Phase /\ desk'.total = Total
      BY <2>2, FirstExchanges
    <3> QED BY <2>1, <3>1, Numbers DEF InTime
  <2>3. CASE desk' = Exchange("dial", "oneshot", Connect, OneShot)
    <3>1. /\ desk'.at = "dial" /\ desk'.via = "oneshot"
          /\ desk'.phase = Connect /\ desk'.total = OneShot
      BY <2>3, FirstExchanges
    <3> QED BY <2>1, <3>1, Numbers DEF InTime
  <2> QED BY <2>2, <2>3
<1>8. SentHasNotArrived' /\ HeldInSlot' /\ YesIsApproved'
  BY <1>0 DEF ExchangeInvariant, SentHasNotArrived, HeldInSlot, YesIsApproved
<1>9. ApprovedWhatWasShown' /\ RetryIsSafe' /\ TimestampsTolerant'
  BY <1>0 DEF ExchangeInvariant, ApprovedWhatWasShown, RetryIsSafe, TimestampsTolerant
<1> QED BY <1>4, <1>5, <1>6, <1>7, <1>8, <1>9 DEF ExchangeInvariant

LEMMA AskStep ==
    ASSUME ExchangeInvariant, Ask \/ AskForShare
    PROVE  ExchangeInvariant'
<1>1. /\ desk' \in {Exchange("open", "cached", Phase, Total),
                    Exchange("dial", "oneshot", Connect, OneShot)}
      /\ desk.at = "idle" /\ made < MaxRequests /\ made' = made + 1
      /\ pending' \in {pending, pending \cup {made + 1}}
      /\ UNCHANGED <<phoneConn, stream, age, outcome, skew, arrived, phone>>
  BY DEF Ask, AskForShare
<1> QED BY <1>1, NewCommand

\* What a step of the exchange finds.
LEMMA ExchangeFacts ==
    ASSUME ExchangeInvariant, desk.at # "idle"
    PROVE  /\ made \in Requests /\ age[made] \in Nat
           /\ stream[made] \in Stream /\ desk \in Desk
           /\ desk.phase \in Nat /\ desk.total \in Nat
           /\ approvals \subseteq Requests /\ phoneConn \in {"none", "up", "down"}
           /\ event \in 0 .. MaxRequests /\ shown \in 0 .. MaxRequests
<1>1. TypeOK /\ made \in Requests
  BY DEF ExchangeInvariant, CommandPlaced
<1>2. desk \in Desk /\ desk.phase \in Nat /\ desk.total \in Nat
  BY <1>1, TypeFacts, Durations DEF Desk
<1>3. age[made] \in Nat /\ stream[made] \in Stream
  BY <1>1, TypeFacts, Numbers
<1> QED BY <1>1, <1>2, <1>3 DEF TypeOK

LEMMA OpenFailsStep ==
    ASSUME ExchangeInvariant, OpenFails
    PROVE  ExchangeInvariant'
<1>1. /\ desk.at = "open" /\ UNCHANGED <<skew, made, arrived, phone>>
  BY DEF OpenFails
<1>2. CASE desk.via = "cached"
  <2>1. /\ desk' = Exchange("dial", "new", Phase, Total) /\ phoneConn' = "none"
        /\ UNCHANGED <<pending, outcome, stream, age>>
    BY <1>2 DEF OpenFails
  <2>2. desk' \in Desk /\ desk'.at = "dial" /\ desk'.via = "new" /\ desk'.phase = Phase
    BY <2>1, FirstExchanges
  <2>3. InTime'
    <3>1. age[made] \in Nat /\ desk.phase \in Nat
      BY <1>1, ExchangeFacts
    <3>2. age[made] + desk.phase <= Phase
      BY <1>1, <1>2 DEF ExchangeInvariant, InTime
    <3>3. age[made] + Phase <= 2 * Phase
      BY <3>1, <3>2, Numbers
    <3>4. made' = made /\ age' = age /\ stream' = stream
      BY <1>1, <2>1
    <3> QED BY <1>1, <2>2, <3>3, <3>4 DEF ExchangeInvariant, InTime
  <2>4. stream[made].state = "unsent"
    BY <1>1 DEF ExchangeInvariant, CommandPlaced
  <2> QED BY <1>1, <2>1, <2>2, <2>3, <2>4, ExchangeFacts, StreamsStand DEF phone
<1>3. CASE desk.via # "cached"
  <2>1. FinishWith("error", stream[made].state) /\ phoneConn' = phoneConn
    BY <1>3 DEF OpenFails, Finish
  <2> QED BY <1>1, <2>1, ExchangeFacts, CommandOver DEF Stream
<1> QED BY <1>2, <1>3

LEMMA OpenStep ==
    ASSUME ExchangeInvariant, Open
    PROVE  ExchangeInvariant'
<1>1. /\ desk.at = "open" /\ desk' = [desk EXCEPT !.at = "write", !.phase = Phase]
      /\ UNCHANGED <<pending, phoneConn, outcome, stream, age, skew, made, arrived, phone>>
  BY DEF Open
<1>2. desk' \in Desk /\ desk'.at = "write" /\ desk'.total = desk.total
  BY <1>1, ExchangeFacts, Durations DEF Desk
<1>3. InTime'
  BY <1>1, <1>2 DEF ExchangeInvariant, InTime
<1>4. stream[made].state = "unsent"
  BY <1>1 DEF ExchangeInvariant, CommandPlaced
<1> QED BY <1>1, <1>2, <1>3, <1>4, ExchangeFacts, StreamsStand DEF phone

LEMMA DialStep ==
    ASSUME ExchangeInvariant, Dial
    PROVE  ExchangeInvariant'
<1>1. desk.at = "dial" /\ UNCHANGED <<phoneConn, skew, made, arrived, phone>>
  BY DEF Dial
<1>2. CASE /\ desk' = [desk EXCEPT !.at = "open", !.phase = Phase,
                                 !.total = IF desk.via = "oneshot" THEN @ ELSE Total]
           /\ UNCHANGED <<pending, outcome, stream, age>>
  <2>1. /\ desk' \in Desk /\ desk'.at = "open" /\ desk'.via = desk.via
        /\ desk'.phase = Phase
        /\ desk'.total = IF desk.via = "oneshot" THEN desk.total ELSE Total
    BY <1>1, <1>2, ExchangeFacts, Durations DEF Desk
  <2>2. InTime'
    <3>0. age[made] \in Nat /\ desk.phase \in Nat /\ desk.total \in Nat
      BY <1>1, ExchangeFacts
    <3>1. CASE desk.via = "oneshot"
      <4>1. desk.phase + Phase <= desk.total /\ age[made] + desk.total <= ClockSlack
        BY <1>1, <3>1 DEF ExchangeInvariant, InTime
      <4>2. Phase <= desk.total
        BY <3>0, <4>1, Numbers
      <4>3. made' = made /\ age' = age /\ stream' = stream
        BY <1>1, <1>2
      <4> QED BY <1>1, <2>1, <3>1, <4>1, <4>2, <4>3 DEF ExchangeInvariant, InTime
    <3>2. CASE desk.via = "new"
      <4>1. age[made] + desk.phase <= 2 * Phase
        BY <1>1, <3>2 DEF ExchangeInvariant, InTime
      <4>2. age[made] + Total <= ClockSlack
        BY <3>0, <4>1, Numbers
      <4> QED BY <1>1, <1>2, <2>1, <3>2, <4>2, Numbers DEF ExchangeInvariant, InTime
    <3> QED BY <1>1, <3>1, <3>2 DEF ExchangeInvariant, InTime
  <2>3. stream[made].state = "unsent"
    BY <1>1 DEF ExchangeInvariant, CommandPlaced
  <2> QED BY <1>1, <1>2, <2>1, <2>2, <2>3, ExchangeFacts, StreamsStand DEF phone
<1>3. CASE Finish("error")
  BY <1>1, <1>3, ExchangeFacts, CommandOver DEF Stream, Finish
<1> QED BY <1>2, <1>3 DEF Dial

\* The request is on its stream.
LEMMA WriteStep ==
    ASSUME ExchangeInvariant, Write
    PROVE  ExchangeInvariant'
<1>1. /\ desk.at = "write" /\ UNCHANGED <<phoneConn, skew, made, arrived, phone>>
      /\ stream[made].state = "unsent"
  BY DEF Write, ExchangeInvariant, CommandPlaced
<1>2. CASE /\ desk' = [desk EXCEPT !.at = "wait", !.phase = Response]
           /\ stream' = [stream EXCEPT ![made].state = "sent"]
           /\ UNCHANGED <<pending, outcome, age>>
  <2>0. UNCHANGED <<slot, event, shown, approvals>>
    BY <1>1 DEF phone
  <2>1. desk' \in Desk /\ desk'.at = "wait" /\ desk'.total = desk.total
    BY <1>1, <1>2, ExchangeFacts, Durations DEF Desk
  <2>2. /\ stream' \in [Requests -> Stream]
        /\ stream'[made].state = "sent" /\ stream'[made].at = stream[made].at
        /\ \A r \in Requests : r # made => stream'[r] = stream[r]
    BY <1>1, <1>2, ExchangeFacts, TypeFacts DEF ExchangeInvariant, Stream, State
  <2>3. TypeOK'
    BY <1>1, <1>2, <2>0, <2>1, <2>2 DEF ExchangeInvariant, TypeOK, Desk, PhaseLeft, TotalLeft,
     Stream, State
  <2>4. NotYetMade'
    BY <1>1, <1>2, <2>2, ExchangeFacts, Numbers DEF ExchangeInvariant, NotYetMade
  <2>5. CommandPlaced' /\ InTime'
    BY <1>1, <1>2, <2>1, <2>2 DEF ExchangeInvariant, CommandPlaced, InTime
  <2>6. SentHasNotArrived' /\ YesIsApproved'
    BY <1>1, <2>0, <2>2 DEF ExchangeInvariant, SentHasNotArrived, YesIsApproved
  <2>7. HeldInSlot'
    BY <1>1, <2>0, <2>2, TypeFacts DEF ExchangeInvariant, HeldInSlot
  <2>8. ApprovedWhatWasShown' /\ RetryIsSafe' /\ TimestampsTolerant'
    BY <1>1, <1>2, <2>0 DEF ExchangeInvariant, ApprovedWhatWasShown, RetryIsSafe, TimestampsTolerant
  <2> QED BY <2>3, <2>4, <2>5, <2>6, <2>7, <2>8 DEF ExchangeInvariant
<1>3. CASE \E state \in {"unsent", "sent"} : FinishWith("error", state)
  BY <1>1, <1>3, ExchangeFacts, CommandOver DEF State
<1> QED BY <1>1, <1>2, <1>3 DEF Write

\* An answer is late, or early, by more than five minutes only between clocks that
\* differ by nearly as much: the age of the request is bounded, and the answer's
\* own stamp lies between the request's and the present.
LEMMA LateMeansFarApart ==
    ASSUME ExchangeInvariant, desk.at = "wait", ~TimesMatch(made)
    PROVE  FarApart
<1> DEFINE a == age[made]
           s == stream[made].at + skew
<1>1. a \in Nat /\ stream[made].at \in Nat /\ skew \in Int /\ desk.total \in Nat
  BY ExchangeFacts, TypeFacts, Numbers DEF ExchangeInvariant, Stream
<1>2. stream[made].at <= a /\ a + desk.total <= ClockSlack
  BY DEF ExchangeInvariant, InTime
<1>3. a <= ClockSlack /\ ClockSlack \in Nat
  BY <1>1, <1>2, Numbers
<1>4. CASE ~Fresh(0, a)
  <2>1. a > MaxSkew
    BY <1>1, <1>4, Numbers DEF Fresh, Minus
  <2> QED BY <1>1, <1>3, <2>1, Numbers DEF FarApart
<1>5. CASE ~Fresh(s, a)
  <2>1. a - s > MaxSkew \/ s - a > MaxSkew
    BY <1>1, <1>5, Numbers DEF Fresh, Minus
  <2> QED BY <1>1, <1>2, <1>3, <2>1, Numbers DEF FarApart
<1> QED BY <1>4, <1>5 DEF TimesMatch

LEMMA ReceiveStep ==
    ASSUME ExchangeInvariant, Receive
    PROVE  ExchangeInvariant'
<1>1. /\ desk.at = "wait" /\ UNCHANGED <<skew, made, arrived, phone>>
      /\ phoneConn' \in {"up", phoneConn}
  BY DEF Receive
<1>2. PICK result \in {"approved", "denied", "skew"} :
          /\ FinishWith(result, stream[made].state)
          /\ result = "skew" => ~TimesMatch(made)
          /\ result = "approved" => stream[made].state = "yes"
  BY DEF Receive, Finish
<1>3. result = "skew" => FarApart
  BY <1>1, <1>2, LateMeansFarApart
<1>4. result = "approved" => made \in approvals
  BY <1>1, <1>2, ExchangeFacts DEF ExchangeInvariant, YesIsApproved
<1>5. stream[made].state \in State
  BY <1>1, ExchangeFacts DEF Stream
<1> QED BY <1>1, <1>2, <1>3, <1>4, <1>5, ExchangeFacts, CommandOver

LEMMA FailStep ==
    ASSUME ExchangeInvariant, ReceiveFails \/ Timeout
    PROVE  ExchangeInvariant'
<1>1. /\ desk.at # "idle" /\ FinishWith("error", stream[made].state)
      /\ UNCHANGED <<phoneConn, skew, made, arrived, phone>>
  BY DEF ReceiveFails, Timeout, TimedOut, Finish
<1> QED BY <1>1, ExchangeFacts, CommandOver DEF Stream

LEMMA DeskSteps ==
    ASSUME ExchangeInvariant, DeskStep
    PROVE  ExchangeInvariant'
<1>1. CASE Reconnect
  <2>1. /\ desk.at = "idle" /\ phoneConn' \in {"none", "up"}
        /\ UNCHANGED <<desk, pending, stream, age, skew, made, outcome, arrived, phone>>
    BY <1>1 DEF Reconnect
  <2>2. desk \in Desk /\ InTime' /\ event \in 0 .. MaxRequests /\ shown \in 0 .. MaxRequests
        /\ approvals \subseteq Requests
    BY <2>1, TypeFacts DEF InTime, ExchangeInvariant, TypeOK
  <2> QED BY <2>1, <2>2, StreamsStand DEF phone
<1> QED BY <1>1, AskStep, OpenFailsStep, OpenStep, DialStep, WriteStep, ReceiveStep, FailStep
        DEF DeskStep

-----------------------------------------------------------------------------
\* The phone's steps, the network's, and time.

LEMMA PhoneFacts ==
    ASSUME ExchangeInvariant
    PROVE  /\ slot \in Slot /\ Free \in Slot /\ phoneConn \in {"none", "up", "down"}
           /\ event \in 0 .. MaxRequests /\ shown \in 0 .. MaxRequests
           /\ approvals \subseteq Requests /\ Requests \subseteq 0 .. MaxRequests
           /\ \A r \in Requests : r # 0
           /\ slot.request # 0 => slot # Free
           /\ slot # Free => slot.request \in Requests /\ stream[slot.request].state = "held"
<1>1. /\ TypeOK /\ (slot # Free => stream[slot.request].state = "held")
  BY DEF ExchangeInvariant, HeldInSlot
<1>2. slot \in Slot /\ (slot # Free => slot.request \in Requests)
  BY <1>1, TypeFacts
<1>3. Free \in Slot /\ Free.request = 0
  BY DEF Slot, Free
<1>4. Requests \subseteq 0 .. MaxRequests /\ \A r \in Requests : r # 0
  BY Numbers
<1> QED BY <1>1, <1>2, <1>3, <1>4 DEF TypeOK

LEMMA ArrivalStep ==
    ASSUME ExchangeInvariant, NEW r \in Requests, Refuse(r) \/ Admit(r) \/ Busy(r)
    PROVE  ExchangeInvariant'
<1>1. stream[r].state = "sent" /\ Arrive(r)
  BY DEF Refuse, Admit, Busy, Arrive
<1>2. slot # Free => slot.request # r
  BY <1>1, PhoneFacts
<1>3. CASE Refuse(r)
  <2>1. /\ Settle(r, "reset") /\ phoneConn' \in {"down", phoneConn}
        /\ UNCHANGED <<desk, pending, skew, made, outcome>>
        /\ UNCHANGED <<slot, event, shown, approvals>>
    BY <1>3 DEF Refuse, phone
  <2> QED BY <1>1, <1>2, <2>1, PhoneFacts, RequestSettled
<1>4. CASE Admit(r)
  <2>1. /\ Settle(r, "held") /\ event' = r /\ slot' = [request |-> r, left |-> PendingTTL]
        /\ UNCHANGED <<desk, pending, skew, made, outcome>>
        /\ UNCHANGED <<phoneConn, shown, approvals>>
    BY <1>4 DEF Admit, desktop
  <2>2. slot' \in Slot /\ slot'.request = r
    BY <2>1, Numbers DEF Slot
  <2> QED BY <1>1, <2>1, <2>2, PhoneFacts, RequestSettled
<1>5. CASE Busy(r)
  <2>1. PICK answer \in {"no", "reset"} : Settle(r, answer)
    BY <1>5 DEF Busy
  <2>2. /\ UNCHANGED <<desk, pending, skew, made, outcome, phoneConn>>
        /\ UNCHANGED <<slot, event, shown, approvals>>
    BY <1>5 DEF Busy, desktop, phone
  <2> QED BY <1>1, <1>2, <2>1, <2>2, PhoneFacts, RequestSettled
<1> QED BY <1>3, <1>4, <1>5

\* The slot's request is answered, and the slot free again.
LEMMA SlotEmptied ==
    ASSUME ExchangeInvariant, slot # Free, slot' = Free,
           NEW state \in {"yes", "no", "reset"}, Settle(slot.request, state),
           approvals' \subseteq Requests, approvals \subseteq approvals',
           state = "yes" => slot.request \in approvals',
           UNCHANGED <<desktop, skew, arrived, event, shown>>
    PROVE  ExchangeInvariant'
<1>1. slot.request \in Requests /\ stream[slot.request].state # "unsent" /\ slot' \in Slot
  BY PhoneFacts
<1>2. UNCHANGED <<desk, pending, skew, made, outcome, phoneConn, arrived, event, shown>>
  BY DEF desktop
<1> QED BY <1>1, <1>2, PhoneFacts, RequestSettled

\* Only what the prompt shows changes, and what the user has approved in it.
LEMMA PromptOnly ==
    ASSUME ExchangeInvariant, UNCHANGED <<desktop, stream, age, skew, arrived, slot>>,
           event' \in 0 .. MaxRequests, shown' \in 0 .. MaxRequests,
           approvals \subseteq approvals', approvals' \subseteq Requests
    PROVE  ExchangeInvariant'
<1>1. /\ UNCHANGED <<desk, pending, phoneConn, made, outcome>>
      /\ desk \in Desk /\ InTime' /\ phoneConn \in {"none", "up", "down"}
      /\ desk.at \in {"open", "dial", "write"} => stream[made].state = "unsent"
  BY TypeFacts DEF desktop, ExchangeInvariant, InTime, CommandPlaced, TypeOK
<1> QED BY <1>1, StreamsStand

\* The PIN approves the request that the slot holds only when that is the one shown.
LEMMA UserApprovesStep ==
    ASSUME ExchangeInvariant, UserApproves
    PROVE  ExchangeInvariant'
<1>1. /\ shown # 0 /\ approvals' = approvals \cup {shown}
      /\ UNCHANGED <<desktop, skew, arrived, event, shown>>
  BY DEF UserApproves
<1>2. shown \in Requests
  BY <1>1, PhoneFacts, Numbers
<1>3. approvals \subseteq approvals' /\ approvals' \subseteq Requests /\ shown \in approvals'
  BY <1>1, <1>2, PhoneFacts
<1>4. CASE Matches /\ slot' = Free /\ \E answer \in {"yes", "reset"} : Settle(slot.request, answer)
  <2>1. slot.request = shown /\ slot # Free
    BY <1>1, <1>4, PhoneFacts DEF Matches
  <2>2. PICK answer \in {"yes", "reset"} : Settle(slot.request, answer)
    BY <1>4
  <2> QED BY <1>1, <1>3, <1>4, <2>1, <2>2, SlotEmptied
<1>5. CASE UNCHANGED <<slot, stream, age>>
  BY <1>1, <1>3, <1>5, PhoneFacts, PromptOnly
<1> QED BY <1>4, <1>5 DEF UserApproves

LEMMA PhoneSteps ==
    ASSUME ExchangeInvariant, PhoneStep
    PROVE  ExchangeInvariant'
<1>1. CASE Drop
  <2>1. /\ slot # Free /\ slot' = Free
        /\ UNCHANGED <<desktop, skew, arrived, event, shown, approvals>>
    BY <1>1 DEF Drop
  <2>2. PICK answer \in {"no", "reset"} : Settle(slot.request, answer)
    BY <1>1 DEF Drop
  <2> QED BY <2>1, <2>2, PhoneFacts, SlotEmptied
<1>2. CASE UserDenies
  <2>1. /\ slot # Free /\ slot' = Free
        /\ UNCHANGED <<desktop, skew, arrived, event, shown, approvals>>
    BY <1>2, PhoneFacts DEF UserDenies
  <2>2. PICK answer \in {"no", "reset"} : Settle(slot.request, answer)
    BY <1>2 DEF UserDenies
  <2> QED BY <2>1, <2>2, PhoneFacts, SlotEmptied
<1>3. CASE ShowEvent
  <2>1. /\ shown' = event /\ event' = 0 /\ 0 \in 0 .. MaxRequests
        /\ UNCHANGED <<desktop, stream, age, skew, arrived, slot, approvals>>
    BY <1>3, Numbers DEF ShowEvent
  <2> QED BY <2>1, PhoneFacts, PromptOnly
<1>4. CASE Poll
  <2>1. /\ shown' = slot.request
        /\ UNCHANGED <<desktop, stream, age, skew, arrived, slot, event, approvals>>
    BY <1>4 DEF Poll
  <2>2. slot.request \in 0 .. MaxRequests
    BY PhoneFacts, Numbers DEF Slot, Free
  <2> QED BY <2>1, <2>2, PhoneFacts, PromptOnly
<1> QED BY <1>1, <1>2, <1>3, <1>4, ArrivalStep, UserApprovesStep DEF PhoneStep

LEMMA NetworkSteps ==
    ASSUME ExchangeInvariant, Network
    PROVE  ExchangeInvariant'
<1>1. /\ desk' \in {desk, [desk EXCEPT !.up = FALSE]} /\ phoneConn' \in {"down", phoneConn}
      /\ UNCHANGED <<pending, stream, age, skew, made, outcome, arrived, phone>>
  BY DEF Network, CachedDies, OtherDies
<1>2. desk \in Desk /\ UNCHANGED <<slot, event, shown, approvals>>
  BY <1>1, TypeFacts DEF ExchangeInvariant, phone
<1>3. /\ desk' \in Desk /\ desk'.at = desk.at /\ desk'.via = desk.via
      /\ desk'.phase = desk.phase /\ desk'.total = desk.total
  BY <1>1, <1>2 DEF Desk
<1>4. InTime'
  BY <1>1, <1>3 DEF ExchangeInvariant, InTime
<1>5. desk'.at \in {"open", "dial", "write"} => stream[made].state = "unsent"
  BY <1>3 DEF ExchangeInvariant, CommandPlaced
<1> QED BY <1>1, <1>2, <1>3, <1>4, <1>5, PhoneFacts, StreamsStand

\* No timer is passed over, so each tick takes from it what it adds to the age.
LEMMA TickStep ==
    ASSUME ExchangeInvariant, Tick
    PROVE  ExchangeInvariant'
<1>1. /\ desk' = [desk EXCEPT !.phase = Down(@), !.total = Down(@)]
      /\ slot' = [slot EXCEPT !.left = Down(@)]
      /\ age' = [r \in Requests |->
                    IF (Waited(r) \/ stream[r].state = "sent") /\ age[r] < MaxAge
                    THEN age[r] + 1 ELSE age[r]]
      /\ UNCHANGED <<pending, phoneConn, stream, event, shown, skew, made, outcome, arrived,
                     approvals>>
  BY DEF Tick
<1>2. desk \in Desk /\ slot \in Slot /\ age \in [Requests -> 0 .. MaxAge]
  BY TypeFacts DEF ExchangeInvariant
<1>3. /\ \A n \in PhaseLeft : Down(n) \in PhaseLeft
      /\ \A n \in TotalLeft : Down(n) \in TotalLeft
      /\ \A n \in 0 .. PendingTTL : Down(n) \in 0 .. PendingTTL
      /\ \A n \in Nat : n # 0 => Down(n) = n - 1
  BY Numbers DEF PhaseLeft, TotalLeft, Down
<1>4. /\ desk' \in Desk /\ desk'.at = desk.at /\ desk'.via = desk.via
      /\ desk'.phase = Down(desk.phase) /\ desk'.total = Down(desk.total)
  BY <1>1, <1>2, <1>3 DEF Desk
<1>5. slot' \in Slot /\ slot'.request = slot.request /\ (slot = Free => slot' = Free)
  <2>1. CASE slot = Free
    BY <1>1, <2>1 DEF Free, Down, Slot
  <2>2. CASE slot \in [request : Requests, left : 0 .. PendingTTL]
    <3>1. slot.request \in Requests /\ Down(slot.left) \in 0 .. PendingTTL
      BY <1>3, <2>2
    <3>2. slot' = [request |-> slot.request, left |-> Down(slot.left)]
      BY <1>1, <2>2
    <3>3. slot' \in Slot
      BY <3>1, <3>2 DEF Slot
    <3>4. slot # Free
      BY <3>1, Numbers DEF Free
    <3> QED BY <3>2, <3>3, <3>4
  <2> QED BY <1>2, <2>1, <2>2 DEF Slot
<1>6. age' \in [Requests -> 0 .. MaxAge]
  BY <1>1, <1>2, Numbers
<1>7. TypeOK'
  BY <1>1, <1>4, <1>5, <1>6
     DEF ExchangeInvariant, TypeOK, Desk, PhaseLeft, TotalLeft, Slot
<1>8. NotYetMade'
  <2> SUFFICES ASSUME NEW r \in Requests, r > made
               PROVE  age'[r] = 0
    BY <1>1 DEF ExchangeInvariant, NotYetMade
  <2>1. stream[r].state # "sent" /\ age[r] = 0
    BY DEF ExchangeInvariant, NotYetMade, Unsent
  <2>2. r # made
    BY Numbers, TypeFacts DEF ExchangeInvariant
  <2> QED BY <1>1, <2>1, <2>2 DEF Waited
<1>9. CommandPlaced'
  BY <1>1, <1>4 DEF ExchangeInvariant, CommandPlaced
<1>10. SentHasNotArrived' /\ HeldInSlot' /\ YesIsApproved'
  BY <1>1, <1>5 DEF ExchangeInvariant, SentHasNotArrived, HeldInSlot, YesIsApproved
<1>11. InTime'
  <2> SUFFICES ASSUME desk.at # "idle"
               PROVE  /\ stream[made].at <= age'[made]
                      /\ desk.at = "open" => desk'.phase <= desk'.total
                      /\ desk.at = "open" /\ desk.via = "cached" => age'[made] + desk'.phase <= Phase
                      /\ desk.at = "dial" => desk.via \in {"new", "oneshot"}
                      /\ desk.at = "dial" /\ desk.via = "new" => age'[made] + desk'.phase <= 2 * Phase
                      /\ desk.at = "dial" /\ desk.via = "oneshot" => desk'.phase + Phase <= desk'.total
                      /\ ~(desk.at = "dial" /\ desk.via = "new")
                            => age'[made] + desk'.total <= ClockSlack
    BY <1>1, <1>4 DEF InTime
  <2>1. /\ made \in Requests /\ age[made] \in Nat /\ desk.phase \in Nat /\ desk.total \in Nat
        /\ stream[made].at \in Nat
    BY ExchangeFacts, Numbers DEF Stream
  <2>2. age'[made] \in {age[made], age[made] + 1}
    BY <1>1, <2>1
  <2>3. /\ stream[made].at <= age[made]
        /\ desk.at = "open" => desk.phase <= desk.total
        /\ desk.at = "open" /\ desk.via = "cached" => age[made] + desk.phase <= Phase
        /\ desk.at = "dial" => desk.via \in {"new", "oneshot"}
        /\ desk.at = "dial" /\ desk.via = "new" => age[made] + desk.phase <= 2 * Phase
        /\ desk.at = "dial" /\ desk.via = "oneshot" => desk.phase + Phase <= desk.total
        /\ ~(desk.at = "dial" /\ desk.via = "new") => age[made] + desk.total <= ClockSlack
    BY DEF ExchangeInvariant, InTime
  <2>4. desk.phase # 0 /\ desk.total # 0
    <3>1. CASE desk.at = "open"
      BY <2>1, <2>3, <3>1 DEF Tick
    <3>2. CASE desk.at \in {"dial", "write", "wait"}
      BY <3>2 DEF Tick, TimedOut
    <3> QED BY <1>2, <3>1, <3>2 DEF Desk
  <2>5. desk'.phase = desk.phase - 1 /\ desk'.total = desk.total - 1
    BY <1>3, <1>4, <2>1, <2>4
  <2>6. ASSUME NEW n \in Nat
        PROVE  /\ age[made] + desk.phase <= n => age'[made] + desk'.phase <= n
               /\ age[made] + desk.total <= n => age'[made] + desk'.total <= n
    BY <2>1, <2>2, <2>5
  <2>7. Phase \in Nat /\ 2 * Phase \in Nat /\ ClockSlack \in Nat
    BY Numbers
  <2>8. stream[made].at <= age'[made]
    BY <2>1, <2>2, <2>3
  <2>9. desk.at = "open" => desk'.phase <= desk'.total
    BY <2>1, <2>3, <2>5
  <2>10. desk.at = "open" /\ desk.via = "cached" => age'[made] + desk'.phase <= Phase
    BY <2>3, <2>6, <2>7
  <2>11. desk.at = "dial" /\ desk.via = "new" => age'[made] + desk'.phase <= 2 * Phase
    BY <2>3, <2>6, <2>7
  <2>12. desk.at = "dial" /\ desk.via = "oneshot" => desk'.phase + Phase <= desk'.total
    BY <2>1, <2>3, <2>5, <2>7
  <2>13. ~(desk.at = "dial" /\ desk.via = "new") => age'[made] + desk'.total <= ClockSlack
    BY <2>3, <2>6, <2>7
  <2> QED BY <2>3, <2>8, <2>9, <2>10, <2>11, <2>12, <2>13
<1>12. ApprovedWhatWasShown' /\ RetryIsSafe' /\ TimestampsTolerant'
  BY <1>1 DEF ExchangeInvariant, ApprovedWhatWasShown, RetryIsSafe, TimestampsTolerant
<1> QED BY <1>7, <1>8, <1>9, <1>10, <1>11, <1>12 DEF ExchangeInvariant

-----------------------------------------------------------------------------
\* The theorems.

LEMMA ExchangeInit == Init => ExchangeInvariant
<1> SUFFICES ASSUME Init PROVE ExchangeInvariant
  OBVIOUS
<1>1. /\ desk = Idle /\ Idle \in Desk /\ Idle.at = "idle" /\ pending = {} /\ slot = Free
      /\ stream = [r \in Requests |-> Unsent] /\ age = [r \in Requests |-> 0] /\ made = 0
      /\ outcome = [r \in Requests |-> "none"] /\ arrived = [r \in Requests |-> 0]
      /\ approvals = {} /\ event = 0 /\ shown = 0 /\ skew \in Skews
      /\ phoneConn \in {"none", "up"}
  BY IdleIsDesk DEF Init
<1>2. TypeOK
  BY <1>1, Numbers DEF TypeOK, Desk, PhaseLeft, TotalLeft, Unsent, Slot
<1>3. NotYetMade /\ CommandPlaced /\ SentHasNotArrived /\ HeldInSlot /\ YesIsApproved /\ InTime
  BY <1>1
     DEF NotYetMade, CommandPlaced, SentHasNotArrived, HeldInSlot, YesIsApproved, InTime, Unsent
<1>4. ApprovedWhatWasShown /\ RetryIsSafe /\ TimestampsTolerant
  BY <1>1 DEF ApprovedWhatWasShown, RetryIsSafe, TimestampsTolerant
<1> QED BY <1>2, <1>3, <1>4 DEF ExchangeInvariant

LEMMA ExchangeNext ==
    ASSUME ExchangeInvariant, [Next]_vars
    PROVE  ExchangeInvariant'
<1>1. CASE UNCHANGED vars
  <2>1. UNCHANGED <<desktop, stream, age, skew, arrived, slot, event, shown, approvals>>
    BY <1>1 DEF vars, desktop
  <2> QED BY <2>1, PhoneFacts, PromptOnly
<1> QED BY <1>1, DeskSteps, PhoneSteps, NetworkSteps, TickStep DEF Next

\* Timers, streams, slot and prompt fit together as ExchangeInvariant says.
THEOREM ExchangeInvariantHolds == Spec => []ExchangeInvariant
BY ExchangeInit, ExchangeNext, PTL DEF Spec

\* Every variable keeps its type.
THEOREM TypeCorrect == Spec => []TypeOK
<1>1. ExchangeInvariant => TypeOK
  BY DEF ExchangeInvariant
<1> QED BY <1>1, ExchangeInvariantHolds, PTL

\* What the desktop takes for approved, its user has approved while the prompt
\* showed that very request.
THEOREM ApprovedIsWhatWasShown == Spec => []ApprovedWhatWasShown
<1>1. ExchangeInvariant => ApprovedWhatWasShown
  BY DEF ExchangeInvariant
<1> QED BY <1>1, ExchangeInvariantHolds, PTL

\* A redial after a failure never brings a request to the phone twice: what may have
\* been written is not written again.
THEOREM RetryNeverRepeats == Spec => []RetryIsSafe
<1>1. ExchangeInvariant => RetryIsSafe
  BY DEF ExchangeInvariant
<1> QED BY <1>1, ExchangeInvariantHolds, PTL

\* However long an exchange takes, and if it is dialled twice, its answer is thrown
\* away for its timestamp only between clocks that are almost five minutes apart.
THEOREM ClocksAreTolerated == Spec => []TimestampsTolerant
<1>1. ExchangeInvariant => TimestampsTolerant
  BY DEF ExchangeInvariant
<1> QED BY <1>1, ExchangeInvariantHolds, PTL

-----------------------------------------------------------------------------
\* The exchange implements Authorization.

\* No verdict before its time, and nothing on the screen that has not come in.
NoVerdictYet == \A r \in Requests :
    r > made \/ (r = made /\ desk.at # "idle") => outcome[r] = "none"
ShownHasCome ==
    /\ \A r \in Requests : stream[r].state \notin {"unsent", "sent"} => arrived[r] = 1
    /\ event # 0 => arrived[event] = 1
    /\ shown # 0 => arrived[shown] = 1

\* What a step has to do for the refinement.
Follows ==
    /\ NoVerdictYet' /\ ShownHasCome'
    /\ Asking!Next \/ UNCHANGED <<made, desk.at # "idle", arrived, approvals, outcome>>

LEMMA Followed ==
    ASSUME ExchangeInvariant, NoVerdictYet, ShownHasCome
    PROVE  /\ made \in 0 .. MaxRequests /\ MaxRequests \in Nat /\ Asking!Question = Requests
           /\ Requests = 1 .. MaxRequests
           /\ event \in 0 .. MaxRequests /\ shown \in 0 .. MaxRequests
           /\ desk.at # "idle" => made \in Requests /\ outcome[made] = "none"
           /\ arrived \in [Requests -> 0 .. 2]
           /\ outcome \in [Requests -> {"none", "approved", "denied", "skew", "error"}]
           /\ stream \in [Requests -> Stream] /\ age \in [Requests -> 0 .. MaxAge]
           /\ \A r \in Requests : stream[r].state = "sent" => arrived[r] = 0 /\ r <= made
<1>1. TypeOK /\ NotYetMade /\ CommandPlaced /\ SentHasNotArrived
  BY DEF ExchangeInvariant
<1>2. made \in 0 .. MaxRequests /\ MaxRequests \in Nat /\ Requests = 1 .. MaxRequests
  BY <1>1, Numbers DEF TypeOK
<1>3. desk.at # "idle" => made \in Requests /\ outcome[made] = "none"
  BY <1>1 DEF CommandPlaced, NoVerdictYet
<1>4. \A r \in Requests : stream[r].state = "sent" => arrived[r] = 0 /\ r <= made
  BY <1>1, <1>2 DEF NotYetMade, SentHasNotArrived, Unsent
<1> QED BY <1>1, <1>2, <1>3, <1>4, TypeFacts DEF TypeOK, Asking!Question, Requests

\* A connection, a timer or the prompt changes.
LEMMA QuietFollows ==
    ASSUME ExchangeInvariant, NoVerdictYet, ShownHasCome,
           UNCHANGED <<made, outcome, arrived, approvals>>,
           desk'.at = "idle" <=> desk.at = "idle",
           \A r \in Requests : stream'[r].state \in {stream[r].state, "unsent", "sent"},
           event' \in {0, event}, shown' \in {0, shown, event, slot.request}
    PROVE  Follows
<1>1. NoVerdictYet'
  BY DEF NoVerdictYet
<1>2. slot.request # 0 => arrived[slot.request] = 1
  BY PhoneFacts DEF ShownHasCome
<1>3. ShownHasCome'
  BY <1>2 DEF ShownHasCome
<1>4. (desk'.at # "idle") = (desk.at # "idle")
  OBVIOUS
<1> QED BY <1>1, <1>3, <1>4 DEF Follows

\* The command is over: its verdict.
LEMMA OverFollows ==
    ASSUME ExchangeInvariant, NoVerdictYet, ShownHasCome, desk.at # "idle",
           NEW result \in {"approved", "denied", "skew", "error"},
           NEW state \in State, FinishWith(result, state),
           \/ state = stream[made].state
           \/ stream[made].state = "unsent" /\ state \in {"unsent", "sent"},
           UNCHANGED <<made, arrived, phone>>,
           result = "approved" => made \in approvals
    PROVE  Follows
<1>1. /\ made \in Requests /\ outcome[made] = "none" /\ desk'.at = "idle"
      /\ outcome' = [outcome EXCEPT ![made] = result]
      /\ stream' = [stream EXCEPT ![made] = [state |-> state, at |-> 0]]
      /\ UNCHANGED <<event, shown, approvals>>
  BY Followed, IdleIsDesk DEF FinishWith, phone
<1>2. NoVerdictYet'
  BY <1>1, Followed DEF NoVerdictYet
<1>3. \A r \in Requests : \/ stream'[r].state = stream[r].state
                          \/ stream'[r].state \in {"unsent", "sent"}
  BY <1>1, Followed
<1>4. ShownHasCome'
  BY <1>1, <1>3 DEF ShownHasCome
<1>5. Asking!Conclude(result)
  <2>1. desk.at # "idle" /\ ~(desk'.at # "idle") /\ outcome[made] = "none"
    BY <1>1
  <2>2. (desk'.at # "idle") = FALSE
    BY <2>1
  <2> QED BY <1>1, <2>1, <2>2 DEF Asking!Conclude
<1>6. Asking!Next
  BY <1>5 DEF Asking!Next
<1> QED BY <1>2, <1>4, <1>6 DEF Follows

\* A new command: the next question.
LEMMA AskFollows ==
    ASSUME ExchangeInvariant, NoVerdictYet, ShownHasCome, desk.at = "idle", made < MaxRequests,
           made' = made + 1, desk'.at # "idle", UNCHANGED <<stream, outcome, arrived, phone>>
    PROVE  Follows
<1>1. UNCHANGED <<event, shown, approvals>>
  BY DEF phone
<1>2. NoVerdictYet'
  BY Followed DEF NoVerdictYet
<1>3. ShownHasCome'
  BY <1>1 DEF ShownHasCome
<1>4. (desk'.at # "idle") = TRUE
  OBVIOUS
<1>5. Asking!Ask
  BY <1>1, <1>4 DEF Asking!Ask
<1>6. Asking!Next
  BY <1>5 DEF Asking!Next
<1> QED BY <1>2, <1>3, <1>6 DEF Follows

\* A request comes in: its question has reached the phone.
LEMMA ArrivalFollows ==
    ASSUME ExchangeInvariant, NoVerdictYet, ShownHasCome, NEW r \in Requests,
           Refuse(r) \/ Admit(r) \/ Busy(r)
    PROVE  Follows
<1>1. /\ Arrive(r) /\ UNCHANGED <<desk, made, outcome, approvals, shown>> /\ event' \in {r, event}
      /\ \E state \in State : Settle(r, state)
  BY DEF Refuse, Admit, Busy, phone, desktop, State
<1>2. /\ arrived[r] = 0 /\ r <= made /\ arrived' = [arrived EXCEPT ![r] = 1]
      /\ \A q \in Requests : arrived'[q] = IF q = r THEN 1 ELSE arrived[q]
  <2>1. arrived[r] = 0 /\ r <= made /\ arrived \in [Requests -> 0 .. 2]
    BY <1>1, Followed DEF Arrive
  <2>2. arrived' = [arrived EXCEPT ![r] = IF arrived[r] < 2 THEN arrived[r] + 1 ELSE arrived[r]]
    BY <1>1 DEF Arrive
  <2>3. arrived' = [arrived EXCEPT ![r] = 1]
    BY <2>1, <2>2
  <2> QED BY <2>1, <2>3
<1>3. \A q \in Requests : q # r => stream'[q] = stream[q]
  BY <1>1, Followed DEF Settle
<1>4. NoVerdictYet'
  BY <1>1 DEF NoVerdictYet
<1>5. ShownHasCome'
  <2>1. \A q \in Requests : stream'[q].state \notin {"unsent", "sent"} => arrived'[q] = 1
    BY <1>2, <1>3 DEF ShownHasCome
  <2>2. event' # 0 => arrived'[event'] = 1
    BY <1>1, <1>2, Followed DEF ShownHasCome
  <2>3. shown' # 0 => arrived'[shown'] = 1
    BY <1>1, <1>2, Followed DEF ShownHasCome
  <2> QED BY <2>1, <2>2, <2>3 DEF ShownHasCome
<1>6. (desk'.at # "idle") = (desk.at # "idle")
  BY <1>1
<1>7. Asking!Reach(r)
  BY <1>1, <1>2, <1>6 DEF Asking!Reach
<1>8. Asking!Next
  BY <1>7, Followed DEF Asking!Next
<1> QED BY <1>4, <1>5, <1>8 DEF Follows

\* The slot's request is answered, by the user or for want of one.
LEMMA SlotFollows ==
    ASSUME ExchangeInvariant, NoVerdictYet, ShownHasCome,
           Drop \/ UserDenies \/ UserApproves
    PROVE  Follows
<1>1. /\ UNCHANGED <<desk, made, outcome, arrived, event, shown>>
      /\ approvals' = approvals \/ (shown # 0 /\ approvals' = approvals \cup {shown})
      /\ stream' = stream \/ \E state \in State : Settle(slot.request, state)
  BY DEF Drop, UserDenies, UserApproves, desktop, State
<1>2. ASSUME NEW q \in Requests, stream'[q].state \notin {"unsent", "sent"}
      PROVE  arrived'[q] = 1
  <2>1. CASE stream'[q] = stream[q]
    BY <1>1, <1>2, <2>1 DEF ShownHasCome
  <2>2. CASE stream'[q] # stream[q]
    <3>1. q = slot.request /\ stream[q].state = "held"
      <4>1. PICK state \in State : Settle(slot.request, state)
        BY <1>1, <2>2
      <4>2. q = slot.request
        BY <2>2, <4>1, Followed DEF Settle
      <4>3. slot # Free
        BY <4>2, PhoneFacts
      <4> QED BY <4>2, <4>3, PhoneFacts
    <3> QED BY <1>1, <3>1 DEF ShownHasCome
  <2> QED BY <2>1, <2>2
<1>3. ShownHasCome'
  BY <1>1, <1>2 DEF ShownHasCome
<1>4. NoVerdictYet'
  BY <1>1 DEF NoVerdictYet
<1>5. (desk'.at # "idle") = (desk.at # "idle")
  BY <1>1
<1>6. CASE approvals' = approvals
  BY <1>1, <1>3, <1>4, <1>5, <1>6 DEF Follows
<1>7. CASE shown # 0 /\ approvals' = approvals \cup {shown}
  <2>1. shown \in Requests /\ arrived[shown] = 1
    BY <1>7, Followed DEF ShownHasCome
  <2>2. Asking!Consent(shown)
    BY <1>1, <1>5, <1>7, <2>1 DEF Asking!Consent
  <2>3. Asking!Next
    BY <2>1, <2>2, Followed DEF Asking!Next
  <2> QED BY <1>3, <1>4, <2>3 DEF Follows
<1> QED BY <1>1, <1>6, <1>7

\* The desktop's steps.
LEMMA DeskFollows ==
    ASSUME ExchangeInvariant, NoVerdictYet, ShownHasCome, DeskStep
    PROVE  Follows
<1>0. made \in 0 .. MaxRequests /\ (desk.at # "idle" => made \in Requests /\ stream[made].state \in State)
  BY Followed DEF Stream
<1>1. ASSUME UNCHANGED <<stream, made, outcome, arrived, phone>>, desk'.at = "idle" <=> desk.at = "idle"
      PROVE  Follows
  BY <1>1, QuietFollows DEF phone
<1>2. ASSUME desk.at # "idle", Finish("error"), UNCHANGED <<made, arrived, phone>>
      PROVE  Follows
  <2>1. FinishWith("error", stream[made].state)
    BY <1>2 DEF Finish
  <2> QED BY <1>0, <1>2, <2>1, OverFollows
<1>3. CASE Ask \/ AskForShare
  <2>1. desk'.at # "idle"
    BY <1>3 DEF Ask, AskForShare, Exchange
  <2> QED BY <1>3, <2>1, AskFollows DEF Ask, AskForShare
<1>4. CASE OpenFails
  <2>1. CASE desk.via = "cached"
    <3>1. desk'.at = "dial" /\ desk.at = "open" /\ UNCHANGED <<stream, made, outcome, arrived, phone>>
      BY <1>4, <2>1 DEF OpenFails, Exchange
    <3> QED BY <1>1, <3>1
  <2>2. CASE desk.via # "cached"
    BY <1>2, <1>4, <2>2 DEF OpenFails
  <2> QED BY <2>1, <2>2
<1>5. CASE Open
  <2>1. desk \in Desk
    BY TypeFacts DEF ExchangeInvariant
  <2>2. desk' = [desk EXCEPT !.at = "write", !.phase = Phase] /\ desk.at = "open"
        /\ UNCHANGED <<stream, made, outcome, arrived, phone>>
    BY <1>5 DEF Open
  <2>3. desk'.at = "write"
    BY <2>1, <2>2 DEF Desk
  <2> QED BY <1>1, <2>2, <2>3
<1>6. CASE Dial
  <2>1. CASE Finish("error")
    BY <1>2, <1>6, <2>1 DEF Dial
  <2>2. CASE ~Finish("error")
    <3>1. desk \in Desk
      BY TypeFacts DEF ExchangeInvariant
    <3>2. desk'.at = "open" /\ desk.at = "dial" /\ UNCHANGED <<stream, made, outcome, arrived, phone>>
      BY <1>6, <2>2, <3>1 DEF Dial, Desk
    <3> QED BY <1>1, <3>2
  <2> QED BY <2>1, <2>2
<1>7. CASE Write
  <2>0. desk.at = "write" /\ UNCHANGED <<made, arrived, phone>>
    BY <1>7 DEF Write
  <2>1. stream[made].state = "unsent" /\ desk \in Desk
    BY <2>0, TypeFacts DEF ExchangeInvariant, CommandPlaced
  <2>2. CASE /\ desk' = [desk EXCEPT !.at = "wait", !.phase = Response]
             /\ stream' = [stream EXCEPT ![made].state = "sent"]
             /\ UNCHANGED <<pending, outcome, age>>
    <3>1. desk'.at = "wait"
      BY <2>1, <2>2 DEF Desk
    <3>2. \A r \in Requests : stream'[r].state \in {stream[r].state, "unsent", "sent"}
      BY <1>0, <2>0, <2>2, Followed DEF Stream
    <3> QED BY <2>0, <2>2, <3>1, <3>2, QuietFollows DEF phone
  <2>3. CASE \E state \in {"unsent", "sent"} : FinishWith("error", state)
    <3>1. PICK state \in {"unsent", "sent"} : FinishWith("error", state)
      BY <2>3
    <3>2. state \in State
      BY DEF State
    <3> QED BY <2>0, <2>1, <3>1, <3>2, OverFollows
  <2> QED BY <1>7, <2>2, <2>3 DEF Write
<1>8. CASE Receive
  <2>1. desk.at = "wait" /\ UNCHANGED <<made, arrived, phone>>
    BY <1>8 DEF Receive
  <2>2. PICK result \in {"approved", "denied", "skew"} :
           /\ FinishWith(result, stream[made].state)
           /\ result = "approved" => stream[made].state = "yes"
    BY <1>8 DEF Receive, Finish
  <2>3. result = "approved" => made \in approvals
    BY <1>0, <2>1, <2>2 DEF ExchangeInvariant, YesIsApproved
  <2> QED BY <1>0, <2>1, <2>2, <2>3, OverFollows
<1>9. CASE ReceiveFails \/ Timeout
  BY <1>2, <1>9 DEF ReceiveFails, Timeout, TimedOut
<1>10. CASE Reconnect
  BY <1>1, <1>10 DEF Reconnect
<1> QED BY <1>3, <1>4, <1>5, <1>6, <1>7, <1>8, <1>9, <1>10 DEF DeskStep

LEMMA StepFollows ==
    ASSUME ExchangeInvariant, NoVerdictYet, ShownHasCome, [Next]_vars
    PROVE  Follows
<1>1. desk \in Desk
  BY TypeFacts DEF ExchangeInvariant
<1>2. ASSUME UNCHANGED <<stream, made, outcome, arrived, approvals>>,
             desk'.at = desk.at, event' \in {0, event}, shown' \in {0, shown, event, slot.request}
      PROVE  Follows
  BY <1>2, QuietFollows
<1>3. CASE DeskStep
  BY <1>3, DeskFollows
<1>4. CASE PhoneStep
  <2>1. CASE ShowEvent \/ Poll
    BY <1>2, <2>1 DEF ShowEvent, Poll, desktop
  <2> QED BY <1>4, <2>1, ArrivalFollows, SlotFollows DEF PhoneStep
<1>5. CASE Network
  <2>1. desk' \in {desk, [desk EXCEPT !.up = FALSE]}
        /\ UNCHANGED <<stream, made, outcome, arrived, phone>>
    BY <1>5 DEF Network, CachedDies, OtherDies
  <2>2. desk'.at = desk.at
    BY <1>1, <2>1 DEF Desk
  <2> QED BY <1>2, <2>1, <2>2 DEF phone
<1>6. CASE Tick
  <2>1. desk' = [desk EXCEPT !.phase = Down(@), !.total = Down(@)]
        /\ UNCHANGED <<stream, event, shown, made, outcome, arrived, approvals>>
    BY <1>6 DEF Tick
  <2>2. desk'.at = desk.at
    BY <1>1, <2>1 DEF Desk
  <2> QED BY <1>2, <2>1, <2>2
<1>7. CASE UNCHANGED vars
  BY <1>2, <1>7 DEF vars
<1> QED BY <1>3, <1>4, <1>5, <1>6, <1>7 DEF Next

LEMMA InitFollows ==
    ASSUME Init
    PROVE  NoVerdictYet /\ ShownHasCome /\ Asking!Init
<1>1. /\ desk.at = "idle" /\ stream = [r \in Requests |-> Unsent] /\ made = 0 /\ event = 0 /\ shown = 0
      /\ outcome = [r \in Requests |-> "none"] /\ arrived = [r \in Requests |-> 0] /\ approvals = {}
  BY IdleIsDesk DEF Init
<1>2. NoVerdictYet /\ ShownHasCome
  BY <1>1 DEF NoVerdictYet, ShownHasCome, Unsent
<1>3. (desk.at # "idle") = FALSE
  BY <1>1
<1>4. Asking!Init
  BY <1>1, <1>3 DEF Asking!Init, Asking!Question, Requests
<1> QED BY <1>2, <1>4

\* The exchange implements Authorization: each of its steps asks, reaches the phone,
\* consents or concludes, or is none of these.
THEOREM RefinesAuthorization == Spec => ImplementsAuthorization
<1>1. Init => NoVerdictYet /\ ShownHasCome /\ Asking!Init
  BY InitFollows
<1>2. ExchangeInvariant /\ NoVerdictYet /\ ShownHasCome /\ [Next]_vars
        => /\ (NoVerdictYet /\ ShownHasCome)'
           /\ [Asking!Next]_<<made, desk.at # "idle", arrived, approvals, outcome>>
  BY StepFollows DEF Follows
<1> QED BY <1>1, <1>2, ExchangeInvariantHolds, PTL DEF Spec, ImplementsAuthorization, Asking!Spec

=============================================================================
