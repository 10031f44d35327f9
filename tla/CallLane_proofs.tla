--------------------------- MODULE CallLane_proofs ---------------------------
(* Proofs about the membership of a call, for any number of calls, delayed    *)
(* leaves, faults, attempts and stops of the session: what the lanes hold has *)
(* its type, a call whose lane ended left no membership behind, and what is   *)
(* shown of a call comes from the lane of that call.                          *)
(*                                                                            *)
(* The steps of a lane have much in common: Shape says what, StepShape that   *)
(* every one of them has it, and each layer of the invariant is kept by Shape *)
(* and by the few actions that are no step of a lane.                         *)
EXTENDS CallLane, SequenceTheorems, TLAPS

-----------------------------------------------------------------------------
(* The invariants *)

\* A lane that is to try again has an attempt left.
AttemptInv ==
    \A c \in Calls : lane[c].step = "retry" => lane[c].attempt < JoinAttempts

\* The types, and what counting the attempts needs.
TypeInv == TypeOK /\ AttemptInv

\* Nothing is known of a call that was not started.
NewCallsInv ==
    /\ inCall <= calls /\ failed <= calls
    /\ \A c \in Calls :
          c > calls => lane[c].step = "none" /\ lane[c].reply = "none" /\ c \notin spoiled
    /\ \A r \in requests : r.call <= calls

\* The request that the lane of c waits for.
Unanswered(c, r) ==
    /\ lane[c].step \in Asking /\ lane[c].reply = "none" /\ r = Asked(c, lane[c])

\* A call that had no fault has no request but the one its lane waits for, so
\* once the farewell is answered nothing makes it a member again.
Faultless(c) ==
    /\ \A r \in requests : r.call = c => Unanswered(c, r)
    /\ lane[c].step = "clear" => lane[c].reply \in {"none", "ok"}
    /\ \/ lane[c].step \in {"sendLeave", "clear"} /\ lane[c].reply = "ok"
       \/ lane[c].step = "done"
       => ~IsMember(c)
RequestInv == \A c \in Calls : c \notin spoiled => Faultless(c)

\* The steps before a lane joined or gave up, and those of the farewell.
Before == {"none", "schedule", "join", "retry"}
After == {"sendLeave", "clear", "done"}

\* What a lane became agrees with its step, with its events on their way and
\* with what Calls made of those that arrived.
LaneFate(l) ==
    /\ l.step \in Before => l.fate = "none"
    /\ l.step \notin Before \cup After => l.fate = "in"
EventFate(e, lanes) == lanes[e.call].fate = (IF e.what = "joined" THEN "in" ELSE "gaveUp")
FateInv ==
    /\ \A c \in Calls : LaneFate(lane[c])
    /\ \A i \in 1..Len(inbox) : EventFate(inbox[i], lane)
    /\ heard => inCall # NoCall /\ lane[inCall].fate = "in"
    /\ failed # NoCall => lane[failed].fate = "gaveUp"

-----------------------------------------------------------------------------
(* The steps of a lane *)

\* What the steps of a lane have in common; l is what the lane goes on as.
Shape(c, l) ==
    /\ l \in Lanes /\ GoOn(c, l)
    /\ lane[c].step \notin {"none", "done"} /\ l.step # "none"
    /\ l.step = "retry" => l.attempt < JoinAttempts
    \* nothing that was asked is left unanswered, or it counts as a fault
    /\ \/ lane[c].step \notin Asking \/ lane[c].reply # "none"
       \/ Asked(c, lane[c]) \notin requests \/ c \in spoiled'
    \* the lane ends when its farewell was answered
    /\ l.step = "done" =>
          /\ lane[c].reply # "none"
          /\ lane[c].step = "clear" \/ (lane[c].step = "sendLeave" /\ lane[c].reply = "ok")
    \* it joins or gives up once, and says so
    /\ l.step \in Before => lane[c].step \in Before /\ l.fate = lane[c].fate
    /\ \/ l.step \in Before \cup After \/ l.fate = "in"
       \/ lane[c].step \notin Before \cup After /\ l.fate = lane[c].fate
    /\ l.fate = lane[c].fate \/ lane[c].step = "join"
    /\ \/ inbox' = inbox
       \/ /\ inbox' = Append(inbox, [call |-> c, what |-> "joined"])
          /\ l.fate = "in" \/ (lane[c].step = "resend" /\ l.fate = lane[c].fate)
       \/ inbox' = Append(inbox, [call |-> c, what |-> "failed"]) /\ l.fate = "gaveUp"
    /\ UNCHANGED <<server, inCall, calls, heard, failed, checked, budgets>>
    /\ spoiled' = spoiled \/ spoiled' = spoiled \cup {c}

\* A lane is a record of these fields.
LEMMA LaneFields ==
    ASSUME NEW l \in Lanes
    PROVE  /\ l.step \in Steps /\ l.leave \in Leaves \cup {NoLeave}
           /\ l.reply \in {"none", "ok", "failed", "gone", "refused"}
           /\ l.given \in Leaves \cup {NoLeave}
           /\ l.attempt \in 0..JoinAttempts /\ l.wish \in Intents /\ l.told \in Intents
           /\ l.age \in 0..LeaveDelay /\ l.ordered \in BOOLEAN
           /\ l.fate \in {"none", "in", "gaveUp"}
  BY DEF Lanes

\* The constants, as numbers, and the intent that stands for any.
LEMMA Constants ==
    /\ LeaveDelay \in Nat /\ LeaveDelay > 0 /\ JoinAttempts \in Nat /\ JoinAttempts > 0
    /\ MaxCalls \in Nat /\ 0 \in 0..LeaveDelay /\ 0 \in 0..JoinAttempts /\ 1 \in 0..JoinAttempts
    /\ AnIntent \in Intents
<1>1. AnIntent \in Intents
      BY ParametersAssumption DEF AnIntent
<1> QED BY <1>1, ParametersAssumption

\* The steps that ask the homeserver, one by one.
LEMMA AskingSteps ==
    Asking = {"schedule", "reschedule", "rejoin", "join", "resend", "refresh", "retell",
              "restart", "sendLeave", "clear"}
  BY DEF Asking, Asks

\* The lane of no call is a lane.
LEMMA NoLaneIsLane ==
    NoLane \in Lanes
  BY Constants DEF NoLane, Lanes, Steps

\* The lane of the steps below: each one changes what it names and nothing else.
LEMMA LaneForms ==
    ASSUME NEW l \in Lanes
    PROVE  /\ Keep(l) \in Lanes /\ Keep(l).step = "keep" /\ Keep(l).fate = l.fate
           /\ Good(l) \in Lanes /\ Good(l).step = l.step /\ Good(l).fate = l.fate
           /\ Farewell(l) \in Lanes /\ Farewell(l).step \in {"sendLeave", "clear"}
           /\ Farewell(l).fate = l.fate
           /\ Gone(l) \in Lanes /\ Gone(l).step = "done" /\ Gone(l).fate = l.fate
           /\ Gone(l).reply = "none"
<1> USE LaneFields, Constants, NoLaneIsLane
<1>1. Keep(l) \in Lanes /\ Keep(l).step = "keep" /\ Keep(l).fate = l.fate
      BY DEF Keep, Lanes, Steps
<1>2. Good(l) \in Lanes /\ Good(l).step = l.step /\ Good(l).fate = l.fate
      BY DEF Good, Lanes
<1>3. /\ Farewell(l) \in Lanes /\ Farewell(l).step \in {"sendLeave", "clear"}
      /\ Farewell(l).fate = l.fate
  <2> DEFINE step == IF l.leave = NoLeave THEN "clear" ELSE "sendLeave"
  <2>1. step \in {"sendLeave", "clear"} /\ step \in Steps
        BY AskingSteps DEF Steps
  <2>2. Farewell(l) = [l EXCEPT !.step = step, !.age = 0]
        BY DEF Farewell
  <2> HIDE DEF step
  <2> QED BY <2>1, <2>2 DEF Lanes
<1>4. /\ Gone(l) \in Lanes /\ Gone(l).step = "done" /\ Gone(l).fate = l.fate
      /\ Gone(l).reply = "none"
      BY DEF Gone, NoLane, Lanes, Steps
<1> QED BY <1>1, <1>2, <1>3, <1>4

\* A lane that says its intent is at the step it was given.
LEMMA TellForm ==
    ASSUME NEW l \in Lanes, NEW step \in Steps
    PROVE  Tell(l, step) \in Lanes /\ Tell(l, step).step = step /\ Tell(l, step).fate = l.fate
  BY LaneFields DEF Tell, Lanes

-----------------------------------------------------------------------------
\* The steps that keep Calls as it is: the shape holds of what they go on as.
LEMMA QuietShape ==
    ASSUME NEW c \in Calls, NEW l \in Lanes, GoOn(c, l), UNCHANGED quiet,
           lane[c].step \notin {"none", "done"}, l.step # "none",
           l.step = "retry" => l.attempt < JoinAttempts,
           lane[c].step \notin Asking \/ lane[c].reply # "none",
           l.step = "done" =>
              /\ lane[c].reply # "none"
              /\ lane[c].step = "clear" \/ (lane[c].step = "sendLeave" /\ lane[c].reply = "ok"),
           l.step \in Before => lane[c].step \in Before,
           l.step \notin Before \cup After => lane[c].step \notin Before \cup After,
           l.fate = lane[c].fate
    PROVE  Shape(c, l)
  BY DEF Shape, quiet, core

\* A delayed leave is scheduled: the lane joins, keeps on or tells of itself again.
LEMMA LeaveScheduledShape ==
    ASSUME TypeInv, NEW c \in Calls, LeaveScheduled(c)
    PROVE  \E l \in Lanes : Shape(c, l)
<1> DEFINE had == [lane[c] EXCEPT !.leave = lane[c].given]
<1>1. lane[c] \in Lanes
      BY DEF TypeInv, TypeOK
<1>2. had \in Lanes /\ had.fate = lane[c].fate
      BY <1>1, LaneFields DEF Lanes
<1>3. {"join", "keep", "resend"} \subseteq Steps
      BY AskingSteps DEF Steps
<1>4. UNCHANGED quiet
      BY DEF LeaveScheduled
<1> HIDE DEF had
<1>5. CASE Replied(c, "schedule") /\ GoOn(c, [Tell(had, "join") EXCEPT !.attempt = 1])
  <2> DEFINE l == [Tell(had, "join") EXCEPT !.attempt = 1]
  <2>1. Tell(had, "join") \in Lanes /\ Tell(had, "join").step = "join"
        /\ Tell(had, "join").fate = had.fate
        BY <1>2, <1>3, TellForm
  <2>2. l \in Lanes /\ l.step = "join" /\ l.fate = had.fate
        BY <2>1, Constants DEF Lanes
  <2> HIDE DEF l
  <2> QED BY <1>2, <1>4, <1>5, <2>2, QuietShape DEF Replied, Before, After, l
<1>6. CASE Replied(c, "reschedule") /\ GoOn(c, Good(Keep(had)))
      BY <1>2, <1>4, <1>6, LaneForms, QuietShape DEF Replied, Before, After
<1>7. CASE Replied(c, "rejoin") /\ GoOn(c, Tell(had, "resend"))
  <2>1. Tell(had, "resend") \in Lanes /\ Tell(had, "resend").step = "resend"
        /\ Tell(had, "resend").fate = had.fate
        BY <1>2, <1>3, TellForm
  <2> QED BY <1>2, <1>4, <1>7, <2>1, QuietShape DEF Replied, Before, After
<1> QED BY <1>5, <1>6, <1>7 DEF LeaveScheduled, had

\* The membership is answered: the lane is in, tries again, or gives up.
LEMMA JoinRepliedShape ==
    ASSUME TypeInv, NEW c \in Calls, JoinReplied(c)
    PROVE  \E l \in Lanes : Shape(c, l)
<1> DEFINE l == lane[c]
<1>1. l \in Lanes /\ l.step = "join" /\ l.reply # "none" /\ l.attempt \in 0..JoinAttempts
      BY LaneFields DEF TypeInv, TypeOK, JoinReplied, Replied
<1> HIDE DEF l
<1>2. CASE /\ Said(c, "ok")
           /\ GoOn(c, [Good(Keep(l)) EXCEPT !.fate = "in", !.attempt = 0])
           /\ Report(c, "joined") /\ UNCHANGED reporting
  <2> DEFINE kept == [Good(Keep(l)) EXCEPT !.fate = "in", !.attempt = 0]
  <2>1. Good(Keep(l)) \in Lanes /\ Good(Keep(l)).step = "keep"
        BY <1>1, LaneForms
  <2>2. kept \in Lanes /\ kept.step = "keep" /\ kept.fate = "in"
        BY <2>1, Constants DEF Lanes
  <2>3. GoOn(c, kept)
        BY <1>2
  <2> HIDE DEF kept
  <2>4. Shape(c, kept)
        BY <1>1, <1>2, <2>2, <2>3 DEF Shape, Report, reporting, Before, After, l
  <2> QED BY <2>2, <2>4
<1>3. CASE /\ ~Said(c, "ok") /\ ~LastAttempt(l)
           /\ GoOn(c, [l EXCEPT !.step = "retry"])
           /\ UNCHANGED quiet
  <2> DEFINE again == [l EXCEPT !.step = "retry"]
  <2>1. "retry" \in Steps
        BY DEF Steps
  <2>2. again \in Lanes /\ again.step = "retry" /\ again.fate = l.fate
        /\ again.attempt = l.attempt
        BY <1>1, <2>1 DEF Lanes
  <2>3. l.attempt < JoinAttempts
        BY <1>1, <1>3, Constants DEF LastAttempt
  <2>4. GoOn(c, again) /\ UNCHANGED quiet
        BY <1>3
  <2> HIDE DEF again
  <2> QED BY <1>1, <2>2, <2>3, <2>4, QuietShape DEF Before, After, l
<1>4. CASE /\ ~Said(c, "ok") /\ LastAttempt(l)
           /\ GoOn(c, [Farewell(l) EXCEPT !.fate = "gaveUp", !.attempt = 0])
           /\ Report(c, "failed") /\ UNCHANGED reporting
  <2> DEFINE leaves == [Farewell(l) EXCEPT !.fate = "gaveUp", !.attempt = 0]
  <2>1. Farewell(l) \in Lanes /\ Farewell(l).step \in {"sendLeave", "clear"}
        BY <1>1, LaneForms
  <2>2. leaves \in Lanes /\ leaves.step \in {"sendLeave", "clear"} /\ leaves.fate = "gaveUp"
        BY <2>1, Constants DEF Lanes
  <2>3. GoOn(c, leaves)
        BY <1>4
  <2> HIDE DEF leaves
  <2>4. Shape(c, leaves)
        BY <1>1, <1>4, <2>2, <2>3 DEF Shape, Report, reporting, Before, After, l
  <2> QED BY <2>2, <2>4
<1> QED BY <1>2, <1>3, <1>4 DEF JoinReplied, l

\* The next attempt: there is one, as AttemptInv says.
LEMMA JoinAgainShape ==
    ASSUME TypeInv, NEW c \in Calls, JoinAgain(c)
    PROVE  \E l \in Lanes : Shape(c, l)
<1> DEFINE l == [Tell(lane[c], "join") EXCEPT !.attempt = lane[c].attempt + 1]
<1>1. lane[c] \in Lanes /\ lane[c].step = "retry" /\ lane[c].attempt \in 0..JoinAttempts
      BY LaneFields DEF TypeInv, TypeOK, JoinAgain
<1>2. lane[c].attempt + 1 \in 0..JoinAttempts
      BY <1>1, Constants DEF TypeInv, AttemptInv
<1>3. "join" \in Steps /\ "retry" \notin Asking
      BY AskingSteps DEF Steps
<1>4. Tell(lane[c], "join") \in Lanes /\ Tell(lane[c], "join").step = "join"
      /\ Tell(lane[c], "join").fate = lane[c].fate
      BY <1>1, <1>3, TellForm
<1>5. l \in Lanes /\ l.step = "join" /\ l.fate = lane[c].fate
      BY <1>2, <1>4 DEF Lanes
<1>6. GoOn(c, l) /\ UNCHANGED quiet
      BY DEF JoinAgain
<1> HIDE DEF l
<1> QED BY <1>1, <1>3, <1>5, <1>6, QuietShape DEF Before, After

\* The order to leave, while joining or between the rounds.
LEMMA LeaveShape ==
    ASSUME TypeInv, NEW c \in Calls, LeaveWhileJoining(c) \/ LeaveWhileKeeping(c)
    PROVE  \E l \in Lanes : Shape(c, l)
<1>1. lane[c] \in Lanes
      BY DEF TypeInv, TypeOK
<1>2. /\ Farewell(lane[c]) \in Lanes /\ Farewell(lane[c]).step \in {"sendLeave", "clear"}
      /\ Farewell(lane[c]).fate = lane[c].fate
      BY <1>1, LaneForms
<1>3. CASE LeaveWhileJoining(c)
  <2> DEFINE l == [Farewell(lane[c]) EXCEPT !.attempt = 0]
  <2>1. l \in Lanes /\ l.step \in {"sendLeave", "clear"} /\ l.fate = lane[c].fate
        BY <1>2, Constants DEF Lanes
  <2>2. GoOn(c, l)
        BY <1>3 DEF LeaveWhileJoining
  <2> HIDE DEF l
  <2>3. Asked(c, lane[c]) \notin requests \/ c \in spoiled'
        BY <1>3 DEF LeaveWhileJoining
  <2>4. spoiled' = spoiled \/ spoiled' = spoiled \cup {c}
        BY <1>3 DEF LeaveWhileJoining
  <2>5. lane[c].step = "join" /\ UNCHANGED <<server, core, budgets>>
        BY <1>3 DEF LeaveWhileJoining
  <2>6. Shape(c, l)
        BY <2>1, <2>2, <2>3, <2>4, <2>5 DEF Shape, Before, After, core
  <2> QED BY <2>1, <2>6
<1>4. CASE LeaveWhileKeeping(c)
  <2>1. "keep" \notin Asking
        BY AskingSteps
  <2> QED BY <1>2, <1>4, <2>1, QuietShape DEF LeaveWhileKeeping, Before, After
<1> QED BY <1>3, <1>4

\* A round begins: of the delayed leave, of the membership, of the intent.
LEMMA RoundShape ==
    ASSUME TypeInv, NEW c \in Calls, BeginRestart(c) \/ BeginRefresh(c) \/ RetellIntent(c)
    PROVE  \E l \in Lanes : Shape(c, l)
<1>1. lane[c] \in Lanes /\ lane[c].step = "keep" /\ UNCHANGED quiet
      BY DEF TypeInv, TypeOK, BeginRestart, BeginRefresh, RetellIntent
<1>2. {"restart", "refresh", "retell"} \subseteq Steps /\ "keep" \notin Asking
      BY AskingSteps DEF Steps
<1>3. CASE BeginRestart(c)
  <2> DEFINE l == [lane[c] EXCEPT !.step = "restart"]
  <2>1. l \in Lanes /\ l.step = "restart" /\ l.fate = lane[c].fate
        BY <1>1, <1>2 DEF Lanes
  <2>2. GoOn(c, l)
        BY <1>3 DEF BeginRestart
  <2> HIDE DEF l
  <2> QED BY <1>1, <1>2, <2>1, <2>2, QuietShape DEF Before, After
<1>4. CASE BeginRefresh(c)
  <2>1. Tell(lane[c], "refresh") \in Lanes /\ Tell(lane[c], "refresh").step = "refresh"
        /\ Tell(lane[c], "refresh").fate = lane[c].fate
        BY <1>1, <1>2, TellForm
  <2> QED BY <1>1, <1>2, <1>4, <2>1, QuietShape DEF BeginRefresh, Before, After
<1>5. CASE RetellIntent(c)
  <2>1. Tell(lane[c], "retell") \in Lanes /\ Tell(lane[c], "retell").step = "retell"
        /\ Tell(lane[c], "retell").fate = lane[c].fate
        BY <1>1, <1>2, TellForm
  <2> QED BY <1>1, <1>2, <1>5, <2>1, QuietShape DEF RetellIntent, Before, After
<1> QED BY <1>3, <1>4, <1>5

\* The restart is answered: the lane keeps on, or sees to what was lost.
LEMMA RestartRepliedShape ==
    ASSUME TypeInv, NEW c \in Calls, RestartReplied(c)
    PROVE  \E l \in Lanes : Shape(c, l)
<1> DEFINE l == lane[c]
           bare == [l EXCEPT !.leave = NoLeave]
<1>1. l \in Lanes /\ l.step = "restart" /\ l.reply # "none" /\ UNCHANGED quiet
      BY DEF TypeInv, TypeOK, RestartReplied, Replied
<1>2. {"resend", "rejoin", "reschedule"} \subseteq Steps
      BY AskingSteps DEF Steps
<1>3. bare \in Lanes /\ bare.fate = l.fate
      BY <1>1 DEF Lanes
<1>4. ASSUME NEW m \in Lanes, GoOn(c, m), m.fate = l.fate,
             m.step \in {"keep", "resend", "rejoin", "reschedule"}
      PROVE  \E n \in Lanes : Shape(c, n)
      BY <1>1, <1>4, QuietShape DEF Before, After
<1>5. ASSUME NEW step \in {"rejoin", "reschedule"},
             GoOn(c, [l EXCEPT !.step = step, !.leave = NoLeave])
      PROVE  \E n \in Lanes : Shape(c, n)
  <2> DEFINE m == [l EXCEPT !.step = step, !.leave = NoLeave]
  <2>1. m \in Lanes /\ m.step = step /\ m.fate = l.fate
        BY <1>1, <1>2 DEF Lanes
  <2>2. GoOn(c, m)
        BY <1>5
  <2> HIDE DEF m
  <2> QED BY <1>4, <2>1, <2>2
<1>6. CASE GoOn(c, Good(Keep(l))) \/ GoOn(c, Keep(l))
      BY <1>1, <1>4, <1>6, LaneForms
<1>7. CASE GoOn(c, Tell(bare, "resend"))
      BY <1>2, <1>3, <1>4, <1>7, TellForm
<1> QED BY <1>5, <1>6, <1>7 DEF RestartReplied

\* The membership is answered while the lane keeps it.
LEMMA MembershipRepliedShape ==
    ASSUME TypeInv, NEW c \in Calls, MembershipReplied(c)
    PROVE  \E l \in Lanes : Shape(c, l)
<1>1. lane[c] \in Lanes
      BY DEF TypeInv, TypeOK
<1>2. /\ Keep(lane[c]) \in Lanes /\ Keep(lane[c]).step = "keep"
      /\ Keep(lane[c]).fate = lane[c].fate
      /\ Good(Keep(lane[c])) \in Lanes /\ Good(Keep(lane[c])).step = "keep"
      /\ Good(Keep(lane[c])).fate = lane[c].fate
      BY <1>1, LaneForms
<1>3. CASE /\ Replied(c, "resend") /\ GoOn(c, Good(Keep(lane[c])))
           /\ Report(c, "joined") /\ UNCHANGED reporting
      BY <1>2, <1>3 DEF Shape, Replied, Report, reporting, Before, After
<1>4. CASE /\ Replied(c, "resend") /\ GoOn(c, Good(Keep(lane[c]))) /\ UNCHANGED quiet
      BY <1>2, <1>4, QuietShape DEF Replied, Before, After
<1>5. CASE /\ Replied(c, "refresh") \/ Replied(c, "retell")
           /\ GoOn(c, Keep(lane[c])) /\ UNCHANGED quiet
      BY <1>2, <1>5, QuietShape DEF Replied, Before, After
<1> QED BY <1>3, <1>4, <1>5 DEF MembershipReplied

\* The farewell is answered: the other way is tried, or the lane ends.
LEMMA FarewellRepliedShape ==
    ASSUME TypeInv, NEW c \in Calls, FarewellReplied(c)
    PROVE  \E l \in Lanes : Shape(c, l)
<1>1. lane[c] \in Lanes /\ UNCHANGED quiet
      BY DEF TypeInv, TypeOK, FarewellReplied
<1>2. CASE /\ Replied(c, "sendLeave")
           /\ GoOn(c, [lane[c] EXCEPT !.step = "clear", !.leave = NoLeave])
  <2> DEFINE l == [lane[c] EXCEPT !.step = "clear", !.leave = NoLeave]
  <2>1. "clear" \in Steps
        BY AskingSteps DEF Steps
  <2>2. l \in Lanes /\ l.step = "clear" /\ l.fate = lane[c].fate
        BY <1>1, <2>1 DEF Lanes
  <2>3. GoOn(c, l)
        BY <1>2
  <2> HIDE DEF l
  <2> QED BY <1>1, <1>2, <2>2, <2>3, QuietShape DEF Replied, Before, After
<1>3. CASE /\ (Replied(c, "sendLeave") /\ Said(c, "ok")) \/ Replied(c, "clear")
           /\ GoOn(c, Gone(lane[c]))
  <2>1. /\ Gone(lane[c]) \in Lanes /\ Gone(lane[c]).step = "done"
        /\ Gone(lane[c]).fate = lane[c].fate
        BY <1>1, LaneForms
  <2> QED BY <1>1, <1>3, <2>1, QuietShape DEF Replied, Said, Before, After
<1> QED BY <1>2, <1>3 DEF FarewellReplied

\* Every step of a lane has the shape.
LEMMA StepShape ==
    ASSUME TypeInv, NEW c \in Calls,
           \/ LaneStep(c) \/ LeaveWhileKeeping(c) \/ BeginRefresh(c) \/ RetellIntent(c)
    PROVE  \E l \in Lanes : Shape(c, l)
  BY LeaveScheduledShape, JoinRepliedShape, JoinAgainShape, LeaveShape, RoundShape,
     RestartRepliedShape, MembershipRepliedShape, FarewellRepliedShape DEF LaneStep

-----------------------------------------------------------------------------
(* The types *)

\* The steps that are on a lane's way to ask are of these kinds.
LEMMA KindOfStep ==
    ASSUME NEW step \in Asking
    PROVE  Asks[step] \in Kinds
  BY AskingSteps DEF Asks, Kinds

\* What a lane asks is a request.
LEMMA AskedIsRequest ==
    ASSUME NEW c \in Calls, NEW l \in Lanes, l.step \in Asking
    PROVE  Asked(c, l) \in Requests /\ Asked(c, l).call = c /\ Asked(c, l).kind = Asks[l.step]
<1> DEFINE kind == Asks[l.step]
<1>1. kind \in Kinds /\ l.told \in Intents /\ l.leave \in Leaves \cup {NoLeave}
      BY KindOfStep, LaneFields
<1>2. Asked(c, l) =
        [kind |-> kind, call |-> c,
         intent |-> IF kind = "membership" THEN l.told ELSE AnIntent,
         leave |-> IF kind \in {"restart", "leave"} THEN l.leave ELSE NoLeave]
      BY DEF Asked
<1> HIDE DEF kind
<1>3. Asked(c, l) \in Requests
      BY <1>1, <1>2, Constants DEF Requests, Askers
<1> QED BY <1>2, <1>3 DEF kind

\* A lane that goes on is as it was told to be, unanswered, and asks; the other
\* lanes are as they were.
LEMMA GoOnMoves ==
    ASSUME TypeOK, NEW c \in Calls, NEW l \in Lanes, GoOn(c, l)
    PROVE  /\ lane' \in [Calls -> Lanes] /\ requests' \subseteq Requests
           /\ lane'[c].step = l.step /\ lane'[c].reply = "none" /\ lane'[c].fate = l.fate
           /\ lane'[c].attempt = l.attempt
           /\ Asked(c, lane'[c]) = Asked(c, l)
           /\ \A d \in Calls : d # c => lane'[d] = lane[d]
           /\ \A r \in requests' : r \in requests \/ (l.step \in Asking /\ r = Asked(c, l))
<1> DEFINE m == [l EXCEPT !.reply = "none", !.given = NoLeave]
<1>1. m \in Lanes /\ m.step = l.step /\ m.reply = "none" /\ m.fate = l.fate
      /\ m.attempt = l.attempt /\ m.told = l.told /\ m.leave = l.leave
      BY DEF Lanes
<1>2. lane' = [lane EXCEPT ![c] = m] /\ lane \in [Calls -> Lanes]
      BY DEF GoOn, TypeOK
<1>3. Asked(c, m) = Asked(c, l)
      BY <1>1 DEF Asked
<1> HIDE DEF m
<1>4. lane' \in [Calls -> Lanes] /\ lane'[c] = m /\ \A d \in Calls : d # c => lane'[d] = lane[d]
      BY <1>1, <1>2
<1>5. \A r \in requests' : r \in requests \/ (l.step \in Asking /\ r = Asked(c, l))
      BY DEF GoOn
<1>6. requests' \subseteq Requests
      BY <1>5, AskedIsRequest DEF TypeOK
<1> QED BY <1>1, <1>3, <1>4, <1>5, <1>6

\* An answer takes the request away, and is on its way to the lane that waits
\* for it: no other lane and no other field changes.
LEMMA AnswerMoves ==
    ASSUME TypeOK, NEW r \in requests, NEW reply \in {"ok", "failed", "gone", "refused"},
           NEW given \in Leaves \cup {NoLeave}, Answer(r, reply, given)
    PROVE  /\ lane' \in [Calls -> Lanes] /\ requests' = requests \ {r}
           /\ \A c \in Calls :
                 /\ lane'[c].step = lane[c].step /\ lane'[c].fate = lane[c].fate
                 /\ lane'[c].attempt = lane[c].attempt
                 /\ Asked(c, lane'[c]) = Asked(c, lane[c])
                 /\ lane'[c].reply = lane[c].reply
                    \/ (lane'[c].reply = reply /\ Awaited(r) /\ r.call = c)
<1>1. r \in Requests /\ r.call \in Askers /\ lane \in [Calls -> Lanes]
      BY DEF TypeOK, Requests
<1>2. CASE Awaited(r)
  <2>1. r.call \in Calls
        BY <1>1, <1>2 DEF Awaited, Askers, NoCall
  <2> DEFINE l == [lane[r.call] EXCEPT !.reply = reply, !.given = given]
  <2>2. lane' = [lane EXCEPT ![r.call] = l]
        BY <1>1, <1>2, <2>1 DEF Answer
  <2>3. l \in Lanes /\ l.step = lane[r.call].step /\ l.fate = lane[r.call].fate
        /\ l.attempt = lane[r.call].attempt /\ l.told = lane[r.call].told
        /\ l.leave = lane[r.call].leave /\ l.reply = reply
    <3>1. lane[r.call] \in Lanes
          BY <1>1, <2>1
    <3> QED BY <3>1 DEF Lanes
  <2>4. Asked(r.call, l) = Asked(r.call, lane[r.call])
        BY <2>3 DEF Asked
  <2> HIDE DEF l
  <2>5. lane'[r.call] = l /\ \A c \in Calls : c # r.call => lane'[c] = lane[c]
        BY <1>1, <2>1, <2>2
  <2>6. lane' \in [Calls -> Lanes]
        BY <1>1, <2>1, <2>2, <2>3
  <2>7. requests' = requests \ {r}
        BY DEF Answer
  <2> QED BY <1>2, <2>3, <2>4, <2>5, <2>6, <2>7
<1>3. CASE ~Awaited(r)
      BY <1>1, <1>3 DEF Answer
<1> QED BY <1>2, <1>3

\* The answers that Process and RequestFails give are answers.
LEMMA ProcessAnswers ==
    ASSUME TypeOK, NEW r \in requests, Process(r) \/ RequestFails(r)
    PROVE  \E reply \in {"ok", "failed", "gone", "refused"}, given \in Leaves \cup {NoLeave} :
              /\ Answer(r, reply, given)
              /\ reply = "ok" \/ r.kind # "clear" \/ RequestFails(r)
              /\ r.kind \in {"leave", "clear"} /\ reply = "ok" => member' = Cleared
<1>1. CASE Process(r)
  <2>1. CASE r.kind = "schedule"
    <3>1. CASE Free # {}
      <4>1. (CHOOSE d \in Free : TRUE) \in Leaves
            BY <3>1 DEF Free
      <4> QED BY <1>1, <2>1, <3>1, <4>1 DEF Process
    <3>2. CASE Free = {}
          BY <1>1, <2>1, <3>2 DEF Process
    <3> QED BY <3>1, <3>2
  <2>2. CASE r.kind = "clear"
        BY <1>1, <2>2 DEF Process
  <2>3. CASE r.kind \notin {"schedule", "clear"}
        BY <1>1, <2>3 DEF Process
  <2> QED BY <2>1, <2>2, <2>3
<1>2. CASE RequestFails(r)
      BY <1>2 DEF RequestFails, Fault, server, Cleared
<1> QED BY <1>1, <1>2

\* What the homeserver holds keeps its type.
LEMMA ServerTypes ==
    ASSUME TypeOK, NEW r \in requests, Process(r) \/ RequestFails(r)
    PROVE  member' \in Memberships /\ armed' \in [Leaves -> 0..NotArmed]
<1>1. r \in Requests /\ r.call \in Askers /\ r.intent \in Intents
      BY DEF TypeOK, Requests
<1>2. 0 \in 0..NotArmed /\ NotArmed \in 0..NotArmed
      BY Constants DEF NotArmed
<1>3. CASE RequestFails(r)
      BY <1>3 DEF RequestFails, Fault, server, TypeOK
<1>4. CASE Process(r)
  <2>1. \/ member' = member \/ member' = Cleared
        \/ member' = <<r.call, r.intent>>
        BY <1>4 DEF Process, server
  <2>2. \/ armed' = armed
        \/ \E d : armed' = [armed EXCEPT ![d] = 0] \/ armed' = [armed EXCEPT ![d] = NotArmed]
        BY <1>4 DEF Process, server
  <2>3. member' \in Memberships
        BY <1>1, <2>1 DEF Memberships, TypeOK
  <2>4. armed' \in [Leaves -> 0..NotArmed]
        BY <1>2, <2>2 DEF TypeOK
  <2> QED BY <2>3, <2>4
<1> QED BY <1>3, <1>4

\* Older lanes, and lanes that were ordered to leave, are lanes at the same step.
LEMMA OlderAndOrdered ==
    ASSUME NEW l \in Lanes
    PROVE  /\ Older(l) \in Lanes /\ Older(l).step = l.step /\ Older(l).fate = l.fate
           /\ Older(l).reply = l.reply /\ Older(l).attempt = l.attempt
           /\ Older(l).told = l.told /\ Older(l).leave = l.leave
           /\ Ordered(l) \in Lanes /\ Ordered(l).step = l.step /\ Ordered(l).fate = l.fate
           /\ Ordered(l).reply = l.reply /\ Ordered(l).attempt = l.attempt
           /\ Ordered(l).told = l.told /\ Ordered(l).leave = l.leave
<1>1. l.age \in 0..LeaveDelay /\ LeaveDelay \in Nat
      BY LaneFields, Constants
<1> DEFINE age == IF l.fate = "in" /\ l.leave # NoLeave /\ l.step \in {"keep", "restart"}
                  THEN Up(l.age, LeaveDelay) ELSE l.age
<1>2. age \in 0..LeaveDelay
      BY <1>1 DEF Up
<1>3. Older(l) = [l EXCEPT !.age = age]
      BY DEF Older, Lanes
<1> HIDE DEF age
<1>4. /\ Older(l) \in Lanes /\ Older(l).step = l.step /\ Older(l).fate = l.fate
      /\ Older(l).reply = l.reply /\ Older(l).attempt = l.attempt
      /\ Older(l).told = l.told /\ Older(l).leave = l.leave
      BY <1>2, <1>3 DEF Lanes
<1>5. /\ Ordered(l) \in Lanes /\ Ordered(l).step = l.step /\ Ordered(l).fate = l.fate
      /\ Ordered(l).reply = l.reply /\ Ordered(l).attempt = l.attempt
      /\ Ordered(l).told = l.told /\ Ordered(l).leave = l.leave
      BY DEF Ordered, Lanes
<1> QED BY <1>4, <1>5

\* The lanes change in nothing but what only they see.
Same(c) ==
    /\ lane'[c].step = lane[c].step /\ lane'[c].fate = lane[c].fate
    /\ lane'[c].reply = lane[c].reply /\ lane'[c].attempt = lane[c].attempt
    /\ Asked(c, lane'[c]) = Asked(c, lane[c])

\* Lanes are alike when their step, what they tell and their leave are.
LEMMA AlikeIsSame ==
    ASSUME NEW c \in Calls,
           lane'[c].step = lane[c].step, lane'[c].fate = lane[c].fate,
           lane'[c].reply = lane[c].reply, lane'[c].attempt = lane[c].attempt,
           lane'[c].told = lane[c].told, lane'[c].leave = lane[c].leave
    PROVE  Same(c)
  BY DEF Same, Asked

\* An order to leave, a change of the intent and time change nothing else.
LEMMA TheseAreSame ==
    ASSUME TypeOK,
           \/ LeaveCall \/ LaneEvent \/ Tick \/ ClearStale
           \/ \E intent \in Intents : ChangeIntent(intent)
           \/ \E d \in Leaves : Fire(d)
           \/ UNCHANGED lane
    PROVE  lane' \in [Calls -> Lanes] /\ \A c \in Calls : Same(c)
<1>1. lane \in [Calls -> Lanes]
      BY DEF TypeOK
<1>2. CASE UNCHANGED lane
      BY <1>1, <1>2 DEF Same
<1>3. CASE \E c \in Calls : lane' = [lane EXCEPT ![c] = Ordered(@)]
  <2>1. PICK c \in Calls : lane' = [lane EXCEPT ![c] = Ordered(lane[c])]
        BY <1>1, <1>3
  <2>2. lane[c] \in Lanes
        BY <1>1
  <2>3. lane'[c] = Ordered(lane[c]) /\ \A d \in Calls : d # c => lane'[d] = lane[d]
        BY <1>1, <2>1
  <2>4. lane' \in [Calls -> Lanes]
        BY <1>1, <2>1, <2>2, OlderAndOrdered
  <2>5. Same(c)
        BY <2>2, <2>3, OlderAndOrdered, AlikeIsSame
  <2>6. \A d \in Calls : d # c => Same(d)
        BY <2>3 DEF Same
  <2> QED BY <2>4, <2>5, <2>6
<1>4. CASE LeaveCall
  <2>1. inCall \in Calls
        BY <1>4 DEF LeaveCall, TypeOK, Askers, NoCall
  <2> QED BY <1>3, <1>4, <2>1 DEF LeaveCall
<1>5. CASE LaneEvent
  <2>1. Head(inbox).call \in Calls
    <3>1. Head(inbox) \in [call: Calls, what: {"joined", "failed"}]
          BY <1>5, HeadTailProperties DEF LaneEvent, TypeOK
    <3> QED BY <3>1
  <2>2. UNCHANGED lane \/ lane' = [lane EXCEPT ![Head(inbox).call] = Ordered(@)]
        BY <1>5 DEF LaneEvent
  <2> QED BY <1>2, <1>3, <2>1, <2>2
<1>6. CASE \E intent \in Intents : ChangeIntent(intent)
  <2>1. PICK intent \in Intents : ChangeIntent(intent)
        BY <1>6
  <2>2. inCall \in Calls
        BY <2>1 DEF ChangeIntent, TypeOK, Askers, NoCall
  <2> DEFINE l == [lane[inCall] EXCEPT !.wish = intent]
  <2>3. lane' = [lane EXCEPT ![inCall] = l]
        BY <1>1, <2>1, <2>2 DEF ChangeIntent
  <2>4. lane[inCall] \in Lanes
        BY <1>1, <2>2
  <2>5. l \in Lanes /\ l.step = lane[inCall].step /\ l.fate = lane[inCall].fate
        /\ l.reply = lane[inCall].reply /\ l.attempt = lane[inCall].attempt
        /\ l.told = lane[inCall].told /\ l.leave = lane[inCall].leave
        BY <2>4 DEF Lanes
  <2> HIDE DEF l
  <2>6. lane'[inCall] = l /\ \A d \in Calls : d # inCall => lane'[d] = lane[d]
        BY <1>1, <2>2, <2>3
  <2>7. lane' \in [Calls -> Lanes]
        BY <1>1, <2>2, <2>3, <2>5
  <2>8. Same(inCall)
        BY <2>2, <2>5, <2>6, AlikeIsSame
  <2>9. \A d \in Calls : d # inCall => Same(d)
        BY <2>6 DEF Same
  <2> QED BY <2>7, <2>8, <2>9
<1>7. CASE Tick
  <2>1. lane' = [c \in Calls |-> Older(lane[c])]
        BY <1>7 DEF Tick
  <2>2. \A c \in Calls : lane[c] \in Lanes
        BY <1>1
  <2>3. lane' \in [Calls -> Lanes]
        BY <2>1, <2>2, OlderAndOrdered
  <2>4. \A c \in Calls : lane'[c] = Older(lane[c])
        BY <2>1
  <2>5. ASSUME NEW c \in Calls PROVE Same(c)
        BY <2>2, <2>4, OlderAndOrdered, AlikeIsSame
  <2> QED BY <2>3, <2>5
<1>8. CASE ClearStale \/ \E d \in Leaves : Fire(d)
      BY <1>2, <1>8 DEF ClearStale, Fire
<1> QED BY <1>2, <1>4, <1>5, <1>6, <1>7, <1>8

\* A session that stops drops every lane that runs; the others stay.
LEMMA StopMoves ==
    ASSUME TypeOK, StopSession
    PROVE  /\ lane' \in [Calls -> Lanes]
           /\ \A c \in Calls :
                 /\ lane'[c].fate = lane[c].fate
                 /\ Running(c) => /\ lane'[c].step = "done" /\ lane'[c].reply = "none"
                                  /\ c \in spoiled'
                 /\ ~Running(c) => lane'[c] = lane[c]
<1>1. \A c \in Calls : lane[c] \in Lanes
      BY DEF TypeOK
<1>2. lane' = [c \in Calls |-> IF Running(c) THEN Gone(lane[c]) ELSE lane[c]]
      BY DEF StopSession
<1>3. lane' \in [Calls -> Lanes]
      BY <1>1, <1>2, LaneForms
<1>4. ASSUME NEW c \in Calls, Running(c)
      PROVE  /\ lane'[c].step = "done" /\ lane'[c].reply = "none"
             /\ lane'[c].fate = lane[c].fate /\ c \in spoiled'
  <2>1. lane'[c] = Gone(lane[c]) /\ lane[c] \in Lanes
        BY <1>1, <1>2, <1>4
  <2>2. c \in spoiled'
        BY <1>4 DEF StopSession
  <2> QED BY <2>1, <2>2, LaneForms
<1>5. ASSUME NEW c \in Calls, ~Running(c) PROVE lane'[c] = lane[c]
      BY <1>2, <1>5
<1> QED BY <1>3, <1>4, <1>5

\* The lost answer of the lane of c: told of as a failure, or asked again.
LEMMA AnswerLostMoves ==
    ASSUME TypeOK, NEW c \in Calls, AnswerLost(c)
    PROVE  /\ lane' \in [Calls -> Lanes] /\ requests' \subseteq Requests
           /\ lane'[c].step = lane[c].step /\ lane'[c].fate = lane[c].fate
           /\ lane'[c].attempt = lane[c].attempt /\ c \in spoiled'
           /\ \A d \in Calls : d # c => lane'[d] = lane[d]
           /\ \A r \in requests' : r \in requests \/ r.call = c
<1>1. lane[c] \in Lanes /\ lane \in [Calls -> Lanes] /\ requests \subseteq Requests
      BY DEF TypeOK
<1>2. c \in spoiled'
      BY DEF AnswerLost, Fault, Calls, NoCall
<1>3. CASE GoOn(c, lane[c])
      BY <1>1, <1>2, <1>3, GoOnMoves, AskedIsRequest
<1>4. CASE /\ lane' = [lane EXCEPT ![c].reply = "failed", ![c].given = NoLeave]
           /\ UNCHANGED requests
  <2> DEFINE l == [lane[c] EXCEPT !.reply = "failed", !.given = NoLeave]
  <2>1. lane' = [lane EXCEPT ![c] = l]
        BY <1>1, <1>4
  <2>2. l \in Lanes /\ l.step = lane[c].step /\ l.fate = lane[c].fate
        /\ l.attempt = lane[c].attempt
        BY <1>1 DEF Lanes
  <2> HIDE DEF l
  <2> QED BY <1>1, <1>2, <1>4, <2>1, <2>2
<1> QED BY <1>3, <1>4 DEF AnswerLost

\* The call that is joined: the next one, whose lane starts anew.
LEMMA JoinMoves ==
    ASSUME TypeOK, Join
    PROVE  /\ calls' = calls + 1 /\ inCall' = calls + 1 /\ calls + 1 \in Calls
           /\ [NoLane EXCEPT !.step = "schedule"] \in Lanes
           /\ [NoLane EXCEPT !.step = "schedule"].step = "schedule"
           /\ [NoLane EXCEPT !.step = "schedule"].fate = "none"
           /\ GoOn(calls + 1, [NoLane EXCEPT !.step = "schedule"])
<1>1. calls + 1 \in Calls
      BY Constants DEF Join, TypeOK, Calls
<1>2. "schedule" \in Steps
      BY AskingSteps DEF Steps
<1>3. /\ [NoLane EXCEPT !.step = "schedule"] \in Lanes
      /\ [NoLane EXCEPT !.step = "schedule"].step = "schedule"
      BY <1>2, NoLaneIsLane DEF Lanes
<1>4. [NoLane EXCEPT !.step = "schedule"].fate = "none"
      BY DEF NoLane
<1> QED BY <1>1, <1>3, <1>4 DEF Join

-----------------------------------------------------------------------------
\* The membership, the delayed leaves and what Calls holds.
OtherTypes ==
    /\ member \in Memberships
    /\ armed \in [Leaves -> 0..NotArmed]
    /\ inCall \in Askers /\ calls \in 0..MaxCalls /\ heard \in BOOLEAN
    /\ failed \in Askers /\ checked \in BOOLEAN
    /\ inbox \in Seq([call: Calls, what: {"joined", "failed"}])
    /\ spoiled \subseteq Calls

\* The types of everything but lanes and requests are kept by every step.
LEMMA OtherTypesStep ==
    ASSUME TypeInv, [Next]_vars
    PROVE  OtherTypes'
<1> USE DEF TypeInv, TypeOK, OtherTypes
<1>1. CASE UNCHANGED vars
      BY <1>1 DEF vars, server, core, budgets
<1>2. ASSUME NEW c \in Calls,
             LaneStep(c) \/ LeaveWhileKeeping(c) \/ BeginRefresh(c) \/ RetellIntent(c)
      PROVE  OtherTypes'
  <2>1. PICK l \in Lanes : Shape(c, l)
        BY <1>2, StepShape
  <2>2. /\ UNCHANGED <<server, inCall, calls, heard, failed, checked>>
        /\ spoiled' \subseteq spoiled \cup {c}
        BY <2>1 DEF Shape
  <2>3. inbox' = inbox \/ \E what \in {"joined", "failed"} :
                             inbox' = Append(inbox, [call |-> c, what |-> what])
        BY <2>1 DEF Shape
  <2>4. \A what \in {"joined", "failed"} :
           [call |-> c, what |-> what] \in [call: Calls, what: {"joined", "failed"}]
        OBVIOUS
  <2>5. inbox' \in Seq([call: Calls, what: {"joined", "failed"}])
    <3> DEFINE E == [call: Calls, what: {"joined", "failed"}]
    <3>1. inbox \in Seq(E)
          OBVIOUS
    <3>2. inbox' = inbox \/ \E e \in E : inbox' = Append(inbox, e)
          BY <2>3, <2>4
    <3> HIDE DEF E
    <3>3. inbox' \in Seq(E)
          BY <3>1, <3>2, AppendProperties
    <3> QED BY <3>3 DEF E
  <2> QED BY <2>2, <2>5 DEF server
<1>3. ASSUME NEW c \in Calls, AnswerLost(c) PROVE OtherTypes'
      BY <1>3 DEF AnswerLost, Fault, server, core
<1>4. ASSUME NEW r \in requests, Process(r) \/ RequestFails(r) PROVE OtherTypes'
  <2>1. r.call \in Askers
        BY DEF Requests
  <2>2. spoiled' \subseteq Calls
        BY <1>4, <2>1 DEF Process, RequestFails, Fault, Askers, NoCall
  <2>3. UNCHANGED core
        BY <1>4 DEF Process, RequestFails, Fault
  <2> QED BY <1>4, <2>2, <2>3, ServerTypes DEF core
<1>5. CASE \E d \in Leaves : Fire(d)
  <2>1. NotArmed \in 0..NotArmed
        BY Constants DEF NotArmed
  <2> QED BY <1>5, <2>1 DEF Fire, core, Memberships
<1>6. CASE \E intent \in Intents : ChangeIntent(intent)
      BY <1>6 DEF ChangeIntent, server, core
<1>7. CASE Join
  <2>1. calls' \in 0..MaxCalls /\ inCall' \in Askers /\ failed' \in Askers
    <3>1. TypeOK /\ calls' = calls + 1 /\ inCall' = calls + 1 /\ calls + 1 \in Calls
          BY <1>7, JoinMoves
    <3> HIDE DEF TypeInv, TypeOK
    <3> QED BY <1>7, <3>1, Constants DEF Join, Askers, Calls, NoCall
  <2> QED BY <1>7, <2>1 DEF Join, server
<1>8. CASE LeaveCall
      BY <1>8 DEF LeaveCall, server, Askers, NoCall
<1>9. CASE LaneEvent
  <2>1. inbox' \in Seq([call: Calls, what: {"joined", "failed"}])
        BY <1>9, HeadTailProperties DEF LaneEvent
  <2>2. inCall' \in Askers /\ failed' \in Askers /\ heard' \in BOOLEAN
        BY <1>9 DEF LaneEvent, Askers, NoCall
  <2> QED BY <1>9, <2>1, <2>2 DEF LaneEvent, server
<1>10. CASE StopSession
      BY <1>10 DEF StopSession, server, Askers, NoCall
<1>11. CASE ClearStale
      BY <1>11 DEF ClearStale, server
<1>12. CASE Tick
  <2>1. \A n \in 0..NotArmed : Up(n, LeaveDelay) \in 0..NotArmed
        BY Constants DEF Up, NotArmed
  <2>2. NotArmed \in 0..NotArmed
        BY Constants DEF NotArmed
  <2>3. armed' \in [Leaves -> 0..NotArmed]
        BY <1>12, <2>1, <2>2 DEF Tick
  <2> QED BY <1>12, <2>3 DEF Tick, core
<1> QED BY <1>1, <1>2, <1>3, <1>4, <1>5, <1>6, <1>7, <1>8, <1>9, <1>10, <1>11, <1>12 DEF Next

\* Lanes and requests keep their types, and whoever tries again has an attempt.
LaneTypes == lane \in [Calls -> Lanes] /\ requests \subseteq Requests /\ AttemptInv

\* Every step keeps the types of the lanes and of the requests.
LEMMA LaneTypesStep ==
    ASSUME TypeInv, [Next]_vars
    PROVE  LaneTypes'
<1> USE DEF LaneTypes, AttemptInv
<1>0. TypeOK /\ requests \subseteq Requests
      BY DEF TypeInv, TypeOK
<1>1. ASSUME lane' \in [Calls -> Lanes], requests' \subseteq Requests, \A c \in Calls : Same(c)
      PROVE  LaneTypes'
      BY <1>1 DEF TypeInv, Same
<1>2. ASSUME NEW c \in Calls,
             LaneStep(c) \/ LeaveWhileKeeping(c) \/ BeginRefresh(c) \/ RetellIntent(c)
      PROVE  LaneTypes'
  <2>1. PICK l \in Lanes : Shape(c, l)
        BY <1>2, StepShape
  <2>2. GoOn(c, l) /\ (l.step = "retry" => l.attempt < JoinAttempts)
        BY <2>1 DEF Shape
  <2> QED BY <1>0, <2>2, GoOnMoves DEF TypeInv
<1>3. ASSUME NEW c \in Calls, AnswerLost(c) PROVE LaneTypes'
      BY <1>0, <1>3, AnswerLostMoves DEF TypeInv
<1>4. ASSUME NEW r \in requests, Process(r) \/ RequestFails(r) PROVE LaneTypes'
  <2>1. PICK reply \in {"ok", "failed", "gone", "refused"}, given \in Leaves \cup {NoLeave} :
           Answer(r, reply, given)
        BY <1>0, <1>4, ProcessAnswers
  <2> QED BY <1>0, <2>1, AnswerMoves DEF TypeInv
<1>5. CASE Join
      BY <1>0, <1>5, JoinMoves, GoOnMoves DEF TypeInv
<1>6. CASE StopSession
      BY <1>0, <1>6, StopMoves DEF TypeInv, StopSession
<1>7. CASE ClearStale
  <2>1. [kind |-> "clear", call |-> NoCall, intent |-> AnIntent, leave |-> NoLeave] \in Requests
        BY Constants DEF Requests, Kinds, Askers
  <2>2. requests' \subseteq Requests
        BY <1>0, <1>7, <2>1 DEF ClearStale
  <2> QED BY <1>0, <1>1, <1>7, <2>2, TheseAreSame
<1>8. CASE \/ LeaveCall \/ LaneEvent \/ Tick
           \/ \E intent \in Intents : ChangeIntent(intent)
           \/ \E d \in Leaves : Fire(d)
           \/ UNCHANGED vars
  <2>1. UNCHANGED requests
        BY <1>8 DEF LeaveCall, LaneEvent, Tick, ChangeIntent, Fire, vars
  <2>2. lane' \in [Calls -> Lanes] /\ \A c \in Calls : Same(c)
        BY <1>0, <1>8, TheseAreSame DEF vars
  <2> QED BY <1>0, <1>1, <2>1, <2>2
<1> QED BY <1>2, <1>3, <1>4, <1>5, <1>6, <1>7, <1>8 DEF Next

\* The types hold at first and after every step.
LEMMA TypeStep ==
    ASSUME TypeInv, [Next]_vars
    PROVE  TypeInv'
  BY LaneTypesStep, OtherTypesStep DEF LaneTypes, OtherTypes, TypeInv, TypeOK

\* At first nothing is held and nothing was asked.
LEMMA TypeInit ==
    ASSUME Init
    PROVE  TypeInv
<1>1. member \in Memberships
      BY Constants DEF Init, Memberships, Askers, NoCall
<1>2. armed \in [Leaves -> 0..NotArmed]
      BY Constants DEF Init, NotArmed
<1>3. lane \in [Calls -> Lanes] /\ \A c \in Calls : lane[c].step = "none"
      BY NoLaneIsLane DEF Init, NoLane
<1>4. inbox \in Seq([call: Calls, what: {"joined", "failed"}])
      BY DEF Init
<1>5. 0 \in 0..MaxCalls
      BY Constants
<1>6. TypeOK
      BY <1>1, <1>2, <1>3, <1>4, <1>5 DEF Init, TypeOK, Askers, NoCall
<1> QED BY <1>3, <1>6 DEF TypeInv, AttemptInv

\* TypeOK holds always: no lane counts past JOIN_ATTEMPTS, no age past the delay.
THEOREM TypeCorrect == Spec => []TypeOK
<1>1. TypeInv => TypeOK
      BY DEF TypeInv
<1> QED BY <1>1, TypeInit, TypeStep, PTL DEF Spec

-----------------------------------------------------------------------------
(* Calls that were not started *)

\* What was not started stays as it is.
LEMMA NewCallsStep ==
    ASSUME TypeInv, NewCallsInv, [Next]_vars
    PROVE  NewCallsInv'
<1>0. /\ TypeOK /\ calls \in Nat /\ inCall \in Nat /\ failed \in Nat /\ spoiled \subseteq Calls
      /\ requests \subseteq Requests /\ Calls \subseteq Nat
      BY Constants DEF TypeInv, TypeOK, Askers, Calls, NoCall
<1>1. \A r \in requests : r.call \in Nat
  <2>1. \A r \in requests : r.call \in Askers
        BY <1>0 DEF Requests
  <2>2. Askers \subseteq Nat
        BY <1>0 DEF Askers, NoCall
  <2> QED BY <2>1, <2>2
<1> USE DEF NewCallsInv
<1>2. ASSUME NEW c \in Calls,
             LaneStep(c) \/ LeaveWhileKeeping(c) \/ BeginRefresh(c) \/ RetellIntent(c)
      PROVE  NewCallsInv'
  <2>1. PICK l \in Lanes : Shape(c, l)
        BY <1>2, StepShape
  <2>2. /\ GoOn(c, l) /\ UNCHANGED <<inCall, calls, failed>> /\ spoiled' \subseteq spoiled \cup {c}
        /\ lane[c].step # "none"
        BY <2>1 DEF Shape
  <2>3. c <= calls
        BY <1>0, <2>2
  <2>4. /\ \A d \in Calls : d # c => lane'[d] = lane[d]
        /\ \A r \in requests' : r \in requests \/ (l.step \in Asking /\ r = Asked(c, l))
        BY <1>0, <2>2, GoOnMoves
  <2>5. \A r \in requests' : r.call <= calls
        BY <2>3, <2>4, AskedIsRequest
  <2>6. \A d \in Calls : d > calls => d # c
        BY <1>0, <2>3
  <2> QED BY <2>2, <2>4, <2>5, <2>6
<1>3. ASSUME NEW c \in Calls, AnswerLost(c) PROVE NewCallsInv'
  <2>1. UNCHANGED <<inCall, calls, failed>> /\ spoiled' \subseteq spoiled \cup {c}
        /\ lane[c].reply = "ok"
        BY <1>3 DEF AnswerLost, Fault, core
  <2>2. c <= calls
        BY <1>0, <2>1
  <2>3. \A d \in Calls : d > calls => d # c
        BY <1>0, <2>2
  <2> QED BY <1>0, <1>3, <2>1, <2>2, <2>3, AnswerLostMoves
<1>4. ASSUME NEW r \in requests, Process(r) \/ RequestFails(r) PROVE NewCallsInv'
  <2>1. PICK reply \in {"ok", "failed", "gone", "refused"}, given \in Leaves \cup {NoLeave} :
           Answer(r, reply, given)
        BY <1>0, <1>4, ProcessAnswers
  <2>2. /\ requests' \subseteq requests
        /\ \A c \in Calls :
              /\ lane'[c].step = lane[c].step
              /\ lane'[c].reply = lane[c].reply \/ (Awaited(r) /\ r.call = c)
        BY <1>0, <2>1, AnswerMoves
  <2>3. UNCHANGED <<inCall, calls, failed>> /\ spoiled' \subseteq spoiled \cup {r.call}
        BY <1>4 DEF Process, RequestFails, Fault, core
  <2>4. r.call <= calls
        OBVIOUS
  <2>5. \A c \in Calls : c > calls => r.call # c
        BY <1>0, <1>1, <2>4
  <2> QED BY <2>2, <2>3, <2>5
<1>5. CASE Join
  <2>1. /\ calls' = calls + 1 /\ inCall' = calls + 1 /\ failed' = NoCall /\ UNCHANGED spoiled
        BY <1>5 DEF Join
  <2>2. /\ \A d \in Calls : d # calls + 1 => lane'[d] = lane[d]
        /\ \A r \in requests' : r \in requests \/ r.call = calls + 1
        BY <1>0, <1>5, JoinMoves, GoOnMoves, AskedIsRequest
  <2>3. \A d \in Calls : d > calls + 1 => d > calls /\ d # calls + 1
        BY <1>0
  <2>4. \A r \in requests' : r.call <= calls'
        BY <1>0, <1>1, <2>1, <2>2
  <2> QED BY <1>0, <2>1, <2>2, <2>3, <2>4 DEF NoCall
<1>6. CASE StopSession
  <2>1. /\ UNCHANGED <<requests, calls>> /\ inCall' = NoCall /\ failed' = NoCall
        /\ spoiled' = spoiled \cup {c \in Calls : Running(c)}
        BY <1>6 DEF StopSession
  <2>2. \A c \in Calls : c > calls => ~Running(c)
        BY DEF Running
  <2>3. \A c \in Calls : ~Running(c) => lane'[c] = lane[c]
        BY <1>0, <1>6, StopMoves
  <2> QED BY <1>0, <2>1, <2>2, <2>3 DEF NoCall
<1>7. CASE \/ ClearStale \/ LeaveCall \/ LaneEvent \/ Tick
           \/ \E intent \in Intents : ChangeIntent(intent)
           \/ \E d \in Leaves : Fire(d)
           \/ UNCHANGED vars
  <2>1. \A c \in Calls : Same(c)
        BY <1>0, <1>7, TheseAreSame DEF vars
  <2>2. UNCHANGED <<calls, spoiled>>
        BY <1>7 DEF ClearStale, LeaveCall, LaneEvent, Tick, ChangeIntent, Fire, vars, core
  <2>3. /\ inCall' \in {inCall, NoCall} /\ failed' \in {failed, inCall}
        BY <1>7 DEF ClearStale, LeaveCall, LaneEvent, Tick, ChangeIntent, Fire, vars, core
  <2>4. \A r \in requests' : r \in requests \/ r.call = NoCall
        BY <1>7 DEF ClearStale, LeaveCall, LaneEvent, Tick, ChangeIntent, Fire, vars
  <2> QED BY <1>0, <2>1, <2>2, <2>3, <2>4 DEF Same, NoCall
<1> QED BY <1>2, <1>3, <1>4, <1>5, <1>6, <1>7 DEF Next

-----------------------------------------------------------------------------
(* The requests of a call, and its membership *)

\* Who processes a request makes its caller a member only by its membership.
LEMMA MemberByRequest ==
    ASSUME NEW r \in requests, Process(r) \/ RequestFails(r)
    PROVE  \/ member' = member \/ member' = Cleared
           \/ r.kind = "membership" /\ member' = <<r.call, r.intent>>
  BY DEF Process, RequestFails, Fault, server

\* A call keeps to be faultless when its lane and its requests are as they were.
LEMMA FaultlessKept ==
    ASSUME NEW c \in Calls, Faultless(c), Same(c),
           \A r \in requests' : r.call = c => r \in requests,
           IsMember(c)' => IsMember(c)
    PROVE  Faultless(c)'
  BY DEF Faultless, Same, Unanswered

\* A step of its own lane leaves a faultless call faultless.
LEMMA FaultlessMoves ==
    ASSUME TypeOK, NEW c \in Calls, Faultless(c), NEW l \in Lanes, Shape(c, l),
           c \notin spoiled'
    PROVE  Faultless(c)'
<1>1. GoOn(c, l) /\ UNCHANGED member
      BY DEF Shape, server
<1>2. /\ lane'[c].step = l.step /\ lane'[c].reply = "none" /\ Asked(c, lane'[c]) = Asked(c, l)
      /\ \A r \in requests' : r \in requests \/ (l.step \in Asking /\ r = Asked(c, l))
      BY <1>1, GoOnMoves
<1>3. \A r \in requests : r.call # c
      BY DEF Shape, Faultless, Unanswered
<1>4. \A r \in requests' : r.call = c => Unanswered(c, r)'
      BY <1>2, <1>3 DEF Unanswered
<1>5. l.step = "done" => ~IsMember(c)
      BY DEF Shape, Faultless
<1>6. l.step = "done" => ~IsMember(c)'
      BY <1>1, <1>5 DEF IsMember
<1> QED BY <1>2, <1>4, <1>6 DEF Faultless

\* A request that is processed leaves a faultless call faultless: its own one
\* is answered, and one of another call says nothing of it.
LEMMA FaultlessAnswered ==
    ASSUME TypeOK, NEW c \in Calls, Faultless(c), NEW r \in requests,
           Process(r) \/ RequestFails(r), c \notin spoiled'
    PROVE  Faultless(c)'
<1>1. PICK reply \in {"ok", "failed", "gone", "refused"}, given \in Leaves \cup {NoLeave} :
         /\ Answer(r, reply, given)
         /\ reply = "ok" \/ r.kind # "clear" \/ RequestFails(r)
         /\ r.kind \in {"leave", "clear"} /\ reply = "ok" => member' = Cleared
      BY ProcessAnswers
<1>2. /\ requests' = requests \ {r}
      /\ lane'[c].step = lane[c].step /\ Asked(c, lane'[c]) = Asked(c, lane[c])
      /\ lane'[c].reply = lane[c].reply
         \/ (lane'[c].reply = reply /\ Awaited(r) /\ r.call = c)
      BY <1>1, AnswerMoves
<1>3. r.call # c \/ ~RequestFails(r)
      BY DEF RequestFails, Fault, NoCall, Calls
<1>4. CASE r.call # c
  <2>1. IsMember(c)' => IsMember(c)
        BY <1>4, MemberByRequest DEF IsMember, Cleared
  <2> QED BY <1>2, <1>4, <2>1 DEF Faultless, Unanswered
<1>5. CASE r.call = c
  <2>1. Unanswered(c, r)
        BY <1>5 DEF Faultless
  <2>2. lane[c].step \in Asking /\ r.kind = Asks[lane[c].step]
        BY <2>1 DEF Unanswered, Asked
  <2>3. \A q \in requests' : q.call # c
        BY <1>2, <2>1 DEF Faultless, Unanswered
  <2>4. /\ lane[c].step = "clear" => r.kind = "clear"
        /\ lane[c].step = "sendLeave" => r.kind = "leave"
        /\ lane[c].step # "done"
        BY <2>2, AskingSteps DEF Asks
  <2>5. lane'[c].step = "clear" => lane'[c].reply \in {"none", "ok"}
        BY <1>1, <1>2, <1>3, <1>5, <2>4 DEF Faultless
  <2>6. ASSUME lane'[c].step \in {"sendLeave", "clear"}, lane'[c].reply = "ok"
        PROVE  ~IsMember(c)'
    <3>1. reply = "ok" /\ r.kind \in {"leave", "clear"}
          BY <1>2, <2>1, <2>4, <2>6 DEF Unanswered
    <3> QED BY <1>1, <3>1 DEF IsMember
  <2> QED BY <1>2, <2>3, <2>4, <2>5, <2>6 DEF Faultless
<1> QED BY <1>4, <1>5

\* No step takes from a call what it is without a fault.
LEMMA RequestStep ==
    ASSUME TypeInv, NewCallsInv, RequestInv, [Next]_vars
    PROVE  RequestInv'
<1>0. TypeOK /\ calls \in Nat /\ requests \subseteq Requests
      BY DEF TypeInv, TypeOK
<1> SUFFICES ASSUME NEW c \in Calls, c \notin spoiled' PROVE Faultless(c)'
    BY DEF RequestInv
<1>1. ASSUME NEW d \in Calls,
             LaneStep(d) \/ LeaveWhileKeeping(d) \/ BeginRefresh(d) \/ RetellIntent(d)
      PROVE  Faultless(c)'
  <2>1. PICK l \in Lanes : Shape(d, l)
        BY <1>1, StepShape
  <2>2. GoOn(d, l) /\ UNCHANGED member /\ c \notin spoiled
        BY <2>1 DEF Shape, server
  <2>3. Faultless(c)
        BY <2>2 DEF RequestInv
  <2>4. CASE d = c
        BY <1>0, <2>1, <2>3, <2>4, FaultlessMoves
  <2>5. CASE d # c
    <3>1. lane'[c] = lane[c] /\ \A r \in requests' : r.call = c => r \in requests
          BY <1>0, <2>2, <2>5, GoOnMoves, AskedIsRequest
    <3> QED BY <2>2, <2>3, <3>1, FaultlessKept DEF Same, IsMember
  <2> QED BY <2>4, <2>5
<1>2. ASSUME NEW d \in Calls, AnswerLost(d) PROVE Faultless(c)'
  <2>1. c # d /\ lane'[c] = lane[c] /\ \A r \in requests' : r.call = c => r \in requests
        BY <1>0, <1>2, AnswerLostMoves
  <2>2. UNCHANGED member /\ c \notin spoiled
        BY <1>2 DEF AnswerLost, Fault, server
  <2> QED BY <2>1, <2>2, FaultlessKept DEF RequestInv, Same, IsMember
<1>3. ASSUME NEW r \in requests, Process(r) \/ RequestFails(r) PROVE Faultless(c)'
  <2>1. c \notin spoiled
        BY <1>3 DEF Process, RequestFails, Fault
  <2> QED BY <1>0, <1>3, <2>1, FaultlessAnswered DEF RequestInv
<1>4. CASE Join
  <2> DEFINE l == [NoLane EXCEPT !.step = "schedule"]
  <2>1. UNCHANGED <<member, spoiled>> /\ calls + 1 \in Calls /\ l \in Lanes
        /\ l.step = "schedule" /\ GoOn(calls + 1, l)
        BY <1>0, <1>4, JoinMoves DEF Join, server
  <2> HIDE DEF l
  <2>2. /\ lane'[calls + 1].step = "schedule" /\ lane'[calls + 1].reply = "none"
        /\ Asked(calls + 1, lane'[calls + 1]) = Asked(calls + 1, l)
        /\ \A e \in Calls : e # calls + 1 => lane'[e] = lane[e]
        /\ \A r \in requests' : r \in requests \/ (l.step \in Asking /\ r = Asked(calls + 1, l))
        BY <1>0, <2>1, GoOnMoves
  <2>3. Faultless(c)
        BY <2>1 DEF RequestInv
  <2>4. CASE c = calls + 1
    <3>1. \A r \in requests : r.call # c
          BY <1>0, <2>4 DEF NewCallsInv
    <3> QED BY <2>1, <2>2, <2>4, <3>1 DEF Faultless, Unanswered
  <2>5. CASE c # calls + 1
    <3>1. lane'[c] = lane[c] /\ \A r \in requests' : r.call = c => r \in requests
          BY <2>1, <2>2, <2>5, AskedIsRequest
    <3> QED BY <2>1, <2>3, <3>1, FaultlessKept DEF Same, IsMember
  <2> QED BY <2>4, <2>5
<1>5. CASE StopSession
  <2>1. UNCHANGED <<member, requests>> /\ c \notin spoiled
        BY <1>5 DEF StopSession, server
  <2>2. lane'[c] = lane[c]
        BY <1>0, <1>5, StopMoves
  <2> QED BY <2>1, <2>2, FaultlessKept DEF RequestInv, Same, IsMember
<1>6. CASE \/ ClearStale \/ LeaveCall \/ LaneEvent \/ Tick
           \/ \E intent \in Intents : ChangeIntent(intent)
           \/ \E d \in Leaves : Fire(d)
           \/ UNCHANGED vars
  <2>1. Same(c)
        BY <1>0, <1>6, TheseAreSame DEF vars
  <2>2. member' \in {member, Cleared} /\ UNCHANGED spoiled
        BY <1>6 DEF ClearStale, LeaveCall, LaneEvent, Tick, ChangeIntent, Fire, vars, server
  <2>3. \A r \in requests' : r \in requests \/ r.call = NoCall
        BY <1>6 DEF ClearStale, LeaveCall, LaneEvent, Tick, ChangeIntent, Fire, vars
  <2>4. c # NoCall
        BY DEF Calls, NoCall
  <2> QED BY <2>1, <2>2, <2>3, <2>4, FaultlessKept DEF RequestInv, IsMember
<1> QED BY <1>1, <1>2, <1>3, <1>4, <1>5, <1>6 DEF Next

-----------------------------------------------------------------------------
(* What a call became, and what is shown of it *)

\* What is shown stays true when no lane changes its fate.
LEMMA FateKept ==
    ASSUME TypeOK, FateInv, UNCHANGED <<inbox, heard, inCall, failed>>,
           \A c \in Calls : lane'[c].step = lane[c].step /\ lane'[c].fate = lane[c].fate
    PROVE  FateInv'
<1>1. \A i \in 1..Len(inbox) : inbox[i].call \in Calls
  <2>1. \A i \in 1..Len(inbox) : inbox[i] \in [call: Calls, what: {"joined", "failed"}]
        BY ElementOfSeq DEF TypeOK
  <2> QED BY <2>1
<1>2. \A i \in 1..Len(inbox') : EventFate(inbox'[i], lane')
      BY <1>1 DEF FateInv, EventFate
<1>3. (heard => inCall \in Calls) /\ (failed # NoCall => failed \in Calls)
      BY DEF FateInv, TypeOK, Askers
<1> QED BY <1>2, <1>3 DEF FateInv, LaneFate

\* The events of a step of a lane are of what the lane became.
LEMMA FateMoves ==
    ASSUME TypeOK, FateInv, NEW c \in Calls, NEW l \in Lanes, Shape(c, l)
    PROVE  FateInv'
<1>0. /\ \A i \in 1..Len(inbox) : inbox[i] \in [call: Calls, what: {"joined", "failed"}]
      /\ inbox \in Seq([call: Calls, what: {"joined", "failed"}])
      BY ElementOfSeq DEF TypeOK
<1>1. GoOn(c, l) /\ UNCHANGED <<inCall, heard, failed>>
      BY DEF Shape
<1>2. /\ lane'[c].step = l.step /\ lane'[c].fate = l.fate
      /\ \A d \in Calls : d # c => lane'[d] = lane[d]
      BY <1>1, GoOnMoves
<1>3. LaneFate(lane[c])
      BY DEF FateInv
<1>4. \A d \in Calls : LaneFate(lane'[d])
  <2>1. LaneFate(lane'[c])
        BY <1>2, <1>3 DEF LaneFate, Shape
  <2> QED BY <1>2, <2>1 DEF FateInv
<1>5. \A d \in Calls : lane[d].fate # "none" => lane'[d].fate = lane[d].fate
  <2>1. l.fate = lane[c].fate \/ lane[c].fate = "none"
        BY <1>3 DEF Shape, LaneFate, Before
  <2> QED BY <1>2, <2>1
<1>6. \A i \in 1..Len(inbox) : EventFate(inbox[i], lane')
  <2> SUFFICES ASSUME NEW i \in 1..Len(inbox) PROVE EventFate(inbox[i], lane')
      OBVIOUS
  <2>1. inbox[i].call \in Calls /\ EventFate(inbox[i], lane)
        BY <1>0 DEF FateInv
  <2> QED BY <1>5, <2>1 DEF EventFate
<1>7. \A i \in 1..Len(inbox') : EventFate(inbox'[i], lane')
  <2>1. CASE inbox' = inbox
        BY <1>6, <2>1
  <2>2. CASE inbox' = Append(inbox, [call |-> c, what |-> "joined"])
    <3> DEFINE e == [call |-> c, what |-> "joined"]
    <3>1. l.fate = "in" \/ (lane[c].step = "resend" /\ l.fate = lane[c].fate)
          BY <2>2 DEF Shape
    <3>2. lane'[c].fate = "in"
          BY <1>2, <1>3, <3>1 DEF LaneFate, Before, After
    <3>3. EventFate(e, lane')
          BY <3>2 DEF EventFate
    <3>4. /\ Len(inbox') = Len(inbox) + 1 /\ inbox'[Len(inbox) + 1] = e
          /\ \A i \in 1..Len(inbox) : inbox'[i] = inbox[i]
          BY <1>0, <2>2, AppendProperties
    <3> HIDE DEF e
    <3> QED BY <1>0, <1>6, <3>3, <3>4, LenProperties
  <2>3. CASE inbox' = Append(inbox, [call |-> c, what |-> "failed"]) /\ l.fate = "gaveUp"
    <3> DEFINE e == [call |-> c, what |-> "failed"]
    <3>1. EventFate(e, lane')
          BY <1>2, <2>3 DEF EventFate
    <3>2. /\ Len(inbox') = Len(inbox) + 1 /\ inbox'[Len(inbox) + 1] = e
          /\ \A i \in 1..Len(inbox) : inbox'[i] = inbox[i]
          BY <1>0, <2>3, AppendProperties
    <3> HIDE DEF e
    <3> QED BY <1>0, <1>6, <3>1, <3>2, LenProperties
  <2> QED BY <2>1, <2>2, <2>3 DEF Shape
<1>8. (heard => inCall \in Calls) /\ (failed # NoCall => failed \in Calls)
      BY DEF FateInv, TypeOK, Askers
<1>9. heard' => inCall' # NoCall /\ lane'[inCall'].fate = "in"
      BY <1>1, <1>5, <1>8 DEF FateInv
<1>10. failed' # NoCall => lane'[failed'].fate = "gaveUp"
      BY <1>1, <1>5, <1>8 DEF FateInv
<1> QED BY <1>4, <1>7, <1>9, <1>10 DEF FateInv

\* What arrives is of a lane that became what it says.
LEMMA FateArrives ==
    ASSUME TypeOK, FateInv, LaneEvent
    PROVE  FateInv'
<1>1. /\ \A i \in 1..Len(inbox) : inbox[i] \in [call: Calls, what: {"joined", "failed"}]
      /\ inbox \in Seq([call: Calls, what: {"joined", "failed"}]) /\ inbox # <<>>
      BY ElementOfSeq DEF TypeOK, LaneEvent
<1>2. \A c \in Calls : lane'[c].step = lane[c].step /\ lane'[c].fate = lane[c].fate
      BY TheseAreSame DEF Same
<1>3. Head(inbox) = inbox[1] /\ 1 \in 1..Len(inbox)
      BY <1>1, HeadTailProperties, LenProperties, EmptySeq
<1>4. Head(inbox).call \in Calls /\ Head(inbox).what \in {"joined", "failed"}
      /\ EventFate(Head(inbox), lane)
      BY <1>1, <1>3 DEF FateInv
<1>5. \A i \in 1..Len(inbox') : EventFate(inbox'[i], lane')
  <2> SUFFICES ASSUME NEW i \in 1..Len(inbox') PROVE EventFate(inbox'[i], lane')
      OBVIOUS
  <2>1. inbox' = Tail(inbox)
        BY DEF LaneEvent
  <2>2. inbox'[i] = inbox[i + 1] /\ i + 1 \in 1..Len(inbox)
        BY <1>1, <2>1, HeadTailProperties, LenProperties
  <2>3. inbox[i + 1].call \in Calls /\ EventFate(inbox[i + 1], lane)
        BY <1>1, <2>2 DEF FateInv
  <2> QED BY <1>2, <2>2, <2>3 DEF EventFate
<1>6. \A c \in Calls : LaneFate(lane'[c])
      BY <1>2 DEF FateInv, LaneFate
<1>7. (heard => inCall \in Calls) /\ (failed # NoCall => failed \in Calls)
      BY DEF FateInv, TypeOK, Askers
<1>8. heard' => inCall' # NoCall /\ lane'[inCall'].fate = "in"
  <2>1. CASE UNCHANGED <<heard, inCall>>
        BY <1>2, <1>7, <2>1 DEF FateInv
  <2>2. CASE inCall = Head(inbox).call /\ Head(inbox).what = "joined" /\ UNCHANGED inCall
        BY <1>2, <1>4, <2>2 DEF EventFate, Calls, NoCall
  <2>3. CASE ~heard'
        BY <2>3
  <2> QED BY <2>1, <2>2, <2>3 DEF LaneEvent
<1>9. failed' # NoCall => lane'[failed'].fate = "gaveUp"
  <2>1. CASE UNCHANGED failed
        BY <1>2, <1>7, <2>1 DEF FateInv
  <2>2. CASE inCall = Head(inbox).call /\ Head(inbox).what # "joined" /\ failed' = inCall
        BY <1>2, <1>4, <2>2 DEF EventFate
  <2> QED BY <2>1, <2>2 DEF LaneEvent
<1> QED BY <1>5, <1>6, <1>8, <1>9 DEF FateInv

\* The next call: nothing of it is on its way.
LEMMA FateJoins ==
    ASSUME TypeOK, NewCallsInv, FateInv, Join
    PROVE  FateInv'
<1>0. calls \in Nat /\ calls + 1 \in Calls /\ calls + 1 > calls
      BY JoinMoves DEF TypeOK
<1>1. /\ lane'[calls + 1].step = "schedule" /\ lane'[calls + 1].fate = "none"
      /\ \A d \in Calls : d # calls + 1 => lane'[d] = lane[d]
      BY JoinMoves, GoOnMoves
<1>2. /\ UNCHANGED inbox /\ ~heard' /\ failed' = NoCall
      BY DEF Join
<1>3. lane[calls + 1].fate = "none"
      BY <1>0 DEF NewCallsInv, FateInv, LaneFate, Before
<1>4. \A c \in Calls : LaneFate(lane'[c])
      BY <1>1 DEF FateInv, LaneFate, Before, After
<1>5. \A i \in 1..Len(inbox) : EventFate(inbox[i], lane')
  <2> SUFFICES ASSUME NEW i \in 1..Len(inbox) PROVE EventFate(inbox[i], lane')
      OBVIOUS
  <2>1. inbox[i] \in [call: Calls, what: {"joined", "failed"}]
        BY ElementOfSeq DEF TypeOK
  <2>2. inbox[i].call \in Calls /\ EventFate(inbox[i], lane)
        BY <2>1 DEF FateInv
  <2>3. inbox[i].call # calls + 1
        BY <1>3, <2>2 DEF EventFate
  <2> QED BY <1>1, <1>2, <2>2, <2>3 DEF EventFate
<1> QED BY <1>2, <1>4, <1>5 DEF FateInv

\* What Calls shows stays true of the lanes.
LEMMA FateStep ==
    ASSUME TypeInv, NewCallsInv, FateInv, [Next]_vars
    PROVE  FateInv'
<1>0. TypeOK
      BY DEF TypeInv
<1>1. ASSUME NEW c \in Calls,
             LaneStep(c) \/ LeaveWhileKeeping(c) \/ BeginRefresh(c) \/ RetellIntent(c)
      PROVE  FateInv'
      BY <1>0, <1>1, StepShape, FateMoves
<1>2. ASSUME NEW c \in Calls, AnswerLost(c) PROVE FateInv'
  <2>1. UNCHANGED <<inbox, heard, inCall, failed>>
        BY <1>2 DEF AnswerLost, Fault, core
  <2> QED BY <1>0, <1>2, <2>1, AnswerLostMoves, FateKept
<1>3. ASSUME NEW r \in requests, Process(r) \/ RequestFails(r) PROVE FateInv'
  <2>1. UNCHANGED <<inbox, heard, inCall, failed>>
        BY <1>3 DEF Process, RequestFails, Fault, core
  <2>2. PICK reply \in {"ok", "failed", "gone", "refused"}, given \in Leaves \cup {NoLeave} :
           Answer(r, reply, given)
        BY <1>0, <1>3, ProcessAnswers
  <2>3. \A c \in Calls : lane'[c].step = lane[c].step /\ lane'[c].fate = lane[c].fate
        BY <1>0, <2>2, AnswerMoves
  <2> QED BY <1>0, <2>1, <2>3, FateKept
<1>4. CASE Join
      BY <1>0, <1>4, FateJoins
<1>5. CASE LaneEvent
      BY <1>0, <1>5, FateArrives
<1>6. CASE LeaveCall \/ StopSession
  <2>1. UNCHANGED inbox /\ ~heard' /\ failed' \in {failed, NoCall}
        BY <1>6 DEF LeaveCall, StopSession
  <2>2. \A c \in Calls : LaneFate(lane'[c]) /\ lane'[c].fate = lane[c].fate
    <3>1. CASE LeaveCall
      <4>1. \A c \in Calls : lane'[c].step = lane[c].step /\ lane'[c].fate = lane[c].fate
            BY <1>0, <3>1, TheseAreSame DEF Same
      <4> QED BY <4>1 DEF FateInv, LaneFate
    <3>2. CASE StopSession
      <4>1. ASSUME NEW c \in Calls PROVE LaneFate(lane'[c]) /\ lane'[c].fate = lane[c].fate
        <5>1. CASE Running(c)
              BY <1>0, <3>2, <5>1, StopMoves DEF LaneFate, Before, After
        <5>2. CASE ~Running(c)
              BY <1>0, <3>2, <5>2, StopMoves DEF FateInv
        <5> QED BY <5>1, <5>2
      <4> QED BY <4>1
    <3> QED BY <1>6, <3>1, <3>2
  <2>3. \A i \in 1..Len(inbox) : EventFate(inbox[i], lane')
    <3> SUFFICES ASSUME NEW i \in 1..Len(inbox) PROVE EventFate(inbox[i], lane')
        OBVIOUS
    <3>1. inbox[i] \in [call: Calls, what: {"joined", "failed"}]
          BY <1>0, ElementOfSeq DEF TypeOK
    <3>2. inbox[i].call \in Calls /\ EventFate(inbox[i], lane)
          BY <3>1 DEF FateInv
    <3> QED BY <2>1, <2>2, <3>2 DEF EventFate
  <2>4. failed # NoCall => failed \in Calls
        BY <1>0 DEF TypeOK, Askers
  <2>5. failed' # NoCall => lane'[failed'].fate = "gaveUp"
        BY <2>1, <2>2, <2>4 DEF FateInv
  <2> QED BY <2>1, <2>2, <2>3, <2>5 DEF FateInv
<1>7. CASE \/ ClearStale \/ Tick
           \/ \E intent \in Intents : ChangeIntent(intent)
           \/ \E d \in Leaves : Fire(d)
           \/ UNCHANGED vars
  <2>1. UNCHANGED <<inbox, heard, inCall, failed>>
        BY <1>7 DEF ClearStale, Tick, ChangeIntent, Fire, vars, core
  <2>2. \A c \in Calls : lane'[c].step = lane[c].step /\ lane'[c].fate = lane[c].fate
        BY <1>0, <1>7, TheseAreSame DEF Same, vars
  <2> QED BY <1>0, <2>1, <2>2, FateKept
<1> QED BY <1>1, <1>2, <1>3, <1>4, <1>5, <1>6, <1>7 DEF Next

-----------------------------------------------------------------------------
(* The theorems *)

Inv == TypeInv /\ NewCallsInv /\ RequestInv /\ FateInv

\* The invariant holds at first, and every step keeps it.
LEMMA InvInit ==
    ASSUME Init
    PROVE  Inv
<1>1. TypeInv
      BY TypeInit
<1>2. \A c \in Calls : /\ lane[c].step = "none" /\ lane[c].reply = "none"
                       /\ lane[c].fate = "none"
      BY DEF Init, NoLane
<1>3. NewCallsInv
      BY <1>2 DEF Init, NewCallsInv, NoCall
<1>4. RequestInv
      BY <1>2 DEF Init, RequestInv, Faultless
<1>5. FateInv
      BY <1>2 DEF Init, FateInv, LaneFate, Before
<1> QED BY <1>1, <1>3, <1>4, <1>5 DEF Inv

\* The layers, one after the other.
LEMMA InvStep ==
    ASSUME Inv, [Next]_vars
    PROVE  Inv'
  BY TypeStep, NewCallsStep, RequestStep, FateStep DEF Inv

\* LeavesNothingBehind holds always: a call whose lane ended is no member,
\* unless a fault of the homeserver or a stop of the session came between.
THEOREM EndedCallsLeaveNothing == Spec => []LeavesNothingBehind
<1>1. Inv => LeavesNothingBehind
      BY DEF Inv, RequestInv, Faultless, LeavesNothingBehind
<1> QED BY <1>1, InvInit, InvStep, PTL DEF Spec

\* EventsAreOfTheirCall holds always: a late event of a call before is never
\* taken for the call that is joined.
THEOREM EventsStayWithTheirCall == Spec => []EventsAreOfTheirCall
<1>1. Inv => EventsAreOfTheirCall
      BY DEF Inv, FateInv, EventsAreOfTheirCall
<1> QED BY <1>1, InvInit, InvStep, PTL DEF Spec

=============================================================================
