------------------------------- MODULE CallLane -------------------------------
(* The membership of this device in the call of one room of u2dm-client: the  *)
(* task of each call that keeps it (app/calls/lane.rs), the calls that start  *)
(* and end these tasks (app/calls.rs, joining.rs, in_call.rs), and of the     *)
(* homeserver the membership event and the delayed leaves that clear it.      *)
(*                                                                            *)
(* All calls of the device in the room share one state key, so a membership   *)
(* or a leave of one call replaces that of another. A delayed leave fires     *)
(* when it was not restarted for LEAVE_DELAY. A request is unprocessed for    *)
(* any time, then its answer is on its way for any time; either may fail, and *)
(* the SDK may ask again what was already done. A request whose caller was    *)
(* dropped stays and may still be processed.                                  *)
(*                                                                            *)
(* Time is counted in ticks and only as ages. A homeserver that caps the      *)
(* delay, the expiry of a membership after hours, other rooms and the media   *)
(* are not modelled.                                                          *)
EXTENDS Integers, Sequences, FiniteSets

CONSTANTS
    Leaves,       \* delayed leaves the homeserver can hold, and their ids
    NoLeave,      \* the lane has none
    Intents,      \* CallIntent
    LeftBehind,   \* whether an earlier process may have left a membership
    LeaveDelay,   \* LEAVE_DELAY, in ticks
    JoinAttempts, \* JOIN_ATTEMPTS
    MaxCalls,     \* bound: calls joined
    MaxFaults,    \* bound: requests that fail, are refused or are repeated
    MaxToggles,   \* bound: times the intent changes
    MaxStops,     \* bound: times the session stops
    MaxWaiting    \* bound: lane events not handled yet

ASSUME ParametersAssumption ==
    /\ NoLeave \notin Leaves /\ LeftBehind \in BOOLEAN /\ Intents # {}
    /\ LeaveDelay \in Nat \ {0}
    /\ JoinAttempts \in Nat \ {0} /\ MaxWaiting \in Nat \ {0}
    /\ MaxCalls \in Nat /\ MaxFaults \in Nat /\ MaxToggles \in Nat /\ MaxStops \in Nat

VARIABLES
    \* the homeserver: the membership event, the age of each delayed leave
    member, armed,
    \* requests not processed yet, also those nobody waits for
    requests,
    \* the tasks, by call
    lane,
    \* Calls: the call joined, the calls started, what its lane reported,
    \* the call that is shown as failed, stale_checked
    inCall, calls, heard, failed, checked,
    \* lane events on their way
    inbox,
    \* budgets, and history: calls a request of which failed or was dropped
    faults, toggles, stops, spoiled

server == <<member, armed>>
core == <<inCall, calls, heard, failed, checked, inbox>>
budgets == <<faults, toggles, stops>>
vars == <<server, requests, lane, core, budgets, spoiled>>

-----------------------------------------------------------------------------
Calls == 1..MaxCalls
NoCall == 0
\* Whoever asks is a call, or the clearing of what an earlier process left.
Askers == Calls \cup {NoCall}

\* The membership event names its call, or nothing: {} cleared it.
Cleared == <<>>
Memberships == {Cleared} \cup (Askers \X Intents)
IsMember(c) == member # Cleared /\ member[1] = c

NotArmed == LeaveDelay + 1
Kinds == {"schedule", "membership", "restart", "leave", "clear"}
\* What each step of a lane asks the homeserver.
Asks == [schedule |-> "schedule", reschedule |-> "schedule", rejoin |-> "schedule",
         join |-> "membership", resend |-> "membership", refresh |-> "membership",
         retell |-> "membership", restart |-> "restart",
         sendLeave |-> "leave", clear |-> "clear"]
Asking == DOMAIN Asks
Steps == Asking \cup {"none", "retry", "keep", "done"}

Lanes == [step: Steps, leave: Leaves \cup {NoLeave},
          reply: {"none", "ok", "failed", "gone", "refused"},
          given: Leaves \cup {NoLeave},
          attempt: 0..JoinAttempts, wish: Intents, told: Intents,
          age: 0..LeaveDelay, ordered: BOOLEAN, fate: {"none", "in", "gaveUp"}]
Requests == [kind: Kinds, call: Askers, intent: Intents, leave: Leaves \cup {NoLeave}]

AnIntent == CHOOSE i \in Intents : TRUE
NoLane == [step |-> "none", leave |-> NoLeave, reply |-> "none", given |-> NoLeave,
           attempt |-> 0, wish |-> AnIntent, told |-> AnIntent,
           age |-> 0, ordered |-> FALSE, fate |-> "none"]

Running(c) == lane[c].step \notin {"none", "done"}

-----------------------------------------------------------------------------
(* The lane: what it does next, and the request that goes with it *)

Asked(c, l) ==
    LET kind == Asks[l.step]
    IN [kind |-> kind, call |-> c,
        intent |-> IF kind = "membership" THEN l.told ELSE AnIntent,
        leave |-> IF kind \in {"restart", "leave"} THEN l.leave ELSE NoLeave]

GoOn(c, l) ==
    /\ lane' = [lane EXCEPT ![c] = [l EXCEPT !.reply = "none", !.given = NoLeave]]
    /\ requests' = requests \cup
                     (IF l.step \in Asking THEN {Asked(c, l)} ELSE {})

Keep(l) == [l EXCEPT !.step = "keep"]
Good(l) == [l EXCEPT !.age = 0]
\* send_membership says the intent as it is now.
Tell(l, step) == [l EXCEPT !.step = step, !.told = l.wish]
Farewell(l) ==
    [l EXCEPT !.step = IF l.leave = NoLeave THEN "clear" ELSE "sendLeave",
              !.age = 0]
\* A task that ended holds nothing.
Gone(l) == [NoLane EXCEPT !.step = "done", !.ordered = l.ordered, !.fate = l.fate]

Report(c, what) ==
    /\ Len(inbox) < MaxWaiting
    /\ inbox' = Append(inbox, [call |-> c, what |-> what])

Replied(c, step) == lane[c].step = step /\ lane[c].reply # "none"
Said(c, reply) == lane[c].reply = reply

quiet == <<server, core, budgets, spoiled>>
\* Reporting adds to the inbox and nothing else of Calls.
reporting == <<server, inCall, calls, heard, failed, checked, budgets, spoiled>>

\* schedule_leave answered, as the first step, after Gone, or in rejoin.
LeaveScheduled(c) ==
    LET l == [lane[c] EXCEPT !.leave = lane[c].given]
    IN /\ \/ Replied(c, "schedule") /\ GoOn(c, [Tell(l, "join") EXCEPT !.attempt = 1])
          \/ Replied(c, "reschedule") /\ GoOn(c, Good(Keep(l)))
          \/ Replied(c, "rejoin") /\ GoOn(c, Tell(l, "resend"))
       /\ UNCHANGED quiet

\* Mutant of LastAttempt: one attempt too many.
LastAttemptLate(l) == l.attempt > JoinAttempts
LastAttempt(l) == l.attempt = JoinAttempts

\* join: sent, to be tried again, or given up and taken back.
JoinReplied(c) ==
    LET l == lane[c]
    IN /\ Replied(c, "join")
       /\ \/ /\ Said(c, "ok")
             /\ GoOn(c, [Good(Keep(l)) EXCEPT !.fate = "in", !.attempt = 0])
             /\ Report(c, "joined") /\ UNCHANGED reporting
          \/ /\ ~Said(c, "ok") /\ ~LastAttempt(l)
             /\ GoOn(c, [l EXCEPT !.step = "retry"])
             /\ UNCHANGED quiet
          \/ /\ ~Said(c, "ok") /\ LastAttempt(l)
             /\ GoOn(c, [Farewell(l) EXCEPT !.fate = "gaveUp", !.attempt = 0])
             /\ Report(c, "failed") /\ UNCHANGED reporting

JoinAgain(c) ==
    /\ lane[c].step = "retry"
    /\ GoOn(c, [Tell(lane[c], "join") EXCEPT !.attempt = lane[c].attempt + 1])
    /\ UNCHANGED quiet

\* The order to leave while the membership is sent: the call to the homeserver
\* is dropped, its request is not taken back.
LeaveWhileJoining(c) ==
    /\ lane[c].step = "join" /\ lane[c].ordered
    /\ GoOn(c, [Farewell(lane[c]) EXCEPT !.attempt = 0])
    /\ spoiled' = IF Asked(c, lane[c]) \in requests THEN spoiled \cup {c} ELSE spoiled
    /\ UNCHANGED <<server, core, budgets>>

\* Mutant of LeaveWhileKeeping: whatever the round is doing is dropped.
LeaveAtOnce(c) ==
    /\ lane[c].step \in {"keep", "restart", "refresh", "retell"} /\ lane[c].ordered
    /\ GoOn(c, Farewell(lane[c]))
    /\ UNCHANGED quiet
\* Mutant of LeaveWhileKeeping: the order is heard while there is a leave to send.
LeaveByLeaveOnly(c) ==
    /\ lane[c].step = "keep" /\ lane[c].ordered /\ lane[c].leave # NoLeave
    /\ GoOn(c, Farewell(lane[c]))
    /\ UNCHANGED quiet
\* The order to leave is heard between the rounds of the loop.
LeaveWhileKeeping(c) ==
    /\ lane[c].step = "keep" /\ lane[c].ordered
    /\ GoOn(c, Farewell(lane[c]))
    /\ UNCHANGED quiet

\* RESTART_EVERY and the time of a refresh are far from each other: either may
\* come in any round.
BeginRestart(c) ==
    /\ lane[c].step = "keep" /\ lane[c].leave # NoLeave
    /\ GoOn(c, [lane[c] EXCEPT !.step = "restart"])
    /\ UNCHANGED quiet

\* Mutant of BeginRefresh: only a lane without a delayed leave refreshes.
RefreshWithoutLeave(c) ==
    /\ lane[c].step = "keep" /\ lane[c].leave = NoLeave
    /\ GoOn(c, Tell(lane[c], "refresh"))
    /\ UNCHANGED quiet
BeginRefresh(c) ==
    /\ lane[c].step = "keep"
    /\ GoOn(c, Tell(lane[c], "refresh"))
    /\ UNCHANGED quiet

RetellIntent(c) ==
    /\ lane[c].step = "keep" /\ lane[c].wish # lane[c].told
    /\ GoOn(c, Tell(lane[c], "retell"))
    /\ UNCHANGED quiet

\* restart: the delayed leave runs again, or the failure and the time since it
\* last did say what to do.
RestartReplied(c) ==
    LET l == lane[c]
        lapsed == l.age >= LeaveDelay
    IN /\ Replied(c, "restart")
       /\ \/ Said(c, "ok") /\ GoOn(c, Good(Keep(l)))
          \/ /\ Said(c, "refused") /\ lapsed
             /\ GoOn(c, Tell([l EXCEPT !.leave = NoLeave], "resend"))
          \/ /\ (Said(c, "gone") \/ Said(c, "failed")) /\ lapsed
             /\ GoOn(c, [l EXCEPT !.step = "rejoin", !.leave = NoLeave])
          \/ /\ Said(c, "gone") /\ ~lapsed
             /\ GoOn(c, [l EXCEPT !.step = "reschedule", !.leave = NoLeave])
          \/ /\ (Said(c, "refused") \/ Said(c, "failed")) /\ ~lapsed
             /\ GoOn(c, Keep(l))
       /\ UNCHANGED quiet

\* resend_membership, refresh and retell_intent: only the first reports.
MembershipReplied(c) ==
    LET l == lane[c]
    IN \/ /\ Replied(c, "resend")
          /\ GoOn(c, Good(Keep(l)))
          /\ \/ Said(c, "ok") /\ Report(c, "joined") /\ UNCHANGED reporting
             \/ ~Said(c, "ok") /\ UNCHANGED quiet
       \/ /\ Replied(c, "refresh")
          /\ GoOn(c, Keep(l))
          /\ UNCHANGED quiet
       \/ /\ Replied(c, "retell")
          /\ GoOn(c, Keep(l))
          /\ UNCHANGED quiet

\* farewell: through the delayed leave, or by clearing the membership.
FarewellReplied(c) ==
    /\ \/ /\ Replied(c, "sendLeave") /\ ~Said(c, "ok")
          /\ GoOn(c, [lane[c] EXCEPT !.step = "clear", !.leave = NoLeave])
       \/ /\ \/ Replied(c, "sendLeave") /\ Said(c, "ok")
             \/ Replied(c, "clear")
          /\ GoOn(c, Gone(lane[c]))
    /\ UNCHANGED quiet

-----------------------------------------------------------------------------
(* The homeserver *)

\* Whether the lane still waits for this request; a dropped one it does not.
Awaited(r) ==
    /\ r.call # NoCall /\ lane[r.call].step \in Asking
    /\ Asks[lane[r.call].step] = r.kind /\ lane[r.call].reply = "none"

Answer(r, reply, given) ==
    /\ requests' = requests \ {r}
    /\ lane' = IF Awaited(r)
               THEN [lane EXCEPT ![r.call].reply = reply, ![r.call].given = given]
               ELSE lane

InUse(d) ==
    \/ armed[d] # NotArmed
    \/ \E c \in Calls : d \in {lane[c].leave, lane[c].given}
    \/ \E r \in requests : r.leave = d
Free == {d \in Leaves : ~InUse(d)}

\* The request is processed; what its caller hears is on its way from now on.
Process(r) ==
    /\ r \in requests
    /\ \/ /\ r.kind = "schedule" /\ Free # {}
          /\ LET d == CHOOSE d \in Free : TRUE
             IN armed' = [armed EXCEPT ![d] = 0] /\ Answer(r, "ok", d)
          /\ UNCHANGED member
       \/ /\ r.kind = "schedule" /\ Free = {}
          /\ Answer(r, "failed", NoLeave)
          /\ UNCHANGED server
       \/ /\ r.kind = "membership"
          /\ member' = <<r.call, r.intent>>
          /\ Answer(r, "ok", NoLeave)
          /\ UNCHANGED armed
       \/ /\ r.kind = "restart" /\ armed[r.leave] # NotArmed
          /\ armed' = [armed EXCEPT ![r.leave] = 0]
          /\ Answer(r, "ok", NoLeave)
          /\ UNCHANGED member
       \/ /\ r.kind = "leave" /\ armed[r.leave] # NotArmed
          /\ armed' = [armed EXCEPT ![r.leave] = NotArmed]
          /\ member' = Cleared
          /\ Answer(r, "ok", NoLeave)
       \/ /\ r.kind \in {"restart", "leave"} /\ armed[r.leave] = NotArmed
          /\ Answer(r, "gone", NoLeave)
          /\ UNCHANGED server
       \/ /\ r.kind = "clear"
          /\ member' = Cleared
          /\ Answer(r, "ok", NoLeave)
          /\ UNCHANGED armed
    /\ UNCHANGED <<core, budgets, spoiled>>

\* A delayed leave that was not restarted clears the membership, whichever
\* call it is of by now.
Fire(d) ==
    /\ armed[d] = LeaveDelay
    /\ armed' = [armed EXCEPT ![d] = NotArmed]
    /\ member' = Cleared
    /\ UNCHANGED <<requests, lane, core, budgets, spoiled>>

Fault(c) ==
    /\ faults < MaxFaults
    /\ faults' = faults + 1
    /\ spoiled' = spoiled \cup ({c} \ {NoCall})
    /\ UNCHANGED <<server, core, toggles, stops>>

\* A request fails before it is processed; one nobody waits for is just lost.
RequestFails(r) ==
    /\ r \in requests
    /\ Fault(r.call)
    /\ \E reply \in {"failed", "refused"} : Answer(r, reply, NoLeave)

\* The answer is lost: the lane is told of a failure, or the SDK asks again.
AnswerLost(c) ==
    /\ lane[c].reply = "ok"
    /\ Fault(c)
    /\ \/ /\ lane' = [lane EXCEPT ![c].reply = "failed", ![c].given = NoLeave]
          /\ UNCHANGED requests
       \/ GoOn(c, lane[c])

-----------------------------------------------------------------------------
(* Calls *)

Ordered(l) == IF l.step \in {"none", "done"} THEN l ELSE [l EXCEPT !.ordered = TRUE]

\* Calls::join in this room, when no call is joined, with either intent: which
\* one makes no difference.
Join ==
    /\ inCall = NoCall /\ calls < MaxCalls
    /\ calls' = calls + 1 /\ inCall' = calls + 1
    /\ heard' = FALSE /\ failed' = NoCall
    /\ GoOn(calls + 1, [NoLane EXCEPT !.step = "schedule"])
    /\ UNCHANGED <<server, checked, inbox, budgets, spoiled>>

\* leave_call, hang_up, left_room and the failures of the media.
LeaveCall ==
    /\ inCall # NoCall
    /\ inCall' = NoCall /\ heard' = FALSE
    /\ lane' = [lane EXCEPT ![inCall] = Ordered(@)]
    /\ UNCHANGED <<server, requests, calls, failed, checked, inbox, budgets, spoiled>>

\* The camera goes on or off.
ChangeIntent(intent) ==
    /\ inCall # NoCall /\ lane[inCall].step # "done" /\ lane[inCall].wish # intent
    /\ toggles < MaxToggles /\ toggles' = toggles + 1
    /\ lane' = [lane EXCEPT ![inCall].wish = intent]
    /\ UNCHANGED <<server, requests, core, faults, stops, spoiled>>

\* Mutant of LaneEvent: the event is taken for the call that is joined.
LaneEventOfAny ==
    /\ inbox # <<>>
    /\ inbox' = Tail(inbox)
    /\ IF inCall = NoCall THEN UNCHANGED <<lane, inCall, heard, failed>>
       ELSE IF Head(inbox).what = "joined"
       THEN heard' = TRUE /\ UNCHANGED <<lane, inCall, failed>>
       ELSE /\ failed' = inCall /\ inCall' = NoCall /\ heard' = FALSE
            /\ lane' = [lane EXCEPT ![inCall] = Ordered(@)]
    /\ UNCHANGED <<server, requests, calls, checked, budgets, spoiled>>

\* An event of the lane is handled if its call is still the one joined.
LaneEvent ==
    /\ inbox # <<>>
    /\ inbox' = Tail(inbox)
    /\ LET event == Head(inbox)
       IN IF inCall # event.call THEN UNCHANGED <<lane, inCall, heard, failed>>
          ELSE IF event.what = "joined"
          THEN heard' = TRUE /\ UNCHANGED <<lane, inCall, failed>>
          ELSE /\ failed' = inCall /\ inCall' = NoCall /\ heard' = FALSE
               /\ lane' = [lane EXCEPT ![inCall] = Ordered(@)]
    /\ UNCHANGED <<server, requests, calls, checked, budgets, spoiled>>

\* The session stops, or the process: every lane is dropped where it is.
StopSession ==
    /\ stops < MaxStops /\ stops' = stops + 1
    /\ inCall' = NoCall /\ heard' = FALSE /\ failed' = NoCall /\ checked' = FALSE
    /\ lane' = [c \in Calls |-> IF Running(c) THEN Gone(lane[c]) ELSE lane[c]]
    /\ spoiled' = spoiled \cup {c \in Calls : Running(c)}
    /\ UNCHANGED <<server, requests, calls, inbox, faults, toggles>>

\* clear_stale_memberships, once in a session: a membership in a room whose
\* call is not joined here is cleared by a task of its own.
ClearStale ==
    /\ ~checked /\ checked' = TRUE
    /\ requests' = IF member # Cleared /\ inCall = NoCall
                   THEN requests \cup {[kind |-> "clear", call |-> NoCall,
                                        intent |-> AnIntent, leave |-> NoLeave]}
                   ELSE requests
    /\ UNCHANGED <<server, lane, inCall, calls, heard, failed, inbox, budgets, spoiled>>

-----------------------------------------------------------------------------
Up(n, limit) == IF n < limit THEN n + 1 ELSE n
Older(l) ==
    [l EXCEPT !.age = IF l.fate = "in" /\ l.leave # NoLeave /\ l.step \in {"keep", "restart"}
                      THEN Up(@, LeaveDelay) ELSE @]
Tick ==
    /\ armed' = [d \in Leaves |-> IF armed[d] = NotArmed THEN NotArmed
                                  ELSE Up(armed[d], LeaveDelay)]
    /\ lane' = [c \in Calls |-> Older(lane[c])]
    /\ <<armed, lane>>' # <<armed, lane>>
    /\ UNCHANGED <<member, requests, core, budgets, spoiled>>

Init ==
    /\ \/ member = Cleared
       \/ LeftBehind /\ member = <<NoCall, AnIntent>>
    /\ armed = [d \in Leaves |-> NotArmed]
    /\ requests = {}
    /\ lane = [c \in Calls |-> NoLane]
    /\ inCall = NoCall /\ calls = 0 /\ heard = FALSE /\ failed = NoCall
    /\ checked = (member = Cleared) /\ inbox = <<>>
    /\ faults = 0 /\ toggles = 0 /\ stops = 0 /\ spoiled = {}

LaneStep(c) ==
    \/ LeaveScheduled(c) \/ JoinReplied(c) \/ JoinAgain(c)
    \/ RestartReplied(c) \/ MembershipReplied(c) \/ FarewellReplied(c)
    \/ LeaveWhileJoining(c) \/ BeginRestart(c)

Next ==
    \/ \E c \in Calls :
          \/ LaneStep(c)
          \/ LeaveWhileKeeping(c) \/ BeginRefresh(c) \/ RetellIntent(c)
          \/ AnswerLost(c)
    \/ \E r \in requests : Process(r) \/ RequestFails(r)
    \/ \E d \in Leaves : Fire(d)
    \/ \E intent \in Intents : ChangeIntent(intent)
    \/ Join \/ LeaveCall \/ LaneEvent \/ StopSession \/ ClearStale
    \/ Tick

Spec == Init /\ [][Next]_vars

\* Requests are answered, ready tasks are polled and timers of a round go off;
\* select! takes a random branch of those that are ready, so one that is ready
\* again and again is taken. Nothing is asked of how fast time passes.
Fairness ==
    /\ \A c \in Calls :
          /\ WF_vars(LaneStep(c))
          /\ SF_vars(LeaveWhileKeeping(c))
          /\ SF_vars(BeginRefresh(c))
    /\ \A c \in Askers : WF_vars(\E r \in requests : r.call = c /\ Process(r))
    /\ WF_vars(LaneEvent)
FairSpec == Spec /\ Fairness

-----------------------------------------------------------------------------
(* Properties *)

TypeOK ==
    /\ member \in Memberships
    /\ armed \in [Leaves -> 0..NotArmed]
    /\ requests \subseteq Requests
    /\ lane \in [Calls -> Lanes]
    /\ inCall \in Askers /\ calls \in 0..MaxCalls /\ heard \in BOOLEAN
    /\ failed \in Askers /\ checked \in BOOLEAN
    /\ inbox \in Seq([call: Calls, what: {"joined", "failed"}])
    /\ spoiled \subseteq Calls

\* A call whose lane ended has no membership in the room, unless one of its
\* requests failed, or was dropped before the homeserver processed it: what is
\* asked while the call goes on is answered before the farewell begins.
LeavesNothingBehind ==
    \A c \in Calls : lane[c].step = "done" /\ c \notin spoiled => ~IsMember(c)

\* What the interface says of a call is of that call: it is joined only when
\* its own membership was sent, and fails only when its own lane gave up,
\* however late the lane of the call before reports.
EventsAreOfTheirCall ==
    /\ heard => lane[inCall].fate = "in"
    /\ failed # NoCall => lane[failed].fate = "gaveUp"

\* A call that goes on is a member with its intent again and again, although a
\* leave fires while it is restarted, the farewell of the call before or a
\* clearing lands late, or requests fail.
CallComesBack ==
    \A c \in Calls, i \in Intents :
        inCall = c /\ lane[c].wish = i
            ~> (member = <<c, i>> \/ inCall # c \/ lane[c].wish # i)

\* A lane that is ordered to leave ends.
OrderedLanesEnd ==
    \A c \in Calls : lane[c].ordered ~> lane[c].step = "done"

=============================================================================
