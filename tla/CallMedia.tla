------------------------------ MODULE CallMedia ------------------------------
(* The media of the call that is joined (app/calls/joined.rs, app/calls/      *)
(* media.rs, adapters/livekit). The app plans which media servers the call    *)
(* needs, asks a grant for each, and orders a media session what to connect,  *)
(* to disconnect and to capture. Orders and reports pass each other in two    *)
(* channels; grants, connections, devices and the desktop's picker take their *)
(* own time, and everything the interface shows is what was last reported.    *)
EXTENDS Naturals, Sequences, SequencesExt

CONSTANTS
    Own,        \* the server the user's own homeserver offers
    Others,     \* servers that other members may use
    Budgets     \* the bounds: how often each kind of move is made, per scenario

ASSUME ServersAssumption == Own \notin Others /\ IsFiniteSet(Others)

Moves == {"members", "microphone", "camera", "screen", "refusal", "faults"}
ASSUME BudgetsAssumption == Budgets \subseteq [Moves -> Nat]

Servers == {Own} \cup Others

VARIABLES
    \* the app: Joined
    call,       \* the call is joined, or over
    used,       \* the servers its members use
    links,      \* the state of each server's link, if it has one
    mic, published, camera, screen,   \* what is shown of one's own media
    \* between them
    grants,     \* how many grants are on their way
    commands,   \* MediaCommand, app to session
    events,     \* MediaEvent, session to app
    \* the session: MediaDriver and LiveKitSession
    session,    \* waits for its turn, is open or closed
    wants,      \* MediaWants
    dialling, conns,     \* connections under way, and the ones there are
    track, capture, share,  \* the microphone, the camera, the screen share
    left,       \* what is left of the budget
    hasty       \* history: servers asked for again before the link before was done with

shown == <<mic, published, camera, screen>>
app == <<call, used, links, shown>>
own == <<track, capture, share>>
sfus == <<dialling, conns>>
vars == <<app, grants, commands, events, session, wants, sfus, own, left, hasty>>

Spend(move) == left[move] > 0 /\ left' = [left EXCEPT ![move] = @ - 1]

LinkStates == {"none", "Asking", "Connecting", "Connected", "Reconnecting", "Failed"}
ConnStates == {"none", "fresh", "up", "reconnecting", "dead"}
SfuStates == {"Connecting", "Connected", "Reconnecting", "Disconnected"}
Choosing == {"First", "Replacement"}
Tracks == {"none", "muted", "live", "deaf"}

Order(kind, what) == [kind |-> kind, what |-> what]
Report(kind, what) == [kind |-> kind, what |-> what]
SfuReport(s, state) == [kind |-> "Sfu", what |-> <<s, state>>]

Commands ==
    [kind: {"Connect", "Disconnect"}, what: Servers]
    \cup [kind: {"Microphone", "Camera", "ScreenShare"}, what: BOOLEAN]
Events ==
    [kind: {"Sfu"}, what: Servers \X SfuStates]
    \cup [kind: {"Microphone", "Camera"}, what: {"On", "Failed"}]
    \cup [kind: {"Screen"}, what: {"On", "Off", "Failed", "Unavailable"}]

\* What a call starts with, and what is left when it is over.
NoLinks == [s \in Servers |-> "none"]
NoGrants == [s \in Servers |-> 0]
NoConns == [s \in Servers |-> "none"]

-----------------------------------------------------------------------------
(* The app: links and grants *)

\* The servers that plan names: one's own, to publish to, and the others'.
Targets(members) == {Own} \cup members
GaveUp(s) == s # Own /\ links[s] = "Failed"

Dropped(members) == {s \in Servers \ Targets(members) : links[s] # "none"}
Unlinked(members) == {s \in Targets(members) : links[s] = "none"}
Retried(members) == {s \in Targets(members) : GaveUp(s)}

\* No grant, connection, order or report of a link that a server had is left.
DoneWith(s) ==
    /\ grants[s] = 0 /\ s \notin dialling /\ conns[s] \in {"none", "dead"}
    /\ \A i \in DOMAIN commands :
          commands[i].kind \in {"Connect", "Disconnect"} => commands[i].what # s
    /\ \A i \in DOMAIN events : events[i].kind = "Sfu" => events[i].what[1] # s

\* replan, for the servers that the members use: what nobody uses any more is
\* disconnected, what failed is disconnected and asked for again.
Replan(members) ==
    LET asked == Unlinked(members) \cup Retried(members)
        cut(servers) == [i \in DOMAIN SetToSeq(servers) |->
                            Order("Disconnect", SetToSeq(servers)[i])]
    IN /\ links' = [s \in Servers |->
                       IF s \in Dropped(members) THEN "none"
                       ELSE IF s \in asked THEN "Asking" ELSE links[s]]
       /\ commands' = commands \o cut(Dropped(members)) \o cut(Retried(members))
       /\ grants' = [s \in Servers |-> IF s \in asked THEN grants[s] + 1 ELSE grants[s]]
       /\ hasty' = (hasty \ asked) \cup {s \in asked : ~DoneWith(s)}

\* members_changed
MembersChanged(members) ==
    /\ call = "in" /\ Spend("members")
    /\ used' = members
    /\ Replan(members)
    /\ UNCHANGED <<call, shown, events, session, wants, sfus, own>>

\* end_call and fail: the orders that wait are dropped with the channel, and
\* what is reported or granted later is of a call that is not joined.
EndCall ==
    /\ call' = "over" /\ used' = {} /\ links' = NoLinks
    /\ mic' = "Off" /\ published' = FALSE /\ camera' = "Off" /\ screen' = "Off"
    /\ grants' = NoGrants /\ commands' = <<>> /\ events' = <<>>

LeaveCall ==
    /\ call = "in"
    /\ EndCall
    /\ UNCHANGED <<session, wants, sfus, own, left, hasty>>

\* Mutant of ConnectGranted: the grant is used whatever became of the server.
ConnectGrantedAnyway(s) ==
    /\ links' = [links EXCEPT ![s] = IF @ = "none" THEN @ ELSE "Connecting"]
    /\ commands' = Append(commands, Order("Connect", s))
ConnectGranted(s) ==
    IF links[s] = "none" THEN UNCHANGED <<links, commands>>
    ELSE /\ links' = [links EXCEPT ![s] = "Connecting"]
         /\ commands' = Append(commands, Order("Connect", s))

\* granted: the server may have been dropped since.
Granted(s) ==
    /\ grants[s] > 0
    /\ ConnectGranted(s)
    /\ grants' = [grants EXCEPT ![s] = @ - 1]
    /\ UNCHANGED <<call, used, shown, events, session, wants, sfus, own,
                   left, hasty>>

GrantRefused(s) ==
    /\ grants[s] > 0
    /\ IF s = Own THEN EndCall
       ELSE /\ links' = [links EXCEPT ![s] = IF @ = "none" THEN @ ELSE "Failed"]
            /\ grants' = [grants EXCEPT ![s] = @ - 1]
            /\ UNCHANGED <<call, used, shown, commands, events>>
    /\ UNCHANGED <<session, wants, sfus, own, left, hasty>>

-----------------------------------------------------------------------------
(* The app: the orders of the user *)

UserOrders(device) ==
    /\ call = "in" /\ Spend(device)
    /\ UNCHANGED <<call, used, links, grants, events, session, wants, sfus, own, hasty>>

\* set_microphone: a track that was published once is on at once.
SwitchedMicrophone(on) ==
    IF ~on THEN "Off" ELSE IF published THEN "On" ELSE "Starting"
SetMicrophone(on) ==
    /\ IF on THEN mic \in {"Off", "Failed"} ELSE mic # "Off"
    /\ mic' = SwitchedMicrophone(on)
    /\ commands' = Append(commands, Order("Microphone", on))
    /\ UserOrders("microphone") /\ UNCHANGED <<published, camera, screen>>

SetCamera(on) ==
    /\ IF on THEN camera \in {"Off", "Failed"} ELSE camera # "Off"
    /\ camera' = IF on THEN "Starting" ELSE "Off"
    /\ commands' = Append(commands, Order("Camera", on))
    /\ UserOrders("camera") /\ UNCHANGED <<mic, published, screen>>

SetScreenShare(on) ==
    /\ IF on THEN screen \in {"Off", "Failed"} ELSE screen \in Choosing \cup {"On"}
    /\ screen' = IF on THEN "First" ELSE "Off"
    /\ commands' = Append(commands, Order("ScreenShare", on))
    /\ UserOrders("screen") /\ UNCHANGED <<mic, published, camera>>

\* change_screen_share: the share is stopped, and the desktop asked again.
ChangeScreenShare ==
    /\ screen = "On"
    /\ screen' = "Replacement"
    /\ commands' = commands \o <<Order("ScreenShare", FALSE), Order("ScreenShare", TRUE)>>
    /\ UserOrders("screen") /\ UNCHANGED <<mic, published, camera>>

-----------------------------------------------------------------------------
(* The app: the reports of the session *)

Reported(kind) == call = "in" /\ events # <<>> /\ Head(events).kind = kind
Told == Head(events).what
HandlesReport ==
    /\ events' = Tail(events)
    /\ UNCHANGED <<call, used, grants, session, wants, sfus, own, left, hasty>>

\* Mutant of LinkAfter: the end of a connection is no failure of the link.
LinkAsReported(state) == state
LinkAfter(state) == IF state = "Disconnected" THEN "Failed" ELSE state

\* sfu_state: a call that loses the server it publishes to is over.
SfuReported ==
    /\ Reported("Sfu")
    /\ LET s == Told[1]
           state == Told[2]
       IN IF state = "Disconnected" /\ s = Own /\ links[s] # "none"
          THEN /\ EndCall
               /\ UNCHANGED <<session, wants, sfus, own, left, hasty>>
          ELSE /\ links' = [links EXCEPT ![s] =
                               IF @ = "none" THEN @ ELSE LinkAfter(state)]
               /\ HandlesReport /\ UNCHANGED <<shown, commands>>

\* microphone_reported
MicrophoneReported ==
    /\ Reported("Microphone")
    /\ published' = (published \/ Told = "On")
    /\ mic' = IF Told = "On" /\ mic = "Starting" THEN "On"
              ELSE IF Told = "Failed" /\ mic \in {"Starting", "On"} THEN "Failed"
              ELSE mic
    /\ HandlesReport /\ UNCHANGED <<links, commands, camera, screen>>

\* Mutant of CameraGivesUp: a camera that failed needs no switching off.
CameraFailsQuietly == commands' = commands
CameraGivesUp == commands' = Append(commands, Order("Camera", FALSE))

\* camera_reported: a camera that failed is switched off, in case it is the one
\* before that failed.
CameraReported ==
    /\ Reported("Camera")
    /\ \/ /\ Told = "On"
          /\ camera' = IF camera = "Starting" THEN "On" ELSE camera
          /\ UNCHANGED commands
       \/ /\ Told = "Failed" /\ camera = "Off"
          /\ UNCHANGED <<camera, commands>>
       \/ /\ Told = "Failed" /\ camera # "Off"
          /\ camera' = "Failed"
          /\ CameraGivesUp
    /\ HandlesReport /\ UNCHANGED <<links, mic, published, screen>>

\* Mutant of ScreenAfter: On is taken whenever it arrives.
ScreenAfterAny(report) ==
    CASE report = "Off" -> IF screen = "Unavailable" THEN screen ELSE "Off"
      [] OTHER -> report
ScreenAfter(report) ==
    CASE report = "On" -> IF screen \in Choosing THEN "On" ELSE screen
      [] report = "Off" -> IF screen = "Unavailable" THEN screen ELSE "Off"
      [] OTHER -> report

\* screen_reported: On is taken only while the desktop's dialog is awaited.
ScreenReported ==
    /\ Reported("Screen")
    /\ screen' = ScreenAfter(Told)
    /\ HandlesReport /\ UNCHANGED <<links, commands, mic, published, camera>>

-----------------------------------------------------------------------------
(* The session: its turn, its orders *)

\* What is reported of a call that is over is dropped.
Tell(reports) == events' = IF call = "in" THEN events \o reports ELSE events

SessionMoves == UNCHANGED <<app, grants, left, hasty>>

\* MediaDriver::run: the turn of the media of the call before, then the audio.
Open ==
    /\ session = "waiting" /\ call = "in"
    /\ session' = "open"
    /\ SessionMoves /\ UNCHANGED <<commands, events, wants, sfus, own>>

\* The turn does not come or the audio does not open: MediaFailed.
OpenFails ==
    /\ session = "waiting"
    /\ session' = "closed"
    /\ IF call = "in" THEN EndCall ELSE UNCHANGED <<app, grants, commands, events>>
    /\ UNCHANGED <<wants, sfus, own, left, hasty>>

\* A command is applied while the call goes on; it comes before all else.
Ordered(kind) ==
    session = "open" /\ call = "in" /\ commands # <<>> /\ Head(commands).kind = kind
Wanted == Head(commands).what
Applies == commands' = Tail(commands) /\ SessionMoves /\ UNCHANGED session

\* dial: a second grant for the same server is not used.
Connect ==
    /\ Ordered("Connect")
    /\ IF Wanted \in dialling \/ conns[Wanted] # "none"
       THEN UNCHANGED <<dialling, events>>
       ELSE /\ dialling' = dialling \cup {Wanted}
            /\ Tell(<<SfuReport(Wanted, "Connecting")>>)
    /\ Applies /\ UNCHANGED <<conns, wants, own>>

\* disconnect: the pump may pass on that the room closed before it is aborted.
Disconnect ==
    /\ Ordered("Disconnect")
    /\ dialling' = dialling \ {Wanted}
    /\ conns' = [conns EXCEPT ![Wanted] = "none"]
    /\ \/ UNCHANGED events
       \/ conns[Wanted] \in {"up", "reconnecting"}
          /\ Tell(<<SfuReport(Wanted, "Disconnected")>>)
    /\ Applies /\ UNCHANGED <<wants, own>>

Publishing == conns[Own] # "none"

\* publish_microphone and switch_microphone: what may become of the track, and
\* what is told. The track is muted even when the recording does not stop; the
\* default device may fail, and the recording start all the same (route).
Microphones(on, publishing) ==
    IF track = "none"
    THEN IF on /\ publishing
         THEN {[to |-> "live", told |-> <<Report("Microphone", "On")>>],
               [to |-> "none", told |-> <<Report("Microphone", "Failed")>>]}
         ELSE {[to |-> "none", told |-> <<>>]}
    ELSE IF on
    THEN {[to |-> "live", told |-> <<Report("Microphone", "On")>>],
          [to |-> "live", told |-> <<Report("Microphone", "Failed"), Report("Microphone", "On")>>],
          [to |-> track, told |-> <<Report("Microphone", "Failed")>>]}
    ELSE {[to |-> "muted", told |-> <<>>],
          [to |-> "muted", told |-> <<Report("Microphone", "Failed")>>]}

\* start_camera and stop_camera
Cameras(on, publishing) ==
    IF ~on \/ (~capture /\ ~publishing) THEN {[to |-> FALSE, told |-> <<>>]}
    ELSE IF capture THEN {[to |-> TRUE, told |-> <<>>]}
    ELSE {[to |-> TRUE, told |-> <<Report("Camera", "On")>>],
          [to |-> FALSE, told |-> <<Report("Camera", "Failed")>>]}

\* drive keeps what is wanted for a connection that is not there yet.
Follow(device, on) == [wants EXCEPT ![device] = on]

SwitchMicrophone ==
    /\ Ordered("Microphone")
    /\ wants' = Follow("microphone", Wanted)
    /\ \E m \in Microphones(Wanted, Publishing) : track' = m.to /\ Tell(m.told)
    /\ Applies /\ UNCHANGED <<sfus, capture, share>>

SwitchCamera ==
    /\ Ordered("Camera")
    /\ wants' = Follow("camera", Wanted)
    /\ \E c \in Cameras(Wanted, Publishing) : capture' = c.to /\ Tell(c.told)
    /\ Applies /\ UNCHANGED <<sfus, track, share>>

\* stop_screen waits for the share, which may have got further than the order:
\* published or failed meanwhile, or ended by the desktop.
LastWords ==
    CASE share = "none" -> {<<>>}
      [] share = "choosing" ->
            {<<>>, <<"On">>, <<"On", "Off">>, <<"Off">>, <<"Failed">>}
      [] share = "sharing" -> {<<>>, <<"Off">>}

\* start_screen and stop_screen
SwitchScreen ==
    /\ Ordered("ScreenShare")
    /\ \/ /\ ~Wanted
          /\ share' = "none"
          /\ \E words \in LastWords :
                Tell([i \in DOMAIN words |-> Report("Screen", words[i])])
       \/ /\ Wanted /\ share # "none"
          /\ UNCHANGED <<share, events>>
       \/ /\ Wanted /\ share = "none" /\ Publishing
          /\ share' = "choosing" /\ UNCHANGED events
       \/ /\ Wanted /\ share = "none"
          /\ share' = "none" /\ Tell(<<Report("Screen", "Failed")>>)
    /\ Applies /\ UNCHANGED <<wants, sfus, track, capture>>

\* drive returns as soon as the app has dropped its end, and all is closed.
Close ==
    /\ call = "over" /\ session = "open"
    /\ session' = "closed"
    /\ dialling' = {} /\ conns' = NoConns
    /\ track' = "none" /\ capture' = FALSE /\ share' = "none"
    /\ SessionMoves /\ UNCHANGED <<commands, events, wants>>

-----------------------------------------------------------------------------
(* The session: connections and devices *)

\* What is polled only when no order waits (the select of drive is biased).
Idle == session = "open" /\ call = "in" /\ commands = <<>>

\* next_connected: what is wanted is sent on as soon as it can be published.
Adopt(s) ==
    /\ Idle /\ s \in dialling
    /\ dialling' = dialling \ {s}
    /\ conns' = [conns EXCEPT ![s] = "fresh"]
    /\ \E m \in IF s = Own /\ wants.microphone THEN Microphones(TRUE, TRUE)
                ELSE {[to |-> track, told |-> <<>>]},
          c \in IF s = Own /\ wants.camera THEN Cameras(TRUE, TRUE)
                ELSE {[to |-> capture, told |-> <<>>]} :
          track' = m.to /\ capture' = c.to /\ Tell(m.told \o c.told)
    /\ SessionMoves /\ UNCHANGED <<commands, session, wants, share>>

DialFails(s) ==
    /\ Idle /\ s \in dialling
    /\ dialling' = dialling \ {s}
    /\ Tell(<<SfuReport(s, "Disconnected")>>)
    /\ SessionMoves /\ UNCHANGED <<commands, session, wants, conns, own>>

\* pump_events and what the media server does.
Pump(s, from, to, told) ==
    /\ conns[s] \in from
    /\ conns' = [conns EXCEPT ![s] = to]
    /\ Tell(<<SfuReport(s, told)>>)
    /\ UNCHANGED <<app, grants, commands, session, wants, dialling, own, hasty>>
Fault == Spend("faults")

PumpStarts(s) == Pump(s, {"fresh"}, "up", "Connected") /\ UNCHANGED left
Reconnects(s) == Pump(s, {"reconnecting"}, "up", "Connected") /\ UNCHANGED left
Wavers(s) == Pump(s, {"up"}, "reconnecting", "Reconnecting") /\ Fault
CutOff(s) == Pump(s, {"up", "reconnecting"}, "dead", "Disconnected") /\ Fault

\* A task of the session, or a device, moves on its own.
OnItsOwn == UNCHANGED <<app, grants, commands, session, wants, sfus, hasty>>

\* refresh_devices finds that the microphone in use, and the default after it,
\* cannot be used; later that one can, which nothing is told of.
MicrophoneLost ==
    /\ Idle /\ track = "live" /\ Fault
    /\ track' = "deaf" /\ Tell(<<Report("Microphone", "Failed")>>)
    /\ OnItsOwn /\ UNCHANGED <<capture, share>>
MicrophoneReturns ==
    /\ Idle /\ track = "deaf"
    /\ track' = "live"
    /\ OnItsOwn /\ UNCHANGED <<events, capture, share, left>>

CameraLost ==
    /\ capture /\ Fault
    /\ capture' = FALSE /\ Tell(<<Report("Camera", "Failed")>>)
    /\ OnItsOwn /\ UNCHANGED <<track, share>>

\* share: the user chooses in the desktop's dialog or closes it, the track is
\* published or not, and the desktop may end the share.
ShareGoesOn(from, to, told) ==
    /\ share = from /\ share' = to
    /\ Tell(<<Report("Screen", told)>>)
    /\ OnItsOwn /\ UNCHANGED <<track, capture, left>>
ShareStarts == ShareGoesOn("choosing", "sharing", "On")
ShareFails == \E told \in {"Off", "Failed"} : ShareGoesOn("choosing", "none", told)
ShareEnds == ShareGoesOn("sharing", "none", "Off")

\* tell_screen_refusal: the desktop may answer that it cannot share at all.
SharingRefused ==
    /\ session = "open" /\ Spend("refusal")
    /\ Tell(<<Report("Screen", "Unavailable")>>)
    /\ OnItsOwn /\ UNCHANGED own

-----------------------------------------------------------------------------
(* The specification *)

\* A scenario leaves alone what its budget has no moves for.
Chosen(device) == IF left[device] > 0 THEN {"Starting"} ELSE {}
Used == IF left.members > 0 THEN SUBSET Others ELSE {{}}

\* start: the microphone and the camera as chosen, and the first plan.
Init ==
    /\ left \in Budgets /\ hasty = {}
    /\ call = "in" /\ used \in Used
    /\ mic \in {"Off"} \cup Chosen("microphone") /\ published = FALSE
    /\ camera \in {"Off"} \cup Chosen("camera") /\ screen = "Off"
    /\ commands = <<Order("Microphone", mic = "Starting")>>
                  \o IF camera = "Starting" THEN <<Order("Camera", TRUE)>> ELSE <<>>
    /\ links = [s \in Servers |-> IF s \in Targets(used) THEN "Asking" ELSE "none"]
    /\ grants = [s \in Servers |-> IF s \in Targets(used) THEN 1 ELSE 0]
    /\ events = <<>> /\ session = "waiting"
    /\ wants = [microphone |-> FALSE, camera |-> FALSE]
    /\ dialling = {} /\ conns = NoConns
    /\ track = "none" /\ capture = FALSE /\ share = "none"

AppStep ==
    \/ \E s \in Servers : Granted(s) \/ GrantRefused(s)
    \/ SfuReported \/ MicrophoneReported \/ CameraReported \/ ScreenReported
UserStep ==
    \/ \E on \in BOOLEAN : SetMicrophone(on) \/ SetCamera(on) \/ SetScreenShare(on)
    \/ ChangeScreenShare \/ LeaveCall
    \/ \E members \in SUBSET Others : MembersChanged(members)
SessionStep ==
    \/ Open \/ OpenFails \/ Connect \/ Disconnect \/ SwitchMicrophone \/ SwitchCamera
    \/ SwitchScreen \/ Close
    \/ \E s \in Servers : Adopt(s) \/ DialFails(s)
Surroundings ==
    \/ \E s \in Servers : PumpStarts(s) \/ Reconnects(s) \/ Wavers(s) \/ CutOff(s)
    \/ MicrophoneLost \/ MicrophoneReturns \/ CameraLost
    \/ ShareStarts \/ ShareFails \/ ShareEnds \/ SharingRefused

Next == AppStep \/ UserStep \/ SessionStep \/ Surroundings
Spec == Init /\ [][Next]_vars

-----------------------------------------------------------------------------
(* Properties *)

TypeOK ==
    /\ call \in {"in", "over"} /\ used \subseteq Others
    /\ links \in [Servers -> LinkStates]
    /\ mic \in {"Off", "Starting", "On", "Failed"} /\ published \in BOOLEAN
    /\ camera \in {"Off", "Starting", "On", "Failed"}
    /\ screen \in Choosing \cup {"Off", "On", "Failed", "Unavailable"}
    /\ grants \in [Servers -> Nat]
    /\ commands \in Seq(Commands) /\ events \in Seq(Events)
    /\ session \in {"waiting", "open", "closed"}
    /\ wants \in [microphone: BOOLEAN, camera: BOOLEAN]
    /\ dialling \subseteq Servers /\ conns \in [Servers -> ConnStates]
    /\ track \in Tracks /\ capture \in BOOLEAN /\ share \in {"none", "choosing", "sharing"}
    /\ left \in [Moves -> Nat] /\ hasty \subseteq Servers

\* No server hears of a call that does not use it: one that no member uses any
\* more is, or is about to be, disconnected, however late its grant or its
\* connection came, and a session that is closed holds nothing.
ConnectionsAreWanted ==
    \A s \in Servers :
        s \in dialling \/ conns[s] # "none" =>
            /\ session = "open"
            /\ call = "in" /\ s \notin Targets(used) =>
                Order("Disconnect", s) \in Range(commands)

Settled == session = "open" /\ call = "in" /\ commands = <<>> /\ events = <<>>

\* Once every order is carried out, a microphone that is shown muted is silent
\* and a camera that is shown off, or failed, captures nothing, and neither is
\* published by a connection that comes later.
OffIsOff ==
    session = "open" /\ call = "in" /\ commands = <<>> =>
        /\ mic = "Off" => ~wants.microphone /\ track \in {"none", "muted"}
        /\ camera \in {"Off", "Failed"} => ~wants.camera /\ ~capture

\* Once every order is carried out and every report heard, what is shown to be
\* on is on, and what is shown to be under way is under way. A server asked
\* for again before the link before was done with is left out: a report of the
\* connection before, or the grant before, is taken for the new link's.
ShownIsSo ==
    Settled =>
        /\ \A s \in Servers \ hasty :
              /\ links[s] = "Asking" => grants[s] > 0
              /\ links[s] = "Connecting" =>
                  grants[s] > 0 \/ s \in dialling \/ conns[s] = "fresh"
              /\ links[s] = "Connected" => grants[s] > 0 \/ conns[s] = "up"
              /\ links[s] = "Reconnecting" => grants[s] > 0 \/ conns[s] = "reconnecting"
              /\ links[s] = "Failed" => s # Own /\ conns[s] \in {"none", "dead"}
        /\ mic = "Starting" \/ camera = "Starting" => ~Publishing
        /\ mic = "On" => track = "live"
        /\ camera = "On" => capture
        /\ screen \in Choosing \cup {"On"} => share # "none"

=============================================================================
