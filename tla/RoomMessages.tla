----------------------------- MODULE RoomMessages -----------------------------
(* What the user sends in the rooms of u2dm-client: Submissions               *)
(* (app/submissions.rs), SendLanes (app/send_lanes.rs) and Attachments        *)
(* (app/attachments.rs), as the commands of app/service/messages.rs drive     *)
(* them, composed with the selected room and its window (RoomTimeline).       *)
(*                                                                            *)
(* One actor handles the commands and the inbox one at a time; the tasks of   *)
(* the lanes, the file dialogs and the subscriptions run beside it and report *)
(* through the inbox. A task of a lane waits for the one before it in its     *)
(* room. A message that is refused is kept and offered back while its room is *)
(* selected. An attachment is picked for a room, adopted as the draft when    *)
(* that room is selected, and released when it is no longer of use.           *)
(*                                                                            *)
(* The end of a session is a handler that waits for the tasks: session is     *)
(* "ending" until they are gone. Texts, replies and toasts are not modelled;  *)
(* an enqueue either succeeds or does not. A poll goes the way of a sticker,  *)
(* and so does a deletion, which opens no window.                             *)
EXTENDS RoomTimeline, Queues, SequencesExt

CONSTANTS
    MaxSessions, \* bound: sessions
    MaxPicks,    \* bound: attachments picked
    MaxInputs    \* bound: commands and updates, over all sessions

ASSUME MessagesAssumption ==
    {MaxSessions, MaxPicks, MaxInputs} \subseteq Nat \ {0}

VARIABLES
    \* "running", "ending" while end_session waits for the tasks, "out"
    session,
    \* Submissions: held, issued, and the message the view offers, 0 for none
    held, issued, unsent,
    \* SendLanes: tasks so far, those that have not ended, the last of each room
    spawned, tasks, tails,
    \* Attachments: the draft, the numbers given out, the dialogs still open
    draft, picks, attempts, picking,
    \* history: attachments released, the last task of each room to enqueue
    released, enqueued,
    \* history: messages refused in this session that the user did not dismiss
    owed,
    \* sessions and inputs so far
    sessions, inputs

submissions == <<held, issued, unsent, owed>>
lanes == <<spawned, tasks, tails, enqueued>>
attachments == <<draft, picks, attempts, picking, released>>
bounds == <<sessions, inputs>>
vars == <<timeline, inbox, session, submissions, lanes, attachments, bounds>>

-----------------------------------------------------------------------------
Numbers == 0..MaxInputs

\* A task is numbered in the order of the commands; ahead is the one it waits
\* for, 0 for none. read says that the files of an attachment are in memory.
Tasks ==
    [id : 1..MaxInputs, room : Rooms, ahead : Numbers,
     kind : {"message", "sticker", "attachment"}, n : Numbers,
     pick : 0..MaxPicks, abandoned : BOOLEAN, read : BOOLEAN]

\* What Submissions holds of a message.
Messages == [n : 1..MaxInputs, room : Rooms, refused : BOOLEAN]

\* send is the number of the send in flight, 0 for none.
Drafts == [room : Rooms, pick : 1..MaxPicks, send : Numbers]

Init ==
    /\ TimelineInit
    /\ inbox = <<>>
    /\ session = "running" /\ sessions = 1
    /\ held = <<>> /\ issued = 0 /\ unsent = 0 /\ owed = {}
    /\ spawned = 0 /\ tasks = {} /\ tails = [r \in Rooms |-> 0]
    /\ enqueued = [r \in Rooms |-> 0]
    /\ draft = None /\ picks = 0 /\ attempts = 0 /\ picking = {}
    /\ released = {}
    /\ inputs = 0

\* A command in a running session, which command_allowed asks for.
Command == session = "running" /\ inputs < MaxInputs /\ inputs' = inputs + 1

-----------------------------------------------------------------------------
(* Submissions and lanes *)

\* What the view offers: the first refused message of the selected room.
Offer(h, room) ==
    LET refused == {i \in DOMAIN h : h[i].refused /\ h[i].room = room}
    IN  IF refused = {} THEN 0 ELSE h[Min(refused)].n

\* Mutant of Hold: numbered by its place, which another may have had.
HoldByPlace(r, refused) ==
    /\ issued' = Len(held) + 1
    /\ held' = Append(held, [n |-> Len(held) + 1, room |-> r, refused |-> refused])

Hold(r, refused) ==
    /\ issued' = issued + 1
    /\ held' = Append(held, [n |-> issued + 1, room |-> r, refused |-> refused])

Task(r, kind, n, pick) ==
    [id |-> spawned + 1, room |-> r, ahead |-> tails[r], kind |-> kind,
     n |-> n, pick |-> pick, abandoned |-> FALSE, read |-> FALSE]

\* Mutant of Spawn: the first task of a lane stays its tail.
SpawnBehindFirst(r, kind, n, pick) ==
    /\ spawned' = spawned + 1
    /\ tasks' = tasks \cup {Task(r, kind, n, pick)}
    /\ tails' = IF tails[r] = 0 THEN [tails EXCEPT ![r] = spawned + 1] ELSE tails
    /\ UNCHANGED enqueued

\* The task takes the place of the tail it waits for.
Spawn(r, kind, n, pick) ==
    /\ spawned' = spawned + 1
    /\ tasks' = tasks \cup {Task(r, kind, n, pick)}
    /\ tails' = [tails EXCEPT ![r] = spawned + 1]
    /\ UNCHANGED enqueued

\* Its turn: the task ahead has ended, with or without a result.
Ready(t) == \A u \in tasks : u.id # t.ahead

\* A task ends, and what it says of it: it enqueued, or failed.
Ends(t, ok, said) ==
    /\ tasks' = tasks \ {t}
    /\ enqueued' = IF ok THEN [enqueued EXCEPT ![t.room] = t.id] ELSE enqueued
    /\ inbox' = inbox \o said
    /\ UNCHANGED <<timeline, session, submissions, spawned, tails, attachments, bounds>>

EnqueueMessage(t) ==
    /\ t.kind = "message" /\ Ready(t)
    /\ \E ok \in BOOLEAN :
          Ends(t, ok, <<[kind |-> "settled", n |-> t.n, room |-> t.room, ok |-> ok]>>)

\* It tells the user itself when it fails.
EnqueueSticker(t) ==
    /\ t.kind = "sticker" /\ Ready(t)
    /\ \E ok \in BOOLEAN : Ends(t, ok, <<>>)

\* queue_attachment: the files are read, unless the user gave it up before; once
\* they are, it can no longer be given up.
ReadAttachment(t) ==
    /\ t.kind = "attachment" /\ Ready(t) /\ ~t.read /\ ~t.abandoned
    /\ tasks' = (tasks \ {t}) \cup {[t EXCEPT !.read = TRUE]}
    /\ UNCHANGED <<timeline, inbox, session, submissions, spawned, tails, enqueued,
                   attachments, bounds>>

EnqueueAttachment(t) ==
    /\ t.kind = "attachment" /\ Ready(t)
    /\ \/ /\ t.read
          /\ \E ok \in BOOLEAN :
                Ends(t, ok, <<[kind |-> "handedOff", n |-> t.n, ok |-> ok]>>)
       \/ /\ ~t.read /\ t.abandoned
          /\ Ends(t, FALSE, <<>>)
       \/ /\ ~t.read /\ ~t.abandoned
          /\ Ends(t, FALSE, <<[kind |-> "handedOff", n |-> t.n, ok |-> FALSE]>>)

\* The session ends and the grace is over: abort_stragglers. All are aborted
\* before one behind them gets through an enqueue.
AbortTasks ==
    /\ session = "ending" /\ tasks # {}
    /\ tasks' = {}
    /\ UNCHANGED <<timeline, inbox, session, submissions, spawned, tails, enqueued,
                   attachments, bounds>>

-----------------------------------------------------------------------------
(* Opening and leaving rooms *)

\* Mutant of Cleared: the files of a send in flight are released too.
ClearedAnyway ==
    IF draft # None THEN released \cup {draft.pick} ELSE released

\* What is released when the draft is cleared: nothing while it is sent.
Cleared ==
    IF draft # None /\ draft.send = 0 THEN released \cup {draft.pick} ELSE released

Follow(room) ==
    IF draft # None /\ draft.room # room
    THEN draft' = None /\ released' = Cleared
    ELSE UNCHANGED <<draft, released>>

\* open_room
OpenRoom(r, live) ==
    /\ OpenWindow(r, live)
    /\ Follow(r)
    /\ unsent' = Offer(held, r)

\* select_room: at the read position, or around an event a link names.
SelectRoom(r, live) ==
    /\ Command
    /\ OpenRoom(r, live)
    /\ UNCHANGED <<inbox, session, held, issued, owed, lanes, picks, attempts, picking, sessions>>

JumpToLatest ==
    /\ Command
    /\ ~window.live
    /\ OpenRoom(window.room, TRUE)
    /\ UNCHANGED <<inbox, session, held, issued, owed, lanes, picks, attempts, picking, sessions>>

\* The draft of the room stays: drop_selected_room does not look at it.
DropRoom ==
    /\ Command
    /\ ClearWindow
    /\ unsent' = 0
    /\ UNCHANGED <<inbox, session, held, issued, owed, lanes, attachments, sessions>>

\* return_to_live_for_send: what is sent shows up at the live end. The room
\* stays selected, so a draft stays too.
ReturnToLive(r) ==
    IF ~window.live /\ window.room = r
    THEN OpenWindow(r, TRUE) /\ unsent' = Offer(held', r)
    ELSE UNCHANGED <<timeline, unsent>>

-----------------------------------------------------------------------------
(* Commands that send *)

SendMessage(r) ==
    /\ Command
    /\ Hold(r, FALSE)
    /\ Spawn(r, "message", issued', 0)
    /\ ReturnToLive(r)
    /\ UNCHANGED <<inbox, session, owed, attachments, sessions>>

EditMessage(r) ==
    /\ Command
    /\ Hold(r, FALSE)
    /\ Spawn(r, "message", issued', 0)
    /\ UNCHANGED <<timeline, inbox, session, unsent, owed, attachments, sessions>>

SendSticker(r) ==
    /\ Command
    /\ Spawn(r, "sticker", 0, 0)
    /\ UNCHANGED <<inbox, session, held, issued, owed, attachments, sessions>>
    /\ ReturnToLive(r)

DismissUnsent(n) ==
    /\ Command
    /\ held' = Retain(held, {s \in Messages : s.n # n \/ ~s.refused})
    /\ unsent' = Offer(held', selected)
    /\ owed' = {o \in owed : o.n # n}
    /\ UNCHANGED <<timeline, inbox, session, issued, lanes, attachments, sessions>>

\* The draft before is cleared, and the dialog opens.
PickAttachment(r) ==
    /\ Command
    /\ picks < MaxPicks
    /\ draft' = None /\ released' = Cleared
    /\ picks' = picks + 1
    /\ picking' = picking \cup {[pick |-> picks + 1, room |-> r]}
    /\ UNCHANGED <<timeline, inbox, session, submissions, lanes, attempts, sessions>>

\* The user chose a file, or none that can be read.
PickEnds(p) ==
    /\ picking' = picking \ {p}
    /\ \/ inbox' = Append(inbox, [kind |-> "picked", pick |-> p.pick, room |-> p.room])
       \/ UNCHANGED inbox
    /\ UNCHANGED <<timeline, session, submissions, lanes, draft, picks, attempts,
                   released, bounds>>

SendAttachment(r) ==
    /\ Command
    /\ draft # None /\ draft.send = 0 /\ draft.room = r
    /\ attempts' = attempts + 1
    /\ draft' = [draft EXCEPT !.send = attempts + 1]
    /\ Spawn(r, "attachment", attempts + 1, draft.pick)
    /\ held' = held
    /\ ReturnToLive(r)
    /\ UNCHANGED <<inbox, session, issued, owed, picks, picking, released, sessions>>

\* The files are released at once and the send in flight is told to give up.
CancelAttachment ==
    /\ Command
    /\ draft # None
    /\ draft' = None /\ released' = released \cup {draft.pick}
    /\ tasks' = {IF t.kind = "attachment" /\ t.n = draft.send
                 THEN [t EXCEPT !.abandoned = TRUE] ELSE t : t \in tasks}
    /\ UNCHANGED <<timeline, inbox, session, submissions, spawned, tails, enqueued, picks,
                   attempts, picking, sessions>>

-----------------------------------------------------------------------------
(* What the tasks report *)

\* Mutant of Settle: a refused message is kept for its room only while that is open.
SettleShown(e) ==
    LET stays(s) == s.n # e.n \/ s.refused \/ (~e.ok /\ s.room = selected)
        mark(s) == IF s.n = e.n THEN [s EXCEPT !.refused = TRUE] ELSE s
        kept == SelectSeq(held, stays)
    IN  /\ held' = [i \in DOMAIN kept |-> mark(kept[i])]
        /\ unsent' = IF e.ok THEN unsent ELSE Offer(held', selected)

\* settled: accepted, it goes; refused, it stays and is offered.
Settle(e) ==
    LET awaited == \E i \in DOMAIN held : held[i].n = e.n /\ ~held[i].refused
        mark(s) == IF s.n = e.n THEN [s EXCEPT !.refused = TRUE] ELSE s
    IN  IF awaited
        THEN /\ held' = IF e.ok THEN Retain(held, {s \in Messages : s.n # e.n})
                        ELSE [i \in DOMAIN held |-> mark(held[i])]
             /\ unsent' = IF e.ok THEN unsent ELSE Offer(held', selected)
        ELSE UNCHANGED <<held, unsent>>

HandleSettled(e) ==
    /\ e.kind = "settled"
    /\ Settle(e)
    /\ owed' = IF session = "running" /\ ~e.ok
               THEN owed \cup {[n |-> e.n, room |-> e.room]} ELSE owed
    /\ inbox' = Tail(inbox)
    /\ UNCHANGED <<timeline, session, issued, lanes, attachments, bounds>>

\* An edit the homeserver refused after it was queued; one of a session that
\* ended is dropped.
HandleUnsaved(e) ==
    /\ e.kind = "unsaved"
    /\ IF session = "running"
       THEN /\ Hold(e.room, TRUE)
            /\ unsent' = Offer(held', selected)
            /\ owed' = owed \cup {[n |-> issued', room |-> e.room]}
       ELSE UNCHANGED submissions
    /\ inbox' = Tail(inbox)
    /\ UNCHANGED <<timeline, session, lanes, attachments, bounds>>

\* Mutant of Adopt: the draft is adopted in whatever room is selected.
AdoptAnywhere(e) ==
    IF e.pick # picks
    THEN released' = released \cup {e.pick} /\ UNCHANGED draft
    ELSE draft' = [room |-> e.room, pick |-> e.pick, send |-> 0] /\ UNCHANGED released

Adopt(e) ==
    IF e.pick # picks \/ selected # e.room
    THEN released' = released \cup {e.pick} /\ UNCHANGED draft
    ELSE draft' = [room |-> e.room, pick |-> e.pick, send |-> 0] /\ UNCHANGED released

HandlePicked(e) ==
    /\ e.kind = "picked"
    /\ Adopt(e)
    /\ inbox' = Tail(inbox)
    /\ UNCHANGED <<timeline, session, submissions, lanes, picks, attempts, picking, bounds>>

\* settle of Attachments: only the send the draft waits for counts.
HandleHandedOff(e) ==
    /\ e.kind = "handedOff"
    /\ IF draft # None /\ draft.send = e.n
       THEN IF e.ok
            THEN draft' = None /\ released' = released \cup {draft.pick}
            ELSE draft' = [draft EXCEPT !.send = 0] /\ UNCHANGED released
       ELSE UNCHANGED <<draft, released>>
    /\ inbox' = Tail(inbox)
    /\ UNCHANGED <<timeline, session, submissions, lanes, picks, attempts, picking, bounds>>

HandleUpdate(e) ==
    /\ e.kind \in Updates \ {"toLive", "toEvent"}
    /\ SettleUpdate(e)
    /\ UNCHANGED <<session, submissions, lanes, attachments, bounds>>

\* refocus_timeline
HandleRefocus(e) ==
    /\ e.kind \in {"toLive", "toEvent"}
    /\ inbox' = Tail(inbox)
    /\ IF IsCurrent(e)
       THEN OpenRoom(e.room, e.kind = "toLive")
       ELSE UNCHANGED <<timeline, draft, released, unsent>>
    /\ UNCHANGED <<session, held, issued, owed, lanes, picks, attempts, picking, bounds>>

HandleSignedIn(e) ==
    /\ e.kind = "signedIn"
    /\ session' = "running"
    /\ inbox' = Tail(inbox)
    /\ UNCHANGED <<timeline, submissions, lanes, attachments, bounds>>

Handle ==
    /\ session # "ending" /\ inbox # <<>>
    /\ LET e == Head(inbox)
       IN  \/ HandleSettled(e) \/ HandleUnsaved(e)
           \/ HandlePicked(e) \/ HandleHandedOff(e)
           \/ HandleUpdate(e) \/ HandleRefocus(e)
           \/ HandleSignedIn(e)

-----------------------------------------------------------------------------
(* The end of the session *)

\* Mutant of EndSession: what is still being sent is kept.
EndSessionKeeping ==
    /\ session = "running"
    /\ session' = "ending"
    /\ draft' = None /\ released' = Cleared
    /\ held' = SelectSeq(held, LAMBDA s : ~s.refused) /\ unsent' = 0 /\ owed' = {}
    /\ tails' = [r \in Rooms |-> 0]
    /\ UNCHANGED <<timeline, inbox, issued, spawned, tasks, enqueued, picks, attempts, picking,
                   bounds>>

\* tear_down_session up to shutdown_all_tasks, and the start of its restarts.
EndSession ==
    /\ session = "running"
    /\ session' = "ending"
    /\ draft' = None /\ released' = Cleared
    /\ held' = <<>> /\ unsent' = 0 /\ owed' = {}
    /\ tails' = [r \in Rooms |-> 0]
    /\ UNCHANGED <<timeline, inbox, issued, spawned, tasks, enqueued, picks, attempts, picking,
                   bounds>>

\* Every task has ended or was aborted.
SessionEnded ==
    /\ session = "ending"
    /\ tasks = {} /\ picking = {}
    /\ ForgetWindows
    /\ session' = "out"
    /\ UNCHANGED <<inbox, submissions, lanes, attachments, bounds>>

\* A sign-in reports through the inbox as well, and is the only one until then.
SignIn ==
    /\ session = "out" /\ sessions < MaxSessions
    /\ \A k \in DOMAIN inbox : inbox[k].kind # "signedIn"
    /\ sessions' = sessions + 1
    /\ inbox' = Append(inbox, [kind |-> "signedIn"])
    /\ UNCHANGED <<timeline, session, submissions, lanes, attachments, inputs>>

-----------------------------------------------------------------------------
(* The subscriptions and the window *)

others == <<session, submissions, lanes, attachments, sessions>>

UpdateArrives ==
    /\ inputs < MaxInputs /\ inputs' = inputs + 1
    /\ \E s \in subs : SubscriptionSays(s)
    /\ UNCHANGED others

\* The one thing a cancelled subscription still reports.
EditRefused ==
    /\ inputs < MaxInputs /\ inputs' = inputs + 1
    /\ \E s \in subs : inbox' = Append(inbox, [kind |-> "unsaved", room |-> s.room])
    /\ UNCHANGED <<timeline, others>>

SubscriptionStops ==
    /\ \E s \in subs : SubscriptionEnds(s)
    /\ UNCHANGED <<others, inputs>>

UserMoves ==
    /\ session = "running"
    /\ \/ \E there \in BOOLEAN, below \in 0..MaxNews : ScrollPosition(there, below)
       \/ JumpInWindow
       \/ \E shown \in BOOLEAN : VisibilityChanged(shown)
    /\ UNCHANGED <<others, inputs>>

Commands ==
    \/ \E r \in Rooms :
          \/ \E live \in BOOLEAN : SelectRoom(r, live)
          \/ SendMessage(r) \/ EditMessage(r) \/ SendSticker(r)
          \/ PickAttachment(r) \/ SendAttachment(r)
    \/ JumpToLatest \/ DropRoom \/ CancelAttachment
    \/ \E n \in 1..issued : DismissUnsent(n)

TasksStep ==
    \/ \E t \in tasks :
          \/ EnqueueMessage(t) \/ EnqueueSticker(t)
          \/ ReadAttachment(t) \/ EnqueueAttachment(t)
    \/ AbortTasks
    \/ \E p \in picking : PickEnds(p)

Next ==
    \/ Commands \/ TasksStep \/ Handle
    \/ EndSession \/ SessionEnded \/ SignIn
    \/ UpdateArrives \/ EditRefused \/ SubscriptionStops \/ UserMoves

Spec == Init /\ [][Next]_vars

-----------------------------------------------------------------------------
(* Properties *)

\* Types, and the numbers: no two messages and no two tasks share one.
TypeOK ==
    /\ TimelineTypeOK
    /\ session \in {"running", "ending", "out"} /\ sessions \in 1..MaxSessions
    /\ issued \in Numbers /\ unsent \in 0..issued /\ spawned \in Numbers
    /\ owed \subseteq [n : 1..issued, room : Rooms]
    /\ \A i \in DOMAIN held :
          /\ held[i] \in [n : 1..issued, room : Rooms, refused : BOOLEAN]
          /\ \A j \in DOMAIN held : i < j => held[i].n < held[j].n
    /\ tasks \subseteq Tasks /\ tails \in [Rooms -> 0..spawned]
    /\ \A t, u \in tasks : t.id = u.id => t = u
    /\ draft \in Drafts \cup {None} /\ released \subseteq 1..picks
    /\ picking \subseteq [pick : 1..picks, room : Rooms]
    /\ inputs \in 0..MaxInputs

\* The messages, stickers and attachments of a room are enqueued in the order
\* they were sent, whatever each of them waits for: nothing is still to be
\* enqueued that was sent before something that already is.
EnqueuedInOrder == \A t \in tasks : enqueued[t.room] < t.id

\* A message that is shown as being sent, and an attachment that is, is in the
\* hands of a task or its outcome is on its way: nothing waits for ever.
NothingSentIsForgotten ==
    /\ \A i \in DOMAIN held :
          ~held[i].refused =>
             \/ \E t \in tasks : t.kind = "message" /\ t.n = held[i].n
             \/ \E k \in DOMAIN inbox : inbox[k].kind = "settled" /\ inbox[k].n = held[i].n
    /\ draft # None /\ draft.send # 0 =>
          \/ \E t \in tasks : t.kind = "attachment" /\ t.n = draft.send /\ ~t.abandoned
          \/ \E k \in DOMAIN inbox : inbox[k].kind = "handedOff" /\ inbox[k].n = draft.send

\* What the view offers is the first message of the selected room that was
\* refused and not dismissed, whichever room was selected when it was refused:
\* nothing refused is lost, and none is offered in another room.
RefusedIsOffered ==
    LET here == {o.n : o \in {p \in owed : p.room = selected}}
    IN  unsent = IF here = {} THEN 0 ELSE CHOOSE n \in here : \A m \in here : n <= m

\* The draft is of the room that is selected: an attachment picked in one room
\* cannot be sent to another.
DraftIsOfTheRoomShown == draft # None /\ selected # None => draft.room = selected

\* The files of an attachment are not removed while a send that was not given
\* up has still to read them.
KeptWhileNeeded ==
    \A t \in tasks :
       t.kind = "attachment" /\ ~t.read /\ ~t.abandoned => t.pick \notin released

\* At the bottom of a live window nothing is left to mark read, and nothing is
\* counted as new, except that a receipt waits for the window to be shown or for
\* the read position.
BottomIsRead ==
    window.atBottom =>
       /\ window.news = 0
       /\ window.unread /\ window.live =>
             window.unresolved \/ (window.withheld /\ ~window.visible)

\* An update of another window than the one that is open changes nothing, even
\* one of an earlier session with the same room and number.
UpdatesAreOfTheirWindow ==
    [][(/\ inbox # <<>> /\ ~IsPrefix(inbox, inbox')
        /\ Head(inbox).kind \in Updates /\ Head(inbox).serial # window.serial)
       => UNCHANGED <<window, selected, generation>>]_vars
===============================================================================
