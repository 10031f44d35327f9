----------------------------- MODULE RoomTimeline -----------------------------
(* The timeline of the selected room of u2dm-client: ActiveTimeline           *)
(* (app/active_timeline.rs), the selection it follows (app/selection.rs,      *)
(* app/service/navigation.rs) and the subscription that feeds it through its  *)
(* Forwarder and the inbox of the app.                                        *)
(*                                                                            *)
(* Every opening of a room, a refocus included, cancels the subscription of   *)
(* the window before, which may still have updates in the inbox or on their   *)
(* way; an update names the room and the generation it was sent for. The      *)
(* module holds state and steps; RoomMessages composes them with what is sent *)
(* in the rooms and gives the next-state relation.                            *)
(*                                                                            *)
(* Rows, patches, the pages of older history and what a jump looks for are    *)
(* not modelled: an update is what it says of the read position. The new      *)
(* messages are counted up to MaxNews.                                        *)
EXTENDS Integers, Sequences, FiniteSets

CONSTANTS
    Rooms,
    None,       \* no room, no draft
    MaxNews,    \* bound: new messages counted
    MaxWindows, \* bound: windows opened and cleared, over all sessions
    MaxInbox    \* bound: inputs in the inbox when an update is sent

ASSUME RoomsAssumption ==
    /\ Rooms # {} /\ None \notin Rooms
    /\ MaxNews \in Nat /\ MaxWindows \in Nat \ {0} /\ MaxInbox \in Nat \ {0}

VARIABLES
    \* Selection: the room, and the number of the latest window of this session
    selected, generation,
    \* ActiveTimeline: active_room_id and what belongs to it
    window,
    \* the subscriptions still running, those of earlier windows included
    subs,
    \* the inbox of the app, in the order it is handled
    inbox,
    \* history: windows opened and cleared, over all sessions
    opened

timeline == <<selected, generation, window, subs, opened>>

-----------------------------------------------------------------------------
\* What a subscription says of the read position. "arrived" is an arrival from
\* another user, "opens" a snapshot that brings none, "ended" a page towards
\* the live end that reached it; the last two ask for another window.
Updates == {"unresolved", "anchored", "opens", "arrived", "focused", "ended",
            "toLive", "toEvent"}

\* A window is numbered by its generation, which starts over with every
\* session, and for the properties by serial, which never does. unread says that
\* something was shown since the room was last marked read; atBottom, live,
\* withheld and unresolved are the fields of ActiveTimeline.
NoWindow ==
    [room |-> None, gen |-> 0, serial |-> 0, live |-> TRUE, atBottom |-> TRUE,
     news |-> 0, visible |-> FALSE, withheld |-> FALSE, unresolved |-> FALSE,
     unread |-> FALSE]

Windows ==
    [room : Rooms \cup {None}, gen : 0..MaxWindows, serial : 0..MaxWindows,
     live : BOOLEAN, atBottom : BOOLEAN, news : 0..MaxNews, visible : BOOLEAN,
     withheld : BOOLEAN, unresolved : BOOLEAN, unread : BOOLEAN]

Stages == {"opening", "unanchored", "jumping", "open"}

Subscriptions ==
    [room : Rooms, gen : 1..MaxWindows, serial : 1..MaxWindows,
     live : BOOLEAN, stage : Stages]

TimelineInit ==
    /\ selected = None
    /\ generation = 0
    /\ window = NoWindow
    /\ subs = {}
    /\ opened = 0

IsCurrent(e) == window.room = e.room /\ window.gen = e.gen

AddNews(w) == [w EXCEPT !.news = IF @ < MaxNews THEN @ + 1 ELSE @]

\* Mutant of MarkRead: a receipt held back while hidden is not remembered.
MarkReadOrForget(w) ==
    IF w.live /\ w.visible THEN [w EXCEPT !.unread = FALSE, !.withheld = FALSE] ELSE w

\* The command goes to the subscription of the window, which lives as long.
MarkRead(w) ==
    CASE ~w.live -> w
      [] w.live /\ ~w.visible -> [w EXCEPT !.withheld = TRUE]
      [] w.live /\ w.visible -> [w EXCEPT !.withheld = FALSE, !.unread = FALSE]

MarkReadIfResolved(w) == IF w.unresolved THEN w ELSE MarkRead(w)

MarkReadAtLatest(w) == MarkRead([w EXCEPT !.unresolved = FALSE])

-----------------------------------------------------------------------------
(* Opening and clearing *)

\* Mutant of NextGeneration: a window of the room that is open keeps its number.
SameRoomKeeps(r) == IF selected = r THEN generation ELSE generation + 1

NextGeneration(r) == generation + 1

\* open_room and select_room of the timeline. tasks.cancel_and_detach leaves
\* the subscriptions before to end on their own.
OpenWindow(r, live) ==
    /\ opened < MaxWindows
    /\ opened' = opened + 1
    /\ selected' = r
    /\ generation' = NextGeneration(r)
    /\ window' = [NoWindow EXCEPT !.room = r, !.gen = NextGeneration(r),
                                  !.serial = opened + 1, !.live = live,
                                  !.visible = window.visible]
    /\ subs' = subs \cup {[room |-> r, gen |-> NextGeneration(r),
                           serial |-> opened + 1, live |-> live,
                           stage |-> "opening"]}

\* drop_selected_room: the room left the directory.
ClearWindow ==
    /\ selected # None /\ opened < MaxWindows
    /\ opened' = opened + 1
    /\ selected' = None
    /\ generation' = NextGeneration(None)
    /\ window' = [NoWindow EXCEPT !.gen = NextGeneration(None),
                                  !.visible = window.visible]
    /\ UNCHANGED subs

\* The end of the session: the subscriptions have ended, and Selection and the
\* timeline are as at the start.
ForgetWindows ==
    /\ subs = {}
    /\ selected' = None
    /\ generation' = 0
    /\ window' = NoWindow
    /\ UNCHANGED <<subs, opened>>

-----------------------------------------------------------------------------
(* The subscription and its Forwarder *)

\* What it may say next, and the stage that follows. A live window first says
\* that the read position is not known, or not; then comes the first snapshot.
\* A window around an event jumps to it, or asks for a live one when the event
\* cannot be loaded.
Says(s) ==
    CASE s.stage = "opening" /\ s.live ->
            {<<"unresolved", "unanchored">>, <<"anchored", "open">>, <<"opens", "open">>}
      [] s.stage = "opening" /\ ~s.live ->
            {<<"opens", "jumping">>, <<"toLive", "open">>}
      [] s.stage = "unanchored" -> {<<"opens", "open">>}
      [] s.stage = "jumping" -> {<<"focused", "open">>}
      [] s.stage = "open" ->
            {<<k, "open">> : k \in {"arrived", "opens", "focused", "ended", "toEvent"}}

Update(s, kind) == [kind |-> kind, room |-> s.room, gen |-> s.gen, serial |-> s.serial]

\* Also a subscription that is cancelled: the step it is in may still send.
SubscriptionSays(s) ==
    /\ Len(inbox) < MaxInbox
    /\ \E says \in Says(s) :
          /\ inbox' = Append(inbox, Update(s, says[1]))
          /\ subs' = (subs \ {s}) \cup {[s EXCEPT !.stage = says[2]]}
    /\ UNCHANGED <<selected, generation, window, opened>>

\* On its own, or for it was cancelled.
SubscriptionEnds(s) ==
    /\ subs' = subs \ {s}
    /\ UNCHANGED <<selected, generation, window, inbox, opened>>

-----------------------------------------------------------------------------
(* Handling what it said *)

Shown(w) == [w EXCEPT !.unread = TRUE]

\* settle_read_position
Advance(w, kind) ==
    CASE kind = "focused" -> [w EXCEPT !.atBottom = FALSE]
      [] kind = "unresolved" -> [w EXCEPT !.unresolved = TRUE]
      [] kind = "anchored" -> AddNews(Shown([w EXCEPT !.atBottom = FALSE]))
      [] kind \in {"opens", "arrived"} /\ w.atBottom -> MarkReadIfResolved(Shown(w))
      [] kind = "opens" /\ ~w.atBottom -> Shown(w)
      [] kind = "arrived" /\ ~w.atBottom -> AddNews(Shown(w))

\* settle_read_position and complete_pagination; the end of a window that is
\* not live asks for a live one through the inbox.
SettleUpdate(e) ==
    /\ inbox' = IF IsCurrent(e) /\ e.kind = "ended" /\ ~window.live
                THEN Append(Tail(inbox), [e EXCEPT !.kind = "toLive"])
                ELSE Tail(inbox)
    /\ window' =
          CASE ~IsCurrent(e) -> window
            [] IsCurrent(e) /\ e.kind = "ended" ->
                  IF window.live /\ window.atBottom THEN [window EXCEPT !.news = 0] ELSE window
            [] IsCurrent(e) /\ e.kind # "ended" -> Advance(window, e.kind)
    /\ UNCHANGED <<selected, generation, subs, opened>>

-----------------------------------------------------------------------------
(* What the user does to the window *)

\* The rows are on the screen, so there is a position to report.
HasRows ==
    \E s \in subs : s.serial = window.serial /\ s.stage \in {"jumping", "open"}

\* below: the messages not yet seen below the screen
ScrollPosition(atBottom, below) ==
    /\ HasRows
    /\ LET lowered == IF below < window.news THEN below ELSE window.news
           there == [window EXCEPT !.atBottom = atBottom,
                                   !.news = IF atBottom THEN 0 ELSE lowered]
       IN  window' = IF atBottom /\ ~window.atBottom THEN MarkReadAtLatest(there) ELSE there
    /\ UNCHANGED <<selected, generation, subs, inbox, opened>>

\* The live half of jump_to_latest; the other opens a live window.
JumpInWindow ==
    /\ HasRows /\ window.live
    /\ window' = MarkReadAtLatest([window EXCEPT !.atBottom = TRUE, !.news = 0])
    /\ UNCHANGED <<selected, generation, subs, inbox, opened>>


VisibilityChanged(visible) ==
    LET seen == [window EXCEPT !.visible = visible]
    IN  /\ visible # window.visible
        /\ window' = IF window.withheld /\ window.atBottom THEN MarkRead(seen) ELSE seen
        /\ UNCHANGED <<selected, generation, subs, inbox, opened>>

-----------------------------------------------------------------------------
TimelineTypeOK ==
    /\ selected \in Rooms \cup {None}
    /\ generation \in 0..MaxWindows
    /\ window \in Windows
    /\ subs \subseteq Subscriptions
    /\ opened \in 0..MaxWindows
===============================================================================
